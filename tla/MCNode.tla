------------------------------- MODULE MCNode -------------------------------
(***************************************************************************)
(* The components of a node around consensus and the store, one at a time: *)
(* part names the component that runs, the others stay where they start.   *)
(* They share no state, so that the reachable states of each are those of  *)
(* its own specification, and one run checks all of them.                  *)
(***************************************************************************)
EXTENDS HostLedger, Snapshotter, RingBuffer, Channels, HistoricalQueries, MCRecovery

VARIABLE part

node_vars == <<ledger_vars, snapshot_vars, ring_vars, channel_vars, query_vars,
               recovery_vars, part>>

NodeInit ==
  /\ LedgerInit
  /\ SnapshotInit
  /\ RingInit
  /\ ChannelInit
  /\ QueryInit
  /\ RecoveryInit
  /\ part \in {"ledger", "snapshots", "ring", "channels", "queries", "recovery"}
  /\ part # "ledger" => ledger.node = Running
  /\ part # "ring" => \A w \in RingWriters : ~writers[w].blocking

NodeNext ==
  \/ /\ part = "ledger" /\ LedgerNext
     /\ UNCHANGED <<snapshot_vars, ring_vars, channel_vars, query_vars, recovery_vars, part>>
  \/ /\ part = "snapshots" /\ SnapshotNext
     /\ UNCHANGED <<ledger_vars, ring_vars, channel_vars, query_vars, recovery_vars, part>>
  \/ /\ part = "ring" /\ RingNext
     /\ UNCHANGED <<ledger_vars, snapshot_vars, channel_vars, query_vars, recovery_vars, part>>
  \/ /\ part = "channels" /\ ChannelNext
     /\ UNCHANGED <<ledger_vars, snapshot_vars, ring_vars, query_vars, recovery_vars, part>>
  \/ /\ part = "queries" /\ QueryNext
     /\ UNCHANGED <<ledger_vars, snapshot_vars, ring_vars, channel_vars, recovery_vars, part>>
  \/ /\ part = "recovery" /\ RecoveryNext
     /\ UNCHANGED <<ledger_vars, snapshot_vars, ring_vars, channel_vars, query_vars, part>>

\* The fairness of each component, for the one that runs.
NodeFairness ==
  /\ WF_ring_vars(part = "ring" /\ ReaderNext)
  /\ \A w \in RingWriters : WF_ring_vars(part = "ring" /\ WriterNext(w))
  /\ \A n \in ChannelNode :
       /\ WF_channel_vars(part = "channels" /\ channel_send(n, TRUE))
       /\ WF_channel_vars(part = "channels" /\ NodeReceives(n))
  /\ \A h \in DOMAIN Callers : []<>(part = "queries" => performed = h)
  /\ []<>(part = "queries" => performed = Host \/ reads = {})
  /\ WF_recovery_vars(part = "recovery" /\ RecoverySteps)
  /\ []<>(part = "recovery" => \A n \in Replicas : ~behind(n))
  /\ []<>(part = "recovery" => \A p \in Replicas : can_replicate(p) => agreed_entries(p) = {})

NodeSpec == NodeInit /\ [][NodeNext]_node_vars /\ NodeFairness

-----------------------------------------------------------------------------
(* The liveness properties of the components, for the one that runs.       *)

\* Every message written to a ring buffer is dispatched in the end, whether its
\* writer waits for space or queues (EveryMessageDispatched of RingBuffer).
RingDispatches == []<>(part = "ring" => AllDispatched)

\* A channel on which no message is lost is established again and again
\* (ChannelEstablished of Channels).
ChannelConnects == []<>(part = "channels" => Established \/ OutOfShares \/ faults > 0)


\* Under one primary, the recovered service opens (ServiceReopens of Recovery).
RecoveryEnds == []<>(part = "recovery" /\ changes = 0 => ServiceIsOpen)

-----------------------------------------------------------------------------
(* Values of the constants.                                                *)

\* The ledger that a joining node receives: two entries, the second of which
\* can be committed and ends a chunk.
MCServiceAtJoin ==
  << [generation |-> 0, committable |-> FALSE, before |-> FALSE, after |-> FALSE],
     [generation |-> 0, committable |-> TRUE, before |-> FALSE, after |-> TRUE] >>

CONSTANTS w1, w2

Pair(a, b) == [w \in {w1, w2} |-> IF w = w1 THEN a ELSE b]

\* Two threads that wait for space; one that waits and sends more than a
\* fragment; two that queue, and one of them sends more than a fragment.
MCSetups ==
  { [blocking |-> Pair(TRUE, TRUE), sizes |-> Pair(<<2, 1>>, <<1, 2>>)],
    [blocking |-> Pair(TRUE, TRUE), sizes |-> Pair(<<3, 1, 1>>, <<>>)],
    [blocking |-> Pair(FALSE, FALSE), sizes |-> Pair(<<3>>, <<1, 2>>)] }

\* Six entries, of which two are signatures over what precedes them, and two
\* past secrets: the earlier one is kept in the entry 5.
MCEntries ==
  [i \in 1..6 |-> CASE i = 4 -> [signature |-> TRUE, from |-> 1]
                    [] i = 6 -> [signature |-> TRUE, from |-> 4]
                    [] OTHER -> [signature |-> FALSE, from |-> 0]]

MCPastSecrets == << [version |-> 1, stored |-> 0], [version |-> 4, stored |-> 5] >>

\* Callers whose ranges overlap, with and without receipts
MCCallers ==
  << {[seqnos |-> {1}, receipts |-> TRUE]},
     {[seqnos |-> {4, 5}, receipts |-> FALSE]},
     {[seqnos |-> {3, 5}, receipts |-> TRUE]} >>
=============================================================================
