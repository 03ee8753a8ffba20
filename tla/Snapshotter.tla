----------------------------- MODULE Snapshotter -----------------------------
(***************************************************************************)
(* Snapshots of the store on one node: the indices at which the primary    *)
(* takes them, the evidence transaction that records the digest of each,   *)
(* the receipt for the evidence (node/snapshotter.h) and the files that    *)
(* the host keeps (host/snapshots.h).                                      *)
(*                                                                         *)
(* The snapshot is serialised by a task of the main thread, which is what  *)
(* a node without worker threads does.  A message to the host and its      *)
(* handler are one step.                                                   *)
(***************************************************************************)
EXTENDS Integers, SequencesExt

CONSTANTS
  SnapshotTxInterval,   \* snapshot_tx_interval
  MaxSeqno,             \* bound: index of the last entry
  MaxElections,         \* bound: rollbacks and changes of role
  MaxRestarts           \* bound: crashes

VARIABLES
  snap,       \* the members of Snapshotter, and the flag of the store
  raft,       \* the entries of this node, its commit index and its role
  chain,      \* the entries that the service has committed
  files       \* the snapshots in the directory of the host

snapshot_vars == <<snap, raft, chain, files>>

ASSUME SnapshotInterval == SnapshotTxInterval \in Nat \ {0}

-----------------------------------------------------------------------------
Plain == [kind |-> "plain", of |-> 0, chunk |-> FALSE]
Signature(chunk) == [kind |-> "signature", of |-> 0, chunk |-> chunk]
Evidence(idx) == [kind |-> "evidence", of |-> idx, chunk |-> FALSE]

Index(idx, forced, done) == [idx |-> idx, forced |-> forced, done |-> done]

\* A Snapshotter that starts from a snapshot at idx, or from nothing
\* (set_last_snapshot_idx, init_after_public_recovery).
FromSnapshot(idx, generation_enabled) ==
  [last_snapshot_idx |-> idx, next_snapshot_indices |-> <<Index(idx, FALSE, TRUE)>>,
   pending_snapshots |-> <<>>, tasks |-> <<>>, flag |-> FALSE,
   snapshot_generation_enabled |-> generation_enabled, thrown |-> FALSE]

SnapshotInit ==
  /\ snap = FromSnapshot(0, TRUE)
  /\ raft = [entries |-> <<>>, commit |-> 0, primary |-> TRUE, elections |-> 0, restarts |-> 0]
  /\ chain = <<>>
  /\ files = {}

Up == ~ snap.thrown

-----------------------------------------------------------------------------
(* Entries *)

\* The last index recorded that was not forced.
last_unforced_idx(s) ==
  LET unforced == {i \in DOMAIN s.next_snapshot_indices : ~ s.next_snapshot_indices[i].forced} IN
  IF unforced = {} THEN s.last_snapshot_idx ELSE s.next_snapshot_indices[Max(unforced)].idx

is_due(s, idx) == idx - last_unforced_idx(s) >= SnapshotTxInterval

\* record_committable, called for each signature of the primary.
record_committable(s, idx) ==
  IF is_due(s, idx) \/ s.flag
  THEN [s EXCEPT
         !.next_snapshot_indices = Append(@, Index(idx, ~ is_due(s, idx), FALSE)),
         !.flag = FALSE]
  ELSE s

\* record_signature and record_serialised_tree, the hooks of every signature.
record_signature(s, idx) ==
  [s EXCEPT !.pending_snapshots = [i \in DOMAIN @ |->
     IF @[i].evidence_idx < idx /\ @[i].sig = 0 THEN [@[i] EXCEPT !.sig = idx] ELSE @[i]]]

\* A transaction, which may ask for a snapshot at the next signature.
snap_transaction(trigger_snapshot) ==
  /\ Up /\ raft.primary /\ Len(raft.entries) < MaxSeqno
  /\ raft' = [raft EXCEPT !.entries = Append(@, Plain)]
  /\ snap' = [snap EXCEPT !.flag = @ \/ trigger_snapshot]
  /\ UNCHANGED <<chain, files>>

\* CommittableTx::commit_reserved and Store::must_force_ledger_chunk: a chunk of
\* the ledger ends at a signature at which a snapshot may be taken.
snap_signature ==
  LET idx == Len(raft.entries) + 1 IN
  /\ Up /\ raft.primary /\ idx <= MaxSeqno
  /\ raft' = [raft EXCEPT !.entries = Append(@, Signature(snap.flag \/ is_due(snap, idx)))]
  /\ snap' = record_committable(record_signature(snap, idx), idx)
  /\ UNCHANGED <<chain, files>>

\* An entry from the primary.  A node that was restarted is sent what the
\* service has committed.
snap_receive(entry) ==
  LET idx == Len(raft.entries) + 1 IN
  /\ Up /\ ~ raft.primary /\ idx <= MaxSeqno
  /\ idx <= Len(chain) => entry = chain[idx]
  /\ raft' = [raft EXCEPT !.entries = Append(@, entry)]
  /\ snap' = IF entry.kind = "signature" THEN record_signature(snap, idx) ELSE snap
  /\ UNCHANGED <<chain, files>>

\* Mutant: the snapshots that await a receipt outlive their evidence.
rollback_snapshots_keep(s, idx) ==
  LET kept == SelectSeq(s.next_snapshot_indices, LAMBDA e : e.idx <= idx) IN
  [s EXCEPT
    !.next_snapshot_indices =
      IF kept = <<>> THEN <<Index(s.last_snapshot_idx, FALSE, TRUE)>> ELSE kept]

\* Snapshotter::rollback.  Both queues are in increasing order.
rollback_snapshots(s, idx) ==
  LET kept == SelectSeq(s.next_snapshot_indices, LAMBDA e : e.idx <= idx) IN
  [s EXCEPT
    !.next_snapshot_indices =
      IF kept = <<>> THEN <<Index(s.last_snapshot_idx, FALSE, TRUE)>> ELSE kept,
    !.pending_snapshots = SelectSeq(@, LAMBDA p : p.evidence_idx <= idx)]

\* Store::rollback, when a backup replaces entries or when the node becomes
\* primary, which keeps entries up to the last signature.
snap_rollback(idx, primary) ==
  /\ Up /\ raft.elections < MaxElections
  /\ idx \in raft.commit..Len(raft.entries)
  /\ primary => /\ Len(raft.entries) >= Len(chain)
                /\ idx = Max({raft.commit} \union
                     {i \in DOMAIN raft.entries : raft.entries[i].kind = "signature"})
  /\ raft' = [raft EXCEPT
       !.entries = SubSeq(@, 1, idx), !.primary = primary, !.elections = @ + 1]
  /\ snap' = [rollback_snapshots(snap, idx) EXCEPT
       !.flag = @ /\ idx = Len(raft.entries)]
  /\ UNCHANGED <<chain, files>>

-----------------------------------------------------------------------------
(* Commit *)

\* The indices that update_indices leaves: from the last one committed on.
IndicesFrom(indices, idx) ==
  LET first == Max({1} \union {i \in DOMAIN indices : indices[i].idx <= idx}) IN
  SubSeq(indices, first, Len(indices))

Committed(s, idx) == {p \in Range(s.pending_snapshots) : idx > p.evidence_idx}

\* SnapshotManager::commit_snapshot: one of the files for the snapshot, if there
\* is any, gets the receipt and its final name.
AfterCommit(fs, p) ==
  LET open == {f \in fs : f.idx = p.idx /\ f.receipt = 0} IN
  IF open = {} THEN {fs}
  ELSE {(fs \ {f}) \union {[f EXCEPT !.receipt = p.evidence_idx]} : f \in open}

\* What update_indices may leave on disk when idx is committed.
FilesAtCommit(s, idx) ==
  FoldLeft(LAMBDA sets, p : UNION {AfterCommit(fs, p) : fs \in sets}, {files},
           SelectSeq(s.pending_snapshots, LAMBDA p : p \in Committed(s, idx)))

\* Snapshotter::commit, called by Store::compact before the store is compacted.
\* Store::snapshot throws at an index before the last compacted one.
commit_snapshotter(s, idx) ==
  LET indices == IndicesFrom(s.next_snapshot_indices, idx)
      next    == indices[1]
      due     == next.idx - s.last_snapshot_idx >= SnapshotTxInterval
      takes   == /\ due \/ (next.forced /\ ~ next.done)
                 /\ s.snapshot_generation_enabled /\ raft.primary /\ next.idx # 0
  IN [s EXCEPT
       !.next_snapshot_indices = IF takes THEN [indices EXCEPT ![1].done = TRUE] ELSE indices,
       !.pending_snapshots = SelectSeq(@, LAMBDA p : p \notin Committed(s, idx)),
       !.tasks = IF takes THEN Append(@, next.idx) ELSE @,
       !.last_snapshot_idx = IF due /\ ~ next.forced THEN next.idx ELSE @,
       !.thrown = idx < s.last_snapshot_idx
                  \/ (takes /\ next.idx < raft.commit)
                  \/ \E p \in Committed(s, idx) : p.sig = 0]

snap_commit(idx) ==
  /\ Up /\ idx \in (raft.commit + 1)..Len(raft.entries)
  /\ raft.entries[idx].kind = "signature"
  /\ snap' = commit_snapshotter(snap, idx)
  /\ files' \in FilesAtCommit(snap, idx)
  /\ raft' = [raft EXCEPT !.commit = idx]
  /\ chain' = IF idx > Len(chain) THEN SubSeq(raft.entries, 1, idx) ELSE chain

\* The task scheduled by Snapshotter::commit (snapshot_): a primary commits the
\* evidence, and the host writes the file unless it has one with that name.
snap_task ==
  LET idx  == Head(snap.tasks)
      seqno == Len(raft.entries) + 1
      same == {f \in files : f.idx = idx /\ f.evidence_idx = seqno /\ f.receipt = 0}
  IN
  /\ Up /\ snap.tasks # <<>>
  /\ IF raft.primary
     THEN /\ seqno <= MaxSeqno
          /\ raft' = [raft EXCEPT !.entries = Append(@, Evidence(idx))]
          /\ files' = IF same # {} THEN files
                      ELSE files \union {[idx |-> idx, evidence_idx |-> seqno, receipt |-> 0]}
          /\ snap' = [snap EXCEPT !.tasks = Tail(@),
               !.pending_snapshots = Append(@, [idx |-> idx, evidence_idx |-> seqno, sig |-> 0])]
     ELSE /\ snap' = [snap EXCEPT !.tasks = Tail(@)]
          /\ UNCHANGED <<raft, files>>
  /\ UNCHANGED chain

-----------------------------------------------------------------------------
(* Crash and restart *)

\* SnapshotManager::find_latest_committed_snapshot.
latest_committed_snapshot == Max({0} \union {f.idx : f \in {g \in files : g.receipt # 0}})

\* The node joins again from its latest snapshot, or it recovers the service
\* from it and from the ledger; then no snapshot is taken until the private
\* ledger is recovered as well.
snap_restart(recovers) ==
  /\ raft.restarts < MaxRestarts
  /\ LET from == latest_committed_snapshot
         upto == IF recovers THEN Len(chain) ELSE from
     IN /\ snap' = FromSnapshot(from, ~ recovers)
        /\ raft' = [entries |-> SubSeq(chain, 1, upto), commit |-> upto, primary |-> recovers,
                    elections |-> raft.elections, restarts |-> raft.restarts + 1]
  /\ UNCHANGED <<chain, files>>

\* The end of the recovery of the private ledger.
set_snapshot_generation ==
  /\ Up /\ ~ snap.snapshot_generation_enabled
  /\ snap' = [snap EXCEPT !.snapshot_generation_enabled = TRUE]
  /\ UNCHANGED <<raft, chain, files>>

SnapshotNext ==
  \/ \E trigger_snapshot \in BOOLEAN : snap_transaction(trigger_snapshot)
  \/ snap_signature
  \/ \E entry \in {Plain, Signature(TRUE), Signature(FALSE)} \union Range(chain) :
       snap_receive(entry)
  \/ \E idx \in 0..MaxSeqno, primary \in BOOLEAN : snap_rollback(idx, primary)
  \/ \E idx \in 1..MaxSeqno : snap_commit(idx)
  \/ snap_task
  \/ \E recovers \in BOOLEAN : snap_restart(recovers)
  \/ set_snapshot_generation

SnapshotSpec == SnapshotInit /\ [][SnapshotNext]_snapshot_vars

-----------------------------------------------------------------------------
(* Properties *)

\* A snapshot that the host has marked as committed can be trusted: it was taken
\* at a committed index at which a chunk of the ledger ends (what Ledger::init
\* expects of a node that joins from it), and its receipt is for a committed
\* transaction that records this very snapshot, whatever was rolled back in the
\* meantime (Snapshotter::update_indices, rollback, Store::must_force_ledger_chunk).
CommittedSnapshotsSound ==
  \A f \in files : f.receipt # 0 =>
    /\ f.idx <= Len(chain) /\ chain[f.idx].kind = "signature" /\ chain[f.idx].chunk
    /\ f.receipt <= Len(chain) /\ chain[f.receipt] = Evidence(f.idx)

=============================================================================
