------------------------------ MODULE Recovery ------------------------------
(***************************************************************************)
(* Disaster recovery of a service (node/node_state.h, node/share_manager.h,*)
(* the /join, /create and /recovery_share endpoints): one node reads the   *)
(* public part of the old ledger and starts a new service, nodes join it,  *)
(* members submit their recovery shares, and every node then reads the     *)
(* private part of the ledger.  Consensus is what Aft provides: the        *)
(* primary's log, which backups follow and a quorum commits.               *)
(*                                                                         *)
(* A transaction is what it does to the tables that recovery reads.  Every *)
(* transaction can be committed, as if a signature followed it.  Members   *)
(* submit good shares.                                                     *)
(***************************************************************************)
EXTENDS Integers, FiniteSetsExt, SequencesExt

CONSTANTS
  Replicas,          \* nodes; the first, 1, is started in recovery mode
  Members,           \* recovery members
  RecoveryThreshold, \* recovery_threshold of the service
  OldLedger,         \* the old ledger: TRUE for an entry that is a signature
  MaxSubmissions,    \* bound: submissions of a member
  MaxUserTxs,        \* bound: transactions of users
  MaxChanges         \* bound: changes of the primary, 0 or 1

ASSUME OneChange == MaxChanges \in {0, 1}

VARIABLES
  replica,           \* replica[n]: NodeState of node n, and its store
  primary,           \* the primary, or NoPrimary
  view_start,        \* the first seqno of the primary's view
  changes            \* changes of the primary so far

recovery_vars == <<replica, primary, view_start, changes>>

NoPrimary == 0

\* A node that has started to join: its NodeStartupState ("failed" once an
\* exception has stopped it), its log, and how far each table's hooks have run.
Started == [sm |-> "pending", log |-> <<>>, commit |-> 0,
            secrets_at |-> 0, shares_at |-> 0,
            threw |-> FALSE,         \* a hook threw in the last commit
            recovered |-> FALSE,     \* recovered_ledger_secrets is not empty
            secrets |-> FALSE,       \* the old ledger secrets are known
            recovery_v |-> 0, recovery_root |-> <<>>,
            missing |-> {}]          \* entries whose private part the store lacks

InNetwork(r) == r.sm \in {"partOfNetwork", "partOfPublicNetwork", "readingPrivateLedger"}

-----------------------------------------------------------------------------
(* The tables, after the entries of a log.                                 *)

Tx(type) == [type |-> type, who |-> NoPrimary, to |-> {}]

\* About, or by, a node or a member
TxOf(type, n) == [type |-> type, who |-> n, to |-> {}]

\* A share of member m, and the ledger secrets for the nodes in to once the
\* threshold is reached.
ShareTx(m, to) == [type |-> "share", who |-> m, to |-> to]

Positions(log, types) == {i \in DOMAIN log : log[i].type \in types}

\* Tables::SERVICE
get_service_status(log) ==
  LET writes == Positions(log, {"RECOVERING", "WAITING_FOR_RECOVERY_SHARES", "OPEN"})
  IN IF writes = {} THEN "none" ELSE log[Max(writes)].type

\* Tables::NODES
Trusted(log) == {log[i].who : i \in Positions(log, {"RECOVERING", "TRUSTED"})}

Untrusted(log) == {log[i].who : i \in Positions(log, {"PENDING"})} \ Trusted(log)

\* Tables::ENCRYPTED_SUBMITTED_SHARES, since it was last cleared
SubmittedShares(log) ==
  LET cleared_at == Max({0} \cup Positions(log, {"WAITING_FOR_RECOVERY_SHARES", "OPEN", "clear"}))
  IN {log[i].who : i \in {i \in Positions(log, {"share"}) : i > cleared_at}}

Executed(r, tx) == [r EXCEPT !.log = Append(@, tx)]

\* can_replicate
can_replicate(n) == primary = n /\ InNetwork(replica[n])

-----------------------------------------------------------------------------
(* The hooks on a commit.                                                  *)

\* setup_private_recovery_store, and the first read that follows it
setup_private_recovery_store(r) ==
  [r EXCEPT !.recovery_v = Len(r.log), !.recovery_root = r.log,
            !.sm = "readingPrivateLedger"]

\* restore_historical throws on secrets that are not older than those it has.
restore_historical(r) ==
  IF r.secrets THEN [r EXCEPT !.threw = TRUE] ELSE [r EXCEPT !.secrets = TRUE]

\* Mutant: the secrets are restored in any state.
secrets_hook_any_state(n, r, tx) ==
  LET restored == restore_historical(r)
  IN IF tx.type = "share" /\ n \in tx.to
     THEN IF ~restored.threw /\ primary # n
          THEN setup_private_recovery_store(restored) ELSE restored
     ELSE r

\* The global hook on the ledger secrets, for one entry: a backup that finds
\* its own starts to read the private ledger, backup_initiate_private_recovery.
secrets_hook(n, r, tx) ==
  LET restored == restore_historical(r)
  IN IF tx.type = "share" /\ n \in tx.to /\ r.sm = "partOfPublicNetwork"
     THEN IF ~restored.threw /\ primary # n
          THEN setup_private_recovery_store(restored) ELSE restored
     ELSE r

\* The global hook on the submitted shares, for one entry.
shares_hook(n, r, tx) ==
  LET restored == restore_historical(r)
  IN IF tx.type \in {"share", "clear", "OPEN"} /\ r.recovered
     THEN IF restored.threw THEN restored
          ELSE setup_private_recovery_store([restored EXCEPT !.recovered = FALSE])
     ELSE r

\* The store is compacted to c: the hooks of one table, then of the other.  What
\* a hook throws, consensus catches; the table's hooks run again next time.
compact_store(n, r, c) ==
  LET start == [r EXCEPT !.commit = c, !.threw = FALSE]
      run(hook(_, _, _), s, first) ==
        FoldLeft(LAMBDA x, tx : IF x.threw THEN x ELSE hook(n, x, tx), s,
                 SubSeq(r.log, first + 1, c))
      first == run(secrets_hook, start, r.secrets_at)
      second == run(shares_hook, [first EXCEPT !.secrets_at = c], r.shares_at)
  IN CASE first.threw -> first
       [] second.threw -> second
       [] OTHER -> [second EXCEPT !.shares_at = c]

-----------------------------------------------------------------------------
RecoveryInit ==
  /\ replica = [n \in Replicas |->
                  IF n = 1 THEN [Started EXCEPT !.sm = "readingPublicLedger"] ELSE Started]
  /\ primary = NoPrimary
  /\ view_start = 0
  /\ changes = 0

\* recover_public_ledger_entries: entries are applied one after the other.
recover_public_ledger_entries(n) ==
  /\ replica[n].sm = "readingPublicLedger"
  /\ primary = NoPrimary
  /\ Len(replica[n].log) < Len(OldLedger)
  /\ replica' = [replica EXCEPT ![n] = Executed(@, Tx("old"))]
  /\ UNCHANGED <<primary, view_start, changes>>

\* recover_public_ledger_end_unsafe: entries after the last signature are rolled
\* back, and the node becomes primary.
recover_public_ledger_end(n) ==
  LET signed == Max({0} \cup {i \in DOMAIN OldLedger : OldLedger[i]})
  IN /\ replica[n].sm = "readingPublicLedger"
     /\ primary = NoPrimary
     /\ Len(replica[n].log) = Len(OldLedger)
     /\ replica' = [replica EXCEPT ![n].log = SubSeq(@, 1, signed),
                                   ![n].commit = signed,
                                   ![n].secrets_at = signed,
                                   ![n].shares_at = signed]
     /\ primary' = n
     /\ view_start' = signed + 1
     /\ UNCHANGED changes

\* The boot request, a task of its own: /create, then
\* advance_part_of_public_network.
create_service(n) ==
  /\ replica[n].sm = "readingPublicLedger"
  /\ primary = n
  /\ replica' = [replica EXCEPT ![n] =
       [Executed(@, TxOf("RECOVERING", n)) EXCEPT !.sm = "partOfPublicNetwork"]]
  /\ UNCHANGED <<primary, view_start, changes>>

\* The response to node n's join request: its state follows that of the node t
\* that answers.
join_response(r, t) ==
  [r EXCEPT !.sm = IF t.sm = "partOfPublicNetwork" THEN "partOfPublicNetwork"
                   ELSE "partOfNetwork",
            !.secrets = t.secrets]

\* /join, which the node repeats while it is pending: t adds the node, or tells
\* it what it needs once it is trusted.
join_network(n, t) ==
  LET log == replica[t].log
      opening == get_service_status(log) = "RECOVERING"
  IN /\ replica[n].sm = "pending"
     /\ InNetwork(replica[t])
     /\ \/ /\ n \in Trusted(log)
           /\ replica' = [replica EXCEPT ![n] = join_response(@, replica[t])]
        \/ /\ n \notin Trusted(log) \cup Untrusted(log)
           /\ can_replicate(t)
           /\ replica' = [replica EXCEPT
                ![t] = Executed(@, TxOf(IF opening THEN "TRUSTED" ELSE "PENDING", n)),
                ![n] = IF opening THEN join_response(@, replica[t]) ELSE @]
     /\ UNCHANGED <<primary, view_start, changes>>

-----------------------------------------------------------------------------
(* Governance, at the primary p.                                           *)

\* trust_node, by a proposal
trust_node(p, n) ==
  /\ can_replicate(p)
  /\ n \in Untrusted(replica[p].log)
  /\ replica' = [replica EXCEPT ![p] = Executed(@, TxOf("TRUSTED", n))]
  /\ UNCHANGED <<primary, view_start, changes>>

\* Mutant: only a node that has read its private ledger opens the service.
transition_service_to_open_late(p) ==
  /\ can_replicate(p)
  /\ get_service_status(replica[p].log) = "RECOVERING"
  /\ replica[p].sm = "partOfNetwork"
  /\ replica' = [replica EXCEPT ![p] = Executed(@, Tx("WAITING_FOR_RECOVERY_SHARES"))]
  /\ UNCHANGED <<primary, view_start, changes>>

\* transition_service_to_open, which clears the submitted shares
transition_service_to_open(p) ==
  /\ can_replicate(p)
  /\ get_service_status(replica[p].log) = "RECOVERING"
  /\ replica[p].sm = "partOfPublicNetwork"
  /\ replica' = [replica EXCEPT ![p] = Executed(@, Tx("WAITING_FOR_RECOVERY_SHARES"))]
  /\ UNCHANGED <<primary, view_start, changes>>

\* The last share is in: the ledger secrets are restored from the shares and
\* written for the other trusted nodes.
initiate_private_recovery(p, r, m) ==
  [Executed(r, ShareTx(m, Trusted(r.log) \ {p})) EXCEPT !.recovered = TRUE]

\* POST /recovery_share.  At the threshold a node that is not part of the public
\* network cannot initiate private recovery, and the shares are cleared.
submit_recovery_share(p, m) ==
  LET r == replica[p]
      enough == Cardinality(SubmittedShares(r.log) \cup {m}) >= RecoveryThreshold
  IN /\ can_replicate(p)
     /\ get_service_status(r.log) = "WAITING_FOR_RECOVERY_SHARES"
     /\ r.sm # "readingPrivateLedger"
     /\ Cardinality({i \in Positions(r.log, {"share", "clear"}) : r.log[i].who = m}) < MaxSubmissions
     /\ replica' = [replica EXCEPT ![p] =
          CASE ~enough -> Executed(r, ShareTx(m, {}))
            [] enough /\ r.sm = "partOfPublicNetwork" ->
                 initiate_private_recovery(p, r, m)
            [] OTHER -> Executed(r, TxOf("clear", m))]
     /\ UNCHANGED <<primary, view_start, changes>>

\* A user's transaction, once the primary has committed that the service is
\* open.  Private state that is swapped in later replaces what it wrote.
user_transaction(p) ==
  LET r == replica[p]
  IN /\ can_replicate(p)
     /\ get_service_status(SubSeq(r.log, 1, r.commit)) = "OPEN"
     /\ Cardinality(Positions(r.log, {"user"})) < MaxUserTxs
     /\ replica' = [replica EXCEPT ![p] =
          [Executed(r, Tx("user")) EXCEPT
             !.missing = IF r.sm = "partOfNetwork" THEN @ ELSE @ \cup {Len(r.log) + 1}]]
     /\ UNCHANGED <<primary, view_start, changes>>

\* What recover_private_ledger_entries has read once it has reached recovery_v,
\* or the end of the host's ledger before it.
private_ledger(r) == SubSeq(r.log, 1, Min({Len(r.log), r.recovery_v}))

\* recover_private_ledger_end_unsafe: the private state of recovery_v replaces
\* that of the store, unless the version or the root differs; the primary opens
\* the service.
recover_private_ledger_end(n) ==
  LET r == replica[n]
      same == private_ledger(r) = r.recovery_root
      swapped == [r EXCEPT !.sm = "partOfNetwork", !.recovery_v = 0, !.recovery_root = <<>>,
                           !.missing = {i \in @ : i > r.recovery_v}]
  IN /\ r.sm = "readingPrivateLedger"
     /\ replica' = [replica EXCEPT ![n] =
          CASE ~same -> [r EXCEPT !.sm = "failed"]
            [] same /\ primary = n -> Executed(swapped, Tx("OPEN"))
            [] OTHER -> swapped]
     /\ UNCHANGED <<primary, view_start, changes>>

-----------------------------------------------------------------------------
(* Consensus, as Aft provides it.                                          *)

\* Backup n lacks something that the primary has.
behind(n) ==
  /\ primary \notin {NoPrimary, n}
  /\ InNetwork(replica[n]) /\ InNetwork(replica[primary])
  /\ n \in Trusted(replica[primary].log)
  /\ \/ replica[n].log # replica[primary].log
     \/ replica[n].commit < replica[primary].commit

\* Backup n receives all that the primary has, and commits what it has
\* committed.  Until a node has read the private ledger, entries are applied
\* without their private part (public_only).
append_entries(n) ==
  LET p == replica[primary]
      r == replica[n]
      agreed == Max({i \in 0..Len(r.log) : IsPrefix(SubSeq(r.log, 1, i), p.log)})
      lost == IF r.sm = "partOfNetwork" THEN {}
              ELSE {i \in Positions(p.log, {"user"}) : i > agreed}
      appended == [r EXCEPT !.log = p.log,
                            !.missing = {i \in @ : i <= agreed} \cup lost]
  IN /\ behind(n)
     /\ replica' = [replica EXCEPT ![n] =
          IF r.commit < p.commit THEN compact_store(n, appended, p.commit) ELSE appended]
     /\ UNCHANGED <<primary, view_start, changes>>

\* S holds a majority of every configuration that is active
Majority(r, S) ==
  \A i \in r.commit..Len(r.log) :
    LET nodes == Trusted(SubSeq(r.log, 1, i))
    IN nodes = {} \/ 2 * Cardinality(nodes \cap S) > Cardinality(nodes)

\* What the primary p can commit, of its own view
agreed_entries(p) ==
  LET r == replica[p]
  IN {c \in (Max({r.commit + 1, view_start}))..Len(r.log) :
        Majority(r, {m \in Replicas : IsPrefix(SubSeq(r.log, 1, c), replica[m].log)})}

commit_entries(p) ==
  /\ can_replicate(p)
  /\ agreed_entries(p) # {}
  /\ replica' = [replica EXCEPT ![p] = compact_store(p, @, Max(agreed_entries(p)))]
  /\ UNCHANGED <<primary, view_start, changes>>

\* A node that a quorum can vote for becomes primary, and signs.
change_primary(n) ==
  LET r == replica[n]
  IN /\ changes < MaxChanges
     /\ primary \notin {NoPrimary, n}
     /\ InNetwork(r)
     /\ n \in Trusted(r.log)
     /\ Majority(r, {m \in Replicas : InNetwork(replica[m]) /\ Len(replica[m].log) <= Len(r.log)})
     /\ primary' = n
     /\ changes' = changes + 1
     /\ view_start' = Len(r.log) + 1
     /\ replica' = [replica EXCEPT ![n] = Executed(@, Tx("signature"))]

RecoverySteps ==
  \/ recover_public_ledger_entries(1) \/ recover_public_ledger_end(1)
  \/ create_service(1)
  \/ \E n, t \in Replicas : join_network(n, t)
  \/ \E n \in Replicas : transition_service_to_open(n)
  \/ \E n \in Replicas, m \in Members : submit_recovery_share(n, m)
  \/ \E n \in Replicas : recover_private_ledger_end(n)

RecoveryNext ==
  \/ RecoverySteps
  \/ \E p, n \in Replicas : trust_node(p, n)
  \/ \E p \in Replicas : user_transaction(p)
  \/ \E n \in Replicas : append_entries(n)
  \/ \E n \in Replicas : commit_entries(n)
  \/ \E n \in Replicas : change_primary(n)

\* Nodes retry and read their ledgers, and members act on the service; what
\* there is to replicate or to commit is replicated and committed in the end.
RecoveryFairness ==
  /\ WF_recovery_vars(RecoverySteps)
  /\ []<>(\A n \in Replicas : ~behind(n))
  /\ []<>(\A p \in Replicas : can_replicate(p) => agreed_entries(p) = {})

RecoverySpec == RecoveryInit /\ [][RecoveryNext]_recovery_vars /\ RecoveryFairness

-----------------------------------------------------------------------------
(* Properties                                                              *)

\* Under one primary, no node ever fails to read its private ledger: the state
\* it reads is the one it set out to reach (recovery_v, recovery_root), and no
\* hook is given ledger secrets a node already has.
OnePrimaryNeverFails ==
  changes = 0 => \A n \in Replicas : replica[n].sm # "failed" /\ ~replica[n].threw

\* The primary has committed that the service is open.
ServiceIsOpen ==
  \E p \in Replicas :
    /\ primary = p
    /\ get_service_status(SubSeq(replica[p].log, 1, replica[p].commit)) = "OPEN"

\* Under one primary, the recovered service opens: members submit their shares,
\* the primary reads its private ledger and commits that the service is open.
ServiceReopens == []<>(changes = 0 => ServiceIsOpen)

\* "Raft should deserialise all security domains when network is opened": a node
\* that is part of the network holds the private writes of every transaction that
\* was executed on the open service.
AllDomainsWhenOpened ==
  \A n \in Replicas : replica[n].sm = "partOfNetwork" => replica[n].missing = {}
=============================================================================
