------------------------------- MODULE Store -------------------------------
(***************************************************************************)
(* The key-value store of one node (kv/store.h, kv/untyped_map.h), the     *)
(* transactions that worker threads run on it (kv/tx.cpp,                  *)
(* kv/committable_tx.h, rpc/frontend.h), the signatures that are issued    *)
(* over it (node/history.h), and the calls that consensus makes into it.   *)
(*                                                                         *)
(* Every action is what one thread does under one lock.  apply_changes     *)
(* holds the locks of all maps it writes from its first check to its last  *)
(* write, so that it is one action too.  Consensus calls rollback, compact *)
(* and deserialise from the main thread; each is one action.               *)
(***************************************************************************)
EXTENDS Integers, SequencesExt

CONSTANTS
  Map, Key,        \* names of maps, and the keys of each of them
  Worker,          \* threads that process requests
  Timer,           \* the thread whose timer emits signatures
  Nil,             \* no value
  Requests,        \* Requests[t]: the requests of worker t, each the operations
                   \* on maps that it makes, in order
  Received,        \* write sets of entries that other primaries replicate
  SigTxInterval,   \* sig_tx_interval
  MaxAttempts,     \* max_attempts
  Overlap,         \* whether view changes meet requests that are half done
  SizeModulus,     \* the number of values of a size_t
  MaxVersion,      \* bound: no version beyond this one
  MaxView          \* bound: no view beyond this one

VARIABLES
  kv,              \* the Store, its history and the calls of global hooks
  aft,             \* what the store can see of the consensus object
  thread,          \* thread[t]: the transaction or signature of thread t
  failed           \* transactions answered with FAIL_NO_REPLICATE

vars == <<kv, aft, thread, failed>>

Thread == Worker \union {Timer}

ASSUME StoreConstants ==
  /\ IsFiniteSet(Map) /\ IsFiniteSet(Key) /\ IsFiniteSet(Worker)
  /\ Timer \notin Worker /\ Overlap \in BOOLEAN
  /\ SizeModulus > MaxVersion + SigTxInterval
  /\ SigTxInterval \in Nat \ {0} /\ MaxAttempts \in Nat \ {0}

-----------------------------------------------------------------------------
(* Maps: a roll of local commits, oldest first *)

NoMap == -1

\* A key that was never written has version 0 (NoVersion), a removed key has
\* the negated version of its removal.  A value is identified by the
\* transaction that wrote it.
EmptyState == [k \in Key |-> [version |-> 0, value |-> Nil]]

\* writes says whether the write set is still to be given to the global hook.
NewRoll(counter) ==
  [commits |-> <<[version |-> 0, state |-> EmptyState, writes |-> FALSE]>>,
   rollback_counter |-> counter]

LastAt(commits, v) == Max({0} \union {i \in DOMAIN commits : commits[i].version <= v})

get_tail(r) == r.commits[Len(r.commits)]

\* w[k] is "put" or "remove".
write_keys(state, v, w, id) ==
  [k \in Key |->
    IF k \notin DOMAIN w THEN state[k]
    ELSE IF w[k] = "put" THEN [version |-> v, value |-> id]
    ELSE IF state[k].version # 0 THEN [version |-> -v, value |-> Nil]
    ELSE state[k]]

\* Mutant: the local commit is recorded one version early.
commit_map_early(r, v, w, id) ==
  [r EXCEPT !.commits = Append(@,
     [version |-> v - 1, state |-> write_keys(get_tail(r).state, v, w, id), writes |-> TRUE])]

commit_map(r, v, w, id) ==
  IF \E k \in DOMAIN w : w[k] = "put" \/ get_tail(r).state[k].version # 0
  THEN [r EXCEPT !.commits = Append(@,
          [version |-> v, state |-> write_keys(get_tail(r).state, v, w, id),
           writes |-> TRUE])]
  ELSE r

\* Mutant: one version too many is kept.
rollback_map_off_by_one(r, v) ==
  LET keep == Max({1, LastAt(r.commits, v + 1)}) IN
  [commits |-> SubSeq(r.commits, 1, keep), rollback_counter |-> r.rollback_counter + 1]

rollback_map(r, v) ==
  LET keep == Max({1, LastAt(r.commits, v)}) IN
  IF keep = Len(r.commits) THEN r
  ELSE [commits |-> SubSeq(r.commits, 1, keep),
        rollback_counter |-> r.rollback_counter + 1]

\* Mutants: the compacted commit itself is discarded; its writes are kept for
\* the next call of the hook.
compact_map_all(r, v) ==
  [r EXCEPT !.commits = SubSeq(@, LastAt(@, v) + 1, Len(@))]

compact_map_keep_writes(r, v) ==
  [r EXCEPT !.commits = SubSeq(@, LastAt(@, v), Len(@))]

\* What compact discards, and the local commits it passes to the global hook.
compact_map(r, v) ==
  LET head == LastAt(r.commits, v) IN
  [r EXCEPT !.commits =
    [i \in 1..(Len(@) - head + 1) |->
      IF i = 1 THEN [@[head] EXCEPT !.writes = FALSE] ELSE @[head + i - 1]]]

commit_deltas(r, v) ==
  SelectSeq(SubSeq(r.commits, 1, LastAt(r.commits, v)), LAMBDA c : c.writes)

-----------------------------------------------------------------------------
(* The store.  s is the value of kv; each operator is a method. *)

get_map(s, v, m) == s.created[m] # NoMap /\ v >= s.created[m]

next_version(s) ==
  [s EXCEPT !.version = @ + 1, !.term_of_last_version = s.term_of_next_version]

\* size_t: the difference is taken modulo the number of its values.
committable_gap(s) == (s.version - s.last_committable) % SizeModulus

rollback(s, term, v, term_of_next_version) ==
  LET told == [s EXCEPT
        !.term_of_next_version = term_of_next_version,
        !.term_of_last_version = term,
        !.tree = SubSeq(@, 1, v)]
  IN
  IF v >= s.version THEN told
  ELSE [told EXCEPT
    !.version = v,
    !.last_replicated = v,
    !.rollback_count = @ + 1,
    !.pending_txs = <<>>,
    !.roll = [m \in Map |-> IF s.created[m] = NoMap THEN @[m] ELSE rollback_map(@[m], v)],
    !.created = [m \in Map |-> IF @[m] > v THEN NoMap ELSE @[m]]]

compact(s, v) ==
  IF v > s.version THEN s
  ELSE [s EXCEPT
    !.roll = [m \in Map |-> compact_map(@[m], v)],
    !.compacted = v,
    !.hooked = [m \in Map |->
      @[m] \o [i \in 1..Len(commit_deltas(s.roll[m], v)) |->
                 commit_deltas(s.roll[m], v)[i].version]]]

\* commit of every map of a write set ws at version v; maps that ws creates
\* are added to the store.
commit_changes(s, v, ws, id) ==
  [s EXCEPT
    !.created = [m \in Map |-> IF m \in DOMAIN ws /\ @[m] = NoMap THEN v ELSE @[m]],
    !.roll = [m \in Map |->
      IF m \notin DOMAIN ws THEN @[m]
      ELSE IF s.created[m] = NoMap
           THEN commit_map(NewRoll(@[m].rollback_counter), v, ws[m], id)
           ELSE commit_map(@[m], v, ws[m], id)]]

\* fill_maps: an entry with version v drops every local commit from v on.
fill_maps(s, v) == rollback(s, s.term_of_last_version, v - 1, s.term_of_next_version)

commit_deserialised(s, v, term) ==
  [s EXCEPT !.version = v, !.last_replicated = v, !.term_of_last_version = term]

\* CFTExecutionWrapper::apply: the entry is committed at its own version and
\* appended to the history.
deserialise(s, entry) ==
  LET v == entry.version
      committed == commit_changes(fill_maps(s, v), v, entry.ws, entry.id)
  IN [commit_deserialised(committed, v, entry.term) EXCEPT !.tree = Append(@, entry.id)]

-----------------------------------------------------------------------------
(* Consensus, as far as the store can tell *)

last_idx == Len(aft.ledger)

TermAt(i) == IF i = 0 THEN 0 ELSE aft.ledger[i].view

last_committable_index ==
  Max({aft.commit_idx} \union {i \in DOMAIN aft.ledger : aft.ledger[i].type = "sig"})

Idle ==
  [pc |-> "idle", request |-> <<>>, next_op |-> 1, attempts |-> 0,
   read_version |-> Nil, commit_view |-> 0, rollbacks |-> 0, changes |-> <<>>,
   type |-> "tx", version |-> 0, batch |-> <<>>, view |-> 0, seen |-> <<0, 0>>]

Init ==
  /\ kv = [version |-> 0, compacted |-> 0, term_of_next_version |-> 1,
           term_of_last_version |-> 1, last_replicated |-> 0,
           last_committable |-> 0, rollback_count |-> 0,
           pending_txs |-> <<>>, created |-> [m \in Map |-> NoMap],
           roll |-> [m \in Map |-> NewRoll(0)], tree |-> <<>>,
           commit_lock |-> Nil, hooked |-> [m \in Map |-> <<>>]]
  /\ \E leader \in BOOLEAN :
       aft = [leader |-> leader, view |-> 1, ledger |-> <<>>, commit_idx |-> 0,
              should_sign |-> leader, is_new_follower |-> FALSE]
  /\ thread = [t \in Thread |-> Idle]
  /\ failed = {}

-----------------------------------------------------------------------------
(* Executing a request *)

WritesNothing(request) ==
  \A i \in DOMAIN request : request[i].put = {} /\ request[i].remove = {}

Active == {t \in Thread : thread[t].pc # "idle"}

\* Unless Overlap, nothing but requests that only read is under way on a backup
\* when it takes entries, is elected or begins another request.
OnlyReaders ==
  Overlap \/ \A t \in Active : thread[t].pc \in {"execute", "apply"}
                               /\ WritesNothing(thread[t].request)

\* Bound: a request or the timer only begins when a version is left for it.
VersionLeft ==
  kv.version + Cardinality({t \in Active : thread[t].version = 0}) < MaxVersion

\* process_command: a backup forwards requests that write.
process_command(t) ==
  /\ thread[t].pc = "idle" /\ t \in Worker
  /\ VersionLeft
  /\ \E request \in Requests[t] :
       /\ aft.leader \/ (WritesNothing(request) /\ OnlyReaders)
       /\ thread' = [thread EXCEPT ![t] =
            [Idle EXCEPT !.pc = "execute", !.request = request, !.attempts = 1]]
  /\ UNCHANGED <<kv, aft, failed>>

\* What a thread does when its transaction conflicts.
retry(th) ==
  IF th.attempts < MaxAttempts
  THEN [Idle EXCEPT !.pc = "execute", !.request = th.request,
                    !.attempts = th.attempts + 1]
  ELSE Idle

\* The version that all maps are queried at, taken with the first handle.
\* rollbacks is kept for the properties only.
current_txid_and_commit_term(t) ==
  /\ thread[t].pc = "execute" /\ thread[t].read_version = Nil
  /\ thread' = [thread EXCEPT
       ![t].read_version = kv.version,
       ![t].commit_view = kv.term_of_next_version,
       ![t].rollbacks = kv.rollback_count]
  /\ UNCHANGED <<kv, aft, failed>>


\* The change set of a map, after the handle's reads and writes have run.  A
\* map the store does not have at the read version is created by the
\* transaction, and belongs to it (own) until it commits.
change_set(th, op) ==
  LET m     == op.map
      own   == ~ get_map(kv, th.read_version, m)
      i     == LastAt(kv.roll[m].commits, th.read_version)
      c     == IF own THEN NewRoll(0).commits[1] ELSE kv.roll[m].commits[i]
      wrote == op.put \union {k \in op.remove : c.state[k].version # 0}
  IN [own |-> own, rollback_counter |-> kv.roll[m].rollback_counter,
      start_version |-> c.version, state |-> c.state,
      reads |-> op.get, foreach |-> op.foreach,
      writes |-> [k \in wrote |-> IF k \in op.put THEN "put" ELSE "remove"]]

\* No local commit at or before the read version is left.
compacted_version_conflict(th, m) ==
  get_map(kv, th.read_version, m) /\ LastAt(kv.roll[m].commits, th.read_version) = 0

get_handle(t) ==
  LET th == thread[t] IN
  /\ th.pc = "execute" /\ th.read_version # Nil
  /\ thread' = [thread EXCEPT ![t] =
       LET op == th.request[th.next_op] IN
       IF compacted_version_conflict(th, op.map) THEN retry(th)
       ELSE [th EXCEPT
              !.changes = [m \in DOMAIN @ \union {op.map} |->
                             IF m = op.map THEN change_set(th, op) ELSE @[m]],
              !.next_op = @ + 1,
              !.pc = IF th.next_op = Len(th.request) THEN "apply" ELSE @]]
  /\ UNCHANGED <<kv, aft, failed>>

-----------------------------------------------------------------------------
(* Committing a transaction *)

\* Mutant: the versions of the keys read are not compared.
prepare_unchecked(c, m) ==
  \/ c.writes = <<>>
  \/ /\ c.own \/ c.rollback_counter = kv.roll[m].rollback_counter
     /\ (c.foreach /\ c.start_version # 0) => c.start_version = get_tail(kv.roll[m]).version

\* HandleCommitter::prepare.  A map that is only read is not checked.
prepare(c, m) ==
  \/ c.writes = <<>>
  \/ /\ c.own \/ c.rollback_counter = kv.roll[m].rollback_counter
     /\ (c.foreach /\ c.start_version # 0) => c.start_version = get_tail(kv.roll[m]).version
     /\ \A k \in c.reads :
          c.state[k].version = IF c.own THEN 0 ELSE get_tail(kv.roll[m]).state[k].version

\* None of the maps that the transaction creates exists by now.
no_new_map_conflict(changes) ==
  \A m \in DOMAIN changes : ~ (changes[m].own /\ get_map(kv, kv.version, m))

WriteSet(changes) ==
  [m \in {n \in DOMAIN changes : changes[n].writes # <<>>} |-> changes[m].writes]

TxIdentity(th, t, v) == <<th.commit_view, v, t>>

\* CommittableTx::commit up to the call of Store::commit.
apply_changes(t) ==
  LET th == thread[t]
      v  == kv.version + 1
      ws == WriteSet(th.changes)
  IN
  /\ th.pc = "apply"
  /\ IF ~ ( (\A m \in DOMAIN th.changes : prepare(th.changes[m], m))
            /\ no_new_map_conflict(th.changes) )
     THEN thread' = [thread EXCEPT ![t] = retry(th)] /\ UNCHANGED kv
     ELSE IF ws = <<>>
     THEN thread' = [thread EXCEPT ![t] = [Idle EXCEPT !.pc = "sign"]] /\ UNCHANGED kv
     ELSE /\ kv' = commit_changes(next_version(kv), v, ws, TxIdentity(th, t, v))
          /\ thread' = [thread EXCEPT ![t] = [th EXCEPT
               !.pc = "commit", !.version = v,
               !.request = <<>>, !.next_op = 1, !.attempts = 0]]
  /\ UNCHANGED <<aft, failed>>

\* The entry a pending transaction turns into.  reads is not part of the entry
\* in the code; it keeps what the transaction saw, for the properties.
Pending(th, t) ==
  [version |-> th.version, term |-> th.commit_view, type |-> th.type,
   id |-> TxIdentity(th, t, th.version), ws |-> WriteSet(th.changes),
   reads |-> {<<m, k, th.changes[m].state[k].value>> : <<m, k>> \in
                {p \in (DOMAIN WriteSet(th.changes)) \X Key :
                   p[2] \in th.changes[p[1]].reads \/ th.changes[p[1]].foreach}}]

\* Mutant: one transaction at a time, even when later ones already wait.
Ready_one(s) == IF s.last_replicated + 1 \in DOMAIN s.pending_txs THEN 1 ELSE 0

Ready(s) ==
  LET run == {n \in 0..Cardinality(DOMAIN s.pending_txs) :
                \A i \in 1..n : s.last_replicated + i \in DOMAIN s.pending_txs}
  IN Max(run)

\* Mutant: signatures sign the root that the batch starts from.
batch_of_early_root(s) ==
  LET p(i) == s.pending_txs[s.last_replicated + i]
  IN [i \in 1..Ready(s) |->
       [version |-> p(i).version, term |-> p(i).term, type |-> p(i).type,
        id |-> p(i).id, ws |-> p(i).ws,
        reads |-> p(i).reads, view |-> s.term_of_next_version,
        root |-> IF p(i).type = "sig" THEN s.tree ELSE <<>>]]

\* pending_tx->call(), in order: a signature signs the root of the tree as it is
\* when its turn comes, and every entry is appended to the tree.
batch_of(s) ==
  LET p(i) == s.pending_txs[s.last_replicated + i]
      root(i) == s.tree \o [j \in 1..(i - 1) |-> p(j).id]
  IN [i \in 1..Ready(s) |->
       [version |-> p(i).version, term |-> p(i).term, type |-> p(i).type,
        id |-> p(i).id, ws |-> p(i).ws,
        reads |-> p(i).reads, view |-> s.term_of_next_version,
        root |-> IF p(i).type = "sig" THEN root(i) ELSE <<>>]]

AfterSuccess(th) == IF th.type = "sig" THEN Idle ELSE [Idle EXCEPT !.pc = "sign"]

AnswerFailure(t) ==
  /\ failed' = failed \union
       IF thread[t].type = "tx" THEN {TxIdentity(thread[t], t, thread[t].version)} ELSE {}
  /\ thread' = [thread EXCEPT ![t] = Idle]

\* Store::commit up to the call of replicate.
commit(t) ==
  LET th == thread[t]
      v  == th.version
      s1 == [kv EXCEPT
              !.last_committable = IF th.type = "sig" /\ v > @ THEN v ELSE @,
              !.pending_txs = [i \in DOMAIN @ \union {v} |->
                IF i \in DOMAIN @ THEN @[i] ELSE Pending(th, t)]]
      batch == batch_of(s1)
  IN
  /\ th.pc = "commit" /\ kv.commit_lock = Nil
  /\ IF th.commit_view # kv.term_of_next_version /\ aft.leader
     THEN AnswerFailure(t) /\ UNCHANGED kv
     ELSE IF batch = <<>>
     THEN /\ kv' = s1
          /\ thread' = [thread EXCEPT ![t] = AfterSuccess(th)]
          /\ UNCHANGED failed
     ELSE /\ kv' = [s1 EXCEPT
               !.commit_lock = t,
               !.tree = @ \o [i \in DOMAIN batch |-> batch[i].id],
               !.pending_txs = [i \in DOMAIN @ \ {batch[j].version : j \in DOMAIN batch}
                                  |-> @[i]]]
          /\ thread' = [thread EXCEPT ![t] = [th EXCEPT
               !.pc = "replicate", !.changes = <<>>, !.read_version = Nil, !.rollbacks = 0,
               !.batch = batch, !.view = kv.term_of_next_version,
               !.seen = <<kv.last_replicated, kv.rollback_count>>]]
          /\ UNCHANGED failed
  /\ UNCHANGED aft

\* Aft::replicate of the batch.  A node that is not the leader rolls back what
\* the store holds beyond the ledger.
replicate(t) ==
  LET th == thread[t] IN
  /\ th.pc = "replicate"
  /\ IF ~ aft.leader
     THEN /\ kv' = [rollback(kv, TermAt(last_idx), last_idx, aft.view)
                      EXCEPT !.commit_lock = Nil]
          /\ AnswerFailure(t) /\ UNCHANGED aft
     ELSE IF th.view # aft.view \/ th.batch[1].version # last_idx + 1
     THEN /\ kv' = [kv EXCEPT !.commit_lock = Nil]
          /\ AnswerFailure(t) /\ UNCHANGED aft
     ELSE /\ aft' = [aft EXCEPT !.ledger = @ \o th.batch]
          /\ thread' = [thread EXCEPT ![t].pc = "replicated"]
          /\ UNCHANGED <<kv, failed>>

\* The rest of Store::commit, after replicate has returned true.
set_last_replicated(t) ==
  LET th == thread[t] IN
  /\ th.pc = "replicated"
  /\ kv' = [kv EXCEPT
       !.commit_lock = Nil,
       !.last_replicated =
          IF th.seen = <<@, kv.rollback_count>> THEN @ + Len(th.batch) ELSE @]
  /\ thread' = [thread EXCEPT ![t] = AfterSuccess(th)]
  /\ UNCHANGED <<aft, failed>>

-----------------------------------------------------------------------------
(* Signatures *)

\* try_emit_signature: given up when another thread holds signature_lock, which
\* it only does while it makes the same test.
try_emit_signature(t) ==
  /\ thread[t].pc = "sign"
  /\ thread' = [thread EXCEPT ![t] =
       IF aft.leader /\ committable_gap(kv) >= SigTxInterval
       THEN [Idle EXCEPT !.pc = "emit"] ELSE Idle]
  /\ UNCHANGED <<kv, aft, failed>>

signature_lock_taken(t) ==
  /\ thread[t].pc = "sign"
  /\ \E u \in Worker \ {t} : thread[u].pc = "sign"
  /\ thread' = [thread EXCEPT ![t] = Idle]
  /\ UNCHANGED <<kv, aft, failed>>

\* The timer of the main thread, sig_ms_interval after the last signature.
start_signature_emit_timer ==
  /\ thread[Timer].pc = "idle" /\ VersionLeft
  /\ aft.leader /\ (aft.should_sign \/ committable_gap(kv) > 0)
  /\ thread' = [thread EXCEPT ![Timer].pc = "emit"]
  /\ UNCHANGED <<kv, aft, failed>>

\* get_signable_txid resets should_sign, next_txid reserves the version.
emit_signature(t) ==
  /\ thread[t].pc = "emit"
  /\ kv' = next_version(kv)
  /\ aft' = [aft EXCEPT !.should_sign = FALSE]
  /\ thread' = [thread EXCEPT ![t] = [Idle EXCEPT
       !.pc = "commit", !.type = "sig", !.version = kv.version + 1,
       !.commit_view = kv.term_of_next_version]]
  /\ UNCHANGED failed

-----------------------------------------------------------------------------
(* Calls from consensus *)

\* Messages and timeouts are handled by the main thread, which has no signature of
\* its timer under way then.
MainThreadFree == thread[Timer].pc = "idle"

\* Unless Overlap, leadership is lost with at most one request under way, which
\* has no version yet.
MayLoseLeadership ==
  Overlap \/ (Cardinality(Active) <= 1
              /\ \A t \in Active : thread[t].pc \in {"execute", "apply", "sign"})

\* Aft::commit: the indices it commits are those of signatures.
aft_commit(i) ==
  /\ i > aft.commit_idx /\ aft.ledger[i].type = "sig"
  /\ aft' = [aft EXCEPT !.commit_idx = i]
  /\ kv' = compact(kv, i)
  /\ UNCHANGED <<thread, failed>>

\* Aft::rollback: of the ledger and of the store.
aft_rollback(i, view, leader) ==
  /\ kv' = rollback(kv, TermAt(i), i, view)
  /\ aft' = [aft EXCEPT !.ledger = SubSeq(@, 1, i), !.view = view,
                        !.leader = leader, !.should_sign = @ \/ leader,
                        !.is_new_follower = ~ leader /\ view # aft.view]
  /\ UNCHANGED <<thread, failed>>

become_aware_of_new_term ==
  /\ MainThreadFree /\ MayLoseLeadership /\ aft.view < MaxView
  /\ aft_rollback(last_committable_index, aft.view + 1, FALSE)

become_leader ==
  /\ MainThreadFree /\ OnlyReaders /\ ~ aft.leader /\ aft.view < MaxView
  /\ aft_rollback(last_committable_index, aft.view + 1, TRUE)

\* A new follower drops what its primary does not have.
follow_from(i) ==
  /\ MainThreadFree /\ (Overlap \/ Active = {})
  /\ ~ aft.leader /\ aft.is_new_follower
  /\ aft.commit_idx <= i /\ i < last_idx
  /\ aft_rollback(i, aft.view, FALSE)

\* Another primary, outside the model, wrote the entry.
EntryOf(ws, type) ==
  LET v == last_idx + 1 IN
  [version |-> v, term |-> aft.view, type |-> type, id |-> <<aft.view, v, Nil>>,
   ws |-> ws, reads |-> {}, view |-> aft.view,
   root |-> IF type = "sig" THEN kv.tree ELSE <<>>]

recv_append_entries(entry) ==
  /\ MainThreadFree /\ OnlyReaders /\ ~ aft.leader /\ last_idx < MaxVersion
  /\ kv' = deserialise(kv, entry)
  /\ aft' = [aft EXCEPT !.ledger = Append(@, entry),
                        !.is_new_follower = FALSE]
  /\ UNCHANGED <<thread, failed>>

Next ==
  \/ \E t \in Thread :
       \/ process_command(t) \/ current_txid_and_commit_term(t) \/ get_handle(t)
       \/ apply_changes(t) \/ commit(t) \/ replicate(t) \/ set_last_replicated(t)
       \/ try_emit_signature(t) \/ signature_lock_taken(t) \/ emit_signature(t)
  \/ start_signature_emit_timer
  \/ \E i \in DOMAIN aft.ledger : aft_commit(i)
  \/ become_aware_of_new_term \/ become_leader
  \/ \E i \in 0..last_idx : follow_from(i)
  \/ \E ws \in Received : recv_append_entries(EntryOf(ws, "tx"))
  \/ recv_append_entries(EntryOf(<<>>, "sig"))

\* A thread that has begun a request or a signature goes on with it.
Fairness ==
  \A t \in Thread :
    WF_vars(current_txid_and_commit_term(t) \/ get_handle(t) \/ apply_changes(t)
            \/ commit(t) \/ replicate(t) \/ set_last_replicated(t)
            \/ try_emit_signature(t) \/ emit_signature(t))

Spec == Init /\ [][Next]_vars /\ Fairness

-----------------------------------------------------------------------------
(* Properties *)

\* The contents of every map at version v.
StateAt(s, v) ==
  [m \in Map |->
    IF get_map(s, v, m)
    THEN s.roll[m].commits[LastAt(s.roll[m].commits, v)].state ELSE EmptyState]

\* The contents that the entries of a ledger produce, entry by entry.
Replay(ledger) ==
  LET Step(states, e) ==
        Append(states, [m \in Map |->
          IF m \notin DOMAIN e.ws THEN states[Len(states)][m]
          ELSE write_keys(states[Len(states)][m], e.version, e.ws[m], e.id)])
      line == FoldLeft(Step, <<[m \in Map |-> EmptyState]>>, ledger)
  IN [i \in 0..Len(ledger) |-> line[i + 1]]

\* The store, its rolls, locks and counters are well formed.
StoreTypeOK ==
  /\ {kv.version, kv.compacted, kv.last_replicated, kv.last_committable} \subseteq Nat
  /\ DOMAIN kv.pending_txs \subseteq 1..kv.version
  /\ \A m \in Map : kv.roll[m].commits # <<>> /\ kv.created[m] \in NoMap..kv.version
  /\ kv.commit_lock \in Thread \union {Nil}
  /\ aft.leader \in BOOLEAN /\ aft.commit_idx \in 0..last_idx

\* Whatever the store keeps of a version that consensus has in its ledger is
\* what the ledger's entries produce: local execution on a primary, deserialised
\* entries on a backup, rollback and compaction agree with the ledger
\* (Store::commit, fill_maps, rollback, compact).
StoreMatchesLedger ==
  \A v \in kv.compacted..Min({last_idx, kv.version}) :
    StateAt(kv, v) = Replay(aft.ledger)[v]


\* No update is lost: what a transaction read in the maps it writes was still
\* the latest value when it took its version (HandleCommitter::prepare).
ReadsStillCurrent ==
  LET R == Replay(aft.ledger) IN
  \A i \in DOMAIN aft.ledger : \A r \in aft.ledger[i].reads :
    R[i - 1][r[1]][r[2]].value = r[3]

\* A signature signs exactly the entries before it, although entries join the
\* tree when a batch is formed and leave it on rollback
\* (MerkleTreeHistoryPendingTx::call, HashedTxHistory::rollback).
SignatureCoversPrefix ==
  \A i \in DOMAIN aft.ledger : aft.ledger[i].type = "sig" =>
    aft.ledger[i].root = [j \in 1..(i - 1) |-> aft.ledger[j].id]

\* The global hook of a map is called once for each committed version that
\* changed the map, in order (Map::compact, Map::post_compact).
HookedOnce ==
  LET R == Replay(aft.ledger) IN
  \A m \in Map :
    kv.hooked[m] = SelectSeq([i \in 1..kv.compacted |-> i],
                             LAMBDA i : R[i][m] # R[i - 1][m])

\* A transaction answered with FAIL_NO_REPLICATE leaves nothing in a primary's
\* store ("Transactions that fail are rolled back, no matter the reason").
FailedTxRolledBack ==
  aft.leader /\ Active = {} =>
    \A m \in Map, k \in Key : StateAt(kv, kv.version)[m][k].value \notin failed

\* The store never stays ahead of the ledger: every version given out is
\* replicated or rolled back, no interleaving of Store::commit leaves one behind
\* in pending_txs (MaxVersion bounds the requests, so that their stream ends).
EveryVersionReplicated ==
  []<>(kv.version = last_idx)

\* The store implements a single line of versioned states.
Abstract ==
  INSTANCE VersionedStore WITH
    Empty <- [m \in Map |-> EmptyState],
    base <- kv.compacted,
    line <- [i \in 1..(kv.version - kv.compacted + 1) |-> StateAt(kv, kv.compacted + i - 1)]

ImplementsVersionedStore == Abstract!Spec

=============================================================================
