-------------------------------- MODULE Aft --------------------------------
(***************************************************************************)
(* The consensus protocol of a CCF node: class Aft (raft.h) with crash     *)
(* fault tolerance and one-transaction reconfiguration, run by a set of    *)
(* nodes over the node-to-node channels.                                   *)
(*                                                                         *)
(* Every public operation of the class takes state->lock, so one call is   *)
(* one action.  The operators below are the methods of the class: each     *)
(* takes the state s of node n and returns its new state, in the order of  *)
(* the method's statements.  Messages a method sends are appended to       *)
(* s.out and leave for the network when the action ends.                   *)
(***************************************************************************)
EXTENDS ViewHistory, FiniteSetsExt

CONSTANTS
  Node,              \* the nodes, members of the service or about to join
  Nil,               \* "no node" (an empty std::optional<NodeId>)
  InitialConfig,     \* the configuration of the service in Init
  InitialLeader,     \* the node that opened the service
  Reconfigs,         \* the configurations that governance may install
  EntriesBatchSize,  \* entries_batch_size
  MaxView,           \* bound: no election beyond this view
  MaxLedger,         \* bound: no entry beyond this index
  MaxInFlight        \* bound: messages in one channel, later ones are lost

VARIABLES
  node,              \* node[n]: the Aft object of node n
  net                \* net[<<a, b>>]: messages from a to b, oldest first

vars == <<node, net>>

ASSUME ConstantsAssumption ==
  /\ IsFiniteSet(Node) /\ Nil \notin Node
  /\ InitialConfig \subseteq Node /\ InitialLeader \in InitialConfig
  /\ Reconfigs \subseteq SUBSET Node /\ {} \notin Reconfigs
  /\ EntriesBatchSize \in Nat \ {0}
  /\ MaxView \in Nat /\ MaxLedger \in Nat /\ MaxInFlight \in Nat

-----------------------------------------------------------------------------
(* State *)

\* A ledger entry: the view it was written in and what consensus distinguishes,
\* a signature (globally committable), a reconfiguration or anything else.
Entry ==
  [term : Nat, type : {"tx", "sig"}, nodes : {{}}]
    \union [term : Nat, type : {"config"}, nodes : SUBSET Node]

Configuration == [idx : Nat, nodes : SUBSET Node]

AppendEntries ==
  [type : {"AppendEntries"}, term : Nat, idx : Nat, prev_idx : Nat,
   prev_term : Nat, leader_commit_idx : Nat, term_of_idx : Nat,
   entries : Seq(Entry)]

AppendEntriesResponse ==
  [type : {"AppendEntriesResponse"}, term : Nat, last_log_idx : Nat,
   success : {"OK", "FAIL"}]

RequestVote ==
  [type : {"RequestVote"}, term : Nat, last_committable_idx : Nat,
   term_of_last_committable_idx : Nat]

RequestVoteResponse ==
  [type : {"RequestVoteResponse"}, term : Nat, vote_granted : BOOLEAN]

Message ==
  AppendEntries \union AppendEntriesResponse
    \union RequestVote \union RequestVoteResponse

\* The members of Aft and of State.  last_idx is the length of the ledger, 0
\* stands for an empty optional index, and sent_idx and match_idx are kept at 0
\* where the code has no NodeState for the peer or never reads it (it reads
\* them on a leader only, and become_leader sets them).  out and apply belong
\* to the call in progress: what it sends, and whether a backup could apply
\* the entries so far, met one it could not apply, or threw.
NodeState ==
  [current_view : Nat,
   voted_for : Node \union {Nil},
   votes_for_me : SUBSET Node,
   leader_id : Node \union {Nil},
   leadership_state : {"None", "Follower", "Candidate", "Leader"},
   membership_state : {"Active", "Retired"},
   retirement_phase : {"None", "Ordered", "Signed", "Completed"},
   retirement_idx : Nat,
   retirement_committable_idx : Nat,
   is_new_follower : BOOLEAN,
   ticking : BOOLEAN,
   ledger : Seq(Entry),
   commit_idx : Nat,
   view_history : Seq(Nat),
   committable_indices : SUBSET Nat,
   configurations : SUBSET Configuration,
   sent_idx : [Node -> Nat],
   match_idx : [Node -> Nat],
   out : [Node -> Seq(Message)],
   apply : {"PASS", "FAIL", "throw"}]

no_index == [p \in Node |-> 0]

no_output == [p \in Node |-> <<>>]

last_idx(s) == Len(s.ledger)

last_committable_index(s) ==
  IF s.committable_indices = {} THEN s.commit_idx
  ELSE Max(s.committable_indices)

get_term_internal(s, idx) ==
  IF idx > last_idx(s) THEN InvalidView ELSE view_at(s.view_history, idx)

\* configurations.back(), the configuration added last.
latest_config(s) ==
  CHOOSE c \in s.configurations : \A d \in s.configurations : d.idx <= c.idx

is_self_in_latest_config(n, s) ==
  s.configurations # {} /\ n \in latest_config(s).nodes

\* The keys of Aft::nodes: create_and_remove_node_state runs whenever the
\* configurations change, and leaves the other nodes of all of them.
nodes(n, s) == (UNION {c.nodes : c \in s.configurations}) \ {n}

is_retired(s) == s.membership_state = "Retired"

can_endorse_primary(s) == ~ is_retired(s)

get_quorum(size) == (size \div 2) + 1

-----------------------------------------------------------------------------
(* Sending *)

send(s, to, m) == [s EXCEPT !.out[to] = Append(@, m)]

append_entries(s, start, end) ==
  [type |-> "AppendEntries", term |-> s.current_view,
   idx |-> end, prev_idx |-> start - 1,
   prev_term |-> get_term_internal(s, start - 1),
   leader_commit_idx |-> s.commit_idx,
   term_of_idx |-> get_term_internal(s, end),
   entries |-> SubSeq(s.ledger, start, end)]

\* No more than the batch size, and a single term.
calculate_end_index(s, start) ==
  LET end_of_term == end_of_view(s.view_history, view_at(s.view_history, start))
      max_idx == IF end_of_term # NoVersion THEN end_of_term ELSE last_idx(s)
  IN  IF start + EntriesBatchSize < max_idx THEN start + EntriesBatchSize
      ELSE max_idx

\* The do loop of send_append_entries, as the sequence of messages it sends.
\* The host adds the entries, from the ledger as it is at this point of the
\* enclave's output.
append_entries_from(s, start_idx) ==
  LET range[start \in 1 .. last_idx(s)] ==
        LET end == calculate_end_index(s, start)
            ae == append_entries(s, start, end)
        IN  IF end = last_idx(s) THEN <<ae>> ELSE <<ae>> \o range[end + 1]
  IN  IF start_idx > last_idx(s)
      THEN <<append_entries(s, start_idx, last_idx(s))>>
      ELSE range[start_idx]

\* send_append_entries(p, start[p]) for each p of a set of peers.  (The code
\* sends no heartbeat once a retirement is completed; such a node is no leader
\* and gets here no more.)
send_append_entries(s, peers, start) ==
  [s EXCEPT
     !.out = [p \in Node |-> IF p \in peers
                             THEN @[p] \o append_entries_from(s, start[p])
                             ELSE @[p]],
     !.sent_idx = [p \in Node |-> IF p \in peers THEN last_idx(s) ELSE @[p]]]

\* With rejected = <<view, idx>> of the entry that did not match, or <<>>.
send_append_entries_response(s, to, answer, rejected) ==
  LET match == find_highest_possible_match(
                 s.view_history, last_idx(s), rejected[1], rejected[2])
  IN  send(s, to,
        [type |-> "AppendEntriesResponse", success |-> answer,
         last_log_idx |-> IF rejected = <<>> THEN last_idx(s) ELSE match,
         term |-> IF rejected = <<>> THEN s.current_view
                  ELSE get_term_internal(s, match)])

send_request_vote(s, peers) ==
  LET rv == [type |-> "RequestVote", term |-> s.current_view,
             last_committable_idx |-> last_committable_index(s),
             term_of_last_committable_idx |->
               get_term_internal(s, last_committable_index(s))]
  IN  [s EXCEPT !.out = [p \in Node |-> IF p \in peers THEN Append(@[p], rv)
                                        ELSE @[p]]]

send_request_vote_response(s, to, answer) ==
  send(s, to, [type |-> "RequestVoteResponse", term |-> s.current_view,
               vote_granted |-> answer])

-----------------------------------------------------------------------------
(* Configurations and retirement *)

\* Removes the NodeState of nodes in no active configuration, creates those of
\* new ones; a leader sends a new node only future entries at first.
create_and_remove_node_state(n, s, configs) ==
  LET s1 == [s EXCEPT !.configurations = configs]
      added == nodes(n, s1) \ nodes(n, s)
      peers == nodes(n, s1) \ added
      s2 == [s1 EXCEPT
               !.sent_idx = [p \in Node |-> IF p \in peers THEN @[p] ELSE 0],
               !.match_idx = [p \in Node |-> IF p \in peers THEN @[p] ELSE 0]]
  IN  IF s.leadership_state = "Leader"
      THEN send_append_entries(s2, added, [p \in Node |-> last_idx(s) + 1])
      ELSE s1

become_retired(s, idx, phase) ==
  [s EXCEPT
     !.membership_state = "Retired",
     !.retirement_phase = phase,
     !.retirement_idx = IF phase = "Ordered" THEN idx ELSE @,
     !.retirement_committable_idx = IF phase = "Signed" THEN idx ELSE @,
     !.leader_id = IF phase = "Completed" THEN Nil ELSE @,
     !.leadership_state = IF phase = "Completed" THEN "None" ELSE @,
     !.sent_idx = IF phase = "Completed" THEN no_index ELSE @,
     !.match_idx = IF phase = "Completed" THEN no_index ELSE @]

add_configuration(n, s, idx, conf) ==
  LET s1 == IF is_self_in_latest_config(n, s) /\ n \notin conf
            THEN become_retired(s, idx, "Ordered") ELSE s
  IN  IF s.configurations # {} /\ latest_config(s).nodes = conf THEN s1
      ELSE create_and_remove_node_state(n, s1,
             s.configurations \union {[idx |-> idx, nodes |-> conf]})

start_ticking_if_necessary(n, s) ==
  [s EXCEPT !.ticking = @ \/ is_self_in_latest_config(n, s)]

\* Wrong variant: every signature counts as the first one after the retirement.
add_committable_every_signature(s, idx) ==
  LET s1 == IF is_retired(s) THEN become_retired(s, idx, "Signed") ELSE s
  IN  [s1 EXCEPT !.committable_indices = @ \union {idx}]

\* What replicate and execute_append_entries_sync do for a signature at idx.
add_committable(s, idx) ==
  LET s1 == IF is_retired(s) /\ s.retirement_phase = "Ordered"
            THEN become_retired(s, idx, "Signed") ELSE s
  IN  [s1 EXCEPT !.committable_indices = @ \union {idx}]

-----------------------------------------------------------------------------
(* Rollback and commit *)

\* The retirement of this node, if it was ordered or signed above idx.
rollback_retirement(s, idx) ==
  LET unsigned == /\ is_retired(s) /\ s.retirement_phase = "Signed"
                  /\ s.retirement_committable_idx > idx
      s1 == IF unsigned
            THEN [s EXCEPT !.retirement_committable_idx = 0,
                           !.retirement_phase = "Ordered"]
            ELSE s
  IN  IF /\ is_retired(s1) /\ s1.retirement_phase = "Ordered"
         /\ s1.retirement_idx > idx
      THEN [s1 EXCEPT !.retirement_idx = 0, !.retirement_phase = "None",
                      !.membership_state = "Active"]
      ELSE s1

\* Wrong variant: the committable indices are not truncated.
rollback_keeps_committable(n, s, idx) ==
  LET s1 == [rollback_retirement(s, idx) EXCEPT
               !.ledger = SubSeq(@, 1, idx),
               !.view_history = rollback_views(@, idx)]
  IN  IF idx < s.commit_idx THEN s
      ELSE create_and_remove_node_state(n, s1,
             {c \in s.configurations : c.idx <= idx})

\* Wrong variant: idx itself is truncated.
rollback_one_too_far(n, s, idx) ==
  LET s1 == [rollback_retirement(s, idx) EXCEPT
               !.ledger = SubSeq(@, 1, idx - 1),
               !.view_history = rollback_views(@, idx),
               !.committable_indices = {i \in @ : i < idx}]
  IN  IF idx < s.commit_idx THEN s
      ELSE create_and_remove_node_state(n, s1,
             {c \in s.configurations : c.idx <= idx})

\* Wrong variant: the configurations are not truncated.
rollback_keeps_configurations(n, s, idx) ==
  LET s1 == [rollback_retirement(s, idx) EXCEPT
               !.ledger = SubSeq(@, 1, idx),
               !.view_history = rollback_views(@, idx),
               !.committable_indices = {i \in @ : i <= idx}]
  IN  IF idx < s.commit_idx THEN s ELSE s1

rollback(n, s, idx) ==
  LET s1 == [rollback_retirement(s, idx) EXCEPT
               !.ledger = SubSeq(@, 1, idx),
               !.view_history = rollback_views(@, idx),
               !.committable_indices = {i \in @ : i <= idx}]
  IN  IF idx < s.commit_idx THEN s
      ELSE create_and_remove_node_state(n, s1,
             {c \in s.configurations : c.idx <= idx})

\* Every configuration that is followed by a committed one is dropped.
commit(n, s, idx) ==
  LET s1 == [s EXCEPT !.commit_idx = idx]
      s2 == IF /\ is_retired(s) /\ s.retirement_phase = "Signed"
               /\ idx >= s.retirement_committable_idx
            THEN become_retired(s1, idx, "Completed") ELSE s1
      superseded(c) == \E d \in s.configurations : c.idx < d.idx /\ d.idx <= idx
  IN  IF idx <= s.commit_idx THEN s
      ELSE create_and_remove_node_state(n, s2,
             {c \in s.configurations : ~ superseded(c)})

commit_if_possible(n, s, idx) ==
  LET ready == {i \in s.committable_indices : i <= idx}
      s1 == [s EXCEPT !.committable_indices = @ \ ready]
  IN  IF /\ idx > s.commit_idx
         /\ get_term_internal(s, idx) <= s.current_view
         /\ ready # {}
      THEN commit(n, s1, Max(ready))
      ELSE s

\* In each active configuration, element (size - 1) / 2 of the sorted match
\* indices is at least i.
confirmed(n, s, i) ==
  LET match(p) == IF p = n THEN last_idx(s) ELSE s.match_idx[p]
  IN  \A c \in s.configurations :
        Cardinality({p \in c.nodes : match(p) >= i})
          >= Cardinality(c.nodes) - ((Cardinality(c.nodes) - 1) \div 2)

\* A watermark beyond the ledger throws, in the last statement of the callers.
update_commit(n, s) ==
  LET watermark == Max({0} \union {i \in 1 .. last_idx(s) : confirmed(n, s, i)})
  IN  IF confirmed(n, s, last_idx(s) + 1) THEN s
      ELSE commit_if_possible(n, s, watermark)

-----------------------------------------------------------------------------
(* Leadership *)


become_follower(n, s) ==
  LET s1 == rollback(n, [s EXCEPT !.leader_id = Nil], last_committable_index(s))
  IN  IF can_endorse_primary(s1)
      THEN [s1 EXCEPT !.leadership_state = "Follower",
                      !.sent_idx = no_index, !.match_idx = no_index]
      ELSE s1

become_aware_of_new_term(n, s, term) ==
  LET s1 == become_follower(n, [s EXCEPT !.current_view = term,
                                         !.voted_for = Nil,
                                         !.votes_for_me = {}])
  IN  [s1 EXCEPT !.is_new_follower = TRUE]

\* Wrong variant: the committable indices of earlier views stay.
become_leader_keeps_committable(n, s) ==
  LET s2 == IF s.commit_idx > 0
            THEN rollback(n, s, last_committable_index(s)) ELSE s
      s3 == [s2 EXCEPT !.leadership_state = "Leader", !.leader_id = n,
                       !.match_idx = no_index]
  IN  IF is_retired(s) THEN s
      ELSE IF nodes(n, s3) = {} THEN commit(n, s3, last_idx(s3))
      ELSE send_append_entries(s3, nodes(n, s3),
                               [p \in Node |-> last_idx(s3) + 1])

become_leader(n, s) ==
  LET election_index == last_committable_index(s)
      s1 == [s EXCEPT !.committable_indices = {}]
      s2 == IF s.commit_idx > 0 THEN rollback(n, s1, election_index) ELSE s1
      s3 == [s2 EXCEPT !.leadership_state = "Leader", !.leader_id = n,
                       !.match_idx = no_index]
  IN  IF is_retired(s) THEN s
      ELSE IF nodes(n, s3) = {} THEN commit(n, s3, last_idx(s3))
      ELSE send_append_entries(s3, nodes(n, s3),
                               [p \in Node |-> last_idx(s3) + 1])

add_vote_for_me(n, s, from) ==
  LET s1 == [s EXCEPT !.votes_for_me = @ \union {from}]
  IN  IF Cardinality(s1.votes_for_me) >= get_quorum(Cardinality(nodes(n, s)) + 1)
      THEN become_leader(n, s1) ELSE s1

become_candidate(n, s) ==
  LET s1 == [s EXCEPT !.leadership_state = "Candidate", !.leader_id = Nil,
                      !.voted_for = n, !.votes_for_me = {},
                      !.current_view = @ + 1]
  IN  send_request_vote(add_vote_for_me(n, s1, n), nodes(n, s))

-----------------------------------------------------------------------------
(* Message handlers *)

\* One iteration of execute_append_entries_sync.  The KV store rejects an entry
\* whose view is not the one the message announces.  An exception of update
\* leaves the handler, with all that was done before it.
execute_append_entry(n, s, e, r) ==
  LET s1 == [s EXCEPT !.ledger = Append(@, e)]
      i == last_idx(s1)
      s2 == IF e.type = "config" THEN add_configuration(n, s1, i, e.nodes)
            ELSE s1
      s3 == add_committable(start_ticking_if_necessary(n, s2), i)
      start == IF r.term_of_idx = InvalidView THEN 1 ELSE r.prev_idx + 1
      term == IF r.term_of_idx = InvalidView THEN r.term ELSE e.term
      s4 == [s3 EXCEPT !.view_history = update(@, start, term)]
  IN  IF s.apply # "PASS" THEN s
      ELSE IF e.term # r.term_of_idx THEN [s EXCEPT !.apply = "FAIL"]
      ELSE IF e.type # "sig" THEN s2
      ELSE IF update_throws(s3.view_history, start)
           THEN [s3 EXCEPT !.apply = "throw"]
      ELSE commit_if_possible(n, s4, r.leader_commit_idx)

execute_append_entries_sync(n, s, new, r) ==
  LET applied[k \in 0 .. Len(new)] ==
        IF k = 0 THEN s ELSE execute_append_entry(n, applied[k - 1], new[k], r)
  IN  applied[Len(new)]

execute_append_entries_finish(n, s, from, r) ==
  LET s1 == commit_if_possible(n, s, r.leader_commit_idx)
      lci == last_committable_index(s1)
      start == IF r.term_of_idx = InvalidView THEN 1 ELSE lci + 1
      term == IF r.term_of_idx = InvalidView THEN r.term ELSE r.term_of_idx
      s2 == [s1 EXCEPT !.view_history = update(@, start, term)]
      new_term == r.term_of_idx = InvalidView \/ r.idx > lci
  IN  IF new_term /\ update_throws(s1.view_history, start) THEN s1
      ELSE send_append_entries_response(
             IF new_term THEN s2 ELSE s1, from, "OK", <<>>)

\* Wrong variant: a new follower keeps the entries that the leader lacks.
append_entries_accepted_no_rollback(n, s, from, r) ==
  LET s1 == [s EXCEPT !.leader_id = from]
      s3 == [s1 EXCEPT !.is_new_follower = FALSE]
      new == SubSeq(r.entries, last_idx(s3) - r.prev_idx + 1, Len(r.entries))
      s4 == execute_append_entries_sync(n, s3, new, r)
  IN  IF r.prev_idx < s.commit_idx \/ r.prev_idx > last_idx(s) THEN s1
      ELSE IF s4.apply = "PASS"
           THEN execute_append_entries_finish(n, s4, from, r)
      ELSE s4

\* recv_append_entries once the sender is known to lead this term and the
\* previous entry matches.
append_entries_accepted(n, s, from, r) ==
  LET s1 == [s EXCEPT !.leader_id = from]
      s2 == IF s.is_new_follower /\ last_idx(s) > r.prev_idx
            THEN rollback(n, s1, r.prev_idx) ELSE s1
      s3 == [s2 EXCEPT !.is_new_follower = FALSE]
      new == SubSeq(r.entries, last_idx(s3) - r.prev_idx + 1, Len(r.entries))
      s4 == execute_append_entries_sync(n, s3, new, r)
  IN  CASE r.prev_idx < s.commit_idx \/ r.prev_idx > last_idx(s) -> s1
        [] OTHER ->
           CASE s4.apply = "PASS" ->
                  execute_append_entries_finish(n, s4, from, r)
             [] s4.apply = "FAIL" ->
                  send_append_entries_response(s4, from, "FAIL", <<>>)
             [] s4.apply = "throw" -> s4

\* Wrong variant: the view of the previous entry is not compared.
recv_append_entries_any_previous(n, s, from, r) ==
  LET s1 == IF \/ s.current_view < r.term
               \/ s.current_view = r.term /\ s.leadership_state = "Candidate"
            THEN become_aware_of_new_term(n, s, r.term) ELSE s
  IN  IF s.current_view > r.term
      THEN send_append_entries_response(s1, from, "FAIL", <<>>)
      ELSE append_entries_accepted(n, s1, from, r)

recv_append_entries(n, s, from, r) ==
  LET s1 == IF \/ s.current_view < r.term
               \/ s.current_view = r.term /\ s.leadership_state = "Candidate"
            THEN become_aware_of_new_term(n, s, r.term) ELSE s
      prev_term == get_term_internal(s1, r.prev_idx)
      fail(rejected) == send_append_entries_response(s1, from, "FAIL", rejected)
  IN  CASE s.current_view > r.term -> fail(<<>>)
        [] s.current_view <= r.term /\ prev_term # r.prev_term ->
             fail(IF prev_term = 0 THEN <<>> ELSE <<r.prev_term, r.prev_idx>>)
        [] s.current_view <= r.term /\ prev_term = r.prev_term ->
             IF /\ is_retired(s1) /\ s1.retirement_phase = "Completed"
                /\ r.idx > s1.retirement_committable_idx
             THEN fail(<<>>)
             ELSE append_entries_accepted(n, s1, from, r)

\* Wrong variant: takes sent_idx for the next index to send.
append_entries_nack_steps_back(s, from, r) ==
  LET this_match == find_highest_possible_match(
                      s.view_history, last_idx(s), r.term, r.last_log_idx)
      match == IF s.match_idx[from] = 0 \/ this_match < s.match_idx[from]
               THEN this_match ELSE s.match_idx[from]
  IN  [s EXCEPT !.match_idx[from] = match, !.sent_idx[from] = match - 1]

\* A NACK carries an estimate of the last matching index, which match_idx and
\* sent_idx go back to.
append_entries_nack(s, from, r) ==
  LET this_match == find_highest_possible_match(
                      s.view_history, last_idx(s), r.term, r.last_log_idx)
      match == IF s.match_idx[from] = 0 \/ this_match < s.match_idx[from]
               THEN this_match ELSE s.match_idx[from]
  IN  [s EXCEPT !.match_idx[from] = match, !.sent_idx[from] = match]

append_entries_ack(n, s, from, r) ==
  LET match == IF r.last_log_idx < last_idx(s) THEN r.last_log_idx
               ELSE last_idx(s)
  IN  IF r.term = s.current_view /\ r.last_log_idx >= s.match_idx[from]
      THEN update_commit(n, [s EXCEPT !.match_idx[from] = match])
      ELSE s

recv_append_entries_response(n, s, from, r) ==
  IF s.leadership_state # "Leader" \/ from \notin nodes(n, s) THEN s
  ELSE IF s.current_view < r.term THEN become_aware_of_new_term(n, s, r.term)
  ELSE IF r.success = "FAIL" THEN append_entries_nack(s, from, r)
  ELSE append_entries_ack(n, s, from, r)

\* The candidate's committable log is at least as up to date as ours.
up_to_date(s, r) ==
  LET lci == last_committable_index(s)
      term == get_term_internal(s, lci)
  IN  \/ r.term_of_last_committable_idx > term
      \/ /\ r.term_of_last_committable_idx = term
         /\ r.last_committable_idx >= lci

\* Wrong variant: an earlier vote in the same view is not looked at.
recv_request_vote_twice(n, s, from, r) ==
  LET s1 == IF s.current_view < r.term
            THEN become_aware_of_new_term(n, s, r.term) ELSE s
      answer == /\ s.current_view <= r.term
                /\ s1.leader_id = Nil
                /\ up_to_date(s1, r)
      s2 == IF answer THEN [s1 EXCEPT !.voted_for = from] ELSE s1
  IN  send_request_vote_response(s2, from, answer)

recv_request_vote(n, s, from, r) ==
  LET s1 == IF s.current_view < r.term
            THEN become_aware_of_new_term(n, s, r.term) ELSE s
      answer == /\ s.current_view <= r.term
                /\ s1.leader_id = Nil
                /\ s1.voted_for \in {Nil, from}
                /\ up_to_date(s1, r)
      s2 == IF answer THEN [s1 EXCEPT !.voted_for = from] ELSE s1
  IN  send_request_vote_response(s2, from, answer)

recv_request_vote_response(n, s, from, r) ==
  IF s.leadership_state # "Candidate" \/ from \notin nodes(n, s) THEN s
  ELSE IF s.current_view < r.term THEN become_aware_of_new_term(n, s, r.term)
  ELSE IF s.current_view = r.term /\ r.vote_granted
       THEN add_vote_for_me(n, s, from)
  ELSE s

recv_message(n, s, from, r) ==
  CASE r.type = "AppendEntries" -> recv_append_entries(n, s, from, r)
    [] r.type = "AppendEntriesResponse" ->
         recv_append_entries_response(n, s, from, r)
    [] r.type = "RequestVote" -> recv_request_vote(n, s, from, r)
    [] r.type = "RequestVoteResponse" ->
         recv_request_vote_response(n, s, from, r)

-----------------------------------------------------------------------------
(* The protocol *)

InitialLedger ==
  << [term |-> 2, type |-> "config", nodes |-> InitialConfig],
     [term |-> 2, type |-> "sig", nodes |-> {}] >>

\* A member of the running service: entry 1 stands for its history up to the
\* transaction that installed InitialConfig, entry 2 is the signature after it,
\* committed by all.
member(n) ==
  [current_view |-> 2, voted_for |-> Nil, votes_for_me |-> {},
   leader_id |-> InitialLeader,
   leadership_state |-> IF n = InitialLeader THEN "Leader" ELSE "Follower",
   membership_state |-> "Active", retirement_phase |-> "None",
   retirement_idx |-> 0, retirement_committable_idx |-> 0,
   is_new_follower |-> FALSE, ticking |-> TRUE,
   ledger |-> InitialLedger, commit_idx |-> 2, view_history |-> <<1, 1>>,
   committable_indices |-> {},
   configurations |-> {[idx |-> 1, nodes |-> InitialConfig]},
   sent_idx |-> [p \in Node |-> IF n = InitialLeader
                                   /\ p \in InitialConfig \ {n} THEN 2 ELSE 0],
   match_idx |-> [p \in Node |-> IF n = InitialLeader
                                    /\ p \in InitialConfig \ {n} THEN 2 ELSE 0],
   out |-> no_output, apply |-> "PASS"]

\* A node that was just constructed, without a snapshot.
joiner ==
  [current_view |-> 0, voted_for |-> Nil, votes_for_me |-> {},
   leader_id |-> Nil, leadership_state |-> "None",
   membership_state |-> "Active", retirement_phase |-> "None",
   retirement_idx |-> 0, retirement_committable_idx |-> 0,
   is_new_follower |-> FALSE, ticking |-> FALSE,
   ledger |-> <<>>, commit_idx |-> 0, view_history |-> <<>>,
   committable_indices |-> {}, configurations |-> {},
   sent_idx |-> no_index, match_idx |-> no_index,
   out |-> no_output, apply |-> "PASS"]

Init ==
  /\ node = [n \in Node |-> IF n \in InitialConfig THEN member(n) ELSE joiner]
  /\ net = [link \in Node \X Node |-> <<>>]

\* What a channel still carries within the bound on messages in flight.
in_flight(ms) == SubSeq(ms, 1, IF Len(ms) < MaxInFlight THEN Len(ms)
                               ELSE MaxInFlight)

\* The call on node n ends in state s: its output joins the channels.
finish(n, s, channels) ==
  /\ node' = [node EXCEPT ![n] = [s EXCEPT !.out = no_output,
                                                !.apply = "PASS"]]
  /\ net' = [link \in Node \X Node |->
               IF link[1] = n
               THEN in_flight(channels[link] \o s.out[link[2]])
               ELSE channels[link]]

\* The body of the loop of replicate: an entry of the current view joins the
\* ledger at the next index.
replicate_entry(n, s, e) ==
  LET index == last_idx(s) + 1
      s1 == CASE e.type = "config" -> add_configuration(n, s, index, e.nodes)
              [] e.type = "sig" ->
                   start_ticking_if_necessary(n, add_committable(s, index))
              [] e.type = "tx" -> s
  IN  [s1 EXCEPT !.ledger = Append(@, e),
                 !.view_history = update(@, index, s.current_view)]

\* replicate, for one entry; it may make the pending ones large enough to be
\* sent at once.
replicate(n, s, e, flush) ==
  LET s1 == replicate_entry(n, s, e)
      s2 == IF flush
            THEN send_append_entries(s1, nodes(n, s1),
                   [p \in Node |-> s1.sent_idx[p] + 1])
            ELSE s1
  IN  IF nodes(n, s2) = {} THEN update_commit(n, s2) ELSE s2

\* Retirement is final: governance installs no node again that was in an
\* earlier configuration and is not in the latest one.
possible_reconfigs(s) ==
  LET past == UNION {s.ledger[i].nodes : i \in 1 .. last_idx(s)}
  IN  {conf \in Reconfigs : conf \intersect past \subseteq latest_config(s).nodes}

NewEntries(s) ==
  [term : {s.current_view}, type : {"tx", "sig"}, nodes : {{}}]
    \union
  [term : {s.current_view}, type : {"config"}, nodes : possible_reconfigs(s)]

Replicate(n) ==
  /\ node[n].leadership_state = "Leader"
  /\ node[n].retirement_committable_idx = 0
  /\ last_idx(node[n]) < MaxLedger
  /\ \E e \in NewEntries(node[n]), flush \in BOOLEAN :
       finish(n, replicate(n, node[n], e, flush), net)

\* The KV store is told to drop what it could not replicate.
ReplicateRejected(n) ==
  /\ node[n].leadership_state # "Leader"
  /\ finish(n, rollback(n, node[n], last_idx(node[n])), net)

\* periodic, on a leader: the request timeout elapsed.
SendUpdates(n) ==
  /\ node[n].leadership_state = "Leader"
  /\ finish(n, send_append_entries(node[n], nodes(n, node[n]),
                 [p \in Node |-> node[n].sent_idx[p] + 1]), net)

\* periodic, on a leader: no ack from a majority of the backups within an
\* election timeout.
CheckQuorum(n) ==
  /\ node[n].leadership_state = "Leader"
  /\ nodes(n, node[n]) # {}
  /\ finish(n, become_follower(n, node[n]), net)

\* periodic, on any other node: the election timeout elapsed.
StartElection(n) ==
  /\ node[n].leadership_state # "Leader"
  /\ can_endorse_primary(node[n]) /\ node[n].ticking
  /\ node[n].current_view < MaxView
  /\ finish(n, become_candidate(n, node[n]), net)

\* Channels deliver in order.
Receive(n, from) ==
  /\ net[<<from, n>>] # <<>>
  /\ finish(n, recv_message(n, node[n], from, Head(net[<<from, n>>])),
            [net EXCEPT ![<<from, n>>] = Tail(@)])

Lose(n, from) ==
  /\ net[<<from, n>>] # <<>>
  /\ net' = [net EXCEPT ![<<from, n>>] = Tail(@)]
  /\ UNCHANGED node

Next ==
  \E n \in Node :
    \/ Replicate(n)
    \/ ReplicateRejected(n)
    \/ SendUpdates(n)
    \/ CheckQuorum(n)
    \/ StartElection(n)
    \/ \E from \in Node : Receive(n, from) \/ Lose(n, from)

Spec == Init /\ [][Next]_vars

-----------------------------------------------------------------------------
(* Properties *)

\* Type invariant: the members of every Aft object, and every message in the
\* channels, have the types that raft.h, state.h and raft_types.h declare.
TypeOK ==
  /\ node \in [Node -> NodeState]
  /\ net \in [Node \X Node -> Seq(Message)]

\* commit_idx is within the ledger, the committable indices are signatures of
\* the ledger beyond commit_idx, and the view history is sorted and does not run
\* ahead of the ledger.
well_indexed(s) ==
  /\ s.commit_idx <= last_idx(s)
  /\ \A i \in s.committable_indices :
       i \in s.commit_idx + 1 .. last_idx(s) /\ s.ledger[i].type = "sig"
  /\ SortedWithin(s.view_history, last_idx(s))

\* Aft keeps several containers of ledger indices, and rollback, commit and
\* replicate each update all of them.  After every call they fit the ledger: the
\* indices that rollback and send_append_entries take from them never lie
\* outside it.
IndicesWithinLedger == \A n \in Node : well_indexed(node[n])

\* At most one node leads a view: the votes that become_leader counted, one for
\* each node and view in voted_for, exclude a second majority.  (A service whose
\* membership does not change.)
ElectionSafety ==
  \A m, n \in Node :
    /\ node[m].leadership_state = "Leader"
    /\ node[n].leadership_state = "Leader"
    /\ node[m].current_view = node[n].current_view
    => m = n

\* Two ledgers that hold an entry of one view at one index are equal up to it:
\* what recv_append_entries compares, prev_term at prev_idx, is enough to
\* append safely.
LogMatching ==
  \A m, n \in Node :
    \A i \in 1 .. Min({last_idx(node[m]), last_idx(node[n])}) :
      node[m].ledger[i].term = node[n].ledger[i].term
      => SubSeq(node[m].ledger, 1, i) = SubSeq(node[n].ledger, 1, i)

IsPrefixOf(s, t) == Len(s) <= Len(t) /\ s = SubSeq(t, 1, Len(s))

\* A backup that accepted an append entries message of the leader of its view
\* holds a prefix of that leader's ledger: the rollback of a new follower to
\* prev_idx, done once in a view, removes all that the leader does not have.
BackupIsPrefixOfLeader ==
  \A l, n \in Node :
    /\ node[l].leadership_state = "Leader"
    /\ node[n].current_view = node[l].current_view
    /\ node[n].leader_id = l /\ ~ node[n].is_new_follower
    => IsPrefixOf(node[n].ledger, node[l].ledger)

\* What a leader may commit by counting replicas is a signature of its own view:
\* become_leader forgets the committable indices of earlier views, which a later
\* leader could still overwrite.
LeaderCommitsOwnView ==
  \A n \in Node :
    node[n].leadership_state = "Leader"
    => \A i \in node[n].committable_indices :
         node[n].ledger[i].term = node[n].current_view

\* What a node has committed stays in its ledger, and commit_idx never goes
\* back, whatever rollback is asked for.
CommittedStays ==
  [][\A n \in Node :
       /\ node'[n].commit_idx >= node[n].commit_idx
       /\ last_idx(node'[n]) >= node[n].commit_idx
       /\ \A i \in 1 .. node[n].commit_idx :
            node'[n].ledger[i] = node[n].ledger[i]]_vars

config_indices(s) == {i \in 1 .. last_idx(s) : s.ledger[i].type = "config"}

\* The configurations that votes and commits are counted in are configurations
\* of the ledger, and none of them is missing but those that a committed one
\* superseded: add_configuration, rollback and commit keep them in step.
ActiveConfigurations ==
  \A n \in Node :
    LET s == node[n]
        superseded(i) == \E j \in config_indices(s) : i < j /\ j <= s.commit_idx
    IN  /\ \A c \in s.configurations :
             c.idx \in config_indices(s) /\ s.ledger[c.idx].nodes = c.nodes
        /\ \A i \in config_indices(s) :
             superseded(i) \/ \E c \in s.configurations :
                                c.nodes = s.ledger[i].nodes

\* A node is retired exactly if its ledger holds a configuration without it
\* after one with it, retirement_idx and retirement_committable_idx are those of
\* that configuration and of the first signature after it, and the phase tells
\* which of them exist and are committed: become_retired and the two steps of
\* rollback follow the ledger through every election.
RetirementFollowsLedger ==
  \A n \in Node :
    LET s == node[n]
        left(i) == /\ i \in config_indices(s) /\ n \notin s.ledger[i].nodes
                   /\ \E j \in config_indices(s) :
                        j < i /\ n \in s.ledger[j].nodes
        ri == {i \in 1 .. last_idx(s) : left(i)}
        rci == {i \in 1 .. last_idx(s) :
                  s.ledger[i].type = "sig" /\ \E j \in ri : j < i}
        first(S) == IF S = {} THEN 0 ELSE Min(S)
    IN  /\ is_retired(s) <=> ri # {}
        /\ s.retirement_idx = first(ri)
        /\ s.retirement_committable_idx = first(rci)
        /\ s.retirement_phase =
             CASE ri = {} -> "None"
               [] ri # {} /\ rci = {} -> "Ordered"
               [] rci # {} /\ s.commit_idx < first(rci) -> "Signed"
               [] rci # {} /\ s.commit_idx >= first(rci) -> "Completed"


-----------------------------------------------------------------------------
(* What the documentation or a comment says, and the code does not ensure *)

\* "it is an irrevocable and durable part of the service's transaction history"
\* (verify_tx.rst, of COMMITTED): no two nodes have committed different entries
\* at one index.
CommittedAgree ==
  \A m, n \in Node :
    \A i \in 1 .. Min({node[m].commit_idx, node[n].commit_idx}) :
      node[m].ledger[i] = node[n].ledger[i]

\* "the highest matching index with the node that was confirmed" (match_idx in
\* NodeState): a peer in the leader's view holds the leader's entries up to its
\* match_idx.
MatchConfirmed ==
  \A l, p \in Node :
    /\ node[l].leadership_state = "Leader"
    /\ node[p].current_view = node[l].current_view
    => IsPrefixOf(SubSeq(node[l].ledger, 1, node[l].match_idx[p]),
                  node[p].ledger)

\* "this term started immediately after the previous signature we saw"
\* (execute_append_entries_finish): the view history gives every entry of the
\* ledger the view it was written in.
ViewHistoryMatchesLedger ==
  \A n \in Node : \A i \in 1 .. last_idx(node[n]) :
    view_at(node[n].view_history, i) = node[n].ledger[i].term

\* "Candidate -> Leader, upon collecting enough votes" and "Leader -> Follower,
\* when receiving entries for a newer term" (leadership_state): the leader of a
\* view stood for election in it.
LeaderWasElected ==
  \A n \in Node :
    node[n].leadership_state = "Leader" /\ node[n].current_view > 2
    => node[n].voted_for = n /\ n \in node[n].votes_for_me

=============================================================================
