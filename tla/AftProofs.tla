----------------------------- MODULE AftProofs -----------------------------
(***************************************************************************)
(* Every call of Aft, in any state it can meet, leaves the containers of   *)
(* ledger indices in step with the ledger and what was committed in place: *)
(* TypeOK, IndicesWithinLedger and CommittedStays, for every set of nodes, *)
(* every reconfiguration and all bounds.                                   *)
(***************************************************************************)
EXTENDS AftMethodProofs

-----------------------------------------------------------------------------
(* Message handlers *)

\* execute_append_entries_finish is a Step.
LEMMA ExecuteFinish ==
  ASSUME NEW n, NEW s, WellFormed(s), NEW from \in Node, NEW r \in AppendEntries
  PROVE  Step(s, execute_append_entries_finish(n, s, from, r))
<1> DEFINE s1 == commit_if_possible(n, s, r.leader_commit_idx)
           lci == last_committable_index(s1)
           start == IF r.term_of_idx = InvalidView THEN 1 ELSE lci + 1
           term == IF r.term_of_idx = InvalidView THEN r.term ELSE r.term_of_idx
           s2 == [s1 EXCEPT !.view_history = update(@, start, term)]
           t1 == send_append_entries_response(s1, from, "OK", <<>>)
           t2 == send_append_entries_response(s2, from, "OK", <<>>)
<1>1. r.term \in Nat /\ r.term_of_idx \in Nat /\ r.leader_commit_idx \in Nat
  BY DEF AppendEntries
<1>2. execute_append_entries_finish(n, s, from, r) \in {s1, t1, t2}
  <2>1. execute_append_entries_finish(n, s, from, r) =
          LET new_term == r.term_of_idx = InvalidView \/ r.idx > lci
          IN  IF new_term /\ update_throws(s1.view_history, start) THEN s1
              ELSE send_append_entries_response(
                     IF new_term THEN s2 ELSE s1, from, "OK", <<>>)
    BY DEF execute_append_entries_finish
  <2> HIDE DEF s1, lci, s2, start, term
  <2> QED BY <2>1
<1>3. Step(s, s1) /\ WellFormed(s1)
  BY <1>1, CommitIfPossible DEF Step
<1> HIDE DEF s1
<1>4. last_idx(s1) \in Nat /\ s1.commit_idx \in Nat
  BY <1>3, Fields DEF WellFormed
<1>5. lci \in s1.commit_idx .. last_idx(s1)
  BY <1>3, LastCommittable
<1> HIDE DEF lci
<1>6. start \in 1 .. last_idx(s1) + 1 /\ term \in Nat
  BY <1>1, <1>4, <1>5
<1> HIDE DEF start, term
<1>7. Step(s1, s2) /\ WellFormed(s2)
  BY <1>3, <1>6, UpdateViews DEF Step
<1> HIDE DEF s2
<1>8. Step(s, s2)
  BY <1>3, <1>7, StepTransitive
<1>9. t1 \in NodeState /\ SameLog(s1, t1)
  BY <1>3, SendAppendEntriesResponse
<1>10. t2 \in NodeState /\ SameLog(s2, t2)
  BY <1>7, SendAppendEntriesResponse
<1> HIDE DEF t1, t2
<1>11. Step(s, t1) /\ Step(s, t2)
  BY <1>3, <1>8, <1>9, <1>10, SameLogAfter
<1> QED BY <1>2, <1>3, <1>11

\* The accepting half of recv_append_entries is a Step.
LEMMA AppendEntriesAccepted ==
  ASSUME NEW n, NEW s, WellFormed(s), NEW from \in Node, NEW r \in AppendEntries
  PROVE  Step(s, append_entries_accepted(n, s, from, r))
<1> DEFINE s1 == [s EXCEPT !.leader_id = from]
           s2 == IF s.is_new_follower /\ last_idx(s) > r.prev_idx
                 THEN rollback(n, s1, r.prev_idx) ELSE s1
           s3 == [s2 EXCEPT !.is_new_follower = FALSE]
           new == SubSeq(r.entries, last_idx(s3) - r.prev_idx + 1, Len(r.entries))
           s4 == execute_append_entries_sync(n, s3, new, r)
           t1 == execute_append_entries_finish(n, s4, from, r)
           t2 == send_append_entries_response(s4, from, "FAIL", <<>>)
           outside == r.prev_idx < s.commit_idx \/ r.prev_idx > last_idx(s)
<1>1. /\ s \in NodeState /\ last_idx(s) \in Nat /\ s.commit_idx \in Nat
      /\ r.prev_idx \in Nat /\ r.entries \in Seq(Entry)
  BY Fields DEF WellFormed, AppendEntries
<1>2. append_entries_accepted(n, s, from, r) =
        CASE outside -> s1
          [] OTHER -> CASE s4.apply = "PASS" -> t1
                        [] s4.apply = "FAIL" -> t2
                        [] s4.apply = "throw" -> s4
  BY DEF append_entries_accepted
<1>3. s1 \in NodeState /\ SameLog(s, s1)
  <2>1. from \in Node \union {Nil}
    OBVIOUS
  <2> QED BY <1>1, <2>1, ZenonT(40) DEF NodeState, SameLog
<1> HIDE DEF s1
<1>4. Step(s, s1) /\ WellFormed(s1) /\ last_idx(s1) = last_idx(s)
  BY <1>3, SameLogStep DEF Step, SameLog, last_idx
<1>5. CASE outside
  BY <1>2, <1>4, <1>5
<1>6. CASE ~ outside
  <2>1. r.prev_idx \in 0 .. last_idx(s1) /\ r.prev_idx >= s1.commit_idx
    BY <1>1, <1>3, <1>4, <1>6 DEF SameLog
  <2>2. /\ Step(s1, rollback(n, s1, r.prev_idx))
        /\ last_idx(rollback(n, s1, r.prev_idx)) = r.prev_idx
    BY <1>4, <2>1, Rollback
  <2>3. Step(s, s2) /\ WellFormed(s2) /\ r.prev_idx <= last_idx(s2)
    <3>1. Step(s, rollback(n, s1, r.prev_idx))
      BY <1>4, <2>2, StepTransitive
    <3>2. r.prev_idx <= r.prev_idx /\ r.prev_idx <= last_idx(s1)
      BY <1>1, <2>1
    <3>3. s2 = rollback(n, s1, r.prev_idx) \/ s2 = s1
      OBVIOUS
    <3> HIDE DEF s2
    <3> QED BY <1>4, <2>2, <3>1, <3>2, <3>3 DEF Step
  <2> HIDE DEF s2
  <2>4. s3 \in NodeState /\ SameLog(s2, s3)
    <3>1. s2 \in NodeState /\ FALSE \in BOOLEAN
      BY <2>3 DEF WellFormed
    <3> QED BY <3>1, ZenonT(40) DEF NodeState, SameLog
  <2> HIDE DEF s3
  <2>5. Step(s, s3) /\ WellFormed(s3) /\ last_idx(s3) = last_idx(s2)
    BY <2>3, <2>4, SameLogAfter DEF Step
  <2>6. last_idx(s3) \in Nat /\ r.prev_idx <= last_idx(s3)
    BY <2>3, <2>5, Fields DEF WellFormed
  <2>7. new \in Seq(Entry)
    <3> DEFINE first == last_idx(s3) - r.prev_idx + 1
    <3>1. first \in Nat \ {0} /\ Len(r.entries) \in Nat
      BY <1>1, <2>6, LenProperties
    <3> HIDE DEF first
    <3>2. \A i \in first .. Len(r.entries) : r.entries[i] \in Entry
      BY <1>1, <3>1, ElementOfSeq
    <3>3. SubSeq(r.entries, first, Len(r.entries)) \in Seq(Entry)
      BY <1>1, <3>1, <3>2, SubSeqProperties
    <3> QED BY <3>3 DEF first
  <2> HIDE DEF new
  <2>8. Step(s3, s4)
    BY <2>5, <2>6, <2>7, ExecuteSync
  <2> HIDE DEF s4
  <2>9. Step(s, s4) /\ WellFormed(s4)
    BY <2>5, <2>8, StepTransitive DEF Step
  <2>10. Step(s, t1)
    BY <2>9, ExecuteFinish, StepTransitive
  <2>11. t2 \in NodeState /\ SameLog(s4, t2)
    BY <2>9, SendAppendEntriesResponse
  <2>12. Step(s, t2)
    <3> HIDE DEF t2
    <3> QED BY <2>9, <2>11, SameLogAfter
  <2>13. s4.apply \in {"PASS", "FAIL", "throw"}
    BY <2>9 DEF WellFormed, NodeState
  <2> HIDE DEF t1, t2, outside
  <2> QED BY <1>2, <1>6, <2>9, <2>10, <2>12, <2>13
<1> QED BY <1>5, <1>6

\* recv_append_entries is a Step.
LEMMA RecvAppendEntries ==
  ASSUME NEW n, NEW s, WellFormed(s), NEW from \in Node, NEW r \in AppendEntries
  PROVE  Step(s, recv_append_entries(n, s, from, r))
<1> DEFINE s1 == IF \/ s.current_view < r.term
                    \/ s.current_view = r.term /\ s.leadership_state = "Candidate"
                 THEN become_aware_of_new_term(n, s, r.term) ELSE s
           prev_term == get_term_internal(s1, r.prev_idx)
           fail(rejected) == send_append_entries_response(s1, from, "FAIL", rejected)
           t == append_entries_accepted(n, s1, from, r)
           rejected == <<r.prev_term, r.prev_idx>>
<1>1. /\ r.term \in Nat /\ r.prev_idx \in Nat /\ r.prev_term \in Nat
      /\ s.current_view \in Nat
  BY Fields DEF WellFormed, AppendEntries
<1>2. recv_append_entries(n, s, from, r) \in {fail(<<>>), fail(rejected), t}
  <2>1. recv_append_entries(n, s, from, r) =
          CASE s.current_view > r.term -> fail(<<>>)
            [] s.current_view <= r.term /\ prev_term # r.prev_term ->
                 fail(IF prev_term = 0 THEN <<>> ELSE rejected)
            [] s.current_view <= r.term /\ prev_term = r.prev_term ->
                 IF /\ is_retired(s1) /\ s1.retirement_phase = "Completed"
                    /\ r.idx > s1.retirement_committable_idx
                 THEN fail(<<>>) ELSE t
    BY DEF recv_append_entries
  <2>2. \/ s.current_view > r.term
        \/ s.current_view <= r.term /\ prev_term # r.prev_term
        \/ s.current_view <= r.term /\ prev_term = r.prev_term
    BY <1>1
  <2> HIDE DEF s1, prev_term, rejected, t
  <2> DEFINE f(x) == fail(x)
  <2> HIDE DEF fail
  <2> QED BY <1>1, <2>1, <2>2
<1>3. Step(s, s1) /\ WellFormed(s1)
  BY <1>1, BecomeAware, StepReflexive DEF Step
<1> HIDE DEF s1
<1>4. fail(<<>>) \in NodeState /\ SameLog(s1, fail(<<>>))
  BY <1>3, SendAppendEntriesResponse
<1>5. fail(rejected) \in NodeState /\ SameLog(s1, fail(rejected))
  <2>1. rejected \in Nat \X Nat
    BY <1>1
  <2> HIDE DEF rejected
  <2> QED BY <1>3, <2>1, SendAppendEntriesResponse
<1>6. Step(s, t)
  BY <1>3, AppendEntriesAccepted, StepTransitive
<1> HIDE DEF fail, t
<1>7. Step(s, fail(<<>>)) /\ Step(s, fail(rejected))
  BY <1>3, <1>4, <1>5, SameLogAfter
<1> QED BY <1>2, <1>6, <1>7

\* A rejection received by a leader leads to a Step.
LEMMA AppendEntriesNack ==
  ASSUME NEW s, WellFormed(s), NEW from \in Node, NEW r \in AppendEntriesResponse
  PROVE  Step(s, append_entries_nack(s, from, r))
<1> DEFINE this_match == find_highest_possible_match(
                           s.view_history, last_idx(s), r.term, r.last_log_idx)
           match == IF s.match_idx[from] = 0 \/ this_match < s.match_idx[from]
                    THEN this_match ELSE s.match_idx[from]
           matches == [s.match_idx EXCEPT ![from] = match]
           sents == [s.sent_idx EXCEPT ![from] = match]
           t == [s EXCEPT !.match_idx = matches, !.sent_idx = sents]
<1>1. /\ s \in NodeState /\ last_idx(s) \in Nat
      /\ s.match_idx \in [Node -> Nat] /\ s.sent_idx \in [Node -> Nat]
      /\ s.view_history \in Seq(Nat) /\ SortedWithin(s.view_history, last_idx(s))
  BY Fields DEF WellFormed, well_indexed
<1>2. r.term \in Nat /\ r.last_log_idx \in Nat
  BY DEF AppendEntriesResponse
<1>3. this_match \in Nat
  <2>1. this_match \in possible_matches(s.view_history, last_idx(s), r.term,
                                        r.last_log_idx)
    BY <1>1, <1>2, HighestMatch
  <2> HIDE DEF this_match
  <2> QED BY <1>1, <2>1 DEF possible_matches
<1>4. append_entries_nack(s, from, r) = t
  BY DEF append_entries_nack
<1> HIDE DEF this_match
<1>5. match \in Nat
  BY <1>1, <1>3
<1> HIDE DEF match
<1>6. matches \in [Node -> Nat] /\ sents \in [Node -> Nat]
  BY <1>1, <1>5
<1> HIDE DEF matches, sents
<1>7. t \in NodeState /\ SameLog(s, t)
  BY <1>1, <1>6, ZenonT(40) DEF NodeState, SameLog
<1> HIDE DEF t
<1> QED BY <1>4, <1>7, SameLogStep

\* An acknowledgement received by a leader leads to a Step.
LEMMA AppendEntriesAck ==
  ASSUME NEW n, NEW s, WellFormed(s), NEW from \in Node,
         NEW r \in AppendEntriesResponse
  PROVE  Step(s, append_entries_ack(n, s, from, r))
<1> DEFINE match == IF r.last_log_idx < last_idx(s) THEN r.last_log_idx
                    ELSE last_idx(s)
           matches == [s.match_idx EXCEPT ![from] = match]
           s1 == [s EXCEPT !.match_idx = matches]
<1>1. /\ s \in NodeState /\ last_idx(s) \in Nat /\ s.match_idx \in [Node -> Nat]
      /\ r.last_log_idx \in Nat
  BY Fields DEF WellFormed, AppendEntriesResponse
<1>2. match \in Nat
  BY <1>1
<1>3. append_entries_ack(n, s, from, r) \in {s, update_commit(n, s1)}
  <2>1. append_entries_ack(n, s, from, r) =
          IF r.term = s.current_view /\ r.last_log_idx >= s.match_idx[from]
          THEN update_commit(n, s1) ELSE s
    BY DEF append_entries_ack
  <2> HIDE DEF s1
  <2> QED BY <2>1
<1> HIDE DEF match
<1>4. matches \in [Node -> Nat]
  BY <1>1, <1>2
<1> HIDE DEF matches
<1>5. s1 \in NodeState /\ SameLog(s, s1)
  BY <1>1, <1>4, ZenonT(40) DEF NodeState, SameLog
<1> HIDE DEF s1
<1>6. Step(s, s1) /\ WellFormed(s1)
  BY <1>5, SameLogStep DEF Step
<1>7. Step(s, update_commit(n, s1))
  BY <1>6, UpdateCommit, StepTransitive
<1> QED BY <1>3, <1>7, StepReflexive

\* recv_append_entries_response is a Step.
LEMMA RecvAppendEntriesResponse ==
  ASSUME NEW n, NEW s, WellFormed(s), NEW from \in Node,
         NEW r \in AppendEntriesResponse
  PROVE  Step(s, recv_append_entries_response(n, s, from, r))
<1>1. r.term \in Nat
  BY DEF AppendEntriesResponse
<1>2. /\ Step(s, s) /\ Step(s, become_aware_of_new_term(n, s, r.term))
      /\ Step(s, append_entries_nack(s, from, r))
      /\ Step(s, append_entries_ack(n, s, from, r))
  BY <1>1, StepReflexive, BecomeAware, AppendEntriesNack, AppendEntriesAck
<1> QED BY <1>2 DEF recv_append_entries_response

\* recv_request_vote is a Step.
LEMMA RecvRequestVote ==
  ASSUME NEW n, NEW s, WellFormed(s), NEW from \in Node, NEW r \in RequestVote
  PROVE  Step(s, recv_request_vote(n, s, from, r))
<1> DEFINE s1 == IF s.current_view < r.term
                 THEN become_aware_of_new_term(n, s, r.term) ELSE s
           answer == /\ s.current_view <= r.term
                     /\ s1.leader_id = Nil
                     /\ s1.voted_for \in {Nil, from}
                     /\ up_to_date(s1, r)
           u == [s1 EXCEPT !.voted_for = from]
           s2 == IF answer THEN u ELSE s1
           t == send_request_vote_response(s2, from, answer)
<1>1. r.term \in Nat
  BY DEF RequestVote
<1>2. recv_request_vote(n, s, from, r) = t
  BY DEF recv_request_vote
<1>3. answer \in BOOLEAN
  OBVIOUS
<1>4. Step(s, s1) /\ WellFormed(s1) /\ s1 \in NodeState
  BY <1>1, BecomeAware, StepReflexive DEF Step, WellFormed
<1> HIDE DEF answer, s1
<1>5. u \in NodeState /\ SameLog(s1, u)
  <2>1. from \in Node \union {Nil}
    OBVIOUS
  <2> QED BY <1>4, <2>1, ZenonT(40) DEF NodeState, SameLog
<1> HIDE DEF u
<1>6. s2 \in NodeState /\ SameLog(s1, s2)
  BY <1>4, <1>5 DEF SameLog
<1> HIDE DEF s2
<1>7. t \in NodeState /\ SameLog(s2, t)
  BY <1>3, <1>6, SendRequestVoteResponse
<1> HIDE DEF t
<1>8. Step(s, s2)
  BY <1>4, <1>6, SameLogAfter
<1> QED BY <1>2, <1>7, <1>8, SameLogAfter

\* recv_request_vote_response is a Step.
LEMMA RecvRequestVoteResponse ==
  ASSUME NEW n \in Node, NEW s, WellFormed(s), NEW from \in Node,
         NEW r \in RequestVoteResponse
  PROVE  Step(s, recv_request_vote_response(n, s, from, r))
<1>1. r.term \in Nat
  BY DEF RequestVoteResponse
<1>2. /\ Step(s, s) /\ Step(s, become_aware_of_new_term(n, s, r.term))
      /\ Step(s, add_vote_for_me(n, s, from))
  BY <1>1, StepReflexive, BecomeAware, AddVote
<1> QED BY <1>2 DEF recv_request_vote_response

\* recv_message is a Step.
LEMMA RecvMessage ==
  ASSUME NEW n \in Node, NEW s, WellFormed(s), NEW from \in Node, NEW r \in Message
  PROVE  Step(s, recv_message(n, s, from, r))
<1>1. CASE r \in AppendEntries
  <2>1. r.type = "AppendEntries"
    BY <1>1 DEF AppendEntries
  <2>2. recv_message(n, s, from, r) = recv_append_entries(n, s, from, r)
    BY <2>1 DEF recv_message
  <2> QED BY <1>1, <2>2, RecvAppendEntries
<1>2. CASE r \in AppendEntriesResponse
  <2>1. r.type = "AppendEntriesResponse"
    BY <1>2 DEF AppendEntriesResponse
  <2>2. recv_message(n, s, from, r) = recv_append_entries_response(n, s, from, r)
    BY <2>1 DEF recv_message
  <2> QED BY <1>2, <2>2, RecvAppendEntriesResponse
<1>3. CASE r \in RequestVote
  <2>1. r.type = "RequestVote"
    BY <1>3 DEF RequestVote
  <2>2. recv_message(n, s, from, r) = recv_request_vote(n, s, from, r)
    BY <2>1 DEF recv_message
  <2> QED BY <1>3, <2>2, RecvRequestVote
<1>4. CASE r \in RequestVoteResponse
  <2>1. r.type = "RequestVoteResponse"
    BY <1>4 DEF RequestVoteResponse
  <2>2. recv_message(n, s, from, r) = recv_request_vote_response(n, s, from, r)
    BY <2>1 DEF recv_message
  <2> QED BY <1>4, <2>2, RecvRequestVoteResponse
<1> QED BY <1>1, <1>2, <1>3, <1>4 DEF Message

-----------------------------------------------------------------------------
(* The actions *)

\* The new entry, its index and its view make a Step.
LEMMA ReplicateEntry ==
  ASSUME NEW n, NEW s, WellFormed(s), NEW e \in Entry
  PROVE  Step(s, replicate_entry(n, s, e))
<1> DEFINE index == last_idx(s) + 1
           committable == add_committable(s, index)
           s1 == CASE e.type = "config" -> add_configuration(n, s, index, e.nodes)
                   [] e.type = "sig" -> start_ticking_if_necessary(n, committable)
                   [] e.type = "tx" -> s
           log == Append(s1.ledger, e)
           views == update(s1.view_history, index, s.current_view)
           s2 == [s1 EXCEPT !.ledger = log, !.view_history = views]
<1>1. /\ s \in NodeState /\ last_idx(s) \in Nat /\ s.commit_idx \in Nat
      /\ s.current_view \in Nat /\ index \in Nat
      /\ s.ledger \in Seq(Entry) /\ s.view_history \in Seq(Nat)
      /\ s.commit_idx <= last_idx(s) /\ SortedWithin(s.view_history, last_idx(s))
  BY Fields DEF WellFormed, well_indexed
<1>2. e.nodes \in SUBSET Node /\ e.type \in {"config", "sig", "tx"}
  BY DEF Entry
<1>3. replicate_entry(n, s, e) = s2
  BY DEF replicate_entry
<1> HIDE DEF index
<1>4. /\ s1 \in NodeState /\ s1.ledger = s.ledger /\ s1.commit_idx = s.commit_idx
      /\ s1.view_history = s.view_history
      /\ \A i \in s1.committable_indices :
           i \in s.committable_indices \/ (e.type = "sig" /\ i = index)
  <2>1. LET t == add_configuration(n, s, index, e.nodes)
        IN  t \in NodeState /\ SameLog(s, t)
    BY <1>1, <1>2, AddConfiguration
  <2>2. /\ committable \in NodeState /\ committable.ledger = s.ledger
        /\ committable.commit_idx = s.commit_idx
        /\ committable.view_history = s.view_history
        /\ committable.committable_indices = s.committable_indices \union {index}
    BY <1>1, AddCommittable
  <2> HIDE DEF committable
  <2>3. LET t == start_ticking_if_necessary(n, committable)
        IN  t \in NodeState /\ SameLog(committable, t)
    BY <2>2, StartTicking
  <2>4. CASE e.type = "config"
    <3>1. s1 = add_configuration(n, s, index, e.nodes)
      BY <2>4
    <3> HIDE DEF s1
    <3> QED BY <2>1, <3>1 DEF SameLog
  <2>5. CASE e.type = "sig"
    <3>1. s1 = start_ticking_if_necessary(n, committable)
      BY <2>5
    <3> HIDE DEF s1
    <3> QED BY <2>2, <2>3, <2>5, <3>1 DEF SameLog
  <2>6. CASE e.type = "tx"
    <3>1. s1 = s
      BY <2>6
    <3> HIDE DEF s1
    <3> QED BY <1>1, <3>1
  <2> QED BY <1>2, <2>4, <2>5, <2>6
<1> HIDE DEF s1
<1>5. /\ log \in Seq(Entry) /\ Len(log) = index /\ log[index] = e
      /\ \A i \in 1 .. last_idx(s) : log[i] = s.ledger[i]
  BY <1>1, <1>4, AppendProperties DEF last_idx, index
<1>6. views \in Seq(Nat) /\ SortedWithin(views, index)
  <2>1. index \in 1 .. last_idx(s) + 1
    BY <1>1 DEF index
  <2>2. views \in Seq(Nat) /\ SortedWithin(views, last_idx(s))
    BY <1>1, <1>4, <2>1, UpdateSorted
  <2> HIDE DEF views
  <2> QED BY <1>1, <2>2 DEF SortedWithin, index
<1> HIDE DEF log, views
<1>7. /\ s2 \in NodeState /\ s2.ledger = log /\ s2.view_history = views
      /\ s2.commit_idx = s1.commit_idx
      /\ s2.committable_indices = s1.committable_indices
  BY <1>4, <1>5, <1>6, ZenonT(40) DEF NodeState
<1> HIDE DEF s2
<1>8. Step(s, s2)
  <2>1. last_idx(s2) = index
    BY <1>5, <1>7 DEF last_idx
  <2>2. \A i \in s2.committable_indices :
          i \in s2.commit_idx + 1 .. last_idx(s2) /\ s2.ledger[i].type = "sig"
    <3> SUFFICES ASSUME NEW i \in s1.committable_indices
                 PROVE  i \in s.commit_idx + 1 .. index /\ log[i].type = "sig"
      BY <1>4, <1>7, <2>1
    <3>1. CASE i \in s.committable_indices
      <4>1. i \in s.commit_idx + 1 .. last_idx(s) /\ s.ledger[i].type = "sig"
        BY <3>1 DEF WellFormed, well_indexed
      <4>2. i \in 1 .. last_idx(s) /\ i \in s.commit_idx + 1 .. index
        BY <1>1, <4>1 DEF index
      <4> QED BY <1>5, <4>1, <4>2
    <3>2. CASE e.type = "sig" /\ i = index
      BY <1>1, <1>5, <3>2 DEF index
    <3> QED BY <1>4, <3>1, <3>2
  <2>3. s2.commit_idx <= last_idx(s2) /\ last_idx(s2) >= s.commit_idx
    BY <1>1, <1>4, <1>7, <2>1 DEF index
  <2>4. WellFormed(s2)
    BY <1>6, <1>7, <2>1, <2>2, <2>3 DEF WellFormed, well_indexed
  <2>5. \A i \in 1 .. s.commit_idx : s2.ledger[i] = s.ledger[i]
    BY <1>1, <1>5, <1>7
  <2> QED BY <1>1, <1>4, <1>7, <2>3, <2>4, <2>5 DEF Step, Keeps
<1> QED BY <1>3, <1>8

\* replicate is a Step.
LEMMA ReplicateStep ==
  ASSUME NEW n, NEW s, WellFormed(s), NEW e \in Entry, NEW flush \in BOOLEAN
  PROVE  Step(s, replicate(n, s, e, flush))
<1> DEFINE s2 == replicate_entry(n, s, e)
           start == [p \in Node |-> s2.sent_idx[p] + 1]
           sent == send_append_entries(s2, nodes(n, s2), start)
           s3 == IF flush THEN sent ELSE s2
<1>1. Step(s, s2) /\ WellFormed(s2) /\ s2 \in NodeState
  BY ReplicateEntry DEF Step, WellFormed
<1>2. replicate(n, s, e, flush) =
        IF nodes(n, s3) = {} THEN update_commit(n, s3) ELSE s3
  BY DEF replicate
<1> HIDE DEF s2
<1>3. sent \in NodeState /\ SameLog(s2, sent)
  <2>1. nodes(n, s2) \in SUBSET Node /\ s2.sent_idx \in [Node -> Nat]
    BY <1>1, Fields, NodesType
  <2>2. \A p \in nodes(n, s2) : start[p] \in Nat \ {0}
    BY <2>1
  <2> HIDE DEF start
  <2> QED BY <1>1, <2>1, <2>2, SendAppendEntries
<1> HIDE DEF sent
<1>4. Step(s, s3) /\ WellFormed(s3)
  BY <1>1, <1>3, SameLogAfter DEF Step
<1> HIDE DEF s3
<1>5. Step(s, update_commit(n, s3))
  BY <1>4, UpdateCommit, StepTransitive
<1> QED BY <1>2, <1>4, <1>5

-----------------------------------------------------------------------------
(* The specification *)

\* The inductive invariant: well_indexed is inductive once the types are known,
\* because no method reads a container of indices without the ledger.
IInv == TypeOK /\ IndicesWithinLedger

\* Every node keeps what it had committed.
Stays == \A m \in Node : Keeps(node[m], node'[m])

\* An action that makes a Step of one node and sends its output keeps the invariant.
LEMMA Finish ==
  ASSUME IInv, NEW n \in Node, NEW t, Step(node[n], t),
         NEW channels \in [Node \X Node -> Seq(Message)], finish(n, t, channels)
  PROVE  IInv' /\ Stays
<1> DEFINE u == [t EXCEPT !.out = no_output, !.apply = "PASS"]
<1>1. /\ node' = [node EXCEPT ![n] = u]
      /\ net' = [link \in Node \X Node |->
                   IF link[1] = n
                   THEN in_flight(channels[link] \o t.out[link[2]])
                   ELSE channels[link]]
  BY DEF finish
<1>2. node \in [Node -> NodeState] /\ \A m \in Node : WellFormed(node[m])
  BY DEF IInv, TypeOK, IndicesWithinLedger, WellFormed
<1>3. t \in NodeState /\ WellFormed(t)
  BY DEF Step, WellFormed
<1>4. u \in NodeState /\ SameLog(t, u)
  <2>1. no_output \in [Node -> Seq(Message)]
    BY DEF no_output
  <2> QED BY <1>3, <2>1, ZenonT(40) DEF NodeState, SameLog
<1> HIDE DEF u
<1>5. Step(node[n], u)
  BY <1>2, <1>4, SameLogAfter
<1>6. \A m \in Node : Step(node[m], node'[m])
  <2> SUFFICES ASSUME NEW m \in Node PROVE Step(node[m], node'[m])
    OBVIOUS
  <2>1. CASE m = n
    <3>1. node'[m] = u
      BY <1>1, <1>2, <2>1
    <3> QED BY <1>5, <2>1, <3>1
  <2>2. CASE m # n
    <3>1. node'[m] = node[m]
      BY <1>1, <1>2, <2>2
    <3> QED BY <1>2, <3>1, StepReflexive
  <2> QED BY <2>1, <2>2
<1>7. node' \in [Node -> NodeState]
  BY <1>1, <1>2, <1>4
<1>8. net' \in [Node \X Node -> Seq(Message)]
  <2>1. \A link \in Node \X Node :
          in_flight(channels[link] \o t.out[link[2]]) \in Seq(Message)
    <3> SUFFICES ASSUME NEW link \in Node \X Node
                 PROVE  in_flight(channels[link] \o t.out[link[2]]) \in Seq(Message)
      OBVIOUS
    <3> DEFINE ms == channels[link] \o t.out[link[2]]
               k == IF Len(ms) < MaxInFlight THEN Len(ms) ELSE MaxInFlight
    <3>1. channels[link] \in Seq(Message) /\ t.out[link[2]] \in Seq(Message)
      BY <1>3, Fields
    <3>2. ms \in Seq(Message) /\ Len(ms) \in Nat
      BY <3>1, ConcatProperties, LenProperties
    <3> HIDE DEF ms
    <3>3. k \in 0 .. Len(ms)
      BY <3>2, ConstantsAssumption
    <3> HIDE DEF k
    <3>4. \A i \in 1 .. k : ms[i] \in Message
      BY <3>2, <3>3, ElementOfSeq
    <3>5. SubSeq(ms, 1, k) \in Seq(Message)
      BY <3>2, <3>3, <3>4, SubSeqProperties
    <3> QED BY <3>5 DEF in_flight, ms, k
  <2> QED BY <1>1, <2>1
<1> QED BY <1>6, <1>7, <1>8
        DEF IInv, TypeOK, IndicesWithinLedger, Stays, Step, WellFormed


\* The initial states satisfy the invariant.
LEMMA InitInvariant == Init => IInv
<1> SUFFICES ASSUME Init PROVE IInv
  OBVIOUS
<1>1. no_index \in [Node -> Nat] /\ no_output \in [Node -> Seq(Message)]
  BY DEF no_index, no_output
<1>2. InitialLedger \in Seq(Entry) /\ Len(InitialLedger) = 2
  <2>1. [term |-> 2, type |-> "config", nodes |-> InitialConfig] \in Entry
    BY ConstantsAssumption DEF Entry
  <2>2. [term |-> 2, type |-> "sig", nodes |-> {}] \in Entry
    BY DEF Entry
  <2> QED BY <2>1, <2>2 DEF InitialLedger
<1>3. {[idx |-> 1, nodes |-> InitialConfig]} \in SUBSET Configuration
  BY ConstantsAssumption DEF Configuration
<1>4. InitialLeader \in Node \union {Nil} /\ Nil \in Node \union {Nil}
  BY ConstantsAssumption
<1>5. ASSUME NEW n \in Node PROVE WellFormed(member(n))
  <2> DEFINE state == IF n = InitialLeader THEN "Leader" ELSE "Follower"
             idx == [p \in Node |-> IF n = InitialLeader
                                       /\ p \in InitialConfig \ {n} THEN 2 ELSE 0]
  <2>1. state \in {"None", "Follower", "Candidate", "Leader"} /\ idx \in [Node -> Nat]
    OBVIOUS
  <2>2. member(n) =
          [current_view |-> 2, voted_for |-> Nil, votes_for_me |-> {},
           leader_id |-> InitialLeader, leadership_state |-> state,
           membership_state |-> "Active", retirement_phase |-> "None",
           retirement_idx |-> 0, retirement_committable_idx |-> 0,
           is_new_follower |-> FALSE, ticking |-> TRUE,
           ledger |-> InitialLedger, commit_idx |-> 2, view_history |-> <<1, 1>>,
           committable_indices |-> {},
           configurations |-> {[idx |-> 1, nodes |-> InitialConfig]},
           sent_idx |-> idx, match_idx |-> idx, out |-> no_output, apply |-> "PASS"]
    BY DEF member
  <2> HIDE DEF state, idx
  <2>3. /\ 0 \in Nat /\ 2 \in Nat /\ <<1, 1>> \in Seq(Nat)
        /\ {} \in SUBSET Nat /\ {} \in SUBSET Node
    OBVIOUS
  <2>4. member(n) \in NodeState
    BY <1>1, <1>2, <1>3, <1>4, <2>1, <2>2, <2>3 DEF NodeState
  <2>5. /\ member(n).ledger = InitialLedger /\ member(n).commit_idx = 2
        /\ member(n).view_history = <<1, 1>> /\ member(n).committable_indices = {}
    BY <2>2
  <2>6. SortedWithin(<<1, 1>>, 2)
    BY DEF SortedWithin
  <2>7. last_idx(member(n)) = 2
    BY <1>2, <2>5 DEF last_idx
  <2>8. member(n).commit_idx <= last_idx(member(n))
    BY <2>5, <2>7
  <2>9. SortedWithin(member(n).view_history, last_idx(member(n)))
    BY <2>5, <2>6, <2>7, ZenonT(40)
  <2>10. \A i \in member(n).committable_indices : FALSE
    BY <2>5
  <2> QED BY <2>4, <2>8, <2>9, <2>10 DEF WellFormed, well_indexed
<1>6. WellFormed(joiner)
  <2>1. 0 \in Nat /\ <<>> \in Seq(Nat) /\ <<>> \in Seq(Entry)
    OBVIOUS
  <2>2. joiner \in NodeState
    BY <1>1, <1>4, <2>1 DEF NodeState, joiner
  <2>3. /\ joiner.ledger = <<>> /\ joiner.commit_idx = 0
        /\ joiner.view_history = <<>> /\ joiner.committable_indices = {}
    BY DEF joiner
  <2>4. SortedWithin(<<>>, 0)
    BY DEF SortedWithin
  <2> QED BY <2>2, <2>3, <2>4 DEF WellFormed, well_indexed, last_idx
<1>7. node = [n \in Node |-> IF n \in InitialConfig THEN member(n) ELSE joiner]
  BY DEF Init
<1>8. \A n \in Node : WellFormed(node[n])
  BY <1>5, <1>6, <1>7
<1>9. node \in [Node -> NodeState]
  BY <1>5, <1>6, <1>7 DEF WellFormed
<1>10. net \in [Node \X Node -> Seq(Message)]
  BY DEF Init
<1> QED BY <1>8, <1>9, <1>10 DEF IInv, TypeOK, IndicesWithinLedger, WellFormed

\* Every step keeps the invariant and what each node has committed.
LEMMA NextInvariant == IInv /\ [Next]_vars => IInv' /\ (Stays \/ UNCHANGED vars)
<1> SUFFICES ASSUME IInv, [Next]_vars PROVE IInv' /\ (Stays \/ UNCHANGED vars)
  OBVIOUS
<1>1. /\ node \in [Node -> NodeState] /\ net \in [Node \X Node -> Seq(Message)]
      /\ \A m \in Node : WellFormed(node[m])
  BY DEF IInv, TypeOK, IndicesWithinLedger, WellFormed
<1>2. CASE UNCHANGED vars
  BY <1>2 DEF vars, IInv, TypeOK, IndicesWithinLedger
<1>3. CASE Next
  <2>1. PICK n \in Node :
          \/ Replicate(n) \/ ReplicateRejected(n) \/ SendUpdates(n)
          \/ CheckQuorum(n) \/ StartElection(n)
          \/ \E from \in Node : Receive(n, from) \/ Lose(n, from)
    BY <1>3 DEF Next
  <2> DEFINE s == node[n]
  <2>2. WellFormed(s) /\ s \in NodeState
    BY <1>1
  <2>3. last_idx(s) \in Nat /\ nodes(n, s) \in SUBSET Node /\ s.sent_idx \in [Node -> Nat]
        /\ s.current_view \in Nat
    BY <2>2, Fields, NodesType
  <2>4. CASE Replicate(n)
    <3>1. PICK e \in NewEntries(s), flush \in BOOLEAN :
            finish(n, replicate(n, s, e, flush), net)
      BY <2>4 DEF Replicate
    <3>2. e \in Entry
      BY <2>3, ConstantsAssumption DEF NewEntries, possible_reconfigs, Entry
    <3>3. Step(s, replicate(n, s, e, flush))
      BY <2>2, <3>2, ReplicateStep
    <3> QED BY <1>1, <3>1, <3>3, Finish
  <2>5. CASE ReplicateRejected(n)
    <3>1. last_idx(s) \in 0 .. last_idx(s)
      BY <2>3
    <3>2. Step(s, rollback(n, s, last_idx(s)))
      BY <2>2, <3>1, Rollback
    <3> QED BY <1>1, <2>5, <3>2, Finish DEF ReplicateRejected
  <2>6. CASE SendUpdates(n)
    <3> DEFINE start == [p \in Node |-> s.sent_idx[p] + 1]
               t == send_append_entries(s, nodes(n, s), start)
    <3>1. \A p \in nodes(n, s) : start[p] \in Nat \ {0}
      BY <2>3
    <3>2. finish(n, t, net)
      BY <2>6 DEF SendUpdates
    <3> HIDE DEF start
    <3>3. t \in NodeState /\ SameLog(s, t)
      BY <2>2, <2>3, <3>1, SendAppendEntries
    <3> HIDE DEF t
    <3>4. Step(s, t)
      BY <2>2, <3>3, SameLogStep
    <3> QED BY <1>1, <3>2, <3>4, Finish
  <2>7. CASE CheckQuorum(n)
    <3>1. Step(s, become_follower(n, s))
      BY <2>2, BecomeFollower
    <3> QED BY <1>1, <2>7, <3>1, Finish DEF CheckQuorum
  <2>8. CASE StartElection(n)
    <3>1. Step(s, become_candidate(n, s))
      BY <2>2, BecomeCandidate
    <3> QED BY <1>1, <2>8, <3>1, Finish DEF StartElection
  <2>9. ASSUME NEW from \in Node, Receive(n, from) PROVE IInv' /\ Stays
    <3> DEFINE link == <<from, n>>
               r == Head(net[link])
               t == recv_message(n, s, from, r)
               channels == [net EXCEPT ![link] = Tail(@)]
    <3>1. net[link] \in Seq(Message) /\ net[link] # <<>>
      BY <1>1, <2>9 DEF Receive
    <3>2. r \in Message /\ Tail(net[link]) \in Seq(Message)
      BY <3>1, HeadTailProperties
    <3>3. channels \in [Node \X Node -> Seq(Message)]
      BY <1>1, <3>2
    <3>4. Step(s, t)
      BY <2>2, <3>2, RecvMessage
    <3>5. finish(n, t, channels)
      BY <2>9 DEF Receive
    <3> HIDE DEF t, channels
    <3> QED BY <1>1, <3>3, <3>4, <3>5, Finish
  <2>10. ASSUME NEW from \in Node, Lose(n, from) PROVE IInv' /\ Stays
    <3> DEFINE link == <<from, n>>
    <3>1. /\ net' = [net EXCEPT ![link] = Tail(@)] /\ node' = node
          /\ net[link] # <<>>
      BY <2>10 DEF Lose
    <3>2. net[link] \in Seq(Message)
      BY <1>1
    <3>3. Tail(net[link]) \in Seq(Message)
      BY <3>1, <3>2, HeadTailProperties
    <3>4. net' \in [Node \X Node -> Seq(Message)]
      BY <1>1, <3>1, <3>3
    <3>5. Stays
      <4>1. \A m \in Node : Keeps(node[m], node[m])
        BY <1>1, StepReflexive DEF Step
      <4> QED BY <3>1, <4>1 DEF Stays
    <3> QED BY <3>1, <3>4, <3>5 DEF IInv, TypeOK, IndicesWithinLedger
  <2> QED BY <2>1, <2>4, <2>5, <2>6, <2>7, <2>8, <2>9, <2>10
<1> QED BY <1>2, <1>3

\* The inductive invariant holds in every reachable state, for every choice of
\* the constants.
LEMMA Invariant == Spec => []IInv
<1>1. IInv /\ [Next]_vars => IInv'
  BY NextInvariant
<1> QED BY InitInvariant, <1>1, PTL DEF Spec

\* The members of every Aft object, and the messages in the channels, keep the
\* types that raft.h, state.h and raft_types.h declare.
THEOREM TypeCorrect == Spec => []TypeOK
<1>1. IInv => TypeOK
  BY DEF IInv
<1> QED BY Invariant, <1>1, PTL

\* After every call of any node, commit_idx, the committable indices and the
\* view history fit the ledger, in every execution with any number of nodes and
\* any reconfigurations.
THEOREM IndicesStayWithinLedger == Spec => []IndicesWithinLedger
<1>1. IInv => IndicesWithinLedger
  BY DEF IInv
<1> QED BY Invariant, <1>1, PTL

\* No call of Aft, in any interleaving and after any loss of messages, moves
\* commit_idx back or changes an entry that the node had committed.
THEOREM CommittedNeverLost == Spec => CommittedStays
<1> DEFINE A == \A n \in Node :
                  /\ node'[n].commit_idx >= node[n].commit_idx
                  /\ last_idx(node'[n]) >= node[n].commit_idx
                  /\ \A i \in 1 .. node[n].commit_idx :
                       node'[n].ledger[i] = node[n].ledger[i]
<1>1. IInv /\ [Next]_vars => [A]_vars
  <2>1. Stays => A
    BY DEF Stays, Keeps
  <2> HIDE DEF A
  <2> QED BY <2>1, NextInvariant
<1>2. CommittedStays <=> [][A]_vars
  BY DEF CommittedStays
<1> HIDE DEF A
<1> QED BY Invariant, <1>1, <1>2, PTL DEF Spec

=============================================================================
