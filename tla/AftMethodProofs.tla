-------------------------- MODULE AftMethodProofs --------------------------
(***************************************************************************)
(* A lemma for each method of Aft: called in a state whose indices fit its *)
(* ledger, it leaves such a state, and what was committed is still there.  *)
(* AftProofs puts them together.                                           *)
(***************************************************************************)
EXTENDS Aft, ViewHistoryProofs

\* The inductive invariant, for one node.
WellFormed(s) == s \in NodeState /\ well_indexed(s)

\* t still has what s has committed.
Keeps(s, t) ==
  /\ t.commit_idx >= s.commit_idx
  /\ last_idx(t) >= s.commit_idx
  /\ \A i \in 1 .. s.commit_idx : t.ledger[i] = s.ledger[i]

\* What every method guarantees of the state it leaves.
Step(s, t) == WellFormed(t) /\ Keeps(s, t)

\* The fields that WellFormed and Keeps read.
SameLog(s, t) ==
  /\ t.ledger = s.ledger /\ t.commit_idx = s.commit_idx
  /\ t.view_history = s.view_history
  /\ t.committable_indices = s.committable_indices

-----------------------------------------------------------------------------
(* Small facts about states *)

\* The types of the fields, one by one.
LEMMA Fields ==
  ASSUME NEW s \in NodeState
  PROVE  /\ s.current_view \in Nat /\ s.voted_for \in Node \union {Nil}
         /\ s.votes_for_me \in SUBSET Node /\ s.leader_id \in Node \union {Nil}
         /\ s.retirement_idx \in Nat /\ s.retirement_committable_idx \in Nat
         /\ s.is_new_follower \in BOOLEAN /\ s.ticking \in BOOLEAN
         /\ s.ledger \in Seq(Entry) /\ s.commit_idx \in Nat
         /\ s.view_history \in Seq(Nat)
         /\ s.committable_indices \in SUBSET Nat
         /\ s.configurations \in SUBSET Configuration
         /\ s.sent_idx \in [Node -> Nat] /\ s.match_idx \in [Node -> Nat]
         /\ s.out \in [Node -> Seq(Message)]
         /\ last_idx(s) \in Nat
<1>1. s.ledger \in Seq(Entry)
  BY DEF NodeState
<1>2. last_idx(s) \in Nat
  BY <1>1, LenProperties DEF last_idx
<1> QED BY <1>1, <1>2 DEF NodeState

\* A method that leaves the log alone is a Step.
LEMMA SameLogStep ==
  ASSUME NEW s, NEW t, WellFormed(s), t \in NodeState, SameLog(s, t)
  PROVE  Step(s, t)
<1>1. s.commit_idx \in Nat /\ last_idx(s) \in Nat
  BY Fields DEF WellFormed
<1> QED BY <1>1 DEF Step, WellFormed, Keeps, SameLog, well_indexed, last_idx

\* Methods called one after the other make a Step together.
LEMMA StepTransitive ==
  ASSUME NEW s, NEW t, NEW u, WellFormed(s), Step(s, t), Step(t, u)
  PROVE  Step(s, u)
<1>1. /\ s.commit_idx \in Nat /\ t.commit_idx \in Nat /\ u.commit_idx \in Nat
      /\ last_idx(t) \in Nat /\ last_idx(u) \in Nat
  BY Fields DEF WellFormed, Step
<1> QED BY <1>1 DEF Step, Keeps

\* Doing nothing is a Step.
LEMMA StepReflexive ==
  ASSUME NEW s, WellFormed(s)
  PROVE  Step(s, s)
BY SameLogStep DEF WellFormed, SameLog

\* Max of a non-empty finite set of naturals is its greatest element.
LEMMA MaxElement ==
  ASSUME NEW n \in Nat, NEW S \in SUBSET (0 .. n), S # {}
  PROVE  Max(S) \in S /\ \A y \in S : y <= Max(S)
<1>1. PICK x \in S : \A y \in S : y <= x
  BY GreatestElement
<1>2. \E x1 \in S : \A y \in S : x1 >= y
  BY <1>1
<1>3. Max(S) \in S /\ \A y \in S : Max(S) >= y
  BY <1>2 DEF Max
<1> QED BY <1>3

\* The index that become_follower and become_leader roll back to.
LEMMA LastCommittable ==
  ASSUME NEW s, WellFormed(s)
  PROVE  last_committable_index(s) \in s.commit_idx .. last_idx(s)
<1>1. s.commit_idx \in Nat /\ last_idx(s) \in Nat /\ s.commit_idx <= last_idx(s)
  BY Fields DEF WellFormed, well_indexed
<1>2. s.committable_indices \in SUBSET (0 .. last_idx(s))
  BY <1>1 DEF WellFormed, well_indexed
<1>3. s.committable_indices # {} => Max(s.committable_indices) \in s.committable_indices
  BY <1>1, <1>2, MaxElement
<1> QED BY <1>1, <1>3 DEF last_committable_index, WellFormed, well_indexed

-----------------------------------------------------------------------------
(* Sending *)

\* Append entries messages with entries of a set E.
AppendEntriesOf(E) ==
  [type : {"AppendEntries"}, term : Nat, idx : Nat, prev_idx : Nat,
   prev_term : Nat, leader_commit_idx : Nat, term_of_idx : Nat,
   entries : Seq(E)]

\* get_term_internal returns a view.
LEMMA TermType ==
  ASSUME NEW s, WellFormed(s), NEW idx \in Nat
  PROVE  /\ view_at(s.view_history, idx) \in Nat
         /\ get_term_internal(s, idx) \in Nat
<1>1. /\ s.view_history \in Seq(Nat) /\ last_idx(s) \in Nat
      /\ SortedWithin(s.view_history, last_idx(s))
  BY Fields DEF WellFormed, well_indexed
<1>2. upper_bound(s.view_history, idx) \in 0 .. Len(s.view_history)
  BY <1>1, UpperBound
<1>3. Len(s.view_history) \in Nat
  BY <1>1, LenProperties
<1> QED BY <1>2, <1>3 DEF view_at, get_term_internal, InvalidView

\* The append entries message made for a batch is a message.
LEMMA AppendEntriesType ==
  ASSUME NEW s, WellFormed(s), NEW E, s.ledger \in Seq(E),
         NEW start \in Nat \ {0}, NEW end \in 0 .. last_idx(s)
  PROVE  append_entries(s, start, end) \in AppendEntriesOf(E)
<1>1. /\ s.current_view \in Nat /\ s.commit_idx \in Nat /\ last_idx(s) \in Nat
      /\ s.ledger \in Seq(Entry)
  BY Fields DEF WellFormed
<1>2. start - 1 \in Nat /\ end \in Nat
  BY <1>1
<1>3. get_term_internal(s, start - 1) \in Nat /\ get_term_internal(s, end) \in Nat
  BY <1>2, TermType
<1>4. SubSeq(s.ledger, start, end) \in Seq(E)
  <2>1. \A i \in start .. end : i \in 1 .. Len(s.ledger)
    BY <1>1, <1>2 DEF last_idx
  <2>2. \A i \in start .. end : s.ledger[i] \in E
    BY <2>1, ElementOfSeq
  <2>3. start \in Int /\ end \in Int
    BY <1>2
  <2> QED BY <2>2, <2>3, SubSeqProperties
<1> QED BY <1>1, <1>2, <1>3, <1>4, ZenonT(40) DEF append_entries, AppendEntriesOf

\* A batch is not empty and does not run beyond the ledger.
LEMMA EndIndex ==
  ASSUME NEW s, WellFormed(s), NEW start \in 1 .. last_idx(s)
  PROVE  calculate_end_index(s, start) \in start .. last_idx(s)
<1>1. /\ s.view_history \in Seq(Nat) /\ last_idx(s) \in Nat
      /\ SortedWithin(s.view_history, last_idx(s))
  BY Fields DEF WellFormed, well_indexed
<1> DEFINE end == end_of_view(s.view_history, view_at(s.view_history, start))
<1>2. end = NoVersion \/ end \in start .. last_idx(s)
  BY <1>1, EndOfView
<1>3. EntriesBatchSize \in Nat \ {0}
  BY ConstantsAssumption
<1> HIDE DEF end
<1>4. calculate_end_index(s, start) =
        LET max_idx == IF end # NoVersion THEN end ELSE last_idx(s)
        IN  IF start + EntriesBatchSize < max_idx THEN start + EntriesBatchSize
            ELSE max_idx
  BY DEF calculate_end_index, end
<1> QED BY <1>1, <1>2, <1>3, <1>4

\* The loop of send_append_entries terminates, and all it sends is append
\* entries messages with entries of the ledger.
LEMMA AppendEntriesFrom ==
  ASSUME NEW s, WellFormed(s), NEW E, s.ledger \in Seq(E),
         NEW start_idx \in Nat \ {0}
  PROVE  append_entries_from(s, start_idx) \in Seq(AppendEntriesOf(E))
<1> DEFINE last == last_idx(s)
           end(k) == calculate_end_index(s, k)
           ae(k) == append_entries(s, k, end(k))
           B(f, k) == IF end(k) = last THEN <<ae(k)>> ELSE <<ae(k)>> \o f[end(k) + 1]
           G(m) == \E f : f = [k \in m .. last |-> B(f, k)]
<1>1. last \in Nat
  BY Fields DEF WellFormed
<1>2. \A k \in 1 .. last : end(k) \in k .. last
  BY EndIndex
<1>3. \A k \in 1 .. last : ae(k) \in AppendEntriesOf(E)
  <2> SUFFICES ASSUME NEW k \in 1 .. last PROVE ae(k) \in AppendEntriesOf(E)
    OBVIOUS
  <2>1. k \in Nat \ {0} /\ end(k) \in 0 .. last_idx(s)
    BY <1>1, <1>2
  <2> HIDE DEF end
  <2> QED BY <2>1, AppendEntriesType
<1> HIDE DEF end, ae, last
<1>4. G(last + 1)
  <2> DEFINE f == [k \in last + 1 .. last |-> <<>>]
  <2>1. last + 1 .. last = {}
    BY <1>1
  <2>2. f = [k \in last + 1 .. last |-> B(f, k)]
    <3> HIDE DEF B
    <3> QED BY <2>1
  <2> HIDE DEF f, B
  <2> QED BY <2>2
<1>5. ASSUME NEW m \in 1 .. last, G(m + 1) PROVE G(m)
  <2>1. PICK f : f = [k \in m + 1 .. last |-> B(f, k)]
    BY <1>5
  <2> DEFINE g == [k \in m .. last |-> IF k = m THEN B(f, m) ELSE f[k]]
  <2>2. \A k \in m + 1 .. last : g[k] = f[k] /\ k \in m .. last
    BY <1>1
  <2>3. \A k \in m .. last : end(k) # last => end(k) + 1 \in m + 1 .. last
    BY <1>1, <1>2
  <2>4. \A k \in m .. last : B(g, k) = B(f, k)
    <3> SUFFICES ASSUME NEW k \in m .. last PROVE B(g, k) = B(f, k)
      OBVIOUS
    <3>1. end(k) # last => g[end(k) + 1] = f[end(k) + 1]
      BY <2>2, <2>3
    <3> HIDE DEF g
    <3> QED BY <3>1
  <2>5. \A k \in m + 1 .. last : f[k] = B(f, k)
    <3> HIDE DEF B
    <3> QED BY <2>1
  <2>6. \A k \in m .. last : g[k] = B(g, k)
    <3> SUFFICES ASSUME NEW k \in m .. last PROVE g[k] = B(g, k)
      OBVIOUS
    <3>1. CASE k = m
      <4>1. g[k] = B(f, m)
        <5> HIDE DEF B
        <5> QED BY <3>1
      <4> HIDE DEF B, g
      <4> QED BY <2>4, <3>1, <4>1
    <3>2. CASE k # m
      <4>1. k \in m + 1 .. last
        BY <1>1, <3>2
      <4> HIDE DEF B, g
      <4> QED BY <2>2, <2>4, <2>5, <4>1
    <3> QED BY <3>1, <3>2
  <2>7. g = [k \in m .. last |-> g[k]]
    OBVIOUS
  <2>8. g = [k \in m .. last |-> B(g, k)]
    <3> HIDE DEF B, g
    <3> QED BY <2>6, <2>7
  <2> HIDE DEF g, B
  <2> QED BY <2>8
<1>6. G(1)
  <2> DEFINE W == {m \in 1 .. last : ~ G(m)}
  <2> HIDE DEF G
  <2>1. ASSUME W # {} PROVE FALSE
    <3>1. W \in SUBSET (0 .. last)
      BY <1>1
    <3>2. PICK m \in W : \A y \in W : y <= m
      <4> HIDE DEF W
      <4> QED BY <1>1, <2>1, <3>1, GreatestElement
    <3>3. m \in 1 .. last /\ ~ G(m)
      OBVIOUS
    <3>4. G(m + 1)
      <4>1. CASE m = last
        BY <1>4, <4>1
      <4>2. CASE m # last
        <5>1. m + 1 \in 1 .. last /\ ~ (m + 1 <= m)
          BY <1>1, <3>3, <4>2
        <5> QED BY <3>2, <5>1
      <4> QED BY <4>1, <4>2
    <3> QED BY <1>5, <3>3, <3>4
  <2>2. CASE last = 0
    BY <1>4, <2>2
  <2>3. CASE last # 0
    <3>1. 1 \in 1 .. last
      BY <1>1, <2>3
    <3> QED BY <2>1, <3>1
  <2> QED BY <2>2, <2>3
<1> DEFINE range == CHOOSE f : f = [k \in 1 .. last |-> B(f, k)]
<1>7. range = [k \in 1 .. last |-> B(range, k)]
  <2> HIDE DEF B
  <2> QED BY <1>6
<1>8. \A k \in 1 .. last : range[k] = B(range, k)
  <2> HIDE DEF range, B
  <2> QED BY <1>7
<1> HIDE DEF range
<1>9. \A k \in 1 .. last : range[k] \in Seq(AppendEntriesOf(E))
  <2> DEFINE W == {k \in 1 .. last : range[k] \notin Seq(AppendEntriesOf(E))}
  <2> SUFFICES ASSUME W # {} PROVE FALSE
    OBVIOUS
  <2>1. W \in SUBSET (0 .. last)
    BY <1>1
  <2>2. PICK m \in W : \A y \in W : y <= m
    <3> HIDE DEF W
    <3> QED BY <1>1, <2>1, GreatestElement
  <2>3. m \in 1 .. last /\ range[m] \notin Seq(AppendEntriesOf(E))
    OBVIOUS
  <2>4. <<ae(m)>> \in Seq(AppendEntriesOf(E))
    <3>1. ae(m) \in AppendEntriesOf(E)
      BY <1>3, <2>3
    <3> QED BY <3>1
  <2>5. end(m) # last => range[end(m) + 1] \in Seq(AppendEntriesOf(E))
    <3> SUFFICES ASSUME end(m) # last PROVE range[end(m) + 1] \in Seq(AppendEntriesOf(E))
      OBVIOUS
    <3>1. end(m) + 1 \in 1 .. last /\ ~ (end(m) + 1 <= m)
      <4>1. end(m) \in m .. last /\ m \in 1 .. last
        BY <1>2, <2>3
      <4> QED BY <1>1, <4>1
    <3> QED BY <2>2, <3>1
  <2>6. end(m) # last
          => <<ae(m)>> \o range[end(m) + 1] \in Seq(AppendEntriesOf(E))
    BY <2>4, <2>5, ConcatProperties
  <2> QED BY <1>8, <2>3, <2>4, <2>6
<1>10. CASE start_idx > last
  <2>1. last_idx(s) \in 0 .. last_idx(s)
    BY <1>1 DEF last
  <2>2. append_entries(s, start_idx, last_idx(s)) \in AppendEntriesOf(E)
    BY <2>1, AppendEntriesType
  <2>3. append_entries_from(s, start_idx) = <<append_entries(s, start_idx, last_idx(s))>>
    BY <1>10 DEF append_entries_from, last
  <2> QED BY <2>2, <2>3
<1>11. CASE ~ (start_idx > last)
  <2>1. append_entries_from(s, start_idx) = range[start_idx]
    BY <1>11 DEF append_entries_from, last, range, end, ae
  <2>2. start_idx \in 1 .. last
    BY <1>1, <1>11
  <2> QED BY <1>9, <2>1, <2>2
<1> QED BY <1>10, <1>11

\* Each of the four kinds of messages is a message.
LEMMA MessageSets ==
  /\ AppendEntriesOf(Entry) \subseteq Message
  /\ AppendEntriesResponse \subseteq Message
  /\ RequestVote \subseteq Message /\ RequestVoteResponse \subseteq Message
BY DEF Message, AppendEntries, AppendEntriesOf

\* Queueing a message keeps the output well typed.
LEMMA SendType ==
  ASSUME NEW s \in NodeState, NEW to \in Node, NEW m \in Message
  PROVE  send(s, to, m) \in NodeState /\ SameLog(s, send(s, to, m))
<1>1. [s.out EXCEPT ![to] = Append(@, m)] \in [Node -> Seq(Message)]
  BY Fields
<1>2. send(s, to, m) = [s EXCEPT !.out = [s.out EXCEPT ![to] = Append(@, m)]]
  BY DEF send
<1> QED BY <1>1, <1>2, ZenonT(40) DEF NodeState, SameLog

\* send_append_entries, one message or a sequence of batches, leaves the log alone.
LEMMA SendAppendEntries ==
  ASSUME NEW s, WellFormed(s), NEW peers \in SUBSET Node, NEW start,
         \A p \in peers : start[p] \in Nat \ {0}
  PROVE  /\ send_append_entries(s, peers, start) \in NodeState
         /\ SameLog(s, send_append_entries(s, peers, start))
<1> DEFINE new_out == [p \in Node |-> IF p \in peers
                                      THEN s.out[p] \o append_entries_from(s, start[p])
                                      ELSE s.out[p]]
           new_sent == [p \in Node |-> IF p \in peers THEN last_idx(s) ELSE s.sent_idx[p]]
<1>1. /\ s \in NodeState /\ last_idx(s) \in Nat /\ s.sent_idx \in [Node -> Nat]
      /\ s.ledger \in Seq(Entry) /\ s.out \in [Node -> Seq(Message)]
  BY Fields DEF WellFormed
<1>2. \A p \in peers : append_entries_from(s, start[p]) \in Seq(Message)
  <2> SUFFICES ASSUME NEW p \in peers
               PROVE  append_entries_from(s, start[p]) \in Seq(Message)
    OBVIOUS
  <2>1. append_entries_from(s, start[p]) \in Seq(AppendEntriesOf(Entry))
    BY <1>1, AppendEntriesFrom
  <2> QED BY <2>1, MessageSets, SeqMonotonic
<1>3. \A p \in peers : s.out[p] \o append_entries_from(s, start[p]) \in Seq(Message)
  BY <1>1, <1>2, ConcatProperties
<1>4. new_out \in [Node -> Seq(Message)] /\ new_sent \in [Node -> Nat]
  BY <1>1, <1>3
<1>5. send_append_entries(s, peers, start) =
        [s EXCEPT !.out = new_out, !.sent_idx = new_sent]
  BY DEF send_append_entries
<1> HIDE DEF new_out, new_sent
<1> QED BY <1>1, <1>4, <1>5, ZenonT(40) DEF NodeState, SameLog

\* send_append_entries_response sends one response.
LEMMA ResponseMessage ==
  ASSUME NEW s, WellFormed(s), NEW to \in Node, NEW answer \in {"OK", "FAIL"},
         NEW rejected, rejected = <<>> \/ rejected \in Nat \X Nat
  PROVE  \E m \in AppendEntriesResponse :
           send_append_entries_response(s, to, answer, rejected) = send(s, to, m)
<1> DEFINE match == find_highest_possible_match(
                      s.view_history, last_idx(s), rejected[1], rejected[2])
           m == [type |-> "AppendEntriesResponse", success |-> answer,
                 last_log_idx |-> IF rejected = <<>> THEN last_idx(s) ELSE match,
                 term |-> IF rejected = <<>> THEN s.current_view
                          ELSE get_term_internal(s, match)]
<1>1. /\ last_idx(s) \in Nat /\ s.current_view \in Nat
      /\ s.view_history \in Seq(Nat) /\ SortedWithin(s.view_history, last_idx(s))
  BY Fields DEF WellFormed, well_indexed
<1>2. rejected # <<>> => match \in Nat
  <2> SUFFICES ASSUME rejected # <<>> PROVE match \in Nat
    OBVIOUS
  <2>1. rejected[1] \in Nat /\ rejected[2] \in Nat
    OBVIOUS
  <2>2. match \in possible_matches(s.view_history, last_idx(s), rejected[1], rejected[2])
    BY <1>1, <2>1, HighestMatch
  <2> HIDE DEF match
  <2> QED BY <1>1, <2>2 DEF possible_matches
<1>3. rejected # <<>> => get_term_internal(s, match) \in Nat
  BY <1>2, TermType
<1>4. m \in AppendEntriesResponse
  <2> HIDE DEF match
  <2> QED BY <1>1, <1>2, <1>3 DEF AppendEntriesResponse
<1>5. send_append_entries_response(s, to, answer, rejected) = send(s, to, m)
  BY DEF send_append_entries_response
<1> HIDE DEF m
<1> QED BY <1>4, <1>5

\* send_append_entries_response leaves the log alone.
LEMMA SendAppendEntriesResponse ==
  ASSUME NEW s, WellFormed(s), NEW to \in Node, NEW answer \in {"OK", "FAIL"},
         NEW rejected, rejected = <<>> \/ rejected \in Nat \X Nat
  PROVE  LET t == send_append_entries_response(s, to, answer, rejected)
         IN  t \in NodeState /\ SameLog(s, t)
<1>1. PICK m \in AppendEntriesResponse :
        send_append_entries_response(s, to, answer, rejected) = send(s, to, m)
  BY ResponseMessage
<1>2. s \in NodeState /\ m \in Message
  BY MessageSets DEF WellFormed
<1> QED BY <1>1, <1>2, SendType

\* send_request_vote leaves the log alone.
LEMMA SendRequestVote ==
  ASSUME NEW s, WellFormed(s), NEW peers \in SUBSET Node
  PROVE  /\ send_request_vote(s, peers) \in NodeState
         /\ SameLog(s, send_request_vote(s, peers))
<1> DEFINE rv == [type |-> "RequestVote", term |-> s.current_view,
                  last_committable_idx |-> last_committable_index(s),
                  term_of_last_committable_idx |->
                    get_term_internal(s, last_committable_index(s))]
           new_out == [p \in Node |-> IF p \in peers THEN Append(s.out[p], rv)
                                      ELSE s.out[p]]
<1>1. /\ s \in NodeState /\ s.current_view \in Nat /\ s.commit_idx \in Nat
      /\ last_idx(s) \in Nat /\ s.out \in [Node -> Seq(Message)]
  BY Fields DEF WellFormed
<1>2. last_committable_index(s) \in Nat
  BY <1>1, LastCommittable
<1>3. get_term_internal(s, last_committable_index(s)) \in Nat
  BY <1>2, TermType
<1>4. rv \in RequestVote
  BY <1>1, <1>2, <1>3 DEF RequestVote
<1>5. rv \in Message
  BY <1>4, MessageSets
<1> HIDE DEF rv
<1>6. new_out \in [Node -> Seq(Message)]
  BY <1>1, <1>5
<1>7. send_request_vote(s, peers) = [s EXCEPT !.out = new_out]
  BY DEF send_request_vote, rv
<1> HIDE DEF new_out
<1> QED BY <1>1, <1>6, <1>7, ZenonT(40) DEF NodeState, SameLog

\* send_request_vote_response leaves the log alone.
LEMMA SendRequestVoteResponse ==
  ASSUME NEW s \in NodeState, NEW to \in Node, NEW answer \in BOOLEAN
  PROVE  LET t == send_request_vote_response(s, to, answer)
         IN  t \in NodeState /\ SameLog(s, t)
<1> DEFINE m == [type |-> "RequestVoteResponse", term |-> s.current_view,
                 vote_granted |-> answer]
<1>1. s.current_view \in Nat
  BY Fields
<1>2. m \in RequestVoteResponse
  BY <1>1 DEF RequestVoteResponse
<1>3. m \in Message
  BY <1>2, MessageSets
<1>4. send_request_vote_response(s, to, answer) = send(s, to, m)
  BY DEF send_request_vote_response
<1> HIDE DEF m
<1> QED BY <1>3, <1>4, SendType

-----------------------------------------------------------------------------
(* Configurations and retirement *)

\* The nodes of the active configurations are nodes.
LEMMA NodesType ==
  ASSUME NEW n, NEW s, s.configurations \in SUBSET Configuration
  PROVE  nodes(n, s) \in SUBSET Node
BY DEF nodes, Configuration

\* become_retired leaves the log alone.
LEMMA BecomeRetired ==
  ASSUME NEW s \in NodeState, NEW idx \in Nat,
         NEW phase \in {"Ordered", "Signed", "Completed"}
  PROVE  /\ become_retired(s, idx, phase) \in NodeState
         /\ SameLog(s, become_retired(s, idx, phase))
<1> DEFINE ri == IF phase = "Ordered" THEN idx ELSE s.retirement_idx
           rci == IF phase = "Signed" THEN idx ELSE s.retirement_committable_idx
           ldr == IF phase = "Completed" THEN Nil ELSE s.leader_id
           state == IF phase = "Completed" THEN "None" ELSE s.leadership_state
           sent == IF phase = "Completed" THEN no_index ELSE s.sent_idx
           match == IF phase = "Completed" THEN no_index ELSE s.match_idx
<1>1. /\ ri \in Nat /\ rci \in Nat /\ ldr \in Node \union {Nil}
      /\ sent \in [Node -> Nat] /\ match \in [Node -> Nat]
  BY Fields DEF no_index
<1>2. state \in {"None", "Follower", "Candidate", "Leader"}
  BY DEF NodeState
<1>3. phase \in {"None", "Ordered", "Signed", "Completed"}
  OBVIOUS
<1>4. become_retired(s, idx, phase) =
        [s EXCEPT !.membership_state = "Retired", !.retirement_phase = phase,
                  !.retirement_idx = ri, !.retirement_committable_idx = rci,
                  !.leader_id = ldr, !.leadership_state = state,
                  !.sent_idx = sent, !.match_idx = match]
  BY DEF become_retired
<1> DEFINE t1 == [s EXCEPT !.membership_state = "Retired", !.retirement_phase = phase,
                           !.retirement_idx = ri, !.retirement_committable_idx = rci]
           t2 == [t1 EXCEPT !.leader_id = ldr, !.leadership_state = state,
                            !.sent_idx = sent, !.match_idx = match]
<1> HIDE DEF ri, rci, ldr, state, sent, match
<1>5. t1 \in NodeState /\ SameLog(s, t1)
  BY <1>1, <1>3, ZenonT(40) DEF NodeState, SameLog
<1> HIDE DEF t1
<1>6. t2 \in NodeState /\ SameLog(t1, t2)
  BY <1>1, <1>2, <1>5, ZenonT(40) DEF NodeState, SameLog
<1>7. become_retired(s, idx, phase) = t2
  BY <1>4 DEF t1
<1> HIDE DEF t2
<1> QED BY <1>5, <1>6, <1>7 DEF SameLog

\* create_and_remove_node_state leaves the log alone.
LEMMA CreateAndRemove ==
  ASSUME NEW n, NEW s, WellFormed(s), NEW configs \in SUBSET Configuration
  PROVE  LET t == create_and_remove_node_state(n, s, configs)
         IN  t \in NodeState /\ SameLog(s, t)
<1> DEFINE s1 == [s EXCEPT !.configurations = configs]
           added == nodes(n, s1) \ nodes(n, s)
           peers == nodes(n, s1) \ added
           sent == [p \in Node |-> IF p \in peers THEN s1.sent_idx[p] ELSE 0]
           match == [p \in Node |-> IF p \in peers THEN s1.match_idx[p] ELSE 0]
           s2 == [s1 EXCEPT !.sent_idx = sent, !.match_idx = match]
           start == [p \in Node |-> last_idx(s) + 1]
<1>1. s \in NodeState /\ last_idx(s) \in Nat
  BY Fields DEF WellFormed
<1>2. s1 \in NodeState /\ SameLog(s, s1)
  BY <1>1, ZenonT(40) DEF NodeState, SameLog
<1>3. sent \in [Node -> Nat] /\ match \in [Node -> Nat]
  <2> HIDE DEF peers, s1
  <2> QED BY <1>2, Fields
<1>4. s2 \in NodeState /\ SameLog(s1, s2)
  <2> HIDE DEF sent, match, s1
  <2> QED BY <1>2, <1>3, ZenonT(40) DEF NodeState, SameLog
<1>5. SameLog(s, s2)
  <2> HIDE DEF s1, s2
  <2> QED BY <1>2, <1>4 DEF SameLog
<1>6. added \in SUBSET Node /\ \A p \in added : start[p] \in Nat \ {0}
  <2>1. s1.configurations \in SUBSET Configuration
    <3> HIDE DEF s1
    <3> QED BY <1>2, Fields
  <2>2. nodes(n, s1) \in SUBSET Node
    <3> HIDE DEF s1
    <3> QED BY <2>1, NodesType
  <2> HIDE DEF s1
  <2> QED BY <1>1, <2>2
<1>7. WellFormed(s2)
  <2> HIDE DEF s2
  <2> QED BY <1>4, <1>5, SameLogStep DEF Step
<1> DEFINE t == send_append_entries(s2, added, start)
<1>8. t \in NodeState /\ SameLog(s2, t)
  <2> HIDE DEF s2, added, start
  <2> QED BY <1>6, <1>7, SendAppendEntries
<1>9. SameLog(s, t)
  <2> HIDE DEF s2, t
  <2> QED BY <1>5, <1>8 DEF SameLog
<1>10. create_and_remove_node_state(n, s, configs) =
         IF s.leadership_state = "Leader" THEN t ELSE s1
  BY DEF create_and_remove_node_state
<1> HIDE DEF t, s1
<1> QED BY <1>2, <1>8, <1>9, <1>10

\* add_configuration leaves the log alone.
LEMMA AddConfiguration ==
  ASSUME NEW n, NEW s, WellFormed(s), NEW idx \in Nat, NEW conf \in SUBSET Node
  PROVE  LET t == add_configuration(n, s, idx, conf)
         IN  t \in NodeState /\ SameLog(s, t)
<1> DEFINE s1 == IF is_self_in_latest_config(n, s) /\ n \notin conf
                 THEN become_retired(s, idx, "Ordered") ELSE s
           configs == s.configurations \union {[idx |-> idx, nodes |-> conf]}
<1>1. s \in NodeState
  BY DEF WellFormed
<1>2. s1 \in NodeState /\ SameLog(s, s1)
  <2>1. /\ become_retired(s, idx, "Ordered") \in NodeState
        /\ SameLog(s, become_retired(s, idx, "Ordered"))
    BY <1>1, BecomeRetired
  <2>2. SameLog(s, s)
    BY DEF SameLog
  <2> QED BY <1>1, <2>1, <2>2
<1>3. configs \in SUBSET Configuration
  BY <1>1, Fields DEF Configuration
<1> HIDE DEF s1, configs
<1>4. WellFormed(s1)
  BY <1>2, SameLogStep DEF Step
<1> DEFINE t == create_and_remove_node_state(n, s1, configs)
<1>5. t \in NodeState /\ SameLog(s1, t)
  BY <1>3, <1>4, CreateAndRemove
<1>6. add_configuration(n, s, idx, conf) =
        IF s.configurations # {} /\ latest_config(s).nodes = conf THEN s1 ELSE t
  BY DEF add_configuration, s1, configs
<1> HIDE DEF t
<1> QED BY <1>2, <1>5, <1>6 DEF SameLog

\* Starting the election timer leaves the log alone.
LEMMA StartTicking ==
  ASSUME NEW n, NEW s \in NodeState
  PROVE  LET t == start_ticking_if_necessary(n, s)
         IN  t \in NodeState /\ SameLog(s, t)
<1>1. (s.ticking \/ is_self_in_latest_config(n, s)) \in BOOLEAN
  OBVIOUS
<1> DEFINE v == s.ticking \/ is_self_in_latest_config(n, s)
<1>2. start_ticking_if_necessary(n, s) = [s EXCEPT !.ticking = v]
  BY DEF start_ticking_if_necessary
<1> HIDE DEF v
<1> QED BY <1>1, <1>2, ZenonT(40) DEF NodeState, SameLog, v

-----------------------------------------------------------------------------
(* Rollback and commit *)

\* The part of rollback that undoes a retirement leaves the log alone.
LEMMA RollbackRetirement ==
  ASSUME NEW s \in NodeState, NEW idx
  PROVE  /\ rollback_retirement(s, idx) \in NodeState
         /\ SameLog(s, rollback_retirement(s, idx))
<1> DEFINE unsigned == /\ is_retired(s) /\ s.retirement_phase = "Signed"
                       /\ s.retirement_committable_idx > idx
           r1 == [s EXCEPT !.retirement_committable_idx = 0,
                           !.retirement_phase = "Ordered"]
           s1 == IF unsigned THEN r1 ELSE s
           r2 == [s1 EXCEPT !.retirement_idx = 0, !.retirement_phase = "None",
                            !.membership_state = "Active"]
<1>1. r1 \in NodeState /\ SameLog(s, r1)
  <2>1. 0 \in Nat
    OBVIOUS
  <2> QED BY <2>1, ZenonT(40) DEF NodeState, SameLog
<1>2. s1 \in NodeState /\ SameLog(s, s1)
  <2> HIDE DEF r1, unsigned
  <2> QED BY <1>1 DEF SameLog
<1> HIDE DEF s1
<1>3. r2 \in NodeState /\ SameLog(s1, r2)
  <2>1. 0 \in Nat
    OBVIOUS
  <2> QED BY <1>2, <2>1, ZenonT(40) DEF NodeState, SameLog
<1>4. \/ rollback_retirement(s, idx) = r2
      \/ rollback_retirement(s, idx) = s1
  BY DEF rollback_retirement, s1
<1> HIDE DEF r2
<1> QED BY <1>2, <1>3, <1>4 DEF SameLog

\* rollback never truncates below commit_idx; otherwise the ledger ends at idx.
LEMMA Rollback ==
  ASSUME NEW n, NEW s, WellFormed(s), NEW idx \in 0 .. last_idx(s)
  PROVE  /\ Step(s, rollback(n, s, idx))
         /\ idx >= s.commit_idx => last_idx(rollback(n, s, idx)) = idx
         /\ rollback(n, s, idx).committable_indices \subseteq s.committable_indices
<1> DEFINE t0 == rollback_retirement(s, idx)
           log == SubSeq(t0.ledger, 1, idx)
           views == rollback_views(t0.view_history, idx)
           sigs == {i \in t0.committable_indices : i <= idx}
           s1 == [t0 EXCEPT !.ledger = log, !.view_history = views,
                            !.committable_indices = sigs]
           configs == {c \in s.configurations : c.idx <= idx}
           t == create_and_remove_node_state(n, s1, configs)
<1>1. /\ s \in NodeState /\ last_idx(s) \in Nat /\ s.commit_idx \in Nat
      /\ s.ledger \in Seq(Entry) /\ s.view_history \in Seq(Nat)
      /\ s.committable_indices \in SUBSET Nat
      /\ configs \in SUBSET Configuration /\ idx \in Nat /\ idx <= last_idx(s)
  BY Fields DEF WellFormed
<1>2. t0 \in NodeState /\ SameLog(s, t0)
  BY <1>1, RollbackRetirement
<1>3. /\ t0.ledger = s.ledger /\ t0.view_history = s.view_history
      /\ t0.committable_indices = s.committable_indices
      /\ t0.commit_idx = s.commit_idx
  BY <1>2 DEF SameLog
<1>4. /\ log \in Seq(Entry) /\ Len(log) = idx
      /\ \A i \in 1 .. idx : log[i] = s.ledger[i]
  <2>1. \A i \in 1 .. idx : s.ledger[i] \in Entry
    BY <1>1, ElementOfSeq DEF last_idx
  <2>2. /\ SubSeq(s.ledger, 1, idx) \in Seq(Entry)
        /\ Len(SubSeq(s.ledger, 1, idx)) = IF 1 <= idx THEN idx - 1 + 1 ELSE 0
        /\ \A i \in 1 .. idx - 1 + 1 : SubSeq(s.ledger, 1, idx)[i] = s.ledger[1 + i - 1]
    BY <1>1, <2>1, SubSeqProperties
  <2>3. log = SubSeq(s.ledger, 1, idx)
    BY <1>3
  <2> HIDE DEF log
  <2> QED BY <1>1, <2>2, <2>3
<1>5. views \in Seq(Nat) /\ SortedWithin(views, idx)
  <2>1. SortedWithin(s.view_history, last_idx(s))
    BY DEF WellFormed, well_indexed
  <2> QED BY <1>1, <1>3, <2>1, RollbackSorted
<1>6. /\ sigs \in SUBSET Nat
      /\ \A i \in sigs : i \in s.commit_idx + 1 .. idx /\ s.ledger[i].type = "sig"
  BY <1>1, <1>3 DEF WellFormed, well_indexed
<1> HIDE DEF log, views, sigs, t0, configs
<1>7. /\ s1 \in NodeState /\ s1.ledger = log /\ s1.view_history = views
      /\ s1.committable_indices = sigs /\ s1.commit_idx = t0.commit_idx
  BY <1>2, <1>4, <1>5, <1>6, ZenonT(40) DEF NodeState
<1> HIDE DEF s1
<1>8. last_idx(s1) = idx
  BY <1>4, <1>7 DEF last_idx
<1>9. ASSUME idx >= s.commit_idx
      PROVE  /\ Step(s, t) /\ last_idx(t) = idx
             /\ t.committable_indices \subseteq s.committable_indices
  <2>1. WellFormed(s1)
    <3>1. \A i \in sigs : log[i].type = "sig"
      <4>1. \A i \in sigs : i \in 1 .. idx /\ s.ledger[i].type = "sig"
        BY <1>1, <1>6
      <4> QED BY <1>4, <4>1
    <3> QED BY <1>1, <1>3, <1>5, <1>6, <1>7, <1>8, <1>9, <3>1
            DEF WellFormed, well_indexed
  <2>2. t \in NodeState /\ SameLog(s1, t)
    BY <1>1, <2>1, CreateAndRemove
  <2>3. Step(s1, t)
    BY <2>1, <2>2, SameLogStep
  <2>4. Step(s, s1)
    <3>1. \A i \in 1 .. s.commit_idx : s1.ledger[i] = s.ledger[i]
      BY <1>1, <1>4, <1>7, <1>9
    <3> QED BY <1>1, <1>3, <1>7, <1>8, <1>9, <2>1, <3>1 DEF Step, Keeps
  <2>5. last_idx(t) = idx
    BY <1>8, <2>2 DEF SameLog, last_idx
  <2>6. t.committable_indices \subseteq s.committable_indices
    BY <1>3, <1>7, <2>2 DEF SameLog, sigs
  <2> QED BY <2>3, <2>4, <2>5, <2>6, StepTransitive
<1>10. rollback(n, s, idx) = IF idx < s.commit_idx THEN s ELSE t
  BY DEF rollback, t0, log, views, sigs, configs, s1
<1> HIDE DEF t
<1>11. CASE idx < s.commit_idx
  BY <1>1, <1>10, <1>11, StepReflexive
<1>12. CASE ~ (idx < s.commit_idx)
  BY <1>1, <1>9, <1>10, <1>12
<1> QED BY <1>11, <1>12

\* commit is a Step and does not touch the ledger.
LEMMA Commit ==
  ASSUME NEW n, NEW s, WellFormed(s), NEW idx \in 0 .. last_idx(s),
         \A i \in s.committable_indices : i > idx
  PROVE  Step(s, commit(n, s, idx)) /\ commit(n, s, idx).ledger = s.ledger
<1> DEFINE s1 == [s EXCEPT !.commit_idx = idx]
           done == /\ is_retired(s) /\ s.retirement_phase = "Signed"
                   /\ idx >= s.retirement_committable_idx
           s2 == IF done THEN become_retired(s1, idx, "Completed") ELSE s1
           superseded(c) == \E d \in s.configurations : c.idx < d.idx /\ d.idx <= idx
           configs == {c \in s.configurations : ~ superseded(c)}
           t == create_and_remove_node_state(n, s2, configs)
<1>1. /\ s \in NodeState /\ last_idx(s) \in Nat /\ s.commit_idx \in Nat
      /\ configs \in SUBSET Configuration /\ idx \in Nat /\ idx <= last_idx(s)
  <2>1. s.configurations \in SUBSET Configuration
    BY Fields DEF WellFormed
  <2>2. configs \in SUBSET Configuration
    BY <2>1
  <2> QED BY <2>2, Fields DEF WellFormed
<1>2. /\ s1 \in NodeState /\ s1.commit_idx = idx /\ s1.ledger = s.ledger
      /\ s1.view_history = s.view_history
      /\ s1.committable_indices = s.committable_indices
  BY <1>1, ZenonT(40) DEF NodeState
<1> HIDE DEF s1, done, configs
<1>3. s2 \in NodeState /\ SameLog(s1, s2)
  <2>1. /\ become_retired(s1, idx, "Completed") \in NodeState
        /\ SameLog(s1, become_retired(s1, idx, "Completed"))
    BY <1>1, <1>2, BecomeRetired
  <2> QED BY <1>2, <2>1 DEF SameLog
<1> HIDE DEF s2
<1>4. ASSUME idx > s.commit_idx PROVE Step(s, t) /\ t.ledger = s.ledger
  <2>1. last_idx(s1) = last_idx(s)
    BY <1>2 DEF last_idx
  <2>2. \A i \in s1.committable_indices :
           i \in s1.commit_idx + 1 .. last_idx(s1) /\ s1.ledger[i].type = "sig"
    <3> SUFFICES ASSUME NEW i \in s.committable_indices
                 PROVE  i \in idx + 1 .. last_idx(s) /\ s.ledger[i].type = "sig"
      BY <1>2, <2>1
    <3>1. /\ i \in s.commit_idx + 1 .. last_idx(s) /\ s.ledger[i].type = "sig"
          /\ i > idx
      BY DEF WellFormed, well_indexed
    <3> QED BY <1>1, <3>1
  <2>3. WellFormed(s1)
    BY <1>1, <1>2, <2>1, <2>2 DEF WellFormed, well_indexed
  <2>4. Step(s, s1)
    BY <1>1, <1>2, <1>4, <2>1, <2>3 DEF Step, Keeps
  <2>5. Step(s1, s2) /\ WellFormed(s2)
    BY <1>3, <2>3, SameLogStep DEF Step
  <2>6. t \in NodeState /\ SameLog(s2, t)
    BY <1>1, <2>5, CreateAndRemove
  <2>7. Step(s2, t)
    BY <2>5, <2>6, SameLogStep
  <2>8. Step(s, s2)
    BY <2>4, <2>5, StepTransitive
  <2>9. t.ledger = s.ledger
    BY <1>2, <1>3, <2>6 DEF SameLog
  <2> HIDE DEF t
  <2> QED BY <2>7, <2>8, <2>9, StepTransitive
<1>5. commit(n, s, idx) = IF idx <= s.commit_idx THEN s ELSE t
  BY DEF commit, s1, done, s2, configs
<1> HIDE DEF t
<1> QED BY <1>1, <1>4, <1>5, StepReflexive

\* commit_if_possible is a Step and does not touch the ledger.
LEMMA CommitIfPossible ==
  ASSUME NEW n, NEW s, WellFormed(s), NEW idx \in Nat
  PROVE  /\ Step(s, commit_if_possible(n, s, idx))
         /\ commit_if_possible(n, s, idx).ledger = s.ledger
<1> DEFINE ready == {i \in s.committable_indices : i <= idx}
           rest == s.committable_indices \ ready
           s1 == [s EXCEPT !.committable_indices = rest]
           t == commit(n, s1, Max(ready))
<1>1. /\ s \in NodeState /\ last_idx(s) \in Nat /\ s.commit_idx \in Nat
      /\ s.committable_indices \in SUBSET Nat
  BY Fields DEF WellFormed
<1>2. \A i \in s.committable_indices :
         i \in s.commit_idx + 1 .. last_idx(s) /\ s.ledger[i].type = "sig"
  BY DEF WellFormed, well_indexed
<1>3. rest \in SUBSET Nat /\ ready \in SUBSET (0 .. last_idx(s))
  <2>1. \A i \in s.committable_indices : i \in 0 .. last_idx(s)
    BY <1>1, <1>2
  <2> QED BY <1>1, <2>1
<1>4. /\ s1 \in NodeState /\ s1.committable_indices = rest
      /\ s1.ledger = s.ledger /\ s1.commit_idx = s.commit_idx
      /\ s1.view_history = s.view_history
  <2> HIDE DEF rest
  <2> QED BY <1>1, <1>3, ZenonT(40) DEF NodeState
<1> HIDE DEF s1
<1>5. Step(s, s1) /\ last_idx(s1) = last_idx(s)
  <2>1. last_idx(s1) = last_idx(s)
    BY <1>4 DEF last_idx
  <2>2. rest \subseteq s.committable_indices
    OBVIOUS
  <2>3. WellFormed(s1)
    <3> HIDE DEF rest
    <3> QED BY <1>2, <1>4, <2>1, <2>2 DEF WellFormed, well_indexed
  <2> QED BY <1>1, <1>4, <2>1, <2>3 DEF Step, Keeps, WellFormed, well_indexed
<1>6. ASSUME idx > s.commit_idx, ready # {} PROVE Step(s1, t) /\ t.ledger = s1.ledger
  <2>1. Max(ready) \in ready /\ \A y \in ready : y <= Max(ready)
    <3> HIDE DEF ready
    <3> QED BY <1>1, <1>3, <1>6, MaxElement
  <2>2. Max(ready) \in 0 .. last_idx(s1)
    BY <1>3, <1>5, <2>1
  <2>3. \A i \in s1.committable_indices : i > Max(ready)
    <3> SUFFICES ASSUME NEW i \in rest PROVE i > Max(ready)
      BY <1>4
    <3>1. i \in s.committable_indices /\ ~ (i <= idx) /\ i \in Nat
      BY <1>1
    <3>2. Max(ready) <= idx /\ Max(ready) \in Nat
      BY <1>3, <2>1
    <3> DEFINE m == Max(ready)
    <3>3. CASE i > m
      BY <3>3
    <3>4. CASE ~ (i > m)
      <4>1. i <= m
        BY <3>1, <3>2, <3>4
      <4> QED BY <3>1, <3>2, <4>1
    <3> QED BY <3>3, <3>4
  <2> HIDE DEF ready
  <2> QED BY <1>5, <2>2, <2>3, Commit DEF Step
<1>7. \/ commit_if_possible(n, s, idx) = s
      \/ commit_if_possible(n, s, idx) = t /\ idx > s.commit_idx /\ ready # {}
  BY DEF commit_if_possible, s1
<1>8. CASE commit_if_possible(n, s, idx) = s
  BY <1>8, StepReflexive
<1>9. CASE commit_if_possible(n, s, idx) = t /\ idx > s.commit_idx /\ ready # {}
  <2> HIDE DEF t, ready
  <2> QED BY <1>4, <1>5, <1>6, <1>9, StepTransitive
<1> QED BY <1>7, <1>8, <1>9

\* update_commit does nothing or commits up to some index.
LEMMA Watermark ==
  ASSUME NEW n, NEW s, WellFormed(s)
  PROVE  \/ update_commit(n, s) = s
         \/ \E idx \in Nat : update_commit(n, s) = commit_if_possible(n, s, idx)
<1> DEFINE S == {0} \union {i \in 1 .. last_idx(s) : confirmed(n, s, i)}
<1>1. \/ update_commit(n, s) = s
      \/ update_commit(n, s) = commit_if_possible(n, s, Max(S))
  BY DEF update_commit
<1>2. last_idx(s) \in Nat
  BY Fields DEF WellFormed
<1>3. S \in SUBSET (0 .. last_idx(s)) /\ S # {}
  BY <1>2
<1> HIDE DEF S
<1>4. Max(S) \in Nat
  <2>1. Max(S) \in S
    BY <1>2, <1>3, MaxElement
  <2>2. Max(S) \in 0 .. last_idx(s)
    BY <1>3, <2>1, ZenonT(40)
  <2> QED BY <1>2, <2>2
<1> QED BY <1>1, <1>4

\* update_commit, the count of replicas on a leader, is a Step.
LEMMA UpdateCommit ==
  ASSUME NEW n, NEW s, WellFormed(s)
  PROVE  Step(s, update_commit(n, s))
BY Watermark, CommitIfPossible, StepReflexive

-----------------------------------------------------------------------------
(* Leadership *)

\* become_follower, whose rollback stops at the last committable index, is a Step.
LEMMA BecomeFollower ==
  ASSUME NEW n, NEW s, WellFormed(s)
  PROVE  Step(s, become_follower(n, s))
<1> DEFINE s0 == [s EXCEPT !.leader_id = Nil]
           s1 == rollback(n, s0, last_committable_index(s))
           s2 == [s1 EXCEPT !.leadership_state = "Follower",
                            !.sent_idx = no_index, !.match_idx = no_index]
<1>1. s \in NodeState /\ last_idx(s) \in Nat /\ s.commit_idx \in Nat
  BY Fields DEF WellFormed
<1>2. s0 \in NodeState /\ SameLog(s, s0)
  BY <1>1, ZenonT(40) DEF NodeState, SameLog
<1> HIDE DEF s0
<1>3. Step(s, s0) /\ WellFormed(s0)
  BY <1>2, SameLogStep DEF Step
<1>4. last_committable_index(s) \in 0 .. last_idx(s0)
  <2>1. last_committable_index(s) \in s.commit_idx .. last_idx(s)
    BY LastCommittable
  <2>2. last_idx(s0) = last_idx(s)
    BY <1>2 DEF SameLog, last_idx
  <2> QED BY <1>1, <2>1, <2>2
<1>5. Step(s0, s1)
  BY <1>3, <1>4, Rollback
<1> HIDE DEF s1
<1>6. Step(s, s1) /\ WellFormed(s1)
  BY <1>3, <1>5, StepTransitive DEF Step
<1>7. s2 \in NodeState /\ SameLog(s1, s2)
  <2>1. s1 \in NodeState /\ no_index \in [Node -> Nat]
    BY <1>6 DEF WellFormed, no_index
  <2> QED BY <2>1, ZenonT(40) DEF NodeState, SameLog
<1>8. Step(s1, s2)
  BY <1>6, <1>7, SameLogStep
<1>9. become_follower(n, s) = s1 \/ become_follower(n, s) = s2
  BY DEF become_follower, s0, s1
<1> HIDE DEF s2
<1> QED BY <1>6, <1>8, <1>9, StepTransitive

\* become_aware_of_new_term is a Step.
LEMMA BecomeAware ==
  ASSUME NEW n, NEW s, WellFormed(s), NEW term \in Nat
  PROVE  Step(s, become_aware_of_new_term(n, s, term))
<1> DEFINE s0 == [s EXCEPT !.current_view = term, !.voted_for = Nil,
                           !.votes_for_me = {}]
           s1 == become_follower(n, s0)
           s2 == [s1 EXCEPT !.is_new_follower = TRUE]
<1>1. s \in NodeState
  BY DEF WellFormed
<1>2. s0 \in NodeState /\ SameLog(s, s0)
  BY <1>1, ZenonT(40) DEF NodeState, SameLog
<1> HIDE DEF s0
<1>3. Step(s, s0) /\ WellFormed(s0)
  BY <1>2, SameLogStep DEF Step
<1>4. Step(s, s1) /\ WellFormed(s1)
  BY <1>3, BecomeFollower, StepTransitive DEF Step
<1> HIDE DEF s1
<1>5. s2 \in NodeState /\ SameLog(s1, s2)
  <2>1. s1 \in NodeState /\ TRUE \in BOOLEAN
    BY <1>4 DEF WellFormed
  <2> QED BY <2>1, ZenonT(40) DEF NodeState, SameLog
<1>6. Step(s1, s2)
  BY <1>4, <1>5, SameLogStep
<1>7. become_aware_of_new_term(n, s, term) = s2
  BY DEF become_aware_of_new_term, s0, s1
<1> HIDE DEF s2
<1> QED BY <1>4, <1>6, <1>7, StepTransitive

\* become_leader is a Step.
LEMMA BecomeLeader ==
  ASSUME NEW n \in Node, NEW s, WellFormed(s)
  PROVE  Step(s, become_leader(n, s))
<1> DEFINE s1 == [s EXCEPT !.committable_indices = {}]
           s2 == IF s.commit_idx > 0 THEN rollback(n, s1, last_committable_index(s))
                 ELSE s1
           s3 == [s2 EXCEPT !.leadership_state = "Leader", !.leader_id = n,
                            !.match_idx = no_index]
           start == [p \in Node |-> last_idx(s3) + 1]
           t1 == commit(n, s3, last_idx(s3))
           t2 == send_append_entries(s3, nodes(n, s3), start)
<1>1. s \in NodeState /\ last_idx(s) \in Nat /\ s.commit_idx \in Nat
  BY Fields DEF WellFormed
<1>2. /\ s1 \in NodeState /\ s1.committable_indices = {} /\ s1.ledger = s.ledger
      /\ s1.commit_idx = s.commit_idx /\ s1.view_history = s.view_history
  BY <1>1, ZenonT(40) DEF NodeState
<1> HIDE DEF s1
<1>3. Step(s, s1) /\ WellFormed(s1) /\ last_idx(s1) = last_idx(s)
  <2>1. last_idx(s1) = last_idx(s)
    BY <1>2 DEF last_idx
  <2>2. WellFormed(s1)
    BY <1>2, <2>1 DEF WellFormed, well_indexed
  <2> QED BY <1>1, <1>2, <2>1, <2>2 DEF Step, Keeps, WellFormed, well_indexed
<1>4. last_committable_index(s) \in 0 .. last_idx(s1)
  <2>1. last_committable_index(s) \in s.commit_idx .. last_idx(s)
    BY LastCommittable
  <2> QED BY <1>1, <1>3, <2>1
<1>5. Step(s, s2) /\ WellFormed(s2)
  <2>1. Step(s1, rollback(n, s1, last_committable_index(s)))
    BY <1>3, <1>4, Rollback
  <2> QED BY <1>3, <2>1, StepTransitive DEF Step
<1>6. s2.committable_indices = {}
  <2>1. rollback(n, s1, last_committable_index(s)).committable_indices
          \subseteq s1.committable_indices
    BY <1>3, <1>4, Rollback
  <2> QED BY <1>2, <2>1
<1> HIDE DEF s2
<1>7. s3 \in NodeState /\ SameLog(s2, s3)
  <2>1. s2 \in NodeState /\ no_index \in [Node -> Nat] /\ n \in Node \union {Nil}
    BY <1>5 DEF WellFormed, no_index
  <2> QED BY <2>1, ZenonT(40) DEF NodeState, SameLog
<1> HIDE DEF s3
<1>8. Step(s2, s3) /\ WellFormed(s3) /\ s3.committable_indices = {}
  BY <1>5, <1>6, <1>7, SameLogStep DEF Step, SameLog
<1>9. Step(s, s3)
  BY <1>5, <1>8, StepTransitive
<1>10. last_idx(s3) \in Nat /\ s3 \in NodeState
  BY <1>8, Fields DEF WellFormed
<1>11. Step(s3, t1)
  <2>1. last_idx(s3) \in 0 .. last_idx(s3)
    BY <1>10
  <2> QED BY <1>8, <2>1, Commit
<1>12. Step(s3, t2)
  <2>1. nodes(n, s3) \in SUBSET Node
    BY <1>10, Fields, NodesType
  <2>2. \A p \in nodes(n, s3) : start[p] \in Nat \ {0}
    BY <1>10, <2>1
  <2> HIDE DEF start
  <2>3. t2 \in NodeState /\ SameLog(s3, t2)
    BY <1>8, <2>1, <2>2, SendAppendEntries
  <2> QED BY <1>8, <2>3, SameLogStep
<1>13. become_leader(n, s) = IF is_retired(s) THEN s
                            ELSE IF nodes(n, s3) = {} THEN t1 ELSE t2
  BY DEF become_leader, s1, s2, s3
<1> HIDE DEF t1, t2
<1> QED BY <1>9, <1>11, <1>12, <1>13, StepTransitive, StepReflexive

\* add_vote_for_me, which may lead to become_leader, is a Step.
LEMMA AddVote ==
  ASSUME NEW n \in Node, NEW s, WellFormed(s), NEW from \in Node
  PROVE  Step(s, add_vote_for_me(n, s, from))
<1> DEFINE votes == s.votes_for_me \union {from}
           s1 == [s EXCEPT !.votes_for_me = votes]
<1>1. s \in NodeState /\ votes \in SUBSET Node
  BY Fields DEF WellFormed
<1>2. s1 \in NodeState /\ SameLog(s, s1)
  <2> HIDE DEF votes
  <2> QED BY <1>1, ZenonT(40) DEF NodeState, SameLog
<1>3. \/ add_vote_for_me(n, s, from) = s1
      \/ add_vote_for_me(n, s, from) = become_leader(n, s1)
  BY DEF add_vote_for_me
<1> HIDE DEF s1
<1>4. Step(s, s1) /\ WellFormed(s1)
  BY <1>2, SameLogStep DEF Step
<1>5. Step(s1, become_leader(n, s1))
  BY <1>4, BecomeLeader
<1> QED BY <1>3, <1>4, <1>5, StepTransitive

\* become_candidate is a Step.
LEMMA BecomeCandidate ==
  ASSUME NEW n \in Node, NEW s, WellFormed(s)
  PROVE  Step(s, become_candidate(n, s))
<1> DEFINE view == s.current_view + 1
           s1 == [s EXCEPT !.leadership_state = "Candidate", !.leader_id = Nil,
                           !.voted_for = n, !.votes_for_me = {},
                           !.current_view = view]
           s2 == add_vote_for_me(n, s1, n)
           t == send_request_vote(s2, nodes(n, s))
<1>1. s \in NodeState /\ view \in Nat
  BY Fields DEF WellFormed
<1>2. s1 \in NodeState /\ SameLog(s, s1)
  <2> HIDE DEF view
  <2>1. {} \in SUBSET Node /\ n \in Node \union {Nil}
    OBVIOUS
  <2> DEFINE u == [s EXCEPT !.leadership_state = "Candidate", !.leader_id = Nil,
                            !.voted_for = n]
  <2>2. u \in NodeState /\ SameLog(s, u)
    BY <1>1, <2>1, ZenonT(40) DEF NodeState, SameLog
  <2>3. s1 = [u EXCEPT !.votes_for_me = {}, !.current_view = view]
    OBVIOUS
  <2> HIDE DEF u
  <2>4. [u EXCEPT !.votes_for_me = {}, !.current_view = view] \in NodeState
    BY <1>1, <2>1, <2>2, ZenonT(40) DEF NodeState
  <2>5. SameLog(u, [u EXCEPT !.votes_for_me = {}, !.current_view = view])
    BY <2>2, ZenonT(40) DEF NodeState, SameLog
  <2> HIDE DEF s1
  <2> QED BY <2>2, <2>3, <2>4, <2>5 DEF SameLog
<1>3. become_candidate(n, s) = t
  BY DEF become_candidate
<1> HIDE DEF s1
<1>4. Step(s, s1) /\ WellFormed(s1)
  BY <1>2, SameLogStep DEF Step
<1>5. Step(s1, s2) /\ WellFormed(s2)
  BY <1>4, AddVote DEF Step
<1>6. Step(s, s2)
  BY <1>4, <1>5, StepTransitive
<1> HIDE DEF s2
<1>7. nodes(n, s) \in SUBSET Node
  BY <1>1, Fields, NodesType
<1>8. t \in NodeState /\ SameLog(s2, t)
  BY <1>5, <1>7, SendRequestVote
<1> HIDE DEF t
<1>9. Step(s2, t)
  BY <1>5, <1>8, SameLogStep
<1> QED BY <1>3, <1>6, <1>9, StepTransitive

-----------------------------------------------------------------------------
(* Appending *)

\* An entry put at the end of the ledger makes a Step.
LEMMA AppendLedger ==
  ASSUME NEW s, WellFormed(s), NEW e \in Entry
  PROVE  LET t == [s EXCEPT !.ledger = Append(@, e)]
         IN  /\ Step(s, t) /\ last_idx(t) = last_idx(s) + 1
             /\ t.ledger[last_idx(s) + 1] = e /\ t.commit_idx = s.commit_idx
<1> DEFINE log == Append(s.ledger, e)
           t == [s EXCEPT !.ledger = log]
<1>1. /\ s \in NodeState /\ s.ledger \in Seq(Entry) /\ s.commit_idx \in Nat
      /\ last_idx(s) \in Nat
  BY Fields DEF WellFormed
<1>2. /\ log \in Seq(Entry) /\ Len(log) = last_idx(s) + 1
      /\ \A i \in 1 .. last_idx(s) : log[i] = s.ledger[i]
      /\ log[last_idx(s) + 1] = e
  BY <1>1, AppendProperties DEF last_idx
<1> HIDE DEF log
<1>3. /\ t \in NodeState /\ t.ledger = log /\ t.commit_idx = s.commit_idx
      /\ t.view_history = s.view_history
      /\ t.committable_indices = s.committable_indices
  BY <1>1, <1>2, ZenonT(40) DEF NodeState
<1> HIDE DEF t
<1>4. last_idx(t) = last_idx(s) + 1
  BY <1>2, <1>3 DEF last_idx
<1>5. WellFormed(t)
  <2>1. \A i \in t.committable_indices :
          i \in t.commit_idx + 1 .. last_idx(t) /\ t.ledger[i].type = "sig"
    <3> SUFFICES ASSUME NEW i \in s.committable_indices
                 PROVE  /\ i \in s.commit_idx + 1 .. last_idx(s) + 1
                        /\ log[i].type = "sig"
      BY <1>3, <1>4
    <3>1. i \in s.commit_idx + 1 .. last_idx(s) /\ s.ledger[i].type = "sig"
      BY DEF WellFormed, well_indexed
    <3>2. i \in 1 .. last_idx(s)
      BY <1>1, <3>1
    <3> QED BY <1>1, <1>2, <3>1, <3>2
  <2>2. SortedWithin(t.view_history, last_idx(t))
    <3>1. s.view_history \in Seq(Nat) /\ SortedWithin(s.view_history, last_idx(s))
      BY <1>1, Fields DEF WellFormed, well_indexed
    <3> QED BY <1>1, <1>3, <1>4, <3>1 DEF SortedWithin
  <2>3. t.commit_idx <= last_idx(t)
    BY <1>1, <1>3, <1>4 DEF WellFormed, well_indexed
  <2> QED BY <1>3, <2>1, <2>2, <2>3 DEF WellFormed, well_indexed
<1>6. Keeps(s, t)
  <2>1. s.commit_idx <= last_idx(s)
    BY DEF WellFormed, well_indexed
  <2> QED BY <1>1, <1>2, <1>3, <1>4, <2>1 DEF Keeps
<1>7. t = [s EXCEPT !.ledger = Append(@, e)]
  BY DEF t, log
<1> QED BY <1>2, <1>3, <1>4, <1>5, <1>6, <1>7 DEF Step

\* add_committable changes nothing of the log but the committable indices.
LEMMA AddCommittable ==
  ASSUME NEW s \in NodeState, NEW idx \in Nat
  PROVE  LET t == add_committable(s, idx)
         IN  /\ t \in NodeState /\ t.ledger = s.ledger
             /\ t.commit_idx = s.commit_idx /\ t.view_history = s.view_history
             /\ t.committable_indices = s.committable_indices \union {idx}
<1> DEFINE r1 == become_retired(s, idx, "Signed")
           s1 == IF is_retired(s) /\ s.retirement_phase = "Ordered" THEN r1 ELSE s
           sigs == s1.committable_indices \union {idx}
           t == [s1 EXCEPT !.committable_indices = sigs]
<1>1. r1 \in NodeState /\ SameLog(s, r1)
  BY BecomeRetired
<1>2. s1 \in NodeState /\ SameLog(s, s1)
  <2> HIDE DEF r1
  <2> QED BY <1>1 DEF SameLog
<1>3. add_committable(s, idx) = t
  BY DEF add_committable
<1> HIDE DEF s1
<1>4. sigs \in SUBSET Nat /\ sigs = s.committable_indices \union {idx}
  BY <1>2, Fields DEF SameLog
<1> HIDE DEF sigs
<1>5. /\ t \in NodeState /\ t.ledger = s1.ledger /\ t.commit_idx = s1.commit_idx
      /\ t.view_history = s1.view_history /\ t.committable_indices = sigs
  BY <1>2, <1>4, ZenonT(40) DEF NodeState
<1> HIDE DEF t
<1> QED BY <1>2, <1>3, <1>4, <1>5 DEF SameLog

\* The view history of a well-formed node, updated at an index of the ledger or
\* just beyond it.
LEMMA UpdateViews ==
  ASSUME NEW s, WellFormed(s), NEW idx \in 1 .. last_idx(s) + 1, NEW view \in Nat
  PROVE  LET t == [s EXCEPT !.view_history = update(@, idx, view)]
         IN  Step(s, t) /\ t.ledger = s.ledger
<1> DEFINE views == update(s.view_history, idx, view)
           t == [s EXCEPT !.view_history = views]
<1>1. /\ s \in NodeState /\ s.view_history \in Seq(Nat) /\ last_idx(s) \in Nat
      /\ SortedWithin(s.view_history, last_idx(s)) /\ s.commit_idx \in Nat
  BY Fields DEF WellFormed, well_indexed
<1>2. views \in Seq(Nat) /\ SortedWithin(views, last_idx(s))
  BY <1>1, UpdateSorted
<1> HIDE DEF views
<1>3. /\ t \in NodeState /\ t.view_history = views /\ t.ledger = s.ledger
      /\ t.commit_idx = s.commit_idx
      /\ t.committable_indices = s.committable_indices
  BY <1>1, <1>2, ZenonT(40) DEF NodeState
<1> HIDE DEF t
<1>4. last_idx(t) = last_idx(s)
  BY <1>3 DEF last_idx
<1>5. WellFormed(t) /\ Keeps(s, t)
  BY <1>1, <1>2, <1>3, <1>4 DEF WellFormed, well_indexed, Keeps
<1>6. t = [s EXCEPT !.view_history = update(@, idx, view)]
  BY DEF t, views
<1> QED BY <1>3, <1>5, <1>6 DEF Step

-----------------------------------------------------------------------------
(* Append entries *)

\* A Step followed by a method that leaves the log alone is a Step.
LEMMA SameLogAfter ==
  ASSUME NEW s, NEW t, NEW u, WellFormed(s), Step(s, t),
         u \in NodeState, SameLog(t, u)
  PROVE  Step(s, u) /\ last_idx(u) = last_idx(t)
<1>1. WellFormed(t)
  BY DEF Step
<1>2. Step(t, u)
  BY <1>1, SameLogStep
<1> QED BY <1>2, StepTransitive DEF SameLog, last_idx

\* One iteration of execute_append_entries_sync, whatever becomes of the entry.
LEMMA ExecuteEntry ==
  ASSUME NEW n, NEW s, WellFormed(s), NEW e \in Entry, NEW r \in AppendEntries,
         r.prev_idx <= last_idx(s)
  PROVE  LET t == execute_append_entry(n, s, e, r)
         IN  Step(s, t) /\ last_idx(t) >= last_idx(s)
<1> DEFINE s1 == [s EXCEPT !.ledger = Append(@, e)]
           i == last_idx(s1)
           s2 == IF e.type = "config" THEN add_configuration(n, s1, i, e.nodes)
                 ELSE s1
           s2t == start_ticking_if_necessary(n, s2)
           s3 == add_committable(s2t, i)
           start == IF r.term_of_idx = InvalidView THEN 1 ELSE r.prev_idx + 1
           term == IF r.term_of_idx = InvalidView THEN r.term ELSE e.term
           s4 == [s3 EXCEPT !.view_history = update(@, start, term)]
           failed == [s EXCEPT !.apply = "FAIL"]
           thrown == [s3 EXCEPT !.apply = "throw"]
           done == commit_if_possible(n, s4, r.leader_commit_idx)
<1>1. /\ s \in NodeState /\ last_idx(s) \in Nat /\ s.commit_idx \in Nat
      /\ s.commit_idx <= last_idx(s)
  BY Fields DEF WellFormed, well_indexed
<1>2. /\ e.nodes \in SUBSET Node /\ e.term \in Nat
      /\ r.prev_idx \in Nat /\ r.term \in Nat /\ r.leader_commit_idx \in Nat
  BY DEF Entry, AppendEntries
<1>3. execute_append_entry(n, s, e, r) \in {s, failed, s2, thrown, done}
      /\ (e.type # "sig" => execute_append_entry(n, s, e, r) \in {s, failed, s2})
  <2>1. execute_append_entry(n, s, e, r) =
          IF s.apply # "PASS" THEN s
          ELSE IF e.term # r.term_of_idx THEN failed
          ELSE IF e.type # "sig" THEN s2
          ELSE IF update_throws(s3.view_history, start) THEN thrown
          ELSE done
    BY DEF execute_append_entry
  <2> HIDE DEF failed, s2, s3, start, thrown, done
  <2> QED BY <2>1
<1>4. /\ Step(s, s1) /\ i = last_idx(s) + 1 /\ s1.ledger[i] = e
      /\ s1.commit_idx = s.commit_idx
  BY AppendLedger
<1> HIDE DEF s1
<1>5. s2 \in NodeState /\ SameLog(s1, s2)
  <2>1. WellFormed(s1) /\ s1 \in NodeState /\ i \in Nat
    BY <1>1, <1>4 DEF Step, WellFormed
  <2> HIDE DEF i
  <2>2. LET t == add_configuration(n, s1, i, e.nodes)
        IN  t \in NodeState /\ SameLog(s1, t)
    BY <1>2, <2>1, AddConfiguration
  <2> QED BY <2>1, <2>2 DEF SameLog
<1> HIDE DEF s2
<1>6. Step(s, s2) /\ last_idx(s2) = i
  BY <1>4, <1>5, SameLogAfter
<1>7. s2t \in NodeState /\ SameLog(s2, s2t)
  BY <1>5, StartTicking
<1> HIDE DEF s2t
<1>8. Step(s, s2t) /\ last_idx(s2t) = i
  BY <1>6, <1>7, SameLogAfter
<1> HIDE DEF i
<1>9. /\ s3 \in NodeState /\ s3.ledger = s2t.ledger
      /\ s3.commit_idx = s2t.commit_idx /\ s3.view_history = s2t.view_history
      /\ s3.committable_indices = s2t.committable_indices \union {i}
  <2>1. i \in Nat
    BY <1>1, <1>4
  <2> QED BY <1>7, <2>1, AddCommittable
<1> HIDE DEF s3
<1>10. s2t.ledger[i] = e /\ s2t.commit_idx = s.commit_idx
  BY <1>4, <1>5, <1>7 DEF SameLog
<1>11. last_idx(s3) = i
  BY <1>8, <1>9 DEF last_idx
<1>12. ASSUME e.type = "sig" PROVE Step(s, s3)
  <2>1. WellFormed(s2t)
    BY <1>8 DEF Step
  <2>2. i \in s.commit_idx + 1 .. i
    BY <1>1, <1>4
  <2>3. WellFormed(s3)
    BY <1>8, <1>9, <1>10, <1>11, <1>12, <2>1, <2>2 DEF WellFormed, well_indexed
  <2>4. Keeps(s, s3)
    BY <1>8, <1>9, <1>11 DEF Step, Keeps
  <2> QED BY <2>3, <2>4 DEF Step
<1>13. ASSUME e.type = "sig" PROVE Step(s, thrown) /\ last_idx(thrown) = i
  <2>1. thrown \in NodeState /\ SameLog(s3, thrown)
    BY <1>9, ZenonT(40) DEF NodeState, SameLog
  <2> HIDE DEF thrown
  <2> QED BY <1>11, <1>12, <1>13, <2>1, SameLogAfter
<1>14. Step(s, failed) /\ last_idx(failed) = last_idx(s)
  <2>1. failed \in NodeState /\ SameLog(s, failed)
    BY <1>1, ZenonT(40) DEF NodeState, SameLog
  <2> HIDE DEF failed
  <2> QED BY <2>1, SameLogAfter, StepReflexive
<1>15. ASSUME e.type = "sig" PROVE Step(s, done) /\ last_idx(done) = i
  <2>1. WellFormed(s3) /\ Step(s, s3)
    BY <1>12, <1>15 DEF Step
  <2>2. start \in 1 .. last_idx(s3) + 1 /\ term \in Nat
    BY <1>1, <1>2, <1>4, <1>11
  <2> HIDE DEF start, term
  <2>3. Step(s3, s4) /\ s4.ledger = s3.ledger
    BY <2>1, <2>2, UpdateViews
  <2> HIDE DEF s4
  <2>4. Step(s4, done) /\ done.ledger = s4.ledger
    BY <1>2, <2>3, CommitIfPossible DEF Step
  <2> HIDE DEF done
  <2>5. Step(s, s4)
    BY <2>1, <2>3, StepTransitive
  <2>6. last_idx(done) = i
    BY <1>11, <2>3, <2>4 DEF last_idx
  <2> QED BY <2>4, <2>5, <2>6, StepTransitive
<1> HIDE DEF failed, thrown, done
<1>16. Step(s, s)
  BY StepReflexive
<1>17. last_idx(s) >= last_idx(s) /\ i >= last_idx(s)
  BY <1>1, <1>4
<1>18. CASE e.type = "sig"
  <2>1. execute_append_entry(n, s, e, r) \in {s, failed, s2, thrown, done}
    BY <1>3
  <2>2. Step(s, thrown) /\ last_idx(thrown) = i /\ Step(s, done) /\ last_idx(done) = i
    BY <1>13, <1>15, <1>18
  <2> QED BY <1>6, <1>14, <1>16, <1>17, <2>1, <2>2
<1>19. CASE e.type # "sig"
  <2>1. execute_append_entry(n, s, e, r) \in {s, failed, s2}
    BY <1>3, <1>19
  <2> QED BY <1>6, <1>14, <1>16, <1>17, <2>1
<1> QED BY <1>18, <1>19


\* What holds of every state a set T describes, and is kept by each iteration,
\* holds when execute_append_entries_sync is through.
LEMMA SyncInduction ==
  ASSUME NEW n, NEW s, NEW new, Len(new) \in Nat, NEW r, NEW T, s \in T,
         \A x \in T, k \in 1 .. Len(new) : execute_append_entry(n, x, new[k], r) \in T
  PROVE  execute_append_entries_sync(n, s, new, r) \in T
<1> DEFINE len == Len(new)
           F(x, k) == execute_append_entry(n, x, new[k], r)
           B(f, k) == IF k = 0 THEN s ELSE F(f[k - 1], k)
           G(m) == \E f : f = [k \in 0 .. m |-> B(f, k)]
<1>1. len \in Nat
  OBVIOUS
<1>2. \A x \in T, k \in 1 .. len : F(x, k) \in T
  OBVIOUS
<1>3. execute_append_entries_sync(n, s, new, r) =
        LET applied == CHOOSE f : f = [k \in 0 .. len |-> B(f, k)]
        IN  applied[len]
  BY DEF execute_append_entries_sync
<1> HIDE DEF F, len
<1>4. G(0)
  <2> DEFINE f == [k \in 0 .. 0 |-> s]
  <2>1. \A k \in 0 .. 0 : k = 0
    OBVIOUS
  <2>2. f = [k \in 0 .. 0 |-> B(f, k)]
    BY <2>1
  <2> HIDE DEF f, B
  <2> QED BY <2>2
<1>5. ASSUME NEW m \in 0 .. len, m # 0, G(m - 1) PROVE G(m)
  <2>1. PICK f : f = [k \in 0 .. m - 1 |-> B(f, k)]
    BY <1>5
  <2> DEFINE g == [k \in 0 .. m |-> IF k = m THEN F(f[m - 1], m) ELSE f[k]]
  <2>2. \A k \in 0 .. m : k # m => k \in 0 .. m - 1
    BY <1>1
  <2>3. \A k \in 0 .. m - 1 : g[k] = f[k]
    BY <1>1
  <2>4. \A k \in 0 .. m : k # 0 => k - 1 \in 0 .. m - 1
    BY <1>1
  <2>5. \A k \in 0 .. m - 1 : f[k] = B(f, k)
    <3> HIDE DEF B
    <3> QED BY <2>1
  <2>6. \A k \in 0 .. m : B(g, k) = B(f, k)
    <3> SUFFICES ASSUME NEW k \in 0 .. m PROVE B(g, k) = B(f, k)
      OBVIOUS
    <3>1. k # 0 => g[k - 1] = f[k - 1]
      BY <2>3, <2>4
    <3> HIDE DEF g
    <3> QED BY <3>1
  <2>7. \A k \in 0 .. m : g[k] = B(g, k)
    <3> SUFFICES ASSUME NEW k \in 0 .. m PROVE g[k] = B(g, k)
      OBVIOUS
    <3>1. CASE k = m
      <4>1. g[k] = F(f[m - 1], m)
        BY <3>1
      <4>2. B(f, k) = F(f[m - 1], m)
        BY <1>5, <3>1
      <4> HIDE DEF B, g
      <4> QED BY <2>6, <4>1, <4>2
    <3>2. CASE k # m
      <4>1. g[k] = f[k] /\ f[k] = B(f, k)
        <5> HIDE DEF B, g
        <5> QED BY <2>2, <2>3, <2>5, <3>2
      <4> HIDE DEF B, g
      <4> QED BY <2>6, <4>1
    <3> QED BY <3>1, <3>2
  <2>8. g = [k \in 0 .. m |-> g[k]]
    OBVIOUS
  <2>9. g = [k \in 0 .. m |-> B(g, k)]
    <3> HIDE DEF B, g
    <3> QED BY <2>7, <2>8
  <2> HIDE DEF g, B
  <2> QED BY <2>9
<1>6. G(len)
  <2> DEFINE W == {m \in 0 .. len : ~ G(m)}
  <2> HIDE DEF G
  <2>1. W \in SUBSET Nat
    BY <1>1
  <2> SUFFICES ASSUME W # {} PROVE FALSE
    BY <1>1
  <2>2. PICK m \in W : \A y \in W : m <= y
    <3> HIDE DEF W
    <3> QED BY <2>1, LeastElement
  <2>3. m \in 0 .. len /\ ~ G(m) /\ m # 0
    BY <1>4
  <2>4. m - 1 \in 0 .. len /\ ~ (m <= m - 1)
    BY <1>1, <2>3
  <2>5. G(m - 1)
    BY <2>2, <2>4
  <2> QED BY <1>5, <2>3, <2>5
<1> DEFINE applied == CHOOSE f : f = [k \in 0 .. len |-> B(f, k)]
<1>7. applied = [k \in 0 .. len |-> B(applied, k)]
  <2> HIDE DEF B
  <2> QED BY <1>6
<1>8. \A k \in 0 .. len : applied[k] = B(applied, k)
  <2> HIDE DEF applied, B
  <2> QED BY <1>7
<1> HIDE DEF applied
<1>9. applied[len] \in T
  <2> DEFINE W == {k \in 0 .. len : applied[k] \notin T}
  <2>1. W \in SUBSET Nat
    BY <1>1
  <2> SUFFICES ASSUME W # {} PROVE FALSE
    BY <1>1
  <2>2. PICK m \in W : \A y \in W : m <= y
    <3> HIDE DEF W
    <3> QED BY <2>1, LeastElement
  <2>3. m \in 0 .. len /\ applied[m] \notin T /\ m # 0
    BY <1>8
  <2>4. m - 1 \in 0 .. len /\ ~ (m <= m - 1) /\ m \in 1 .. len
    BY <1>1, <2>3
  <2>5. applied[m - 1] \in T
    BY <2>2, <2>4
  <2> QED BY <1>2, <1>8, <2>3, <2>4, <2>5
<1> QED BY <1>3, <1>9 DEF applied

\* execute_append_entries_sync is a Step, whatever batch it is given.
LEMMA ExecuteSync ==
  ASSUME NEW n, NEW s, WellFormed(s), NEW new \in Seq(Entry),
         NEW r \in AppendEntries, r.prev_idx <= last_idx(s)
  PROVE  LET t == execute_append_entries_sync(n, s, new, r)
         IN  Step(s, t) /\ r.prev_idx <= last_idx(t)
<1> DEFINE T == {x \in NodeState : Step(s, x) /\ r.prev_idx <= last_idx(x)}
<1>1. r.prev_idx \in Nat /\ s \in NodeState
  BY DEF AppendEntries, WellFormed
<1>2. s \in T
  BY <1>1, StepReflexive
<1>3. \A x \in T, k \in 1 .. Len(new) : execute_append_entry(n, x, new[k], r) \in T
  <2> SUFFICES ASSUME NEW x \in T, NEW k \in 1 .. Len(new)
               PROVE  execute_append_entry(n, x, new[k], r) \in T
    OBVIOUS
  <2> DEFINE e == new[k]
             y == execute_append_entry(n, x, e, r)
  <2>1. e \in Entry
    BY ElementOfSeq
  <2>2. Step(s, x) /\ WellFormed(x) /\ r.prev_idx <= last_idx(x)
    BY DEF Step
  <2> HIDE DEF e
  <2>3. Step(x, y) /\ last_idx(y) >= last_idx(x)
    BY <2>1, <2>2, ExecuteEntry
  <2> HIDE DEF y
  <2>4. Step(s, y)
    BY <2>2, <2>3, StepTransitive
  <2>5. y \in NodeState /\ last_idx(y) \in Nat /\ last_idx(x) \in Nat
    BY <2>2, <2>4, Fields DEF Step, WellFormed
  <2>6. r.prev_idx <= last_idx(y)
    BY <1>1, <2>2, <2>3, <2>5
  <2> QED BY <2>4, <2>5, <2>6 DEF y, e
<1>4. Len(new) \in Nat
  BY LenProperties
<1> HIDE DEF T
<1>5. execute_append_entries_sync(n, s, new, r) \in T
  BY <1>2, <1>3, <1>4, SyncInduction
<1> QED BY <1>5 DEF T

=============================================================================
