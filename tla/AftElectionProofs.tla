------------------------- MODULE AftElectionProofs -------------------------
(***************************************************************************)
(* At most one leader in a view, for every service whose membership does   *)
(* not change.  VoteStep says what a call may do to the vote of a node and *)
(* to the votes it holds; all handlers are VoteSteps, and VoteSteps keep   *)
(* the invariant that a node gives one vote in a view.                     *)
(***************************************************************************)
EXTENDS AftFixedProofs, FiniteSetTheorems

-----------------------------------------------------------------------------
(* Votes *)

\* A granted vote, as send_request_vote_response makes it.
vote(v) ==
  [type |-> "RequestVoteResponse", term |-> v, vote_granted |-> TRUE]

Carries(ms, v) == \E k \in 1 .. Len(ms) : ms[k] = vote(v)

FixedMessage == NoVoteMessage \union RequestVoteResponse

\* Fixed, but for the messages of the call.
Member(s) ==
  /\ WellFormed(s) /\ s.commit_idx >= 1
  /\ s.ledger \in Seq(FixedEntry)
  /\ s.configurations = {FixedConfiguration}
  /\ s.membership_state = "Active"

\* What a call on node n does about votes, from s to t: a vote given is the one
\* recorded, an earlier vote of the view is withdrawn only by a candidate that
\* gives up, and a vote counted is its own or was received.
VoteStep(n, s, t, received) ==
  /\ Member(t) /\ t.out \in [Node -> Seq(FixedMessage)]
  /\ t.current_view >= s.current_view
  /\ \A x \in Node, v \in Nat :
       Carries(t.out[x], v) => v = t.current_view /\ t.voted_for = x
  /\ t.current_view = s.current_view
     => \/ t.voted_for = s.voted_for
        \/ s.voted_for = Nil
        \/ s.leadership_state = "Candidate" /\ t.votes_for_me = {}
  /\ \A q \in t.votes_for_me :
       \/ q \in s.votes_for_me /\ t.current_view = s.current_view
       \/ q \in received /\ t.current_view = s.current_view
       \/ q = n /\ t.voted_for = n
  /\ t.leadership_state = "Candidate"
     => \/ /\ s.leadership_state = "Candidate"
           /\ t.current_view = s.current_view
           /\ t.voted_for = s.voted_for \/ s.voted_for = Nil
        \/ t.current_view > s.current_view /\ t.voted_for = n
  /\ t.leadership_state = "Leader"
     => \/ /\ s.leadership_state = "Leader"
           /\ t.current_view = s.current_view /\ t.votes_for_me = s.votes_for_me
        \/ /\ Majority(t.votes_for_me)
           /\ \/ t.current_view > s.current_view
              \/ s.leadership_state = "Candidate" /\ t.current_view = s.current_view

\* Messages that are not votes carry none.
LEMMA NoVotes ==
  ASSUME NEW s, Fixed(s)
  PROVE  /\ \A x \in Node, v \in Nat : ~ Carries(s.out[x], v)
         /\ s.out \in [Node -> Seq(FixedMessage)] /\ Member(s)
<1>1. s.out \in [Node -> Seq(NoVoteMessage)] /\ Member(s)
  BY DEF Fixed, Member
<1>2. \A m \in NoVoteMessage : m.type # "RequestVoteResponse"
  BY DEF NoVoteMessage, AppendEntriesOf, AppendEntriesResponse, RequestVote
<1>3. \A v \in Nat : vote(v) \notin NoVoteMessage
  BY <1>2 DEF vote
<1>4. \A x \in Node : \A k \in 1 .. Len(s.out[x]) : s.out[x][k] \in NoVoteMessage
  BY <1>1, ElementOfSeq
<1>5. \A x \in Node, v \in Nat : ~ Carries(s.out[x], v)
  BY <1>3, <1>4 DEF Carries
<1>6. \A x \in Node : s.out[x] \in Seq(FixedMessage)
  <2>1. NoVoteMessage \subseteq FixedMessage
    BY DEF FixedMessage
  <2> QED BY <1>1, <2>1, SeqMonotonic
<1> QED BY <1>1, <1>5, <1>6

\* A method that is not about an election is a VoteStep.
LEMMA AsideVotes ==
  ASSUME NEW n, NEW s, s.current_view \in Nat, NEW t, Aside(s, t)
  PROVE  VoteStep(n, s, t, {})
<1>1. Fixed(t) /\ SameVotes(s, t) /\ SameLeadership(s, t)
  BY DEF Aside
<1>2. /\ \A x \in Node, v \in Nat : ~ Carries(t.out[x], v)
      /\ t.out \in [Node -> Seq(FixedMessage)] /\ Member(t)
  BY <1>1, NoVotes
<1> QED BY <1>1, <1>2 DEF VoteStep, SameVotes, SameLeadership

\* So is become_follower.
LEMMA FollowerVotes ==
  ASSUME NEW n, NEW s, Fixed(s)
  PROVE  VoteStep(n, s, become_follower(n, s), {})
<1> DEFINE t == become_follower(n, s)
<1>1. Fixed(t) /\ SameVotes(s, t) /\ t.leadership_state = "Follower"
  BY FixedBecomeFollower
<1> HIDE DEF t
<1>2. /\ \A x \in Node, v \in Nat : ~ Carries(t.out[x], v)
      /\ t.out \in [Node -> Seq(FixedMessage)] /\ Member(t)
  BY <1>1, NoVotes
<1>3. s.current_view \in Nat
  BY Fields DEF Fixed, WellFormed
<1>4. VoteStep(n, s, t, {})
  BY <1>1, <1>2, <1>3 DEF VoteStep, SameVotes
<1> QED BY <1>4 DEF t

\* So is become_candidate.
LEMMA CandidateVotes ==
  ASSUME NEW n \in Node, NEW s, Fixed(s)
  PROVE  VoteStep(n, s, become_candidate(n, s), {})
<1> DEFINE t == become_candidate(n, s)
<1>1. /\ Fixed(t) /\ t.current_view = s.current_view + 1
      /\ t.voted_for = n /\ t.votes_for_me = {n}
      /\ \/ t.leadership_state = "Candidate"
         \/ t.leadership_state = "Leader" /\ Majority(t.votes_for_me)
  BY FixedBecomeCandidate
<1> HIDE DEF t
<1>2. /\ \A x \in Node, v \in Nat : ~ Carries(t.out[x], v)
      /\ t.out \in [Node -> Seq(FixedMessage)] /\ Member(t)
  BY <1>1, NoVotes
<1>3. s.current_view \in Nat
  BY Fields DEF Fixed, WellFormed
<1>4. /\ t.current_view > s.current_view /\ t.current_view >= s.current_view
      /\ t.current_view # s.current_view
  BY <1>1, <1>3
<1>5. VoteStep(n, s, t, {})
  BY <1>1, <1>2, <1>4 DEF VoteStep
<1> QED BY <1>5 DEF t

\* The node learnt of a later view, or that another node leads this one.
Aware(s, t) ==
  /\ Fixed(t)
  /\ \/ t.current_view > s.current_view
     \/ t.current_view = s.current_view /\ s.leadership_state = "Candidate"
  /\ t.voted_for = Nil /\ t.votes_for_me = {} /\ t.leadership_state = "Follower"

\* Learning of a view is a VoteStep: an earlier vote of this view was the node's
\* own, and it no longer counts it.
LEMMA AwareVotes ==
  ASSUME NEW n, NEW s, Fixed(s), NEW t, Aware(s, t)
  PROVE  VoteStep(n, s, t, {})
<1>1. /\ \A x \in Node, v \in Nat : ~ Carries(t.out[x], v)
      /\ t.out \in [Node -> Seq(FixedMessage)] /\ Member(t)
  BY NoVotes DEF Aware
<1>2. s.current_view \in Nat /\ t.current_view \in Nat
  BY Fields DEF Aware, Fixed, WellFormed
<1>3. /\ t.current_view >= s.current_view
      /\ t.current_view = s.current_view => s.leadership_state = "Candidate"
  BY <1>2 DEF Aware
<1> QED BY <1>1, <1>3 DEF VoteStep, Aware

\* become_aware_of_new_term is called for a later view, or by a candidate for its
\* own.
LEMMA LaterView ==
  ASSUME NEW n, NEW s, Fixed(s), NEW term \in Nat
  PROVE  \/ s.current_view < term
         \/ s.current_view = term /\ s.leadership_state = "Candidate"
         => Aware(s, become_aware_of_new_term(n, s, term))
<1> DEFINE t == become_aware_of_new_term(n, s, term)
<1>1. /\ Fixed(t) /\ t.current_view = term /\ t.voted_for = Nil
      /\ t.votes_for_me = {} /\ t.leadership_state = "Follower"
  BY FixedBecomeAware
<1>2. s.current_view \in Nat
  BY Fields DEF Fixed, WellFormed
<1> HIDE DEF t
<1>3. ASSUME \/ s.current_view < term
             \/ s.current_view = term /\ s.leadership_state = "Candidate"
      PROVE  Aware(s, t)
  <2>1. \/ t.current_view > s.current_view
        \/ t.current_view = s.current_view /\ s.leadership_state = "Candidate"
    BY <1>1, <1>2, <1>3
  <2> QED BY <1>1, <2>1 DEF Aware
<1> QED BY <1>3 DEF t

\* Nothing about an election follows in the same call.
LEMMA AwareAside ==
  ASSUME NEW s, NEW t, NEW u, Aware(s, t), Aside(t, u)
  PROVE  Aware(s, u)
BY DEF Aware, Aside, SameVotes, SameLeadership

-----------------------------------------------------------------------------
(* Message handlers *)

\* recv_append_entries is a VoteStep.
LEMMA AppendEntriesVotes ==
  ASSUME NEW n \in Node, NEW s, Fixed(s), NEW from \in Node,
         NEW r \in AppendEntriesOf(FixedEntry)
  PROVE  VoteStep(n, s, recv_append_entries(n, s, from, r), {})
<1> DEFINE s1 == IF \/ s.current_view < r.term
                    \/ s.current_view = r.term /\ s.leadership_state = "Candidate"
                 THEN become_aware_of_new_term(n, s, r.term) ELSE s
           prev_term == get_term_internal(s1, r.prev_idx)
           fail(rejected) == send_append_entries_response(s1, from, "FAIL", rejected)
           accepted == append_entries_accepted(n, s1, from, r)
           rejected == <<r.prev_term, r.prev_idx>>
           t == recv_append_entries(n, s, from, r)
<1>1. /\ r.term \in Nat /\ r.prev_idx \in Nat /\ r.prev_term \in Nat
      /\ s.current_view \in Nat /\ r.entries \in Seq(FixedEntry)
  BY Fields DEF Fixed, WellFormed, AppendEntriesOf
<1>2. r \in AppendEntries
  <2>1. Seq(FixedEntry) \subseteq Seq(Entry)
    BY SeqMonotonic DEF FixedEntry
  <2> QED BY <2>1 DEF AppendEntries, AppendEntriesOf
<1>3. t \in {fail(<<>>), fail(rejected), accepted}
  <2>1. t =
          CASE s.current_view > r.term -> fail(<<>>)
            [] s.current_view <= r.term /\ prev_term # r.prev_term ->
                 fail(IF prev_term = 0 THEN <<>> ELSE rejected)
            [] s.current_view <= r.term /\ prev_term = r.prev_term ->
                 IF /\ is_retired(s1) /\ s1.retirement_phase = "Completed"
                    /\ r.idx > s1.retirement_committable_idx
                 THEN fail(<<>>) ELSE accepted
    BY DEF recv_append_entries
  <2>2. \/ s.current_view > r.term
        \/ s.current_view <= r.term /\ prev_term # r.prev_term
        \/ s.current_view <= r.term /\ prev_term = r.prev_term
    BY <1>1
  <2> HIDE DEF s1, prev_term, rejected, accepted, t
  <2> HIDE DEF fail
  <2> QED BY <1>1, <2>1, <2>2
<1>4. Aware(s, s1) \/ s1 = s
  <2>1. CASE \/ s.current_view < r.term
             \/ s.current_view = r.term /\ s.leadership_state = "Candidate"
    <3>1. r.term \in Nat
      BY <1>1
    <3>2. Aware(s, become_aware_of_new_term(n, s, r.term))
      BY <2>1, <3>1, LaterView
    <3>3. s1 = become_aware_of_new_term(n, s, r.term)
      BY <2>1
    <3> HIDE DEF s1
    <3> QED BY <3>2, <3>3
  <2>2. CASE ~ (\/ s.current_view < r.term
                \/ s.current_view = r.term /\ s.leadership_state = "Candidate")
    BY <2>2
  <2> QED BY <2>1, <2>2
<1> HIDE DEF s1
<1>5. Fixed(s1)
  BY <1>4 DEF Aware
<1>6. Aside(s1, fail(<<>>)) /\ Aside(s1, accepted)
  BY <1>1, <1>2, <1>5, FixedSendAppendEntriesResponse, FixedAccepted
<1>7. Aside(s1, fail(rejected))
  <2>1. rejected \in Nat \X Nat
    BY <1>1
  <2> HIDE DEF rejected
  <2> QED BY <1>5, <2>1, FixedSendAppendEntriesResponse
<1> HIDE DEF fail, accepted, t, rejected
<1>8. Aside(s1, t)
  BY <1>3, <1>6, <1>7
<1>9. CASE s1 = s
  <2>1. VoteStep(n, s, t, {})
    BY <1>1, <1>8, <1>9, AsideVotes
  <2> QED BY <2>1 DEF t
<1>10. CASE Aware(s, s1)
  <2>1. VoteStep(n, s, t, {})
    BY <1>8, <1>10, AwareAside, AwareVotes
  <2> QED BY <2>1 DEF t
<1> QED BY <1>4, <1>9, <1>10

\* recv_append_entries_response is a VoteStep.
LEMMA AppendEntriesResponseVotes ==
  ASSUME NEW n \in Node, NEW s, Fixed(s), NEW from \in Node,
         NEW r \in AppendEntriesResponse
  PROVE  VoteStep(n, s, recv_append_entries_response(n, s, from, r), {})
<1>1. r.term \in Nat /\ s.current_view \in Nat
  BY Fields DEF Fixed, WellFormed, AppendEntriesResponse
<1>2. /\ VoteStep(n, s, s, {}) /\ VoteStep(n, s, append_entries_nack(s, from, r), {})
      /\ VoteStep(n, s, append_entries_ack(n, s, from, r), {})
  BY <1>1, AsideReflexive, FixedNack, FixedAck, AsideVotes
<1>3. s.current_view < r.term
      => VoteStep(n, s, become_aware_of_new_term(n, s, r.term), {})
  BY <1>1, LaterView, AwareVotes
<1> QED BY <1>2, <1>3 DEF recv_append_entries_response

\* recv_request_vote is a VoteStep: it votes if it has not voted in this view, or
\* has voted for the same node.
LEMMA RequestVoteVotes ==
  ASSUME NEW n \in Node, NEW s, Fixed(s), NEW from \in Node, NEW r \in RequestVote
  PROVE  VoteStep(n, s, recv_request_vote(n, s, from, r), {})
<1> DEFINE s1 == IF s.current_view < r.term
                 THEN become_aware_of_new_term(n, s, r.term) ELSE s
           answer == /\ s.current_view <= r.term
                     /\ s1.leader_id = Nil
                     /\ s1.voted_for \in {Nil, from}
                     /\ up_to_date(s1, r)
           u == [s1 EXCEPT !.voted_for = from]
           s2 == IF answer THEN u ELSE s1
           m == [type |-> "RequestVoteResponse", term |-> s2.current_view,
                 vote_granted |-> answer]
           new_out == [s2.out EXCEPT ![from] = Append(@, m)]
           t == [s2 EXCEPT !.out = new_out]
<1>1. r.term \in Nat /\ s.current_view \in Nat /\ s \in NodeState
  BY Fields DEF RequestVote, Fixed, WellFormed
<1>2. recv_request_vote(n, s, from, r) = t
  BY DEF recv_request_vote, send_request_vote_response, send
<1>3. answer \in BOOLEAN
  OBVIOUS
<1>4. answer => s.current_view <= r.term /\ s1.voted_for \in {Nil, from}
  OBVIOUS
<1>5. IF s.current_view < r.term THEN Aware(s, s1) ELSE s1 = s
  BY <1>1, LaterView
<1> HIDE DEF answer, s1
<1>6. Fixed(s1) /\ s1 \in NodeState /\ s1.current_view \in Nat
  BY <1>5, Fields DEF Aware, Fixed, WellFormed
<1>7. /\ u \in NodeState /\ SameLog(s1, u) /\ SameConfiguration(s1, u)
      /\ SameLeadership(s1, u) /\ u.out = s1.out /\ u.voted_for = from
      /\ u.current_view = s1.current_view /\ u.votes_for_me = s1.votes_for_me
  <2>1. from \in Node \union {Nil}
    OBVIOUS
  <2> QED BY <1>6, <2>1, ZenonT(40)
          DEF NodeState, SameLog, SameConfiguration, SameLeadership
<1>8. Fixed(u)
  <2> HIDE DEF u
  <2>1. u.out \in [Node -> Seq(NoVoteMessage)]
    BY <1>6, <1>7 DEF Fixed
  <2> QED BY <1>6, <1>7, <2>1, FixedSameLog
<1> HIDE DEF u
<1>9. /\ Fixed(s2) /\ s2 \in NodeState /\ SameLeadership(s1, s2)
      /\ s2.current_view = s1.current_view /\ s2.votes_for_me = s1.votes_for_me
      /\ s2.voted_for = IF answer THEN from ELSE s1.voted_for
  BY <1>3, <1>6, <1>7, <1>8 DEF SameLeadership
<1> HIDE DEF s2
<1>10. m \in RequestVoteResponse
  BY <1>3, <1>6, <1>9 DEF RequestVoteResponse
<1>11. /\ \A x \in Node, v \in Nat : ~ Carries(s2.out[x], v)
       /\ s2.out \in [Node -> Seq(FixedMessage)] /\ Member(s2)
  BY <1>9, NoVotes
<1>12. \A v \in Nat : m = vote(v) => answer /\ v = s2.current_view
  BY <1>3 DEF vote
<1> HIDE DEF m
<1>13. new_out \in [Node -> Seq(FixedMessage)] /\ new_out \in [Node -> Seq(Message)]
  <2>1. m \in FixedMessage /\ m \in Message
    BY <1>10, MessageSets DEF FixedMessage
  <2> QED BY <1>9, <1>11, <2>1, Fields
<1>14. \A x \in Node, v \in Nat :
         Carries(new_out[x], v) => x = from /\ answer /\ v = s2.current_view
  <2> SUFFICES ASSUME NEW x \in Node, NEW v \in Nat, Carries(new_out[x], v)
               PROVE  x = from /\ answer /\ v = s2.current_view
    OBVIOUS
  <2>1. PICK k \in 1 .. Len(new_out[x]) : new_out[x][k] = vote(v)
    BY DEF Carries
  <2>2. CASE x # from
    <3>1. new_out[x] = s2.out[x]
      BY <1>11, <2>2
    <3> QED BY <1>11, <2>1, <3>1 DEF Carries
  <2>3. CASE x = from
    <3> DEFINE ms == s2.out[from]
    <3>1. new_out[x] = Append(ms, m) /\ ms \in Seq(FixedMessage)
      BY <1>11, <2>3
    <3>2. ~ Carries(ms, v)
      BY <1>11
    <3> HIDE DEF ms, new_out
    <3>3. Len(ms) \in Nat /\ Len(Append(ms, m)) = Len(ms) + 1
          /\ Append(ms, m)[Len(ms) + 1] = m
          /\ \A j \in 1 .. Len(ms) : Append(ms, m)[j] = ms[j]
      BY <3>1, AppendProperties, LenProperties
    <3>4. k \in 1 .. Len(ms) + 1 /\ Append(ms, m)[k] = vote(v)
      BY <2>1, <3>1, <3>3
    <3>5. k \notin 1 .. Len(ms)
      BY <3>2, <3>3, <3>4 DEF Carries
    <3>6. k = Len(ms) + 1
      BY <3>3, <3>4, <3>5
    <3>7. m = vote(v)
      BY <3>3, <3>4, <3>6
    <3> QED BY <1>12, <2>3, <3>7
  <2> QED BY <2>2, <2>3
<1> HIDE DEF new_out
<1>15. /\ t \in NodeState /\ SameLog(s2, t) /\ SameConfiguration(s2, t)
       /\ SameLeadership(s2, t) /\ SameVotes(s2, t) /\ t.out = new_out
  BY <1>9, <1>13, ZenonT(40)
     DEF NodeState, SameLog, SameConfiguration, SameLeadership, SameVotes
<1> HIDE DEF t
<1>16. Member(t)
  <2>1. WellFormed(t)
    BY <1>11, <1>15, SameLogStep DEF Member, Step
  <2> QED BY <1>11, <1>15, <2>1 DEF Member, SameLog, SameConfiguration
<1>17. /\ t.current_view = s1.current_view /\ t.votes_for_me = s1.votes_for_me
       /\ t.leadership_state = s1.leadership_state
       /\ t.voted_for = IF answer THEN from ELSE s1.voted_for
  BY <1>9, <1>15 DEF SameVotes, SameLeadership
<1>18. \A x \in Node, v \in Nat :
         Carries(t.out[x], v) => v = t.current_view /\ t.voted_for = x
  BY <1>9, <1>14, <1>15, <1>17
<1>19. CASE s.current_view < r.term
  <2>1. Aware(s, s1) /\ s1.current_view = r.term
    BY <1>1, <1>5, <1>19, FixedBecomeAware DEF s1
  <2>2. t.current_view > s.current_view
    BY <1>17, <1>19, <2>1
  <2>3. t.current_view >= s.current_view /\ t.current_view # s.current_view
    BY <1>1, <1>6, <1>17, <2>2
  <2> QED BY <1>2, <1>13, <1>15, <1>16, <1>17, <1>18, <2>1, <2>3 DEF VoteStep, Aware
<1>20. CASE ~ (s.current_view < r.term)
  <2>1. s1 = s
    BY <1>5, <1>20
  <2>2. t.voted_for = s.voted_for \/ s.voted_for = Nil
    BY <1>4, <1>17, <2>1
  <2>3. t.current_view >= s.current_view
    BY <1>1, <1>17, <2>1
  <2> QED BY <1>2, <1>13, <1>15, <1>16, <1>17, <1>18, <2>1, <2>2, <2>3 DEF VoteStep
<1> QED BY <1>19, <1>20

\* The sender, if the message is a vote for n in its view.
Voter(n, s, from, r) ==
  IF r = vote(s.current_view) /\ from # n THEN {from} ELSE {}

\* recv_request_vote_response is a VoteStep.
LEMMA RequestVoteResponseVotes ==
  ASSUME NEW n \in Node, NEW s, Fixed(s), NEW from \in Node,
         NEW r \in RequestVoteResponse
  PROVE  VoteStep(n, s, recv_request_vote_response(n, s, from, r),
                  Voter(n, s, from, r))
<1> DEFINE R == Voter(n, s, from, r)
           t == recv_request_vote_response(n, s, from, r)
           aware == become_aware_of_new_term(n, s, r.term)
           added == add_vote_for_me(n, s, from)
<1>1. r.term \in Nat /\ s.current_view \in Nat /\ s.configurations = {FixedConfiguration}
  BY Fields DEF Fixed, WellFormed, RequestVoteResponse
<1>2. t = IF s.leadership_state # "Candidate" \/ from \notin nodes(n, s) THEN s
          ELSE IF s.current_view < r.term THEN aware
          ELSE IF s.current_view = r.term /\ r.vote_granted THEN added
          ELSE s
  BY DEF recv_request_vote_response
<1>3. VoteStep(n, s, s, R)
  BY <1>1, AsideReflexive, AsideVotes DEF VoteStep
<1>4. s.current_view < r.term => VoteStep(n, s, aware, R)
  <2> SUFFICES ASSUME s.current_view < r.term PROVE VoteStep(n, s, aware, R)
    OBVIOUS
  <2>1. VoteStep(n, s, aware, {})
    BY <1>1, LaterView, AwareVotes
  <2> HIDE DEF aware, R
  <2> QED BY <2>1 DEF VoteStep
<1>5. ASSUME s.leadership_state = "Candidate", from \in nodes(n, s),
             s.current_view = r.term, r.vote_granted
      PROVE  VoteStep(n, s, added, R)
  <2>1. from # n
    BY <1>1, <1>5, FixedNodes
  <2>2. r = vote(s.current_view)
    <3>1. r.type = "RequestVoteResponse" /\ r.vote_granted \in BOOLEAN
      BY DEF RequestVoteResponse
    <3>2. r.vote_granted = TRUE
      BY <1>5, <3>1
    <3> QED BY <1>5, <3>1, <3>2 DEF vote, RequestVoteResponse
  <2>3. R = {from}
    BY <2>1, <2>2 DEF Voter
  <2>4. /\ Fixed(added) /\ added.current_view = s.current_view
        /\ added.voted_for = s.voted_for
        /\ added.votes_for_me = s.votes_for_me \union {from}
        /\ \/ SameLeadership(s, added)
           \/ added.leadership_state = "Leader" /\ Majority(added.votes_for_me)
    BY FixedAddVote
  <2> HIDE DEF added, R
  <2>5. /\ \A x \in Node, v \in Nat : ~ Carries(added.out[x], v)
        /\ added.out \in [Node -> Seq(FixedMessage)] /\ Member(added)
    BY <2>4, NoVotes
  <2> QED BY <1>1, <1>5, <2>3, <2>4, <2>5 DEF VoteStep, SameLeadership
<1> HIDE DEF R, aware, added
<1>6. VoteStep(n, s, t, R)
  BY <1>2, <1>3, <1>4, <1>5
<1> QED BY <1>6 DEF R

\* recv_message is a VoteStep.
LEMMA MessageVotes ==
  ASSUME NEW n \in Node, NEW s, Fixed(s), NEW from \in Node, NEW r \in FixedMessage
  PROVE  VoteStep(n, s, recv_message(n, s, from, r), Voter(n, s, from, r))
<1> DEFINE t == recv_message(n, s, from, r)
           R == Voter(n, s, from, r)
<1>1. CASE r \in AppendEntriesOf(FixedEntry)
  <2>1. r.type = "AppendEntries"
    BY <1>1 DEF AppendEntriesOf
  <2>2. t = recv_append_entries(n, s, from, r)
    BY <2>1 DEF recv_message
  <2>3. VoteStep(n, s, t, {})
    BY <1>1, <2>2, AppendEntriesVotes
  <2> HIDE DEF t, R
  <2>4. VoteStep(n, s, t, R)
    BY <2>3 DEF VoteStep
  <2> QED BY <2>4 DEF t, R
<1>2. CASE r \in AppendEntriesResponse
  <2>1. r.type = "AppendEntriesResponse"
    BY <1>2 DEF AppendEntriesResponse
  <2>2. t = recv_append_entries_response(n, s, from, r)
    BY <2>1 DEF recv_message
  <2>3. VoteStep(n, s, t, {})
    BY <1>2, <2>2, AppendEntriesResponseVotes
  <2> HIDE DEF t, R
  <2>4. VoteStep(n, s, t, R)
    BY <2>3 DEF VoteStep
  <2> QED BY <2>4 DEF t, R
<1>3. CASE r \in RequestVote
  <2>1. r.type = "RequestVote"
    BY <1>3 DEF RequestVote
  <2>2. t = recv_request_vote(n, s, from, r)
    BY <2>1 DEF recv_message
  <2>3. VoteStep(n, s, t, {})
    BY <1>3, <2>2, RequestVoteVotes
  <2> HIDE DEF t, R
  <2>4. VoteStep(n, s, t, R)
    BY <2>3 DEF VoteStep
  <2> QED BY <2>4 DEF t, R
<1>4. CASE r \in RequestVoteResponse
  <2>1. r.type = "RequestVoteResponse"
    BY <1>4 DEF RequestVoteResponse
  <2>2. t = recv_request_vote_response(n, s, from, r)
    BY <2>1 DEF recv_message
  <2> QED BY <1>4, <2>2, RequestVoteResponseVotes
<1> QED BY <1>1, <1>2, <1>3, <1>4 DEF FixedMessage, NoVoteMessage

-----------------------------------------------------------------------------
(* The invariant *)

\* q voted for x in view v, and x counted the vote or may still receive it.
Grant(v, q, x) ==
  \/ q # x /\ Carries(net[<<q, x>>], v)
  \/ q \in node[x].votes_for_me /\ node[x].current_view = v

\* A node that stands in a view or leads it was entitled to.
Entitled(n, s) ==
  /\ s.current_view >= 2
  /\ s.leadership_state = "Candidate" => s.current_view > 2 /\ s.voted_for = n
  /\ s.leadership_state = "Leader"
     => IF s.current_view = 2 THEN n = InitialLeader ELSE Majority(s.votes_for_me)

\* A vote in a node's current view is the one in voted_for; nobody votes ahead
\* of its view.
VoteRecorded ==
  \A v \in Nat, q, x \in Node :
    Grant(v, q, x) => /\ v <= node[q].current_view
                      /\ v = node[q].current_view => node[q].voted_for = x

\* No node gives two votes in a view.
OneVote ==
  \A v \in Nat, q, x, y \in Node : Grant(v, q, x) /\ Grant(v, q, y) => x = y

ElectionInv ==
  /\ node \in [Node -> NodeState] /\ \A n \in Node : Fixed(node[n])
  /\ net \in [Node \X Node -> Seq(FixedMessage)]
  /\ \A n \in Node : Entitled(n, node[n])
  /\ VoteRecorded /\ OneVote

\* Two majorities have a node in common, which voted once.
LEMMA OneLeader == ElectionInv => ElectionSafety
<1> SUFFICES ASSUME ElectionInv, NEW m \in Node, NEW n \in Node,
                    node[m].leadership_state = "Leader",
                    node[n].leadership_state = "Leader",
                    node[m].current_view = node[n].current_view
             PROVE  m = n
  BY DEF ElectionSafety
<1> DEFINE v == node[m].current_view
           P == node[m].votes_for_me
           Q == node[n].votes_for_me
<1>1. v \in Nat /\ P \subseteq Node /\ Q \subseteq Node
  BY Fields DEF ElectionInv
<1>2. Entitled(m, node[m]) /\ Entitled(n, node[n])
  BY DEF ElectionInv
<1>3. CASE v = 2
  BY <1>2, <1>3 DEF Entitled
<1>4. CASE v # 2
  <2>1. Majority(P) /\ Majority(Q)
    BY <1>2, <1>4 DEF Entitled
  <2>2. IsFiniteSet(Node)
    BY ConstantsAssumption
  <2>3. /\ Cardinality(P) \in Nat /\ Cardinality(Q) \in Nat
        /\ Cardinality(Node) \in Nat
    BY <1>1, <2>2, FS_Subset, FS_CardinalityType
  <2>4. Cardinality(P) + Cardinality(Q) > Cardinality(Node)
    <3> DEFINE p == Cardinality(P)
               k == Cardinality(Q)
               c == Cardinality(Node)
    <3>1. p >= (c \div 2) + 1 /\ k >= (c \div 2) + 1
      BY <2>1 DEF Majority, get_quorum
    <3> HIDE DEF p, k, c
    <3>2. p \in Nat /\ k \in Nat /\ c \in Nat
      BY <2>3 DEF p, k, c
    <3>3. p + k > c
      BY <3>1, <3>2
    <3> QED BY <3>3 DEF p, k, c
  <2>5. P \cap Q # {}
    BY <1>1, <2>2, <2>4, FS_MajoritiesIntersect
  <2>6. PICK q \in Node : q \in P /\ q \in Q
    BY <1>1, <2>5
  <2>7. Grant(v, q, m) /\ Grant(v, q, n)
    BY <2>6 DEF Grant
  <2> HIDE DEF v
  <2> QED BY <1>1, <2>7 DEF ElectionInv, OneVote
<1> QED BY <1>3, <1>4

\* A channel carries a vote after a call only if it did before or the call sent
\* it.
LEMMA CarriesInFlight ==
  ASSUME NEW a \in Seq(FixedMessage), NEW b \in Seq(FixedMessage), NEW v
  PROVE  /\ in_flight(a \o b) \in Seq(FixedMessage)
         /\ Carries(in_flight(a \o b), v) => Carries(a, v) \/ Carries(b, v)
<1> DEFINE ms == a \o b
           k == IF Len(ms) < MaxInFlight THEN Len(ms) ELSE MaxInFlight
           fs == SubSeq(ms, 1, k)
<1>1. /\ ms \in Seq(FixedMessage) /\ Len(ms) = Len(a) + Len(b)
      /\ Len(a) \in Nat /\ Len(b) \in Nat /\ Len(ms) \in Nat
      /\ \A i \in 1 .. Len(ms) : ms[i] = IF i <= Len(a) THEN a[i] ELSE b[i - Len(a)]
  BY ConcatProperties, LenProperties
<1>2. in_flight(ms) = fs
  BY DEF in_flight
<1> HIDE DEF ms
<1>3. k \in 0 .. Len(ms)
  BY <1>1, ConstantsAssumption
<1> HIDE DEF k
<1>4. \A i \in 1 .. k : ms[i] \in FixedMessage
  BY <1>1, <1>3, ElementOfSeq
<1>5. /\ fs \in Seq(FixedMessage)
      /\ Len(fs) = IF 1 <= k THEN k - 1 + 1 ELSE 0
      /\ \A i \in 1 .. k - 1 + 1 : fs[i] = ms[1 + i - 1]
  BY <1>1, <1>3, <1>4, SubSeqProperties
<1> HIDE DEF fs
<1>6. k \in Nat /\ Len(fs) = k /\ \A i \in 1 .. k : fs[i] = ms[i]
  BY <1>1, <1>3, <1>5
<1>7. ASSUME Carries(fs, v) PROVE Carries(a, v) \/ Carries(b, v)
  <2>1. PICK i \in 1 .. Len(fs) : fs[i] = vote(v)
    BY <1>7 DEF Carries
  <2>2. i \in 1 .. Len(ms) /\ ms[i] = vote(v) /\ i \in Nat
    BY <1>1, <1>3, <1>6, <2>1
  <2>3. CASE i <= Len(a)
    <3>1. i \in 1 .. Len(a) /\ a[i] = vote(v)
      BY <1>1, <2>2, <2>3
    <3> QED BY <3>1 DEF Carries
  <2>4. CASE ~ (i <= Len(a))
    <3>1. i - Len(a) \in 1 .. Len(b)
      BY <1>1, <2>2, <2>4
    <3>2. b[i - Len(a)] = vote(v)
      BY <1>1, <2>2, <2>4
    <3> QED BY <3>1, <3>2 DEF Carries
  <2> QED BY <2>3, <2>4
<1> QED BY <1>2, <1>5, <1>7 DEF ms

\* Taking the first message off a channel adds no vote to it.
LEMMA CarriesTail ==
  ASSUME NEW ms \in Seq(FixedMessage), ms # <<>>, NEW v
  PROVE  Carries(Tail(ms), v) => Carries(ms, v)
<1> SUFFICES ASSUME Carries(Tail(ms), v) PROVE Carries(ms, v)
  OBVIOUS
<1>1. PICK k \in 1 .. Len(Tail(ms)) : Tail(ms)[k] = vote(v)
  BY DEF Carries
<1>2. Len(ms) \in Nat /\ Len(Tail(ms)) = Len(ms) - 1
  BY HeadTailProperties, LenProperties
<1>3. k + 1 \in 1 .. Len(ms) /\ ms[k + 1] = Tail(ms)[k]
  BY <1>1, <1>2, HeadTailProperties
<1> QED BY <1>1, <1>3 DEF Carries

\* A VoteStep of one node, whose output joins the channels, keeps the invariant.
LEMMA VoteStepInvariant ==
  ASSUME ElectionInv, NEW n \in Node, NEW t, NEW R, VoteStep(n, node[n], t, R),
         NEW channels \in [Node \X Node -> Seq(FixedMessage)],
         \A a, b \in Node, v \in Nat :
           Carries(channels[<<a, b>>], v) => Carries(net[<<a, b>>], v),
         \A q \in R : /\ q \in Node /\ q # n
                      /\ Carries(net[<<q, n>>], node[n].current_view),
         finish(n, t, channels)
  PROVE  ElectionInv'
<1> DEFINE s == node[n]
           u == [t EXCEPT !.out = no_output, !.apply = "PASS"]
<1>1. /\ node \in [Node -> NodeState] /\ \A m \in Node : Fixed(node[m])
      /\ \A m \in Node : Entitled(m, node[m])
      /\ VoteRecorded /\ OneVote
  BY DEF ElectionInv
<1>2. /\ node' = [node EXCEPT ![n] = u]
      /\ net' = [link \in Node \X Node |->
                   IF link[1] = n
                   THEN in_flight(channels[link] \o t.out[link[2]])
                   ELSE channels[link]]
  BY DEF finish
<1>3. Member(t) /\ t \in NodeState /\ t.out \in [Node -> Seq(FixedMessage)]
  BY DEF VoteStep, Member, WellFormed
<1>4. /\ u \in NodeState /\ SameLog(t, u) /\ SameConfiguration(t, u)
      /\ SameVotes(t, u) /\ SameLeadership(t, u) /\ u.out = no_output
  <2>1. no_output \in [Node -> Seq(Message)]
    BY DEF no_output
  <2> QED BY <1>3, <2>1, ZenonT(40)
          DEF NodeState, SameLog, SameConfiguration, SameVotes, SameLeadership
<1> HIDE DEF u
<1>5. Fixed(u)
  <2>1. WellFormed(u)
    BY <1>3, <1>4, SameLogStep DEF Member, Step
  <2>2. no_output \in [Node -> Seq(NoVoteMessage)]
    BY DEF no_output
  <2> QED BY <1>3, <1>4, <2>1, <2>2 DEF Member, Fixed, SameLog, SameConfiguration
<1>6. node'[n] = u /\ \A m \in Node : m # n => node'[m] = node[m]
  BY <1>1, <1>2
<1>7. node' \in [Node -> NodeState] /\ \A m \in Node : Fixed(node'[m])
  BY <1>1, <1>2, <1>4, <1>5, <1>6
<1>8. /\ s.current_view \in Nat /\ u.current_view \in Nat
      /\ s.votes_for_me \subseteq Node /\ u.votes_for_me \subseteq Node
  BY <1>1, <1>4, Fields
<1>9. /\ u.current_view >= s.current_view
      /\ u.current_view = s.current_view
         => \/ u.voted_for = s.voted_for
            \/ s.voted_for = Nil
            \/ s.leadership_state = "Candidate" /\ u.votes_for_me = {}
      /\ \A q \in u.votes_for_me :
           \/ q \in s.votes_for_me /\ u.current_view = s.current_view
           \/ q \in R /\ u.current_view = s.current_view
           \/ q = n /\ u.voted_for = n
  BY <1>4 DEF VoteStep, SameVotes
<1>9a. u.current_view >= s.current_view
  BY <1>9
<1>10. \A x \in Node, v \in Nat :
         Carries(t.out[x], v) => v = u.current_view /\ u.voted_for = x
  BY <1>4 DEF VoteStep, SameVotes
<1>11. /\ net' \in [Node \X Node -> Seq(FixedMessage)]
       /\ \A a, b \in Node, v \in Nat :
            Carries(net'[<<a, b>>], v)
            => \/ Carries(net[<<a, b>>], v)
               \/ a = n /\ Carries(t.out[b], v)
  <2>1. \A a, b \in Node : /\ channels[<<a, b>>] \in Seq(FixedMessage)
                           /\ t.out[b] \in Seq(FixedMessage)
    BY <1>3
  <2>2. \A a, b \in Node :
          net'[<<a, b>>] = IF a = n THEN in_flight(channels[<<a, b>>] \o t.out[b])
                           ELSE channels[<<a, b>>]
    <3> TAKE a, b \in Node
    <3> DEFINE link == <<a, b>>
    <3>1. link \in Node \X Node /\ link[1] = a /\ link[2] = b
      OBVIOUS
    <3> HIDE DEF link
    <3>2. net'[link] = IF link[1] = n THEN in_flight(channels[link] \o t.out[link[2]])
                       ELSE channels[link]
      BY <1>2, <3>1
    <3>3. net'[link] = IF a = n THEN in_flight(channels[link] \o t.out[b])
                       ELSE channels[link]
      BY <3>1, <3>2
    <3> QED BY <3>3 DEF link
  <2>3. \A a, b \in Node : net'[<<a, b>>] \in Seq(FixedMessage)
    <3> TAKE a, b \in Node
    <3>1. in_flight(channels[<<a, b>>] \o t.out[b]) \in Seq(FixedMessage)
      BY <2>1, CarriesInFlight
    <3> QED BY <2>1, <2>2, <3>1
  <2>4. ASSUME NEW a \in Node, NEW b \in Node, NEW v \in Nat,
               Carries(net'[<<a, b>>], v)
        PROVE  \/ Carries(net[<<a, b>>], v)
               \/ a = n /\ Carries(t.out[b], v)
    <3>1. CASE a = n
      <4>1. Carries(in_flight(channels[<<a, b>>] \o t.out[b]), v)
        BY <2>2, <2>4, <3>1
      <4>2. Carries(channels[<<a, b>>], v) \/ Carries(t.out[b], v)
        BY <2>1, <4>1, CarriesInFlight
      <4> QED BY <3>1, <4>2
    <3>2. CASE a # n
      BY <2>2, <2>4, <3>2
    <3> QED BY <3>1, <3>2
  <2>5. net' \in [Node \X Node -> Seq(FixedMessage)]
    <3>1. \A link \in Node \X Node : net'[link] \in Seq(FixedMessage)
      BY <2>3
    <3>2. net' = [link \in Node \X Node |-> net'[link]]
      BY <1>2
    <3> HIDE DEF u
    <3> QED BY <3>1, <3>2
  <2> QED BY <2>4, <2>5

<1>12. ASSUME NEW v \in Nat, NEW q \in Node, NEW x \in Node, Grant(v, q, x)'
       PROVE  \/ Grant(v, q, x)
              \/ q = n /\ v = u.current_view /\ u.voted_for = x
  <2>1. CASE q # x /\ Carries(net'[<<q, x>>], v)
    BY <1>10, <1>11, <2>1 DEF Grant
  <2>2. CASE q \in node'[x].votes_for_me /\ node'[x].current_view = v
    <3>1. CASE x # n
      BY <1>6, <2>2, <3>1 DEF Grant
    <3>2. CASE x = n
      <4>1. q \in u.votes_for_me /\ u.current_view = v
        BY <1>6, <2>2, <3>2
      <4> QED BY <1>9, <3>2, <4>1 DEF Grant
    <3> QED BY <3>1, <3>2
  <2> QED BY <1>12, <2>1, <2>2 DEF Grant
<1>13. ASSUME NEW v \in Nat, NEW q \in Node, NEW x \in Node, Grant(v, q, x)'
       PROVE  /\ v <= node'[q].current_view
              /\ v = node'[q].current_view => node'[q].voted_for = x
  <2>1. CASE q = n /\ v = u.current_view /\ u.voted_for = x
    BY <1>6, <1>8, <2>1
  <2>2. CASE Grant(v, q, x) /\ q # n
    BY <1>1, <1>6, <2>2 DEF VoteRecorded
  <2>3. CASE Grant(v, q, x) /\ q = n
    <3>1. /\ v <= s.current_view
          /\ v = s.current_view => s.voted_for = x
      BY <1>1, <2>3 DEF VoteRecorded
    <3>2. v <= u.current_view
      BY <1>8, <1>9a, <3>1
    <3>3. ASSUME v = u.current_view PROVE u.voted_for = x
      <4>1. v = s.current_view /\ u.current_view = s.current_view /\ s.voted_for = x
        BY <1>8, <1>9a, <3>1, <3>3
      <4>2. x # Nil
        BY ConstantsAssumption
      <4>3. CASE s.leadership_state = "Candidate" /\ u.votes_for_me = {}
        <5>1. x = n
          <6>1. Entitled(n, s)
            BY <1>1
          <6> QED BY <4>1, <4>3, <6>1 DEF Entitled
        <5>2. q \in node'[x].votes_for_me
          BY <1>13, <2>3, <5>1 DEF Grant
        <5> QED BY <1>6, <4>3, <5>1, <5>2
      <4> QED BY <1>9, <4>1, <4>2, <4>3
    <3> QED BY <1>6, <2>3, <3>2, <3>3
  <2> QED BY <1>12, <1>13, <2>1, <2>2, <2>3
<1>14. VoteRecorded'
  BY <1>13 DEF VoteRecorded
<1>15. OneVote'
  <2> SUFFICES ASSUME NEW v \in Nat, NEW q \in Node, NEW x \in Node, NEW y \in Node,
                      Grant(v, q, x)', Grant(v, q, y)'
               PROVE  x = y
    BY DEF OneVote
  <2>1. CASE Grant(v, q, x) /\ Grant(v, q, y)
    BY <1>1, <2>1 DEF OneVote
  <2>2. CASE q = n /\ v = u.current_view
    <3>1. node'[q].voted_for = x /\ node'[q].voted_for = y
      BY <1>6, <1>13, <2>2
    <3> QED BY <3>1
  <2> QED BY <1>12, <2>1, <2>2
<1>16. Entitled(n, u)
  <2>1. Entitled(n, s) /\ s.current_view >= 2
    BY <1>1 DEF Entitled
  <2>2. u.current_view >= 2
    BY <1>8, <1>9a, <2>1
  <2>3. ASSUME u.leadership_state = "Candidate"
        PROVE  u.current_view > 2 /\ u.voted_for = n
    <3>1. \/ /\ s.leadership_state = "Candidate"
             /\ u.current_view = s.current_view
             /\ u.voted_for = s.voted_for \/ s.voted_for = Nil
          \/ u.current_view > s.current_view /\ u.voted_for = n
      BY <1>4, <2>3 DEF VoteStep, SameVotes, SameLeadership
    <3>2. n # Nil
      BY ConstantsAssumption
    <3>3. CASE u.current_view > s.current_view /\ u.voted_for = n
      BY <1>8, <2>1, <3>3
    <3>4. CASE /\ s.leadership_state = "Candidate"
               /\ u.current_view = s.current_view
               /\ u.voted_for = s.voted_for \/ s.voted_for = Nil
      <4>1. s.current_view > 2 /\ s.voted_for = n
        BY <2>1, <3>4 DEF Entitled
      <4> QED BY <3>2, <3>4, <4>1
    <3> QED BY <3>1, <3>3, <3>4
  <2>4. ASSUME u.leadership_state = "Leader"
        PROVE  IF u.current_view = 2 THEN n = InitialLeader
               ELSE Majority(u.votes_for_me)
    <3>1. \/ /\ s.leadership_state = "Leader"
             /\ u.current_view = s.current_view /\ u.votes_for_me = s.votes_for_me
          \/ /\ Majority(u.votes_for_me)
             /\ \/ u.current_view > s.current_view
                \/ s.leadership_state = "Candidate" /\ u.current_view = s.current_view
      BY <1>4, <2>4 DEF VoteStep, SameVotes, SameLeadership
    <3>2. u.current_view > s.current_view => u.current_view # 2
      BY <1>8, <2>1
    <3>3. s.leadership_state = "Candidate" => s.current_view # 2
      BY <1>8, <2>1 DEF Entitled
    <3> QED BY <2>1, <3>1, <3>2, <3>3 DEF Entitled
  <2> QED BY <2>2, <2>3, <2>4 DEF Entitled
<1>17. \A m \in Node : Entitled(m, node'[m])
  BY <1>1, <1>6, <1>16
<1>18. (\A m \in Node : Fixed(node[m]))' /\ (\A m \in Node : Entitled(m, node[m]))'
  BY <1>7, <1>17 DEF Fixed, Entitled
<1> QED BY <1>7, <1>11, <1>14, <1>15, <1>18 DEF ElectionInv

\* A lost message takes no vote to anybody.
LEMMA LoseInvariant ==
  ASSUME ElectionInv, NEW n \in Node, NEW from \in Node, Lose(n, from)
  PROVE  ElectionInv'
<1> DEFINE link == <<from, n>>
<1>1. /\ net' = [net EXCEPT ![link] = Tail(@)] /\ node' = node /\ net[link] # <<>>
  BY DEF Lose
<1>2. net \in [Node \X Node -> Seq(FixedMessage)] /\ VoteRecorded /\ OneVote
  BY DEF ElectionInv
<1>3. net[link] \in Seq(FixedMessage)
  BY <1>2
<1>4. Tail(net[link]) \in Seq(FixedMessage)
  BY <1>1, <1>3, HeadTailProperties
<1>5. net' \in [Node \X Node -> Seq(FixedMessage)]
  BY <1>1, <1>2, <1>4
<1>6. ASSUME NEW a \in Node, NEW b \in Node, NEW v \in Nat, Carries(net'[<<a, b>>], v)
      PROVE  Carries(net[<<a, b>>], v)
  <2>1. CASE <<a, b>> = link
    <3>1. Carries(Tail(net[link]), v)
      BY <1>1, <1>2, <1>6, <2>1
    <3> HIDE DEF link
    <3> QED BY <1>1, <1>3, <2>1, <3>1, CarriesTail
  <2>2. CASE <<a, b>> # link
    BY <1>1, <1>2, <1>6, <2>2
  <2> QED BY <2>1, <2>2
<1>7. \A v \in Nat, q, x \in Node : Grant(v, q, x)' => Grant(v, q, x)
  BY <1>1, <1>6 DEF Grant
<1>8. VoteRecorded'
  BY <1>1, <1>2, <1>7 DEF VoteRecorded
<1>9. OneVote'
  BY <1>2, <1>7 DEF OneVote
<1> QED BY <1>1, <1>5, <1>8, <1>9 DEF ElectionInv

\* So the invariant holds after the initial state,
LEMMA ElectionInit ==
  ASSUME FixedMembership, Init
  PROVE  ElectionInv
<1>1. IInv
  BY InitInvariant
<1>2. /\ node \in [Node -> NodeState] /\ \A n \in Node : WellFormed(node[n])
  BY <1>1 DEF IInv, TypeOK, IndicesWithinLedger, WellFormed
<1>3. \A n \in Node : node[n] = member(n)
  BY DEF Init, FixedMembership
<1>4. InitialLedger \in Seq(FixedEntry)
  <2>1. [term |-> 2, type |-> "config", nodes |-> InitialConfig] \in FixedEntry
    BY DEF FixedMembership, FixedEntry, Entry
  <2>2. [term |-> 2, type |-> "sig", nodes |-> {}] \in FixedEntry
    BY DEF FixedEntry, Entry
  <2> QED BY <2>1, <2>2 DEF InitialLedger
<1>5. no_output \in [Node -> Seq(NoVoteMessage)]
  BY DEF no_output
<1>6. \A n \in Node :
        /\ node[n].ledger = InitialLedger /\ node[n].commit_idx = 2
        /\ node[n].configurations = {FixedConfiguration}
        /\ node[n].membership_state = "Active" /\ node[n].out = no_output
        /\ node[n].current_view = 2 /\ node[n].votes_for_me = {}
        /\ node[n].leadership_state = IF n = InitialLeader THEN "Leader" ELSE "Follower"
  <2>1. [idx |-> 1, nodes |-> InitialConfig] = FixedConfiguration
    BY DEF FixedMembership, FixedConfiguration
  <2> TAKE n \in Node
  <2>2. /\ member(n).ledger = InitialLedger /\ member(n).commit_idx = 2
        /\ member(n).configurations = {[idx |-> 1, nodes |-> InitialConfig]}
        /\ member(n).membership_state = "Active" /\ member(n).out = no_output
        /\ member(n).current_view = 2 /\ member(n).votes_for_me = {}
        /\ member(n).leadership_state =
             IF n = InitialLeader THEN "Leader" ELSE "Follower"
    BY ZenonT(40) DEF member
  <2> QED BY <1>3, <2>1, <2>2
<1>7. \A n \in Node : Fixed(node[n])
  BY <1>2, <1>4, <1>5, <1>6 DEF Fixed
<1>8. \A n \in Node : Entitled(n, node[n])
  BY <1>6 DEF Entitled
<1>9. net = [link \in Node \X Node |-> <<>>]
  BY DEF Init
<1>10. net \in [Node \X Node -> Seq(FixedMessage)]
  BY <1>9
<1>11. \A v \in Nat, q, x \in Node : ~ Grant(v, q, x)
  BY <1>6, <1>9 DEF Grant, Carries
<1>12. VoteRecorded /\ OneVote
  BY <1>11 DEF VoteRecorded, OneVote
<1> QED BY <1>2, <1>7, <1>8, <1>10, <1>12 DEF ElectionInv

\* and after every step, whose call is a VoteStep of the node it runs on.
LEMMA ElectionNext ==
  ASSUME FixedMembership, ElectionInv, [Next]_vars
  PROVE  ElectionInv'
<1>1. CASE UNCHANGED vars
  <2>1. node' = node /\ net' = net
    BY <1>1 DEF vars
  <2>2. \A v \in Nat, q, x \in Node : Grant(v, q, x)' <=> Grant(v, q, x)
    BY <2>1 DEF Grant
  <2>3. VoteRecorded' /\ OneVote'
    BY <2>1, <2>2 DEF ElectionInv, VoteRecorded, OneVote
  <2> QED BY <2>1, <2>3 DEF ElectionInv
<1>2. CASE Next
  <2>1. PICK n \in Node :
          \/ Replicate(n) \/ ReplicateRejected(n) \/ SendUpdates(n)
          \/ CheckQuorum(n) \/ StartElection(n)
          \/ \E from \in Node : Receive(n, from) \/ Lose(n, from)
    BY <1>2 DEF Next
  <2> DEFINE s == node[n]
  <2>2. /\ Fixed(s) /\ WellFormed(s) /\ s \in NodeState
        /\ net \in [Node \X Node -> Seq(FixedMessage)]
    BY DEF ElectionInv, Fixed
  <2>3. /\ last_idx(s) \in Nat /\ s.sent_idx \in [Node -> Nat]
        /\ s.current_view \in Nat /\ nodes(n, s) \in SUBSET Node
    BY <2>2, Fields, NodesType
  <2>4. ASSUME NEW t, VoteStep(n, s, t, {}), finish(n, t, net) PROVE ElectionInv'
    <3> DEFINE channels == net
               R == {}
    <3>1. \A a, b \in Node, v \in Nat :
            Carries(channels[<<a, b>>], v) => Carries(net[<<a, b>>], v)
      OBVIOUS
    <3>2. \A q \in R : /\ q \in Node /\ q # n
                       /\ Carries(net[<<q, n>>], node[n].current_view)
      OBVIOUS
    <3>3. /\ VoteStep(n, node[n], t, R) /\ finish(n, t, channels)
          /\ channels \in [Node \X Node -> Seq(FixedMessage)]
      BY <2>2, <2>4
    <3> HIDE DEF channels, R
    <3> QED BY <3>1, <3>2, <3>3, VoteStepInvariant
  <2>5. ASSUME NEW t, Aside(s, t), finish(n, t, net) PROVE ElectionInv'
    BY <2>3, <2>4, <2>5, AsideVotes
  <2>6. CASE Replicate(n)
    <3>1. PICK e \in NewEntries(s), flush \in BOOLEAN :
            finish(n, replicate(n, s, e, flush), net)
      BY <2>6 DEF Replicate
    <3>2. e \in Entry /\ e.type \in {"tx", "sig"}
      BY <2>3 DEF NewEntries, possible_reconfigs, Entry, FixedMembership
    <3>3. Aside(s, replicate(n, s, e, flush))
      BY <2>2, <3>2, FixedReplicate
    <3> QED BY <2>5, <3>1, <3>3
  <2>7. CASE ReplicateRejected(n)
    <3>1. last_idx(s) \in 0 .. last_idx(s)
      BY <2>3
    <3>2. Aside(s, rollback(n, s, last_idx(s)))
      BY <2>2, <3>1, FixedRollback
    <3> QED BY <2>5, <2>7, <3>2 DEF ReplicateRejected
  <2>8. CASE SendUpdates(n)
    <3> DEFINE start == [p \in Node |-> s.sent_idx[p] + 1]
               t == send_append_entries(s, nodes(n, s), start)
    <3>1. \A p \in nodes(n, s) : start[p] \in Nat \ {0}
      BY <2>3
    <3>2. finish(n, t, net)
      BY <2>8 DEF SendUpdates
    <3> HIDE DEF start
    <3>3. Aside(s, t)
      BY <2>2, <2>3, <3>1, FixedSendAppendEntries
    <3> HIDE DEF t
    <3> QED BY <2>5, <3>2, <3>3
  <2>9. CASE CheckQuorum(n)
    <3>1. VoteStep(n, s, become_follower(n, s), {})
      BY <2>2, FollowerVotes
    <3> QED BY <2>4, <2>9, <3>1 DEF CheckQuorum
  <2>10. CASE StartElection(n)
    <3>1. VoteStep(n, s, become_candidate(n, s), {})
      BY <2>2, CandidateVotes
    <3> QED BY <2>4, <2>10, <3>1 DEF StartElection
  <2>11. ASSUME NEW from \in Node, Receive(n, from) PROVE ElectionInv'
    <3> DEFINE link == <<from, n>>
               ms == net[link]
               r == Head(ms)
               t == recv_message(n, s, from, r)
               R == Voter(n, s, from, r)
               channels == [net EXCEPT ![link] = Tail(@)]
    <3>1. ms \in Seq(FixedMessage) /\ ms # <<>>
      BY <2>2, <2>11 DEF Receive
    <3>2. r \in FixedMessage /\ Tail(ms) \in Seq(FixedMessage)
      BY <3>1, HeadTailProperties
    <3>3. channels \in [Node \X Node -> Seq(FixedMessage)]
      BY <2>2, <3>2
    <3>4. VoteStep(n, s, t, R)
      BY <2>2, <3>2, MessageVotes
    <3>5. finish(n, t, channels)
      BY <2>11 DEF Receive
    <3>6. ASSUME NEW a \in Node, NEW b \in Node, NEW v \in Nat,
                 Carries(channels[<<a, b>>], v)
          PROVE  Carries(net[<<a, b>>], v)
      <4>1. CASE <<a, b>> = link
        <5>1. Carries(Tail(ms), v)
          BY <2>2, <3>6, <4>1
        <5>2. Carries(ms, v)
          BY <3>1, <5>1, CarriesTail
        <5> QED BY <4>1, <5>2
      <4>2. CASE <<a, b>> # link
        BY <2>2, <3>6, <4>2
      <4> QED BY <4>1, <4>2
    <3>7. ASSUME NEW q \in R
          PROVE  q \in Node /\ q # n /\ Carries(net[<<q, n>>], s.current_view)
      <4>1. q = from /\ from # n /\ r = vote(s.current_view)
        BY <3>7 DEF Voter
      <4>2. 1 \in 1 .. Len(ms) /\ ms[1] = r
        BY <3>1, HeadTailProperties, LenProperties
      <4>3. Carries(ms, s.current_view)
        BY <4>1, <4>2 DEF Carries
      <4> QED BY <4>1, <4>3
    <3> HIDE DEF t, channels, R
    <3> QED BY <3>3, <3>4, <3>5, <3>6, <3>7, VoteStepInvariant
  <2>12. ASSUME NEW from \in Node, Lose(n, from) PROVE ElectionInv'
    BY <2>12, LoseInvariant
  <2> QED BY <2>1, <2>6, <2>7, <2>8, <2>9, <2>10, <2>11, <2>12
<1> QED BY <1>1, <1>2

\* At most one node leads a view, for any number of nodes and in any
\* interleaving of elections, timeouts and lost messages, if no reconfiguration
\* takes place: a node votes once in a view (voted_for), and become_leader needs
\* the votes of a majority (votes_for_me, get_quorum).
THEOREM AtMostOneLeader ==
  ASSUME FixedMembership
  PROVE  Spec => []ElectionSafety
<1>1. Init => ElectionInv
  BY ElectionInit
<1>2. ElectionInv /\ [Next]_vars => ElectionInv'
  BY ElectionNext
<1> QED BY <1>1, <1>2, OneLeader, PTL DEF Spec

=============================================================================
