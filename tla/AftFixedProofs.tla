-------------------------- MODULE AftFixedProofs ---------------------------
(***************************************************************************)
(* A service whose membership does not change: its one configuration stays, *)
(* and no method but those of an election touches what an election reads.  *)
(* AftElectionProofs draws the conclusion.                                 *)
(***************************************************************************)
EXTENDS AftProofs

\* Governance installs no configuration; all nodes are members from the start.
FixedMembership == Reconfigs = {} /\ InitialConfig = Node

FixedEntry == {e \in Entry : e.type = "config" => e.nodes = Node}

FixedConfiguration == [idx |-> 1, nodes |-> Node]

\* The messages that are not votes.
NoVoteMessage ==
  AppendEntriesOf(FixedEntry) \union AppendEntriesResponse \union RequestVote

\* A node of a service whose membership does not change, within a call.
Fixed(s) ==
  /\ WellFormed(s) /\ s.commit_idx >= 1
  /\ s.ledger \in Seq(FixedEntry)
  /\ s.configurations = {FixedConfiguration}
  /\ s.membership_state = "Active"
  /\ s.out \in [Node -> Seq(NoVoteMessage)]

SameConfiguration(s, t) ==
  /\ t.configurations = s.configurations
  /\ t.membership_state = s.membership_state

SameVotes(s, t) ==
  /\ t.current_view = s.current_view /\ t.voted_for = s.voted_for
  /\ t.votes_for_me = s.votes_for_me

SameLeadership(s, t) == t.leadership_state = s.leadership_state

\* What a method that is not about an election guarantees.
Aside(s, t) == Fixed(t) /\ SameVotes(s, t) /\ SameLeadership(s, t)

-----------------------------------------------------------------------------
(* Sending, rollback and commit *)

\* Methods called one after the other, none of them about an election.
LEMMA AsideTransitive ==
  ASSUME NEW s, NEW t, NEW u, Aside(s, t), Aside(t, u)
  PROVE  Aside(s, u)
BY DEF Aside, SameVotes, SameLeadership

\* A method that sends nothing, does not touch the configurations and writes no
\* reconfiguration keeps Fixed.
LEMMA FixedStep ==
  ASSUME NEW s, NEW t, Fixed(s), Step(s, t), t.ledger \in Seq(FixedEntry),
         SameConfiguration(s, t), t.out \in [Node -> Seq(NoVoteMessage)]
  PROVE  Fixed(t)
<1>1. s.commit_idx \in Nat /\ t.commit_idx \in Nat
  BY Fields DEF Fixed, Step, WellFormed
<1>2. t.commit_idx >= 1
  BY <1>1 DEF Step, Keeps, Fixed
<1> QED BY <1>2 DEF Fixed, Step, SameConfiguration

\* The same for a method that leaves the log alone.
LEMMA FixedSameLog ==
  ASSUME NEW s, NEW t, Fixed(s), t \in NodeState, SameLog(s, t),
         SameConfiguration(s, t), t.out \in [Node -> Seq(NoVoteMessage)]
  PROVE  Fixed(t)
<1>1. Step(s, t)
  BY SameLogStep DEF Fixed
<1>2. t.ledger \in Seq(FixedEntry)
  BY DEF SameLog, Fixed
<1> QED BY <1>1, <1>2, FixedStep

\* Queueing a message that is not a vote.
LEMMA FixedSend ==
  ASSUME NEW s, Fixed(s), NEW to \in Node, NEW m \in NoVoteMessage, m \in Message
  PROVE  Aside(s, send(s, to, m))
<1> DEFINE new_out == [s.out EXCEPT ![to] = Append(@, m)]
           t == [s EXCEPT !.out = new_out]
<1>1. s \in NodeState /\ s.out \in [Node -> Seq(NoVoteMessage)]
  BY DEF Fixed, WellFormed
<1>2. new_out \in [Node -> Seq(NoVoteMessage)]
  BY <1>1
<1>3. send(s, to, m) = t
  BY DEF send
<1>4. t \in NodeState /\ SameLog(s, t)
  <2>1. send(s, to, m) \in NodeState /\ SameLog(s, send(s, to, m))
    BY <1>1, SendType
  <2> HIDE DEF t
  <2> QED BY <1>3, <2>1
<1> HIDE DEF new_out
<1>5. /\ SameConfiguration(s, t) /\ SameVotes(s, t) /\ SameLeadership(s, t)
      /\ t.out = new_out
  BY <1>1, ZenonT(40) DEF NodeState, SameConfiguration, SameVotes, SameLeadership
<1> HIDE DEF t
<1>6. Fixed(t)
  BY <1>2, <1>4, <1>5, FixedSameLog
<1> QED BY <1>3, <1>5, <1>6 DEF Aside

\* send_append_entries sends entries of the ledger only.
LEMMA FixedSendAppendEntries ==
  ASSUME NEW s, Fixed(s), NEW peers \in SUBSET Node, NEW start,
         \A p \in peers : start[p] \in Nat \ {0}
  PROVE  Aside(s, send_append_entries(s, peers, start))
<1> DEFINE new_out == [p \in Node |-> IF p \in peers
                                      THEN s.out[p] \o append_entries_from(s, start[p])
                                      ELSE s.out[p]]
           new_sent == [p \in Node |-> IF p \in peers THEN last_idx(s) ELSE s.sent_idx[p]]
           t == [s EXCEPT !.out = new_out, !.sent_idx = new_sent]
<1>1. /\ s \in NodeState /\ WellFormed(s) /\ s.ledger \in Seq(FixedEntry)
      /\ s.out \in [Node -> Seq(NoVoteMessage)]
  BY DEF Fixed, WellFormed
<1>2. \A p \in peers : append_entries_from(s, start[p]) \in Seq(NoVoteMessage)
  <2> SUFFICES ASSUME NEW p \in peers
               PROVE  append_entries_from(s, start[p]) \in Seq(NoVoteMessage)
    OBVIOUS
  <2>1. append_entries_from(s, start[p]) \in Seq(AppendEntriesOf(FixedEntry))
    BY <1>1, AppendEntriesFrom
  <2>2. AppendEntriesOf(FixedEntry) \subseteq NoVoteMessage
    BY DEF NoVoteMessage
  <2> QED BY <2>1, <2>2, SeqMonotonic
<1>3. \A p \in peers : s.out[p] \o append_entries_from(s, start[p]) \in Seq(NoVoteMessage)
  BY <1>1, <1>2, ConcatProperties
<1>4. new_out \in [Node -> Seq(NoVoteMessage)]
  BY <1>1, <1>3
<1>5. send_append_entries(s, peers, start) = t
  BY DEF send_append_entries
<1>6. t \in NodeState /\ SameLog(s, t)
  BY <1>1, <1>5, SendAppendEntries
<1> HIDE DEF new_out, new_sent
<1>7. /\ SameConfiguration(s, t) /\ SameVotes(s, t) /\ SameLeadership(s, t)
      /\ t.out = new_out
  BY <1>1, ZenonT(40) DEF NodeState, SameConfiguration, SameVotes, SameLeadership
<1> HIDE DEF t
<1>8. Fixed(t)
  BY <1>4, <1>6, <1>7, FixedSameLog
<1> QED BY <1>5, <1>7, <1>8 DEF Aside

\* send_append_entries_response sends no vote.
LEMMA FixedSendAppendEntriesResponse ==
  ASSUME NEW s, Fixed(s), NEW to \in Node, NEW answer \in {"OK", "FAIL"},
         NEW rejected, rejected = <<>> \/ rejected \in Nat \X Nat
  PROVE  Aside(s, send_append_entries_response(s, to, answer, rejected))
<1>1. WellFormed(s)
  BY DEF Fixed
<1>2. PICK m \in AppendEntriesResponse :
        send_append_entries_response(s, to, answer, rejected) = send(s, to, m)
  BY <1>1, ResponseMessage
<1>3. m \in NoVoteMessage /\ m \in Message
  BY MessageSets DEF NoVoteMessage
<1> QED BY <1>2, <1>3, FixedSend

\* send_request_vote asks for votes and gives none.
LEMMA FixedSendRequestVote ==
  ASSUME NEW s, Fixed(s), NEW peers \in SUBSET Node
  PROVE  Aside(s, send_request_vote(s, peers))
<1> DEFINE rv == [type |-> "RequestVote", term |-> s.current_view,
                  last_committable_idx |-> last_committable_index(s),
                  term_of_last_committable_idx |->
                    get_term_internal(s, last_committable_index(s))]
           new_out == [p \in Node |-> IF p \in peers THEN Append(s.out[p], rv)
                                      ELSE s.out[p]]
           t == [s EXCEPT !.out = new_out]
<1>1. /\ s \in NodeState /\ WellFormed(s) /\ s.current_view \in Nat
      /\ s.commit_idx \in Nat /\ last_idx(s) \in Nat
      /\ s.out \in [Node -> Seq(NoVoteMessage)]
  BY Fields DEF Fixed, WellFormed
<1>2. last_committable_index(s) \in Nat
  BY <1>1, LastCommittable
<1>3. get_term_internal(s, last_committable_index(s)) \in Nat
  BY <1>1, <1>2, TermType
<1>4. rv \in NoVoteMessage
  <2>1. rv \in RequestVote
    BY <1>1, <1>2, <1>3 DEF RequestVote
  <2> HIDE DEF rv
  <2> QED BY <2>1 DEF NoVoteMessage
<1>5. send_request_vote(s, peers) = t
  BY DEF send_request_vote
<1> HIDE DEF rv
<1>6. new_out \in [Node -> Seq(NoVoteMessage)]
  BY <1>1, <1>4
<1>7. t \in NodeState /\ SameLog(s, t)
  <2>1. /\ send_request_vote(s, peers) \in NodeState
        /\ SameLog(s, send_request_vote(s, peers))
    BY <1>1, SendRequestVote
  <2> HIDE DEF t
  <2> QED BY <1>5, <2>1
<1> HIDE DEF new_out
<1>8. /\ SameConfiguration(s, t) /\ SameVotes(s, t) /\ SameLeadership(s, t)
      /\ t.out = new_out
  BY <1>1, ZenonT(40) DEF NodeState, SameConfiguration, SameVotes, SameLeadership
<1> HIDE DEF t
<1>9. Fixed(t)
  BY <1>6, <1>7, <1>8, FixedSameLog
<1> QED BY <1>5, <1>8, <1>9 DEF Aside

\* create_and_remove_node_state, called with the configurations there are, sends
\* nothing.
LEMMA FixedCreateAndRemove ==
  ASSUME NEW n, NEW s \in NodeState
  PROVE  LET t == create_and_remove_node_state(n, s, s.configurations)
         IN  /\ SameVotes(s, t) /\ SameLeadership(s, t) /\ SameConfiguration(s, t)
             /\ t.ledger = s.ledger /\ t.out = s.out
<1> DEFINE s1 == [s EXCEPT !.configurations = s.configurations]
           added == nodes(n, s1) \ nodes(n, s)
           peers == nodes(n, s1) \ added
           sent == [p \in Node |-> IF p \in peers THEN s1.sent_idx[p] ELSE 0]
           match == [p \in Node |-> IF p \in peers THEN s1.match_idx[p] ELSE 0]
           s2 == [s1 EXCEPT !.sent_idx = sent, !.match_idx = match]
           start == [p \in Node |-> last_idx(s) + 1]
           new_out == [p \in Node |-> IF p \in added
                                      THEN s2.out[p] \o append_entries_from(s2, start[p])
                                      ELSE s2.out[p]]
           new_sent == [p \in Node |-> IF p \in added THEN last_idx(s2)
                                       ELSE s2.sent_idx[p]]
           t == [s2 EXCEPT !.out = new_out, !.sent_idx = new_sent]
<1>1. s1 = s
  BY ZenonT(40) DEF NodeState
<1>2. create_and_remove_node_state(n, s, s.configurations) =
        IF s.leadership_state = "Leader" THEN t ELSE s1
  BY DEF create_and_remove_node_state, send_append_entries
<1>3. added = {}
  BY <1>1
<1> HIDE DEF s1, added, peers
<1>4. s2.out = s.out /\ s.out \in [Node -> Seq(Message)]
  <2> HIDE DEF sent, match
  <2> QED BY <1>1, Fields DEF NodeState
<1>5. new_out = s.out
  <2> HIDE DEF s2
  <2> QED BY <1>3, <1>4
<1> HIDE DEF sent, match, new_out, new_sent
<1>6. /\ SameVotes(s, t) /\ SameLeadership(s, t) /\ SameConfiguration(s, t)
      /\ t.ledger = s.ledger /\ t.out = new_out
  BY <1>1 DEF NodeState, SameConfiguration, SameVotes, SameLeadership
<1>7. SameVotes(s, s) /\ SameLeadership(s, s) /\ SameConfiguration(s, s)
  BY DEF SameConfiguration, SameVotes, SameLeadership
<1> HIDE DEF t
<1> QED BY <1>1, <1>2, <1>5, <1>6, <1>7

\* rollback to an index after the configuration keeps it, and no node retires.
LEMMA FixedRollback ==
  ASSUME NEW n, NEW s, Fixed(s), NEW idx \in 0 .. last_idx(s)
  PROVE  Aside(s, rollback(n, s, idx))
<1> DEFINE log == SubSeq(s.ledger, 1, idx)
           views == rollback_views(s.view_history, idx)
           sigs == {i \in s.committable_indices : i <= idx}
           s1 == [s EXCEPT !.ledger = log, !.view_history = views,
                           !.committable_indices = sigs]
           t == create_and_remove_node_state(n, s1, s.configurations)
<1>1. /\ s \in NodeState /\ WellFormed(s) /\ s.commit_idx \in Nat /\ s.commit_idx >= 1
      /\ last_idx(s) \in Nat /\ s.ledger \in Seq(FixedEntry)
      /\ s.view_history \in Seq(Nat) /\ s.committable_indices \in SUBSET Nat
      /\ s.configurations = {FixedConfiguration} /\ s.membership_state = "Active"
  BY Fields DEF Fixed, WellFormed
<1>2. CASE idx < s.commit_idx
  <2>1. rollback(n, s, idx) = s
    BY <1>2 DEF rollback
  <2> QED BY <2>1 DEF Aside, SameVotes, SameLeadership
<1>3. CASE ~ (idx < s.commit_idx)
  <2>1. {c \in s.configurations : c.idx <= idx} = s.configurations
    BY <1>1, <1>3 DEF FixedConfiguration
  <2>2. rollback_retirement(s, idx) = s
    BY <1>1 DEF rollback_retirement, is_retired
  <2>3. rollback(n, s, idx) = t
    BY <1>3, <2>1, <2>2 DEF rollback
  <2>4. log \in Seq(FixedEntry) /\ log \in Seq(Entry)
    <3>1. \A i \in 1 .. idx : s.ledger[i] \in FixedEntry
      BY <1>1, ElementOfSeq DEF last_idx
    <3>2. log \in Seq(FixedEntry)
      BY <1>1, <3>1, SubSeqProperties
    <3>3. FixedEntry \subseteq Entry
      BY DEF FixedEntry
    <3> QED BY <3>2, <3>3, SeqMonotonic
  <2>5. views \in Seq(Nat)
    <3>1. SortedWithin(s.view_history, last_idx(s))
      BY <1>1 DEF WellFormed, well_indexed
    <3> QED BY <1>1, <3>1, RollbackSorted
  <2>6. sigs \in SUBSET Nat
    BY <1>1
  <2> HIDE DEF log, views, sigs
  <2>7. s1 \in NodeState
    BY <1>1, <2>4, <2>5, <2>6, ZenonT(40) DEF NodeState
  <2>8. /\ SameVotes(s, s1) /\ SameLeadership(s, s1) /\ SameConfiguration(s, s1)
        /\ s1.ledger = log /\ s1.out = s.out /\ s1.configurations = s.configurations
    BY <1>1 DEF NodeState, SameConfiguration, SameVotes, SameLeadership
  <2> HIDE DEF s1
  <2>9. t = create_and_remove_node_state(n, s1, s1.configurations)
    BY <2>8
  <2> HIDE DEF t
  <2>10. /\ SameVotes(s1, t) /\ SameLeadership(s1, t) /\ SameConfiguration(s1, t)
         /\ t.ledger = s1.ledger /\ t.out = s1.out
    BY <2>7, <2>9, FixedCreateAndRemove
  <2>11. SameVotes(s, t) /\ SameLeadership(s, t) /\ SameConfiguration(s, t)
    BY <2>8, <2>10 DEF SameConfiguration, SameVotes, SameLeadership
  <2>12. t.ledger \in Seq(FixedEntry) /\ t.out \in [Node -> Seq(NoVoteMessage)]
    BY <2>4, <2>8, <2>10 DEF Fixed
  <2>13. Step(s, t)
    BY <1>1, <2>3, Rollback
  <2>14. Fixed(t)
    BY <2>11, <2>12, <2>13, FixedStep
  <2> QED BY <2>3, <2>11, <2>14 DEF Aside
<1> QED BY <1>2, <1>3

\* commit drops no configuration if there is only one.
LEMMA FixedCommit ==
  ASSUME NEW n, NEW s, Fixed(s), NEW idx \in 0 .. last_idx(s),
         \A i \in s.committable_indices : i > idx
  PROVE  Aside(s, commit(n, s, idx))
<1> DEFINE s1 == [s EXCEPT !.commit_idx = idx]
           superseded(c) == \E d \in s.configurations : c.idx < d.idx /\ d.idx <= idx
           configs == {c \in s.configurations : ~ superseded(c)}
           t == create_and_remove_node_state(n, s1, s.configurations)
<1>1. /\ s \in NodeState /\ WellFormed(s) /\ last_idx(s) \in Nat
      /\ s.configurations = {FixedConfiguration} /\ s.membership_state = "Active"
      /\ s.ledger \in Seq(FixedEntry)
  BY Fields DEF Fixed, WellFormed
<1>2. configs = s.configurations
  BY <1>1 DEF FixedConfiguration
<1>3. commit(n, s, idx) = IF idx <= s.commit_idx THEN s ELSE t
  BY <1>1, <1>2 DEF commit, is_retired
<1>4. idx \in Nat
  BY <1>1
<1>5. s1 \in NodeState
  BY <1>1, <1>4, ZenonT(40) DEF NodeState
<1>6. /\ SameVotes(s, s1) /\ SameLeadership(s, s1) /\ SameConfiguration(s, s1)
      /\ s1.out = s.out /\ s1.configurations = s.configurations
  BY <1>1 DEF NodeState, SameConfiguration, SameVotes, SameLeadership
<1> HIDE DEF s1, configs
<1>7. t = create_and_remove_node_state(n, s1, s1.configurations)
  BY <1>6
<1> HIDE DEF t
<1>8. /\ SameVotes(s1, t) /\ SameLeadership(s1, t) /\ SameConfiguration(s1, t)
      /\ t.out = s1.out
  BY <1>5, <1>7, FixedCreateAndRemove
<1>9. SameVotes(s, t) /\ SameLeadership(s, t) /\ SameConfiguration(s, t)
  BY <1>6, <1>8 DEF SameConfiguration, SameVotes, SameLeadership
<1>10. CASE commit(n, s, idx) = s
  BY <1>10 DEF Aside, SameVotes, SameLeadership
<1>11. CASE commit(n, s, idx) = t
  <2>1. Step(s, t) /\ t.ledger = s.ledger
    BY <1>1, <1>11, Commit
  <2>2. t.out \in [Node -> Seq(NoVoteMessage)]
    BY <1>6, <1>8 DEF Fixed
  <2>3. Fixed(t)
    BY <1>1, <1>9, <2>1, <2>2, FixedStep
  <2> QED BY <1>9, <1>11, <2>3 DEF Aside
<1> QED BY <1>3, <1>10, <1>11

\* commit_if_possible is not about an election.
LEMMA FixedCommitIfPossible ==
  ASSUME NEW n, NEW s, Fixed(s), NEW idx \in Nat
  PROVE  Aside(s, commit_if_possible(n, s, idx))
<1> DEFINE ready == {i \in s.committable_indices : i <= idx}
           rest == s.committable_indices \ ready
           s1 == [s EXCEPT !.committable_indices = rest]
           t == commit(n, s1, Max(ready))
<1>1. /\ s \in NodeState /\ WellFormed(s) /\ last_idx(s) \in Nat
      /\ s.commit_idx \in Nat /\ s.committable_indices \in SUBSET Nat
      /\ s.ledger \in Seq(FixedEntry) /\ s.out \in [Node -> Seq(NoVoteMessage)]
  BY Fields DEF Fixed, WellFormed
<1>2. \A i \in s.committable_indices :
         i \in s.commit_idx + 1 .. last_idx(s) /\ s.ledger[i].type = "sig"
  BY <1>1 DEF WellFormed, well_indexed
<1>3. rest \in SUBSET Nat /\ ready \in SUBSET (0 .. last_idx(s))
  <2>1. \A i \in s.committable_indices : i \in 0 .. last_idx(s)
    BY <1>1, <1>2
  <2> QED BY <1>1, <2>1
<1>4. \/ commit_if_possible(n, s, idx) = s
      \/ commit_if_possible(n, s, idx) = t /\ ready # {}
  BY DEF commit_if_possible
<1>5. ASSUME ready # {} PROVE Aside(s, t)
  <2>1. s1 \in NodeState /\ s1.committable_indices = rest
        /\ s1.ledger = s.ledger /\ s1.commit_idx = s.commit_idx
        /\ s1.view_history = s.view_history /\ s1.out = s.out
    <3> HIDE DEF rest
    <3> QED BY <1>1, <1>3, ZenonT(40) DEF NodeState
  <2>2. SameVotes(s, s1) /\ SameLeadership(s, s1) /\ SameConfiguration(s, s1)
    <3> HIDE DEF rest
    <3> QED BY <1>1 DEF NodeState, SameConfiguration, SameVotes, SameLeadership
  <2> HIDE DEF s1
  <2>3. last_idx(s1) = last_idx(s)
    BY <2>1 DEF last_idx
  <2>4. rest \subseteq s.committable_indices
    OBVIOUS
  <2>5. WellFormed(s1)
    <3> HIDE DEF rest
    <3> QED BY <1>1, <1>2, <2>1, <2>3, <2>4 DEF WellFormed, well_indexed
  <2>6. Fixed(s1)
    BY <1>1, <2>1, <2>2, <2>5 DEF Fixed, SameConfiguration
  <2>7. Max(ready) \in ready /\ \A y \in ready : y <= Max(ready)
    <3> HIDE DEF ready
    <3> QED BY <1>1, <1>3, <1>5, MaxElement
  <2>8. Max(ready) \in 0 .. last_idx(s1)
    BY <1>3, <2>3, <2>7
  <2>9. \A i \in s1.committable_indices : i > Max(ready)
    <3> SUFFICES ASSUME NEW i \in rest PROVE i > Max(ready)
      BY <2>1
    <3>1. i \in Nat /\ i > idx
      BY <1>1
    <3>2. Max(ready) \in Nat /\ Max(ready) <= idx
      BY <1>1, <2>7
    <3> HIDE DEF ready, rest
    <3> QED BY <3>1, <3>2
  <2> HIDE DEF ready
  <2>10. Aside(s1, t)
    BY <2>6, <2>8, <2>9, FixedCommit
  <2> QED BY <2>2, <2>10 DEF Aside, SameVotes, SameLeadership
<1> HIDE DEF t, ready
<1>6. Aside(s, s)
  BY DEF Aside, SameVotes, SameLeadership
<1> QED BY <1>4, <1>5, <1>6

\* update_commit is not about an election.
LEMMA FixedUpdateCommit ==
  ASSUME NEW n, NEW s, Fixed(s)
  PROVE  Aside(s, update_commit(n, s))
<1>1. WellFormed(s) /\ Aside(s, s)
  BY DEF Fixed, Aside, SameVotes, SameLeadership
<1> QED BY <1>1, Watermark, FixedCommitIfPossible

\* add_configuration has nothing to do for the configuration there is.
LEMMA FixedAddConfiguration ==
  ASSUME NEW n \in Node, NEW s, s.configurations = {FixedConfiguration}, NEW idx
  PROVE  add_configuration(n, s, idx, Node) = s
<1>1. latest_config(s) = FixedConfiguration
  BY DEF latest_config, FixedConfiguration
<1>2. latest_config(s).nodes = Node
  BY <1>1 DEF FixedConfiguration
<1> QED BY <1>2 DEF add_configuration

\* The peers of a node are all others.
LEMMA FixedNodes ==
  ASSUME NEW n \in Node, NEW s, s.configurations = {FixedConfiguration}
  PROVE  nodes(n, s) = Node \ {n}
<1>1. FixedConfiguration.nodes = Node
  BY DEF FixedConfiguration
<1>2. UNION {c.nodes : c \in s.configurations} = Node
  BY <1>1
<1> QED BY <1>2 DEF nodes

-----------------------------------------------------------------------------
(* Leadership *)

\* become_follower keeps the vote and the votes received.
LEMMA FixedBecomeFollower ==
  ASSUME NEW n, NEW s, Fixed(s)
  PROVE  LET t == become_follower(n, s)
         IN  Fixed(t) /\ SameVotes(s, t) /\ t.leadership_state = "Follower"
<1> DEFINE s0 == [s EXCEPT !.leader_id = Nil]
           s1 == rollback(n, s0, last_committable_index(s))
           s2 == [s1 EXCEPT !.leadership_state = "Follower",
                            !.sent_idx = no_index, !.match_idx = no_index]
<1>1. /\ s \in NodeState /\ WellFormed(s) /\ last_idx(s) \in Nat
      /\ s.commit_idx \in Nat
  BY Fields DEF Fixed, WellFormed
<1>2. /\ s0 \in NodeState /\ SameLog(s, s0) /\ SameConfiguration(s, s0)
      /\ SameVotes(s, s0) /\ s0.out = s.out
  BY <1>1, ZenonT(40) DEF NodeState, SameLog, SameConfiguration, SameVotes
<1> HIDE DEF s0
<1>3. Fixed(s0)
  <2>1. s0.out \in [Node -> Seq(NoVoteMessage)]
    BY <1>2 DEF Fixed
  <2> QED BY <1>2, <2>1, FixedSameLog
<1>4. last_committable_index(s) \in 0 .. last_idx(s0)
  <2>1. last_committable_index(s) \in s.commit_idx .. last_idx(s)
    BY <1>1, LastCommittable
  <2>2. last_idx(s0) = last_idx(s)
    BY <1>2 DEF SameLog, last_idx
  <2> QED BY <1>1, <2>1, <2>2
<1>5. Aside(s0, s1)
  BY <1>3, <1>4, FixedRollback
<1>6. become_follower(n, s) = IF can_endorse_primary(s1) THEN s2 ELSE s1
  BY DEF become_follower, s0
<1> HIDE DEF s1
<1>7. Fixed(s1) /\ s1 \in NodeState /\ s1.membership_state = "Active"
  BY <1>5 DEF Aside, Fixed, WellFormed
<1>8. become_follower(n, s) = s2
  BY <1>6, <1>7 DEF can_endorse_primary, is_retired
<1>9. /\ s2 \in NodeState /\ SameLog(s1, s2) /\ SameConfiguration(s1, s2)
      /\ SameVotes(s1, s2) /\ s2.out = s1.out /\ s2.leadership_state = "Follower"
  <2>1. no_index \in [Node -> Nat]
    BY DEF no_index
  <2> QED BY <1>7, <2>1, ZenonT(40) DEF NodeState, SameLog, SameConfiguration, SameVotes
<1> HIDE DEF s2
<1>10. Fixed(s2)
  <2>1. s2.out \in [Node -> Seq(NoVoteMessage)]
    BY <1>7, <1>9 DEF Fixed
  <2> QED BY <1>7, <1>9, <2>1, FixedSameLog
<1>11. SameVotes(s, s2)
  BY <1>2, <1>5, <1>9 DEF Aside, SameVotes
<1> QED BY <1>8, <1>9, <1>10, <1>11

\* become_aware_of_new_term forgets the vote and the votes received.
LEMMA FixedBecomeAware ==
  ASSUME NEW n, NEW s, Fixed(s), NEW term \in Nat
  PROVE  LET t == become_aware_of_new_term(n, s, term)
         IN  /\ Fixed(t) /\ t.current_view = term /\ t.voted_for = Nil
             /\ t.votes_for_me = {} /\ t.leadership_state = "Follower"
<1> DEFINE s0 == [s EXCEPT !.current_view = term, !.voted_for = Nil,
                           !.votes_for_me = {}]
           s1 == become_follower(n, s0)
           s2 == [s1 EXCEPT !.is_new_follower = TRUE]
<1>1. s \in NodeState /\ WellFormed(s)
  BY DEF Fixed, WellFormed
<1>2. /\ s0 \in NodeState /\ SameLog(s, s0) /\ SameConfiguration(s, s0)
      /\ s0.current_view = term /\ s0.voted_for = Nil /\ s0.votes_for_me = {}
      /\ s0.out = s.out
  BY <1>1, ZenonT(40) DEF NodeState, SameLog, SameConfiguration
<1> HIDE DEF s0
<1>3. Fixed(s0)
  <2>1. s0.out \in [Node -> Seq(NoVoteMessage)]
    BY <1>2 DEF Fixed
  <2> QED BY <1>2, <2>1, FixedSameLog
<1>4. Fixed(s1) /\ SameVotes(s0, s1) /\ s1.leadership_state = "Follower"
  BY <1>3, FixedBecomeFollower
<1> HIDE DEF s1
<1>5. /\ s2 \in NodeState /\ SameLog(s1, s2) /\ SameConfiguration(s1, s2)
      /\ SameVotes(s1, s2) /\ SameLeadership(s1, s2) /\ s2.out = s1.out
  <2>1. s1 \in NodeState /\ TRUE \in BOOLEAN
    BY <1>4 DEF Fixed, WellFormed
  <2> QED BY <2>1, ZenonT(40)
          DEF NodeState, SameLog, SameConfiguration, SameVotes, SameLeadership
<1>6. become_aware_of_new_term(n, s, term) = s2
  BY DEF become_aware_of_new_term, s0, s1
<1> HIDE DEF s2
<1>7. Fixed(s2)
  <2>1. s2.out \in [Node -> Seq(NoVoteMessage)]
    BY <1>4, <1>5 DEF Fixed
  <2> QED BY <1>4, <1>5, <2>1, FixedSameLog
<1> QED BY <1>2, <1>4, <1>5, <1>6, <1>7 DEF SameVotes, SameLeadership

\* become_leader keeps the vote and the votes received.
LEMMA FixedBecomeLeader ==
  ASSUME NEW n \in Node, NEW s, Fixed(s)
  PROVE  LET t == become_leader(n, s)
         IN  Fixed(t) /\ SameVotes(s, t) /\ t.leadership_state = "Leader"
<1> DEFINE s1 == [s EXCEPT !.committable_indices = {}]
           s2 == rollback(n, s1, last_committable_index(s))
           s3 == [s2 EXCEPT !.leadership_state = "Leader", !.leader_id = n,
                            !.match_idx = no_index]
           start == [p \in Node |-> last_idx(s3) + 1]
           t1 == commit(n, s3, last_idx(s3))
           t2 == send_append_entries(s3, nodes(n, s3), start)
<1>1. /\ s \in NodeState /\ WellFormed(s) /\ last_idx(s) \in Nat
      /\ s.commit_idx \in Nat /\ s.commit_idx >= 1
      /\ s.ledger \in Seq(FixedEntry) /\ s.out \in [Node -> Seq(NoVoteMessage)]
      /\ s.membership_state = "Active" /\ s.configurations = {FixedConfiguration}
  BY Fields DEF Fixed, WellFormed
<1>2. become_leader(n, s) = IF nodes(n, s3) = {} THEN t1 ELSE t2
  <2>1. s.commit_idx > 0 /\ ~ is_retired(s)
    BY <1>1 DEF is_retired
  <2>2. become_leader(n, s) =
          LET u2 == IF s.commit_idx > 0 THEN s2 ELSE s1
              u3 == [u2 EXCEPT !.leadership_state = "Leader", !.leader_id = n,
                               !.match_idx = no_index]
          IN  IF is_retired(s) THEN s
              ELSE IF nodes(n, u3) = {} THEN commit(n, u3, last_idx(u3))
              ELSE send_append_entries(u3, nodes(n, u3),
                                       [p \in Node |-> last_idx(u3) + 1])
    BY DEF become_leader
  <2> HIDE DEF s1, s2
  <2> QED BY <2>1, <2>2
<1>3. /\ s1 \in NodeState /\ s1.committable_indices = {} /\ s1.ledger = s.ledger
      /\ s1.commit_idx = s.commit_idx /\ s1.view_history = s.view_history
      /\ s1.out = s.out
  BY <1>1, ZenonT(40) DEF NodeState
<1>4. SameVotes(s, s1) /\ SameConfiguration(s, s1)
  BY <1>1, ZenonT(40) DEF NodeState, SameVotes, SameConfiguration
<1> HIDE DEF s1
<1>5. Fixed(s1) /\ last_idx(s1) = last_idx(s) /\ WellFormed(s1)
  <2>1. last_idx(s1) = last_idx(s)
    BY <1>3 DEF last_idx
  <2>2. WellFormed(s1)
    BY <1>1, <1>3, <2>1 DEF WellFormed, well_indexed
  <2> QED BY <1>1, <1>3, <1>4, <2>1, <2>2 DEF Fixed, SameConfiguration
<1>6. last_committable_index(s) \in 0 .. last_idx(s1)
  <2>1. last_committable_index(s) \in s.commit_idx .. last_idx(s)
    BY <1>1, LastCommittable
  <2> QED BY <1>1, <1>5, <2>1
<1>7. Aside(s1, s2) /\ s2.committable_indices = {}
  <2>1. s2.committable_indices \subseteq s1.committable_indices
    BY <1>5, <1>6, Rollback
  <2>2. Aside(s1, s2)
    BY <1>5, <1>6, FixedRollback
  <2> HIDE DEF s2
  <2> QED BY <1>3, <2>1, <2>2
<1> HIDE DEF s2
<1>8. /\ s3 \in NodeState /\ SameLog(s2, s3) /\ SameConfiguration(s2, s3)
      /\ SameVotes(s2, s3) /\ s3.out = s2.out /\ s3.leadership_state = "Leader"
  <2>1. s2 \in NodeState /\ no_index \in [Node -> Nat] /\ n \in Node \union {Nil}
    BY <1>7 DEF Aside, Fixed, WellFormed, no_index
  <2> QED BY <2>1, ZenonT(40) DEF NodeState, SameLog, SameConfiguration, SameVotes
<1> HIDE DEF s3
<1>9. Fixed(s3) /\ s3.committable_indices = {}
  <2>1. Fixed(s2) /\ s3.out \in [Node -> Seq(NoVoteMessage)]
    BY <1>7, <1>8 DEF Aside, Fixed
  <2>2. Fixed(s3)
    BY <1>8, <2>1, FixedSameLog
  <2> QED BY <1>7, <1>8, <2>2 DEF SameLog
<1>10. last_idx(s3) \in Nat /\ s3 \in NodeState
  BY <1>9, Fields DEF Fixed, WellFormed
<1>11. Aside(s3, t1)
  <2>1. last_idx(s3) \in 0 .. last_idx(s3)
    BY <1>10
  <2> QED BY <1>9, <2>1, FixedCommit
<1>12. Aside(s3, t2)
  <2>1. nodes(n, s3) \in SUBSET Node
    BY <1>10, Fields, NodesType
  <2>2. \A p \in nodes(n, s3) : start[p] \in Nat \ {0}
    BY <1>10, <2>1
  <2> HIDE DEF start
  <2> QED BY <1>9, <2>1, <2>2, FixedSendAppendEntries
<1>13. SameVotes(s, s3)
  BY <1>4, <1>7, <1>8 DEF Aside, SameVotes
<1> DEFINE t == become_leader(n, s)
<1>14. Aside(s3, t)
  <2> HIDE DEF t1, t2
  <2> QED BY <1>2, <1>11, <1>12
<1> HIDE DEF t
<1>15. Fixed(t) /\ SameVotes(s, t) /\ t.leadership_state = "Leader"
  BY <1>8, <1>13, <1>14 DEF Aside, SameVotes, SameLeadership
<1> QED BY <1>15 DEF t

Majority(V) == Cardinality(V) >= get_quorum(Cardinality(Node))

\* add_vote_for_me counts the vote, and makes a leader only of a node with a
\* majority of votes.
LEMMA FixedAddVote ==
  ASSUME NEW n \in Node, NEW s, Fixed(s), NEW from \in Node
  PROVE  LET t == add_vote_for_me(n, s, from)
         IN  /\ Fixed(t) /\ t.current_view = s.current_view
             /\ t.voted_for = s.voted_for
             /\ t.votes_for_me = s.votes_for_me \union {from}
             /\ \/ SameLeadership(s, t)
                \/ t.leadership_state = "Leader" /\ Majority(t.votes_for_me)
<1> DEFINE votes == s.votes_for_me \union {from}
           s1 == [s EXCEPT !.votes_for_me = votes]
           t == add_vote_for_me(n, s, from)
<1>1. /\ s \in NodeState /\ votes \in SUBSET Node
      /\ s.configurations = {FixedConfiguration}
  BY Fields DEF Fixed, WellFormed
<1>2. Cardinality(nodes(n, s)) + 1 = Cardinality(Node)
  <2>1. nodes(n, s) = Node \ {n}
    BY <1>1, FixedNodes
  <2>2. IsFiniteSet(Node)
    BY ConstantsAssumption
  <2>3. Cardinality(Node \ {n}) = Cardinality(Node) - 1 /\ Cardinality(Node) \in Nat
    BY <2>2, FS_RemoveElement, FS_CardinalityType
  <2> QED BY <2>1, <2>3
<1>3. s1.votes_for_me = votes
  BY <1>1 DEF NodeState
<1>4. t = IF Majority(votes) THEN become_leader(n, s1) ELSE s1
  <2>1. t = IF Cardinality(s1.votes_for_me) >= get_quorum(Cardinality(nodes(n, s)) + 1)
            THEN become_leader(n, s1) ELSE s1
    BY DEF add_vote_for_me
  <2> HIDE DEF s1, votes, t
  <2> QED BY <1>2, <1>3, <2>1 DEF Majority
<1>5. /\ s1 \in NodeState /\ SameLog(s, s1) /\ SameConfiguration(s, s1)
      /\ s1.current_view = s.current_view /\ s1.voted_for = s.voted_for
      /\ SameLeadership(s, s1) /\ s1.out = s.out
  <2> HIDE DEF votes
  <2> QED BY <1>1, ZenonT(40) DEF NodeState, SameLog, SameConfiguration, SameLeadership
<1> HIDE DEF s1, t, votes
<1>6. Fixed(s1)
  <2>1. s1.out \in [Node -> Seq(NoVoteMessage)]
    BY <1>5 DEF Fixed
  <2> QED BY <1>5, <2>1, FixedSameLog
<1> DEFINE u == become_leader(n, s1)
<1>7. Fixed(u) /\ SameVotes(s1, u) /\ u.leadership_state = "Leader"
  BY <1>6, FixedBecomeLeader
<1> HIDE DEF u
<1>8. /\ Fixed(t) /\ t.current_view = s.current_view
      /\ t.voted_for = s.voted_for /\ t.votes_for_me = votes
      /\ \/ SameLeadership(s, t)
         \/ t.leadership_state = "Leader" /\ Majority(t.votes_for_me)
  <2>1. CASE Majority(votes)
    <3>1. t = u
      BY <1>4, <2>1 DEF u
    <3> QED BY <1>3, <1>5, <1>7, <2>1, <3>1 DEF SameVotes
  <2>2. CASE ~ Majority(votes)
    <3>1. t = s1
      BY <1>4, <2>2
    <3> QED BY <1>3, <1>5, <1>6, <3>1
  <2> QED BY <2>1, <2>2
<1> QED BY <1>8 DEF t, votes

\* become_candidate enters the next view with a vote for itself.
LEMMA FixedBecomeCandidate ==
  ASSUME NEW n \in Node, NEW s, Fixed(s)
  PROVE  LET t == become_candidate(n, s)
         IN  /\ Fixed(t) /\ t.current_view = s.current_view + 1
             /\ t.voted_for = n /\ t.votes_for_me = {n}
             /\ \/ t.leadership_state = "Candidate"
                \/ t.leadership_state = "Leader" /\ Majority(t.votes_for_me)
<1> DEFINE view == s.current_view + 1
           s0 == [s EXCEPT !.leadership_state = "Candidate", !.leader_id = Nil]
           s1 == [s0 EXCEPT !.voted_for = n, !.votes_for_me = {},
                            !.current_view = view]
           s2 == add_vote_for_me(n, s1, n)
           t == send_request_vote(s2, nodes(n, s))
<1>1. /\ s \in NodeState /\ view \in Nat /\ n \in Node \union {Nil}
      /\ nodes(n, s) \in SUBSET Node
  <2>1. s \in NodeState
    BY DEF Fixed, WellFormed
  <2>2. s.current_view \in Nat /\ s.configurations \in SUBSET Configuration
    BY <2>1, Fields
  <2> QED BY <2>1, <2>2, NodesType
<1>2. become_candidate(n, s) = t
  BY DEF become_candidate
<1> HIDE DEF view
<1>3. /\ s0 \in NodeState /\ SameLog(s, s0) /\ SameConfiguration(s, s0)
      /\ s0.leadership_state = "Candidate" /\ s0.out = s.out
  BY <1>1, ZenonT(40) DEF NodeState, SameLog, SameConfiguration
<1> HIDE DEF s0
<1>4. /\ s1 \in NodeState /\ SameLog(s0, s1) /\ SameConfiguration(s0, s1)
      /\ SameLeadership(s0, s1) /\ s1.out = s0.out
      /\ s1.voted_for = n /\ s1.votes_for_me = {} /\ s1.current_view = view
  BY <1>1, <1>3, ZenonT(40) DEF NodeState, SameLog, SameConfiguration, SameLeadership
<1> HIDE DEF s1
<1>5. Fixed(s1)
  <2>1. SameLog(s, s1) /\ SameConfiguration(s, s1)
    BY <1>3, <1>4 DEF SameLog, SameConfiguration
  <2>2. s1.out \in [Node -> Seq(NoVoteMessage)]
    BY <1>3, <1>4 DEF Fixed
  <2> QED BY <1>4, <2>1, <2>2, FixedSameLog
<1>6. /\ Fixed(s2) /\ s2.current_view = s1.current_view
      /\ s2.voted_for = s1.voted_for /\ s2.votes_for_me = s1.votes_for_me \union {n}
      /\ \/ SameLeadership(s1, s2)
         \/ s2.leadership_state = "Leader" /\ Majority(s2.votes_for_me)
  BY <1>5, FixedAddVote
<1> HIDE DEF s2
<1>7. Aside(s2, t)
  BY <1>1, <1>6, FixedSendRequestVote
<1> HIDE DEF t
<1> QED BY <1>2, <1>3, <1>4, <1>6, <1>7
        DEF Aside, SameVotes, SameLeadership, view

-----------------------------------------------------------------------------
(* Append entries *)

\* Nothing that an election reads is touched, and nothing is sent.
Frame(s, t) ==
  /\ t.configurations = s.configurations
  /\ t.membership_state = s.membership_state
  /\ t.current_view = s.current_view /\ t.voted_for = s.voted_for
  /\ t.votes_for_me = s.votes_for_me
  /\ t.leadership_state = s.leadership_state
  /\ t.out = s.out

\* A method that touches nothing but the log.
LEMMA AsideStep ==
  ASSUME NEW s, NEW t, Fixed(s), Step(s, t), t.ledger \in Seq(FixedEntry),
         Frame(s, t)
  PROVE  Aside(s, t)
<1>1. /\ SameConfiguration(s, t) /\ SameVotes(s, t) /\ SameLeadership(s, t)
      /\ t.out \in [Node -> Seq(NoVoteMessage)]
  BY DEF Frame, Fixed, SameConfiguration, SameVotes, SameLeadership
<1>2. Fixed(t)
  BY <1>1, FixedStep
<1> QED BY <1>1, <1>2 DEF Aside

\* A method that touches neither the log nor what an election reads.
LEMMA AsideSameLog ==
  ASSUME NEW s, NEW t, Fixed(s), t \in NodeState, SameLog(s, t), Frame(s, t)
  PROVE  Aside(s, t)
<1>1. Step(s, t)
  BY SameLogStep DEF Fixed
<1>2. t.ledger \in Seq(FixedEntry)
  BY DEF SameLog, Fixed
<1> QED BY <1>1, <1>2, AsideStep

\* Doing nothing is not about an election.
LEMMA AsideReflexive ==
  ASSUME NEW s, Fixed(s)
  PROVE  Aside(s, s)
BY DEF Aside, SameVotes, SameLeadership

\* An iteration of execute_append_entries_sync is not about an election.
LEMMA FixedExecuteEntry ==
  ASSUME NEW n \in Node, NEW s, Fixed(s), NEW e \in FixedEntry,
         NEW r \in AppendEntries, r.prev_idx <= last_idx(s)
  PROVE  Aside(s, execute_append_entry(n, s, e, r))
<1> DEFINE s1 == [s EXCEPT !.ledger = Append(@, e)]
           i == last_idx(s1)
           s2 == IF e.type = "config" THEN add_configuration(n, s1, i, e.nodes)
                 ELSE s1
           s2t == start_ticking_if_necessary(n, s2)
           s3 == add_committable(s2t, i)
           start == IF r.term_of_idx = InvalidView THEN 1 ELSE r.prev_idx + 1
           term == IF r.term_of_idx = InvalidView THEN r.term ELSE e.term
           s4 == [s3 EXCEPT !.view_history = update(@, start, term)]
           failed == [s EXCEPT !.apply = "FAIL"]
           thrown == [s3 EXCEPT !.apply = "throw"]
           done == commit_if_possible(n, s4, r.leader_commit_idx)
<1>1. /\ s \in NodeState /\ WellFormed(s) /\ last_idx(s) \in Nat
      /\ s.commit_idx \in Nat /\ s.ledger \in Seq(FixedEntry)
  BY Fields DEF Fixed, WellFormed
<1>2. /\ e \in Entry /\ (e.type = "config" => e.nodes = Node) /\ e.term \in Nat
      /\ r.prev_idx \in Nat /\ r.term \in Nat /\ r.leader_commit_idx \in Nat
  BY DEF FixedEntry, Entry, AppendEntries
<1>3. execute_append_entry(n, s, e, r) \in {s, failed, s2, thrown, done}
      /\ (e.type # "sig" => execute_append_entry(n, s, e, r) \in {s, failed, s2})
  <2>1. execute_append_entry(n, s, e, r) =
          IF s.apply # "PASS" THEN s
          ELSE IF e.term # r.term_of_idx THEN failed
          ELSE IF e.type # "sig" THEN s2
          ELSE IF update_throws(s3.view_history, start) THEN thrown
          ELSE done
    BY DEF execute_append_entry
  <2> HIDE DEF failed, s2, s3, start, thrown, done
  <2> QED BY <2>1
<1>4. /\ Step(s, s1) /\ i = last_idx(s) + 1 /\ s1.ledger[i] = e
      /\ s1.commit_idx = s.commit_idx
  BY <1>1, <1>2, AppendLedger
<1>5. Aside(s, s1)
  <2> DEFINE log == Append(s.ledger, e)
  <2>1. log \in Seq(FixedEntry)
    BY <1>1
  <2> HIDE DEF log
  <2>2. s1 = [s EXCEPT !.ledger = log]
    BY DEF log
  <2>3. Frame(s, s1) /\ s1.ledger = log
    BY <1>1, <2>2, ZenonT(40) DEF NodeState, Frame
  <2> HIDE DEF s1
  <2> QED BY <1>4, <2>1, <2>3, AsideStep
<1> HIDE DEF s1
<1>6. Fixed(s1) /\ s1 \in NodeState
  BY <1>5 DEF Aside, Fixed, WellFormed
<1>7. s2 = s1
  <2>1. e.type = "config" => add_configuration(n, s1, i, e.nodes) = s1
    BY <1>2, <1>6, FixedAddConfiguration DEF Fixed
  <2> QED BY <2>1
<1> HIDE DEF s2
<1>8. Aside(s, s2t) /\ SameLog(s1, s2t)
  <2> DEFINE v == s1.ticking \/ is_self_in_latest_config(n, s1)
  <2>1. s2t = [s1 EXCEPT !.ticking = v]
    BY <1>7 DEF start_ticking_if_necessary
  <2>2. s2t \in NodeState /\ SameLog(s1, s2t)
    BY <1>6, <1>7, StartTicking
  <2> HIDE DEF v
  <2>3. Frame(s1, s2t)
    BY <1>6, <2>1, ZenonT(40) DEF NodeState, Frame
  <2> HIDE DEF s2t
  <2>4. Aside(s1, s2t)
    BY <1>6, <2>2, <2>3, AsideSameLog
  <2> QED BY <1>5, <2>2, <2>4, AsideTransitive
<1> HIDE DEF s2t
<1>9. /\ Fixed(s2t) /\ s2t \in NodeState /\ WellFormed(s2t) /\ last_idx(s2t) = i
      /\ i \in Nat /\ s2t.ledger[i] = e /\ s2t.commit_idx = s.commit_idx
  BY <1>1, <1>4, <1>8 DEF Aside, Fixed, WellFormed, SameLog, last_idx
<1> HIDE DEF i
<1>10. /\ s3 \in NodeState /\ s3.ledger = s2t.ledger
       /\ s3.commit_idx = s2t.commit_idx /\ s3.view_history = s2t.view_history
       /\ s3.committable_indices = s2t.committable_indices \union {i}
  BY <1>9, AddCommittable
<1>11. Frame(s2t, s3)
  <2> DEFINE sigs == s2t.committable_indices \union {i}
  <2>1. s3 = [s2t EXCEPT !.committable_indices = sigs]
    BY <1>9 DEF add_committable, is_retired, Fixed
  <2> HIDE DEF sigs, s3
  <2> QED BY <1>9, <2>1, ZenonT(40) DEF NodeState, Frame
<1> HIDE DEF s3
<1>12. ASSUME e.type = "sig" PROVE Aside(s, s3)
  <2>1. last_idx(s3) = i
    BY <1>9, <1>10 DEF last_idx
  <2>2. s2t.commit_idx \in Nat /\ i \in s2t.commit_idx + 1 .. i
    BY <1>1, <1>4, <1>9 DEF WellFormed, well_indexed
  <2>3. WellFormed(s3)
    BY <1>9, <1>10, <1>12, <2>1, <2>2 DEF WellFormed, well_indexed
  <2>4. Keeps(s2t, s3)
    BY <1>9, <1>10, <2>1, <2>2 DEF Keeps, WellFormed, well_indexed
  <2>5. Step(s2t, s3) /\ s3.ledger \in Seq(FixedEntry)
    BY <1>9, <1>10, <2>3, <2>4 DEF Step, Fixed
  <2>6. Aside(s2t, s3)
    BY <1>9, <1>11, <2>5, AsideStep
  <2> QED BY <1>8, <2>6, AsideTransitive
<1>13. ASSUME e.type = "sig" PROVE Aside(s, thrown)
  <2>1. thrown \in NodeState /\ SameLog(s3, thrown) /\ Frame(s3, thrown)
    BY <1>10, ZenonT(40) DEF NodeState, SameLog, Frame
  <2> HIDE DEF thrown
  <2>2. Aside(s3, thrown)
    BY <1>12, <1>13, <2>1, AsideSameLog DEF Aside
  <2> QED BY <1>12, <1>13, <2>2, AsideTransitive
<1>14. Aside(s, failed)
  <2>1. failed \in NodeState /\ SameLog(s, failed) /\ Frame(s, failed)
    BY <1>1, ZenonT(40) DEF NodeState, SameLog, Frame
  <2> HIDE DEF failed
  <2> QED BY <2>1, AsideSameLog
<1>15. ASSUME e.type = "sig" PROVE Aside(s, done)
  <2>1. Aside(s, s3) /\ Fixed(s3) /\ WellFormed(s3)
    BY <1>12, <1>15 DEF Aside, Fixed
  <2>2. start \in 1 .. last_idx(s3) + 1 /\ term \in Nat
    <3>1. last_idx(s3) = i
      BY <1>9, <1>10 DEF last_idx
    <3> QED BY <1>1, <1>2, <1>4, <3>1
  <2> HIDE DEF start, term
  <2>3. Step(s3, s4) /\ s4.ledger = s3.ledger
    BY <2>1, <2>2, UpdateViews
  <2>4. Frame(s3, s4)
    <3> DEFINE views == update(s3.view_history, start, term)
    <3>1. s4 = [s3 EXCEPT !.view_history = views]
      OBVIOUS
    <3> HIDE DEF views, s4
    <3> QED BY <1>10, <3>1, ZenonT(40) DEF NodeState, Frame
  <2> HIDE DEF s4
  <2>5. Aside(s3, s4)
    BY <2>1, <2>3, <2>4, AsideStep DEF Fixed
  <2>6. Aside(s4, done)
    BY <1>2, <2>5, FixedCommitIfPossible DEF Aside
  <2> HIDE DEF done
  <2> QED BY <2>1, <2>5, <2>6, AsideTransitive
<1> HIDE DEF failed, thrown, done
<1>16. Aside(s, s) /\ Aside(s, s2)
  BY <1>5, <1>7, AsideReflexive
<1>17. CASE e.type = "sig"
  <2>1. Aside(s, thrown) /\ Aside(s, done)
    BY <1>13, <1>15, <1>17
  <2> QED BY <1>3, <1>14, <1>16, <2>1
<1>18. CASE e.type # "sig"
  BY <1>3, <1>14, <1>16, <1>18
<1> QED BY <1>17, <1>18

\* execute_append_entries_sync is not about an election.
LEMMA FixedExecuteSync ==
  ASSUME NEW n \in Node, NEW s, Fixed(s), NEW new \in Seq(FixedEntry),
         NEW r \in AppendEntries, r.prev_idx <= last_idx(s)
  PROVE  Aside(s, execute_append_entries_sync(n, s, new, r))
<1> DEFINE T == {x \in NodeState : Aside(s, x) /\ r.prev_idx <= last_idx(x)}
<1>1. r.prev_idx \in Nat /\ s \in NodeState
  BY DEF AppendEntries, Fixed, WellFormed
<1>2. s \in T
  BY <1>1, AsideReflexive
<1>3. \A x \in T, k \in 1 .. Len(new) : execute_append_entry(n, x, new[k], r) \in T
  <2> SUFFICES ASSUME NEW x \in T, NEW k \in 1 .. Len(new)
               PROVE  execute_append_entry(n, x, new[k], r) \in T
    OBVIOUS
  <2> DEFINE e == new[k]
             y == execute_append_entry(n, x, e, r)
  <2>1. e \in FixedEntry
    BY ElementOfSeq
  <2>2. e \in Entry
    BY <2>1 DEF FixedEntry
  <2>3. Aside(s, x) /\ Fixed(x) /\ WellFormed(x) /\ r.prev_idx <= last_idx(x)
    BY DEF Aside, Fixed
  <2> HIDE DEF e
  <2>4. Aside(x, y)
    BY <2>1, <2>3, FixedExecuteEntry
  <2>5. last_idx(y) >= last_idx(x)
    BY <2>2, <2>3, ExecuteEntry
  <2> HIDE DEF y
  <2>6. Aside(s, y)
    BY <2>3, <2>4, AsideTransitive
  <2>7. y \in NodeState /\ last_idx(y) \in Nat /\ last_idx(x) \in Nat
    BY <2>3, <2>4, Fields DEF Aside, Fixed, WellFormed
  <2>8. r.prev_idx <= last_idx(y)
    BY <1>1, <2>3, <2>5, <2>7
  <2> QED BY <2>6, <2>7, <2>8 DEF y, e
<1>4. Len(new) \in Nat
  BY LenProperties
<1> HIDE DEF T
<1>5. execute_append_entries_sync(n, s, new, r) \in T
  BY <1>2, <1>3, <1>4, SyncInduction
<1> QED BY <1>5 DEF T

\* execute_append_entries_finish is not about an election.
LEMMA FixedExecuteFinish ==
  ASSUME NEW n, NEW s, Fixed(s), NEW from \in Node, NEW r \in AppendEntries
  PROVE  Aside(s, execute_append_entries_finish(n, s, from, r))
<1> DEFINE s1 == commit_if_possible(n, s, r.leader_commit_idx)
           lci == last_committable_index(s1)
           start == IF r.term_of_idx = InvalidView THEN 1 ELSE lci + 1
           term == IF r.term_of_idx = InvalidView THEN r.term ELSE r.term_of_idx
           s2 == [s1 EXCEPT !.view_history = update(@, start, term)]
           t1 == send_append_entries_response(s1, from, "OK", <<>>)
           t2 == send_append_entries_response(s2, from, "OK", <<>>)
<1>1. r.term \in Nat /\ r.term_of_idx \in Nat /\ r.leader_commit_idx \in Nat
  BY DEF AppendEntries
<1>2. execute_append_entries_finish(n, s, from, r) \in {s1, t1, t2}
  <2>1. execute_append_entries_finish(n, s, from, r) =
          LET new_term == r.term_of_idx = InvalidView \/ r.idx > lci
          IN  IF new_term /\ update_throws(s1.view_history, start) THEN s1
              ELSE send_append_entries_response(
                     IF new_term THEN s2 ELSE s1, from, "OK", <<>>)
    BY DEF execute_append_entries_finish
  <2> HIDE DEF s1, lci, s2, start, term
  <2> QED BY <2>1
<1>3. Aside(s, s1)
  BY <1>1, FixedCommitIfPossible
<1> HIDE DEF s1
<1>4. /\ Fixed(s1) /\ WellFormed(s1) /\ s1 \in NodeState
      /\ last_idx(s1) \in Nat /\ s1.commit_idx \in Nat
  BY <1>3, Fields DEF Aside, Fixed, WellFormed
<1>5. lci \in s1.commit_idx .. last_idx(s1)
  BY <1>4, LastCommittable
<1> HIDE DEF lci
<1>6. start \in 1 .. last_idx(s1) + 1 /\ term \in Nat
  BY <1>1, <1>4, <1>5
<1> HIDE DEF start, term
<1>7. Step(s1, s2) /\ s2.ledger = s1.ledger
  BY <1>4, <1>6, UpdateViews
<1>8. Frame(s1, s2)
  <2> DEFINE views == update(s1.view_history, start, term)
  <2>1. s2 = [s1 EXCEPT !.view_history = views]
    OBVIOUS
  <2> HIDE DEF views, s2
  <2> QED BY <1>4, <2>1, ZenonT(40) DEF NodeState, Frame
<1> HIDE DEF s2
<1>9. Aside(s1, s2)
  BY <1>4, <1>7, <1>8, AsideStep DEF Fixed
<1>10. Aside(s1, t1) /\ Aside(s2, t2)
  BY <1>4, <1>9, FixedSendAppendEntriesResponse DEF Aside
<1> HIDE DEF t1, t2
<1>11. Aside(s, t1) /\ Aside(s, t2)
  BY <1>3, <1>9, <1>10, AsideTransitive
<1> QED BY <1>2, <1>3, <1>11

\* The accepting half of recv_append_entries is not about an election.
LEMMA FixedAccepted ==
  ASSUME NEW n \in Node, NEW s, Fixed(s), NEW from \in Node,
         NEW r \in AppendEntries, r.entries \in Seq(FixedEntry)
  PROVE  Aside(s, append_entries_accepted(n, s, from, r))
<1> DEFINE s1 == [s EXCEPT !.leader_id = from]
           s2 == IF s.is_new_follower /\ last_idx(s) > r.prev_idx
                 THEN rollback(n, s1, r.prev_idx) ELSE s1
           s3 == [s2 EXCEPT !.is_new_follower = FALSE]
           new == SubSeq(r.entries, last_idx(s3) - r.prev_idx + 1, Len(r.entries))
           s4 == execute_append_entries_sync(n, s3, new, r)
           t1 == execute_append_entries_finish(n, s4, from, r)
           t2 == send_append_entries_response(s4, from, "FAIL", <<>>)
           outside == r.prev_idx < s.commit_idx \/ r.prev_idx > last_idx(s)
<1>1. /\ s \in NodeState /\ last_idx(s) \in Nat /\ s.commit_idx \in Nat
      /\ r.prev_idx \in Nat
  BY Fields DEF Fixed, WellFormed, AppendEntries
<1>2. append_entries_accepted(n, s, from, r) =
        CASE outside -> s1
          [] OTHER -> CASE s4.apply = "PASS" -> t1
                        [] s4.apply = "FAIL" -> t2
                        [] s4.apply = "throw" -> s4
  BY DEF append_entries_accepted
<1>3. s1 \in NodeState /\ SameLog(s, s1) /\ Frame(s, s1)
  <2>1. from \in Node \union {Nil}
    OBVIOUS
  <2> QED BY <1>1, <2>1, ZenonT(40) DEF NodeState, SameLog, Frame
<1> HIDE DEF s1
<1>4. /\ Aside(s, s1) /\ Fixed(s1) /\ WellFormed(s1) /\ last_idx(s1) = last_idx(s)
      /\ s1.commit_idx = s.commit_idx
  BY <1>3, AsideSameLog DEF Aside, Fixed, SameLog, last_idx
<1>5. CASE outside
  BY <1>2, <1>4, <1>5
<1>6. CASE ~ outside
  <2>1. r.prev_idx \in 0 .. last_idx(s1) /\ r.prev_idx >= s1.commit_idx
    BY <1>1, <1>4, <1>6
  <2>2. /\ Aside(s1, rollback(n, s1, r.prev_idx))
        /\ last_idx(rollback(n, s1, r.prev_idx)) = r.prev_idx
    BY <1>4, <2>1, FixedRollback, Rollback
  <2>3. Aside(s, s2) /\ Fixed(s2) /\ r.prev_idx <= last_idx(s2)
    <3>1. Aside(s, rollback(n, s1, r.prev_idx))
      BY <1>4, <2>2, AsideTransitive
    <3>2. r.prev_idx <= r.prev_idx /\ r.prev_idx <= last_idx(s1)
      BY <1>1, <1>4, <1>6
    <3>3. s2 = rollback(n, s1, r.prev_idx) \/ s2 = s1
      OBVIOUS
    <3> HIDE DEF s2
    <3> QED BY <1>4, <2>2, <3>1, <3>2, <3>3 DEF Aside
  <2> HIDE DEF s2
  <2>4. s3 \in NodeState /\ SameLog(s2, s3) /\ Frame(s2, s3)
    <3>1. s2 \in NodeState /\ FALSE \in BOOLEAN
      BY <2>3 DEF Fixed, WellFormed
    <3> QED BY <3>1, ZenonT(40) DEF NodeState, SameLog, Frame
  <2> HIDE DEF s3
  <2>5. Aside(s, s3) /\ Fixed(s3) /\ last_idx(s3) = last_idx(s2)
    <3>1. Aside(s2, s3)
      BY <2>3, <2>4, AsideSameLog
    <3> QED BY <2>3, <2>4, <3>1, AsideTransitive DEF Aside, SameLog, last_idx
  <2>6. last_idx(s3) \in Nat /\ r.prev_idx <= last_idx(s3)
    BY <2>3, <2>5, Fields DEF Fixed, WellFormed
  <2>7. new \in Seq(FixedEntry)
    <3> DEFINE first == last_idx(s3) - r.prev_idx + 1
    <3>1. first \in Nat \ {0} /\ Len(r.entries) \in Nat
      BY <1>1, <2>6, LenProperties
    <3> HIDE DEF first
    <3>2. \A i \in first .. Len(r.entries) : r.entries[i] \in FixedEntry
      BY <3>1, ElementOfSeq
    <3>3. SubSeq(r.entries, first, Len(r.entries)) \in Seq(FixedEntry)
      BY <3>1, <3>2, SubSeqProperties
    <3> QED BY <3>3 DEF first
  <2> HIDE DEF new
  <2>8. Aside(s3, s4)
    BY <2>5, <2>6, <2>7, FixedExecuteSync
  <2> HIDE DEF s4
  <2>9. Aside(s, s4) /\ Fixed(s4) /\ s4 \in NodeState
    BY <2>5, <2>8, AsideTransitive DEF Aside, Fixed, WellFormed
  <2>10. Aside(s, t1) /\ Aside(s, t2)
    BY <2>9, FixedExecuteFinish, FixedSendAppendEntriesResponse, AsideTransitive
  <2>11. s4.apply \in {"PASS", "FAIL", "throw"}
    BY <2>9 DEF NodeState
  <2> HIDE DEF t1, t2, outside
  <2> QED BY <1>2, <1>6, <2>9, <2>10, <2>11
<1> QED BY <1>5, <1>6

-----------------------------------------------------------------------------
(* Answers to append entries, and replicate *)

\* A rejection changes what the leader knows of a peer, no more.
LEMMA FixedNack ==
  ASSUME NEW s, Fixed(s), NEW from \in Node, NEW r \in AppendEntriesResponse
  PROVE  Aside(s, append_entries_nack(s, from, r))
<1> DEFINE this_match == find_highest_possible_match(
                           s.view_history, last_idx(s), r.term, r.last_log_idx)
           match == IF s.match_idx[from] = 0 \/ this_match < s.match_idx[from]
                    THEN this_match ELSE s.match_idx[from]
           matches == [s.match_idx EXCEPT ![from] = match]
           sents == [s.sent_idx EXCEPT ![from] = match]
           t == [s EXCEPT !.match_idx = matches, !.sent_idx = sents]
<1>1. s \in NodeState /\ WellFormed(s) /\ s.ledger \in Seq(FixedEntry)
  BY DEF Fixed, WellFormed
<1>2. append_entries_nack(s, from, r) = t
  BY DEF append_entries_nack
<1>3. Step(s, t)
  BY <1>1, <1>2, AppendEntriesNack
<1> HIDE DEF matches, sents
<1>4. Frame(s, t) /\ t.ledger = s.ledger
  BY <1>1, ZenonT(40) DEF NodeState, Frame
<1> HIDE DEF t
<1> QED BY <1>1, <1>2, <1>3, <1>4, AsideStep

\* So does an acknowledgement, which may also commit.
LEMMA FixedAck ==
  ASSUME NEW n, NEW s, Fixed(s), NEW from \in Node, NEW r \in AppendEntriesResponse
  PROVE  Aside(s, append_entries_ack(n, s, from, r))
<1> DEFINE match == IF r.last_log_idx < last_idx(s) THEN r.last_log_idx
                    ELSE last_idx(s)
           matches == [s.match_idx EXCEPT ![from] = match]
           s1 == [s EXCEPT !.match_idx = matches]
<1>1. /\ s \in NodeState /\ last_idx(s) \in Nat /\ s.match_idx \in [Node -> Nat]
      /\ r.last_log_idx \in Nat
  BY Fields DEF Fixed, WellFormed, AppendEntriesResponse
<1>2. match \in Nat
  BY <1>1
<1>3. append_entries_ack(n, s, from, r) \in {s, update_commit(n, s1)}
  <2>1. append_entries_ack(n, s, from, r) =
          IF r.term = s.current_view /\ r.last_log_idx >= s.match_idx[from]
          THEN update_commit(n, s1) ELSE s
    BY DEF append_entries_ack
  <2> HIDE DEF s1
  <2> QED BY <2>1
<1> HIDE DEF match
<1>4. matches \in [Node -> Nat]
  BY <1>1, <1>2
<1> HIDE DEF matches
<1>5. s1 \in NodeState /\ SameLog(s, s1) /\ Frame(s, s1)
  BY <1>1, <1>4, ZenonT(40) DEF NodeState, SameLog, Frame
<1> HIDE DEF s1
<1>6. Aside(s, s1)
  BY <1>5, AsideSameLog
<1>7. Aside(s, update_commit(n, s1))
  BY <1>6, FixedUpdateCommit, AsideTransitive DEF Aside
<1> QED BY <1>3, <1>7, AsideReflexive

\* A leader that appends a transaction or a signature does not take part in an
\* election.
LEMMA FixedReplicateEntry ==
  ASSUME NEW n, NEW s, Fixed(s), NEW e \in Entry, e.type \in {"tx", "sig"}
  PROVE  Aside(s, replicate_entry(n, s, e))
<1> DEFINE index == last_idx(s) + 1
           committable == add_committable(s, index)
           s1 == IF e.type = "sig" THEN start_ticking_if_necessary(n, committable)
                 ELSE s
           log == Append(s1.ledger, e)
           views == update(s1.view_history, index, s.current_view)
           s2 == [s1 EXCEPT !.ledger = log, !.view_history = views]
<1>1. /\ s \in NodeState /\ WellFormed(s) /\ index \in Nat
      /\ s.ledger \in Seq(FixedEntry) /\ s.membership_state = "Active"
  BY Fields DEF Fixed, WellFormed
<1>2. replicate_entry(n, s, e) = s2
  BY DEF replicate_entry
<1>3. e \in FixedEntry
  BY DEF FixedEntry
<1>4. s1 \in NodeState /\ Frame(s, s1) /\ s1.ledger = s.ledger
  <2>1. committable \in NodeState /\ committable.ledger = s.ledger
    BY <1>1, AddCommittable
  <2>2. Frame(s, committable)
    <3> DEFINE sigs == s.committable_indices \union {index}
    <3>1. committable = [s EXCEPT !.committable_indices = sigs]
      BY <1>1 DEF add_committable, is_retired
    <3> HIDE DEF sigs, committable
    <3> QED BY <1>1, <3>1, ZenonT(40) DEF NodeState, Frame
  <2> HIDE DEF committable
  <2> DEFINE u == start_ticking_if_necessary(n, committable)
  <2>3. u \in NodeState /\ SameLog(committable, u)
    BY <2>1, StartTicking
  <2>4. Frame(committable, u)
    <3> DEFINE v == committable.ticking \/ is_self_in_latest_config(n, committable)
    <3>1. u = [committable EXCEPT !.ticking = v]
      BY DEF start_ticking_if_necessary
    <3> HIDE DEF v, u
    <3> QED BY <2>1, <3>1, ZenonT(40) DEF NodeState, Frame
  <2>5. s1 = u \/ s1 = s
    OBVIOUS
  <2> HIDE DEF u, s1
  <2>6. Frame(s, u) /\ u.ledger = s.ledger /\ Frame(s, s)
    BY <2>1, <2>2, <2>3, <2>4 DEF Frame, SameLog
  <2> QED BY <1>1, <2>3, <2>5, <2>6
<1>5. Step(s, s2)
  BY <1>1, <1>2, ReplicateEntry
<1> HIDE DEF s1, index
<1>6. log \in Seq(FixedEntry)
  BY <1>1, <1>3, <1>4
<1> HIDE DEF log, views
<1>7. Frame(s1, s2) /\ s2.ledger = log
  BY <1>4, ZenonT(40) DEF NodeState, Frame
<1> HIDE DEF s2
<1>8. Frame(s, s2)
  BY <1>4, <1>7 DEF Frame
<1> QED BY <1>2, <1>5, <1>6, <1>7, <1>8, AsideStep

\* replicate of a transaction or a signature is not about an election.
LEMMA FixedReplicate ==
  ASSUME NEW n, NEW s, Fixed(s), NEW e \in Entry, e.type \in {"tx", "sig"},
         NEW flush \in BOOLEAN
  PROVE  Aside(s, replicate(n, s, e, flush))
<1> DEFINE s2 == replicate_entry(n, s, e)
           start == [p \in Node |-> s2.sent_idx[p] + 1]
           sent == send_append_entries(s2, nodes(n, s2), start)
           s3 == IF flush THEN sent ELSE s2
<1>1. Aside(s, s2) /\ Fixed(s2) /\ s2 \in NodeState
  BY FixedReplicateEntry DEF Aside, Fixed, WellFormed
<1>2. replicate(n, s, e, flush) =
        IF nodes(n, s3) = {} THEN update_commit(n, s3) ELSE s3
  BY DEF replicate
<1> HIDE DEF s2
<1>3. Aside(s2, sent)
  <2>1. nodes(n, s2) \in SUBSET Node /\ s2.sent_idx \in [Node -> Nat]
    BY <1>1, Fields, NodesType
  <2>2. \A p \in nodes(n, s2) : start[p] \in Nat \ {0}
    BY <2>1
  <2> HIDE DEF start
  <2> QED BY <1>1, <2>1, <2>2, FixedSendAppendEntries
<1> HIDE DEF sent
<1>4. Aside(s, s3) /\ Fixed(s3)
  BY <1>1, <1>3, AsideTransitive DEF Aside
<1> HIDE DEF s3
<1>5. Aside(s, update_commit(n, s3))
  BY <1>4, FixedUpdateCommit, AsideTransitive
<1> QED BY <1>2, <1>4, <1>5

=============================================================================
