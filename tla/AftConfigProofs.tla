-------------------------- MODULE AftConfigProofs --------------------------
(***************************************************************************)
(* The configurations that a node holds active are those of its ledger,    *)
(* through replication, commit and rollback.                               *)
(***************************************************************************)
EXTENDS AftProofs

-----------------------------------------------------------------------------
(* The active configurations, through every reconfiguration *)

\* The inductive invariant behind ActiveConfigurations, for one node.  The last
\* active configuration up to an index of the ledger is the one in force there:
\* add_configuration leaves out one equal to the latest, so that the entry of an
\* active configuration may be an earlier one with the same nodes.
Follows(s) ==
  /\ \A c \in s.configurations :
       c.idx \in config_indices(s) /\ s.ledger[c.idx].nodes = c.nodes
  /\ \A i \in config_indices(s), c \in s.configurations :
       c.idx <= i /\ (\A d \in s.configurations : d.idx <= i => d.idx <= c.idx)
       => s.ledger[i].nodes = c.nodes
  /\ \A i \in config_indices(s) :
       \/ \E c \in s.configurations : c.idx <= i
       \/ \E j \in config_indices(s) : i < j /\ j <= s.commit_idx

\* The fields that Follows reads.
SameConfigs(s, t) ==
  /\ t.ledger = s.ledger /\ t.commit_idx = s.commit_idx
  /\ t.configurations = s.configurations

\* A method that touches none of them keeps Follows.
LEMMA SameFollows ==
  ASSUME NEW s, NEW t, Follows(s), SameConfigs(s, t)
  PROVE  Follows(t)
<1>1. config_indices(t) = config_indices(s)
  BY DEF SameConfigs, config_indices, last_idx
<1> QED BY <1>1 DEF Follows, SameConfigs

\* Methods that run one after the other.
LEMMA SameConfigsTransitive ==
  ASSUME NEW s, NEW t, NEW u, SameConfigs(s, t), SameConfigs(t, u)
  PROVE  SameConfigs(s, u)
BY DEF SameConfigs

\* The configurations have indices of the ledger.
LEMMA ConfigIndices ==
  ASSUME NEW s, WellFormed(s), Follows(s)
  PROVE  /\ last_idx(s) \in Nat /\ s.commit_idx \in Nat
         /\ config_indices(s) \in SUBSET (1 .. last_idx(s))
         /\ \A c \in s.configurations : c.idx \in 1 .. last_idx(s) /\ c.idx \in Nat
<1>1. last_idx(s) \in Nat /\ s.commit_idx \in Nat
  BY Fields DEF WellFormed
<1> QED BY <1>1 DEF Follows, config_indices

\* Among the configurations up to an index there is a last one.
LEMMA LastConfig ==
  ASSUME NEW s, WellFormed(s), Follows(s), NEW i \in Nat,
         \E c \in s.configurations : c.idx <= i
  PROVE  \E c \in s.configurations :
           c.idx <= i /\ \A d \in s.configurations : d.idx <= i => d.idx <= c.idx
<1> DEFINE S == {c.idx : c \in {d \in s.configurations : d.idx <= i}}
<1>1. /\ last_idx(s) \in Nat
      /\ \A c \in s.configurations : c.idx \in 1 .. last_idx(s)
  BY ConfigIndices
<1>2. S \in SUBSET (0 .. last_idx(s)) /\ S # {}
  BY <1>1
<1>3. PICK x \in S : \A y \in S : y <= x
  <2> HIDE DEF S
  <2> QED BY <1>1, <1>2, GreatestElement, ZenonT(20)
<1>4. PICK c \in s.configurations : c.idx = x /\ c.idx <= i
  OBVIOUS
<1>5. \A d \in s.configurations : d.idx <= i => d.idx \in S
  OBVIOUS
<1> HIDE DEF S
<1> QED BY <1>3, <1>4, <1>5

\* The invariant gives the property that the runs check.
LEMMA FollowsActive ==
  ASSUME NEW s, WellFormed(s), Follows(s), NEW i \in config_indices(s),
         ~ \E j \in config_indices(s) : i < j /\ j <= s.commit_idx
  PROVE  \E c \in s.configurations : c.nodes = s.ledger[i].nodes
<1>1. i \in Nat
  BY ConfigIndices
<1>2. \E c \in s.configurations : c.idx <= i
  BY DEF Follows
<1>3. PICK c \in s.configurations :
        c.idx <= i /\ \A d \in s.configurations : d.idx <= i => d.idx <= c.idx
  BY <1>1, <1>2, LastConfig
<1> QED BY <1>3 DEF Follows

\* What rollback does: the configurations of the entries that stay.
LEMMA CutFollows ==
  ASSUME NEW s, WellFormed(s), Follows(s), NEW idx \in Nat,
         s.commit_idx <= idx, idx <= last_idx(s),
         NEW t, t.ledger = SubSeq(s.ledger, 1, idx), t.commit_idx = s.commit_idx,
         t.configurations = {c \in s.configurations : c.idx <= idx}
  PROVE  Follows(t)
<1>1. /\ last_idx(s) \in Nat /\ s.commit_idx \in Nat
      /\ config_indices(s) \in SUBSET (1 .. last_idx(s))
      /\ \A c \in s.configurations : c.idx \in 1 .. last_idx(s) /\ c.idx \in Nat
  BY ConfigIndices
<1>2. last_idx(t) = idx /\ \A i \in 1 .. idx : t.ledger[i] = s.ledger[i]
  <2>1. s.ledger \in Seq(Entry)
    BY Fields DEF WellFormed
  <2>2. \A i \in 1 .. idx : s.ledger[i] \in Entry
    BY <1>1, <2>1, ElementOfSeq DEF last_idx
  <2> QED BY <2>1, <2>2, SubSeqProperties DEF last_idx
<1>3. config_indices(t) = {i \in config_indices(s) : i <= idx}
  BY <1>1, <1>2 DEF config_indices
<1>4. \A c \in t.configurations :
        c.idx \in config_indices(t) /\ t.ledger[c.idx].nodes = c.nodes
  BY <1>1, <1>2, <1>3 DEF Follows
<1>5. ASSUME NEW i \in config_indices(t), NEW c \in t.configurations, c.idx <= i,
             \A d \in t.configurations : d.idx <= i => d.idx <= c.idx
      PROVE  t.ledger[i].nodes = c.nodes
  <2>1. i \in config_indices(s) /\ i <= idx /\ i \in 1 .. idx /\ c \in s.configurations
    BY <1>1, <1>3
  <2>2. \A d \in s.configurations : d.idx <= i => d.idx <= c.idx
    BY <1>1, <1>5, <2>1
  <2>3. s.ledger[i].nodes = c.nodes
    BY <1>5, <2>1, <2>2 DEF Follows
  <2> QED BY <1>2, <2>1, <2>3
<1>6. ASSUME NEW i \in config_indices(t)
      PROVE  \/ \E c \in t.configurations : c.idx <= i
             \/ \E j \in config_indices(t) : i < j /\ j <= t.commit_idx
  <2>1. i \in config_indices(s) /\ i <= idx /\ i \in Nat
    BY <1>1, <1>3
  <2>2. CASE \E c \in s.configurations : c.idx <= i
    BY <1>1, <2>1, <2>2
  <2>3. CASE \E j \in config_indices(s) : i < j /\ j <= s.commit_idx
    BY <1>1, <1>3, <2>3
  <2> QED BY <2>1, <2>2, <2>3 DEF Follows
<1> QED BY <1>4, <1>5, <1>6 DEF Follows

\* What commit does: the configurations that a committed one follows go.
LEMMA CommitFollows ==
  ASSUME NEW s, WellFormed(s), Follows(s), NEW idx \in Nat, s.commit_idx <= idx,
         NEW t, t.ledger = s.ledger, t.commit_idx = idx,
         t.configurations =
           {c \in s.configurations :
              ~ \E d \in s.configurations : c.idx < d.idx /\ d.idx <= idx}
  PROVE  Follows(t)
<1>1. /\ last_idx(s) \in Nat /\ s.commit_idx \in Nat
      /\ config_indices(s) \in SUBSET (1 .. last_idx(s))
      /\ \A c \in s.configurations : c.idx \in 1 .. last_idx(s) /\ c.idx \in Nat
  BY ConfigIndices
<1>2. config_indices(t) = config_indices(s)
  BY DEF config_indices, last_idx
<1>3. \A c \in t.configurations :
        c.idx \in config_indices(t) /\ t.ledger[c.idx].nodes = c.nodes
  BY <1>2 DEF Follows
<1>4. ASSUME NEW i \in config_indices(t), NEW c \in t.configurations, c.idx <= i,
             \A d \in t.configurations : d.idx <= i => d.idx <= c.idx
      PROVE  t.ledger[i].nodes = c.nodes
  <2>1. ASSUME NEW d \in s.configurations, d.idx <= i PROVE d.idx <= c.idx
    <3>1. CASE d \in t.configurations
      BY <1>4, <2>1, <3>1
    <3>2. CASE d \notin t.configurations
      <4>1. PICK e \in s.configurations : d.idx < e.idx /\ e.idx <= idx
        BY <3>2
      <4>2. c \in s.configurations /\ ~ (c.idx < e.idx)
        BY <4>1
      <4> QED BY <1>1, <4>1, <4>2
    <3> QED BY <3>1, <3>2
  <2> QED BY <1>2, <1>4, <2>1 DEF Follows
<1>5. ASSUME NEW i \in config_indices(t)
      PROVE  \/ \E c \in t.configurations : c.idx <= i
             \/ \E j \in config_indices(t) : i < j /\ j <= t.commit_idx
  <2>1. i \in config_indices(s) /\ i \in Nat
    BY <1>1, <1>2
  <2>2. CASE \E c \in s.configurations : c.idx <= i
    <3>1. PICK c \in s.configurations : c.idx <= i
      BY <2>2
    <3>2. CASE c \in t.configurations
      BY <3>1, <3>2
    <3>3. CASE c \notin t.configurations
      <4>1. PICK d \in s.configurations : c.idx < d.idx /\ d.idx <= idx
        BY <3>3
      <4>2. PICK e \in s.configurations :
              e.idx <= idx /\ \A f \in s.configurations : f.idx <= idx => f.idx <= e.idx
        BY <4>1, LastConfig
      <4>3. e \in t.configurations
        <5>1. ASSUME NEW f \in s.configurations, e.idx < f.idx, f.idx <= idx
              PROVE  FALSE
          BY <1>1, <4>2, <5>1
        <5> QED BY <5>1
      <4>4. CASE e.idx <= i
        BY <4>3, <4>4
      <4>5. CASE ~ (e.idx <= i)
        <5>1. e.idx \in config_indices(t) /\ i < e.idx
          BY <1>1, <1>2, <2>1, <4>5 DEF Follows
        <5> QED BY <4>2, <5>1
      <4> QED BY <4>4, <4>5
    <3> QED BY <3>2, <3>3
  <2>3. CASE \E j \in config_indices(s) : i < j /\ j <= s.commit_idx
    BY <1>1, <1>2, <2>3
  <2> QED BY <2>1, <2>2, <2>3 DEF Follows
<1> QED BY <1>3, <1>4, <1>5 DEF Follows

\* What add_configuration does with the configurations.
with_configuration(s, idx, conf) ==
  IF s.configurations # {} /\ latest_config(s).nodes = conf THEN s.configurations
  ELSE s.configurations \union {[idx |-> idx, nodes |-> conf]}

\* An entry joins the ledger, and if it is a reconfiguration add_configuration
\* is told.
LEMMA AppendFollows ==
  ASSUME NEW s, WellFormed(s), Follows(s), NEW e \in Entry,
         NEW t, t.ledger = Append(s.ledger, e), t.commit_idx = s.commit_idx,
         t.configurations = IF e.type = "config"
                            THEN with_configuration(s, last_idx(s) + 1, e.nodes)
                            ELSE s.configurations
  PROVE  Follows(t)
<1> DEFINE new == last_idx(s) + 1
<1>1. /\ last_idx(s) \in Nat /\ s.commit_idx \in Nat
      /\ config_indices(s) \in SUBSET (1 .. last_idx(s))
      /\ \A c \in s.configurations : c.idx \in 1 .. last_idx(s) /\ c.idx \in Nat
  BY ConfigIndices
<1>2. /\ last_idx(t) = new /\ t.ledger[new] = e
      /\ \A i \in 1 .. last_idx(s) : t.ledger[i] = s.ledger[i]
  <2>1. s.ledger \in Seq(Entry)
    BY Fields DEF WellFormed
  <2> QED BY <2>1, AppendProperties DEF last_idx
<1>3. config_indices(t) = IF e.type = "config" THEN config_indices(s) \union {new}
                          ELSE config_indices(s)
  <2>1. \A i : i \in 1 .. new <=> i \in 1 .. last_idx(s) \/ i = new
    BY <1>1
  <2> QED BY <1>2, <2>1, ZenonT(20) DEF config_indices
<1>4. config_indices(s) \subseteq config_indices(t)
  BY <1>3
<1>5. \A c \in t.configurations :
        \/ c \in s.configurations
        \/ /\ e.type = "config" /\ c = [idx |-> new, nodes |-> e.nodes]
           /\ s.configurations = {} \/ latest_config(s).nodes # e.nodes
  BY DEF with_configuration
<1>6. s.configurations \subseteq t.configurations
  BY DEF with_configuration
<1> HIDE DEF new
<1>7. ASSUME NEW c \in t.configurations
      PROVE  c.idx \in config_indices(t) /\ t.ledger[c.idx].nodes = c.nodes
  <2>1. CASE c \in s.configurations
    BY <1>1, <1>2, <1>4, <2>1, ZenonT(20) DEF Follows
  <2>2. CASE e.type = "config" /\ c = [idx |-> new, nodes |-> e.nodes]
    BY <1>2, <1>3, <2>2
  <2> QED BY <1>5, <2>1, <2>2
<1>8. ASSUME NEW i \in config_indices(t), NEW c \in t.configurations, c.idx <= i,
             \A d \in t.configurations : d.idx <= i => d.idx <= c.idx
      PROVE  t.ledger[i].nodes = c.nodes
  <2>1. CASE i \in config_indices(s)
    <3>1. i \in 1 .. last_idx(s) /\ new \in Nat /\ ~ (new <= i)
      BY <1>1, <2>1 DEF new
    <3>2. c \in s.configurations
      BY <1>5, <1>8, <3>1
    <3>3. \A d \in s.configurations : d.idx <= i => d.idx <= c.idx
      BY <1>6, <1>8
    <3>4. s.ledger[i].nodes = c.nodes
      BY <1>8, <2>1, <3>2, <3>3 DEF Follows
    <3> QED BY <1>2, <3>1, <3>4, ZenonT(20)
  <2>2. CASE e.type = "config" /\ i = new
    <3>1. CASE c \in s.configurations
      <4>1. \A d \in t.configurations : d.idx <= new
        BY <1>1, <1>5 DEF new
      <4>2. \A d \in t.configurations : d.idx <= c.idx
        BY <1>8, <2>2, <4>1
      <4>3. c.idx < new
        BY <1>1, <3>1 DEF new
      <4>4. t.configurations = s.configurations
        <5>1. [idx |-> new, nodes |-> e.nodes] \notin t.configurations
          <6> SUFFICES ASSUME [idx |-> new, nodes |-> e.nodes] \in t.configurations
                       PROVE  FALSE
            OBVIOUS
          <6>1. new <= c.idx /\ new \in Nat /\ c.idx \in Nat
            BY <1>1, <3>1, <4>2 DEF new
          <6> QED BY <4>3, <6>1
        <5> QED BY <1>5, <1>6, <5>1
      <4>5. s.configurations # {} /\ latest_config(s).nodes = e.nodes
        <5>1. [idx |-> new, nodes |-> e.nodes] \notin s.configurations
          <6> SUFFICES ASSUME [idx |-> new, nodes |-> e.nodes] \in s.configurations
                       PROVE  FALSE
            OBVIOUS
          <6>1. new \in 1 .. last_idx(s)
            BY <1>1
          <6> QED BY <1>1, <6>1 DEF new
        <5> QED BY <2>2, <4>4, <5>1 DEF with_configuration, new
      <4>6. /\ latest_config(s) \in s.configurations
            /\ \A d \in s.configurations : d.idx <= latest_config(s).idx
        <5>1. \E x \in s.configurations : \A d \in s.configurations : d.idx <= x.idx
          BY <3>1, <4>2, <4>4
        <5> QED BY <5>1 DEF latest_config
      <4>7. latest_config(s).idx = c.idx
        BY <1>1, <3>1, <4>2, <4>4, <4>6
      <4>8. latest_config(s).nodes = c.nodes
        BY <3>1, <4>6, <4>7 DEF Follows
      <4> QED BY <1>2, <2>2, <4>5, <4>8, ZenonT(20)
    <3>2. CASE c = [idx |-> new, nodes |-> e.nodes]
      BY <1>2, <2>2, <3>2, ZenonT(20)
    <3> QED BY <1>5, <3>1, <3>2
  <2> QED BY <1>3, <2>1, <2>2
<1>9. ASSUME NEW i \in config_indices(t)
      PROVE  \/ \E c \in t.configurations : c.idx <= i
             \/ \E j \in config_indices(t) : i < j /\ j <= t.commit_idx
  <2>1. CASE i \in config_indices(s)
    BY <1>4, <1>6, <2>1 DEF Follows
  <2>2. CASE e.type = "config" /\ i = new
    <3>1. t.configurations # {}
      BY <2>2 DEF with_configuration
    <3>2. \A d \in t.configurations : d.idx <= new
      BY <1>1, <1>5 DEF new
    <3> QED BY <2>2, <3>1, <3>2
  <2> QED BY <1>3, <2>1, <2>2
<1> QED BY <1>7, <1>8, <1>9, ZenonT(20) DEF Follows

-----------------------------------------------------------------------------
(* The methods, and what they do to the configurations *)

\* Sending touches no configuration.
LEMMA SendSameConfigs ==
  ASSUME NEW s \in NodeState
  PROVE  /\ \A to, m : SameConfigs(s, send(s, to, m))
         /\ \A peers, start : SameConfigs(s, send_append_entries(s, peers, start))
         /\ \A to, answer, rejected :
              SameConfigs(s, send_append_entries_response(s, to, answer, rejected))
         /\ \A peers : SameConfigs(s, send_request_vote(s, peers))
         /\ \A to, answer : SameConfigs(s, send_request_vote_response(s, to, answer))
<1>1. ASSUME NEW x, NEW y PROVE SameConfigs(s, [s EXCEPT !.out = x, !.sent_idx = y])
  BY ZenonT(40) DEF NodeState, SameConfigs
<1>2. ASSUME NEW x PROVE SameConfigs(s, [s EXCEPT !.out = x])
  BY ZenonT(40) DEF NodeState, SameConfigs
<1>3. \A to, m : SameConfigs(s, send(s, to, m))
  BY <1>2, ZenonT(20) DEF send
<1>4. \A peers, start : SameConfigs(s, send_append_entries(s, peers, start))
  BY <1>1 DEF send_append_entries
<1>5. \A to, answer, rejected :
        SameConfigs(s, send_append_entries_response(s, to, answer, rejected))
  BY <1>3 DEF send_append_entries_response
<1>6. \A peers : SameConfigs(s, send_request_vote(s, peers))
  BY <1>2, ZenonT(20) DEF send_request_vote
<1>7. \A to, answer : SameConfigs(s, send_request_vote_response(s, to, answer))
  BY <1>3 DEF send_request_vote_response
<1> QED BY <1>3, <1>4, <1>5, <1>6, <1>7

\* Nor do the steps of a retirement, or the start of the election timer.
LEMMA RetireSameConfigs ==
  ASSUME NEW s \in NodeState
  PROVE  /\ \A idx, phase : SameConfigs(s, become_retired(s, idx, phase))
         /\ \A n : SameConfigs(s, start_ticking_if_necessary(n, s))
<1>1. ASSUME NEW idx, NEW phase PROVE SameConfigs(s, become_retired(s, idx, phase))
  BY ZenonT(40) DEF NodeState, SameConfigs, become_retired
<1>2. ASSUME NEW x PROVE SameConfigs(s, [s EXCEPT !.ticking = x])
  BY ZenonT(40) DEF NodeState, SameConfigs
<1>3. \A n : SameConfigs(s, start_ticking_if_necessary(n, s))
  BY <1>2 DEF start_ticking_if_necessary
<1> QED BY <1>1, <1>3

\* create_and_remove_node_state installs the given configurations.
LEMMA CreateConfigs ==
  ASSUME NEW n, NEW s \in NodeState, NEW configs \in SUBSET Configuration
  PROVE  LET t == create_and_remove_node_state(n, s, configs)
         IN  /\ t.ledger = s.ledger /\ t.commit_idx = s.commit_idx
             /\ t.configurations = configs
<1> DEFINE s1 == [s EXCEPT !.configurations = configs]
           added == nodes(n, s1) \ nodes(n, s)
           peers == nodes(n, s1) \ added
           sent == [p \in Node |-> IF p \in peers THEN s1.sent_idx[p] ELSE 0]
           match == [p \in Node |-> IF p \in peers THEN s1.match_idx[p] ELSE 0]
           s2 == [s1 EXCEPT !.sent_idx = sent, !.match_idx = match]
           start == [p \in Node |-> last_idx(s) + 1]
           t == send_append_entries(s2, added, start)
<1>1. /\ s1 \in NodeState /\ s1.ledger = s.ledger /\ s1.commit_idx = s.commit_idx
      /\ s1.configurations = configs
  BY ZenonT(40) DEF NodeState
<1>2. create_and_remove_node_state(n, s, configs) =
        IF s.leadership_state = "Leader" THEN t ELSE s1
  BY DEF create_and_remove_node_state
<1> HIDE DEF s1
<1>3. sent \in [Node -> Nat] /\ match \in [Node -> Nat]
  <2> HIDE DEF peers
  <2> QED BY <1>1, Fields
<1> HIDE DEF sent, match
<1>4. s2 \in NodeState /\ SameConfigs(s1, s2)
  BY <1>1, <1>3, ZenonT(40) DEF NodeState, SameConfigs
<1> HIDE DEF s2
<1>5. SameConfigs(s2, t)
  BY <1>4, SendSameConfigs
<1> HIDE DEF t
<1> QED BY <1>1, <1>2, <1>4, <1>5 DEF SameConfigs

\* rollback keeps the configurations in step with the ledger.
LEMMA RollbackFollows ==
  ASSUME NEW n, NEW s, WellFormed(s), Follows(s), NEW idx \in 0 .. last_idx(s)
  PROVE  Follows(rollback(n, s, idx))
<1> DEFINE t0 == rollback_retirement(s, idx)
           log == SubSeq(t0.ledger, 1, idx)
           views == rollback_views(t0.view_history, idx)
           sigs == {i \in t0.committable_indices : i <= idx}
           s1 == [t0 EXCEPT !.ledger = log, !.view_history = views,
                            !.committable_indices = sigs]
           configs == {c \in s.configurations : c.idx <= idx}
           t == create_and_remove_node_state(n, s1, configs)
<1>1. /\ s \in NodeState /\ last_idx(s) \in Nat /\ s.commit_idx \in Nat
      /\ s.ledger \in Seq(Entry) /\ s.view_history \in Seq(Nat)
      /\ configs \in SUBSET Configuration /\ idx \in Nat /\ idx <= last_idx(s)
      /\ SortedWithin(s.view_history, last_idx(s))
      /\ s.committable_indices \in SUBSET Nat
  BY Fields DEF WellFormed, well_indexed
<1>2. t0 \in NodeState /\ SameLog(s, t0)
  BY <1>1, RollbackRetirement
<1>3. /\ t0.ledger = s.ledger /\ t0.commit_idx = s.commit_idx
      /\ t0.view_history = s.view_history
      /\ t0.committable_indices = s.committable_indices
  BY <1>2 DEF SameLog
<1>4. log \in Seq(Entry) /\ views \in Seq(Nat) /\ sigs \in SUBSET Nat
  <2>1. \A i \in 1 .. idx : s.ledger[i] \in Entry
    BY <1>1, ElementOfSeq DEF last_idx
  <2>2. log \in Seq(Entry)
    BY <1>1, <1>3, <2>1, SubSeqProperties
  <2> QED BY <1>1, <1>3, <2>2, RollbackSorted
<1>5. rollback(n, s, idx) = IF idx < s.commit_idx THEN s ELSE t
  BY DEF rollback
<1>6. log = SubSeq(s.ledger, 1, idx)
  BY <1>3
<1> HIDE DEF log, views, sigs, t0
<1>7. s1 \in NodeState /\ s1.ledger = log /\ s1.commit_idx = t0.commit_idx
  BY <1>2, <1>4, ZenonT(40) DEF NodeState
<1> HIDE DEF s1
<1>8. /\ t.ledger = s1.ledger /\ t.commit_idx = s1.commit_idx
      /\ t.configurations = configs
  <2> HIDE DEF configs
  <2> QED BY <1>1, <1>7, CreateConfigs
<1> HIDE DEF t
<1>9. CASE ~ (idx < s.commit_idx)
  <2>1. s.commit_idx <= idx
    BY <1>1, <1>9
  <2>2. Follows(t)
    BY <1>1, <1>3, <1>6, <1>7, <1>8, <2>1, CutFollows
  <2> QED BY <1>5, <1>9, <2>2
<1> QED BY <1>5, <1>9

\* commit drops the configurations that were superseded, and no other.
LEMMA CommitStepFollows ==
  ASSUME NEW n, NEW s, WellFormed(s), Follows(s), NEW idx \in Nat
  PROVE  Follows(commit(n, s, idx))
<1> DEFINE s1 == [s EXCEPT !.commit_idx = idx]
           done == /\ is_retired(s) /\ s.retirement_phase = "Signed"
                   /\ idx >= s.retirement_committable_idx
           r1 == become_retired(s1, idx, "Completed")
           s2 == IF done THEN r1 ELSE s1
           superseded(c) == \E d \in s.configurations : c.idx < d.idx /\ d.idx <= idx
           configs == {c \in s.configurations : ~ superseded(c)}
           t == create_and_remove_node_state(n, s2, configs)
<1>1. s \in NodeState /\ s.commit_idx \in Nat /\ configs \in SUBSET Configuration
  <2>1. s.configurations \in SUBSET Configuration
    BY Fields DEF WellFormed
  <2> QED BY <2>1, Fields DEF WellFormed
<1>2. /\ s1 \in NodeState /\ s1.commit_idx = idx /\ s1.ledger = s.ledger
      /\ s1.configurations = s.configurations
  BY <1>1, ZenonT(40) DEF NodeState
<1>3. commit(n, s, idx) = IF idx <= s.commit_idx THEN s ELSE t
  BY DEF commit
<1> HIDE DEF s1, done
<1>4. s2 \in NodeState /\ SameConfigs(s1, s2)
  <2>1. r1 \in NodeState /\ SameConfigs(s1, r1)
    BY <1>2, BecomeRetired, RetireSameConfigs
  <2> HIDE DEF r1
  <2> QED BY <1>2, <2>1 DEF SameConfigs
<1> HIDE DEF s2
<1>5. /\ t.ledger = s2.ledger /\ t.commit_idx = s2.commit_idx
      /\ t.configurations = configs
  <2> HIDE DEF configs
  <2> QED BY <1>1, <1>4, CreateConfigs
<1> HIDE DEF t
<1>6. CASE ~ (idx <= s.commit_idx)
  <2>1. s.commit_idx <= idx
    BY <1>1, <1>6
  <2>2. /\ t.ledger = s.ledger /\ t.commit_idx = idx
        /\ t.configurations =
             {c \in s.configurations :
                ~ \E d \in s.configurations : c.idx < d.idx /\ d.idx <= idx}
    BY <1>2, <1>4, <1>5 DEF SameConfigs
  <2>3. Follows(t)
    BY <2>1, <2>2, CommitFollows
  <2> QED BY <1>3, <1>6, <2>3
<1> QED BY <1>3, <1>6

\* commit_if_possible commits, or does nothing.
LEMMA CommitIfPossibleFollows ==
  ASSUME NEW n, NEW s, WellFormed(s), Follows(s), NEW idx \in Nat
  PROVE  Follows(commit_if_possible(n, s, idx))
<1> DEFINE ready == {i \in s.committable_indices : i <= idx}
           rest == s.committable_indices \ ready
           s1 == [s EXCEPT !.committable_indices = rest]
<1>1. /\ s \in NodeState /\ last_idx(s) \in Nat /\ s.commit_idx \in Nat
      /\ s.committable_indices \in SUBSET Nat
  BY Fields DEF WellFormed
<1>2. \A i \in s.committable_indices :
         i \in s.commit_idx + 1 .. last_idx(s) /\ s.ledger[i].type = "sig"
  BY DEF WellFormed, well_indexed
<1>3. rest \in SUBSET Nat /\ ready \in SUBSET (0 .. last_idx(s))
      /\ rest \subseteq s.committable_indices
  <2>1. \A i \in s.committable_indices : i \in 0 .. last_idx(s)
    BY <1>1, <1>2
  <2> QED BY <1>1, <2>1
<1>4. \/ commit_if_possible(n, s, idx) = s
      \/ commit_if_possible(n, s, idx) = commit(n, s1, Max(ready)) /\ ready # {}
  BY DEF commit_if_possible
<1> HIDE DEF rest, ready
<1>5. /\ s1 \in NodeState /\ s1.committable_indices = rest
      /\ s1.view_history = s.view_history /\ SameConfigs(s, s1)
  BY <1>1, <1>3, ZenonT(40) DEF NodeState, SameConfigs
<1> HIDE DEF s1
<1>6. WellFormed(s1)
  <2>1. last_idx(s1) = last_idx(s)
    BY <1>5 DEF SameConfigs, last_idx
  <2> QED BY <1>2, <1>3, <1>5, <2>1, ZenonT(20) DEF WellFormed, well_indexed, SameConfigs
<1>7. Follows(s1)
  BY <1>5, SameFollows
<1>8. ready # {} => Max(ready) \in Nat
  <2> SUFFICES ASSUME ready # {} PROVE Max(ready) \in Nat
    OBVIOUS
  <2>1. Max(ready) \in ready
    BY <1>1, <1>3, MaxElement
  <2>2. Max(ready) \in 0 .. last_idx(s)
    BY <1>3, <2>1, ZenonT(40)
  <2> QED BY <1>1, <2>2
<1> QED BY <1>4, <1>6, <1>7, <1>8, CommitStepFollows

\* update_commit ends in commit_if_possible.
LEMMA UpdateCommitFollows ==
  ASSUME NEW n, NEW s, WellFormed(s), Follows(s)
  PROVE  Follows(update_commit(n, s))
BY Watermark, CommitIfPossibleFollows

\* become_follower may roll the ledger back; the configurations go with it.
LEMMA BecomeFollowerFollows ==
  ASSUME NEW n, NEW s, WellFormed(s), Follows(s)
  PROVE  Follows(become_follower(n, s))
<1> DEFINE s0 == [s EXCEPT !.leader_id = Nil]
           s1 == rollback(n, s0, last_committable_index(s))
           s2 == [s1 EXCEPT !.leadership_state = "Follower",
                            !.sent_idx = no_index, !.match_idx = no_index]
<1>1. s \in NodeState /\ last_idx(s) \in Nat /\ s.commit_idx \in Nat
  BY Fields DEF WellFormed
<1>2. s0 \in NodeState /\ SameLog(s, s0) /\ SameConfigs(s, s0)
  BY <1>1, ZenonT(40) DEF NodeState, SameLog, SameConfigs
<1>3. become_follower(n, s) = s1 \/ become_follower(n, s) = s2
  BY DEF become_follower
<1> HIDE DEF s0
<1>4. WellFormed(s0) /\ Follows(s0)
  BY <1>2, SameLogStep, SameFollows DEF Step
<1>5. last_committable_index(s) \in 0 .. last_idx(s0)
  <2>1. last_committable_index(s) \in s.commit_idx .. last_idx(s)
    BY LastCommittable
  <2>2. last_idx(s0) = last_idx(s)
    BY <1>2 DEF SameLog, last_idx
  <2> QED BY <1>1, <2>1, <2>2
<1>6. Follows(s1) /\ s1 \in NodeState
  BY <1>4, <1>5, RollbackFollows, Rollback DEF Step, WellFormed
<1> HIDE DEF s1
<1>7. SameConfigs(s1, s2)
  BY <1>6, ZenonT(40) DEF NodeState, SameConfigs
<1> HIDE DEF s2
<1> QED BY <1>3, <1>6, <1>7, SameFollows

\* become_aware_of_new_term ends in become_follower, or leaves the ledger alone.
LEMMA BecomeAwareFollows ==
  ASSUME NEW n, NEW s, WellFormed(s), Follows(s), NEW term \in Nat
  PROVE  Follows(become_aware_of_new_term(n, s, term))
<1> DEFINE s0 == [s EXCEPT !.current_view = term, !.voted_for = Nil,
                           !.votes_for_me = {}]
           s1 == become_follower(n, s0)
           s2 == [s1 EXCEPT !.is_new_follower = TRUE]
<1>1. s \in NodeState
  BY DEF WellFormed
<1>2. s0 \in NodeState /\ SameLog(s, s0) /\ SameConfigs(s, s0)
  BY <1>1, ZenonT(40) DEF NodeState, SameLog, SameConfigs
<1>3. become_aware_of_new_term(n, s, term) = s2
  BY DEF become_aware_of_new_term
<1> HIDE DEF s0
<1>4. WellFormed(s0) /\ Follows(s0)
  BY <1>2, SameLogStep, SameFollows DEF Step
<1>5. Follows(s1) /\ s1 \in NodeState
  BY <1>4, BecomeFollower, BecomeFollowerFollows DEF Step, WellFormed
<1> HIDE DEF s1
<1>6. SameConfigs(s1, s2)
  BY <1>5, ZenonT(40) DEF NodeState, SameConfigs
<1> HIDE DEF s2
<1> QED BY <1>3, <1>5, <1>6, SameFollows

\* become_leader rolls back to the last signature.
LEMMA BecomeLeaderFollows ==
  ASSUME NEW n \in Node, NEW s, WellFormed(s), Follows(s)
  PROVE  Follows(become_leader(n, s))
<1> DEFINE s1 == [s EXCEPT !.committable_indices = {}]
           r1 == rollback(n, s1, last_committable_index(s))
           s2 == IF s.commit_idx > 0 THEN r1 ELSE s1
           s3 == [s2 EXCEPT !.leadership_state = "Leader", !.leader_id = n,
                            !.match_idx = no_index]
           start == [p \in Node |-> last_idx(s3) + 1]
           t1 == commit(n, s3, last_idx(s3))
           t2 == send_append_entries(s3, nodes(n, s3), start)
<1>1. s \in NodeState /\ last_idx(s) \in Nat /\ s.commit_idx \in Nat
  BY Fields DEF WellFormed
<1>2. /\ s1 \in NodeState /\ s1.committable_indices = {} /\ SameConfigs(s, s1)
      /\ s1.view_history = s.view_history
  BY <1>1, ZenonT(40) DEF NodeState, SameConfigs
<1>3. become_leader(n, s) = IF is_retired(s) THEN s
                           ELSE IF nodes(n, s3) = {} THEN t1 ELSE t2
  BY DEF become_leader
<1> HIDE DEF s1
<1>4. WellFormed(s1) /\ Follows(s1) /\ last_idx(s1) = last_idx(s)
  <2>1. last_idx(s1) = last_idx(s)
    BY <1>2 DEF SameConfigs, last_idx
  <2>2. WellFormed(s1)
    BY <1>2, <2>1 DEF WellFormed, well_indexed, SameConfigs
  <2> QED BY <1>2, <2>1, <2>2, SameFollows
<1>5. last_committable_index(s) \in 0 .. last_idx(s1)
  <2>1. last_committable_index(s) \in s.commit_idx .. last_idx(s)
    BY LastCommittable
  <2> QED BY <1>1, <1>4, <2>1
<1>6. WellFormed(r1) /\ Follows(r1)
  BY <1>4, <1>5, Rollback, RollbackFollows DEF Step
<1> HIDE DEF r1
<1>7. WellFormed(s2) /\ Follows(s2) /\ s2 \in NodeState
  BY <1>4, <1>6 DEF WellFormed
<1> HIDE DEF s2
<1>8. s3 \in NodeState /\ SameLog(s2, s3) /\ SameConfigs(s2, s3)
  <2>1. no_index \in [Node -> Nat] /\ n \in Node \union {Nil}
    BY DEF no_index
  <2> QED BY <1>7, <2>1, ZenonT(40) DEF NodeState, SameLog, SameConfigs
<1> HIDE DEF s3
<1>9. WellFormed(s3) /\ Follows(s3) /\ last_idx(s3) \in Nat
  BY <1>7, <1>8, SameLogStep, SameFollows, Fields DEF Step
<1>10. Follows(t1)
  BY <1>9, CommitStepFollows
<1>11. Follows(t2)
  <2>1. SameConfigs(s3, t2)
    BY <1>8, SendSameConfigs
  <2> HIDE DEF t2
  <2> QED BY <1>9, <2>1, SameFollows
<1> HIDE DEF t1, t2
<1> QED BY <1>3, <1>10, <1>11

\* add_vote_for_me may end in become_leader.
LEMMA AddVoteFollows ==
  ASSUME NEW n \in Node, NEW s, WellFormed(s), Follows(s), NEW from \in Node
  PROVE  Follows(add_vote_for_me(n, s, from))
<1> DEFINE votes == s.votes_for_me \union {from}
           s1 == [s EXCEPT !.votes_for_me = votes]
<1>1. s \in NodeState /\ votes \in SUBSET Node
  BY Fields DEF WellFormed
<1>2. \/ add_vote_for_me(n, s, from) = s1
      \/ add_vote_for_me(n, s, from) = become_leader(n, s1)
  BY DEF add_vote_for_me
<1> HIDE DEF votes
<1>3. s1 \in NodeState /\ SameLog(s, s1) /\ SameConfigs(s, s1)
  BY <1>1, ZenonT(40) DEF NodeState, SameLog, SameConfigs
<1> HIDE DEF s1
<1>4. WellFormed(s1) /\ Follows(s1)
  BY <1>3, SameLogStep, SameFollows DEF Step
<1> QED BY <1>2, <1>4, BecomeLeaderFollows

\* become_candidate votes for itself, and may be leader at once.
LEMMA BecomeCandidateFollows ==
  ASSUME NEW n \in Node, NEW s, WellFormed(s), Follows(s)
  PROVE  Follows(become_candidate(n, s))
<1> DEFINE view == s.current_view + 1
           s1 == [s EXCEPT !.leadership_state = "Candidate", !.leader_id = Nil,
                           !.voted_for = n, !.votes_for_me = {},
                           !.current_view = view]
           s2 == add_vote_for_me(n, s1, n)
           t == send_request_vote(s2, nodes(n, s))
<1>1. s \in NodeState /\ view \in Nat
  BY Fields DEF WellFormed
<1>2. become_candidate(n, s) = t
  BY DEF become_candidate
<1> HIDE DEF view
<1>3. s1 \in NodeState
  <2>1. {} \in SUBSET Node /\ n \in Node \union {Nil}
    OBVIOUS
  <2> DEFINE u == [s EXCEPT !.leadership_state = "Candidate", !.leader_id = Nil,
                            !.voted_for = n]
  <2>2. u \in NodeState
    BY <1>1, <2>1, ZenonT(40) DEF NodeState
  <2>3. s1 = [u EXCEPT !.votes_for_me = {}, !.current_view = view]
    OBVIOUS
  <2> HIDE DEF u, s1
  <2>4. [u EXCEPT !.votes_for_me = {}, !.current_view = view] \in NodeState
    BY <1>1, <2>1, <2>2, ZenonT(40) DEF NodeState
  <2> QED BY <2>3, <2>4
<1>4. SameLog(s, s1) /\ SameConfigs(s, s1)
  BY <1>1, ZenonT(40) DEF NodeState, SameLog, SameConfigs
<1> HIDE DEF s1
<1>5. WellFormed(s1) /\ Follows(s1)
  BY <1>3, <1>4, SameLogStep, SameFollows DEF Step
<1>6. Follows(s2) /\ s2 \in NodeState
  BY <1>5, AddVote, AddVoteFollows DEF Step, WellFormed
<1> HIDE DEF s2
<1>7. SameConfigs(s2, t)
  BY <1>6, SendSameConfigs
<1> HIDE DEF t
<1> QED BY <1>2, <1>6, <1>7, SameFollows

\* add_configuration adds a configuration other than the latest.
LEMMA AddConfigurationConfigs ==
  ASSUME NEW n, NEW s, WellFormed(s), NEW idx \in Nat, NEW conf \in SUBSET Node
  PROVE  LET t == add_configuration(n, s, idx, conf)
         IN  /\ t.ledger = s.ledger /\ t.commit_idx = s.commit_idx
             /\ t.configurations = with_configuration(s, idx, conf)
<1> DEFINE r1 == become_retired(s, idx, "Ordered")
           s1 == IF is_self_in_latest_config(n, s) /\ n \notin conf THEN r1 ELSE s
           configs == s.configurations \union {[idx |-> idx, nodes |-> conf]}
           t == create_and_remove_node_state(n, s1, configs)
<1>1. s \in NodeState
  BY DEF WellFormed
<1>2. r1 \in NodeState /\ SameConfigs(s, r1)
  BY <1>1, BecomeRetired, RetireSameConfigs
<1>3. add_configuration(n, s, idx, conf) =
        IF s.configurations # {} /\ latest_config(s).nodes = conf THEN s1 ELSE t
  BY DEF add_configuration
<1> HIDE DEF r1
<1>4. s1 \in NodeState /\ SameConfigs(s, s1)
  BY <1>1, <1>2 DEF SameConfigs
<1> HIDE DEF s1
<1>5. configs \in SUBSET Configuration
  BY <1>1, Fields DEF Configuration
<1>6. /\ t.ledger = s1.ledger /\ t.commit_idx = s1.commit_idx
      /\ t.configurations = configs
  <2> HIDE DEF configs
  <2> QED BY <1>4, <1>5, CreateConfigs
<1> HIDE DEF t
<1> QED BY <1>3, <1>4, <1>6 DEF SameConfigs, with_configuration

\* add_committable touches no configuration.
LEMMA AddCommittableConfigs ==
  ASSUME NEW s \in NodeState, NEW idx \in Nat
  PROVE  SameConfigs(s, add_committable(s, idx))
<1> DEFINE r1 == become_retired(s, idx, "Signed")
           s1 == IF is_retired(s) /\ s.retirement_phase = "Ordered" THEN r1 ELSE s
           sigs == s1.committable_indices \union {idx}
           t == [s1 EXCEPT !.committable_indices = sigs]
<1>1. r1 \in NodeState /\ SameConfigs(s, r1)
  BY BecomeRetired, RetireSameConfigs
<1>2. add_committable(s, idx) = t
  BY DEF add_committable
<1> HIDE DEF r1
<1>3. s1 \in NodeState /\ SameConfigs(s, s1)
  BY <1>1 DEF SameConfigs
<1> HIDE DEF s1, sigs
<1>4. SameConfigs(s1, t)
  BY <1>3, ZenonT(40) DEF NodeState, SameConfigs
<1> HIDE DEF t
<1> QED BY <1>2, <1>3, <1>4, SameConfigsTransitive

\* The configurations after one iteration of execute_append_entries_sync.
LEMMA ExecuteEntryFollows ==
  ASSUME NEW n, NEW s, WellFormed(s), Follows(s), NEW e \in Entry,
         NEW r \in AppendEntries, r.prev_idx <= last_idx(s)
  PROVE  Follows(execute_append_entry(n, s, e, r))
<1> DEFINE s1 == [s EXCEPT !.ledger = Append(@, e)]
           i == last_idx(s1)
           added == add_configuration(n, s1, i, e.nodes)
           s2 == IF e.type = "config" THEN added ELSE s1
           s2t == start_ticking_if_necessary(n, s2)
           s3 == add_committable(s2t, i)
           start == IF r.term_of_idx = InvalidView THEN 1 ELSE r.prev_idx + 1
           term == IF r.term_of_idx = InvalidView THEN r.term ELSE e.term
           s4 == [s3 EXCEPT !.view_history = update(@, start, term)]
           failed == [s EXCEPT !.apply = "FAIL"]
           thrown == [s3 EXCEPT !.apply = "throw"]
           done == commit_if_possible(n, s4, r.leader_commit_idx)
<1>1. /\ s \in NodeState /\ last_idx(s) \in Nat /\ s.commit_idx \in Nat
      /\ s.commit_idx <= last_idx(s)
  BY Fields DEF WellFormed, well_indexed
<1>2. /\ e.nodes \in SUBSET Node /\ e.term \in Nat
      /\ r.prev_idx \in Nat /\ r.term \in Nat /\ r.leader_commit_idx \in Nat
  BY DEF Entry, AppendEntries
<1>3. execute_append_entry(n, s, e, r) \in {s, failed, s2, thrown, done}
      /\ (e.type # "sig" => execute_append_entry(n, s, e, r) \in {s, failed, s2})
  <2>1. execute_append_entry(n, s, e, r) =
          IF s.apply # "PASS" THEN s
          ELSE IF e.term # r.term_of_idx THEN failed
          ELSE IF e.type # "sig" THEN s2
          ELSE IF update_throws(s3.view_history, start) THEN thrown
          ELSE done
    BY DEF execute_append_entry
  <2> HIDE DEF failed, s2, s3, start, thrown, done
  <2> QED BY <2>1
<1>4. /\ WellFormed(s1) /\ i = last_idx(s) + 1 /\ s1.ledger[i] = e /\ s1 \in NodeState
      /\ s1.commit_idx = s.commit_idx
  BY AppendLedger, ZenonT(20) DEF Step, WellFormed
<1>5. s1.ledger = Append(s.ledger, e) /\ s1.configurations = s.configurations
  <2> DEFINE log == Append(s.ledger, e)
  <2>1. s1 = [s EXCEPT !.ledger = log]
    OBVIOUS
  <2> HIDE DEF log, s1
  <2>2. s1.ledger = log /\ s1.configurations = s.configurations
    BY <1>1, <2>1, ZenonT(40) DEF NodeState
  <2> QED BY <2>2 DEF log
<1> HIDE DEF s1
<1>6. i \in Nat /\ WellFormed(s1)
  BY <1>1, <1>4
<1>7. s2 \in NodeState /\ SameLog(s1, s2) /\ Follows(s2)
  <2> HIDE DEF i
  <2>1. added \in NodeState /\ SameLog(s1, added)
    BY <1>2, <1>6, AddConfiguration
  <2>2. /\ added.ledger = s1.ledger /\ added.commit_idx = s1.commit_idx
        /\ added.configurations = with_configuration(s1, i, e.nodes)
    BY <1>2, <1>6, AddConfigurationConfigs
  <2>3. with_configuration(s1, i, e.nodes) = with_configuration(s, i, e.nodes)
    BY <1>5 DEF with_configuration, latest_config
  <2> HIDE DEF added
  <2>4. s2 \in NodeState /\ SameLog(s1, s2)
    BY <1>4, <2>1 DEF SameLog
  <2>5. /\ s2.ledger = Append(s.ledger, e) /\ s2.commit_idx = s.commit_idx
        /\ s2.configurations = IF e.type = "config"
                               THEN with_configuration(s, last_idx(s) + 1, e.nodes)
                               ELSE s.configurations
    BY <1>4, <1>5, <2>2, <2>3
  <2> HIDE DEF s2
  <2>6. Follows(s2)
    BY <2>5, AppendFollows
  <2> QED BY <2>4, <2>6
<1> HIDE DEF s2
<1>8. WellFormed(s2) /\ last_idx(s2) = i
  BY <1>6, <1>7, SameLogStep DEF Step, SameLog, last_idx
<1>9. s2t \in NodeState /\ SameLog(s2, s2t) /\ SameConfigs(s2, s2t)
  BY <1>7, StartTicking, RetireSameConfigs
<1> HIDE DEF s2t
<1>10. WellFormed(s2t) /\ Follows(s2t) /\ last_idx(s2t) = i
  BY <1>7, <1>8, <1>9, SameLogStep, SameFollows DEF Step, SameLog, last_idx
<1>11. s2t.ledger[i] = e /\ s2t.commit_idx = s.commit_idx
  BY <1>4, <1>7, <1>9 DEF SameLog
<1>12. /\ s3 \in NodeState /\ s3.ledger = s2t.ledger
       /\ s3.commit_idx = s2t.commit_idx /\ s3.view_history = s2t.view_history
       /\ s3.committable_indices = s2t.committable_indices \union {i}
       /\ SameConfigs(s2t, s3)
  <2> HIDE DEF i
  <2> QED BY <1>6, <1>9, AddCommittable, AddCommittableConfigs
<1> HIDE DEF s3
<1>13. Follows(s3) /\ last_idx(s3) = i
  BY <1>10, <1>12, SameFollows DEF last_idx
<1>14. ASSUME e.type = "sig" PROVE WellFormed(s3)
  <2>1. i \in s.commit_idx + 1 .. i
    BY <1>1, <1>4
  <2> QED BY <1>10, <1>11, <1>12, <1>13, <1>14, <2>1 DEF WellFormed, well_indexed
<1>15. Follows(failed)
  <2>1. SameConfigs(s, failed)
    BY <1>1, ZenonT(40) DEF NodeState, SameConfigs
  <2> HIDE DEF failed
  <2> QED BY <2>1, SameFollows
<1>16. Follows(thrown)
  <2>1. SameConfigs(s3, thrown)
    BY <1>12, ZenonT(40) DEF NodeState, SameConfigs
  <2> HIDE DEF thrown
  <2> QED BY <1>13, <2>1, SameFollows
<1>17. ASSUME e.type = "sig" PROVE Follows(done)
  <2>1. WellFormed(s3)
    BY <1>14, <1>17
  <2>2. start \in 1 .. last_idx(s3) + 1 /\ term \in Nat
    BY <1>1, <1>2, <1>4, <1>13
  <2> HIDE DEF start, term
  <2>3. WellFormed(s4)
    BY <2>1, <2>2, UpdateViews DEF Step
  <2>4. SameConfigs(s3, s4)
    <3> DEFINE views == update(s3.view_history, start, term)
    <3>1. s4 = [s3 EXCEPT !.view_history = views]
      OBVIOUS
    <3> HIDE DEF views, s4
    <3> QED BY <1>12, <3>1, ZenonT(40) DEF NodeState, SameConfigs
  <2> HIDE DEF s4
  <2>5. Follows(s4)
    BY <1>13, <2>4, SameFollows
  <2> QED BY <1>2, <2>3, <2>5, CommitIfPossibleFollows
<1> HIDE DEF failed, thrown, done
<1>18. CASE e.type = "sig"
  BY <1>3, <1>7, <1>15, <1>16, <1>17, <1>18
<1>19. CASE e.type # "sig"
  BY <1>3, <1>7, <1>15, <1>19
<1> QED BY <1>18, <1>19

\* execute_append_entries_sync applies the new entries one after the other.
LEMMA ExecuteSyncFollows ==
  ASSUME NEW n, NEW s, WellFormed(s), Follows(s), NEW new \in Seq(Entry),
         NEW r \in AppendEntries, r.prev_idx <= last_idx(s)
  PROVE  Follows(execute_append_entries_sync(n, s, new, r))
<1> DEFINE T == {x \in NodeState : /\ WellFormed(x) /\ Follows(x)
                                   /\ r.prev_idx <= last_idx(x)}
<1>1. r.prev_idx \in Nat /\ s \in NodeState
  BY DEF AppendEntries, WellFormed
<1>2. s \in T
  BY <1>1
<1>3. \A x \in T, k \in 1 .. Len(new) : execute_append_entry(n, x, new[k], r) \in T
  <2> SUFFICES ASSUME NEW x \in T, NEW k \in 1 .. Len(new)
               PROVE  execute_append_entry(n, x, new[k], r) \in T
    OBVIOUS
  <2> DEFINE e == new[k]
             y == execute_append_entry(n, x, e, r)
  <2>1. e \in Entry
    BY ElementOfSeq
  <2>2. WellFormed(x) /\ Follows(x) /\ r.prev_idx <= last_idx(x)
    OBVIOUS
  <2> HIDE DEF e
  <2>3. WellFormed(y) /\ last_idx(y) >= last_idx(x) /\ Follows(y)
    BY <2>1, <2>2, ExecuteEntry, ExecuteEntryFollows DEF Step
  <2> HIDE DEF y
  <2>4. y \in NodeState /\ last_idx(y) \in Nat /\ last_idx(x) \in Nat
    BY <2>2, <2>3, Fields DEF WellFormed
  <2>5. r.prev_idx <= last_idx(y)
    BY <1>1, <2>2, <2>3, <2>4
  <2> QED BY <2>3, <2>4, <2>5 DEF y, e
<1>4. Len(new) \in Nat
  BY LenProperties
<1> HIDE DEF T
<1>5. execute_append_entries_sync(n, s, new, r) \in T
  BY <1>2, <1>3, <1>4, SyncInduction
<1> QED BY <1>5 DEF T

\* execute_append_entries_finish updates the commit index.
LEMMA ExecuteFinishFollows ==
  ASSUME NEW n, NEW s, WellFormed(s), Follows(s), NEW from \in Node,
         NEW r \in AppendEntries
  PROVE  Follows(execute_append_entries_finish(n, s, from, r))
<1> DEFINE s1 == commit_if_possible(n, s, r.leader_commit_idx)
           lci == last_committable_index(s1)
           start == IF r.term_of_idx = InvalidView THEN 1 ELSE lci + 1
           term == IF r.term_of_idx = InvalidView THEN r.term ELSE r.term_of_idx
           views == update(s1.view_history, start, term)
           s2 == [s1 EXCEPT !.view_history = views]
           t1 == send_append_entries_response(s1, from, "OK", <<>>)
           t2 == send_append_entries_response(s2, from, "OK", <<>>)
<1>1. r.term \in Nat /\ r.term_of_idx \in Nat /\ r.leader_commit_idx \in Nat
  BY DEF AppendEntries
<1>2. execute_append_entries_finish(n, s, from, r) \in {s1, t1, t2}
  <2>1. execute_append_entries_finish(n, s, from, r) =
          LET new_term == r.term_of_idx = InvalidView \/ r.idx > lci
          IN  IF new_term /\ update_throws(s1.view_history, start) THEN s1
              ELSE send_append_entries_response(
                     IF new_term THEN s2 ELSE s1, from, "OK", <<>>)
    BY DEF execute_append_entries_finish
  <2> HIDE DEF s1, lci, s2, start, term
  <2> QED BY <2>1
<1>3. WellFormed(s1) /\ Follows(s1) /\ s1 \in NodeState
  BY <1>1, CommitIfPossible, CommitIfPossibleFollows DEF Step, WellFormed
<1> HIDE DEF s1
<1>4. last_idx(s1) \in Nat /\ s1.commit_idx \in Nat
  BY <1>3, Fields
<1>5. lci \in s1.commit_idx .. last_idx(s1)
  BY <1>3, LastCommittable
<1> HIDE DEF lci
<1>6. start \in 1 .. last_idx(s1) + 1 /\ term \in Nat
  BY <1>1, <1>4, <1>5
<1> HIDE DEF start, term
<1>7. views \in Seq(Nat)
  BY <1>3, <1>4, <1>6, Fields, UpdateSorted, ZenonT(20) DEF WellFormed, well_indexed
<1> HIDE DEF views
<1>8. s2 \in NodeState /\ SameConfigs(s1, s2)
  BY <1>3, <1>7, ZenonT(40) DEF NodeState, SameConfigs
<1> HIDE DEF s2
<1>9. SameConfigs(s1, t1) /\ SameConfigs(s2, t2)
  BY <1>3, <1>8, SendSameConfigs
<1> HIDE DEF t1, t2
<1>10. Follows(s2) /\ Follows(t1)
  BY <1>3, <1>8, <1>9, SameFollows
<1>11. Follows(t2)
  BY <1>9, <1>10, SameFollows
<1> QED BY <1>2, <1>3, <1>10, <1>11

\* The accepting half of recv_append_entries: the rollback of a new follower, the
\* entries and the commit each keep the configurations in step.
LEMMA AcceptedFollows ==
  ASSUME NEW n, NEW s, WellFormed(s), Follows(s), NEW from \in Node,
         NEW r \in AppendEntries
  PROVE  Follows(append_entries_accepted(n, s, from, r))
<1> DEFINE s1 == [s EXCEPT !.leader_id = from]
           r1 == rollback(n, s1, r.prev_idx)
           s2 == IF s.is_new_follower /\ last_idx(s) > r.prev_idx THEN r1 ELSE s1
           s3 == [s2 EXCEPT !.is_new_follower = FALSE]
           new == SubSeq(r.entries, last_idx(s3) - r.prev_idx + 1, Len(r.entries))
           s4 == execute_append_entries_sync(n, s3, new, r)
           t1 == execute_append_entries_finish(n, s4, from, r)
           t2 == send_append_entries_response(s4, from, "FAIL", <<>>)
           outside == r.prev_idx < s.commit_idx \/ r.prev_idx > last_idx(s)
<1>1. /\ s \in NodeState /\ last_idx(s) \in Nat /\ s.commit_idx \in Nat
      /\ r.prev_idx \in Nat /\ r.entries \in Seq(Entry)
  BY Fields DEF WellFormed, AppendEntries
<1>2. append_entries_accepted(n, s, from, r) =
        CASE outside -> s1
          [] OTHER -> CASE s4.apply = "PASS" -> t1
                        [] s4.apply = "FAIL" -> t2
                        [] s4.apply = "throw" -> s4
  BY DEF append_entries_accepted
<1>3. s1 \in NodeState /\ SameLog(s, s1) /\ SameConfigs(s, s1)
  <2>1. from \in Node \union {Nil}
    OBVIOUS
  <2> QED BY <1>1, <2>1, ZenonT(40) DEF NodeState, SameLog, SameConfigs
<1> HIDE DEF s1
<1>4. WellFormed(s1) /\ Follows(s1) /\ last_idx(s1) = last_idx(s)
  BY <1>3, SameLogStep, SameFollows DEF Step, SameLog, last_idx
<1>5. CASE outside
  BY <1>2, <1>4, <1>5
<1>6. CASE ~ outside
  <2>1. r.prev_idx \in 0 .. last_idx(s1) /\ r.prev_idx >= s1.commit_idx
    BY <1>1, <1>3, <1>4, <1>6 DEF SameLog
  <2>2. WellFormed(r1) /\ Follows(r1) /\ last_idx(r1) = r.prev_idx
    BY <1>4, <2>1, Rollback, RollbackFollows DEF Step
  <2> HIDE DEF r1
  <2>3. WellFormed(s2) /\ Follows(s2) /\ r.prev_idx <= last_idx(s2)
    <3>1. r.prev_idx <= r.prev_idx /\ r.prev_idx <= last_idx(s1)
      BY <1>1, <2>1
    <3>2. s2 = r1 \/ s2 = s1
      OBVIOUS
    <3> HIDE DEF s2
    <3> QED BY <1>4, <2>2, <3>1, <3>2
  <2> HIDE DEF s2
  <2>4. s3 \in NodeState /\ SameLog(s2, s3) /\ SameConfigs(s2, s3)
    <3>1. s2 \in NodeState /\ FALSE \in BOOLEAN
      BY <2>3 DEF WellFormed
    <3> QED BY <3>1, ZenonT(40) DEF NodeState, SameLog, SameConfigs
  <2> HIDE DEF s3
  <2>5. WellFormed(s3) /\ Follows(s3) /\ last_idx(s3) = last_idx(s2)
    BY <2>3, <2>4, SameLogStep, SameFollows DEF Step, SameLog, last_idx
  <2>6. last_idx(s3) \in Nat /\ r.prev_idx <= last_idx(s3)
    BY <2>3, <2>5, Fields DEF WellFormed
  <2>7. new \in Seq(Entry)
    <3> DEFINE first == last_idx(s3) - r.prev_idx + 1
    <3>1. first \in Nat \ {0} /\ Len(r.entries) \in Nat
      BY <1>1, <2>6, LenProperties
    <3> HIDE DEF first
    <3>2. \A i \in first .. Len(r.entries) : r.entries[i] \in Entry
      BY <1>1, <3>1, ElementOfSeq
    <3>3. SubSeq(r.entries, first, Len(r.entries)) \in Seq(Entry)
      BY <1>1, <3>1, <3>2, SubSeqProperties
    <3> QED BY <3>3 DEF first
  <2> HIDE DEF new
  <2>8. WellFormed(s4) /\ Follows(s4) /\ s4 \in NodeState
    BY <2>5, <2>6, <2>7, ExecuteSync, ExecuteSyncFollows DEF Step, WellFormed
  <2> HIDE DEF s4
  <2>9. Follows(t1)
    BY <2>8, ExecuteFinishFollows
  <2>10. SameConfigs(s4, t2)
    BY <2>8, SendSameConfigs
  <2> HIDE DEF t1, t2, outside
  <2>11. Follows(t2)
    BY <2>8, <2>10, SameFollows
  <2>12. s4.apply \in {"PASS", "FAIL", "throw"}
    BY <2>8 DEF NodeState
  <2> QED BY <1>2, <1>6, <2>8, <2>9, <2>11, <2>12
<1> QED BY <1>5, <1>6

\* The configurations after recv_append_entries.
LEMMA RecvAppendEntriesFollows ==
  ASSUME NEW n, NEW s, WellFormed(s), Follows(s), NEW from \in Node,
         NEW r \in AppendEntries
  PROVE  Follows(recv_append_entries(n, s, from, r))
<1> DEFINE s1 == IF \/ s.current_view < r.term
                    \/ s.current_view = r.term /\ s.leadership_state = "Candidate"
                 THEN become_aware_of_new_term(n, s, r.term) ELSE s
           prev_term == get_term_internal(s1, r.prev_idx)
           fail(rejected) == send_append_entries_response(s1, from, "FAIL", rejected)
           t == append_entries_accepted(n, s1, from, r)
           rejected == <<r.prev_term, r.prev_idx>>
<1>1. r.term \in Nat /\ s.current_view \in Nat
  BY Fields DEF WellFormed, AppendEntries
<1>2. recv_append_entries(n, s, from, r) \in {fail(<<>>), fail(rejected), t}
  <2>1. recv_append_entries(n, s, from, r) =
          CASE s.current_view > r.term -> fail(<<>>)
            [] s.current_view <= r.term /\ prev_term # r.prev_term ->
                 fail(IF prev_term = 0 THEN <<>> ELSE rejected)
            [] s.current_view <= r.term /\ prev_term = r.prev_term ->
                 IF /\ is_retired(s1) /\ s1.retirement_phase = "Completed"
                    /\ r.idx > s1.retirement_committable_idx
                 THEN fail(<<>>) ELSE t
    BY DEF recv_append_entries
  <2>2. \/ s.current_view > r.term
        \/ s.current_view <= r.term /\ prev_term # r.prev_term
        \/ s.current_view <= r.term /\ prev_term = r.prev_term
    BY <1>1
  <2> HIDE DEF s1, prev_term, rejected, t, fail
  <2> QED BY <1>1, <2>1, <2>2
<1>3. WellFormed(s1) /\ Follows(s1) /\ s1 \in NodeState
  BY <1>1, BecomeAware, BecomeAwareFollows DEF Step, WellFormed
<1> HIDE DEF s1
<1>4. Follows(fail(<<>>)) /\ Follows(fail(rejected))
  <2>1. ASSUME NEW x PROVE Follows(fail(x))
    <3>1. SameConfigs(s1, fail(x))
      BY <1>3, SendSameConfigs
    <3> HIDE DEF fail
    <3> QED BY <1>3, <3>1, SameFollows
  <2> HIDE DEF fail
  <2> QED BY <2>1
<1>5. Follows(t)
  BY <1>3, AcceptedFollows
<1> HIDE DEF fail, t
<1> QED BY <1>2, <1>4, <1>5

\* The configurations after recv_append_entries_response: only an
\* acknowledgement that moves the commit index drops some.
LEMMA RecvAppendEntriesResponseFollows ==
  ASSUME NEW n, NEW s, WellFormed(s), Follows(s), NEW from \in Node,
         NEW r \in AppendEntriesResponse
  PROVE  Follows(recv_append_entries_response(n, s, from, r))
<1> DEFINE match == IF r.last_log_idx < last_idx(s) THEN r.last_log_idx
                    ELSE last_idx(s)
           matches == [s.match_idx EXCEPT ![from] = match]
           s1 == [s EXCEPT !.match_idx = matches]
<1>1. /\ s \in NodeState /\ last_idx(s) \in Nat /\ s.match_idx \in [Node -> Nat]
      /\ r.last_log_idx \in Nat /\ r.term \in Nat
  BY Fields DEF WellFormed, AppendEntriesResponse
<1>2. append_entries_ack(n, s, from, r) \in {s, update_commit(n, s1)}
  <2>1. append_entries_ack(n, s, from, r) =
          IF r.term = s.current_view /\ r.last_log_idx >= s.match_idx[from]
          THEN update_commit(n, s1) ELSE s
    BY DEF append_entries_ack
  <2> HIDE DEF s1
  <2> QED BY <2>1
<1>3. match \in Nat
  BY <1>1
<1> HIDE DEF match
<1>4. matches \in [Node -> Nat]
  BY <1>1, <1>3
<1> HIDE DEF matches
<1>5. s1 \in NodeState /\ SameLog(s, s1) /\ SameConfigs(s, s1)
  BY <1>1, <1>4, ZenonT(40) DEF NodeState, SameLog, SameConfigs
<1> HIDE DEF s1
<1>6. WellFormed(s1) /\ Follows(s1)
  BY <1>5, SameLogStep, SameFollows DEF Step
<1>7. Follows(append_entries_ack(n, s, from, r))
  BY <1>2, <1>6, UpdateCommitFollows
<1>8. Follows(append_entries_nack(s, from, r))
  <2>1. ASSUME NEW x, NEW y
        PROVE  SameConfigs(s, [s EXCEPT !.match_idx = x, !.sent_idx = y])
    BY <1>1, ZenonT(40) DEF NodeState, SameConfigs
  <2>2. SameConfigs(s, append_entries_nack(s, from, r))
    BY <2>1 DEF append_entries_nack
  <2> QED BY <2>2, SameFollows
<1>9. Follows(become_aware_of_new_term(n, s, r.term))
  BY <1>1, BecomeAwareFollows
<1> QED BY <1>7, <1>8, <1>9 DEF recv_append_entries_response

\* The configurations after recv_request_vote.
LEMMA RecvRequestVoteFollows ==
  ASSUME NEW n, NEW s, WellFormed(s), Follows(s), NEW from \in Node,
         NEW r \in RequestVote
  PROVE  Follows(recv_request_vote(n, s, from, r))
<1> DEFINE s1 == IF s.current_view < r.term
                 THEN become_aware_of_new_term(n, s, r.term) ELSE s
           answer == /\ s.current_view <= r.term
                     /\ s1.leader_id = Nil
                     /\ s1.voted_for \in {Nil, from}
                     /\ up_to_date(s1, r)
           u == [s1 EXCEPT !.voted_for = from]
           s2 == IF answer THEN u ELSE s1
           t == send_request_vote_response(s2, from, answer)
<1>1. r.term \in Nat
  BY DEF RequestVote
<1>2. recv_request_vote(n, s, from, r) = t
  BY DEF recv_request_vote
<1>3. Follows(s1) /\ s1 \in NodeState
  BY <1>1, BecomeAware, BecomeAwareFollows DEF Step, WellFormed
<1> HIDE DEF answer, s1
<1>4. u \in NodeState /\ SameConfigs(s1, u)
  <2>1. from \in Node \union {Nil}
    OBVIOUS
  <2> QED BY <1>3, <2>1, ZenonT(40) DEF NodeState, SameConfigs
<1> HIDE DEF u
<1>5. s2 \in NodeState /\ SameConfigs(s1, s2)
  BY <1>3, <1>4 DEF SameConfigs
<1> HIDE DEF s2
<1>6. SameConfigs(s2, t)
  BY <1>5, SendSameConfigs
<1> HIDE DEF t
<1>7. SameConfigs(s1, t)
  BY <1>5, <1>6, SameConfigsTransitive
<1> QED BY <1>2, <1>3, <1>7, SameFollows

\* The configurations after any message.
LEMMA RecvMessageFollows ==
  ASSUME NEW n \in Node, NEW s, WellFormed(s), Follows(s), NEW from \in Node,
         NEW r \in Message
  PROVE  Follows(recv_message(n, s, from, r))
<1>1. CASE r \in AppendEntries
  <2>1. r.type = "AppendEntries"
    BY <1>1 DEF AppendEntries
  <2>2. recv_message(n, s, from, r) = recv_append_entries(n, s, from, r)
    BY <2>1 DEF recv_message
  <2> QED BY <1>1, <2>2, RecvAppendEntriesFollows
<1>2. CASE r \in AppendEntriesResponse
  <2>1. r.type = "AppendEntriesResponse"
    BY <1>2 DEF AppendEntriesResponse
  <2>2. recv_message(n, s, from, r) = recv_append_entries_response(n, s, from, r)
    BY <2>1 DEF recv_message
  <2> QED BY <1>2, <2>2, RecvAppendEntriesResponseFollows
<1>3. CASE r \in RequestVote
  <2>1. r.type = "RequestVote"
    BY <1>3 DEF RequestVote
  <2>2. recv_message(n, s, from, r) = recv_request_vote(n, s, from, r)
    BY <2>1 DEF recv_message
  <2> QED BY <1>3, <2>2, RecvRequestVoteFollows
<1>4. CASE r \in RequestVoteResponse
  <2>1. r.type = "RequestVoteResponse" /\ r.term \in Nat
    BY <1>4 DEF RequestVoteResponse
  <2>2. recv_message(n, s, from, r) = recv_request_vote_response(n, s, from, r)
    BY <2>1 DEF recv_message
  <2>3. /\ Follows(become_aware_of_new_term(n, s, r.term))
        /\ Follows(add_vote_for_me(n, s, from))
    BY <2>1, BecomeAwareFollows, AddVoteFollows
  <2> QED BY <2>2, <2>3 DEF recv_request_vote_response
<1> QED BY <1>1, <1>2, <1>3, <1>4 DEF Message

\* The configurations after the body of the loop of replicate: the hook of a
\* reconfiguration runs before the entry is counted in last_idx.
LEMMA ReplicateEntryFollows ==
  ASSUME NEW n, NEW s, WellFormed(s), Follows(s), NEW e \in Entry
  PROVE  Follows(replicate_entry(n, s, e))
<1> DEFINE index == last_idx(s) + 1
           added == add_configuration(n, s, index, e.nodes)
           committable == add_committable(s, index)
           ticking == start_ticking_if_necessary(n, committable)
           s1 == CASE e.type = "config" -> added
                   [] e.type = "sig" -> ticking
                   [] e.type = "tx" -> s
           log == Append(s1.ledger, e)
           views == update(s1.view_history, index, s.current_view)
           s2 == [s1 EXCEPT !.ledger = log, !.view_history = views]
<1>1. s \in NodeState /\ last_idx(s) \in Nat /\ index \in Nat
  BY Fields DEF WellFormed
<1>2. e.nodes \in SUBSET Node /\ e.type \in {"config", "sig", "tx"}
  BY DEF Entry
<1>3. replicate_entry(n, s, e) = s2
  BY DEF replicate_entry
<1> HIDE DEF index
<1>4. /\ s1 \in NodeState /\ s1.ledger = s.ledger /\ s1.commit_idx = s.commit_idx
      /\ s1.configurations = IF e.type = "config"
                             THEN with_configuration(s, index, e.nodes)
                             ELSE s.configurations
  <2>1. /\ added \in NodeState /\ added.ledger = s.ledger
        /\ added.commit_idx = s.commit_idx
        /\ added.configurations = with_configuration(s, index, e.nodes)
    BY <1>1, <1>2, AddConfiguration, AddConfigurationConfigs
  <2>2. committable \in NodeState /\ SameConfigs(s, committable)
    BY <1>1, AddCommittable, AddCommittableConfigs
  <2> HIDE DEF added, committable
  <2>3. ticking \in NodeState /\ SameConfigs(committable, ticking)
    BY <2>2, StartTicking, RetireSameConfigs
  <2> HIDE DEF ticking
  <2>4. CASE e.type = "config"
    <3>1. s1 = added
      BY <2>4
    <3> HIDE DEF s1
    <3> QED BY <2>1, <2>4, <3>1
  <2>5. CASE e.type = "sig"
    <3>1. s1 = ticking
      BY <2>5
    <3> HIDE DEF s1
    <3> QED BY <2>2, <2>3, <2>5, <3>1 DEF SameConfigs
  <2>6. CASE e.type = "tx"
    <3>1. s1 = s
      BY <2>6
    <3> HIDE DEF s1
    <3> QED BY <1>1, <2>6, <3>1
  <2> QED BY <1>2, <2>4, <2>5, <2>6
<1> HIDE DEF s1
<1>5. log = Append(s.ledger, e)
  BY <1>4
<1> HIDE DEF log, views
<1>6. /\ s2.ledger = log /\ s2.commit_idx = s1.commit_idx
      /\ s2.configurations = s1.configurations
  BY <1>4, ZenonT(40) DEF NodeState
<1> HIDE DEF s2
<1>7. Follows(s2)
  BY <1>4, <1>5, <1>6, AppendFollows DEF index
<1> QED BY <1>3, <1>7

\* The configurations after replicate.
LEMMA ReplicateFollows ==
  ASSUME NEW n, NEW s, WellFormed(s), Follows(s), NEW e \in Entry,
         NEW flush \in BOOLEAN
  PROVE  Follows(replicate(n, s, e, flush))
<1> DEFINE s2 == replicate_entry(n, s, e)
           start == [p \in Node |-> s2.sent_idx[p] + 1]
           sent == send_append_entries(s2, nodes(n, s2), start)
           s3 == IF flush THEN sent ELSE s2
<1>1. WellFormed(s2) /\ Follows(s2) /\ s2 \in NodeState
  BY ReplicateEntry, ReplicateEntryFollows DEF Step, WellFormed
<1>2. replicate(n, s, e, flush) =
        IF nodes(n, s3) = {} THEN update_commit(n, s3) ELSE s3
  BY DEF replicate
<1> HIDE DEF s2
<1>3. sent \in NodeState /\ SameLog(s2, sent) /\ SameConfigs(s2, sent)
  <2>1. nodes(n, s2) \in SUBSET Node /\ s2.sent_idx \in [Node -> Nat]
    BY <1>1, Fields, NodesType, ZenonT(20)
  <2>2. \A p \in nodes(n, s2) : start[p] \in Nat \ {0}
    BY <2>1
  <2> HIDE DEF start
  <2> QED BY <1>1, <2>1, <2>2, SendAppendEntries, SendSameConfigs
<1> HIDE DEF sent
<1>4. WellFormed(sent) /\ Follows(sent)
  BY <1>1, <1>3, SameLogStep, SameFollows DEF Step
<1>5. WellFormed(s3) /\ Follows(s3)
  BY <1>1, <1>4
<1> HIDE DEF s3
<1> QED BY <1>2, <1>5, UpdateCommitFollows

-----------------------------------------------------------------------------
(* The configurations of every node *)

\* The configurations of every node follow its ledger.
ConfigInv == \A n \in Node : Follows(node[n])

\* An action of one node keeps the configurations of all in step.
LEMMA FinishConfigs ==
  ASSUME IInv, ConfigInv, NEW n \in Node, NEW t, WellFormed(t), Follows(t),
         NEW channels, finish(n, t, channels)
  PROVE  ConfigInv'
<1> DEFINE u == [t EXCEPT !.out = no_output, !.apply = "PASS"]
<1>1. node' = [node EXCEPT ![n] = u] /\ node \in [Node -> NodeState]
  BY DEF finish, IInv, TypeOK
<1>2. SameConfigs(t, u)
  BY ZenonT(40) DEF NodeState, SameConfigs, WellFormed
<1> HIDE DEF u
<1>3. Follows(u)
  BY <1>2, SameFollows
<1>4. \A m \in Node : Follows(node'[m])
  <2> SUFFICES ASSUME NEW m \in Node PROVE Follows(node'[m])
    OBVIOUS
  <2>1. node'[m] = IF m = n THEN u ELSE node[m]
    BY <1>1
  <2> QED BY <1>3, <2>1 DEF ConfigInv
<1> QED BY <1>4 DEF ConfigInv

\* The configuration of entry 1 is the only one of a member of the service, and a
\* node that joins has none.
LEMMA InitConfigs == Init => ConfigInv
<1> SUFFICES ASSUME Init PROVE ConfigInv
  OBVIOUS
<1>1. ASSUME NEW n \in Node PROVE Follows(member(n))
  <2> DEFINE s == member(n)
             c1 == [idx |-> 1, nodes |-> InitialConfig]
  <2>1. s.ledger = InitialLedger /\ s.commit_idx = 2 /\ s.configurations = {c1}
    BY DEF member
  <2> HIDE DEF s
  <2>2. /\ Len(InitialLedger) = 2
        /\ InitialLedger[1] = [term |-> 2, type |-> "config", nodes |-> InitialConfig]
        /\ InitialLedger[2] = [term |-> 2, type |-> "sig", nodes |-> {}]
    BY DEF InitialLedger
  <2>3. InitialLedger[1].type = "config" /\ InitialLedger[2].type = "sig"
        /\ InitialLedger[1].nodes = InitialConfig
    BY <2>2
  <2>4. config_indices(s) = {1}
    BY <2>1, <2>2, <2>3 DEF config_indices, last_idx
  <2>5. c1.idx = 1 /\ c1.nodes = InitialConfig
    OBVIOUS
  <2> HIDE DEF c1
  <2>6. Follows(s)
    BY <2>1, <2>3, <2>4, <2>5 DEF Follows
  <2> QED BY <2>6 DEF s
<1>2. Follows(joiner)
  <2>1. joiner.ledger = <<>> /\ joiner.configurations = {}
    BY DEF joiner
  <2>2. config_indices(joiner) = {}
    BY <2>1 DEF config_indices, last_idx
  <2> QED BY <2>1, <2>2 DEF Follows
<1>3. node = [n \in Node |-> IF n \in InitialConfig THEN member(n) ELSE joiner]
  BY DEF Init
<1> QED BY <1>1, <1>2, <1>3 DEF ConfigInv

\* Every step keeps the configurations of every node in step with its ledger.
LEMMA NextConfigs == IInv /\ ConfigInv /\ [Next]_vars => ConfigInv'
<1> SUFFICES ASSUME IInv, ConfigInv, [Next]_vars PROVE ConfigInv'
  OBVIOUS
<1>1. /\ net \in [Node \X Node -> Seq(Message)]
      /\ \A m \in Node : WellFormed(node[m]) /\ Follows(node[m])
  BY DEF IInv, TypeOK, IndicesWithinLedger, WellFormed, ConfigInv
<1>2. CASE UNCHANGED vars
  BY <1>2 DEF vars, ConfigInv
<1>3. CASE Next
  <2>1. PICK n \in Node :
          \/ Replicate(n) \/ ReplicateRejected(n) \/ SendUpdates(n)
          \/ CheckQuorum(n) \/ StartElection(n)
          \/ \E from \in Node : Receive(n, from) \/ Lose(n, from)
    BY <1>3 DEF Next
  <2> DEFINE s == node[n]
  <2>2. WellFormed(s) /\ Follows(s) /\ s \in NodeState
    BY <1>1 DEF WellFormed
  <2>3. /\ last_idx(s) \in Nat /\ nodes(n, s) \in SUBSET Node
        /\ s.sent_idx \in [Node -> Nat] /\ s.current_view \in Nat
    BY <2>2, Fields, NodesType, ZenonT(20)
  <2>4. CASE Replicate(n)
    <3>1. PICK e \in NewEntries(s), flush \in BOOLEAN :
            finish(n, replicate(n, s, e, flush), net)
      BY <2>4 DEF Replicate
    <3>2. e \in Entry
      BY <2>3, ConstantsAssumption DEF NewEntries, possible_reconfigs, Entry
    <3> DEFINE t == replicate(n, s, e, flush)
    <3>3. WellFormed(t) /\ Follows(t)
      BY <2>2, <3>2, ReplicateStep, ReplicateFollows DEF Step
    <3>4. finish(n, t, net)
      BY <3>1
    <3> HIDE DEF t
    <3> QED BY <3>3, <3>4, FinishConfigs
  <2>5. CASE ReplicateRejected(n)
    <3> DEFINE t == rollback(n, s, last_idx(s))
    <3>1. last_idx(s) \in 0 .. last_idx(s)
      BY <2>3
    <3>2. WellFormed(t) /\ Follows(t)
      BY <2>2, <3>1, Rollback, RollbackFollows DEF Step
    <3>3. finish(n, t, net)
      BY <2>5 DEF ReplicateRejected
    <3> HIDE DEF t
    <3> QED BY <3>2, <3>3, FinishConfigs
  <2>6. CASE SendUpdates(n)
    <3> DEFINE start == [p \in Node |-> s.sent_idx[p] + 1]
               t == send_append_entries(s, nodes(n, s), start)
    <3>1. \A p \in nodes(n, s) : start[p] \in Nat \ {0}
      BY <2>3
    <3>2. finish(n, t, net)
      BY <2>6 DEF SendUpdates
    <3> HIDE DEF start
    <3>3. t \in NodeState /\ SameLog(s, t) /\ SameConfigs(s, t)
      BY <2>2, <2>3, <3>1, SendAppendEntries, SendSameConfigs
    <3> HIDE DEF t
    <3>4. WellFormed(t) /\ Follows(t)
      BY <2>2, <3>3, SameLogStep, SameFollows DEF Step
    <3> QED BY <3>2, <3>4, FinishConfigs
  <2>7. CASE CheckQuorum(n)
    <3> DEFINE t == become_follower(n, s)
    <3>1. WellFormed(t) /\ Follows(t)
      BY <2>2, BecomeFollower, BecomeFollowerFollows DEF Step
    <3>2. finish(n, t, net)
      BY <2>7 DEF CheckQuorum
    <3> HIDE DEF t
    <3> QED BY <3>1, <3>2, FinishConfigs
  <2>8. CASE StartElection(n)
    <3> DEFINE t == become_candidate(n, s)
    <3>1. WellFormed(t) /\ Follows(t)
      BY <2>2, BecomeCandidate, BecomeCandidateFollows DEF Step
    <3>2. finish(n, t, net)
      BY <2>8 DEF StartElection
    <3> HIDE DEF t
    <3> QED BY <3>1, <3>2, FinishConfigs
  <2>9. ASSUME NEW from \in Node, Receive(n, from) PROVE ConfigInv'
    <3> DEFINE link == <<from, n>>
               r == Head(net[link])
               t == recv_message(n, s, from, r)
               channels == [net EXCEPT ![link] = Tail(@)]
    <3>1. net[link] \in Seq(Message) /\ net[link] # <<>>
      BY <1>1, <2>9 DEF Receive
    <3>2. r \in Message
      BY <3>1, HeadTailProperties
    <3>3. WellFormed(t) /\ Follows(t)
      <4> HIDE DEF r
      <4> QED BY <2>2, <3>2, RecvMessage, RecvMessageFollows DEF Step
    <3>4. finish(n, t, channels)
      BY <2>9 DEF Receive
    <3> HIDE DEF t, channels
    <3> QED BY <3>3, <3>4, FinishConfigs
  <2>10. ASSUME NEW from \in Node, Lose(n, from) PROVE ConfigInv'
    BY <2>10 DEF Lose, ConfigInv
  <2> QED BY <2>1, <2>4, <2>5, <2>6, <2>7, <2>8, <2>9, <2>10
<1> QED BY <1>2, <1>3

\* The configurations that every node counts votes and commits in are those of
\* its ledger, less the ones that a committed configuration superseded, for any
\* number of nodes, any reconfigurations and any elections, rollbacks and losses
\* between them.
THEOREM ConfigurationsFollowLedger == Spec => []ActiveConfigurations
<1>1. IInv /\ ConfigInv => ActiveConfigurations
  <2> SUFFICES ASSUME IInv, ConfigInv PROVE ActiveConfigurations
    OBVIOUS
  <2>1. ASSUME NEW n \in Node PROVE WellFormed(node[n]) /\ Follows(node[n])
    BY DEF IInv, TypeOK, IndicesWithinLedger, WellFormed, ConfigInv
  <2>2. ASSUME NEW n \in Node, NEW i \in config_indices(node[n]),
               ~ \E j \in config_indices(node[n]) : i < j /\ j <= node[n].commit_idx
        PROVE  \E c \in node[n].configurations : c.nodes = node[n].ledger[i].nodes
    BY <2>1, <2>2, FollowsActive
  <2>3. ASSUME NEW n \in Node, NEW c \in node[n].configurations
        PROVE  /\ c.idx \in config_indices(node[n])
               /\ node[n].ledger[c.idx].nodes = c.nodes
    BY <2>1 DEF Follows
  <2> QED BY <2>2, <2>3 DEF ActiveConfigurations
<1>2. IInv /\ ConfigInv /\ [Next]_vars => ConfigInv'
  BY NextConfigs
<1> QED BY Invariant, InitConfigs, <1>1, <1>2, PTL DEF Spec

=============================================================================
