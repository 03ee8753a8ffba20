------------------------ MODULE MCViewHistoryProofs ------------------------
(***************************************************************************)
(* The view history of a ledger, for every number of views and of entries: *)
(* the invariants that MCViewHistory checks on small ledgers, and the      *)
(* inductive one they follow from.                                         *)
(***************************************************************************)
EXTENDS MCViewHistory, ViewHistoryProofs

\* The inductive invariant: slot v of the history is the first index of a view
\* no earlier than v, and every slot is that of some entry.
HistoryInv ==
  /\ views \in Seq(Nat)
  /\ terms \in Seq(Nat)
  /\ SortedWithin(views, Len(terms))
  /\ \A v \in 1 .. Len(views) : views[v] <= Len(terms)
  /\ \A i \in 1 .. Len(terms) : terms[i] \in 1 .. Len(views)
  /\ \A i \in 1 .. Len(terms), v \in 1 .. Len(views) :
       views[v] <= i <=> v <= terms[i]

\* What is known of a history that satisfies the invariant.
LEMMA HistoryFacts ==
  ASSUME HistoryInv
  PROVE  /\ Len(terms) \in Nat /\ Len(views) \in Nat
         /\ DOMAIN views = 1 .. Len(views)
         /\ \A v \in 1 .. Len(views) : views[v] \in 1 .. Len(terms)
         /\ \A i \in 0 .. Len(terms) :
              view_at(views, i) = IF i = 0 THEN 0 ELSE terms[i]
         /\ terms # <<>> => terms[Len(terms)] = Len(views)
         /\ terms = <<>> => Len(views) = 0
<1>1. /\ Len(terms) \in Nat /\ Len(views) \in Nat
      /\ DOMAIN views = 1 .. Len(views)
  BY LenProperties DEF HistoryInv
<1>2. \A v \in 1 .. Len(views) : views[v] \in 1 .. Len(terms)
  BY <1>1 DEF HistoryInv, SortedWithin
<1>3. ASSUME NEW i \in 0 .. Len(terms)
      PROVE  view_at(views, i) = IF i = 0 THEN 0 ELSE terms[i]
  <2>1. i \in Nat
    BY <1>1
  <2>2. /\ view_at(views, i) \in 0 .. Len(views)
        /\ \A v \in 1 .. Len(views) : views[v] <= i <=> v <= view_at(views, i)
    BY <1>1, <2>1, UpperBound DEF HistoryInv, view_at
  <2>3. CASE i = 0
    BY <1>1, <1>2, <2>2, <2>3
  <2>4. CASE i # 0
    <3>1. /\ terms[i] \in 1 .. Len(views)
          /\ \A v \in 1 .. Len(views) : views[v] <= i <=> v <= terms[i]
      BY <2>1, <2>4 DEF HistoryInv
    <3> QED BY <1>1, <2>2, <2>4, <3>1
  <2> QED BY <2>3, <2>4
<1>4. ASSUME terms # <<>> PROVE terms[Len(terms)] = Len(views)
  <2>1. Len(terms) \in 1 .. Len(terms)
    BY <1>1, <1>4, EmptySeq DEF HistoryInv
  <2>2. terms[Len(terms)] \in 1 .. Len(views)
    BY <2>1 DEF HistoryInv
  <2>3. views[Len(views)] <= Len(terms)
    BY <1>1, <2>2 DEF HistoryInv
  <2>4. Len(views) <= terms[Len(terms)]
    BY <1>1, <2>1, <2>2, <2>3 DEF HistoryInv
  <2> QED BY <1>1, <2>2, <2>4
<1>5. ASSUME terms = <<>> PROVE Len(views) = 0
  <2>1. Len(terms) = 0
    BY <1>5
  <2> QED BY <1>1, <1>2, <2>1
<1> QED BY <1>1, <1>2, <1>3, <1>4, <1>5

\* The three invariants hold wherever the inductive one does.
LEMMA ViewOfEveryEntryHolds == HistoryInv => ViewOfEveryEntry
BY HistoryFacts DEF ViewOfEveryEntry, InvalidView

\* start_of_view and end_of_view delimit the entries of a view.
LEMMA StartAndEndHold == HistoryInv => StartAndEnd
<1> SUFFICES ASSUME HistoryInv, NEW v \in 0 .. MaxView + 1
             PROVE  /\ start_of_view(views, v) =
                         IF of_view(v) = {} THEN NoVersion ELSE Min(of_view(v))
                    /\ end_of_view(views, v) =
                         IF of_view(v) = {} \/ v = terms[Len(terms)]
                         THEN NoVersion ELSE Max(of_view(v))
  BY DEF StartAndEnd
<1>0. v \in Nat
  BY HistoryBounds
<1>1. /\ Len(terms) \in Nat /\ Len(views) \in Nat
      /\ DOMAIN views = 1 .. Len(views)
      /\ \A w \in 1 .. Len(views) : views[w] \in 1 .. Len(terms)
      /\ terms # <<>> => terms[Len(terms)] = Len(views)
      /\ terms = <<>> => Len(views) = 0
  BY HistoryFacts
<1>2. \A i \in 1 .. Len(terms) : terms[i] \in 1 .. Len(views)
  BY DEF HistoryInv
<1>3. \A i \in 1 .. Len(terms), w \in 1 .. Len(views) :
        views[w] <= i <=> w <= terms[i]
  BY DEF HistoryInv
<1>4. CASE v \notin 1 .. Len(views)
  <2>1. of_view(v) = {}
    BY <1>2, <1>4 DEF of_view
  <2>2. start_of_view(views, v) = NoVersion
    BY <1>1, <1>4 DEF start_of_view
  <2> QED BY <2>1, <2>2 DEF end_of_view
<1>5. CASE v \in 1 .. Len(views) /\ v = Len(views)
  <2>1. of_view(v) = {i \in 1 .. Len(terms) : views[v] <= i}
    BY <1>1, <1>2, <1>3, <1>5 DEF of_view
  <2>2. views[v] \in of_view(v) /\ \A i \in of_view(v) : views[v] <= i /\ i \in Nat
    BY <1>1, <1>5, <2>1
  <2>3. Min(of_view(v)) = views[v]
    BY <1>1, <1>5, <2>2 DEF Min
  <2>4. start_of_view(views, v) = views[v]
    BY <1>1, <1>5 DEF start_of_view
  <2>5. end_of_view(views, v) = NoVersion
    BY <1>0, <1>1, <1>5 DEF end_of_view
  <2>6. terms # <<>> /\ v = terms[Len(terms)]
    BY <1>1, <1>5
  <2> QED BY <2>2, <2>3, <2>4, <2>5, <2>6
<1>6. CASE v \in 1 .. Len(views) /\ v < Len(views)
  <2>1. v + 1 \in 1 .. Len(views)
    BY <1>1, <1>6
  <2>2. of_view(v) = {i \in 1 .. Len(terms) : views[v] <= i /\ i < views[v + 1]}
    <3>1. ASSUME NEW i \in 1 .. Len(terms)
          PROVE  terms[i] = v <=> views[v] <= i /\ i < views[v + 1]
      <4>1. (views[v] <= i <=> v <= terms[i]) /\ (views[v + 1] <= i <=> v + 1 <= terms[i])
        BY <1>3, <1>6, <2>1
      <4>2. terms[i] \in Nat /\ views[v] \in Nat /\ views[v + 1] \in Nat /\ i \in Nat
        BY <1>1, <1>2, <1>6, <2>1
      <4> QED BY <1>0, <4>1, <4>2
    <3> QED BY <3>1 DEF of_view
  <2>3. /\ views[v] \in 1 .. Len(terms) /\ views[v + 1] \in 1 .. Len(terms)
        /\ views[v] <= views[v + 1]
    <3>1. v \in DOMAIN views /\ v + 1 \in DOMAIN views /\ v <= v + 1
      BY <1>0, <1>1, <1>6, <2>1
    <3>2. views[v] <= views[v + 1]
      BY <3>1 DEF HistoryInv, SortedWithin
    <3> QED BY <1>1, <1>6, <2>1, <3>2
  <2>4. v # terms[Len(terms)]
    <3>1. terms # <<>>
      BY <1>1, <1>6
    <3> QED BY <1>1, <1>6, <3>1
  <2>5. CASE views[v] = views[v + 1]
    <3>1. of_view(v) = {}
      BY <2>2, <2>3, <2>5
    <3>2. start_of_view(views, v) = NoVersion
      BY <1>1, <2>1, <2>5 DEF start_of_view
    <3> QED BY <3>1, <3>2 DEF end_of_view
  <2>6. CASE views[v] # views[v + 1]
    <3>1. views[v] \in of_view(v) /\ \A i \in of_view(v) : views[v] <= i /\ i \in Nat
      BY <1>1, <2>2, <2>3, <2>6
    <3>2. Min(of_view(v)) = views[v]
      BY <2>3, <3>1 DEF Min
    <3>3. /\ views[v + 1] - 1 \in of_view(v)
          /\ \A i \in of_view(v) : i <= views[v + 1] - 1 /\ i \in Nat
      BY <1>1, <2>2, <2>3, <2>6
    <3>4. Max(of_view(v)) = views[v + 1] - 1
      BY <2>3, <3>3 DEF Max
    <3>5. start_of_view(views, v) = views[v]
      BY <1>1, <1>6, <2>6 DEF start_of_view
    <3>6. end_of_view(views, v) = views[v + 1] - 1
      BY <1>0, <1>1, <1>6, <2>3, <3>5 DEF end_of_view, NoVersion
    <3> QED BY <2>4, <3>1, <3>2, <3>4, <3>5, <3>6
  <2> QED BY <2>5, <2>6
<1>7. \/ v \notin 1 .. Len(views)
      \/ v \in 1 .. Len(views) /\ v = Len(views)
      \/ v \in 1 .. Len(views) /\ v < Len(views)
  <2>1. Len(views) \in Nat
    BY <1>1
  <2> QED BY <1>0, <2>1
<1> QED BY <1>4, <1>5, <1>6, <1>7

\* find_highest_possible_match is the last index that both ledgers can share.
LEMMA HighestPossibleMatchHolds == HistoryInv => HighestPossibleMatch
<1> SUFFICES ASSUME HistoryInv,
                    NEW view \in 0 .. MaxView + 1, NEW n \in 0 .. MaxLedger + 1
             PROVE  find_highest_possible_match(views, Len(terms), view, n) =
                      Max({0} \union {i \in 1 .. Len(terms) :
                                        i <= n /\ terms[i] <= view})
  BY DEF HighestPossibleMatch
<1> DEFINE match == find_highest_possible_match(views, Len(terms), view, n)
           M == possible_matches(views, Len(terms), view, n)
           R == {0} \union {i \in 1 .. Len(terms) : i <= n /\ terms[i] <= view}
<1>1. view \in Nat /\ n \in Nat
  BY HistoryBounds
<1>2. Len(terms) \in Nat
  BY HistoryFacts
<1>3. match \in M /\ \A i \in M : i <= match
  BY <1>1, <1>2, HighestMatch DEF HistoryInv
<1>4. \A i \in 0 .. Len(terms) : view_at(views, i) = IF i = 0 THEN 0 ELSE terms[i]
  BY HistoryFacts
<1>5. M = R
  BY <1>1, <1>2, <1>4 DEF possible_matches
<1>6. \A i \in R : i \in Int
  BY <1>2
<1>7. match = Max(R)
  <2> HIDE DEF match, M, R
  <2> QED BY <1>3, <1>5, <1>6 DEF Max
<1> QED BY <1>7

\* update, told of an entry of a view no earlier than the last one, fills the
\* slots of that view and of those that were skipped.
LEMMA AppendKeepsHistory ==
  ASSUME HistoryInv, NEW view \in 1 .. MaxView, Append_entry(view)
  PROVE  HistoryInv'
<1> DEFINE n == Len(terms)
           k == Len(views)
<1>0. view \in Nat /\ view >= 1
  BY HistoryBounds
<1>1. /\ n \in Nat /\ k \in Nat
      /\ DOMAIN views = 1 .. k
      /\ \A v \in 1 .. k : views[v] \in 1 .. n
      /\ terms # <<>> => terms[n] = k
      /\ terms = <<>> => k = 0
  BY HistoryFacts
<1>2. /\ terms \in Seq(Nat) /\ views \in Seq(Nat)
      /\ \A i \in 1 .. n : terms[i] \in 1 .. k
      /\ \A i \in 1 .. n, v \in 1 .. k : views[v] <= i <=> v <= terms[i]
  BY DEF HistoryInv
<1>3. /\ terms' \in Seq(Nat) /\ Len(terms') = n + 1
      /\ \A i \in 1 .. n : terms'[i] = terms[i]
      /\ terms'[n + 1] = view
  BY <1>0, <1>2, AppendProperties DEF Append_entry
<1>4. ~ update_throws(views, n + 1)
  BY <1>1, EmptySeq, <1>2 DEF update_throws
<1>5. k <= view
  BY <1>0, <1>1 DEF Append_entry
<1>6. /\ views' \in Seq(Nat) /\ SortedWithin(views', n + 1)
      /\ Len(views') = view
      /\ \A v \in 1 .. k : views'[v] = views[v]
      /\ \A v \in k + 1 .. view : views'[v] = n + 1
  <2>1. SortedWithin(views, n + 1)
    BY <1>1 DEF HistoryInv, SortedWithin
  <2>2. n + 1 \in 1 .. (n + 1) + 1 /\ n + 1 \in Nat
    BY <1>1
  <2>3. views' = update(views, n + 1, view)
    BY DEF Append_entry
  <2>4. views' \in Seq(Nat) /\ SortedWithin(views', n + 1)
    BY <1>0, <1>2, <2>1, <2>2, <2>3, UpdateSorted
  <2>5. CASE k = view
    <3>1. views' = views
      BY <1>0, <2>3, <2>5 DEF update
    <3> QED BY <1>0, <1>1, <2>4, <2>5, <3>1
  <2>6. CASE k < view
    <3> DEFINE tail == [j \in 1 .. view - k |-> n + 1]
    <3>1. views' = views \o tail
      BY <1>0, <1>1, <1>4, <2>3, <2>6 DEF update
    <3>2. view - k \in Nat /\ tail \in [1 .. view - k -> Nat]
      BY <1>0, <1>1, <2>6
    <3>3. tail \in Seq(Nat) /\ Len(tail) = view - k
      <4>1. tail \in Seq(Nat)
        BY <3>2, SeqDef
      <4>2. DOMAIN tail = 1 .. view - k
        OBVIOUS
      <4>3. DOMAIN tail = 1 .. Len(tail) /\ Len(tail) \in Nat
        BY <4>1, LenProperties
      <4> HIDE DEF tail
      <4> QED BY <3>2, <4>1, <4>2, <4>3
    <3>4. \A j \in 1 .. view - k : tail[j] = n + 1
      OBVIOUS
    <3> HIDE DEF tail
    <3>5. /\ Len(views') = k + (view - k)
          /\ \A i \in 1 .. k + (view - k) :
               views'[i] = IF i <= k THEN views[i] ELSE tail[i - k]
      BY <1>2, <3>1, <3>3, ConcatProperties
    <3>6. k \in Nat /\ k + (view - k) = view
      BY <1>0, <1>1
    <3>7. \A v \in 1 .. k : views'[v] = views[v]
      BY <1>0, <2>6, <3>5, <3>6
    <3>8. ASSUME NEW v \in k + 1 .. view PROVE views'[v] = n + 1
      <4>1. v \in 1 .. k + (view - k) /\ ~ (v <= k) /\ v - k \in 1 .. view - k
        BY <1>0, <3>6
      <4> QED BY <3>4, <3>5, <4>1
    <3> QED BY <2>4, <3>5, <3>6, <3>7, <3>8
  <2>7. k = view \/ k < view
    <3>1. k \in Nat
      BY <1>1
    <3> QED BY <1>0, <1>5, <3>1
  <2> QED BY <2>5, <2>6, <2>7
<1>7. ASSUME NEW v \in 1 .. view PROVE views'[v] <= n + 1
  <2>1. n \in Nat /\ k \in Nat /\ v \in Nat
    BY <1>0, <1>1
  <2>2. CASE v \in 1 .. k
    BY <1>1, <1>6, <2>1, <2>2
  <2>3. CASE v \in k + 1 .. view
    BY <1>6, <2>1, <2>3
  <2> QED BY <1>0, <2>1, <2>2, <2>3
<1>8. ASSUME NEW i \in 1 .. n + 1 PROVE terms'[i] \in 1 .. view
  <2>1. n \in Nat /\ k \in Nat /\ i \in Nat
    BY <1>1
  <2>2. CASE i = n + 1
    BY <1>0, <1>3, <2>2
  <2>3. CASE i \in 1 .. n
    <3>1. terms'[i] = terms[i] /\ terms[i] \in 1 .. k
      BY <1>2, <1>3, <2>3
    <3> QED BY <1>0, <1>5, <2>1, <3>1
  <2> QED BY <2>1, <2>2, <2>3
<1>9. ASSUME NEW i \in 1 .. n + 1, NEW v \in 1 .. view
      PROVE  views'[v] <= i <=> v <= terms'[i]
  <2>1. CASE i = n + 1
    BY <1>0, <1>1, <1>3, <1>7, <2>1
  <2>2. CASE i \in 1 .. n /\ v \in 1 .. k
    BY <1>2, <1>3, <1>6, <2>2
  <2>3. CASE i \in 1 .. n /\ v \in k + 1 .. view
    <3>1. views'[v] = n + 1 /\ terms'[i] \in 1 .. k
      BY <1>2, <1>3, <1>6, <2>3
    <3> QED BY <1>0, <1>1, <2>3, <3>1
  <2> QED BY <1>0, <1>1, <1>5, <2>1, <2>2, <2>3
<1> QED BY <1>3, <1>6, <1>7, <1>8, <1>9 DEF HistoryInv

\* Cutting the ledger and the history at the same index: what a rollback does,
\* and what a node that starts from a snapshot is given.
LEMMA CutKeepsHistory ==
  ASSUME HistoryInv, NEW idx \in 0 .. Len(terms),
         terms' = SubSeq(terms, 1, idx),
         views' = rollback_views(views, idx)
  PROVE  HistoryInv'
<1> DEFINE n == Len(terms)
           u == upper_bound(views, idx)
<1>1. /\ n \in Nat /\ Len(views) \in Nat
      /\ \A v \in 1 .. Len(views) : views[v] \in 1 .. n
  BY HistoryFacts
<1>2. /\ terms \in Seq(Nat) /\ views \in Seq(Nat) /\ SortedWithin(views, n)
      /\ \A i \in 1 .. n : terms[i] \in 1 .. Len(views)
      /\ \A i \in 1 .. n, v \in 1 .. Len(views) : views[v] <= i <=> v <= terms[i]
  BY DEF HistoryInv
<1>3. idx \in Nat /\ idx <= n
  BY <1>1
<1>4. /\ u \in 0 .. Len(views)
      /\ \A v \in 1 .. Len(views) : views[v] <= idx <=> v <= u
  BY <1>1, <1>2, <1>3, UpperBound
<1>5. /\ terms' \in Seq(Nat) /\ Len(terms') = idx
      /\ \A i \in 1 .. idx : terms'[i] = terms[i]
  <2>1. \A i \in 1 .. idx : terms[i] \in Nat
    BY <1>1, <1>2, <1>3
  <2> QED BY <1>2, <1>3, <2>1, SubSeqProperties
<1>6. /\ Len(views') = u
      /\ \A v \in 1 .. u : views'[v] = views[v]
  <2>1. u \in Int /\ \A v \in 1 .. u : views[v] \in Nat
    BY <1>1, <1>4
  <2>2. views' = SubSeq(views, 1, u)
    BY DEF rollback_views
  <2> HIDE DEF u
  <2>3. /\ Len(SubSeq(views, 1, u)) = IF 1 <= u THEN u - 1 + 1 ELSE 0
        /\ \A v \in 1 .. u - 1 + 1 : SubSeq(views, 1, u)[v] = views[1 + v - 1]
    BY <1>2, <2>1, SubSeqProperties
  <2> QED BY <1>1, <1>4, <2>1, <2>2, <2>3
<1>7. views' \in Seq(Nat) /\ SortedWithin(views', idx)
  BY <1>1, <1>2, RollbackSorted
<1> HIDE DEF u
<1>8. \A v \in 1 .. u : views'[v] <= idx
  BY <1>1, <1>4, <1>6
<1>9. ASSUME NEW i \in 1 .. idx
      PROVE  /\ terms'[i] \in 1 .. u
             /\ \A v \in 1 .. u : views'[v] <= i <=> v <= terms'[i]
  <2>1. i \in 1 .. n /\ terms[i] \in 1 .. Len(views) /\ terms'[i] = terms[i]
    BY <1>1, <1>2, <1>3, <1>5
  <2>2. views[terms[i]] <= i
    BY <1>1, <1>2, <2>1
  <2>3. terms[i] <= u
    BY <1>1, <1>3, <1>4, <2>1, <2>2
  <2>4. \A v \in 1 .. u : v \in 1 .. Len(views)
    BY <1>1, <1>4
  <2>5. terms'[i] \in 1 .. u
    <3>1. u \in Nat /\ Len(views) \in Nat
      BY <1>1, <1>4
    <3> QED BY <2>1, <2>3, <3>1
  <2>6. \A v \in 1 .. u : views'[v] = views[v] /\ (views[v] <= i <=> v <= terms[i])
    BY <1>2, <1>6, <2>1, <2>4
  <2> QED BY <2>1, <2>5, <2>6
<1> QED BY <1>5, <1>6, <1>7, <1>8, <1>9 DEF HistoryInv

\* update and rollback, in any order, keep the view history that of the ledger.
LEMMA HistoryInvInductive == Spec => []HistoryInv
<1>1. Init => HistoryInv
  <2> SUFFICES ASSUME Init PROVE HistoryInv
    OBVIOUS
  <2>1. <<>> \in Seq(Nat) /\ Len(<<>>) = 0 /\ DOMAIN <<>> = {}
    OBVIOUS
  <2> QED BY <2>1 DEF Init, HistoryInv, SortedWithin
<1>2. HistoryInv /\ [Next]_history => HistoryInv'
  <2> SUFFICES ASSUME HistoryInv, [Next]_history PROVE HistoryInv'
    OBVIOUS
  <2>1. ASSUME NEW view \in 1 .. MaxView, Append_entry(view) PROVE HistoryInv'
    BY <2>1, AppendKeepsHistory
  <2>2. ASSUME NEW idx \in 0 .. Len(terms), Rollback(idx) PROVE HistoryInv'
    BY <2>2, CutKeepsHistory DEF Rollback
  <2>3. ASSUME NEW idx \in 0 .. Len(terms), Start_from(idx) PROVE HistoryInv'
    BY <2>3, CutKeepsHistory DEF Start_from, get_history_until, rollback_views
  <2>4. CASE UNCHANGED history
    BY <2>4 DEF history, HistoryInv, SortedWithin
  <2> QED BY <2>1, <2>2, <2>3, <2>4 DEF Next
<1> QED BY <1>1, <1>2, PTL DEF Spec

\* The view history tells the view of every entry of the ledger, for every
\* sequence of appended entries, skipped views, rollbacks and restarts from a
\* snapshot, if update is told of each entry as replicate does.
THEOREM ViewsFollowLedger == Spec => []ViewOfEveryEntry
BY HistoryInvInductive, ViewOfEveryEntryHolds, PTL

\* start_of_view and end_of_view delimit the entries of a view, and return
\* NoVersion for a view without entries or, for the end, one not over yet.
THEOREM ViewsDelimited == Spec => []StartAndEnd
BY HistoryInvInductive, StartAndEndHold, PTL

\* The index find_highest_possible_match reports to a leader is the last up to
\* n of a view not after the given one, measured on the ledger itself.
THEOREM MatchIsHighest == Spec => []HighestPossibleMatch
BY HistoryInvInductive, HighestPossibleMatchHolds, PTL
=============================================================================
