------------------------- MODULE ViewHistoryProofs -------------------------
(***************************************************************************)
(* What the operations of ViewHistory promise for every history: they keep *)
(* it sorted and within the ledger, and the search for the highest         *)
(* possible match returns what its specification says.                     *)
(***************************************************************************)
EXTENDS ViewHistory, FiniteSetTheorems, SequenceTheorems, WellFoundedInduction,
        TLAPS

\* A set of natural numbers has a least element: induction over indices, used
\* for the loops of the code.
LEMMA LeastElement ==
  ASSUME NEW S \in SUBSET Nat, S # {}
  PROVE  \E x \in S : \A y \in S : x <= y
<1> DEFINE R == OpToRel(<, Nat)
<1>1. IsWellFoundedOn(R, Nat)
  BY NatLessThanWellFounded
<1>2. PICK x \in S : \A y \in S : ~ (<<y, x>> \in R)
  <2> HIDE DEF R
  <2> QED BY <1>1, WFMin
<1>3. \A y \in S : ~ (y < x)
  BY <1>2 DEF OpToRel
<1> QED BY <1>3

\* upper_bound splits a sorted history: the elements up to it are those not
\* beyond idx.
LEMMA UpperBound ==
  ASSUME NEW views \in Seq(Nat), NEW last \in Nat, SortedWithin(views, last),
         NEW idx \in Nat
  PROVE  /\ upper_bound(views, idx) \in 0 .. Len(views)
         /\ \A v \in 1 .. Len(views) :
              views[v] <= idx <=> v <= upper_bound(views, idx)
<1> DEFINE S == {v \in DOMAIN views : views[v] <= idx}
           T == {m \in Nat : m > 0 /\ m \notin S}
<1>1. DOMAIN views = 1 .. Len(views) /\ Len(views) \in Nat
  OBVIOUS
<1>2. Len(views) + 1 \in T
  BY <1>1
<1>3. PICK m \in T : \A y \in T : m <= y
  <2>1. T \in SUBSET Nat /\ T # {}
    BY <1>2
  <2> HIDE DEF T
  <2> QED BY <2>1, LeastElement
<1>4. \A v \in 1 .. m - 1 : v \in S
  BY <1>3
<1>5. \A v \in S : v < m
  <2> SUFFICES ASSUME NEW v \in S, ~ (v < m) PROVE FALSE
    OBVIOUS
  <2>1. m \in DOMAIN views /\ m <= v
    BY <1>1, <1>3
  <2>2. views[m] <= views[v] /\ views[v] <= idx /\ views[m] \in Nat /\ views[v] \in Nat
    BY <1>1, <2>1 DEF SortedWithin
  <2> QED BY <1>3, <2>1, <2>2
<1>6. S = 1 .. m - 1
  BY <1>1, <1>4, <1>5
<1>7. Cardinality(S) = m - 1
  <2>1. m - 1 \in Int /\ 1 <= m
    BY <1>3
  <2>2. Cardinality(1 .. m - 1) = IF 1 > m - 1 THEN 0 ELSE (m - 1) - 1 + 1
    <3> HIDE DEF T
    <3> QED BY <2>1, FS_Interval
  <2>3. Cardinality(1 .. m - 1) = m - 1
    BY <2>1, <2>2
  <2> HIDE DEF S, T
  <2> QED BY <1>6, <2>3
<1>8. upper_bound(views, idx) = m - 1
  BY <1>7 DEF upper_bound
<1>9. m - 1 \in 0 .. Len(views)
  BY <1>2, <1>3
<1> QED BY <1>1, <1>6, <1>8, <1>9

\* update keeps a history sorted and within the ledger.
LEMMA UpdateSorted ==
  ASSUME NEW views \in Seq(Nat), NEW last \in Nat, SortedWithin(views, last),
         NEW idx \in 1 .. last + 1, NEW view \in Nat
  PROVE  /\ update(views, idx, view) \in Seq(Nat)
         /\ SortedWithin(update(views, idx, view), last)
<1> CASE update_throws(views, idx) \/ Len(views) >= view
  BY DEF update
<1> CASE ~ update_throws(views, idx) /\ Len(views) < view
  <2> DEFINE m == view - Len(views)
             tail == [k \in 1 .. m |-> idx]
             new == views \o tail
  <2>1. m \in Nat /\ Len(views) \in Nat
    BY LenProperties
  <2>2. tail \in Seq(Nat) /\ Len(tail) = m
    <3>1. tail \in [1 .. m -> Nat]
      OBVIOUS
    <3>2. tail \in Seq(Nat)
      BY <2>1, <3>1, SeqDef
    <3>3. DOMAIN tail = 1 .. m
      OBVIOUS
    <3>4. DOMAIN tail = 1 .. Len(tail) /\ Len(tail) \in Nat
      BY <3>2, LenProperties
    <3> HIDE DEF tail, m
    <3> QED BY <2>1, <3>2, <3>3, <3>4
  <2>3. /\ new \in Seq(Nat)
        /\ Len(new) = Len(views) + m
        /\ \A i \in 1 .. Len(views) + m :
             new[i] = IF i <= Len(views) THEN views[i] ELSE tail[i - Len(views)]
    <3> HIDE DEF tail, m
    <3> QED BY <2>2, ConcatProperties
  <2>4. \A i \in 1 .. Len(views) + m : i > Len(views) => new[i] = idx
    BY <2>1, <2>3
  <2>5. \A i \in 1 .. Len(views) : views[i] <= idx /\ views[i] \in 1 .. last + 1
    <3> SUFFICES ASSUME NEW i \in 1 .. Len(views)
                 PROVE  views[i] <= idx /\ views[i] \in 1 .. last + 1
      OBVIOUS
    <3>1. views # <<>> /\ Len(views) \in DOMAIN views /\ i \in DOMAIN views
      BY <2>1
    <3>2. views[Len(views)] <= idx
      BY <3>1, <2>1 DEF update_throws, SortedWithin
    <3> QED BY <2>1, <3>1, <3>2 DEF SortedWithin
  <2>6. DOMAIN new = 1 .. Len(views) + m
    <3> HIDE DEF new
    <3> QED BY <2>3, LenProperties
  <2>7. SortedWithin(new, last)
    <3> SUFFICES ASSUME NEW v \in 1 .. Len(views) + m, NEW w \in 1 .. Len(views) + m
                 PROVE  /\ new[v] \in 1 .. last + 1
                        /\ v <= w => new[v] <= new[w]
      BY <2>6 DEF SortedWithin
    <3>1. v <= Len(views) => new[v] = views[v] /\ v \in 1 .. Len(views)
      BY <2>1, <2>3
    <3>2. w <= Len(views) => new[w] = views[w] /\ w \in 1 .. Len(views)
      BY <2>1, <2>3
    <3>3. v <= Len(views) /\ w <= Len(views) /\ v <= w => views[v] <= views[w]
      BY <2>1 DEF SortedWithin
    <3>4. (v > Len(views) => new[v] = idx) /\ (w > Len(views) => new[w] = idx)
      BY <2>4
    <3>5. v <= Len(views) => views[v] <= idx /\ views[v] \in 1 .. last + 1
      BY <2>5, <3>1
    <3>6. w <= Len(views) => views[w] \in 1 .. last + 1
      BY <2>5, <3>2
    <3>7. v \in Int /\ w \in Int /\ Len(views) \in Int
      BY <2>1
    <3> HIDE DEF new, m, tail
    <3>8. new[v] \in 1 .. last + 1 /\ new[w] \in 1 .. last + 1
      BY <3>1, <3>2, <3>4, <3>5, <3>6, <3>7
    <3>9. ASSUME v <= w PROVE new[v] <= new[w]
      <4>1. CASE w <= Len(views)
        BY <3>1, <3>2, <3>3, <3>7, <3>9, <4>1
      <4>2. CASE w > Len(views) /\ v <= Len(views)
        BY <3>1, <3>4, <3>5, <4>2
      <4>3. CASE w > Len(views) /\ v > Len(views)
        BY <3>4, <4>3
      <4> QED BY <3>7, <4>1, <4>2, <4>3
    <3> QED BY <3>8, <3>9
  <2>8. update(views, idx, view) = new
    BY <2>1 DEF update
  <2> QED BY <2>3, <2>7, <2>8
<1> QED BY LenProperties

\* rollback leaves a history of the shortened ledger.
LEMMA RollbackSorted ==
  ASSUME NEW views \in Seq(Nat), NEW last \in Nat, SortedWithin(views, last),
         NEW idx \in 0 .. last
  PROVE  /\ rollback_views(views, idx) \in Seq(Nat)
         /\ SortedWithin(rollback_views(views, idx), idx)
<1> DEFINE k == upper_bound(views, idx)
           new == rollback_views(views, idx)
<1>1. idx \in Nat
  OBVIOUS
<1>2. /\ k \in 0 .. Len(views) /\ Len(views) \in Nat
      /\ \A v \in 1 .. Len(views) : views[v] <= idx <=> v <= k
  BY <1>1, UpperBound, LenProperties
<1>3. /\ new \in Seq(Nat) /\ Len(new) = k
      /\ \A v \in 1 .. k : new[v] = views[v]
  <2>1. k \in Int /\ \A v \in 1 .. k : views[v] \in Nat
    BY <1>2, ElementOfSeq
  <2>2. /\ SubSeq(views, 1, k) \in Seq(Nat)
        /\ Len(SubSeq(views, 1, k)) = IF 1 <= k THEN k - 1 + 1 ELSE 0
        /\ \A v \in 1 .. k - 1 + 1 : SubSeq(views, 1, k)[v] = views[1 + v - 1]
    <3> HIDE DEF k
    <3> QED BY <2>1, SubSeqProperties
  <2> QED BY <1>2, <2>2 DEF rollback_views
<1>4. DOMAIN new = 1 .. k
  <2> HIDE DEF new, k
  <2> QED BY <1>3, LenProperties
<1> SUFFICES ASSUME NEW v \in 1 .. k, NEW w \in 1 .. k
             PROVE  /\ new[v] \in 1 .. idx + 1
                    /\ v <= w => new[v] <= new[w]
  BY <1>3, <1>4 DEF SortedWithin
<1>5. v \in 1 .. Len(views) /\ w \in 1 .. Len(views) /\ views[v] <= idx
  BY <1>2
<1>6. views[v] \in 1 .. last + 1 /\ (v <= w => views[v] <= views[w])
  BY <1>5 DEF SortedWithin
<1>7. new[v] = views[v] /\ new[w] = views[w]
  BY <1>3
<1> HIDE DEF new, k
<1>8. views[v] \in 1 .. idx + 1
  BY <1>1, <1>5, <1>6
<1> QED BY <1>6, <1>7, <1>8

\* The batch that starts at an index of the ledger ends no earlier, and within
\* the ledger.
LEMMA EndOfView ==
  ASSUME NEW views \in Seq(Nat), NEW last \in Nat, SortedWithin(views, last),
         NEW start \in 1 .. last
  PROVE  LET end == end_of_view(views, view_at(views, start))
         IN  end = NoVersion \/ end \in start .. last
<1> DEFINE v == upper_bound(views, start)
<1>1. start \in Nat
  OBVIOUS
<1>2. /\ v \in 0 .. Len(views) /\ Len(views) \in Nat
      /\ \A w \in 1 .. Len(views) : views[w] <= start <=> w <= v
  BY <1>1, UpperBound, LenProperties
<1>3. CASE start_of_view(views, v) = NoVersion \/ v >= Len(views)
  BY <1>3 DEF end_of_view, view_at
<1>4. CASE start_of_view(views, v) # NoVersion /\ v < Len(views)
  <2>1. v + 1 \in 1 .. Len(views) /\ views[v + 1] \in Nat
    BY <1>2, <1>4, ElementOfSeq
  <2>2. views[v + 1] > start /\ views[v + 1] <= last + 1
    BY <1>2, <2>1 DEF SortedWithin
  <2>3. end_of_view(views, view_at(views, start)) = views[v + 1] - 1
    BY <1>2, <1>4 DEF end_of_view, view_at
  <2> HIDE DEF v
  <2> QED BY <2>1, <2>2, <2>3
<1> QED BY <1>2, <1>3, <1>4

\* A bounded set of natural numbers has a greatest element.
LEMMA GreatestElement ==
  ASSUME NEW n \in Nat, NEW S \in SUBSET (0 .. n), S # {}
  PROVE  \E x \in S : \A y \in S : y <= x
<1> DEFINE U == {u \in Nat : \A y \in S : y <= u}
<1>1. U \in SUBSET Nat /\ n \in U
  OBVIOUS
<1>2. PICK u \in U : \A w \in U : u <= w
  <2> HIDE DEF U
  <2> QED BY <1>1, LeastElement
<1>3. u \in S
  <2> SUFFICES ASSUME u \notin S PROVE FALSE
    OBVIOUS
  <2>1. \A y \in S : y < u /\ y \in Nat
    BY <1>2
  <2>2. u \in Nat /\ u > 0
    <3>1. u \in Nat
      OBVIOUS
    <3>2. PICK y \in S : TRUE
      OBVIOUS
    <3> QED BY <2>1, <3>1, <3>2
  <2>3. u - 1 \in Nat /\ \A y \in S : y <= u - 1
    BY <2>1, <2>2
  <2>4. u - 1 \in U
    BY <2>3
  <2> QED BY <1>2, <2>4
<1> QED BY <1>2, <1>3

\* The indices up to n at which a ledger that has the transaction view.n can
\* agree with this one: those of no later view.
possible_matches(views, last, view, n) ==
  {i \in 0 .. last : i <= n /\ view_at(views, i) <= view}

\* find_highest_possible_match, a loop that goes back view by view, returns the
\* greatest possible match, for every history, view and index.
THEOREM HighestMatch ==
  ASSUME NEW views \in Seq(Nat), NEW last \in Nat, SortedWithin(views, last),
         NEW view \in Nat, NEW n \in Nat
  PROVE  LET match == find_highest_possible_match(views, last, view, n)
         IN  /\ match \in possible_matches(views, last, view, n)
             /\ \A i \in possible_matches(views, last, view, n) : i <= match
<1> DEFINE C(i) == {j \in 0 .. i : view_at(views, j) <= view}
           greatest(i) == CHOOSE x \in C(i) : \A y \in C(i) : y <= x
           h == [i \in 0 .. last |-> greatest(i)]
           before(i) == LET v == view_at(views, i)
                            start == start_of_view(views, v)
                        IN  IF start > 0 THEN start - 1 ELSE start
<1>1. view_at(views, 0) = 0
  <2>1. /\ view_at(views, 0) \in 0 .. Len(views) /\ Len(views) \in Nat
        /\ \A v \in 1 .. Len(views) : views[v] <= 0 <=> v <= view_at(views, 0)
    BY UpperBound, LenProperties DEF view_at
  <2>2. \A v \in 1 .. Len(views) : views[v] >= 1
    BY DEF SortedWithin
  <2> QED BY <2>1, <2>2
<1>2. \A i \in 0 .. last : greatest(i) \in C(i) /\ \A y \in C(i) : y <= greatest(i)
  <2> SUFFICES ASSUME NEW i \in 0 .. last
               PROVE  \E x \in C(i) : \A y \in C(i) : y <= x
    OBVIOUS
  <2>1. i \in Nat /\ C(i) \in SUBSET (0 .. i) /\ 0 \in C(i)
    BY <1>1
  <2> HIDE DEF C
  <2> QED BY <2>1, GreatestElement
<1>3. ASSUME NEW i \in 0 .. last, ~ (view_at(views, i) <= view)
      PROVE  /\ before(i) \in 0 .. i - 1
             /\ C(i) = C(before(i))
  <2> DEFINE v == view_at(views, i)
  <2>1. /\ v \in 0 .. Len(views) /\ Len(views) \in Nat
        /\ \A w \in 1 .. Len(views) : views[w] <= i <=> w <= v
    <3>1. i \in Nat
      OBVIOUS
    <3> QED BY <3>1, UpperBound, LenProperties DEF view_at
  <2>2. v \in 1 .. Len(views) /\ v > view
    BY <1>3, <2>1
  <2>3. views[v] \in 1 .. i
    BY <2>1, <2>2 DEF SortedWithin
  <2>4. v + 1 \in 1 .. Len(views) => views[v + 1] # views[v]
    BY <2>1, <2>2, <2>3
  <2>5. start_of_view(views, v) = views[v]
    BY <2>2, <2>4, LenProperties DEF start_of_view
  <2>6. before(i) = views[v] - 1
    BY <2>3, <2>5
  <2>7. \A j \in views[v] .. i : view_at(views, j) >= v /\ view_at(views, j) \in Nat
    <3> SUFFICES ASSUME NEW j \in views[v] .. i
                 PROVE  view_at(views, j) >= v /\ view_at(views, j) \in Nat
      OBVIOUS
    <3>1. j \in Nat /\ views[v] <= j
      BY <2>3
    <3>2. /\ upper_bound(views, j) \in 0 .. Len(views)
          /\ \A w \in 1 .. Len(views) : views[w] <= j <=> w <= upper_bound(views, j)
      BY <3>1, UpperBound
    <3>3. v \in 1 .. Len(views) /\ v \in Nat /\ Len(views) \in Nat
      BY <2>2, LenProperties
    <3> HIDE DEF v
    <3>4. v <= upper_bound(views, j)
      BY <3>1, <3>2, <3>3
    <3> QED BY <3>2, <3>3, <3>4 DEF view_at
  <2>8. C(i) = C(views[v] - 1)
    <3> HIDE DEF v
    <3> QED BY <2>2, <2>3, <2>7
  <2> HIDE DEF before
  <2> QED BY <2>3, <2>6, <2>8
<1> DEFINE P(f) == [i \in 0 .. last |->
                      IF view_at(views, i) <= view THEN i ELSE f[before(i)]]
           probe == CHOOSE f : f = P(f)
<1>4. h = P(h)
  <2> DEFINE e(i) == IF view_at(views, i) <= view THEN i ELSE h[before(i)]
  <2> SUFFICES ASSUME NEW i \in 0 .. last PROVE h[i] = e(i)
    <3> SUFFICES [i \in 0 .. last |-> h[i]] = [i \in 0 .. last |-> e(i)]
      OBVIOUS
    <3> HIDE DEF h, e
    <3> QED OBVIOUS
  <2>1. CASE view_at(views, i) <= view
    <3>1. i \in C(i) /\ greatest(i) \in C(i) /\ i <= greatest(i)
      BY <1>2, <2>1
    <3>2. greatest(i) = i
      <4> HIDE DEF greatest
      <4> QED BY <3>1
    <3> QED BY <2>1, <3>2
  <2>2. CASE ~ (view_at(views, i) <= view)
    <3>1. before(i) \in 0 .. last /\ C(i) = C(before(i))
      BY <1>3, <2>2
    <3>2. greatest(i) = greatest(before(i))
      <4> HIDE DEF C
      <4> QED BY <3>1
    <3> HIDE DEF greatest, before
    <3> QED BY <2>2, <3>1, <3>2
  <2> QED BY <2>1, <2>2
<1>5. probe = P(probe)
  <2> HIDE DEF h, P
  <2> QED BY <1>4
<1>6. \A i \in 0 .. last : probe[i] = h[i]
  <2> DEFINE W == {i \in 0 .. last : probe[i] # h[i]}
  <2> SUFFICES ASSUME W # {} PROVE FALSE
    OBVIOUS
  <2>1. PICK i \in W : \A j \in W : i <= j
    <3>1. W \in SUBSET Nat
      OBVIOUS
    <3> HIDE DEF W
    <3> QED BY <3>1, LeastElement
  <2>2. probe[i] = IF view_at(views, i) <= view THEN i ELSE probe[before(i)]
    <3> HIDE DEF probe, before
    <3> QED BY <1>5
  <2>3. h[i] = IF view_at(views, i) <= view THEN i ELSE h[before(i)]
    <3> HIDE DEF h, before
    <3> QED BY <1>4
  <2>4. ~ (view_at(views, i) <= view)
    BY <2>2, <2>3
  <2>5. before(i) \in 0 .. i - 1
    BY <1>3, <2>4
  <2>6. probe[before(i)] = h[before(i)]
    <3> HIDE DEF before, probe, h
    <3> QED BY <2>1, <2>5
  <2> HIDE DEF before, probe, h
  <2> QED BY <2>1, <2>2, <2>3, <2>6
<1> DEFINE top == IF n < last THEN n ELSE last
<1>7. top \in 0 .. last
  OBVIOUS
<1>8. find_highest_possible_match(views, last, view, n) = probe[top]
  BY DEF find_highest_possible_match
<1>9. possible_matches(views, last, view, n) = C(top)
  BY DEF possible_matches
<1>10. probe[top] = greatest(top)
  <2> HIDE DEF probe, greatest, top
  <2> QED BY <1>6, <1>7
<1> HIDE DEF probe, greatest, top, C
<1> QED BY <1>2, <1>7, <1>8, <1>9, <1>10

=============================================================================
