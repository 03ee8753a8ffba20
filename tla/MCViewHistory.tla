--------------------------- MODULE MCViewHistory ---------------------------
(***************************************************************************)
(* ViewHistory against the ledger it summarises: terms is the view of      *)
(* every entry, and each change of the ledger updates the history in the   *)
(* way the class is used.                                                  *)
(***************************************************************************)
EXTENDS ViewHistory, FiniteSetsExt

CONSTANTS
  MaxView,   \* bound: the last view
  MaxLedger  \* bound: the last index

ASSUME HistoryBounds == MaxView \in Nat /\ MaxLedger \in Nat

VARIABLES views, terms

history == <<views, terms>>

Init == views = <<>> /\ terms = <<>>

\* An entry of the last view or of a later one, views may be skipped.
Append_entry(view) ==
  /\ Len(terms) < MaxLedger
  /\ terms # <<>> => view >= terms[Len(terms)]
  /\ terms' = Append(terms, view)
  /\ views' = update(views, Len(terms) + 1, view)

Rollback(idx) ==
  /\ terms' = SubSeq(terms, 1, idx)
  /\ views' = rollback_views(views, idx)

\* A node that starts from a snapshot at idx has the history until then.
Start_from(idx) ==
  /\ terms' = SubSeq(terms, 1, idx)
  /\ views' = get_history_until(views, idx)

Next ==
  \/ \E view \in 1 .. MaxView : Append_entry(view)
  \/ \E idx \in 0 .. Len(terms) : Rollback(idx) \/ Start_from(idx)

Spec == Init /\ [][Next]_history

\* The view history tells the view of every entry, whatever was rolled back,
\* if update is told of each entry (as replicate does).
ViewOfEveryEntry ==
  \A i \in 0 .. Len(terms) :
    view_at(views, i) = IF i = 0 THEN InvalidView ELSE terms[i]

of_view(v) == {i \in 1 .. Len(terms) : terms[i] = v}

\* start_of_view is the first entry of a view, and end_of_view the last one of
\* a view that is over; NoVersion for a view without entries, even one that
\* shares its slot with the next.  Batches of entries rely on it to hold a
\* single view.
StartAndEnd ==
  \A v \in 0 .. MaxView + 1 :
    /\ start_of_view(views, v) =
         IF of_view(v) = {} THEN NoVersion ELSE Min(of_view(v))
    /\ end_of_view(views, v) =
         IF of_view(v) = {} \/ v = terms[Len(terms)] THEN NoVersion
         ELSE Max(of_view(v))

\* find_highest_possible_match returns the last index up to n whose view is not
\* after the given one: the highest at which a ledger that has the transaction
\* view.n can agree with this one.
HighestPossibleMatch ==
  \A view \in 0 .. MaxView + 1, n \in 0 .. MaxLedger + 1 :
    find_highest_possible_match(views, Len(terms), view, n) =
      Max({0} \union {i \in 1 .. Len(terms) : i <= n /\ terms[i] <= view})

=============================================================================
