---------------------------- MODULE ViewHistory ----------------------------
(***************************************************************************)
(* The view history of a replica (class ViewHistory, impl/state.h): which  *)
(* view produced each ledger index, kept as a sequence whose entry v is    *)
(* the first index of view v.  A view without entries shares its start     *)
(* with the next view.  Index 0 and view 0 mean "none" (kv::NoVersion,     *)
(* ccf::VIEW_UNKNOWN).                                                     *)
(***************************************************************************)
EXTENDS Integers, Sequences, FiniteSets

NoVersion == 0

InvalidView == 0

\* std::upper_bound on the sorted vector, as a number of elements.
upper_bound(views, idx) == Cardinality({v \in DOMAIN views : views[v] <= idx})

view_at(views, idx) == upper_bound(views, idx)

\* Wrong variant: a view without entries has a start.
start_of_empty_view(views, view) ==
  IF view \notin DOMAIN views THEN NoVersion ELSE views[view]

start_of_view(views, view) ==
  IF \/ view \notin DOMAIN views
     \/ view + 1 \in DOMAIN views /\ views[view + 1] = views[view]
  THEN NoVersion
  ELSE views[view]

end_of_view(views, view) ==
  IF start_of_view(views, view) = NoVersion \/ view >= Len(views)
  THEN NoVersion
  ELSE views[view + 1] - 1

get_history_until(views, idx) == SubSeq(views, 1, upper_bound(views, idx))

\* update throws "version must not move backwards" in this case, leaving the
\* history as it was.
update_throws(views, idx) == views # <<>> /\ idx < views[Len(views)]

\* Wrong variant: views that were skipped get no entry.
update_one_view(views, idx, view) ==
  IF update_throws(views, idx) \/ Len(views) >= view THEN views
  ELSE Append(views, idx)

update(views, idx, view) ==
  IF update_throws(views, idx) \/ Len(views) >= view
  THEN views
  ELSE views \o [k \in 1 .. view - Len(views) |-> idx]

rollback_views(views, idx) == SubSeq(views, 1, upper_bound(views, idx))

\* Wrong variant: goes back over one view only.
find_match_in_previous_view(views, last, view, n) ==
  LET i == IF n < last THEN n ELSE last
      v == view_at(views, i)
  IN  IF v <= view \/ start_of_view(views, v) = NoVersion THEN i
      ELSE start_of_view(views, v) - 1

\* Raft::find_highest_possible_match: walk back from min(n, last), one view at
\* a time, until the view is no later than that of the transaction ID view.n.
find_highest_possible_match(views, last, view, n) ==
  LET probe[i \in 0 .. last] ==
        LET v == view_at(views, i)
            start == start_of_view(views, v)
        IN  IF v <= view THEN i
            ELSE probe[IF start > 0 THEN start - 1 ELSE start]
  IN  probe[IF n < last THEN n ELSE last]

\* What every history of a ledger of length last is: sorted, and of indices from
\* 1 to the one after the last.
SortedWithin(views, last) ==
  \A v, w \in DOMAIN views :
    /\ views[v] \in 1 .. last + 1
    /\ v <= w => views[v] <= views[w]

=============================================================================
