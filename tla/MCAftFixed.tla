----------------------------- MODULE MCAftFixed -----------------------------
(* Aft in a service of three nodes whose membership does not change. *)
EXTENDS Aft, TLC

CONSTANTS
  a, b, c,
  MaxTotal   \* bound: messages in all channels

\* a opened the service, b and c are alike.
Symmetry == Permutations({b, c})

FewMessages ==
  Len(net[<<a, b>>]) + Len(net[<<a, c>>]) + Len(net[<<b, a>>])
   + Len(net[<<b, c>>]) + Len(net[<<c, a>>]) + Len(net[<<c, b>>]) <= MaxTotal

\* Bound: a and b only stand for election.
TwoStand == node[c].leadership_state = "Follower"

\* Bound: c votes, but receives no entries and stands in no election.
SlowVoter == node[c].leadership_state = "Follower" /\ last_idx(node[c]) = 2

=============================================================================
