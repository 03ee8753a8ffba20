--------------------------- MODULE VersionedStore ---------------------------
(***************************************************************************)
(* What the key-value store promises, without maps, locks or rolls of      *)
(* local commits: a line of successive states, numbered by version.  The   *)
(* first state of the line is final.  A transaction adds a state at the    *)
(* end, a rollback takes states from the end, a compaction makes a later   *)
(* state the first one; no step changes a state of the line.               *)
(***************************************************************************)
EXTENDS Integers, Sequences

CONSTANT Empty           \* the contents of a store in which nothing was written

VARIABLES
  base,                  \* the version of the first state
  line                   \* the states from version base on

Init == base = 0 /\ line = <<Empty>>

\* A transaction decides on the new state.
Apply ==
  /\ Len(line') = Len(line) + 1
  /\ SubSeq(line', 1, Len(line)) = line
  /\ UNCHANGED base

Rollback(n) == line' = SubSeq(line, 1, n) /\ UNCHANGED base

Compact(n) ==
  /\ base' = base + n
  /\ line' = SubSeq(line, n + 1, Len(line))

Next ==
  \/ Apply
  \/ \E n \in 1..Len(line) : Rollback(n)
  \/ \E n \in 1..(Len(line) - 1) : Compact(n)

Spec == Init /\ [][Next]_<<base, line>>

=============================================================================
