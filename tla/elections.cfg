SPECIFICATION Spec
CONSTANTS
  a = a
  b = b
  c = c
  Nil = Nil
  Node = {a, b, c}
  InitialConfig = {a, b, c}
  InitialLeader = a
  Reconfigs = {}
  EntriesBatchSize = 1
  MaxView = 4
  MaxLedger = 3
  MaxInFlight = 2
  MaxTotal = 2
CONSTRAINTS FewMessages TwoStand
INVARIANTS
  IndicesWithinLedger
  ElectionSafety
  LeaderCommitsOwnView
PROPERTY CommittedStays
