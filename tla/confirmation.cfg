SPECIFICATION Spec
CONSTANTS
  a = a
  b = b
  c = c
  Nil = Nil
  Node = {a, b, c}
  InitialConfig = {a, b, c}
  InitialLeader = a
  Reconfigs = {}
  EntriesBatchSize = 1
  MaxView = 3
  MaxLedger = 4
  MaxInFlight = 2
  MaxTotal = 2
SYMMETRY Symmetry
CONSTRAINT FewMessages
INVARIANTS
  MatchConfirmed
