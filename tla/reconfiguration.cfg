SPECIFICATION Spec
CONSTANTS
  a = a
  b = b
  Nil = Nil
  Node = {a, b}
  InitialConfig = {a}
  InitialLeader = a
  Reconfigs = {{a, b}, {b}}
  EntriesBatchSize = 1
  MaxView = 3
  MaxLedger = 5
  MaxInFlight = 1
CONSTRAINT NoTx
INVARIANTS
  TypeOK
  ActiveConfigurations
  RetirementFollowsLedger
 
