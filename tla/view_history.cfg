SPECIFICATION Spec
CONSTANTS
  MaxView = 4
  MaxLedger = 5
INVARIANTS
  ViewOfEveryEntry
  StartAndEnd
  HighestPossibleMatch
