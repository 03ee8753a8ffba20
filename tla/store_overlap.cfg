SPECIFICATION Spec
CONSTANTS
  m1 = m1
  m2 = m2
  k1 = k1
  t1 = t1
  t2 = t2
  Map = {m1, m2}
  Key = {k1}
  Worker = {t1}
  Timer = timer
  Nil = Nil
  Requests <- MCRequests
  Received <- MCReceived
  SigTxInterval = 2
  MaxAttempts = 2
  Overlap = TRUE
  SizeModulus = 1024
  MaxVersion = 3
  MaxView = 3
CHECK_DEADLOCK FALSE
INVARIANT FailedTxRolledBack
