CONSTANT Replicas = {1, 2}
CONSTANT Members = {1, 2, 3}
CONSTANT RecoveryThreshold = 2
CONSTANT OldLedger <- MCOldLedger
CONSTANT MaxSubmissions = 1
CONSTANT MaxUserTxs = 1
CONSTANT MaxChanges = 0
SPECIFICATION RecoverySpec
CHECK_DEADLOCK FALSE
INVARIANT AllDomainsWhenOpened
