CONSTANT ChunkThreshold = 2
CONSTANT MaxIdx = 3
CONSTANT MaxGeneration = 2
CONSTANT ServiceAtJoin <- MCServiceAtJoin
CONSTANT SnapshotTxInterval = 2
CONSTANT MaxSeqno = 5
CONSTANT MaxElections = 1
CONSTANT MaxRestarts = 1
CONSTANT RingSize = 8
CONSTANT MaxFragment = 2
CONSTANT RingWriters = {w1, w2}
CONSTANT w1 = w1
CONSTANT w2 = w2
CONSTANT Setups <- MCSetups
CONSTANT Uninitialised = {0, 1}
CONSTANT MessageLimit = 3
CONSTANT MaxShares = 3
CONSTANT MaxFaults = 1
CONSTANT MaxInFlight = 1
CONSTANT Entries <- MCEntries
CONSTANT PastSecrets <- MCPastSecrets
CONSTANT Callers <- MCCallers
CONSTANT MaxDropped = 1
CONSTANT MaxNoEntry = 1
CONSTANT Replicas = {1, 2}
CONSTANT Members = {1, 2, 3}
CONSTANT RecoveryThreshold = 2
CONSTANT OldLedger <- MCOldLedger
CONSTANT MaxSubmissions = 1
CONSTANT MaxUserTxs = 1
CONSTANT MaxChanges = 1
SPECIFICATION NodeSpec
CHECK_DEADLOCK FALSE
INVARIANT LedgerReadsBack CommittedSurvives
INVARIANT CommittedSnapshotsSound
 
INVARIANT AcceptedOnce NonceUsedOnce
INVARIANT ReceiptsCovered
INVARIANT OnePrimaryNeverFails
PROPERTY CommittedChunksImmutable
PROPERTY RingDispatches
PROPERTY ChannelConnects
 
PROPERTY RecoveryEnds
