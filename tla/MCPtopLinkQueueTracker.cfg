SPECIFICATION TrackerSpec
CONSTANTS
    Size = {1, 2}
    MaxQueueSize = 2
    EndTime = 5
INVARIANTS TypeOK PktLogIsHistory ByteLogIsHistory
CHECK_DEADLOCK FALSE
