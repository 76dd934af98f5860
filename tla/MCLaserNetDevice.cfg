SPECIFICATION Spec
CONSTANTS
    Interval = 3
    Device = {d1, d2}
    TxTimes = {1, 3, 7}
    Delay = {1}
    MaxQueueSize = 1
    EndTimes = {9, 10}
    Resolution = 3
    MaxPackets = 4
INVARIANTS TypeOK AllTimeAccounted TrackedTimeIsBusyTime IslFileIsTrue PtopFileIsTrue
SYMMETRY Symmetry
CHECK_DEADLOCK FALSE
