SPECIFICATION Spec
CONSTANTS
    Schedules <- MCSchedules
    EndTimes = {2}
    SendSize = 2
    BufferSize = 2
    Rtts = {1}
    AnyValue <- MCAnyValue
    MaxLines = 1
    MaxRttLines = 1
INVARIANT RttPositive
CHECK_DEADLOCK FALSE
