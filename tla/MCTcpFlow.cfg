SPECIFICATION Spec
CONSTANTS
    Schedules <- MCSchedules
    EndTimes = {3}
    SendSize = 2
    BufferSize = 3
    Rtts = {1}
    AnyValue <- MCAnyValue
    MaxLines = 3
    MaxRttLines = 1
INVARIANT ResultsAreTrue
INVARIANT ProgressLogTrue
INVARIANT AllHandedOverIsClosed
INVARIANT NeverCrashes
CHECK_DEADLOCK FALSE
