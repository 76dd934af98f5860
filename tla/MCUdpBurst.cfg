SPECIFICATION Spec
CONSTANTS
    Hosts = 2
    Schedules <- MCSchedules
    EndTimes = {5, 8}
    Delay = {1, 4}
INVARIANT NeverThrows
INVARIANT SentOnTime
INVARIANT SentFillsDuration
INVARIANT ReceivedWasSent
CHECK_DEADLOCK FALSE
