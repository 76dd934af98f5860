SPECIFICATION Spec
CONSTANTS
    s1 = s1
    s2 = s2
    gA = gA
    gB = gB
    Node = {s1, s2, gA, gB}
    GroundStation = {gA, gB}
    Isl <- MCIsl
    Drop = Drop
    Unset = Unset
    Rate = {1, 2}
    InitialRate = 1
    Step = 3
    Generated <- MCGenerated
    GeneratedRates <- MCRates
    Intervals = {3, 4, 6}
    EndTimes = {4, 9, 10}
    Flow <- MCFlow
    StartTimes = {0, 2, 6}
    Gaps = {1, 2}
    Delay = {1, 3}
    InitialTtl = 3
    MaxPackets = 2
INVARIANTS TypeOK NeverFails DecisionsUseOneUpdate FollowsGeneratedPath LoopsNeedAnUpdate InstalledIsGenerated
CHECK_DEADLOCK FALSE
