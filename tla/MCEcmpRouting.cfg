SPECIFICATION Spec
CONSTANTS
    Int64Of <- MCInt64Of
    TopologyFiles <- MCFiles
    NodeIds = {0, 1, 2, 3, 4}
    MaxNodes = 5
    UintSize = 65536
INVARIANTS CandidatesAreShortest RouteIsShortest SetupSucceeds FailsOnlyIfDisconnected EstimateCoversRoundTrip
CHECK_DEADLOCK FALSE
