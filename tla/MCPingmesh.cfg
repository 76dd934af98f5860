SPECIFICATION Spec
CONSTANTS
    EndpointSets <- MCEndpointSets
    PairSets <- MCPairSets
    Intervals = {2, 3}
    EndTimes = {1, 4}
    Delay = {0, 3}
INVARIANT RttIsRoundTrip
INVARIANT PingsPaced
CHECK_DEADLOCK FALSE
