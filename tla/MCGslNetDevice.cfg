SPECIFICATION FairSpec
CONSTANTS
    Device = {d1, d2, d3}
    Sender = {d1}
    NoPacket = NoPacket
    Size = {2}
    InitialRate = 1
    Rate = {1, 2}
    Delay = {0, 3}
    TxTime <- MCTxTime
    InterframeGap = 0
    MaxQueueSize = 2
    MaxPackets = 5
    MaxCallTime = 2
INVARIANTS TypeOK NeverAborts RightReceiver OvertakingNeedsShrinkingDelay
PROPERTIES ImplementsFifoServer AcceptedPacketArrives
CHECK_DEADLOCK FALSE
