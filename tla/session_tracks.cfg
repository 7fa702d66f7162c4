SPECIFICATION FairSpec
CONSTANTS
    SeqSpace = 16
    TsSpace = 64
    FrameTicks = 1
    TargetLatency = 0
    MaxLatency = 1
    MaxPackets = 2
    Sent <- MiddleFrameLost
    MaxTime = 2
    MaxArrivals = 2
    MaxSetup = 0
    Tracks = {1, 2}
    Recovery = 1
    UseFec = TRUE
    Undecodable = {0}
INVARIANTS
    TypeOK
    WakeupNotLost
    Paced
    FrameDeliveredOnce
    DeliveredInOrder
PROPERTY PlayoutFinishes
CHECK_DEADLOCK FALSE
