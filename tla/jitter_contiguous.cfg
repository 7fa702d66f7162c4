SPECIFICATION Spec
CONSTANTS
    SeqSpace = 16
    TsSpace = 64
    FrameTicks = 2
    TargetLatency = 1
    MaxLatency = 3
    MaxPackets = 2
    Sent <- ContiguousSpeech
    MaxTime = 8
    MaxArrivals = 6
INVARIANTS
    TypeOK
    PendingAhead
    PrimedHead
    WithinCapacity
    StreamAccounting
    OneEventPerSlot
    StartupDelay
    InSenderOrder
PROPERTIES
    ScheduleFixed
    NeverEarly
CHECK_DEADLOCK FALSE
