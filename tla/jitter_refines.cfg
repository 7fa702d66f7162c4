SPECIFICATION FairSpec
CONSTANTS
    SeqSpace = 16
    TsSpace = 64
    FrameTicks = 1
    TargetLatency = 2
    MaxLatency = 3
    MaxPackets = 1
    Sent <- SpeechWithSilence
    MaxTime = 8
    MaxArrivals = 6
INVARIANTS
    FramesDoNotOverlap
    RecoveredThenPlayed
PROPERTIES
    ImplementsSchedule
    Drains
CHECK_DEADLOCK FALSE
