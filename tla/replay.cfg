SPECIFICATION Spec
CONSTANTS
    SeqSpace = 32
    TsSpace = 256
    FrameTicks = 4
    TargetLatency = 2
    MaxLatency = 48
    MaxPackets = 24
    Programs = {"trace", "bench", "loopback"}
    Profiles <- AllProfiles
    Poll = 2
    ContentFrames = 5
    GuardFrames = 1
    StartSequence = 10
    StartTimestamp = 90
    TailTime = 80
    MaxOversleep = 3
INVARIANTS
    TypeOK
    ContinuityComplete
    StartupHeld
CHECK_DEADLOCK FALSE
