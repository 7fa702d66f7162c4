SPECIFICATION Spec
CONSTANTS
    SeqSpace = 16
    TsSpace = 64
    FrameTicks = 2
    TargetLatency = 1
    MaxLatency = 2
    MaxPackets = 2
    Sent <- ThreeFrames
    MaxTime = 5
    MaxArrivals = 3
    MaxSetup = 0
    Tracks = {1}
    Recovery = 1
    UseFec = TRUE
    Undecodable = {1}
INVARIANT TailPlayed
CHECK_DEADLOCK FALSE
