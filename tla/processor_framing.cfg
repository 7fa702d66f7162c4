SPECIFICATION Spec
CONSTANTS
    FrameSamples = 3
    BlockSizes <- BlocksAroundAFrame
    MaxCaptured = 10
    MaxFailures = 1
INVARIANTS
    TypeOK
    Lossless
    InOrder
    DelayWithinFrame
CHECK_DEADLOCK FALSE
