SPECIFICATION Spec
CONSTANTS
    FrameSamples = 3
    BlockSizes <- BlocksAroundAFrame
    MaxCaptured = 10
    MaxFailures = 0
INVARIANT SampleAligned
CHECK_DEADLOCK FALSE
