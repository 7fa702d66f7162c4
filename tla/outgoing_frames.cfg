SPECIFICATION Spec
CONSTANTS
    FrameSamples = 3
    BlockSizes = {1, 4, 6, 7}
    MaxCaptured = 13
    MaxFailures = 1
    CodecFrames <- FramesOfAllKinds
    MaxErrors = 1
INVARIANTS
    TypeOK
    ProcessorHoldsNothing
    HeldBackWithinBlock
    WholeFrames
    SentInOrder
    NothingLost
CHECK_DEADLOCK FALSE
