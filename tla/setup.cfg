SPECIFICATION Spec
CONSTANTS
    Builders = {"session", "pipeline", "python"}
    CodecConfigs <- CodecLimits
    JitterConfigs <- JitterLimits
    PcmFormats <- FormatLimits
    PacketFrames <- OpusFrames
    NotFinite = {nan, infinity}
    DurationLimit = 700
INVARIANTS
    TypeOK
    FailsEarly
    RejectedForCause
CHECK_DEADLOCK FALSE
