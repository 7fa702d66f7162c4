SPECIFICATION Spec
CONSTANTS
    Builders = {"session"}
    CodecConfigs <- DefaultCodec
    JitterConfigs <- DefaultJitter
    PcmFormats <- VoiceFormats
    PacketFrames <- OpusFrames
    NotFinite = {nan, infinity}
    DurationLimit = 700
INVARIANT PlayoutAtMediaRate
CHECK_DEADLOCK FALSE
