----------------------------- MODULE SessionSetup -----------------------------
(***************************************************************************)
(* How a session or a pipeline is constructed: VoiceLlmSession::new of     *)
(* llm-rtc-sdk (session.rs), AudioPipeline::new of llm-rtc-core            *)
(* (pipeline.rs) and the Python class that wraps it (python/src/lib.rs).   *)
(* The constructors of the components run one after the other; each may    *)
(* reject the configuration, and libopus, the audio engine and the peer    *)
(* connection may fail on their own.  What was constructed is then called  *)
(* with the frames and packets the configuration promises to handle.       *)
(*                                                                         *)
(* Frame lengths are in tenths of a millisecond, rates in Hz.  A frame     *)
(* length is a floating point number, which need not be finite.            *)
(***************************************************************************)
EXTENDS Integers, FiniteSets

CONSTANTS
    Builders,       \* those of "session", "pipeline" and "python"
    CodecConfigs,   \* the CodecConfigs given
    JitterConfigs,  \* the JitterBufferConfigs given
    PcmFormats,     \* SessionConfig's sample_rate and channels
    PacketFrames,   \* frame lengths of the remote sender's packets
    NotFinite,      \* the floating point numbers that are no length: NaN, infinity
    DurationLimit   \* the first length beyond a Duration: 2^64 seconds

FrameLength  == Int \cup NotFinite
CodecConfig  == [sample_rate : Nat, channels : Nat, bitrate : Nat,
                 frame_size : FrameLength, complexity : Nat]
JitterConfig == [max_latency : Nat, target_latency : Nat, max_packets : Nat,
                 sample_rate : Nat, frame_size : Nat]

ASSUME SetupAssumption ==
    /\ Builders \subseteq {"session", "pipeline", "python"}
    /\ \A config \in CodecConfigs : config \in CodecConfig
    /\ \A config \in JitterConfigs : config \in JitterConfig
    /\ \A format \in PcmFormats : format \in [sample_rate : Nat, channels : Nat]
    /\ PacketFrames \subseteq {25, 50, 100, 200, 400, 600}   \* as Opus has them
    /\ \A length \in NotFinite : length \notin Int
    /\ DurationLimit \in Nat /\ DurationLimit > 600

VARIABLES
    builder,        \* which constructor runs
    codec_config,   \* config.codec, aligned by a session
    jitter_config,  \* config.jitter, aligned by a session
    format,         \* the session's PCM format
    at,             \* the next step of the constructor, or its end
    peer,           \* the peer connection: "none", "open" or "dropped"
    frame_duration, \* the session's, in tenths of a millisecond
    encoder,        \* {} or the configuration of the encoder
    decoder,        \* {} or the configuration of the decoder
    jitter,         \* {} or the sanitized configuration of the buffer
    block,          \* outgoing_block_samples
    raised,         \* the error of the constructor
    outcome         \* what the last call of the constructed object returned

given == <<builder, format>>
parts == <<peer, frame_duration, encoder, decoder, jitter, block>>
vars  == <<given, codec_config, jitter_config, at, parts, raised, outcome>>

Nothing == [kind |-> "none", samples |-> 0]

Init ==
    /\ builder \in Builders
    /\ codec_config \in CodecConfigs /\ jitter_config \in JitterConfigs
    /\ format \in PcmFormats
    /\ at = IF builder = "session" THEN "align" ELSE "encoder"
    /\ peer = "none" /\ frame_duration = 0
    /\ encoder = {} /\ decoder = {} /\ jitter = {} /\ block = 0
    /\ raised = "none" /\ outcome = Nothing

\* A session drops what it had built; Python sees a ValueError.
Fail(cause) ==
    /\ at' = "failed"
    /\ raised' = IF builder = "python" THEN "ValueError" ELSE cause
    /\ peer' = IF peer = "open" THEN "dropped" ELSE peer

-----------------------------------------------------------------------------
(* The session's own steps.                                                *)

\* The PCM format overrides what codec and jitter buffer were given.
Align ==
    /\ at = "align" /\ at' = "peer"
    /\ codec_config' = [codec_config EXCEPT !.sample_rate = format.sample_rate,
                                            !.channels = format.channels]
    /\ jitter_config' = [jitter_config EXCEPT !.sample_rate = format.sample_rate]
    /\ UNCHANGED <<given, parts, raised, outcome>>

\* PeerConnectionHandle::new; the webrtc crate may refuse.
NewPeer ==
    /\ at = "peer"
    /\ \/ peer' = "open" /\ at' = "track" /\ UNCHANGED raised
       \/ Fail("peer")
    /\ UNCHANGED <<given, codec_config, jitter_config, frame_duration, encoder,
                   decoder, jitter, block, outcome>>

AddOpusTrack ==
    /\ at = "track"
    /\ \/ at' = "duration" /\ UNCHANGED <<raised, peer>>
       \/ Fail("peer")
    /\ UNCHANGED <<given, codec_config, jitter_config, frame_duration, encoder,
                   decoder, jitter, block, outcome>>

\* What Duration::from_secs_f64 converts: no NaN, nothing infinite, negative or
\* too long.
IsDuration(length) == length \in Int /\ 0 <= length /\ length < DurationLimit

\* It panics on anything else, and the codec has not looked at frame_size_ms yet.
FrameDuration ==
    /\ at = "duration"
    /\ \/ /\ IsDuration(codec_config.frame_size)
          /\ frame_duration' = codec_config.frame_size
          /\ at' = "encoder" /\ UNCHANGED <<peer, raised>>
       \/ /\ ~IsDuration(codec_config.frame_size)
          /\ at' = "panicked" /\ raised' = "panic" /\ peer' = "dropped"
          /\ UNCHANGED frame_duration
    /\ UNCHANGED <<given, codec_config, jitter_config, encoder, decoder,
                   jitter, block, outcome>>

-----------------------------------------------------------------------------
(* The codec.                                                              *)

ValidRate(rate) == rate \in {8000, 12000, 16000, 24000, 48000}

\* Slip: both ends of the range left out.
ExclusiveBitrate(bitrate) == 500 < bitrate /\ bitrate < 512000

ValidBitrate(bitrate) == 500 <= bitrate /\ bitrate <= 512000

\* Slip: any positive length will do.
PositiveFrame(length) == length \in Int /\ length > 0

ValidFrame(length) == length \in {25, 50, 100, 200, 400, 600}

\* CodecConfig::validate
Validates(config) ==
    /\ ValidRate(config.sample_rate)
    /\ config.channels \in {1, 2}
    /\ ValidBitrate(config.bitrate)
    /\ ValidFrame(config.frame_size)
    /\ config.complexity <= 10

PerChannel(length, rate) == (length * rate) \div 10000

\* samples_per_frame(), all channels counted; the conversion truncates.
SamplesPerFrame(config) ==
    PerChannel(config.frame_size, config.sample_rate) * config.channels

\* The settings libopus takes: rates that divide its own, and the limits of
\* bitrate and complexity that codec.rs:105, 144 state as libopus's.
LibopusCreates(config) ==
    /\ \E divisor \in {1, 2, 3, 4, 6} : config.sample_rate * divisor = 48000
    /\ config.channels \in {1, 2}
    /\ config.bitrate >= 500 /\ config.bitrate <= 512000
    /\ config.complexity \in 0 .. 10

\* And it encodes frames of these lengths only: 2.5 to 40 ms doubling, 60 ms.
LibopusEncodes(samples, rate) ==
    \/ \E n \in {400, 200, 100, 50, 25} : n * samples = rate
    \/ 50 * samples = 3 * rate

\* It conceals and recovers whole multiples of 2.5 ms.
LibopusConceals(samples, rate) ==
    samples > 0 /\ (400 * samples) % rate = 0

Accepted(config) == Validates(config) /\ LibopusCreates(config)

NewEncoder ==
    /\ at = "encoder"
    /\ \/ /\ Accepted(codec_config)
          /\ encoder' = {codec_config} /\ at' = "decoder"
          /\ UNCHANGED <<raised, peer>>
       \/ ~Accepted(codec_config) /\ Fail("codec") /\ UNCHANGED encoder
    /\ UNCHANGED <<given, codec_config, jitter_config, frame_duration, decoder,
                   jitter, block, outcome>>

NewDecoder ==
    /\ at = "decoder"
    /\ \/ /\ Accepted(codec_config)
          /\ decoder' = {codec_config} /\ at' = "jitter"
          /\ UNCHANGED <<raised, peer>>
       \/ ~Accepted(codec_config) /\ Fail("codec") /\ UNCHANGED decoder
    /\ UNCHANGED <<given, codec_config, jitter_config, frame_duration, encoder,
                   jitter, block, outcome>>

-----------------------------------------------------------------------------
(* The jitter buffer and the processor.                                    *)

AtLeastOne(n) == IF n = 0 THEN 1 ELSE n

\* Slip: the frame length taken as it comes.
SanitizeAllButFrame(config) ==
    [config EXCEPT
       !.target_latency = IF @ <= config.max_latency THEN @ ELSE config.max_latency,
       !.max_packets = AtLeastOne(@),
       !.sample_rate = AtLeastOne(@)]

\* with_clock() repairs what validate() would reject; nothing calls validate().
Sanitize(config) ==
    [config EXCEPT
       !.target_latency = IF @ <= config.max_latency THEN @ ELSE config.max_latency,
       !.max_packets = AtLeastOne(@),
       !.sample_rate = AtLeastOne(@),
       !.frame_size  = AtLeastOne(@)]

NewJitterBuffer ==
    /\ at = "jitter" /\ at' = "processor"
    /\ jitter' = {Sanitize(jitter_config)}
    /\ UNCHANGED <<given, codec_config, jitter_config, peer, frame_duration,
                   encoder, decoder, block, raised, outcome>>

\* The engine counts 480 samples a frame, whatever the codec's rate is.
ProcessorFrame == 480

\* least_common_multiple, by its definition; OutgoingAudio has the algorithm.
Block(samples) == CHOOSE n \in {k * ProcessorFrame : k \in 1 .. samples} :
    /\ n % samples = 0
    /\ \A k \in 1 .. samples : (k * ProcessorFrame) % samples = 0 => n <= k * ProcessorFrame

\* AudioProcessor::new, after which the pipeline is complete; the engine may
\* refuse.
NewProcessor ==
    /\ at = "processor"
    /\ \/ /\ at' = "built"
          /\ \E config \in encoder : block' = Block(SamplesPerFrame(config))
          /\ UNCHANGED <<peer, raised>>
       \/ Fail("processor") /\ UNCHANGED block
    /\ UNCHANGED <<given, codec_config, jitter_config, frame_duration, encoder,
                   decoder, jitter, outcome>>

-----------------------------------------------------------------------------
(* Calls of what was constructed.                                          *)

Returns(kind, samples) ==
    /\ at = "built"
    /\ outcome' = [kind |-> kind, samples |-> samples]
    /\ UNCHANGED <<given, codec_config, jitter_config, at, parts, raised>>

\* encode() of a block of any size
Encode(config, samples) ==
    LET frame == SamplesPerFrame(config)
    IN  \/ samples # frame /\ Returns("mismatch", samples)
        \/ /\ samples = frame
           /\ Returns(IF LibopusEncodes(samples \div config.channels, config.sample_rate)
                      THEN "packet" ELSE "bad_arg", samples)

\* decode() of a packet, as long as its own header says
Decode(config, length) ==
    Returns("pcm", PerChannel(length, config.sample_rate) * config.channels)

\* decode() of nothing, as long as the configured frame
Conceal(config) ==
    LET samples == SamplesPerFrame(config) \div config.channels
    IN  Returns(IF LibopusConceals(samples, config.sample_rate)
                THEN "concealed" ELSE "bad_arg", samples * config.channels)

\* decode_fec(): the lost frame, as long as the packet behind it
Recover(config, length) ==
    LET samples == PerChannel(length, config.sample_rate)
    IN  Returns(IF LibopusConceals(samples, config.sample_rate)
                THEN "pcm" ELSE "bad_arg", samples * config.channels)

EncodeSome ==
    \E config \in encoder :
      \E samples \in {0, SamplesPerFrame(config), block, block + 1} :
        Encode(config, samples)

DecodeSome ==
    \E config \in decoder :
      \/ Conceal(config)
      \/ \E length \in PacketFrames : Decode(config, length) \/ Recover(config, length)

-----------------------------------------------------------------------------
Next == \/ Align \/ NewPeer \/ AddOpusTrack \/ FrameDuration
        \/ NewEncoder \/ NewDecoder \/ NewJitterBuffer \/ NewProcessor
        \/ EncodeSome \/ DecodeSome

Spec == Init /\ [][Next]_vars

-----------------------------------------------------------------------------
(* Properties.                                                             *)

\* Types of the components' settings (session.rs:91-102, pipeline.rs:62-75).
TypeOK ==
    /\ builder \in Builders /\ format \in PcmFormats
    /\ codec_config \in CodecConfig /\ jitter_config \in JitterConfig
    /\ at \in {"align", "peer", "track", "duration", "encoder", "decoder",
               "jitter", "processor", "built", "failed", "panicked"}
    /\ peer \in {"none", "open", "dropped"}
    /\ frame_duration \in Nat /\ block \in Nat
    /\ encoder \subseteq CodecConfig /\ decoder \subseteq CodecConfig
    /\ jitter \subseteq [max_latency : Nat, target_latency : Nat,
                         max_packets : Nat \ {0}, sample_rate : Nat \ {0},
                         frame_size : Nat \ {0}]
    /\ raised \in {"none", "peer", "codec", "processor", "ValueError", "panic"}
    /\ outcome \in [kind : {"none", "packet", "mismatch", "pcm", "concealed",
                            "bad_arg"}, samples : Nat]

\* JitterBufferConfig::validate
JitterValidates(config) ==
    /\ config.target_latency <= config.max_latency
    /\ config.sample_rate > 0 /\ config.frame_size > 0 /\ config.max_packets > 0

\* A configuration that libopus cannot work with surfaces in the constructor,
\* never in a call: what was built has one frame length, exact to the sample,
\* for encoder and concealment, and libopus accepts every call with it
\* (codec.rs:29-34, 125-128).
FailsEarly ==
    /\ outcome.kind # "bad_arg"
    /\ at = "built" =>
         /\ encoder = decoder
         /\ \A config \in jitter : JitterValidates(config)
         /\ \A config \in encoder :
              /\ SamplesPerFrame(config) * 10000
                   = config.frame_size * config.sample_rate * config.channels
              /\ outcome.kind = "concealed" =>
                   outcome.samples = SamplesPerFrame(config)

\* What libopus can work with: the settings it takes and a frame of whole
\* samples that it encodes.
Legal ==
    LET config == codec_config
    IN  /\ LibopusCreates(config)
        /\ config.frame_size \in Int
        /\ (config.frame_size * config.sample_rate) % 10000 = 0
        /\ LibopusEncodes(PerChannel(config.frame_size, config.sample_rate),
                          config.sample_rate)

Ended == at \in {"failed", "panicked"}

\* A constructor ends for a cause: it builds no illegal configuration; a legal
\* one panics nowhere, not in the conversion that runs before the codec's checks
\* either, and fails only with the peer connection or, behind the buffer, with
\* the engine; and no caller is left with an error and an open peer connection
\* (session.rs:194-206, pipeline.rs:88-90, codec.rs:125-128).
RejectedForCause ==
    /\ at = "built" => Legal /\ (peer = "open" <=> builder = "session")
    /\ Ended /\ Legal => at = "failed" /\ (raised = "peer" \/ jitter # {})
    /\ Ended => peer # "open"

\* A session plays a stream at the rate of its media: the buffer counts RTP
\* time in the clock Opus stamps it with, and takes an absent frame to last as
\* long as the frames the codec was configured for (session.rs:187-192,
\* jitter.rs:66-69).
PlayoutAtMediaRate ==
    at = "built" /\ builder = "session" =>
        \A config \in jitter : /\ config.sample_rate = 48000
                               /\ 10 * config.frame_size = frame_duration

=============================================================================
