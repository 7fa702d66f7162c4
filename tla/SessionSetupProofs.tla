-------------------------- MODULE SessionSetupProofs --------------------------
(***************************************************************************)
(* Proofs about SessionSetup: whatever settings are given, a constructor   *)
(* ends for a cause, and what it built never fails on the calls it was     *)
(* configured for.                                                         *)
(***************************************************************************)
EXTENDS SessionSetup, NaturalsInduction, WellFoundedInduction, TLAPS

-----------------------------------------------------------------------------
(* What the codec's checks mean to libopus.                                *)

\* A frame that validate() accepts has whole samples, and libopus encodes and
\* conceals it.
LEMMA ValidFrames ==
    ASSUME NEW rate, ValidRate(rate), NEW length, ValidFrame(length)
    PROVE  /\ PerChannel(length, rate) \in Nat \ {0}
           /\ PerChannel(length, rate) * 10000 = length * rate
           /\ LibopusEncodes(PerChannel(length, rate), rate)
           /\ LibopusConceals(PerChannel(length, rate), rate)
<1> USE DEF PerChannel, LibopusEncodes, LibopusConceals, ValidFrame
<1>1. CASE rate = 8000
  BY <1>1
<1>2. CASE rate = 12000
  BY <1>2
<1>3. CASE rate = 16000
  BY <1>3
<1>4. CASE rate = 24000
  BY <1>4
<1>5. CASE rate = 48000
  BY <1>5
<1>6. QED BY <1>1, <1>2, <1>3, <1>4, <1>5 DEF ValidRate

\* The rates validate() accepts are those libopus does.
LEMMA Rates ==
    ASSUME NEW rate \in Nat
    PROVE  ValidRate(rate) <=> \E divisor \in {1, 2, 3, 4, 6} : rate * divisor = 48000
BY DEF ValidRate

\* A frame of whole samples that libopus encodes is one that validate() accepts.
LEMMA OnlyValidFrames ==
    ASSUME NEW rate, ValidRate(rate), NEW length \in Int,
           (length * rate) % 10000 = 0,
           LibopusEncodes(PerChannel(length, rate), rate)
    PROVE  ValidFrame(length)
<1> USE DEF PerChannel, LibopusEncodes, ValidFrame
<1>1. CASE rate = 8000
  BY <1>1
<1>2. CASE rate = 12000
  BY <1>2
<1>3. CASE rate = 16000
  BY <1>3
<1>4. CASE rate = 24000
  BY <1>4
<1>5. CASE rate = 48000
  BY <1>5
<1>6. QED BY <1>1, <1>2, <1>3, <1>4, <1>5 DEF ValidRate

\* The codec rejects exactly what libopus cannot work with.
LEMMA AcceptedIsLegal ==
    ASSUME codec_config \in CodecConfig
    PROVE  Accepted(codec_config) <=> Legal
<1> DEFINE config == codec_config
<1>1. /\ config.sample_rate \in Nat /\ config.channels \in Nat
      /\ config.bitrate \in Nat /\ config.frame_size \in FrameLength
      /\ config.complexity \in Nat
  BY DEF CodecConfig
<1>2. ASSUME Accepted(config) PROVE Legal
  <2>1. ValidRate(config.sample_rate) /\ ValidFrame(config.frame_size) /\ LibopusCreates(config)
    BY <1>2 DEF Accepted, Validates
  <2>2. config.frame_size \in Int /\ (config.frame_size * config.sample_rate) % 10000 = 0
    BY <2>1 DEF ValidRate, ValidFrame
  <2>3. QED BY <2>1, <2>2, ValidFrames DEF Legal
<1>3. ASSUME Legal PROVE Accepted(config)
  <2>1. LibopusCreates(config) /\ ValidRate(config.sample_rate)
    BY <1>1, <1>3, Rates DEF Legal, LibopusCreates
  <2>2. ValidFrame(config.frame_size)
    BY <1>1, <1>3, <2>1, OnlyValidFrames DEF Legal
  <2>3. QED BY <1>1, <2>1, <2>2 DEF Accepted, Validates, LibopusCreates, ValidBitrate
<1>4. QED BY <1>2, <1>3

-----------------------------------------------------------------------------
(* Frames and blocks of an accepted configuration.                         *)

\* A frame is as many whole samples as its length says, for every channel.
LEMMA AcceptedFrames ==
    ASSUME NEW config \in CodecConfig, Accepted(config)
    PROVE  LET samples == SamplesPerFrame(config)
               each    == PerChannel(config.frame_size, config.sample_rate)
           IN  /\ samples \in Nat \ {0} /\ each \in Nat \ {0}
               /\ samples = each * config.channels /\ samples \div config.channels = each
               /\ samples * 10000
                    = config.frame_size * config.sample_rate * config.channels
               /\ LibopusEncodes(each, config.sample_rate)
               /\ LibopusConceals(each, config.sample_rate)
<1> DEFINE each == PerChannel(config.frame_size, config.sample_rate)
<1>1. ValidRate(config.sample_rate) /\ ValidFrame(config.frame_size) /\ config.channels \in {1, 2}
  BY DEF Accepted, Validates
<1>2. /\ each \in Nat \ {0} /\ each * 10000 = config.frame_size * config.sample_rate
      /\ LibopusEncodes(each, config.sample_rate) /\ LibopusConceals(each, config.sample_rate)
  BY <1>1, ValidFrames
<1>3. config.sample_rate \in Nat /\ config.frame_size \in Nat
  BY <1>1 DEF ValidRate, ValidFrame
<1>4. SamplesPerFrame(config) = each * config.channels
  BY DEF SamplesPerFrame
<1> HIDE DEF each
<1>5. CASE config.channels = 1
  <2>1. (each * 1) \div 1 = each /\ each * 1 = each
    BY <1>2
  <2>2. config.frame_size * config.sample_rate * 1 = config.frame_size * config.sample_rate
    BY <1>3
  <2>3. QED BY <1>2, <1>4, <1>5, <2>1, <2>2 DEF each
<1>6. CASE config.channels = 2
  <2>1. (each * 2) \div 2 = each /\ each * 2 \in Nat \ {0}
    BY <1>2
  <2>2. each * 10000 * 2 = each * 2 * 10000
    BY <1>2
  <2>3. QED BY <1>2, <1>4, <1>6, <2>1, <2>2 DEF each
<1>7. QED BY <1>1, <1>5, <1>6

\* A set of numbers that is not empty has a least one.
LEMMA Least ==
    ASSUME NEW T \in SUBSET Nat, T # {}
    PROVE  \E x \in T : \A y \in T : x <= y
<1> DEFINE R == OpToRel(<, Nat)
<1>1. IsWellFoundedOn(R, Nat)
  BY NatLessThanWellFounded
<1>2. \A x, y \in Nat : <<x, y>> \in R <=> x < y
  BY DEF OpToRel
<1> HIDE DEF R
<1>3. PICK x \in T : \A y \in T : ~ (<<y, x>> \in R)
  BY <1>1, WFMin
<1>4. \A y \in T : ~ (y < x)
  BY <1>2, <1>3
<1>5. \A y \in T : x <= y
  BY <1>4
<1>6. QED BY <1>5

\* The outgoing block exists: it is whole frames of the codec and of the
\* processor.
LEMMA BlockWhole ==
    ASSUME NEW samples \in Nat \ {0}
    PROVE  /\ Block(samples) \in Nat
           /\ Block(samples) % samples = 0 /\ Block(samples) % ProcessorFrame = 0
<1> DEFINE Multiples == {k * ProcessorFrame : k \in 1 .. samples}
           Whole == {n \in Multiples : n % samples = 0}
<1>1. Multiples \in SUBSET Nat
  BY DEF ProcessorFrame
<1>2. Whole # {}
  <2>1. samples * ProcessorFrame \in Multiples
    OBVIOUS
  <2>2. (samples * ProcessorFrame) % samples = 0
    BY DEF ProcessorFrame
  <2>3. QED BY <2>1, <2>2
<1>3. PICK n \in Whole : \A m \in Whole : n <= m
  BY <1>1, <1>2, Least
<1>4. \E m \in Multiples : m % samples = 0 /\ \A k \in 1 .. samples :
           (k * ProcessorFrame) % samples = 0 => m <= k * ProcessorFrame
  BY <1>3
<1>5. Block(samples) \in Multiples /\ Block(samples) % samples = 0
  BY <1>4 DEF Block
<1>6. \A k \in 1 .. samples : (k * ProcessorFrame) % ProcessorFrame = 0
  BY DEF ProcessorFrame
<1>7. QED BY <1>1, <1>5, <1>6


-----------------------------------------------------------------------------
(* The inductive invariant.                                                *)

\* Encoder and decoder have one configuration, which the codec accepted; both
\* are there from the step behind their own on.
PartsInv ==
    /\ encoder \subseteq {codec_config} /\ decoder \subseteq {codec_config}
    /\ encoder \cup decoder # {} => Accepted(codec_config)
    /\ at = "align" => encoder = {} /\ decoder = {}
    /\ at \in {"decoder", "jitter", "processor", "built"} => encoder = {codec_config}
    /\ at \in {"jitter", "processor", "built"} => decoder = {codec_config}
    /\ \A config \in jitter : JitterValidates(config)

\* What was built gathers the block of its encoder, and no call of it failed.
CallsInv ==
    /\ at = "built" => block = Block(SamplesPerFrame(codec_config))
    /\ at # "built" => outcome = Nothing
    /\ outcome.kind # "bad_arg"
    /\ outcome.kind = "concealed" => outcome.samples = SamplesPerFrame(codec_config)

\* A session, and only a session, has a peer connection from its first step on;
\* a constructor that goes on raised nothing, and one that ended has its cause.
CauseInv ==
    /\ at \in {"align", "peer"} => builder = "session" /\ peer = "none"
    /\ at \in {"track", "duration"} => builder = "session"
    /\ at \in {"track", "duration", "encoder", "decoder", "jitter", "processor", "built"}
         => (peer = "open" <=> builder = "session")
    /\ raised # "none" => Ended
    /\ at = "processor" => jitter # {}
    /\ at = "failed" => ~ Accepted(codec_config) \/ raised = "peer" \/ jitter # {}
    /\ at = "panicked" => ~ IsDuration(codec_config.frame_size)
    /\ Ended => peer # "open"

IInv == TypeOK /\ PartsInv /\ CallsInv /\ CauseInv


LEMMA InitInv == Init => IInv
<1> SUFFICES ASSUME Init PROVE IInv
  OBVIOUS
<1> USE SetupAssumption
<1>1. TypeOK
  BY DEF Init, TypeOK, Nothing
<1>2. PartsInv
  BY DEF Init, PartsInv
<1>3. CallsInv
  BY DEF Init, CallsInv, Nothing
<1>4. CauseInv
  <2>1. builder \in {"session", "pipeline", "python"}
    BY DEF Init
  <2>2. QED BY <2>1 DEF Init, CauseInv, Ended
<1>5. QED BY <1>1, <1>2, <1>3, <1>4 DEF IInv

-----------------------------------------------------------------------------
(* The session's own steps keep the invariant.                             *)

LEMMA AlignStep == IInv /\ Align => IInv'
<1> SUFFICES ASSUME IInv, Align PROVE IInv'
  OBVIOUS
<1> USE DEF IInv, Align, given, parts
<1>1. TypeOK'
  <2>1. format \in [sample_rate : Nat, channels : Nat]
    BY SetupAssumption DEF TypeOK
  <2>2. codec_config' \in CodecConfig /\ jitter_config' \in JitterConfig
    BY <2>1 DEF TypeOK, CodecConfig, JitterConfig
  <2>3. QED BY <2>2 DEF TypeOK
<1>2. PartsInv'
  BY DEF PartsInv
<1>3. CallsInv'
  BY DEF CallsInv, Nothing
<1>4. CauseInv'
  BY DEF CauseInv, Ended
<1>5. QED BY <1>1, <1>2, <1>3, <1>4

LEMMA NewPeerStep == IInv /\ NewPeer => IInv'
<1> SUFFICES ASSUME IInv, NewPeer PROVE IInv'
  OBVIOUS
<1> USE DEF IInv, NewPeer, given, Fail
<1>1. TypeOK'
  BY DEF TypeOK
<1>2. PartsInv'
  BY DEF PartsInv
<1>3. CallsInv'
  BY DEF CallsInv
<1>4. CauseInv'
  BY DEF CauseInv, Ended
<1>5. QED BY <1>1, <1>2, <1>3, <1>4

LEMMA AddOpusTrackStep == IInv /\ AddOpusTrack => IInv'
<1> SUFFICES ASSUME IInv, AddOpusTrack PROVE IInv'
  OBVIOUS
<1> USE DEF IInv, AddOpusTrack, given, Fail
<1>1. TypeOK'
  BY DEF TypeOK
<1>2. PartsInv'
  BY DEF PartsInv
<1>3. CallsInv'
  BY DEF CallsInv
<1>4. CauseInv'
  BY DEF CauseInv, Ended
<1>5. QED BY <1>1, <1>2, <1>3, <1>4

LEMMA FrameDurationStep == IInv /\ FrameDuration => IInv'
<1> SUFFICES ASSUME IInv, FrameDuration PROVE IInv'
  OBVIOUS
<1> USE DEF IInv, FrameDuration, given
<1>1. TypeOK'
  BY DEF TypeOK, CodecConfig, IsDuration
<1>2. PartsInv'
  BY DEF PartsInv
<1>3. CallsInv'
  BY DEF CallsInv
<1>4. CauseInv'
  BY DEF CauseInv, Ended
<1>5. QED BY <1>1, <1>2, <1>3, <1>4

-----------------------------------------------------------------------------
(* The constructors of the components keep the invariant.                  *)

LEMMA NewEncoderStep == IInv /\ NewEncoder => IInv'
<1> SUFFICES ASSUME IInv, NewEncoder PROVE IInv'
  OBVIOUS
<1> USE DEF IInv, NewEncoder, given, Fail
<1>1. TypeOK'
  BY DEF TypeOK
<1>2. PartsInv'
  BY DEF PartsInv
<1>3. CallsInv'
  BY DEF CallsInv
<1>4. CauseInv'
  BY DEF CauseInv, Ended
<1>5. QED BY <1>1, <1>2, <1>3, <1>4

LEMMA NewDecoderStep == IInv /\ NewDecoder => IInv'
<1> SUFFICES ASSUME IInv, NewDecoder PROVE IInv'
  OBVIOUS
<1> USE DEF IInv, NewDecoder, given, Fail
<1>1. TypeOK'
  BY DEF TypeOK
<1>2. PartsInv'
  BY DEF PartsInv
<1>3. CallsInv'
  BY DEF CallsInv
<1>4. CauseInv'
  BY DEF CauseInv, Ended
<1>5. QED BY <1>1, <1>2, <1>3, <1>4

\* What with_clock() sanitized, validate() would accept.
LEMMA SanitizeRepairs ==
    ASSUME NEW config \in JitterConfig
    PROVE  /\ Sanitize(config) \in [max_latency : Nat, target_latency : Nat,
                                    max_packets : Nat \ {0}, sample_rate : Nat \ {0},
                                    frame_size : Nat \ {0}]
           /\ JitterValidates(Sanitize(config))
<1> DEFINE target  == IF config.target_latency <= config.max_latency
                      THEN config.target_latency ELSE config.max_latency
           packet_limit == AtLeastOne(config.max_packets)
           rate    == AtLeastOne(config.sample_rate)
           frame   == AtLeastOne(config.frame_size)
           repaired == [config EXCEPT !.target_latency = target,
                                      !.max_packets = packet_limit,
                                      !.sample_rate = rate, !.frame_size = frame]
<1>1. Sanitize(config) = repaired
  BY DEF Sanitize
<1>2. config \in [max_latency : Nat, target_latency : Nat, max_packets : Nat,
                  sample_rate : Nat, frame_size : Nat]
  BY DEF JitterConfig
<1>3. /\ target \in Nat /\ target <= config.max_latency
      /\ packet_limit \in Nat \ {0} /\ rate \in Nat \ {0} /\ frame \in Nat \ {0}
  BY <1>2 DEF AtLeastOne
<1> HIDE DEF target, packet_limit, rate, frame
<1>4. /\ repaired \in [max_latency : Nat, target_latency : Nat,
                        max_packets : Nat \ {0}, sample_rate : Nat \ {0},
                        frame_size : Nat \ {0}]
      /\ repaired.max_latency = config.max_latency /\ repaired.target_latency = target
      /\ repaired.max_packets = packet_limit /\ repaired.sample_rate = rate
      /\ repaired.frame_size = frame
  BY <1>2, <1>3
<1>5. JitterValidates(repaired)
  <2> HIDE DEF repaired
  <2>1. QED BY <1>3, <1>4 DEF JitterValidates
<1>6. QED BY <1>1, <1>4, <1>5

LEMMA NewJitterBufferStep == IInv /\ NewJitterBuffer => IInv'
<1> SUFFICES ASSUME IInv, NewJitterBuffer PROVE IInv'
  OBVIOUS
<1> USE DEF IInv, NewJitterBuffer, given
<1>1. jitter_config \in JitterConfig
  BY DEF TypeOK
<1>2. TypeOK'
  BY <1>1, SanitizeRepairs DEF TypeOK
<1>3. PartsInv'
  BY <1>1, SanitizeRepairs DEF PartsInv
<1>4. CallsInv'
  BY DEF CallsInv
<1>5. CauseInv'
  BY DEF CauseInv, Ended
<1>6. QED BY <1>2, <1>3, <1>4, <1>5

LEMMA NewProcessorStep == IInv /\ NewProcessor => IInv'
<1> SUFFICES ASSUME IInv, NewProcessor PROVE IInv'
  OBVIOUS
<1> USE DEF IInv, NewProcessor, given, Fail
<1>1. /\ codec_config \in CodecConfig /\ Accepted(codec_config)
      /\ encoder = {codec_config}
  BY DEF TypeOK, PartsInv
<1>2. block' \in {block, Block(SamplesPerFrame(codec_config))}
  BY <1>1
<1>3. SamplesPerFrame(codec_config) \in Nat \ {0}
  BY <1>1, AcceptedFrames
<1>4. TypeOK'
  <2>1. block' \in Nat
    BY <1>2, <1>3, BlockWhole DEF TypeOK
  <2>2. QED BY <2>1 DEF TypeOK
<1>5. PartsInv'
  BY DEF PartsInv
<1>6. CallsInv'
  BY <1>1 DEF CallsInv, Nothing
<1>7. CauseInv'
  BY DEF CauseInv, Ended
<1>8. QED BY <1>4, <1>5, <1>6, <1>7


-----------------------------------------------------------------------------
(* The calls of what was constructed keep the invariant.                   *)

\* A call that does not fail, and conceals only whole frames, keeps it.
LEMMA CallKeeps ==
    ASSUME IInv, NEW kind \in {"packet", "mismatch", "pcm", "concealed"},
           NEW samples \in Nat, Returns(kind, samples),
           kind = "concealed" => samples = SamplesPerFrame(codec_config)
    PROVE  IInv'
<1> USE DEF IInv, Returns, given, parts
<1>1. outcome'.kind = kind /\ outcome'.samples = samples
  OBVIOUS
<1>2. TypeOK'
  BY DEF TypeOK
<1>3. PartsInv'
  BY DEF PartsInv
<1>4. CallsInv'
  BY <1>1 DEF CallsInv
<1>5. CauseInv'
  BY DEF CauseInv, Ended
<1>6. QED BY <1>2, <1>3, <1>4, <1>5

LEMMA EncodeSomeStep == IInv /\ EncodeSome => IInv'
<1> SUFFICES ASSUME IInv, EncodeSome PROVE IInv'
  OBVIOUS
<1>1. at = "built"
  BY DEF EncodeSome, Encode, Returns
<1>2. encoder = {codec_config} /\ codec_config \in CodecConfig /\ Accepted(codec_config)
      /\ block \in Nat
  BY <1>1 DEF IInv, TypeOK, PartsInv
<1>3. PICK samples \in {0, SamplesPerFrame(codec_config), block, block + 1} :
        Encode(codec_config, samples)
  BY <1>2 DEF EncodeSome
<1>4. samples \in Nat
  BY <1>2, <1>3, AcceptedFrames
<1>5. CASE samples # SamplesPerFrame(codec_config)
  <2>1. Returns("mismatch", samples)
    BY <1>3, <1>5 DEF Encode
  <2>2. QED BY <1>4, <2>1, CallKeeps
<1>6. CASE samples = SamplesPerFrame(codec_config)
  <2>1. LibopusEncodes(samples \div codec_config.channels, codec_config.sample_rate)
    BY <1>2, <1>6, AcceptedFrames
  <2>2. Returns("packet", samples)
    BY <1>3, <1>6, <2>1 DEF Encode
  <2>3. QED BY <1>4, <2>2, CallKeeps
<1>7. QED BY <1>5, <1>6

LEMMA DecodeSomeStep == IInv /\ DecodeSome => IInv'
<1> SUFFICES ASSUME IInv, DecodeSome PROVE IInv'
  OBVIOUS
<1>1. at = "built"
  BY DEF DecodeSome, Conceal, Decode, Recover, Returns
<1>2. decoder = {codec_config} /\ codec_config \in CodecConfig /\ Accepted(codec_config)
  BY <1>1 DEF IInv, TypeOK, PartsInv
<1>3. ASSUME Conceal(codec_config) PROVE IInv'
  <2> DEFINE each == SamplesPerFrame(codec_config) \div codec_config.channels
  <2>1. /\ LibopusConceals(each, codec_config.sample_rate)
        /\ each * codec_config.channels = SamplesPerFrame(codec_config)
        /\ SamplesPerFrame(codec_config) \in Nat
    BY <1>2, AcceptedFrames
  <2>2. Returns("concealed", SamplesPerFrame(codec_config))
    BY <1>3, <2>1 DEF Conceal
  <2>3. QED BY <2>1, <2>2, CallKeeps
<1>4. ASSUME NEW length \in PacketFrames,
             Decode(codec_config, length) \/ Recover(codec_config, length)
      PROVE  IInv'
  <2> DEFINE each == PerChannel(length, codec_config.sample_rate)
  <2>1. ValidRate(codec_config.sample_rate) /\ ValidFrame(length)
        /\ codec_config.channels \in {1, 2}
    BY <1>2, SetupAssumption DEF Accepted, Validates, ValidFrame
  <2>2. each \in Nat /\ LibopusConceals(each, codec_config.sample_rate)
    BY <2>1, ValidFrames
  <2>3. each * codec_config.channels \in Nat
    BY <2>1, <2>2
  <2>4. Returns("pcm", each * codec_config.channels)
    BY <1>4, <2>2 DEF Decode, Recover
  <2>5. QED BY <2>3, <2>4, CallKeeps
<1>5. QED BY <1>2, <1>3, <1>4 DEF DecodeSome

-----------------------------------------------------------------------------
LEMMA InvAlways == Spec => []IInv
<1>1. IInv /\ [Next]_vars => IInv'
  <2> SUFFICES ASSUME IInv, [Next]_vars PROVE IInv'
    OBVIOUS
  <2>1. CASE Align
    BY <2>1, AlignStep
  <2>2. CASE NewPeer
    BY <2>2, NewPeerStep
  <2>3. CASE AddOpusTrack
    BY <2>3, AddOpusTrackStep
  <2>4. CASE FrameDuration
    BY <2>4, FrameDurationStep
  <2>5. CASE NewEncoder
    BY <2>5, NewEncoderStep
  <2>6. CASE NewDecoder
    BY <2>6, NewDecoderStep
  <2>7. CASE NewJitterBuffer
    BY <2>7, NewJitterBufferStep
  <2>8. CASE NewProcessor
    BY <2>8, NewProcessorStep
  <2>9. CASE EncodeSome
    BY <2>9, EncodeSomeStep
  <2>10. CASE DecodeSome
    BY <2>10, DecodeSomeStep
  <2>11. CASE UNCHANGED vars
    <3>1. UNCHANGED <<builder, format, codec_config, jitter_config, at, peer,
                      frame_duration, encoder, decoder, jitter, block, raised, outcome>>
      BY <2>11 DEF vars, given, parts
    <3>2. TypeOK' /\ PartsInv' /\ CallsInv' /\ CauseInv'
      BY <3>1 DEF IInv, TypeOK, PartsInv, CallsInv, CauseInv, Ended
    <3>3. QED BY <3>2 DEF IInv
  <2>12. QED BY <2>1, <2>2, <2>3, <2>4, <2>5, <2>6, <2>7, <2>8, <2>9, <2>10, <2>11 DEF Next
<1>2. QED BY <1>1, InitInv, PTL DEF Spec

\* The settings of the components are well typed, whatever was given
\* (session.rs:91-102, pipeline.rs:62-75).
THEOREM TypeCorrect == Spec => []TypeOK
<1>1. IInv => TypeOK
  BY DEF IInv
<1>2. QED BY <1>1, InvAlways, PTL

\* Whatever settings are given, what a constructor returned never fails on the
\* frames, packets and concealment it was configured for (codec.rs:29-34,
\* 125-128).
THEOREM FailsEarlyAlways == Spec => []FailsEarly
<1>1. ASSUME IInv PROVE FailsEarly
  <2>1. outcome.kind # "bad_arg"
    BY <1>1 DEF IInv, CallsInv
  <2>2. ASSUME at = "built"
        PROVE  /\ encoder = decoder
               /\ \A config \in jitter : JitterValidates(config)
               /\ \A config \in encoder :
                    /\ SamplesPerFrame(config) * 10000
                         = config.frame_size * config.sample_rate * config.channels
                    /\ outcome.kind = "concealed" =>
                         outcome.samples = SamplesPerFrame(config)
    <3>1. /\ encoder = {codec_config} /\ decoder = {codec_config}
          /\ codec_config \in CodecConfig /\ Accepted(codec_config)
          /\ \A config \in jitter : JitterValidates(config)
          /\ outcome.kind = "concealed" => outcome.samples = SamplesPerFrame(codec_config)
      BY <1>1, <2>2 DEF IInv, TypeOK, PartsInv, CallsInv
    <3>2. /\ SamplesPerFrame(codec_config) \in Nat \ {0}
          /\ SamplesPerFrame(codec_config) * 10000
               = codec_config.frame_size * codec_config.sample_rate * codec_config.channels
      BY <3>1, AcceptedFrames
    <3>3. QED BY <3>1, <3>2
  <2>3. QED BY <2>1, <2>2 DEF FailsEarly
<1>2. QED BY <1>1, InvAlways, PTL

\* For every setting, finite or not: what is built is legal; what is legal meets no
\* panic, not in the conversion to a Duration that runs before the codec's checks
\* either, and no rejection but those of peer connection and engine; no error
\* leaves an open peer connection (session.rs:194-206, codec.rs:125-128).
THEOREM RejectedForCauseAlways == Spec => []RejectedForCause
<1>1. ASSUME IInv PROVE RejectedForCause
  <2>1. Accepted(codec_config) <=> Legal
    BY <1>1, AcceptedIsLegal DEF IInv, TypeOK
  <2>2. at = "built" => Accepted(codec_config) /\ (peer = "open" <=> builder = "session")
    BY <1>1 DEF IInv, PartsInv, CauseInv
  <2>3. Accepted(codec_config) => IsDuration(codec_config.frame_size)
    BY SetupAssumption DEF Accepted, Validates, ValidFrame, IsDuration
  <2>4. /\ at = "failed" => ~ Accepted(codec_config) \/ raised = "peer" \/ jitter # {}
        /\ at = "panicked" => ~ IsDuration(codec_config.frame_size)
        /\ Ended => peer # "open"
    BY <1>1 DEF IInv, CauseInv
  <2>5. QED BY <2>1, <2>2, <2>3, <2>4 DEF RejectedForCause, Ended
<1>2. QED BY <1>1, InvAlways, PTL

=============================================================================
