---------------------------- MODULE MCSessionSetup ----------------------------
(***************************************************************************)
(* Finite instances of SessionSetup: every setting at, inside and beyond   *)
(* the limits the code checks, and session defaults.                       *)
(***************************************************************************)
EXTENDS SessionSetup

CodecLimits ==
    [sample_rate : {16000, 44100, 48000}, channels : {1, 2, 3},
     bitrate : {499, 500, 24000}, complexity : {10, 11},
     frame_size : {-10, 25, 100, 110, 600, DurationLimit} \cup NotFinite]

JitterLimits ==
    {[max_latency |-> 120, target_latency |-> 5, max_packets |-> 100,
      sample_rate |-> 48000, frame_size |-> 10],
     [max_latency |-> 120, target_latency |-> 121, max_packets |-> 0,
      sample_rate |-> 0, frame_size |-> 0]}

FormatLimits == [sample_rate : {8000, 16000, 44100}, channels : {1, 2, 3}]

\* CodecConfig::default(), but for frames of 10 or 20 ms.
DefaultCodec ==
    [sample_rate : {48000}, channels : {1}, bitrate : {24000},
     frame_size : {100, 200}, complexity : {0}]

DefaultJitter ==
    {[max_latency |-> 120, target_latency |-> 5, max_packets |-> 100,
      sample_rate |-> 48000, frame_size |-> 10]}

OpusFrames == {25, 50, 100, 200, 400, 600}

VoiceFormats == [sample_rate : {16000, 48000}, channels : {1}]

=============================================================================
