---------------------------- MODULE MCJitterBuffer ----------------------------
(***************************************************************************)
(* Finite instances of JitterBuffer: the packets a sender puts on the wire *)
(* and small spaces in which both the sequence numbers and the timestamps  *)
(* wrap within the stream.                                                 *)
(***************************************************************************)
EXTENDS JitterBuffer

\* A sender that numbers its frames from first_seq on, stamps them from
\* first_ts on and sends frame f at the instant clock[f].
Stream(clock, first_seq, first_ts) ==
    {[sequence_number |-> (first_seq + frame) % SeqSpace,
      timestamp       |-> (first_ts + clock[frame]) % TsSpace,
      payload         |-> frame,
      sent_at         |-> clock[frame]] : frame \in DOMAIN clock}

\* Continuous speech: a frame every FrameTicks.  Both counters wrap.
ContiguousSpeech ==
    Stream([frame \in 0 .. 3 |-> frame * FrameTicks],
           SeqSpace - 2, TsSpace - FrameTicks)

\* Opus DTX: after its second frame the sender is silent for two frames, so
\* that the timestamps jump where the sequence numbers do not, and wrap.
SpeechWithSilence ==
    Stream([frame \in 0 .. 3 |-> (frame + IF frame > 1 THEN 2 ELSE 0)
                                   * FrameTicks], 0, TsSpace - 3 * FrameTicks)

=============================================================================
