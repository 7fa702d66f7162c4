---------------------------- MODULE MCVoiceSession ----------------------------
(***************************************************************************)
(* Finite instances of VoiceSession.                                       *)
(***************************************************************************)
EXTENDS VoiceSession

\* Three frames of speech, one every FrameTicks.
ThreeFrames ==
    {[sequence_number |-> frame, timestamp |-> frame * FrameTicks,
      payload |-> frame, sent_at |-> frame * FrameTicks] : frame \in 0 .. 2}

\* The same stream, its middle frame lost.
MiddleFrameLost == {p \in ThreeFrames : p.payload # 1}

=============================================================================
