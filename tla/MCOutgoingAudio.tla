--------------------------- MODULE MCOutgoingAudio ----------------------------
(***************************************************************************)
(* Finite instances of OutgoingAudio.                                      *)
(***************************************************************************)
EXTENDS OutgoingAudio

\* Codec frames that divide the processor's, are multiples of it, or neither.
FramesOfAllKinds == {1, 2, 3, 4, 6}

=============================================================================
