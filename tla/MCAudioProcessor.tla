--------------------------- MODULE MCAudioProcessor ---------------------------
(***************************************************************************)
(* Finite instances of AudioProcessor.                                     *)
(***************************************************************************)
EXTENDS AudioProcessor

\* Blocks without a sample, shorter than a frame, of one frame, of frames and a part, of two.
BlocksAroundAFrame == {0, 1, FrameSamples - 1, FrameSamples,
                       FrameSamples + 1, 2 * FrameSamples}

=============================================================================
