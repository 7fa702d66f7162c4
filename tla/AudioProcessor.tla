---------------------------- MODULE AudioProcessor ----------------------------
(***************************************************************************)
(* The framing of llm-rtc-core's audio processor (audio/processor.rs): it  *)
(* fits blocks of any size onto the engine's fixed frames and writes what  *)
(* the engine returns back into the caller's block.  The signal processing *)
(* itself is abstracted to a mark: a sample is raw or processed.           *)
(*                                                                         *)
(* Near-end samples are numbered in the order they are captured.  Far-end  *)
(* samples are only counted.  Definitions commented "Slip" are slips one   *)
(* could make in this code; nothing uses them.                             *)
(***************************************************************************)
EXTENDS Integers, Sequences

CONSTANTS
    FrameSamples,   \* FRAME_SAMPLES: samples of one engine frame
    BlockSizes,     \* sizes of the blocks the callers pass
    MaxCaptured,    \* bound of the model: near-end samples of one stream
    MaxFailures     \* bound of the model: calls the engine or codec rejects

ASSUME ProcessorAssumption ==
    /\ FrameSamples \in Nat \ {0}
    /\ BlockSizes \subseteq Nat
    /\ MaxCaptured \in Nat /\ MaxFailures \in Nat

VARIABLES
    pending_capture,    \* raw near-end samples short of a frame
    carry_out,          \* processed samples the caller's block had no room for
    pending_render,     \* number of far-end samples short of a frame
    near_end,           \* the caller's block, as the last call left it
    ok,                 \* the last call returned Ok
    captured,           \* history: near-end samples taken so far
    output,             \* history: the blocks handed back by calls that succeeded
    failures            \* history: calls that failed

framing == <<pending_capture, carry_out, pending_render>>
vars    == <<framing, near_end, ok, captured, output, failures>>

-----------------------------------------------------------------------------
Sample == [number : Nat, processed : BOOLEAN]

Raw(block)       == [i \in DOMAIN block |-> [number |-> block[i], processed |-> FALSE]]
Processed(block) == [i \in DOMAIN block |-> [number |-> block[i], processed |-> TRUE]]

\* The next n samples of the microphone.
Captured(n) == [i \in 1 .. n |-> captured + i]

Front(seq, n) == SubSeq(seq, 1, n)
Rest(seq, n)  == SubSeq(seq, n + 1, Len(seq))

Failed == failures < MaxFailures /\ ok' = FALSE /\ failures' = failures + 1
Done   == ok' = TRUE /\ UNCHANGED failures

Init ==
    /\ pending_capture = <<>> /\ carry_out = <<>> /\ pending_render = 0
    /\ near_end = <<>> /\ ok = TRUE
    /\ captured = 0 /\ output = <<>> /\ failures = 0

-----------------------------------------------------------------------------
(* process()                                                               *)

\* Nothing is buffered and the block is whole frames: no copy is made.  An
\* engine error leaves the frames before it processed.
ProcessInPlace(block) ==
    /\ pending_capture = <<>> /\ carry_out = <<>>
    /\ Len(block) % FrameSamples = 0
    /\ \E done \in 0 .. Len(block) \div FrameSamples :
         LET n == done * FrameSamples
         IN  /\ IF n = Len(block) THEN Done ELSE Failed
             /\ near_end' = Processed(Front(block, n)) \o Raw(Rest(block, n))
    /\ UNCHANGED <<pending_capture, carry_out>>

\* Slip: what does not fit into the caller's block is lost.
DeliverWithoutCarry(produced, block) ==
    LET n == IF Len(produced) <= Len(block) THEN Len(produced) ELSE Len(block)
    IN  /\ near_end' = Processed(Front(produced, n)) \o Raw(Rest(block, n))
        /\ carry_out' = <<>>

\* deliver(): processed samples overwrite the front of the caller's block;
\* what does not fit is carried over, what they do not fill stays raw.
Deliver(produced, block) ==
    LET n == IF Len(produced) <= Len(block) THEN Len(produced) ELSE Len(block)
    IN  /\ near_end' = Processed(Front(produced, n)) \o Raw(Rest(block, n))
        /\ carry_out' = Rest(produced, n)

\* Slip: one frame a call.
ProcessOneFrame(block) ==
    LET queued == pending_capture \o block
        n == IF Len(queued) >= FrameSamples THEN FrameSamples ELSE 0
    IN  /\ Done
        /\ Deliver(carry_out \o Front(queued, n), block)
        /\ pending_capture' = Rest(queued, n)

\* Slip: fresh samples delivered before those carried over.
ProcessCarryLast(block) ==
    LET queued == pending_capture \o block
        n == (Len(queued) \div FrameSamples) * FrameSamples
    IN  /\ Done
        /\ Deliver(Front(queued, n) \o carry_out, block)
        /\ pending_capture' = Rest(queued, n)

\* drain_capture_frames() and deliver().  An engine error drops the frame it
\* met and those already processed in this call, and delivers nothing.
ProcessBuffered(block) ==
    LET queued == pending_capture \o block
        frames == Len(queued) \div FrameSamples
        Whole(done) == done * FrameSamples
    IN  \/ /\ Done
           /\ Deliver(carry_out \o Front(queued, Whole(frames)), block)
           /\ pending_capture' = Rest(queued, Whole(frames))
        \/ /\ Failed
           /\ \E done \in 1 .. frames : pending_capture' = Rest(queued, Whole(done))
           /\ near_end' = Raw(block)
           /\ UNCHANGED carry_out

Process(block) ==
    \/ ProcessInPlace(block)
    \/ /\ \/ pending_capture # <<>> \/ carry_out # <<>>
          \/ Len(block) % FrameSamples # 0
       /\ ProcessBuffered(block)

-----------------------------------------------------------------------------
(* process_render(), of n far-end samples.                                 *)

\* Slip: the last, incomplete frame consumed as well.
RenderRoundedUp(n) ==
    pending_render' =
        pending_render + n
          - ((pending_render + n + FrameSamples - 1) \div FrameSamples) * FrameSamples

RenderSucceeds(n) == pending_render' = (pending_render + n) % FrameSamples

\* The frame the engine rejected is consumed, those behind it are kept.
RenderFails(n) ==
    \E done \in 1 .. (pending_render + n) \div FrameSamples :
        pending_render' = pending_render + n - done * FrameSamples

-----------------------------------------------------------------------------
(* Calls.                                                                  *)

\* What the caller got back, if the call succeeded.
HandBack == output' = IF ok' THEN output \o near_end' ELSE output

Capture(n) ==
    /\ captured + n <= MaxCaptured
    /\ captured' = captured + n
    /\ Process(Captured(n))
    /\ HandBack
    /\ UNCHANGED pending_render

\* process_with_reference(): when the far end fails the near end is not taken.
CaptureWithReference(n, far_end) ==
    /\ captured + n <= MaxCaptured
    /\ \/ /\ RenderSucceeds(far_end)
          /\ captured' = captured + n
          /\ Process(Captured(n))
       \/ /\ RenderFails(far_end) /\ Failed
          /\ UNCHANGED <<pending_capture, carry_out, near_end, captured>>
    /\ HandBack

Render(n) ==
    /\ \/ RenderSucceeds(n) /\ Done
       \/ RenderFails(n) /\ Failed
    /\ UNCHANGED <<pending_capture, carry_out, near_end, captured, output>>

\* The buffers that reset() clears; the engine is rebuilt.
ClearFraming ==
    pending_capture' = <<>> /\ carry_out' = <<>> /\ pending_render' = 0

Reset ==
    /\ ClearFraming
    /\ captured' = 0 /\ output' = <<>> /\ near_end' = <<>> /\ ok' = TRUE
    /\ UNCHANGED failures

Next == \/ \E n \in BlockSizes : Capture(n) \/ Render(n)
        \/ \E n, far_end \in BlockSizes : CaptureWithReference(n, far_end)
        \/ Reset

Spec == Init /\ [][Next]_vars

-----------------------------------------------------------------------------
(* Properties.                                                             *)

\* The fields of the processor have their types; processor.rs:153-171.
TypeOK ==
    /\ pending_capture \in Seq(Nat) /\ carry_out \in Seq(Nat)
    /\ pending_render \in Nat
    /\ near_end \in Seq(Sample) /\ output \in Seq(Sample)
    /\ ok \in BOOLEAN
    /\ captured \in Nat /\ failures \in Nat

\* The positions of the output at which processed samples came back.
Delivered == {i \in DOMAIN output : output[i].processed}

\* Samples between the microphone and the caller, in the order they will leave.
InFlight == carry_out \o pending_capture

\* Until a call fails every captured sample has come back processed, or is
\* still held; InOrder adds that it is so only once (processor.rs:27-36).
Lossless ==
    failures = 0 =>
        {output[i].number : i \in Delivered} \cup {InFlight[k] : k \in DOMAIN InFlight}
          = 1 .. captured

\* A call that fails may lose samples, but none comes back twice or out of
\* order, before or after (processor.rs:344-378).
InOrder ==
    /\ \A i, j \in Delivered : i < j => output[i].number < output[j].number
    /\ \A i \in Delivered, k \in DOMAIN InFlight : output[i].number < InFlight[k]
    /\ \A k, l \in DOMAIN InFlight : k < l => InFlight[k] < InFlight[l]

\* Until a call fails the processor delays the stream by less than a frame,
\* whatever sizes the blocks have: neither buffer builds up.
DelayWithinFrame ==
    failures = 0 => /\ Len(InFlight) < FrameSamples
                    /\ pending_render < FrameSamples

\* What is handed back is the input, sample by sample, processed, as the
\* module's documentation says (processor.rs:34-36).
SampleAligned ==
    \A i \in DOMAIN output : output[i] = [number |-> i, processed |-> TRUE]

=============================================================================
