------------------------- MODULE AudioProcessorProofs -------------------------
(***************************************************************************)
(* Theorems about AudioProcessor, for every frame size, every set of block *)
(* sizes and every pattern of engine failures.                             *)
(***************************************************************************)
EXTENDS AudioProcessor, SequenceTheorems, TLAPS

\* What is cut into whole frames and what is left.
LEMMA WholeFramesAndRest ==
    ASSUME NEW total \in Nat, NEW frame \in Nat \ {0}
    PROVE  LET frames == total \div frame
           IN  /\ frames \in Nat
               /\ frames * frame \in 0 .. total
               /\ total - frames * frame < frame
               /\ \A done \in 0 .. frames : done * frame \in 0 .. total
<1>1. total \div frame \in Nat /\ (total \div frame) * frame <= total
      /\ total - (total \div frame) * frame < frame
      /\ (total \div frame) * frame >= 0
  BY SMT
<1>2. ASSUME NEW done \in 0 .. (total \div frame)
      PROVE  done * frame \in 0 .. total
  <2>1. done * frame <= (total \div frame) * frame /\ done * frame >= 0
    BY <1>1, SMT
  <2>2. QED BY <1>1, <2>1, SMT
<1>3. QED BY <1>1, <1>2, SMT

\* The two parts of a sequence cut behind its first n elements.
LEMMA FrontAndRest ==
    ASSUME NEW S, NEW seq \in Seq(S), NEW n \in 0 .. Len(seq)
    PROVE  /\ Front(seq, n) \in Seq(S) /\ Len(Front(seq, n)) = n
           /\ Rest(seq, n) \in Seq(S) /\ Len(Rest(seq, n)) = Len(seq) - n
BY SMT DEF Front, Rest

LEMMA Concatenation ==
    ASSUME NEW S, NEW s \in Seq(S), NEW t \in Seq(S)
    PROVE  s \o t \in Seq(S) /\ Len(s \o t) = Len(s) + Len(t)
BY SMT

\* Marking samples changes neither their number nor their type.
LEMMA Marking ==
    ASSUME NEW block \in Seq(Nat)
    PROVE  /\ Raw(block) \in Seq(Sample) /\ Len(Raw(block)) = Len(block)
           /\ Processed(block) \in Seq(Sample) /\ Len(Processed(block)) = Len(block)
<1>1. DOMAIN block = 1 .. Len(block) /\ Len(block) \in Nat
  BY SMT
<1>2. \A i \in 1 .. Len(block) : block[i] \in Nat
  BY SMT
<1>3. QED BY <1>1, <1>2, SMT DEF Raw, Processed, Sample

\* A call succeeds or fails; only a failure is counted.
LEMMA Outcome ==
    ASSUME TypeOK
    PROVE  /\ Done \/ Failed => ok' \in BOOLEAN /\ failures' \in Nat
           /\ Done => failures' = failures
           /\ Failed => failures' # 0
<1>1. failures \in Nat
  BY DEF TypeOK
<1>2. Done => ok' \in BOOLEAN /\ failures' = failures
  BY Zenon DEF Done
<1>3. Failed => ok' \in BOOLEAN
  BY Zenon DEF Failed
<1>4. Failed => failures' \in Nat /\ failures' # 0
  <2>1. Failed => failures' = failures + 1
    BY Zenon DEF Failed
  <2>2. QED BY <1>1, <2>1, SMT
<1>5. QED BY <1>1, <1>2, <1>3, <1>4

LEMMA CapturedBlock ==
    ASSUME TypeOK, NEW n \in Nat
    PROVE  Captured(n) \in Seq(Nat) /\ Len(Captured(n)) = n
BY SMT DEF Captured, TypeOK

-----------------------------------------------------------------------------
(* Each way through a call, with all that the invariants ask of it.        *)

Framed == pending_capture' \in Seq(Nat) /\ carry_out' \in Seq(Nat)

\* deliver() hands back as many samples as it is given room for.
LEMMA DeliverFrames ==
    ASSUME NEW produced \in Seq(Nat), NEW block \in Seq(Nat),
           Deliver(produced, block)
    PROVE  /\ carry_out' \in Seq(Nat) /\ near_end' \in Seq(Sample)
           /\ Len(carry_out') = IF Len(produced) <= Len(block) THEN 0
                                ELSE Len(produced) - Len(block)
<1> DEFINE n == IF Len(produced) <= Len(block) THEN Len(produced) ELSE Len(block)
<1>1. Len(produced) \in Nat /\ Len(block) \in Nat
  BY SMT
<1>2. n \in 0 .. Len(produced) /\ n \in 0 .. Len(block)
  BY <1>1, SMT
<1>3. Front(produced, n) \in Seq(Nat) /\ Rest(block, n) \in Seq(Nat)
  BY <1>2, FrontAndRest
<1>4. Processed(Front(produced, n)) \in Seq(Sample) /\ Raw(Rest(block, n)) \in Seq(Sample)
  BY <1>3, Marking
<1>5. near_end' = Processed(Front(produced, n)) \o Raw(Rest(block, n))
      /\ carry_out' = Rest(produced, n)
  BY DEF Deliver
<1>6. near_end' \in Seq(Sample)
  BY <1>4, <1>5, Concatenation
<1>7. carry_out' \in Seq(Nat) /\ Len(carry_out') = Len(produced) - n
  BY <1>2, <1>5, FrontAndRest
<1>8. QED BY <1>1, <1>6, <1>7, SMT

LEMMA ProcessInPlaceFrames ==
    ASSUME TypeOK, NEW block \in Seq(Nat), ProcessInPlace(block), ProcessorAssumption
    PROVE  /\ Framed /\ near_end' \in Seq(Sample)
           /\ ok' \in BOOLEAN /\ failures' \in Nat
           /\ UNCHANGED <<pending_capture, carry_out>>
<1>1. PICK done \in 0 .. Len(block) \div FrameSamples :
         LET n == done * FrameSamples
         IN  /\ IF n = Len(block) THEN Done ELSE Failed
             /\ near_end' = Processed(Front(block, n)) \o Raw(Rest(block, n))
  BY DEF ProcessInPlace
<1> DEFINE n == done * FrameSamples
<1>2. Len(block) \in Nat /\ FrameSamples \in Nat \ {0}
  BY SMT DEF ProcessorAssumption
<1>3. n \in 0 .. Len(block)
  BY <1>1, <1>2, WholeFramesAndRest
<1>4. Front(block, n) \in Seq(Nat) /\ Rest(block, n) \in Seq(Nat)
  BY <1>3, FrontAndRest
<1>5. Processed(Front(block, n)) \in Seq(Sample) /\ Raw(Rest(block, n)) \in Seq(Sample)
  BY <1>4, Marking
<1>6. near_end' \in Seq(Sample)
  BY <1>1, <1>5, Concatenation
<1>7. ok' \in BOOLEAN /\ failures' \in Nat
  BY <1>1, Outcome
<1>8. QED BY <1>6, <1>7 DEF ProcessInPlace, Framed, TypeOK

LEMMA ProcessBufferedFrames ==
    ASSUME TypeOK, NEW block \in Seq(Nat), ProcessBuffered(block), ProcessorAssumption
    PROVE  /\ Framed /\ near_end' \in Seq(Sample)
           /\ ok' \in BOOLEAN /\ failures' \in Nat
           /\ failures' = 0 /\ Len(carry_out) + Len(pending_capture) < FrameSamples
                => Len(carry_out') + Len(pending_capture') < FrameSamples
<1> DEFINE queued == pending_capture \o block
           frames == Len(queued) \div FrameSamples
           Whole(done) == done * FrameSamples
<1>1. queued \in Seq(Nat) /\ Len(queued) = Len(pending_capture) + Len(block)
  BY Concatenation DEF TypeOK
<1>2. /\ Len(queued) \in Nat /\ Len(block) \in Nat
      /\ Len(pending_capture) \in Nat /\ Len(carry_out) \in Nat
      /\ FrameSamples \in Nat \ {0} /\ failures \in Nat
      /\ carry_out \in Seq(Nat)
  BY <1>1, SMT DEF TypeOK, ProcessorAssumption
<1>3. /\ frames \in Nat
      /\ Whole(frames) \in 0 .. Len(queued)
      /\ Len(queued) - Whole(frames) < FrameSamples
      /\ \A done \in 0 .. frames : Whole(done) \in 0 .. Len(queued)
  BY <1>2, WholeFramesAndRest
<1>4. CASE /\ Done
           /\ Deliver(carry_out \o Front(queued, Whole(frames)), block)
           /\ pending_capture' = Rest(queued, Whole(frames))
  <2> DEFINE produced == carry_out \o Front(queued, Whole(frames))
  <2>1. Front(queued, Whole(frames)) \in Seq(Nat)
        /\ Len(Front(queued, Whole(frames))) = Whole(frames)
    BY <1>1, <1>3, FrontAndRest
  <2>2. produced \in Seq(Nat) /\ Len(produced) = Len(carry_out) + Whole(frames)
    BY <1>2, <2>1, Concatenation
  <2>3. pending_capture' \in Seq(Nat)
        /\ Len(pending_capture') = Len(queued) - Whole(frames)
    BY <1>1, <1>3, <1>4, FrontAndRest
  <2>4. /\ carry_out' \in Seq(Nat) /\ near_end' \in Seq(Sample)
        /\ Len(carry_out') = IF Len(produced) <= Len(block) THEN 0
                             ELSE Len(produced) - Len(block)
    <3>1. Deliver(produced, block)
      BY <1>4
    <3>2. QED BY <2>2, <3>1, DeliverFrames
  <2>5. Len(carry_out) + Len(pending_capture) < FrameSamples
          => Len(carry_out') + Len(pending_capture') < FrameSamples
    <3> HIDE DEF queued, frames, Whole, produced
    <3>1. CASE Len(produced) <= Len(block)
      BY <1>2, <1>3, <2>3, <2>4, <3>1, SMT
    <3>2. CASE ~(Len(produced) <= Len(block))
      <4>1. Len(carry_out') = Len(carry_out) + Whole(frames) - Len(block)
        BY <1>2, <1>3, <2>2, <2>4, <3>2, SMT
      <4>2. Len(pending_capture') = Len(pending_capture) + Len(block) - Whole(frames)
        BY <1>1, <1>2, <1>3, <2>3, SMT
      <4>3. QED BY <1>2, <1>3, <4>1, <4>2, SMT
    <3>3. QED BY <3>1, <3>2
  <2>6. ok' \in BOOLEAN /\ failures' \in Nat
    BY <1>4, Outcome
  <2>7. QED BY <2>3, <2>4, <2>5, <2>6 DEF Framed
<1>5. CASE /\ Failed
           /\ \E done \in 1 .. frames : pending_capture' = Rest(queued, Whole(done))
           /\ near_end' = Raw(block)
           /\ UNCHANGED carry_out
  <2>1. PICK done \in 1 .. frames : pending_capture' = Rest(queued, Whole(done))
    BY <1>5
  <2>2. Whole(done) \in 0 .. Len(queued)
    <3>1. done \in 0 .. frames
      BY <1>3, <2>1, SMT
    <3>2. QED BY <1>3, <3>1
  <2>3. pending_capture' \in Seq(Nat)
    BY <1>1, <2>1, <2>2, FrontAndRest
  <2>4. ok' \in BOOLEAN /\ failures' \in Nat /\ failures' # 0
    BY <1>5, Outcome
  <2>5. near_end' \in Seq(Sample)
    BY <1>5, Marking
  <2>6. QED BY <1>2, <1>5, <2>3, <2>4, <2>5 DEF Framed
<1>6. QED BY <1>4, <1>5 DEF ProcessBuffered

\* What the properties need of process(), whichever way it goes.
LEMMA ProcessFrames ==
    ASSUME TypeOK, NEW block \in Seq(Nat), Process(block), ProcessorAssumption
    PROVE  /\ Framed /\ near_end' \in Seq(Sample)
           /\ ok' \in BOOLEAN /\ failures' \in Nat
           /\ failures' = 0 /\ Len(carry_out) + Len(pending_capture) < FrameSamples
                => Len(carry_out') + Len(pending_capture') < FrameSamples
<1>1. CASE ProcessInPlace(block)
  BY <1>1, ProcessInPlaceFrames
<1>2. CASE ProcessBuffered(block)
  BY <1>2, ProcessBufferedFrames
<1>3. QED BY <1>1, <1>2 DEF Process

-----------------------------------------------------------------------------
LEMMA InitTyped ==
    ASSUME Init
    PROVE  TypeOK /\ DelayWithinFrame
<1>1. TypeOK
  BY SMT DEF Init, TypeOK
<1>2. Len(InFlight) = 0
  BY SMT DEF Init, InFlight
<1>3. QED BY <1>1, <1>2, ProcessorAssumption, SMT DEF Init, DelayWithinFrame, ProcessorAssumption

\* What a far-end call leaves.
LEMMA RenderFrames ==
    ASSUME TypeOK, NEW n \in Nat
    PROVE  /\ RenderSucceeds(n) => pending_render' \in 0 .. FrameSamples - 1
           /\ RenderFails(n) => pending_render' \in Nat
<1>1. pending_render \in Nat /\ pending_render + n \in Nat /\ FrameSamples \in Nat \ {0}
  BY ProcessorAssumption, SMT DEF TypeOK, ProcessorAssumption
<1>2. RenderSucceeds(n) => pending_render' \in 0 .. FrameSamples - 1
  BY <1>1, SMT DEF RenderSucceeds
<1>3. ASSUME RenderFails(n) PROVE pending_render' \in Nat
  <2>1. PICK done \in 1 .. (pending_render + n) \div FrameSamples :
          pending_render' = pending_render + n - done * FrameSamples
    BY <1>3 DEF RenderFails
  <2>2. /\ (pending_render + n) \div FrameSamples \in Nat
        /\ \A k \in 0 .. (pending_render + n) \div FrameSamples :
              k * FrameSamples \in 0 .. pending_render + n
    BY <1>1, WholeFramesAndRest
  <2>3. done * FrameSamples \in 0 .. pending_render + n
    <3>1. done \in 0 .. (pending_render + n) \div FrameSamples
      BY <2>1, <2>2, SMT
    <3>2. QED BY <2>2, <3>1
  <2>4. QED BY <1>1, <2>1, <2>3, SMT
<1>4. QED BY <1>2, <1>3

LEMMA HandBackTyped ==
    ASSUME TypeOK, HandBack, near_end' \in Seq(Sample)
    PROVE  output' \in Seq(Sample)
BY Concatenation DEF HandBack, TypeOK

\* The delay invariant in the form the lemmas above use.
LEMMA DelayLength ==
    ASSUME TypeOK
    PROVE  /\ Len(InFlight) = Len(carry_out) + Len(pending_capture)
           /\ pending_render \in Nat
BY Concatenation DEF InFlight, TypeOK

LEMMA StepTyped ==
    ASSUME TypeOK, [Next]_vars
    PROVE  TypeOK'
<1>1. ASSUME NEW n \in BlockSizes, Capture(n) PROVE TypeOK'
  <2>1. n \in Nat /\ captured' \in Nat
    BY <1>1, ProcessorAssumption, SMT DEF Capture, TypeOK, ProcessorAssumption
  <2>2. Captured(n) \in Seq(Nat)
    BY <2>1, CapturedBlock
  <2>3. Framed /\ near_end' \in Seq(Sample) /\ ok' \in BOOLEAN /\ failures' \in Nat
    BY <1>1, <2>2, ProcessFrames, ProcessorAssumption DEF Capture
  <2>4. output' \in Seq(Sample) /\ pending_render' \in Nat
    BY <1>1, <2>3, HandBackTyped DEF Capture, TypeOK
  <2>5. QED BY <2>1, <2>3, <2>4, Zenon DEF TypeOK, Framed
<1>2. ASSUME NEW n \in BlockSizes, NEW far_end \in BlockSizes,
             CaptureWithReference(n, far_end)
      PROVE  TypeOK'
  <2>1. n \in Nat /\ far_end \in Nat
    BY ProcessorAssumption, SMT DEF ProcessorAssumption
  <2>2. Captured(n) \in Seq(Nat)
    BY <2>1, CapturedBlock
  <2>3. CASE RenderSucceeds(far_end) /\ captured' = captured + n /\ Process(Captured(n))
    <3>1. Framed /\ near_end' \in Seq(Sample) /\ ok' \in BOOLEAN /\ failures' \in Nat
      BY <2>2, <2>3, ProcessFrames, ProcessorAssumption
    <3>2. output' \in Seq(Sample)
      BY <1>2, <3>1, HandBackTyped DEF CaptureWithReference
    <3>3. captured' \in Nat
      BY <2>1, <2>3, SMT DEF TypeOK
    <3>4. pending_render' \in Nat
      <4>1. pending_render' \in 0 .. FrameSamples - 1
        BY <2>1, <2>3, RenderFrames
      <4>2. QED BY <4>1, SMT
    <3>5. QED BY <3>1, <3>2, <3>3, <3>4, Zenon DEF TypeOK, Framed
  <2>4. CASE /\ RenderFails(far_end) /\ Failed
             /\ UNCHANGED <<pending_capture, carry_out, near_end, captured>>
    <3>1. ok' \in BOOLEAN /\ failures' \in Nat
      BY <2>4, Outcome
    <3>2. pending_capture' \in Seq(Nat) /\ carry_out' \in Seq(Nat)
          /\ near_end' \in Seq(Sample) /\ captured' \in Nat
      BY <2>4 DEF TypeOK
    <3>3. output' \in Seq(Sample)
      BY <1>2, <3>2, HandBackTyped DEF CaptureWithReference
    <3>4. pending_render' \in Nat
      BY <2>1, <2>4, RenderFrames
    <3>5. QED BY <3>1, <3>2, <3>3, <3>4, Zenon DEF TypeOK
  <2>5. QED BY <1>2, <2>3, <2>4 DEF CaptureWithReference
<1>3. ASSUME NEW n \in BlockSizes, Render(n) PROVE TypeOK'
  <2>1. n \in Nat
    BY ProcessorAssumption, SMT DEF ProcessorAssumption
  <2>2. ok' \in BOOLEAN /\ failures' \in Nat
    BY <1>3, Outcome DEF Render
  <2>3. pending_render' \in Nat
    <3>1. pending_render' \in 0 .. FrameSamples - 1 \/ pending_render' \in Nat
      BY <1>3, <2>1, RenderFrames DEF Render
    <3>2. QED BY <3>1, SMT
  <2>4. QED BY <1>3, <2>2, <2>3, Zenon DEF Render, TypeOK
<1>4. ASSUME Reset PROVE TypeOK'
  <2>1. /\ pending_capture' \in Seq(Nat) /\ carry_out' \in Seq(Nat)
        /\ near_end' \in Seq(Sample) /\ output' \in Seq(Sample)
        /\ pending_render' \in Nat /\ captured' \in Nat
    BY <1>4, SMT DEF Reset, ClearFraming
  <2>2. ok' \in BOOLEAN /\ failures' \in Nat
    BY <1>4, Zenon DEF Reset, TypeOK
  <2>3. QED BY <2>1, <2>2, Zenon DEF TypeOK
<1>5. CASE UNCHANGED vars
  BY <1>5, Zenon DEF vars, framing, TypeOK
<1>6. QED BY <1>1, <1>2, <1>3, <1>4, <1>5 DEF Next

LEMMA StepDelayed ==
    ASSUME TypeOK, TypeOK', DelayWithinFrame, [Next]_vars
    PROVE  DelayWithinFrame'
<1>1. Len(InFlight') = Len(carry_out') + Len(pending_capture')
  <2>1. carry_out' \in Seq(Nat) /\ pending_capture' \in Seq(Nat)
    BY DEF TypeOK
  <2>2. QED BY <2>1, Concatenation DEF InFlight
<1> DEFINE Short == Len(carry_out) + Len(pending_capture) < FrameSamples
           Waiting == pending_render < FrameSamples
<1>2. failures = 0 => Short /\ Waiting
  BY DelayLength DEF DelayWithinFrame
<1>3. (failures' = 0 => Short' /\ Waiting') => DelayWithinFrame'
  BY <1>1 DEF DelayWithinFrame
<1>4. ASSUME NEW n \in BlockSizes, Capture(n) PROVE failures' = 0 => Short' /\ Waiting'
  <2>1. n \in Nat /\ Captured(n) \in Seq(Nat)
    BY CapturedBlock, ProcessorAssumption, SMT DEF ProcessorAssumption
  <2>2. failures' = 0 => failures = 0
    BY <1>4, Outcome DEF Capture, Process, ProcessInPlace, ProcessBuffered
  <2>3. failures' = 0 /\ Short => Short'
    BY <1>4, <2>1, ProcessFrames, ProcessorAssumption DEF Capture
  <2>4. Waiting => Waiting'
    BY <1>4 DEF Capture
  <2>5. QED BY <1>2, <2>2, <2>3, <2>4
<1>5. ASSUME NEW n \in BlockSizes, NEW far_end \in BlockSizes,
             CaptureWithReference(n, far_end)
      PROVE  failures' = 0 => Short' /\ Waiting'
  <2>1. n \in Nat /\ far_end \in Nat /\ Captured(n) \in Seq(Nat)
    BY CapturedBlock, ProcessorAssumption, SMT DEF ProcessorAssumption
  <2>2. CASE RenderSucceeds(far_end) /\ Process(Captured(n))
    <3>1. failures' = 0 => failures = 0
      BY <2>2, Outcome DEF Process, ProcessInPlace, ProcessBuffered
    <3>2. failures' = 0 /\ Short => Short'
      BY <2>1, <2>2, ProcessFrames, ProcessorAssumption
    <3>3. Waiting'
      <4>1. pending_render' \in 0 .. FrameSamples - 1
        BY <2>1, <2>2, RenderFrames
      <4>2. QED BY <4>1, ProcessorAssumption, SMT DEF ProcessorAssumption
    <3>4. QED BY <1>2, <3>1, <3>2, <3>3
  <2>3. CASE Failed
    BY <2>3, Outcome
  <2>4. QED BY <1>5, <2>2, <2>3 DEF CaptureWithReference
<1>6. ASSUME NEW n \in BlockSizes, Render(n) PROVE failures' = 0 => Short' /\ Waiting'
  <2>1. n \in Nat
    BY ProcessorAssumption, SMT DEF ProcessorAssumption
  <2>2. CASE RenderSucceeds(n) /\ Done
    <3>1. failures' = failures
      BY <2>2, Outcome
    <3>2. Short => Short'
      BY <1>6 DEF Render
    <3>3. Waiting'
      <4>1. pending_render' \in 0 .. FrameSamples - 1
        BY <2>1, <2>2, RenderFrames
      <4>2. QED BY <4>1, ProcessorAssumption, SMT DEF ProcessorAssumption
    <3>4. QED BY <1>2, <3>1, <3>2, <3>3
  <2>3. CASE Failed
    BY <2>3, Outcome
  <2>4. QED BY <1>6, <2>2, <2>3 DEF Render
<1>7. ASSUME Reset PROVE failures' = 0 => Short' /\ Waiting'
  <2>1. carry_out' = <<>> /\ pending_capture' = <<>> /\ pending_render' = 0
    BY <1>7 DEF Reset, ClearFraming
  <2>2. QED BY <2>1, ProcessorAssumption, SMT DEF ProcessorAssumption
<1>8. CASE UNCHANGED vars
  <2>1. /\ failures' = failures /\ pending_render' = pending_render
        /\ carry_out' = carry_out /\ pending_capture' = pending_capture
    BY <1>8 DEF vars, framing
  <2>2. QED BY <1>2, <1>3, <2>1
<1>9. QED BY <1>3, <1>4, <1>5, <1>6, <1>7, <1>8 DEF Next

\* Every reachable state of the processor is well typed.
THEOREM TypeCorrect == Spec => []TypeOK
<1>1. Init => TypeOK
  BY InitTyped
<1>2. TypeOK /\ [Next]_vars => TypeOK'
  BY StepTyped
<1>3. QED BY <1>1, <1>2, PTL DEF Spec

\* As long as no call failed, the processor holds back less than one engine
\* frame of near-end and of far-end samples, for blocks of any sizes.
THEOREM DelayWithinFrameAlways == Spec => []DelayWithinFrame
<1>1. Init => DelayWithinFrame
  BY InitTyped
<1>2. TypeOK /\ TypeOK' /\ DelayWithinFrame /\ [Next]_vars => DelayWithinFrame'
  BY StepDelayed
<1>3. QED BY <1>1, <1>2, TypeCorrect, PTL DEF Spec

-----------------------------------------------------------------------------
(* Which samples come back, and in which order.                            *)

\* The elements of the parts and of the whole.
LEMMA FrontAndRestAt ==
    ASSUME NEW S, NEW seq \in Seq(S), NEW n \in 0 .. Len(seq)
    PROVE  /\ \A i \in 1 .. n : Front(seq, n)[i] = seq[i]
           /\ \A i \in 1 .. Len(seq) - n : Rest(seq, n)[i] = seq[n + i]
<1>1. Len(seq) \in Nat
  OBVIOUS
<1>2. ASSUME NEW i \in 1 .. n PROVE SubSeq(seq, 1, n)[i] = seq[i]
  BY <1>1, SMT
<1>3. ASSUME NEW i \in 1 .. Len(seq) - n PROVE SubSeq(seq, n + 1, Len(seq))[i] = seq[n + i]
  BY <1>1, SMT
<1>4. QED BY <1>2, <1>3 DEF Front, Rest

LEMMA ConcatenationAt ==
    ASSUME NEW S, NEW s \in Seq(S), NEW t \in Seq(S)
    PROVE  /\ \A i \in 1 .. Len(s) : (s \o t)[i] = s[i]
           /\ \A i \in 1 .. Len(t) : (s \o t)[Len(s) + i] = t[i]
           /\ \A i \in Len(s) + 1 .. Len(s) + Len(t) : (s \o t)[i] = t[i - Len(s)]
BY SMT

\* A block handed back: processed samples in front, raw ones behind.
LEMMA HandedBackAt ==
    ASSUME NEW p \in Seq(Nat), NEW r \in Seq(Nat), NEW block,
           block = Processed(p) \o Raw(r)
    PROVE  /\ block \in Seq(Sample) /\ Len(block) = Len(p) + Len(r)
           /\ \A i \in 1 .. Len(p) : block[i] = [number |-> p[i], processed |-> TRUE]
           /\ \A i \in Len(p) + 1 .. Len(p) + Len(r) : block[i].processed = FALSE
<1>1. PICK P : P = Processed(p)
  OBVIOUS
<1>2. PICK R : R = Raw(r)
  OBVIOUS
<1>3. DOMAIN p = 1 .. Len(p) /\ DOMAIN r = 1 .. Len(r) /\ Len(p) \in Nat /\ Len(r) \in Nat
  BY SMT
<1>4. P \in Seq(Sample) /\ Len(P) = Len(p) /\ R \in Seq(Sample) /\ Len(R) = Len(r)
  BY <1>1, <1>2, Marking
<1>5. \A i \in 1 .. Len(p) : P[i] = [number |-> p[i], processed |-> TRUE]
  BY <1>1, <1>3, Zenon DEF Processed
<1>6. \A i \in 1 .. Len(r) : R[i] = [number |-> r[i], processed |-> FALSE]
  BY <1>2, <1>3, Zenon DEF Raw
<1>7. block = P \o R
  BY <1>1, <1>2
<1>8. block \in Seq(Sample) /\ Len(block) = Len(p) + Len(r)
  <2>1. P \o R \in Seq(Sample) /\ Len(P \o R) = Len(P) + Len(R)
    BY ONLY <1>4, Concatenation
  <2>2. QED BY <1>4, <1>7, <2>1
<1>9. /\ \A i \in 1 .. Len(p) : block[i] = P[i]
      /\ \A i \in Len(p) + 1 .. Len(p) + Len(r) : block[i] = R[i - Len(p)]
  BY <1>4, <1>7, ConcatenationAt
<1>10. ASSUME NEW i \in Len(p) + 1 .. Len(p) + Len(r)
       PROVE  block[i].processed = FALSE
  <2>1. i - Len(p) \in 1 .. Len(r)
    BY <1>3, SMT
  <2>2. block[i] = [number |-> r[i - Len(p)], processed |-> FALSE]
    BY <1>6, <1>9, <2>1
  <2>3. QED BY <2>2
<1>11. \A i \in 1 .. Len(p) : block[i] = [number |-> p[i], processed |-> TRUE]
  BY <1>5, <1>9
<1>12. QED BY <1>8, <1>10, <1>11

Elements(seq)   == {seq[k] : k \in DOMAIN seq}
Increasing(seq) == \A k, l \in DOMAIN seq : k < l => seq[k] < seq[l]

LEMMA FrontThenRest ==
    ASSUME NEW seq \in Seq(Nat), NEW n \in 0 .. Len(seq)
    PROVE  seq = Front(seq, n) \o Rest(seq, n)
<1>1. Len(seq) \in Nat
  BY SMT
<1>2. 1 \in 1 .. Len(seq) + 1 /\ n \in (1 - 1) .. Len(seq) /\ Len(seq) \in n .. Len(seq)
  BY <1>1, SMT
<1>3. SubSeq(seq, 1, n) \o SubSeq(seq, n + 1, Len(seq)) = SubSeq(seq, 1, Len(seq))
  BY <1>2, ConcatAdjacentSubSeq
<1>4. SubSeq(seq, 1, Len(seq)) = seq
  BY SubSeqFull
<1>5. QED BY <1>3, <1>4 DEF Front, Rest

LEMMA Associative ==
    \A s, t, u \in Seq(Nat) : (s \o t) \o u = s \o (t \o u)
BY ConcatAssociative

LEMMA ElementsOfBoth ==
    ASSUME NEW s \in Seq(Nat), NEW t \in Seq(Nat)
    PROVE  Elements(s \o t) = Elements(s) \cup Elements(t)
<1> DEFINE w == s \o t
<1>1. /\ DOMAIN s = 1 .. Len(s) /\ DOMAIN t = 1 .. Len(t) /\ Len(s) \in Nat /\ Len(t) \in Nat
      /\ DOMAIN w = 1 .. Len(s) + Len(t)
  BY SMT
<1>2. /\ \A i \in 1 .. Len(s) : w[i] = s[i]
      /\ \A i \in 1 .. Len(t) : w[Len(s) + i] = t[i]
      /\ \A i \in Len(s) + 1 .. Len(s) + Len(t) : w[i] = t[i - Len(s)]
  BY ConcatenationAt
<1> HIDE DEF w
<1>3. ASSUME NEW k \in DOMAIN w PROVE w[k] \in Elements(s) \cup Elements(t)
  <2>1. CASE k \in 1 .. Len(s)
    BY <1>1, <1>2, <2>1 DEF Elements
  <2>2. CASE k \in Len(s) + 1 .. Len(s) + Len(t)
    <3>1. k - Len(s) \in DOMAIN t
      BY <1>1, <2>2, SMT
    <3>2. QED BY <1>2, <2>2, <3>1 DEF Elements
  <2>3. QED BY <1>1, <2>1, <2>2, SMT
<1>4. ASSUME NEW k \in DOMAIN s PROVE s[k] \in Elements(w)
  <2>1. k \in DOMAIN w
    BY <1>1, SMT
  <2>2. QED BY <1>1, <1>2, <2>1 DEF Elements
<1>5. ASSUME NEW k \in DOMAIN t PROVE t[k] \in Elements(w)
  <2>1. Len(s) + k \in DOMAIN w
    BY <1>1, SMT
  <2>2. QED BY <1>1, <1>2, <2>1 DEF Elements
<1>6. QED BY <1>3, <1>4, <1>5 DEF Elements, w

\* A sequence is increasing when its parts are and the first stays below the
\* second.
LEMMA IncreasingBoth ==
    ASSUME NEW s \in Seq(Nat), NEW t \in Seq(Nat)
    PROVE  Increasing(s \o t) <=> /\ Increasing(s) /\ Increasing(t)
                                  /\ \A x \in Elements(s), y \in Elements(t) : x < y
<1> DEFINE w == s \o t
<1>1. /\ DOMAIN s = 1 .. Len(s) /\ DOMAIN t = 1 .. Len(t) /\ Len(s) \in Nat /\ Len(t) \in Nat
      /\ DOMAIN w = 1 .. Len(s) + Len(t)
  BY SMT
<1>2. /\ \A i \in 1 .. Len(s) : w[i] = s[i]
      /\ \A i \in 1 .. Len(t) : w[Len(s) + i] = t[i]
      /\ \A i \in Len(s) + 1 .. Len(s) + Len(t) : w[i] = t[i - Len(s)]
  BY ConcatenationAt
<1> HIDE DEF w
<1>3. ASSUME Increasing(w)
      PROVE  /\ Increasing(s) /\ Increasing(t)
             /\ \A x \in Elements(s), y \in Elements(t) : x < y
  <2>1. Increasing(s)
    BY <1>1, <1>2, <1>3, SMT DEF Increasing
  <2>2. ASSUME NEW k \in DOMAIN t, NEW l \in DOMAIN t, k < l PROVE t[k] < t[l]
    <3>1. /\ Len(s) + k \in DOMAIN w /\ Len(s) + l \in DOMAIN w
          /\ Len(s) + k < Len(s) + l
      BY <1>1, <2>2, SMT
    <3>2. w[Len(s) + k] < w[Len(s) + l]
      BY <1>3, <3>1 DEF Increasing
    <3>3. QED BY <1>1, <1>2, <3>2
  <2>3. ASSUME NEW k \in DOMAIN s, NEW l \in DOMAIN t PROVE s[k] < t[l]
    <3>1. /\ k \in DOMAIN w /\ Len(s) + l \in DOMAIN w
          /\ k < Len(s) + l
      BY <1>1, SMT
    <3>2. w[k] < w[Len(s) + l]
      BY <1>3, <3>1 DEF Increasing
    <3>3. QED BY <1>1, <1>2, <3>2
  <2>4. QED BY <2>1, <2>2, <2>3 DEF Increasing, Elements
<1>4. ASSUME Increasing(s), Increasing(t),
             \A x \in Elements(s), y \in Elements(t) : x < y,
             NEW k \in DOMAIN w, NEW l \in DOMAIN w, k < l
      PROVE  w[k] < w[l]
  <2>1. CASE l \in 1 .. Len(s)
    <3>1. k \in 1 .. Len(s)
      BY <1>1, <1>4, <2>1, SMT
    <3>2. QED BY <1>1, <1>2, <1>4, <2>1, <3>1 DEF Increasing
  <2>2. CASE k \in 1 .. Len(s) /\ l \in Len(s) + 1 .. Len(s) + Len(t)
    <3>1. l - Len(s) \in DOMAIN t
      BY <1>1, <2>2, SMT
    <3>2. s[k] \in Elements(s) /\ t[l - Len(s)] \in Elements(t)
      BY <1>1, <2>2, <3>1 DEF Elements
    <3>3. QED BY <1>2, <1>4, <2>2, <3>2
  <2>3. CASE k \in Len(s) + 1 .. Len(s) + Len(t)
    <3>1. l \in Len(s) + 1 .. Len(s) + Len(t)
      BY <1>1, <1>4, <2>3, SMT
    <3>2. k - Len(s) \in DOMAIN t /\ l - Len(s) \in DOMAIN t /\ k - Len(s) < l - Len(s)
      BY <1>1, <1>4, <2>3, <3>1, SMT
    <3>3. t[k - Len(s)] < t[l - Len(s)]
      BY <1>4, <3>2 DEF Increasing
    <3>4. QED BY <1>2, <2>3, <3>1, <3>3
  <2>4. QED BY <1>1, <2>1, <2>2, <2>3, SMT
<1>5. QED BY <1>3, <1>4 DEF Increasing, w

\* The two ways process() ends, told by what moves: it hands back the oldest
\* samples, or it loses some and hands back nothing.
HandsBack(block) ==
    \E p, r \in Seq(Nat) :
        /\ InFlight \o block = p \o InFlight'
        /\ near_end' = Processed(p) \o Raw(r)
        /\ ok' = TRUE /\ failures' = failures

Loses(block) ==
    \E first, lost, last \in Seq(Nat) :
        /\ InFlight \o block = first \o (lost \o last)
        /\ InFlight' = first \o last
        /\ ok' = FALSE /\ failures' # 0

LEMMA ProcessInPlaceMoves ==
    ASSUME TypeOK, NEW block \in Seq(Nat), ProcessInPlace(block), ProcessorAssumption
    PROVE  HandsBack(block) \/ Loses(block)
<1>1. PICK done \in 0 .. Len(block) \div FrameSamples :
         LET n == done * FrameSamples
         IN  /\ IF n = Len(block) THEN Done ELSE Failed
             /\ near_end' = Processed(Front(block, n)) \o Raw(Rest(block, n))
  BY DEF ProcessInPlace
<1> DEFINE n == done * FrameSamples
<1>2. Len(block) \in Nat /\ FrameSamples \in Nat \ {0}
  BY SMT DEF ProcessorAssumption
<1>3. n \in 0 .. Len(block)
  BY <1>1, <1>2, WholeFramesAndRest
<1>4. InFlight = <<>> /\ InFlight' = <<>>
  BY SMT DEF ProcessInPlace, InFlight
<1>5. <<>> \o block = block /\ block \o <<>> = block /\ <<>> \in Seq(Nat)
  BY ConcatEmptySeq, SMT
<1>6. CASE n = Len(block) /\ Done
  <2>1. Front(block, n) \in Seq(Nat) /\ Rest(block, n) \in Seq(Nat)
    BY <1>3, FrontAndRest
  <2>2. Front(block, n) = block
    BY <1>6, SubSeqFull DEF Front
  <2>3. ok' = TRUE /\ failures' = failures
    BY <1>6 DEF Done
  <2>4. near_end' = Processed(Front(block, n)) \o Raw(Rest(block, n))
    BY <1>1
  <2>5. InFlight \o block = Front(block, n) \o InFlight'
    BY <1>4, <1>5, <2>2
  <2>6. QED BY <2>1, <2>3, <2>4, <2>5, Zenon DEF HandsBack
<1>7. CASE Failed
  <2>1. ok' = FALSE /\ failures' # 0
    BY <1>7, Outcome DEF Failed
  <2>2. <<>> \o <<>> = <<>>
    BY SMT
  <2>3. InFlight \o block = <<>> \o (block \o <<>>)
    BY <1>4, <1>5
  <2>4. InFlight' = <<>> \o <<>>
    BY <1>4, <2>2
  <2>5. QED BY <1>5, <2>1, <2>3, <2>4, Zenon DEF Loses
<1>8. QED BY <1>1, <1>6, <1>7

LEMMA ProcessBufferedMoves ==
    ASSUME TypeOK, NEW block \in Seq(Nat), ProcessBuffered(block), ProcessorAssumption
    PROVE  HandsBack(block) \/ Loses(block)
<1> DEFINE queued == pending_capture \o block
           frames == Len(queued) \div FrameSamples
           Whole(done) == done * FrameSamples
<1>1. /\ pending_capture \in Seq(Nat) /\ carry_out \in Seq(Nat) /\ queued \in Seq(Nat)
      /\ Len(queued) \in Nat /\ FrameSamples \in Nat \ {0}
  BY Concatenation, SMT DEF TypeOK, ProcessorAssumption
<1>2. /\ frames \in Nat
      /\ Whole(frames) \in 0 .. Len(queued)
      /\ \A done \in 0 .. frames : Whole(done) \in 0 .. Len(queued)
  BY <1>1, WholeFramesAndRest
<1>3. InFlight \o block = carry_out \o queued
  BY <1>1, ConcatAssociative DEF InFlight
<1>4. CASE /\ Done
           /\ Deliver(carry_out \o Front(queued, Whole(frames)), block)
           /\ pending_capture' = Rest(queued, Whole(frames))
  <2> DEFINE f == Front(queued, Whole(frames))
             produced == carry_out \o f
             n == IF Len(produced) <= Len(block) THEN Len(produced) ELSE Len(block)
  <2>1. f \in Seq(Nat) /\ pending_capture' \in Seq(Nat)
        /\ queued = f \o pending_capture'
    BY <1>1, <1>2, <1>4, FrontAndRest, FrontThenRest
  <2>2. produced \in Seq(Nat)
    BY <1>1, <2>1, Concatenation
  <2>3. n \in 0 .. Len(produced) /\ n \in 0 .. Len(block)
    <3> HIDE DEF produced
    <3> QED BY <2>2, SMT
  <2>4. /\ near_end' = Processed(Front(produced, n)) \o Raw(Rest(block, n))
        /\ carry_out' = Rest(produced, n)
    BY <1>4 DEF Deliver
  <2> HIDE DEF f, produced, n
  <2>5. /\ Front(produced, n) \in Seq(Nat) /\ Rest(block, n) \in Seq(Nat)
        /\ carry_out' \in Seq(Nat)
        /\ produced = Front(produced, n) \o carry_out'
    BY <2>2, <2>3, <2>4, FrontAndRest, FrontThenRest
  <2>6. carry_out \o queued = produced \o pending_capture'
    <3>1. (carry_out \o f) \o pending_capture' = carry_out \o (f \o pending_capture')
      BY <1>1, <2>1, Associative, Zenon
    <3>2. QED BY <2>1, <3>1 DEF produced
  <2>7. produced \o pending_capture' = Front(produced, n) \o (carry_out' \o pending_capture')
    <3>1. PICK p \in Seq(Nat) : p = Front(produced, n)
      BY <2>5
    <3>2. (p \o carry_out') \o pending_capture' = p \o (carry_out' \o pending_capture')
      BY <2>1, <2>5, Associative, Zenon
    <3>3. QED BY <2>5, <3>1, <3>2
  <2>8. InFlight \o block = Front(produced, n) \o InFlight'
    BY <1>3, <2>6, <2>7 DEF InFlight
  <2>9. ok' = TRUE /\ failures' = failures
    BY <1>4 DEF Done
  <2>10. HandsBack(block)
    BY <2>4, <2>5, <2>8, <2>9, Zenon DEF HandsBack
  <2>11. QED BY <2>10
<1>5. CASE /\ Failed
           /\ \E done \in 1 .. frames : pending_capture' = Rest(queued, Whole(done))
           /\ near_end' = Raw(block)
           /\ UNCHANGED carry_out
  <2>1. PICK done \in 1 .. frames : pending_capture' = Rest(queued, Whole(done))
    BY <1>5
  <2>2. Whole(done) \in 0 .. Len(queued)
    <3>1. done \in 0 .. frames
      BY <1>2, <2>1, SMT
    <3>2. QED BY <1>2, <3>1
  <2> DEFINE f == Front(queued, Whole(done))
  <2>3. f \in Seq(Nat) /\ pending_capture' \in Seq(Nat)
        /\ queued = f \o pending_capture'
    BY <1>1, <2>1, <2>2, FrontAndRest, FrontThenRest
  <2> HIDE DEF f
  <2>4. InFlight \o block = carry_out \o (f \o pending_capture')
    BY <1>3, <2>3
  <2>5. InFlight' = carry_out \o pending_capture'
    BY <1>5 DEF InFlight
  <2>6. ok' = FALSE /\ failures' # 0
    BY <1>5, Outcome DEF Failed
  <2>7. Loses(block)
    BY <1>1, <2>3, <2>4, <2>5, <2>6, Zenon DEF Loses
  <2>8. QED BY <2>7
<1>6. QED BY <1>4, <1>5 DEF ProcessBuffered

LEMMA ProcessMoves ==
    ASSUME TypeOK, NEW block \in Seq(Nat), Process(block)
    PROVE  HandsBack(block) \/ Loses(block)
BY ProcessInPlaceMoves, ProcessBufferedMoves, ProcessorAssumption DEF Process

-----------------------------------------------------------------------------
(* The stream: what came back stays below what is held, both are in order,  *)
(* and together they are all that was captured.                             *)

Numbers == {output[i].number : i \in Delivered}

StreamInv ==
    /\ \A i, j \in Delivered : i < j => output[i].number < output[j].number
    /\ Increasing(InFlight)
    /\ \A x \in Numbers, y \in Elements(InFlight) : x < y
    /\ \A x \in Numbers \cup Elements(InFlight) : x <= captured
    /\ failures = 0 => Numbers \cup Elements(InFlight) = 1 .. captured

\* The block of the microphone continues the numbers in order.
LEMMA CapturedInOrder ==
    ASSUME TypeOK, NEW n \in Nat
    PROVE  /\ Captured(n) \in Seq(Nat) /\ Increasing(Captured(n))
           /\ Elements(Captured(n)) = captured + 1 .. captured + n
<1>1. captured \in Nat
  BY DEF TypeOK
<1>2. /\ DOMAIN Captured(n) = 1 .. n
      /\ \A i \in 1 .. n : Captured(n)[i] = captured + i
  BY Zenon DEF Captured
<1>3. Increasing(Captured(n))
  BY <1>1, <1>2, SMT DEF Increasing
<1>4. ASSUME NEW x \in captured + 1 .. captured + n PROVE x \in Elements(Captured(n))
  <2>1. x - captured \in 1 .. n /\ captured + (x - captured) = x
    BY <1>1, <1>4, SMT
  <2>2. QED BY <1>2, <2>1 DEF Elements
<1>5. ASSUME NEW i \in 1 .. n PROVE Captured(n)[i] \in captured + 1 .. captured + n
  BY <1>1, <1>2, SMT
<1>6. QED BY <1>2, <1>3, <1>4, <1>5, CapturedBlock DEF Elements

\* A block handed back adds its processed samples to the output.
LEMMA OutputGrows ==
    ASSUME TypeOK, TypeOK', NEW p \in Seq(Nat), NEW r \in Seq(Nat),
           near_end' = Processed(p) \o Raw(r), output' = output \o near_end'
    PROVE  /\ Len(output) \in Nat /\ Len(p) \in Nat
           /\ Delivered' = Delivered \cup {Len(output) + i : i \in 1 .. Len(p)}
           /\ \A i \in Delivered : i \in 1 .. Len(output) /\ output'[i] = output[i]
           /\ \A i \in 1 .. Len(p) : output'[Len(output) + i].number = p[i]
<1>1. /\ output \in Seq(Sample) /\ near_end' \in Seq(Sample)
      /\ Len(near_end') = Len(p) + Len(r)
      /\ \A i \in 1 .. Len(p) : near_end'[i] = [number |-> p[i], processed |-> TRUE]
      /\ \A i \in Len(p) + 1 .. Len(p) + Len(r) : near_end'[i].processed = FALSE
  <2>1. PICK block : block = near_end'
    OBVIOUS
  <2>2. block = Processed(p) \o Raw(r)
    BY <2>1
  <2>3. /\ Len(block) = Len(p) + Len(r)
        /\ \A i \in 1 .. Len(p) : block[i] = [number |-> p[i], processed |-> TRUE]
        /\ \A i \in Len(p) + 1 .. Len(p) + Len(r) : block[i].processed = FALSE
    BY <2>2, HandedBackAt
  <2>4. QED BY <2>1, <2>3 DEF TypeOK
<1>2. /\ \A i \in 1 .. Len(output) : output'[i] = output[i]
      /\ \A i \in 1 .. Len(near_end') : output'[Len(output) + i] = near_end'[i]
      /\ \A i \in Len(output) + 1 .. Len(output) + Len(near_end') :
            output'[i] = near_end'[i - Len(output)]
  <2>1. output \in Seq(Sample) /\ near_end' \in Seq(Sample)
    BY <1>1
  <2>2. QED BY ONLY <2>1, output' = output \o near_end', ConcatenationAt
<1>3. /\ Len(output) \in Nat /\ Len(p) \in Nat /\ Len(r) \in Nat
      /\ DOMAIN output = 1 .. Len(output)
  BY <1>1, SMT
<1>4. DOMAIN output' = 1 .. Len(output) + Len(p) + Len(r)
  <2>1. output' \in Seq(Sample) /\ Len(output') = Len(output) + Len(near_end')
    BY <1>1, Concatenation
  <2>2. QED BY <1>1, <1>3, <2>1, SMT
<1>5. \A i \in 1 .. Len(p) : /\ output'[Len(output) + i].number = p[i]
                             /\ output'[Len(output) + i].processed
  <2>1. \A i \in 1 .. Len(p) : i \in 1 .. Len(near_end')
    BY <1>1, <1>3, SMT
  <2>2. \A i \in 1 .. Len(p) :
           output'[Len(output) + i] = [number |-> p[i], processed |-> TRUE]
    BY <1>1, <1>2, <2>1
  <2>3. \A i \in 1 .. Len(p) : /\ output'[Len(output) + i].number = p[i]
                               /\ output'[Len(output) + i].processed = TRUE
    <3>1. ASSUME NEW i \in 1 .. Len(p)
          PROVE  /\ output'[Len(output) + i].number = p[i]
                 /\ output'[Len(output) + i].processed = TRUE
      <4>1. output'[Len(output) + i] = [number |-> p[i], processed |-> TRUE]
        BY <2>2
      <4>2. PICK sample : sample = output'[Len(output) + i]
        OBVIOUS
      <4>3. sample.number = p[i] /\ sample.processed = TRUE
        BY <4>1, <4>2
      <4>4. QED BY <4>2, <4>3
    <3>2. QED BY <3>1
  <2>4. QED BY <2>3, Zenon
<1>6. ASSUME NEW i \in Delivered' PROVE i \in Delivered \cup {Len(output) + k : k \in 1 .. Len(p)}
  <2>1. i \in 1 .. Len(output) + Len(p) + Len(r) /\ output'[i].processed
    BY <1>4 DEF Delivered
  <2>2. CASE i \in 1 .. Len(output)
    BY <1>2, <1>3, <2>1, <2>2 DEF Delivered
  <2>3. CASE i \in Len(output) + 1 .. Len(output) + Len(p)
    <3>1. i - Len(output) \in 1 .. Len(p) /\ i = Len(output) + (i - Len(output))
      BY <1>3, <2>3, SMT
    <3>2. QED BY <3>1
  <2>4. CASE i \in Len(output) + Len(p) + 1 .. Len(output) + Len(p) + Len(r)
    <3>1. /\ i \in Len(output) + 1 .. Len(output) + Len(near_end')
          /\ i - Len(output) \in Len(p) + 1 .. Len(p) + Len(r)
      BY <1>1, <1>3, <2>4, SMT
    <3>2. output'[i].processed = FALSE
      BY <1>1, <1>2, <3>1
    <3>3. QED BY <2>1, <3>2
  <2>5. QED BY <1>3, <2>1, <2>2, <2>3, <2>4, SMT
<1>7. ASSUME NEW i \in Delivered PROVE i \in Delivered' /\ i \in 1 .. Len(output)
  <2>1. i \in 1 .. Len(output) /\ output[i].processed
    BY <1>3 DEF Delivered
  <2>2. i \in 1 .. Len(output) + Len(p) + Len(r)
    BY <1>3, <2>1, SMT
  <2>3. QED BY <1>2, <1>4, <2>1, <2>2 DEF Delivered
<1>8. ASSUME NEW i \in 1 .. Len(p) PROVE Len(output) + i \in Delivered'
  <2>1. Len(output) + i \in 1 .. Len(output) + Len(p) + Len(r)
    BY <1>3, SMT
  <2>2. QED BY <1>4, <1>5, <2>1 DEF Delivered
<1>9. QED BY <1>2, <1>3, <1>5, <1>6, <1>7, <1>8

\* What is held and what comes in, taken as one sequence, is in order and
\* above everything that came back.
LEMMA AllInOrder ==
    ASSUME TypeOK, StreamInv, NEW n \in Nat
    PROVE  LET all == InFlight \o Captured(n)
           IN  /\ InFlight \in Seq(Nat) /\ all \in Seq(Nat) /\ Increasing(all)
               /\ Elements(all) = Elements(InFlight) \cup captured + 1 .. captured + n
               /\ \A x \in Numbers, y \in Elements(all) : x < y
               /\ \A x \in Numbers \cup Elements(all) : x <= captured + n
<1> DEFINE block == Captured(n)
           all   == InFlight \o block
<1>1. captured \in Nat /\ carry_out \in Seq(Nat) /\ pending_capture \in Seq(Nat)
  BY DEF TypeOK
<1>2. InFlight \in Seq(Nat)
  BY <1>1, Concatenation DEF InFlight
<1>3. /\ block \in Seq(Nat) /\ Increasing(block)
      /\ Elements(block) = captured + 1 .. captured + n
  BY CapturedInOrder
<1> HIDE DEF block
<1>4. /\ Increasing(InFlight)
      /\ \A x \in Numbers, y \in Elements(InFlight) : x < y
      /\ \A x \in Numbers \cup Elements(InFlight) : x <= captured
  BY DEF StreamInv
<1>5. Elements(InFlight) \subseteq Nat /\ Numbers \subseteq Nat
  <2>1. \A k \in DOMAIN InFlight : InFlight[k] \in Nat
    BY <1>2, SMT
  <2>2. output \in Seq(Sample)
    BY DEF TypeOK
  <2>3. \A i \in DOMAIN output : output[i] \in Sample
    BY <2>2, SMT
  <2>4. \A i \in Delivered : output[i].number \in Nat
    BY <2>3 DEF Delivered, Sample
  <2>5. QED BY <2>1, <2>4, Zenon DEF Elements, Numbers
<1>6. \A x \in Elements(InFlight), y \in Elements(block) : x < y
  BY <1>1, <1>3, <1>4, <1>5, SMT
<1>7. all \in Seq(Nat) /\ Increasing(all)
      /\ Elements(all) = Elements(InFlight) \cup Elements(block)
  BY <1>2, <1>3, <1>4, <1>6, Concatenation, IncreasingBoth, ElementsOfBoth
<1> HIDE DEF all
<1>8. \A x \in Numbers, y \in Elements(all) : x < y
  BY <1>1, <1>3, <1>4, <1>5, <1>7, SMT
<1>9. \A x \in Numbers \cup Elements(all) : x <= captured + n
  BY <1>1, <1>3, <1>4, <1>5, <1>7, SMT
<1>10. QED BY <1>2, <1>3, <1>7, <1>8, <1>9 DEF all, block

LEMMA HandsBackStream ==
    ASSUME TypeOK, TypeOK', StreamInv, NEW n \in Nat, captured' = captured + n,
           HandsBack(Captured(n)), HandBack
    PROVE  StreamInv'
<1> DEFINE all == InFlight \o Captured(n)
<1>1. PICK p \in Seq(Nat), r \in Seq(Nat) :
          /\ all = p \o InFlight'
          /\ near_end' = Processed(p) \o Raw(r)
          /\ ok' = TRUE /\ failures' = failures
  BY Zenon DEF HandsBack
<1>2. /\ all \in Seq(Nat) /\ Increasing(all)
      /\ Elements(all) = Elements(InFlight) \cup captured + 1 .. captured + n
      /\ \A x \in Numbers, y \in Elements(all) : x < y
      /\ \A x \in Numbers \cup Elements(all) : x <= captured'
  BY AllInOrder
<1> HIDE DEF all
<1>3. InFlight' \in Seq(Nat)
  <2>1. carry_out' \in Seq(Nat) /\ pending_capture' \in Seq(Nat)
    BY DEF TypeOK
  <2>2. QED BY <2>1, Concatenation DEF InFlight
<1>4. /\ Increasing(p) /\ Increasing(InFlight')
      /\ \A x \in Elements(p), y \in Elements(InFlight') : x < y
      /\ Elements(all) = Elements(p) \cup Elements(InFlight')
  BY <1>1, <1>2, <1>3, IncreasingBoth, ElementsOfBoth
<1>5. output' = output \o near_end'
  BY <1>1 DEF HandBack
<1>6. /\ Len(output) \in Nat /\ Len(p) \in Nat
      /\ Delivered' = Delivered \cup {Len(output) + i : i \in 1 .. Len(p)}
      /\ \A i \in Delivered : i \in 1 .. Len(output) /\ output'[i] = output[i]
      /\ \A i \in 1 .. Len(p) : output'[Len(output) + i].number = p[i]
  BY <1>1, <1>5, OutputGrows
<1>7. DOMAIN p = 1 .. Len(p)
  BY SMT
<1>8. Numbers' = Numbers \cup Elements(p)
  <2>1. Numbers' = {output'[i].number : i \in Delivered'}
    BY DEF Numbers
  <2>2. ASSUME NEW i \in Delivered' PROVE output'[i].number \in Numbers \cup Elements(p)
    <3>1. CASE i \in Delivered
      BY <1>6, <3>1 DEF Numbers
    <3>2. CASE i \in {Len(output) + k : k \in 1 .. Len(p)}
      BY <1>6, <1>7, <3>2 DEF Elements
    <3>3. QED BY <1>6, <3>1, <3>2
  <2>3. ASSUME NEW i \in Delivered PROVE output[i].number \in Numbers'
    <3>1. i \in Delivered' /\ output'[i].number = output[i].number
      BY <1>6
    <3>2. QED BY <2>1, <3>1
  <2>4. ASSUME NEW k \in DOMAIN p PROVE p[k] \in Numbers'
    <3>1. Len(output) + k \in Delivered' /\ output'[Len(output) + k].number = p[k]
      BY <1>6, <1>7
    <3>2. QED BY <2>1, <3>1
  <2>5. QED BY <2>1, <2>2, <2>3, <2>4, Zenon DEF Numbers, Elements
<1>9. ASSUME NEW i \in Delivered', NEW j \in Delivered', i < j
      PROVE  output'[i].number < output'[j].number
  <2>1. CASE i \in Delivered /\ j \in Delivered
    BY <1>6, <1>9, <2>1 DEF StreamInv
  <2>2. CASE i \in Delivered /\ j \in {Len(output) + k : k \in 1 .. Len(p)}
    <3>1. output'[i].number \in Numbers
      BY <1>6, <2>2 DEF Numbers
    <3>2. output'[j].number \in Elements(p)
      BY <1>6, <1>7, <2>2 DEF Elements
    <3>3. QED BY <1>2, <1>4, <3>1, <3>2
  <2>3. CASE i \in {Len(output) + k : k \in 1 .. Len(p)}
    <3>1. PICK a \in 1 .. Len(p) : i = Len(output) + a
      BY <2>3
    <3>2. j \in {Len(output) + k : k \in 1 .. Len(p)}
      <4>1. j \in Delivered => j <= Len(output) /\ j \in Nat
        BY <1>6, SMT
      <4>2. ~ (j \in Delivered)
        BY <1>6, <1>9, <3>1, <4>1, SMT
      <4>3. QED BY <1>6, <1>9, <4>2
    <3>3. PICK b \in 1 .. Len(p) : j = Len(output) + b
      BY <3>2
    <3>4. a < b
      BY <1>6, <1>9, <3>1, <3>3, SMT
    <3>5. p[a] < p[b]
      BY <1>4, <1>7, <3>4 DEF Increasing
    <3>6. QED BY <1>6, <3>1, <3>3, <3>5
  <2>4. QED BY <1>6, <2>1, <2>2, <2>3
<1>10. \A x \in Numbers', y \in Elements(InFlight') : x < y
  BY <1>2, <1>4, <1>8
<1>11. \A x \in Numbers' \cup Elements(InFlight') : x <= captured'
  BY <1>2, <1>4, <1>8
<1>12. failures' = 0 => Numbers' \cup Elements(InFlight') = 1 .. captured'
  <2>1. Numbers' \cup Elements(InFlight')
          = Numbers \cup Elements(InFlight) \cup captured + 1 .. captured + n
    BY <1>2, <1>4, <1>8
  <2>2. captured \in Nat /\ 1 .. captured \cup captured + 1 .. captured + n = 1 .. captured + n
    BY SMT DEF TypeOK
  <2>3. failures' = 0 => Numbers \cup Elements(InFlight) = 1 .. captured
    BY <1>1 DEF StreamInv
  <2>4. QED BY <2>1, <2>2, <2>3
<1>13. Increasing(InFlight)' /\ Elements(InFlight)' = Elements(InFlight')
  BY <1>4 DEF Increasing, Elements
<1>14. QED BY <1>9, <1>10, <1>11, <1>12, <1>13, Zenon DEF StreamInv

LEMMA LosesStream ==
    ASSUME TypeOK, TypeOK', StreamInv, NEW n \in Nat, captured' = captured + n,
           Loses(Captured(n)), HandBack
    PROVE  StreamInv'
<1> DEFINE all == InFlight \o Captured(n)
<1>1. PICK first \in Seq(Nat), lost \in Seq(Nat), last \in Seq(Nat) :
          /\ all = first \o (lost \o last)
          /\ InFlight' = first \o last
          /\ ok' = FALSE /\ failures' # 0
  BY Zenon DEF Loses
<1>2. /\ all \in Seq(Nat) /\ Increasing(all)
      /\ \A x \in Numbers, y \in Elements(all) : x < y
      /\ \A x \in Numbers \cup Elements(all) : x <= captured'
  BY AllInOrder
<1> HIDE DEF all
<1>3. lost \o last \in Seq(Nat)
  BY Concatenation
<1>4. /\ Increasing(first) /\ Increasing(lost \o last)
      /\ \A x \in Elements(first), y \in Elements(lost \o last) : x < y
      /\ Elements(all) = Elements(first) \cup Elements(lost \o last)
  BY <1>1, <1>2, <1>3, IncreasingBoth, ElementsOfBoth
<1>5. Increasing(last) /\ Elements(lost \o last) = Elements(lost) \cup Elements(last)
  BY <1>4, IncreasingBoth, ElementsOfBoth
<1>6. Increasing(InFlight') /\ Elements(InFlight') \subseteq Elements(all)
  <2>1. /\ Increasing(first \o last)
        /\ Elements(first \o last) = Elements(first) \cup Elements(last)
    BY <1>4, <1>5, IncreasingBoth, ElementsOfBoth
  <2>2. QED BY <1>1, <1>4, <1>5, <2>1
<1>7. output' = output
  BY <1>1 DEF HandBack
<1>8. Delivered' = Delivered /\ Numbers' = Numbers
  BY <1>7 DEF Delivered, Numbers
<1>9. Increasing(InFlight)' /\ Elements(InFlight)' = Elements(InFlight')
  BY <1>6 DEF Increasing, Elements
<1>10. \A i, j \in Delivered' : i < j => output'[i].number < output'[j].number
  BY <1>7, <1>8 DEF StreamInv
<1>11. QED BY <1>1, <1>2, <1>6, <1>8, <1>9, <1>10, Zenon DEF StreamInv

LEMMA InitStream ==
    ASSUME Init
    PROVE  StreamInv
<1>1. InFlight = <<>> /\ DOMAIN output = {} /\ DOMAIN InFlight = {}
  BY SMT DEF Init, InFlight
<1>2. Delivered = {} /\ Numbers = {} /\ Elements(InFlight) = {}
  BY <1>1 DEF Delivered, Numbers, Elements
<1>3. captured = 0
  BY DEF Init
<1>4. 1 .. captured = {}
  BY <1>3, SMT
<1>5. QED BY <1>1, <1>2, <1>4 DEF StreamInv, Increasing

\* A step that moves no near-end sample.
LEMMA StreamUnchanged ==
    ASSUME StreamInv, UNCHANGED <<pending_capture, carry_out, captured, output>>,
           failures' = failures \/ failures' # 0
    PROVE  StreamInv'
<1>1. /\ Delivered' = Delivered /\ Numbers' = Numbers /\ InFlight' = InFlight
      /\ Elements(InFlight)' = Elements(InFlight)
      /\ (Increasing(InFlight) => Increasing(InFlight)')
      /\ captured' = captured /\ output' = output
  BY DEF Delivered, Numbers, InFlight, Elements, Increasing
<1>2. QED BY <1>1, Zenon DEF StreamInv

LEMMA StepStream ==
    ASSUME TypeOK, TypeOK', StreamInv, [Next]_vars
    PROVE  StreamInv'
<1>1. ASSUME NEW n \in BlockSizes, captured' = captured + n, Process(Captured(n)), HandBack
      PROVE  StreamInv'
  <2>1. n \in Nat /\ Captured(n) \in Seq(Nat)
    BY CapturedBlock, ProcessorAssumption, SMT DEF ProcessorAssumption
  <2>2. HandsBack(Captured(n)) \/ Loses(Captured(n))
    BY <1>1, <2>1, ProcessMoves
  <2>3. QED BY <1>1, <2>1, <2>2, HandsBackStream, LosesStream
<1>2. ASSUME NEW n \in BlockSizes, Capture(n) PROVE StreamInv'
  BY <1>1, <1>2 DEF Capture
<1>3. ASSUME NEW n \in BlockSizes, NEW far_end \in BlockSizes,
             CaptureWithReference(n, far_end)
      PROVE  StreamInv'
  <2>1. CASE captured' = captured + n /\ Process(Captured(n))
    BY <1>1, <1>3, <2>1 DEF CaptureWithReference
  <2>2. CASE Failed /\ UNCHANGED <<pending_capture, carry_out, near_end, captured>>
    <3>1. ok' = FALSE /\ failures' # 0
      BY <2>2, Outcome DEF Failed
    <3>2. output' = output
      BY <1>3, <3>1 DEF CaptureWithReference, HandBack
    <3>3. QED BY <2>2, <3>1, <3>2, StreamUnchanged
  <2>3. QED BY <1>3, <2>1, <2>2 DEF CaptureWithReference
<1>4. ASSUME NEW n \in BlockSizes, Render(n) PROVE StreamInv'
  <2>1. failures' = failures \/ failures' # 0
    BY <1>4, Outcome DEF Render
  <2>2. QED BY <1>4, <2>1, StreamUnchanged DEF Render
<1>5. ASSUME Reset PROVE StreamInv'
  <2>1. /\ carry_out' = <<>> /\ pending_capture' = <<>>
        /\ output' = <<>> /\ captured' = 0
    BY <1>5 DEF Reset, ClearFraming
  <2>2. InFlight' = <<>> /\ DOMAIN output' = {} /\ DOMAIN InFlight' = {}
    BY <2>1, SMT DEF InFlight
  <2>3. Delivered' = {} /\ Numbers' = {} /\ Elements(InFlight)' = {}
    BY <2>2 DEF Delivered, Numbers, Elements
  <2>4. 1 .. captured' = {}
    BY <2>1, SMT
  <2>5. QED BY <2>2, <2>3, <2>4 DEF StreamInv, Increasing
<1>6. CASE UNCHANGED vars
  BY <1>6, StreamUnchanged DEF vars, framing
<1>7. QED BY <1>2, <1>3, <1>4, <1>5, <1>6 DEF Next

LEMMA StreamInvAlways == Spec => []StreamInv
<1>1. Init => StreamInv
  BY InitStream
<1>2. TypeOK /\ TypeOK' /\ StreamInv /\ [Next]_vars => StreamInv'
  BY StepStream
<1>3. QED BY <1>1, <1>2, TypeCorrect, PTL DEF Spec

\* Whatever sizes the blocks have and whichever calls the engine rejects, no
\* sample comes back twice or out of order.
THEOREM InOrderAlways == Spec => []InOrder
<1>1. StreamInv => InOrder
  BY DEF StreamInv, InOrder, Increasing, Numbers, Elements
<1>2. QED BY <1>1, StreamInvAlways, PTL

\* As long as no call failed, every captured sample has come back processed or
\* is still held.
THEOREM LosslessAlways == Spec => []Lossless
<1>1. StreamInv => Lossless
  BY DEF StreamInv, Lossless, Numbers, Elements
<1>2. QED BY <1>1, StreamInvAlways, PTL

=============================================================================
