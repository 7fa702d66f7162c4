---------------------------- MODULE OutgoingAudio -----------------------------
(***************************************************************************)
(* The outgoing path of a session: AudioPipeline::process_outgoing*        *)
(* (audio/pipeline.rs) gathers microphone blocks until they fill whole     *)
(* frames of the processor and of the codec, has them processed and        *)
(* encodes them; VoiceLlmSession::send_audio* (session.rs) then writes the *)
(* packets to the local track, one await each.  The session is borrowed    *)
(* mutably, so calls do not overlap.                                       *)
(*                                                                         *)
(* A packet is the block of samples it encodes.  Framing inside the        *)
(* processor is that of AudioProcessor, whose variables are shared.        *)
(* Definitions commented "Slip" are slips one could make in this code;     *)
(* nothing uses them.                                                      *)
(***************************************************************************)
EXTENDS Integers, Sequences

CONSTANTS
    FrameSamples, BlockSizes, MaxCaptured, MaxFailures, \* as in AudioProcessor
    CodecFrames,    \* samples per Opus frame, over the codec configurations
    MaxErrors       \* bound of the model: errors of the codec or of the track

VARIABLES
    pending_capture, carry_out, pending_render, near_end, ok,
    captured, output, failures      \* the pipeline's processor; nothing is
                                    \* handed back to the caller here

AP == INSTANCE AudioProcessorProofs

ASSUME FramingAssumption == AP!ProcessorAssumption

ASSUME OutgoingAssumption ==
    /\ CodecFrames \subseteq Nat \ {0}
    /\ MaxErrors \in Nat

VARIABLES
    samples_per_frame,  \* the encoder's frame, fixed by the configuration
    pending_outgoing,   \* microphone samples short of a block
    outgoing_packets,   \* the packet storage that send_audio reuses
    writing,            \* send_audio is writing the packets
    errors,             \* history: errors of the codec or of the track
    track               \* history: the packets written to the local track

processor == <<pending_capture, carry_out, pending_render, near_end, ok,
               captured, output, failures>>
vars == <<processor, samples_per_frame, pending_outgoing, outgoing_packets,
          writing, errors, track>>

-----------------------------------------------------------------------------
\* Euclid's algorithm, as least_common_multiple runs it.
Gcd[pair \in Nat \X Nat] ==
    IF pair[2] = 0 THEN pair[1] ELSE Gcd[<<pair[2], pair[1] % pair[2]>>]

\* Slip: the frame of the codec alone.
CodecFrameOnly(left, right) == left

LeastCommonMultiple(left, right) == (left \div Gcd[<<left, right>>]) * right

\* outgoing_block_samples
Block == LeastCommonMultiple(samples_per_frame, FrameSamples)

Silence == [number |-> 0, processed |-> FALSE]

\* encode_frames_into(): one packet a frame, the last one padded with silence.
Encode(pcm) ==
    [k \in 1 .. (Len(pcm) + samples_per_frame - 1) \div samples_per_frame |->
       [i \in 1 .. samples_per_frame |->
          LET at == (k - 1) * samples_per_frame + i
          IN  IF at <= Len(pcm) THEN pcm[at] ELSE Silence]]

Init ==
    /\ AP!Init
    /\ samples_per_frame \in CodecFrames
    /\ pending_outgoing = <<>> /\ outgoing_packets = <<>>
    /\ writing = FALSE /\ errors = 0 /\ track = <<>>

-----------------------------------------------------------------------------
(* process_outgoing_into()                                                 *)

\* What the call leaves in the packet storage, and whether it goes on to
\* write it.
Prepare(packets) == outgoing_packets' = packets /\ writing' = (packets # <<>>)
GiveUp(packets)  == outgoing_packets' = packets /\ writing' = FALSE

\* Slip: the storage of the last call not cleared.
EncodeBehindStale ==
    \/ ok' /\ Prepare(outgoing_packets \o Encode(near_end')) /\ UNCHANGED errors
    \/ ok' /\ errors < MaxErrors /\ errors' = errors + 1
           /\ \E done \in 0 .. Len(Encode(near_end')) - 1 :
                GiveUp(outgoing_packets \o SubSeq(Encode(near_end'), 1, done))
    \/ ~ok' /\ GiveUp(outgoing_packets) /\ UNCHANGED errors

\* What the processor made of a block is encoded into the storage, cleared
\* before.  When the codec fails the packets before that stay there, unsent.
EncodeProcessed ==
    \/ ok' /\ Prepare(Encode(near_end')) /\ UNCHANGED errors
    \/ ok' /\ errors < MaxErrors /\ errors' = errors + 1
           /\ \E done \in 0 .. Len(Encode(near_end')) - 1 :
                GiveUp(SubSeq(Encode(near_end'), 1, done))
    \/ ~ok' /\ GiveUp(<<>>) /\ UNCHANGED errors

\* Slip: whole blocks are processed ahead of the samples that wait.
ProcessOvertaking(mic) ==
    /\ Len(mic) % Block = 0
    /\ AP!Process(mic)
    /\ EncodeProcessed
    /\ UNCHANGED pending_outgoing

\* Whole blocks with nothing waiting are processed where they are.
ProcessAligned(mic) ==
    /\ pending_outgoing = <<>> /\ Len(mic) % Block = 0
    /\ AP!Process(mic)
    /\ EncodeProcessed
    /\ UNCHANGED pending_outgoing

\* Not enough for a block: nothing to send.
Gather(mic) ==
    /\ pending_outgoing # <<>> \/ Len(mic) % Block # 0
    /\ Len(pending_outgoing) + Len(mic) < Block
    /\ pending_outgoing' = pending_outgoing \o mic
    /\ Prepare(<<>>)
    /\ AP!Done
    /\ UNCHANGED <<pending_capture, carry_out, near_end, errors>>

\* Slip: one block a call.
ProcessOneBlock(mic) ==
    LET queued == pending_outgoing \o mic
    IN  /\ pending_outgoing # <<>> \/ Len(mic) % Block # 0
        /\ Len(queued) >= Block
        /\ AP!Process(SubSeq(queued, 1, Block))
        /\ EncodeProcessed
        /\ pending_outgoing' = SubSeq(queued, Block + 1, Len(queued))

\* The whole blocks are taken out of the queue before they are processed, and
\* are gone if that fails.
ProcessGathered(mic) ==
    LET queued == pending_outgoing \o mic
        complete == (Len(queued) \div Block) * Block
    IN  /\ pending_outgoing # <<>> \/ Len(mic) % Block # 0
        /\ complete > 0
        /\ AP!Process(SubSeq(queued, 1, complete))
        /\ EncodeProcessed
        /\ pending_outgoing' = SubSeq(queued, complete + 1, Len(queued))

ProcessOutgoing(mic) ==
    ProcessAligned(mic) \/ Gather(mic) \/ ProcessGathered(mic)

-----------------------------------------------------------------------------
(* Calls of the session and of the pipeline.                               *)

\* send_audio(), up to its first write.
SendAudio(n) ==
    /\ ~writing
    /\ captured + n <= MaxCaptured
    /\ captured' = captured + n
    /\ ProcessOutgoing(AP!Captured(n))
    /\ UNCHANGED <<pending_render, output, samples_per_frame, track>>

\* send_audio_with_reference(): when the far end fails the microphone block is
\* not taken, and the packet storage is left as the last call left it.
SendAudioWithReference(n, far_end) ==
    /\ ~writing
    /\ captured + n <= MaxCaptured
    /\ \/ /\ AP!RenderSucceeds(far_end)
          /\ captured' = captured + n
          /\ ProcessOutgoing(AP!Captured(n))
       \/ /\ AP!RenderFails(far_end) /\ AP!Failed
          /\ UNCHANGED <<pending_capture, carry_out, near_end, captured, errors,
                         pending_outgoing, outgoing_packets, writing>>
    /\ UNCHANGED <<output, samples_per_frame, track>>

WritePacket ==
    /\ writing
    /\ track' = Append(track, Head(outgoing_packets))
    /\ Prepare(Tail(outgoing_packets))
    /\ UNCHANGED <<processor, samples_per_frame, pending_outgoing, errors>>

\* write_sample failed: leaving the loop drops the packets behind this one.
\* (So does a caller that drops the future at the await.)
WriteFails ==
    /\ writing /\ errors < MaxErrors
    /\ errors' = errors + 1
    /\ GiveUp(<<>>)
    /\ UNCHANGED <<processor, samples_per_frame, pending_outgoing, track>>

\* The session does not call on_render() and reset(); owners of a pipeline do.
OnRender(n) ==
    /\ AP!Render(n)
    /\ UNCHANGED <<samples_per_frame, pending_outgoing, outgoing_packets,
                   writing, errors, track>>

Reset ==
    /\ ~writing
    /\ AP!ClearFraming
    /\ pending_outgoing' = <<>>
    /\ captured' = 0 /\ track' = <<>>
    /\ UNCHANGED <<near_end, ok, output, failures, samples_per_frame,
                   outgoing_packets, writing, errors>>

Next == \/ \E n \in BlockSizes : SendAudio(n) \/ OnRender(n)
        \/ \E n, far_end \in BlockSizes : SendAudioWithReference(n, far_end)
        \/ WritePacket \/ WriteFails
        \/ Reset

Spec == Init /\ [][Next]_vars

-----------------------------------------------------------------------------
(* Properties.                                                             *)

\* The fields have their types; pipeline.rs:62-75, session.rs:91-102.
TypeOK ==
    /\ AP!TypeOK
    /\ samples_per_frame \in CodecFrames
    /\ pending_outgoing \in Seq(Nat)
    /\ outgoing_packets \in Seq(Seq(AP!Sample))
    /\ writing \in BOOLEAN /\ errors \in Nat
    /\ track \in Seq(Seq(AP!Sample))

\* Behind the pipeline's gathering the processor never buffers near-end
\* samples of its own, so it neither delays nor misaligns them.
ProcessorHoldsNothing == pending_capture = <<>> /\ carry_out = <<>>

\* Fewer samples than a block wait between calls, also after a call failed.
HeldBackWithinBlock == Len(pending_outgoing) < Block

\* Packets on their way: written, or about to be.
Packets == track \o (IF writing THEN outgoing_packets ELSE <<>>)

\* Every packet is one frame of consecutive samples, all processed: no raw
\* sample, padding or gap inside a frame, whatever failed before it.
WholeFrames ==
    \A k \in DOMAIN Packets :
        \E first \in 1 .. captured :
            Packets[k] = AP!Processed([i \in 1 .. samples_per_frame |-> first + i - 1])

\* No sample is sent twice or behind a later one: packets left over from a
\* failed call are not sent with the next.
SentInOrder ==
    \A k, l \in DOMAIN Packets : k < l =>
        \A i, j \in 1 .. samples_per_frame :
            Packets[k][i].number < Packets[l][j].number

\* Until something fails every sample captured is in a packet or waiting.
NothingLost ==
    failures = 0 /\ errors = 0 =>
        LET sent == Len(Packets) * samples_per_frame
        IN  /\ \A k \in DOMAIN Packets :
                 Packets[k][1].number = (k - 1) * samples_per_frame + 1
            /\ pending_outgoing = [i \in 1 .. captured - sent |-> sent + i]

=============================================================================
