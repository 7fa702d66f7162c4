-------------------------------- MODULE Replay --------------------------------
(***************************************************************************)
(* The programs that drive the jitter buffer by a clock of their own: the  *)
(* replay of a network trace (examples/neteq_trace_sender.rs), the jitter  *)
(* benchmark (examples/benchmark.rs) and the loopback demonstration        *)
(* (examples/voice_pipeline.rs).  Each decides when a packet arrives, when *)
(* the injected clock moves and when the buffer is polled, and stops by a  *)
(* condition of its own; what they report is sound only if nothing that    *)
(* should be played is left when they stop.                                *)
(*                                                                         *)
(* Sequence slots, deadlines and decisions are those of JitterBuffer.  The *)
(* random numbers are choices, fixed before the replay as in the code.     *)
(***************************************************************************)
EXTENDS Integers, Sequences, FiniteSets

CONSTANTS
    SeqSpace, TsSpace, FrameTicks, TargetLatency, MaxLatency, MaxPackets,
                    \* as in JitterBuffer
    Programs,       \* those of "trace", "bench" and "loopback" to run
    Profiles,       \* the network profiles, see Profile below
    Poll,           \* PLAYOUT_POLL_MS: time between two polls
    ContentFrames,  \* CONTENT_FRAMES
    GuardFrames,    \* GUARD_FRAMES, silence sent behind the content
    StartSequence, StartTimestamp,
    TailTime,           \* how long a replay goes on after the last arrival
    MaxOversleep    \* bound of the model: lateness of a sleep

\* A profile delays a frame by base_delay, more or less one of the jitters it
\* draws, of at most jitter.  Its generator loses at most loss_run frames in a
\* row: the seeds in the code lose none (clean), or two (all others).
Profile == [base_delay : Nat, jitter : Nat, jitters : SUBSET Int, loss_run : Nat]

VARIABLES
    packets, evicted_slots, next_seq, started, next_timestamp,
    anchor_timestamp, anchor_deadline, playout_started,
    current_target_latency, transit_anchor_arrival, transit_anchor_timestamp,
    max_positive_transit, packets_in, packets_out, packets_dropped,
    packets_late, now, arrivals, log,    \* the buffer, now its mock clock
    program,    \* which program runs
    profile,    \* the network it simulates
    at,         \* where it is
    trace,      \* the frames encoded, each with its arrival and its fate
    waiting,    \* the packets still to arrive
    tick,       \* the playout timeline: tick_ms, playout_t
    output      \* the content frames played, with their instants

buffer == <<packets, evicted_slots, next_seq, started, next_timestamp,
            anchor_timestamp, anchor_deadline, playout_started,
            current_target_latency, transit_anchor_arrival,
            transit_anchor_timestamp, max_positive_transit, packets_in,
            packets_out, packets_dropped, packets_late, arrivals, log>>
choice == <<program, profile>>
vars   == <<buffer, now, choice, at, trace, waiting, tick, output>>

-----------------------------------------------------------------------------
\* Only the replay of a trace sends guard frames and numbers its packets from
\* START_SEQUENCE on.
FrameCount == IF program = "trace" THEN ContentFrames + GuardFrames
                                   ELSE ContentFrames

\* Slip: the first guard taken for content.
IsLateGuard(frame) == frame > ContentFrames

IsGuard(frame) == frame >= ContentFrames

PacketOf(frame, first_seq, first_ts) ==
    [sequence_number |-> (first_seq + frame) % SeqSpace,
     timestamp       |-> (first_ts + frame * FrameTicks) % TsSpace,
     payload         |-> frame,
     sent_at         |-> frame * FrameTicks]

AudioPacket(frame) == IF program = "trace"
                      THEN PacketOf(frame, StartSequence, StartTimestamp)
                      ELSE PacketOf(frame, 0, 0)

\* frame_index of a played slot
FrameOf(slot) == (slot - IF program = "trace" THEN StartSequence ELSE 0) % SeqSpace

AllPackets == {PacketOf(frame, first[1], first[2]) :
                 frame \in 0 .. ContentFrames + GuardFrames - 1,
                 first \in {<<0, 0>>, <<StartSequence, StartTimestamp>>}}

JB == INSTANCE JitterSenderProofs WITH Sent <- AllPackets,
                                       MaxTime <- 0, MaxArrivals <- 0

\* How far playout may lag behind base_delay: the latest packet, and the poll
\* that sees it, behind a target at its ceiling or behind a row of losses.
Slack(p) == p.jitter + Poll + JB!MaxOf(MaxLatency, p.loss_run * FrameTicks)

ASSUME BufferAssumption == JB!JitterAssumption

\* The code's values in brackets, in milliseconds; the default max_latency_ms.
ASSUME ReplayAssumption ==
    /\ FrameTicks \in Nat \ {0}                          \* 10
    /\ Poll \in Nat \ {0} /\ Poll <= FrameTicks          \* 5
    /\ ContentFrames \in Nat \ {0} /\ GuardFrames \in Nat \ {0}
    /\ StartSequence \in Nat /\ StartTimestamp \in Nat
    /\ TailTime \in Nat /\ MaxOversleep \in Nat
    /\ Programs \subseteq {"trace", "bench", "loopback"}
    \* 1010 frames, far from the end of either number space
    /\ 2 * (ContentFrames + GuardFrames) <= SeqSpace
    /\ (ContentFrames + GuardFrames) * FrameTicks < TsSpace
    /\ \A p \in Profiles :
         /\ p \in Profile
         /\ \A j \in p.jitters : -p.jitter <= j /\ j <= p.jitter
         \* no guard overtakes the first frame: jitter 40, content 10000
         /\ p.jitter < ContentFrames * FrameTicks
         \* the tail outlasts the lag: 165 and 1000
         /\ Slack(p) <= TailTime
         \* what a lag holds back fits into the buffer: 205 and 990
         /\ Slack(p) + p.jitter <= (MaxPackets - 1) * FrameTicks
    \* the demonstration: 300 ms of audio, 100 packets
    /\ "loopback" \in Programs => ContentFrames <= MaxPackets

Init ==
    /\ JB!Init
    /\ program \in Programs
    /\ profile \in Profiles
    /\ at = "encode"
    /\ trace = <<>> /\ waiting = {} /\ tick = 0 /\ output = <<>>

-----------------------------------------------------------------------------
(* The trace.                                                              *)

\* Which frames the simulated network may lose: the trace keeps its first
\* frame and its guards; the demonstration's loop loses none.
MayDrop(frame) ==
    /\ ~ \A i \in frame - profile.loss_run + 1 .. frame :
           i \in DOMAIN trace /\ trace[i].dropped
    /\ program = "bench" \/ (program = "trace" /\ frame # 0 /\ ~IsGuard(frame))

Jitters(frame) == IF IsGuard(frame) \/ program = "loopback" THEN {0}
                                                            ELSE profile.jitters

\* One round of the loop of encode_trace, and of the one in bench_jitter.
EncodeFrame ==
    /\ at = "encode" /\ Len(trace) < FrameCount
    /\ \E jitter \in Jitters(Len(trace)), dropped \in BOOLEAN :
         /\ dropped => MayDrop(Len(trace))
         /\ trace' = Append(trace,
              [frame   |-> Len(trace),
               arrival |-> JB!MaxOf(Len(trace) * FrameTicks
                                      + profile.base_delay + jitter, 0),
               dropped |-> dropped])
    /\ UNCHANGED <<buffer, now, choice, at, waiting, tick, output>>

\* Only the packets that were not dropped are sorted into arrivals.
StartReplay ==
    /\ at = "encode" /\ Len(trace) = FrameCount
    /\ waiting' = {trace[i] : i \in {k \in DOMAIN trace : ~trace[k].dropped}}
    /\ at' = IF program = "loopback" THEN "loop" ELSE "arrivals"
    /\ UNCHANGED <<buffer, now, choice, trace, tick, output>>

-----------------------------------------------------------------------------
(* run_local_once and bench_jitter: polling on a timeline of their own.    *)

\* The order arrivals are sorted in: by instant, then by frame.
Earliest(entry) ==
    \A other \in waiting :
        \/ entry.arrival < other.arrival
        \/ entry.arrival = other.arrival /\ entry.frame <= other.frame

Arriving == {entry \in waiting : Earliest(entry) /\ entry.arrival <= tick}

\* Slip: the clock left where the last poll put it.
SetClockNever(entry) == UNCHANGED now

\* The replay sets the clock to the packet's arrival before it pushes it; the
\* benchmark leaves it at the last poll.
SetClock(entry) == now' = IF program = "trace" THEN entry.arrival ELSE now

NextArrival ==
    /\ at = "arrivals"
    /\ \E entry \in Arriving : SetClock(entry)
    /\ at' = "push"
    /\ UNCHANGED <<buffer, choice, trace, waiting, tick, output>>

PushArrival ==
    /\ at = "push"
    /\ \E entry \in Arriving : /\ JB!Push(AudioPacket(entry.frame))
                               /\ waiting' = waiting \ {entry}
    /\ at' = "arrivals"
    /\ UNCHANGED <<choice, trace, tick, output>>

\* Every packet due has arrived: the clock moves on to the poll.
AdvanceClock ==
    /\ at = "arrivals" /\ Arriving = {}
    /\ now' = tick
    /\ at' = "poll"
    /\ UNCHANGED <<buffer, choice, trace, waiting, tick, output>>

LastArrival == CHOOSE t \in {0} \cup {trace[i].arrival : i \in DOMAIN trace} :
                 \A i \in DOMAIN trace : trace[i].arrival <= t

\* Slip: no time left to play what arrives last.
EndAtArrival == LastArrival

\* end_ms: the fate of a packet does not matter to it.
EndOfReplay == LastArrival + TailTime

\* max_ticks of the benchmark, in time.
EndOfBenchmark ==
    ContentFrames * FrameTicks + profile.base_delay + profile.jitter + TailTime

Continues ==
    \/ /\ program = "trace"
       /\ tick' <= EndOfReplay /\ Len(output') < ContentFrames
    \/ /\ program = "bench"
       /\ waiting # {} \/ JB!HasPending'
       /\ tick' < EndOfBenchmark

\* At most one event a poll; a guard frame is played but not counted.
PopOne ==
    \/ /\ JB!PopEvent
       /\ LET event == log'[Len(log')]
              frame == FrameOf(event.slot)
          IN  output' = IF IsGuard(frame) THEN output
                        ELSE Append(output, [frame |-> frame, at |-> now,
                                             kind |-> event.kind])
    \/ ~JB!Due /\ UNCHANGED <<buffer, now, output>>

PollBuffer ==
    /\ at = "poll"
    /\ PopOne
    /\ tick' = tick + Poll
    /\ at' = IF Continues THEN "arrivals" ELSE "done"
    /\ UNCHANGED <<choice, trace, waiting>>

-----------------------------------------------------------------------------
(* The demonstration: packets looped back one a frame, then the tail.      *)

LoopBack ==
    /\ at = "loop"
    /\ \E entry \in waiting : /\ Earliest(entry)
                              /\ JB!Push(AudioPacket(entry.frame))
                              /\ waiting' = waiting \ {entry}
    /\ at' = "sleep"
    /\ UNCHANGED <<choice, trace, tick, output>>

\* has_pending_playout() decides whether the tail goes on.
LoopTail ==
    /\ at = "loop" /\ waiting = {}
    /\ at' = IF JB!HasPending THEN "sleep" ELSE "done"
    /\ UNCHANGED <<buffer, now, choice, trace, waiting, tick, output>>

\* tokio's sleep() may end late, never early.
Sleep ==
    /\ at = "sleep"
    /\ \E late \in 0 .. MaxOversleep : now' = now + FrameTicks + late
    /\ at' = "play"
    /\ UNCHANGED <<buffer, choice, trace, waiting, tick, output>>

Play ==
    /\ at = "play"
    /\ PopOne
    /\ at' = "loop"
    /\ UNCHANGED <<choice, trace, waiting, tick>>

-----------------------------------------------------------------------------
Next == \/ EncodeFrame \/ StartReplay
        \/ NextArrival \/ PushArrival \/ AdvanceClock \/ PollBuffer
        \/ LoopBack \/ LoopTail \/ Sleep \/ Play

Spec == Init /\ [][Next]_vars

-----------------------------------------------------------------------------
(* Properties.                                                             *)

\* Types of the programs' variables; neteq_trace_sender.rs:86-94, 156-168.
TypeOK ==
    /\ JB!TypeOK
    /\ program \in Programs /\ profile \in Profiles
    /\ at \in {"encode", "arrivals", "push", "poll", "loop", "sleep", "play",
               "done"}
    /\ trace \in Seq([frame : Nat, arrival : Nat, dropped : BOOLEAN])
    /\ waiting \subseteq {trace[i] : i \in DOMAIN trace}
    /\ tick \in Nat
    /\ output \in Seq([frame : 0 .. ContentFrames - 1, at : Nat,
                       kind : {"packet", "recovered", "missing"}])

Delivered == {trace[i].frame : i \in {k \in DOMAIN trace : ~trace[k].dropped}}

\* The last content frame a program must have played when it stops: guards
\* make the trace's last one provable, without them the last to arrive is.
LastFrame == IF program = "trace" THEN ContentFrames - 1
             ELSE CHOOSE f \in Delivered : \A g \in Delivered : g <= f

\* A program that stops has played every content frame from its first one on,
\* in order and each once, none left behind in the buffer or on the network:
\* the stop conditions cut nothing short (neteq_trace_sender.rs:326-330,
\* benchmark.rs:315-321, voice_pipeline.rs:99-107).
ContinuityComplete ==
    at = "done" /\ Delivered # {} =>
        /\ output # <<>>
        /\ \A i \in DOMAIN output : output[i].frame = output[1].frame + i - 1
        /\ output[Len(output)].frame = LastFrame

FirstArrival == CHOOSE t \in {trace[i].arrival : i \in DOMAIN trace} :
                  /\ \E i \in DOMAIN trace : ~trace[i].dropped /\ trace[i].arrival = t
                  /\ \A i \in DOMAIN trace : trace[i].dropped \/ t <= trace[i].arrival

\* The clock a program injects holds content back for the startup target after
\* the first packet truly arrived, as a real one would; the benchmark, whose
\* clock lags behind its arrivals, for a poll less (benchmark.rs:323-334).
StartupHeld ==
    output # <<>> =>
        \/ program = "loopback" /\ output[1].at >= JB!StartupTarget
        \/ program = "trace" /\ output[1].at >= FirstArrival + JB!StartupTarget
        \/ /\ program = "bench"
           /\ output[1].at >= FirstArrival + JB!StartupTarget - Poll

=============================================================================
