----------------------------- MODULE VoiceSession -----------------------------
(***************************************************************************)
(* Incoming audio of llm-rtc-sdk (session.rs): for every remote track,     *)
(* on_remote_audio runs a receiver task that feeds packets to the pipeline *)
(* and a playout task that sleeps until the jitter buffer's deadlines,     *)
(* decodes and calls the application back.  All tasks share one pipeline   *)
(* behind a mutex; a track's two tasks also share a Notify (packet_ready)  *)
(* and a watch channel (receiver_done).                                    *)
(*                                                                         *)
(* An action is one task's run from one point where others may be observed *)
(* to the next: a critical section of the mutex, a read of the watch       *)
(* channel, an await, a callback.  Sequence slots, deadlines and decisions *)
(* are those of JitterBuffer.                                              *)
(***************************************************************************)
EXTENDS Integers, Sequences, FiniteSets

CONSTANTS
    SeqSpace, TsSpace, FrameTicks, TargetLatency, MaxLatency, MaxPackets,
    Sent, MaxTime, MaxArrivals,     \* as in JitterBuffer
    MaxSetup,       \* bound of the model: last instant tracks are added at
    Tracks,         \* the remote tracks of the session, by number
    Recovery,       \* recovery_interval, in ticks: half a frame, but positive
    UseFec,         \* codec.use_fec
    Undecodable     \* payloads the Opus decoder rejects

ASSUME SessionAssumption ==
    /\ Recovery \in Nat \ {0} /\ MaxSetup \in Nat
    /\ UseFec \in BOOLEAN
    /\ Tracks \subseteq Nat /\ IsFiniteSet(Tracks)
    /\ Undecodable \subseteq Nat

VARIABLES
    packets, evicted_slots, next_seq, started, next_timestamp,
    anchor_timestamp, anchor_deadline, playout_started,
    current_target_latency, transit_anchor_arrival, transit_anchor_timestamp,
    max_positive_transit, packets_in, packets_out, packets_dropped,
    packets_late, now, arrivals, log     \* the shared pipeline's buffer

\* With the theorems about it, for VoiceSessionProofs to cite.
JB == INSTANCE JitterBufferProofs

ASSUME BufferAssumption == JB!JitterAssumption

VARIABLES
    registered,     \* on_remote_audio has registered its handler
    receiver,       \* where each track's receiver task is
    playout,        \* where each track's playout task is
    packet_ready,   \* Notify: the one permit it stores
    receiver_done,  \* watch channel: its value
    done_seen,      \* watch channel: the playout task saw the last change
    deadline,       \* playout task: {} for None or the deadline it read
    pending,        \* playout task: has_pending_playout as it read it
    next_decode_at, \* playout task
    decoded,        \* playout task: {} for None or the decoded frame
    delivered       \* history: the callbacks, with their instants

stream  == <<packets, evicted_slots, next_seq, started, next_timestamp,
             anchor_timestamp, anchor_deadline, playout_started,
             current_target_latency, transit_anchor_arrival,
             transit_anchor_timestamp, max_positive_transit, packets_in,
             packets_out, packets_dropped, packets_late, arrivals, log>>
buffer  == <<stream, now>>
tasks   == <<receiver, playout, packet_ready, receiver_done, done_seen>>
locals  == <<deadline, pending, next_decode_at, decoded>>
vars    == <<buffer, registered, tasks, locals, delivered>>

-----------------------------------------------------------------------------
Init ==
    /\ JB!Init
    /\ registered     = FALSE
    /\ receiver       = [t \in Tracks |-> "none"]
    /\ playout        = [t \in Tracks |-> "none"]
    /\ packet_ready   = [t \in Tracks |-> FALSE]
    /\ receiver_done  = [t \in Tracks |-> FALSE]
    /\ done_seen      = [t \in Tracks |-> FALSE]
    /\ deadline       = [t \in Tracks |-> {}]
    /\ pending        = [t \in Tracks |-> FALSE]
    /\ next_decode_at = [t \in Tracks |-> 0]
    /\ decoded        = [t \in Tracks |-> {}]
    /\ delivered      = <<>>

\* next_playout_deadline(): None when nothing is scheduled.
PlayoutDeadline == IF started /\ JB!HasPending THEN {JB!NextDeadline} ELSE {}

ReceiverAt(t, here, there) ==
    receiver[t] = here /\ receiver' = [receiver EXCEPT ![t] = there]

PlayoutAt(t, here, there) ==
    playout[t] = here /\ playout' = [playout EXCEPT ![t] = there]

-----------------------------------------------------------------------------
(* The application's thread and the callbacks of the peer connection.      *)

\* on_remote_audio: registers the handler of tracks still to come.  A second
\* call replaces it; callbacks are not told apart here.
OnRemoteAudio ==
    /\ ~registered /\ now <= MaxSetup
    /\ registered' = TRUE
    /\ UNCHANGED <<buffer, tasks, locals, delivered>>

\* Slip: the task started one interval back, lest the first frame be held.
AddTrackBack(t) ==
    /\ now <= MaxSetup
    /\ receiver[t] = "none" /\ \A u \in Tracks : u < t => receiver[u] # "none"
    /\ receiver' = [receiver EXCEPT
                      ![t] = IF registered THEN "reading" ELSE "unserved"]
    /\ playout' = [playout EXCEPT
                      ![t] = IF registered THEN "observing" ELSE "none"]
    /\ next_decode_at' = [next_decode_at EXCEPT ![t] = now - Recovery]
    /\ UNCHANGED <<buffer, packet_ready, receiver_done, done_seen, deadline,
                   pending, decoded, delivered, registered>>

\* Negotiation brings the next remote track: the handler, if there is one
\* already, spawns its two tasks.  Otherwise nobody ever serves the track.
AddTrack(t) ==
    /\ now <= MaxSetup
    /\ receiver[t] = "none" /\ \A u \in Tracks : u < t => receiver[u] # "none"
    /\ receiver' = [receiver EXCEPT
                      ![t] = IF registered THEN "reading" ELSE "unserved"]
    /\ playout' = [playout EXCEPT
                      ![t] = IF registered THEN "observing" ELSE "none"]
    /\ next_decode_at' = [next_decode_at EXCEPT ![t] = now]
    /\ UNCHANGED <<buffer, packet_ready, receiver_done, done_seen, deadline,
                   pending, decoded, delivered, registered>>

-----------------------------------------------------------------------------
(* The receiver task.                                                      *)

\* read_rtp returned a packet: push it under the lock, and remember whether
\* that moved the next deadline.
Receive(t, p) ==
    /\ arrivals < MaxArrivals /\ now <= MaxTime
    /\ now >= p.sent_at
    /\ JB!Push(p)
    /\ ReceiverAt(t, "reading",
                  IF PlayoutDeadline' # PlayoutDeadline THEN "notifying"
                                                        ELSE "reading")
    /\ UNCHANGED <<playout, packet_ready, receiver_done, done_seen, locals,
                   delivered, registered>>

\* Slip: notify_waiters, which stores no permit.
NotifyWaiters(t) ==
    /\ ReceiverAt(t, "notifying", "reading")
    /\ packet_ready' = [packet_ready EXCEPT ![t] = playout[t] \in {"idle", "sleeping"}]
    /\ UNCHANGED <<buffer, playout, receiver_done, done_seen, locals, delivered, registered>>

\* notify_one(): wakes the playout task, now or when it next waits.
NotifyPlayout(t) ==
    /\ ReceiverAt(t, "notifying", "reading")
    /\ packet_ready' = [packet_ready EXCEPT ![t] = TRUE]
    /\ UNCHANGED <<buffer, playout, receiver_done, done_seen, locals, delivered, registered>>

\* read_rtp failed, because the track closed or for any other reason.
CloseTrack(t) ==
    /\ ReceiverAt(t, "reading", "finished")
    /\ receiver_done' = [receiver_done EXCEPT ![t] = TRUE]
    /\ UNCHANGED <<buffer, playout, packet_ready, done_seen, locals, delivered, registered>>

-----------------------------------------------------------------------------
(* The playout task.                                                       *)

\* First critical section: read the deadline and whether anything is pending.
Observe(t) ==
    /\ PlayoutAt(t, "observing", "observed")
    /\ deadline' = [deadline EXCEPT ![t] = PlayoutDeadline]
    /\ pending' = [pending EXCEPT ![t] = JB!HasPending]
    /\ UNCHANGED <<buffer, receiver, packet_ready, receiver_done, done_seen,
                   next_decode_at, decoded, delivered, registered>>

Drained(t) == receiver_done[t] /\ ~pending[t]

\* The lock is free again when the watch channel is read.
CheckObserved(t) ==
    /\ PlayoutAt(t, "observed",
                 IF Drained(t) THEN "finished"
                 ELSE IF deadline[t] = {} THEN "idle" ELSE "sleeping")
    /\ UNCHANGED <<buffer, receiver, packet_ready, receiver_done, done_seen,
                   locals, delivered, registered>>

\* packet_ready.notified() completes, in either select!.
WakeOnPacket(t) ==
    /\ \/ PlayoutAt(t, "idle", "observing")
       \/ PlayoutAt(t, "sleeping", "observing")
    /\ packet_ready[t]
    /\ packet_ready' = [packet_ready EXCEPT ![t] = FALSE]
    /\ UNCHANGED <<buffer, receiver, receiver_done, done_seen, locals, delivered, registered>>

\* Slip: the end of the receiver noticed only along with a packet.
WakeOnLastPacket(t) ==
    /\ PlayoutAt(t, "idle", IF done_seen[t] THEN "finished" ELSE "observing")
    /\ receiver_done[t] /\ packet_ready[t]
    /\ done_seen' = [done_seen EXCEPT ![t] = TRUE]
    /\ UNCHANGED <<buffer, receiver, packet_ready, receiver_done, locals,
                   delivered, registered>>

\* receiver_done.changed() completes: Ok once, then Err as the sender is gone.
WakeOnClose(t) ==
    /\ PlayoutAt(t, "idle", IF done_seen[t] THEN "finished" ELSE "observing")
    /\ receiver_done[t]
    /\ done_seen' = [done_seen EXCEPT ![t] = TRUE]
    /\ UNCHANGED <<buffer, receiver, packet_ready, receiver_done, locals,
                   delivered, registered>>

\* Slip: the pace of the callbacks ignored.
WakeAtDeadline(t) == deadline[t]

\* wake_at: the deadline, or later to keep the pace of the callbacks.
WakeAt(t) == {JB!MaxOf(d, next_decode_at[t]) : d \in deadline[t]}

\* pop_decoded(): an event whose payload cannot be decoded yields no frame.
DecodeFails(event) ==
    /\ event.kind = "packet" \/ (event.kind = "recovered" /\ UseFec)
    /\ event.payload \cap Undecodable # {}

FrameOf(event) == IF DecodeFails(event) THEN {} ELSE {event.slot}

\* sleep_until(wake_at) completes: pop and decode in the second critical
\* section.  Meanwhile the slot may have become not due, or been taken.
Pop(t) ==
    /\ playout[t] = "sleeping"
    /\ \A instant \in WakeAt(t) : now >= instant
    /\ \/ /\ JB!PopEvent
          /\ decoded' = [decoded EXCEPT ![t] = FrameOf(log'[Len(log')])]
       \/ /\ ~JB!Due
          /\ decoded' = [decoded EXCEPT ![t] = {}]
          /\ UNCHANGED buffer
    /\ pending' = [pending EXCEPT ![t] = JB!HasPending']
    /\ PlayoutAt(t, "sleeping",
                 IF decoded'[t] = {} THEN "played" ELSE "delivering")
    /\ UNCHANGED <<receiver, packet_ready, receiver_done, done_seen, deadline,
                   next_decode_at, delivered, registered>>

\* Slip: no callback once the receiver has finished.
DeliverWhileOpen(t) ==
    /\ PlayoutAt(t, "delivering", "played")
    /\ \E slot \in decoded[t] :
         delivered' = IF receiver_done[t] THEN delivered
                      ELSE Append(delivered, [track |-> t, slot |-> slot, at |-> now])
    /\ decoded' = [decoded EXCEPT ![t] = {}]
    /\ next_decode_at' = [next_decode_at EXCEPT ![t] = now + Recovery]
    /\ UNCHANGED <<buffer, receiver, packet_ready, receiver_done, done_seen,
                   deadline, pending, registered>>

\* cb(pcm), after which the next decode is held back.
Deliver(t) ==
    /\ PlayoutAt(t, "delivering", "played")
    /\ \E slot \in decoded[t] :
         delivered' = Append(delivered, [track |-> t, slot |-> slot, at |-> now])
    /\ decoded' = [decoded EXCEPT ![t] = {}]
    /\ next_decode_at' = [next_decode_at EXCEPT ![t] = now + Recovery]
    /\ UNCHANGED <<buffer, receiver, packet_ready, receiver_done, done_seen,
                   deadline, pending, registered>>

CheckPlayed(t) ==
    /\ PlayoutAt(t, "played", IF Drained(t) THEN "finished" ELSE "observing")
    /\ UNCHANGED <<buffer, receiver, packet_ready, receiver_done, done_seen,
                   locals, delivered, registered>>

PlayoutStep(t) ==
    \/ Observe(t) \/ CheckObserved(t)
    \/ WakeOnPacket(t) \/ WakeOnClose(t)
    \/ Pop(t) \/ Deliver(t) \/ CheckPlayed(t)

-----------------------------------------------------------------------------
\* Time runs freely up to MaxTime, and beyond it to the instant a task sleeps
\* until.  Any task may be delayed by any amount.
Tick ==
    /\ \/ now < MaxTime
       \/ \E t \in Tracks : playout[t] = "sleeping" /\ \E d \in WakeAt(t) : now < d
    /\ now' = now + 1
    /\ UNCHANGED <<stream, tasks, locals, delivered, registered>>

ReceiverStep(t) ==
    \/ \E p \in Sent : Receive(t, p)
    \/ NotifyPlayout(t) \/ CloseTrack(t)

Next == \/ \E t \in Tracks : AddTrack(t) \/ ReceiverStep(t) \/ PlayoutStep(t)
        \/ OnRemoteAudio
        \/ Tick

Spec == Init /\ [][Next]_vars

\* Time goes on, and the runtime schedules every task that is ready.  Nothing
\* makes packets arrive, tracks appear or close.
FairSpec ==
    /\ Spec
    /\ WF_vars(Tick)
    /\ \A t \in Tracks : WF_vars(PlayoutStep(t)) /\ WF_vars(NotifyPlayout(t))

-----------------------------------------------------------------------------
(* Properties.                                                             *)

TypeOK ==
    /\ registered \in BOOLEAN
    /\ receiver \in [Tracks -> {"none", "unserved", "reading", "notifying",
                                "finished"}]
    /\ playout \in [Tracks -> {"none", "observing", "observed", "idle", "sleeping",
                               "delivering", "played", "finished"}]
    /\ packet_ready \in [Tracks -> BOOLEAN]
    /\ receiver_done \in [Tracks -> BOOLEAN]
    /\ done_seen \in [Tracks -> BOOLEAN]
    /\ deadline \in [Tracks -> SUBSET Nat]
    /\ pending \in [Tracks -> BOOLEAN]
    /\ next_decode_at \in [Tracks -> Nat]
    /\ decoded \in [Tracks -> SUBSET Int]
    /\ delivered \in Seq([track : Tracks, slot : Int, at : Nat])

Served == {t \in Tracks : playout[t] # "none"}

\* As long as one track is served, a playout task that waits for a deadline the
\* buffer no longer has is about to be woken (session.rs:278-291, 133-149).
WakeupNotLost ==
    \A t \in Served :
        /\ Cardinality(Served) = 1
        /\ playout[t] \in {"observed", "idle", "sleeping"}
        /\ deadline[t] # PlayoutDeadline
        => packet_ready[t] \/ receiver[t] = "notifying"

\* A task catching up never calls back more often than every Recovery ticks,
\* which is twice the media rate (session.rs:165-167).
Paced ==
    \A i, j \in DOMAIN delivered :
        i < j /\ delivered[i].track = delivered[j].track =>
            delivered[j].at - delivered[i].at >= Recovery

Decodable == {log[i].slot : i \in {k \in DOMAIN log : ~DecodeFails(log[k])}}

\* Every frame that could be decoded is delivered, or in the hands of a task
\* that is about to; and none is delivered twice, whichever task popped it.
FrameDeliveredOnce ==
    /\ {delivered[i].slot : i \in DOMAIN delivered}
         \cup UNION {decoded[t] : t \in Tracks} = Decodable
    /\ Len(delivered) + Cardinality({t \in Tracks : decoded[t] # {}})
         = Cardinality(Decodable)

\* As long as one track is served the application hears the frames in slot
\* order; of two tracks either may call back first.
DeliveredInOrder ==
    Cardinality(Served) = 1 => \A i, j \in DOMAIN delivered : i < j => delivered[i].slot < delivered[j].slot

\* The playout task ends with nothing left to play, as its documentation says
\* (session.rs:106-108).
TailPlayed ==
    (\A t \in Served : playout[t] = "finished") => ~JB!HasPending

\* Packets may still come in that keep the shared buffer from being drained.
StillFed == JB!HasPending /\ \E t \in Served : ~receiver_done[t]

\* Once its receiver has finished a playout task finishes too, unless another
\* track, whose receiver goes on, feeds the shared buffer for ever
\* (session.rs:129, 170, 238-239).
PlayoutFinishes ==
    \A t \in Tracks : <>[](receiver_done[t] /\ ~StillFed) => <>(playout[t] = "finished")

=============================================================================
