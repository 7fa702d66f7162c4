----------------------------- MODULE JitterBuffer -----------------------------
(***************************************************************************)
(* The RTP jitter buffer of llm-rtc-core (audio/jitter.rs): it accepts     *)
(* packets in whatever order the network delivers them and hands the       *)
(* decoder one event per sequence slot, each at that slot's RTP deadline.  *)
(*                                                                         *)
(* Time is counted in ticks of the configured RTP clock (sample_rate), so  *)
(* the conversions of the code between milliseconds, durations and ticks   *)
(* are exact scalings here.  The RFC 3550 jitter estimate (update_jitter)  *)
(* is written by push and read by stats() only; it is left out.            *)
(*                                                                         *)
(* Definitions commented "Slip" are slips one could make in this code: the *)
(* runs tell each from the real thing, and nothing uses them.              *)
(***************************************************************************)
EXTENDS Integers, Sequences, FiniteSets, Functions

CONSTANTS
    SeqSpace,       \* size of the raw sequence number space (2^16 in RTP)
    TsSpace,        \* size of the RTP timestamp space (2^32 in RTP)
    FrameTicks,     \* frame_ticks(): timestamp ticks of one audio frame
    TargetLatency,  \* config.target_latency_ms as given, in ticks
    MaxLatency,     \* config.max_latency_ms, in ticks
    MaxPackets,     \* config.max_packets as given
    Sent,           \* the packets the remote sender puts on the wire
    MaxTime,        \* bound of the model: last instant a packet arrives at
    MaxArrivals     \* bound of the model: packets pushed in one stream

Timestamp == 0 .. TsSpace - 1

Packet == [sequence_number : 0 .. SeqSpace - 1,
           timestamp       : Timestamp,
           payload         : Nat,   \* the sender's own number of the frame
           sent_at         : Nat]   \* and when it puts it on the wire

ASSUME JitterAssumption ==
    /\ SeqSpace \in Nat \ {0}
    /\ TsSpace \in Nat \ {0}
    /\ FrameTicks \in Nat
    /\ TargetLatency \in Nat /\ MaxLatency \in Nat
    /\ MaxPackets \in Nat
    /\ MaxTime \in Nat /\ MaxArrivals \in Nat
    /\ Sent \subseteq Packet

VARIABLES
    packets,                \* buffered packets, by extended sequence number
    evicted_slots,          \* evicted slot -> timestamp of the evicted packet
    next_seq,               \* extended number of the slot to emit next
    started,                \* the first packet has anchored the stream
    next_timestamp,         \* predicted timestamp of an absent next slot
    anchor_timestamp,       \* timestamp mapped onto anchor_deadline
    anchor_deadline,        \* instant (the code's None is 0, read by nobody)
    playout_started,        \* a slot of this stream has been emitted
    current_target_latency, \* startup target after adaptation
    transit_anchor_arrival, \* arrival of the first packet (None is 0)
    transit_anchor_timestamp,
    max_positive_transit,   \* largest transit increase seen in this stream
    packets_in, packets_out, packets_dropped, packets_late,
    now,                    \* the injected clock
    arrivals,               \* history: packets pushed in this stream
    log                     \* history: the PlayoutEvents of this stream

schedule == <<anchor_timestamp, anchor_deadline, current_target_latency,
              transit_anchor_arrival, transit_anchor_timestamp,
              max_positive_transit>>
cursor   == <<next_seq, next_timestamp, started, playout_started>>
counters == <<packets_in, packets_out, packets_dropped, packets_late>>
vars     == <<packets, evicted_slots, cursor, schedule, counters, now,
              arrivals, log>>

-----------------------------------------------------------------------------
(* Arithmetic of the configuration, the sequence space and the RTP clock.  *)

MinOf(a, b) == IF a <= b THEN a ELSE b
MaxOf(a, b) == IF a >= b THEN a ELSE b

\* with_clock() clamps the target to the ceiling and the capacity to one.
StartupTarget == MinOf(TargetLatency, MaxLatency)
Capacity      == MaxOf(MaxPackets, 1)

\* Slip: raw numbers compared without unfolding them around the wrap.
ExtendRaw(seq, reference) == seq

\* extend_seq: the extended number closest to reference that wraps to seq.
Extend(seq, reference) ==
    LET distance == (seq - reference) % SeqSpace
    IN  IF 2 * distance < SeqSpace THEN reference + distance
                                   ELSE reference + distance - SeqSpace

\* Slip: timestamps added without wrapping.
TsAddUnwrapped(a, b) == a + b

\* u32::wrapping_sub and wrapping_add on timestamps.
TsSub(a, b) == (a - b) % TsSpace
TsAdd(a, b) == (a + b) % TsSpace

\* deadline_for
DeadlineFor(ts) == anchor_deadline + TsSub(ts, anchor_timestamp)

-----------------------------------------------------------------------------
(* What the read-only methods return.                                      *)

Buffered == DOMAIN packets
Evicted  == DOMAIN evicted_slots

HasPending == Buffered # {} \/ Evicted # {}

\* The timestamp that next_deadline() schedules the next slot by.
NextSlotTimestamp ==
    CASE next_seq \in Buffered -> packets[next_seq].timestamp
      [] next_seq \in Evicted \ Buffered -> evicted_slots[next_seq]
      [] OTHER -> next_timestamp

NextDeadline == DeadlineFor(NextSlotTimestamp)

\* Slip: evicted slots forgotten.
DueForPackets == started /\ Buffered # {} /\ now >= NextDeadline

\* The `next_deadline()?` and clock checks that open pop_event.
Due == started /\ HasPending /\ now >= NextDeadline

-----------------------------------------------------------------------------
Nothing == [slot \in {} |-> 0]

\* with_clock()
Init ==
    /\ packets = Nothing
    /\ evicted_slots = Nothing
    /\ next_seq = 0 /\ next_timestamp = 0
    /\ started = FALSE /\ playout_started = FALSE
    /\ anchor_timestamp = 0 /\ anchor_deadline = 0
    /\ current_target_latency = StartupTarget
    /\ transit_anchor_arrival = 0 /\ transit_anchor_timestamp = 0
    /\ max_positive_transit = 0
    /\ packets_in = 0 /\ packets_out = 0
    /\ packets_dropped = 0 /\ packets_late = 0
    /\ arrivals = 0 /\ log = <<>>
    /\ now = 0

-----------------------------------------------------------------------------
(* push(): one action per way through the handler.                         *)

\* update_transit_spread followed by adapt_startup_target, for packet p; the
\* anchors of p's stream are those in force after the push.
MeasureTransit(p) ==
    max_positive_transit' =
        MaxOf(max_positive_transit,
              (now - transit_anchor_arrival')
                 - TsSub(p.timestamp, transit_anchor_timestamp'))

DesiredTarget(spread) == MinOf(MaxOf(StartupTarget, spread), MaxLatency)

\* Slip: adapting after playout started.
AdaptAlways(deadline) ==
    /\ current_target_latency' =
         MaxOf(current_target_latency, DesiredTarget(max_positive_transit'))
    /\ anchor_deadline' =
         deadline + (current_target_latency' - current_target_latency)

\* Slip: the target raised without moving the deadline.
AdaptTargetOnly(deadline) ==
    /\ anchor_deadline' = deadline
    /\ current_target_latency' =
         IF playout_started THEN current_target_latency
         ELSE MaxOf(current_target_latency, DesiredTarget(max_positive_transit'))

AdaptStartup(deadline) ==
    IF playout_started
    THEN /\ anchor_deadline' = deadline
         /\ UNCHANGED current_target_latency
    ELSE /\ current_target_latency' =
              MaxOf(current_target_latency, DesiredTarget(max_positive_transit'))
         /\ anchor_deadline' =
              deadline + (current_target_latency' - current_target_latency)

\* Slip: the first buffered packet evicted instead of the last.
StoreEvictingFirst(held) ==
    \/ /\ Cardinality(DOMAIN held) <= Capacity
       /\ packets' = held
       /\ UNCHANGED <<evicted_slots, packets_dropped>>
    \/ /\ Cardinality(DOMAIN held) > Capacity
       /\ \E first \in DOMAIN held :
            /\ \A slot \in DOMAIN held : slot >= first
            /\ packets' = Restrict(held, DOMAIN held \ {first})
            /\ evicted_slots' =
                 [slot \in Evicted \cup {first} |->
                    IF slot = first THEN held[first].timestamp
                                    ELSE evicted_slots[slot]]
            /\ packets_dropped' = packets_dropped + 1

\* Slip: nothing evicted.
StoreUnbounded(held) ==
    packets' = held /\ UNCHANGED <<evicted_slots, packets_dropped>>

\* packets.insert followed by enforce_limits: above the ceiling the LAST
\* buffered packet, possibly the new one, becomes an evicted slot.  The code
\* loops, but a push adds one packet to a buffer within its ceiling.
StoreWithin(held) ==
    \/ /\ Cardinality(DOMAIN held) <= Capacity
       /\ packets' = held
       /\ UNCHANGED <<evicted_slots, packets_dropped>>
    \/ /\ Cardinality(DOMAIN held) > Capacity
       /\ \E last \in DOMAIN held :
            /\ \A slot \in DOMAIN held : slot <= last
            /\ packets' = Restrict(held, DOMAIN held \ {last})
            /\ evicted_slots' =
                 [slot \in Evicted \cup {last} |->
                    IF slot = last THEN held[last].timestamp
                                   ELSE evicted_slots[slot]]
            /\ packets_dropped' = packets_dropped + 1

Store(p, slot) ==
    /\ StoreWithin([k \in Buffered \cup {slot} |->
                      IF k = slot THEN p ELSE packets[k]])
    /\ packets_in' = packets_in + 1

\* The first packet anchors the sequence space and the playout schedule.
PushFirst(p) ==
    /\ ~started
    /\ started' = TRUE
    /\ next_seq' = p.sequence_number
    /\ next_timestamp' = p.timestamp
    /\ anchor_timestamp' = p.timestamp
    /\ transit_anchor_arrival' = now
    /\ transit_anchor_timestamp' = p.timestamp
    /\ MeasureTransit(p)
    /\ AdaptStartup(now + current_target_latency)
    /\ Store(p, p.sequence_number)
    /\ arrivals' = arrivals + 1
    /\ UNCHANGED <<playout_started, packets_out, packets_late, now, log>>

\* A packet whose slot has been emitted is dropped: the decoder never rewinds.
PushLate(p) ==
    /\ started /\ playout_started
    /\ Extend(p.sequence_number, next_seq) < next_seq
    /\ packets_late' = packets_late + 1
    /\ arrivals' = arrivals + 1
    /\ UNCHANGED <<packets, evicted_slots, cursor, schedule, packets_in,
                   packets_out, packets_dropped, now, log>>

\* Slip: re-anchoring although playout started.
RewindEarlier(p) ==
    LET slot == Extend(p.sequence_number, next_seq)
    IN  /\ started
        /\ slot < next_seq
        /\ next_seq' = slot
        /\ next_timestamp' = p.timestamp
        /\ anchor_timestamp' = p.timestamp
        /\ UNCHANGED <<transit_anchor_arrival, transit_anchor_timestamp>>
        /\ MeasureTransit(p)
        /\ AdaptStartup(anchor_deadline)
        /\ Store(p, slot)
        /\ arrivals' = arrivals + 1
        /\ UNCHANGED <<started, playout_started, packets_out, packets_late,
                       now, log>>

\* Before playout an earlier packet moves the anchor back in sequence and
\* timestamp, but keeps the wall-clock deadline.
PushEarlier(p) ==
    LET slot == Extend(p.sequence_number, next_seq)
    IN  /\ started /\ ~playout_started
        /\ slot < next_seq
        /\ next_seq' = slot
        /\ next_timestamp' = p.timestamp
        /\ anchor_timestamp' = p.timestamp
        /\ UNCHANGED <<transit_anchor_arrival, transit_anchor_timestamp>>
        /\ MeasureTransit(p)
        /\ AdaptStartup(anchor_deadline)
        /\ Store(p, slot)
        /\ arrivals' = arrivals + 1
        /\ UNCHANGED <<started, playout_started, packets_out, packets_late,
                       now, log>>

\* A slot that is buffered or was evicted takes no second packet.
PushDuplicate(p) ==
    LET slot == Extend(p.sequence_number, next_seq)
    IN  /\ started
        /\ slot >= next_seq
        /\ slot \in Buffered \cup Evicted
        /\ packets_dropped' = packets_dropped + 1
        /\ arrivals' = arrivals + 1
        /\ UNCHANGED <<packets, evicted_slots, cursor, schedule, packets_in,
                       packets_out, packets_late, now, log>>

\* Slip: packets behind the cursor stored as well.
PushAnywhere(p) ==
    LET slot == Extend(p.sequence_number, next_seq)
    IN  /\ started
        /\ slot \notin Buffered \cup Evicted
        /\ UNCHANGED <<cursor, anchor_timestamp, transit_anchor_arrival,
                       transit_anchor_timestamp>>
        /\ MeasureTransit(p)
        /\ AdaptStartup(anchor_deadline)
        /\ Store(p, slot)
        /\ arrivals' = arrivals + 1
        /\ UNCHANGED <<packets_out, packets_late, now, log>>

\* A packet for a slot still to come is stored there.
PushAhead(p) ==
    LET slot == Extend(p.sequence_number, next_seq)
    IN  /\ started
        /\ slot >= next_seq
        /\ slot \notin Buffered \cup Evicted
        /\ UNCHANGED <<cursor, anchor_timestamp, transit_anchor_arrival,
                       transit_anchor_timestamp>>
        /\ MeasureTransit(p)
        /\ AdaptStartup(anchor_deadline)
        /\ Store(p, slot)
        /\ arrivals' = arrivals + 1
        /\ UNCHANGED <<packets_out, packets_late, now, log>>

Push(p) == \/ PushFirst(p)
           \/ PushLate(p)
           \/ PushEarlier(p)
           \/ PushDuplicate(p)
           \/ PushAhead(p)

-----------------------------------------------------------------------------
(* pop_event(): one slot is decided at its deadline, and one only.         *)

Event == [kind      : {"packet", "recovered", "missing"},
          slot      : Int,
          timestamp : Timestamp,
          payload   : SUBSET Nat]   \* frames whose data the event carries

PlayoutEvent(kind, timestamp, payload) ==
    [kind |-> kind, slot |-> next_seq, timestamp |-> timestamp,
     payload |-> payload]

\* Slip: the prediction not advanced by a frame.
EmitSlotUnadvanced(kind, timestamp, payload) ==
    /\ playout_started' = TRUE
    /\ next_seq' = next_seq + 1
    /\ next_timestamp' = timestamp
    /\ log' = Append(log, PlayoutEvent(kind, timestamp, payload))
    /\ UNCHANGED <<started, schedule, packets_in, packets_late, now, arrivals>>

\* What every outcome of pop_event does: the slot is emitted and passed.
EmitSlot(kind, timestamp, payload) ==
    /\ playout_started' = TRUE
    /\ next_seq' = next_seq + 1
    /\ next_timestamp' = TsAdd(timestamp, FrameTicks)
    /\ log' = Append(log, PlayoutEvent(kind, timestamp, payload))
    /\ UNCHANGED <<started, schedule, packets_in, packets_late, now, arrivals>>

PopPacket ==
    /\ Due
    /\ next_seq \in Buffered
    /\ EmitSlot("packet", packets[next_seq].timestamp,
                {packets[next_seq].payload})
    /\ packets' = Restrict(packets, Buffered \ {next_seq})
    /\ packets_out' = packets_out + 1
    /\ UNCHANGED <<evicted_slots, packets_dropped>>

\* Slip: an evicted slot counted as dropped a second time.
PopEvictedRecounted ==
    /\ Due
    /\ next_seq \notin Buffered
    /\ next_seq \in Evicted
    /\ EmitSlot("missing", evicted_slots[next_seq], {})
    /\ evicted_slots' = Restrict(evicted_slots, Evicted \ {next_seq})
    /\ packets_dropped' = packets_dropped + 1
    /\ UNCHANGED <<packets, packets_out>>

\* The evicted slot was counted as dropped when its packet was evicted.
PopEvicted ==
    /\ Due
    /\ next_seq \notin Buffered
    /\ next_seq \in Evicted
    /\ EmitSlot("missing", evicted_slots[next_seq], {})
    /\ evicted_slots' = Restrict(evicted_slots, Evicted \ {next_seq})
    /\ UNCHANGED <<packets, packets_out, packets_dropped>>

\* A later pending slot proves that this one was lost.
LoseSlot(kind, payload) ==
    /\ Due
    /\ next_seq \notin Buffered \cup Evicted
    /\ EmitSlot(kind, next_timestamp, payload)
    /\ packets_dropped' = packets_dropped + 1
    /\ UNCHANGED <<packets, evicted_slots, packets_out>>

\* The immediately following packet carries in-band FEC; it stays buffered.
PopRecovered ==
    /\ next_seq + 1 \in Buffered
    /\ LoseSlot("recovered", {packets[next_seq + 1].payload})

PopMissing ==
    /\ next_seq + 1 \notin Buffered
    /\ LoseSlot("missing", {})

PopEvent == PopPacket \/ PopEvicted \/ PopRecovered \/ PopMissing

-----------------------------------------------------------------------------
\* clear(): a new stream under the same configuration (and no change before
\* the first packet).
Clear ==
    /\ started
    /\ packets' = Nothing
    /\ evicted_slots' = Nothing
    /\ next_seq' = 0 /\ next_timestamp' = 0
    /\ started' = FALSE /\ playout_started' = FALSE
    /\ anchor_timestamp' = 0 /\ anchor_deadline' = 0
    /\ current_target_latency' = StartupTarget
    /\ transit_anchor_arrival' = 0 /\ transit_anchor_timestamp' = 0
    /\ max_positive_transit' = 0
    /\ packets_in' = 0 /\ packets_out' = 0
    /\ packets_dropped' = 0 /\ packets_late' = 0
    /\ arrivals' = 0 /\ log' = <<>>
    /\ UNCHANGED now

\* Time runs freely up to MaxTime, and beyond it to a deadline still pending.
Tick ==
    /\ now < MaxTime \/ (started /\ HasPending /\ now < NextDeadline)
    /\ now' = now + 1
    /\ UNCHANGED <<packets, evicted_slots, cursor, schedule, counters,
                   arrivals, log>>

\* The network delays, duplicates, reorders and loses packets as it likes,
\* but delivers none that was not sent.
Arrive(p) ==
    /\ arrivals < MaxArrivals /\ now <= MaxTime
    /\ now >= p.sent_at
    /\ Push(p)

Next == \/ \E p \in Sent : Arrive(p)
        \/ PopEvent
        \/ Clear
        \/ Tick

Spec == Init /\ [][Next]_vars

\* The playout task polls the buffer whenever a deadline passes, and time
\* does not stop.
FairSpec == Spec /\ WF_vars(PopEvent) /\ WF_vars(Tick)

-----------------------------------------------------------------------------
(* Invariants.                                                             *)

\* Every field of the buffer has its type; jitter.rs:181-226.
TypeOK ==
    /\ packets \in [Buffered -> Sent]
    /\ evicted_slots \in [Evicted -> Timestamp]
    /\ Buffered \subseteq Int /\ IsFiniteSet(Buffered)
    /\ Evicted \subseteq Int /\ IsFiniteSet(Evicted)
    /\ next_seq \in Int
    /\ started \in BOOLEAN
    /\ playout_started \in BOOLEAN
    /\ next_timestamp \in Timestamp
    /\ anchor_timestamp \in Timestamp
    /\ anchor_deadline \in Nat
    /\ current_target_latency \in Nat
    /\ transit_anchor_arrival \in Nat
    /\ transit_anchor_timestamp \in Timestamp
    /\ max_positive_transit \in Nat
    /\ packets_in \in Nat /\ packets_out \in Nat
    /\ packets_dropped \in Nat /\ packets_late \in Nat
    /\ now \in Nat
    /\ arrivals \in Nat
    /\ log \in Seq(Event)

\* No slot is both buffered and evicted, none that was already passed is
\* still held, and only an anchored stream holds any: pop_event then always
\* finds a later slot when the expected one is absent, as its debug_assert
\* and unreachable! claim (jitter.rs:400-415).
PendingAhead ==
    /\ Buffered \cap Evicted = {}
    /\ \A slot \in Buffered \cup Evicted : slot >= next_seq
    /\ HasPending \/ playout_started => started

\* Until playout starts the packet that anchors the stream is held, whatever
\* is evicted or re-anchored meanwhile: the first event of a stream is never
\* a concealed frame.
PrimedHead == started /\ ~playout_started => next_seq \in Buffered

\* The packet store never exceeds its ceiling (jitter.rs:537-547).
WithinCapacity == Cardinality(Buffered) <= Capacity

\* Every packet pushed and every slot emitted is counted once and once only:
\* a packet is in or dropped as duplicate or late; a slot goes out or is
\* dropped, and an evicted slot is not counted again when it is emitted.
StreamAccounting ==
    packets_in + packets_out + packets_dropped + packets_late
        = arrivals + Len(log) + Cardinality(Evicted)

\* Each sequence slot from the first emitted one up to next_seq has exactly
\* one event, and the events are in slot order.
OneEventPerSlot ==
    \A i \in DOMAIN log : log[i].slot = next_seq - Len(log) + (i - 1)

\* A packet used to reconstruct its predecessor is neither evicted nor
\* replaced: it is the very next packet played (jitter.rs:423-434).
RecoveredThenPlayed ==
    \A i \in DOMAIN log : log[i].kind = "recovered" =>
        IF i < Len(log)
        THEN /\ log[i + 1].kind = "packet"
             /\ log[i + 1].payload = log[i].payload
        ELSE /\ next_seq \in Buffered
             /\ {packets[next_seq].payload} = log[i].payload

\* The startup delay is the first arrival plus the adapted target, never
\* above the ceiling, and before playout it covers the transit spread seen
\* (jitter.rs:568-604).
StartupDelay ==
    started =>
      /\ anchor_deadline = transit_anchor_arrival + current_target_latency
      /\ StartupTarget <= current_target_latency
      /\ current_target_latency <= MaxLatency
      /\ ~playout_started =>
           current_target_latency >= MinOf(max_positive_transit, MaxLatency)

\* Real packets reach the decoder in the order the sender numbered them, also
\* across the wrap of the 16-bit sequence number (jitter.rs:636-646).
InSenderOrder ==
    \A i, j \in DOMAIN log :
        i < j /\ log[i].kind = "packet" /\ log[j].kind = "packet" =>
            \A a \in log[i].payload, b \in log[j].payload : a < b

\* Signed distance of two timestamps, as read around the wrap.
TsDistance(later, earlier) ==
    LET d == TsSub(later, earlier)
    IN  IF 2 * d < TsSpace THEN d ELSE d - TsSpace

\* The timestamps of successive events are at least one frame apart: a
\* predicted timestamp never overtakes the packets behind it.
FramesDoNotOverlap ==
    \A i \in 1 .. Len(log) - 1 :
        TsDistance(log[i + 1].timestamp, log[i].timestamp) >= FrameTicks

-----------------------------------------------------------------------------
(* Action properties.                                                      *)

\* Once playout started the schedule is fixed until the stream is cleared:
\* deadlines never move (jitter.rs:571-572).
ScheduleFixed ==
    [][playout_started /\ playout_started' =>
          UNCHANGED <<anchor_timestamp, anchor_deadline,
                      current_target_latency>>]_vars

\* The instant a timestamp is scheduled at, before or after the anchor.
PlayoutInstant(ts) == anchor_deadline + TsDistance(ts, anchor_timestamp)

OfSlot(p, slot) == p.sequence_number = slot % SeqSpace

\* No slot is emitted before the deadline of the packet its sender put in it,
\* present or not (jitter.rs:355).
NeverEarly ==
    [][Len(log') > Len(log) =>
          \A p \in Sent : OfSlot(p, next_seq) => now >= PlayoutInstant(p.timestamp)
      ]_vars

\* A packet dropped as late did miss the instant its timestamp is scheduled at.
LateAfterDeadline ==
    [][\A p \in Sent : PushLate(p) => now >= PlayoutInstant(p.timestamp)]_vars

-----------------------------------------------------------------------------
\* What is buffered is eventually all emitted, evicted slots included, though
\* no further packet ever arrives (jitter.rs:469-489).
Drains == HasPending ~> ~HasPending

-----------------------------------------------------------------------------
\* The buffer seen as a playout schedule.
Schedule == INSTANCE PlayoutSchedule WITH
    phase   <- IF ~started THEN "idle"
               ELSE IF playout_started THEN "playing" ELSE "priming",
    cursor  <- next_seq,
    held    <- Buffered,
    owed    <- Evicted,
    emitted <- [i \in DOMAIN log |->
                  [slot |-> log[i].slot,
                   fate |-> IF log[i].kind = "packet" THEN "played"
                                                      ELSE "concealed"]]

\* The buffer keeps the promise of PlayoutSchedule: slots in order, each once,
\* concealed only when absent, the packet at the cursor never evicted, and
\* none waiting for ever (jitter.rs:285-442, 537-561).
ImplementsSchedule == Schedule!FairSpec

=============================================================================
