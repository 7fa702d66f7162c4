-------------------------- MODULE JitterBufferProofs --------------------------
(***************************************************************************)
(* Theorems about JitterBuffer, for every sequence space, timestamp space, *)
(* configuration and sender.                                               *)
(***************************************************************************)
EXTENDS JitterBuffer, FiniteSetTheorems, SequenceTheorems, TLAPS

-----------------------------------------------------------------------------
(* The arithmetic.                                                         *)

\* wrapping_sub and wrapping_add stay in the timestamp space.
LEMMA TsArithmetic ==
    ASSUME NEW a \in Int, NEW b \in Int
    PROVE  /\ TsSub(a, b) \in Timestamp /\ TsAdd(a, b) \in Timestamp
           /\ TsSub(a, b) \in Int /\ TsAdd(a, b) \in Int
  BY JitterAssumption DEF TsSub, TsAdd, Timestamp

\* extend_seq yields an extended number.
LEMMA ExtendType ==
    ASSUME NEW seq \in Int, NEW reference \in Int
    PROVE  Extend(seq, reference) \in Int
  BY JitterAssumption DEF Extend

\* The sanitized configuration.
LEMMA ConfigType ==
    /\ StartupTarget \in Nat /\ MaxLatency \in Nat
    /\ StartupTarget <= MaxLatency
    /\ Capacity \in Nat /\ Capacity >= 1
    /\ FrameTicks \in Nat
  BY JitterAssumption DEF StartupTarget, Capacity, MinOf, MaxOf

\* What the fields of a sent packet are.
LEMMA SentType ==
    ASSUME NEW p \in Sent
    PROVE  /\ p.sequence_number \in 0 .. SeqSpace - 1
           /\ p.timestamp \in Timestamp
           /\ p.payload \in Nat
           /\ p.sequence_number \in Int /\ p.timestamp \in Int
  BY JitterAssumption DEF Packet, Timestamp

-----------------------------------------------------------------------------
(* What the steps shared by the actions do.                                *)

\* update_transit_spread and adapt_startup_target keep their fields' types.
LEMMA AdaptType ==
    ASSUME TypeOK, NEW p \in Sent, NEW deadline \in Nat,
           transit_anchor_arrival' \in Nat,
           transit_anchor_timestamp' \in Timestamp,
           MeasureTransit(p), AdaptStartup(deadline)
    PROVE  /\ max_positive_transit' \in Nat
           /\ current_target_latency' \in Nat
           /\ anchor_deadline' \in Nat
  <1>1. max_positive_transit' \in Nat
    <2>1. p.timestamp \in Int /\ transit_anchor_timestamp' \in Int
      BY SentType, JitterAssumption DEF Timestamp
    <2>2. TsSub(p.timestamp, transit_anchor_timestamp') \in Int
      BY <2>1, TsArithmetic
    <2> QED  BY <2>2 DEF TypeOK, MeasureTransit, MaxOf
  <1>2. DesiredTarget(max_positive_transit') \in Nat
    BY <1>1, ConfigType DEF DesiredTarget, MinOf, MaxOf
  <1> QED  BY <1>1, <1>2 DEF TypeOK, AdaptStartup, MaxOf

\* Storing a packet keeps the two stores finite maps over extended numbers;
\* at most one slot of the grown buffer, its last one, becomes evicted.
LEMMA StoreEffect ==
    ASSUME TypeOK, NEW p \in Sent, NEW slot \in Int, Store(p, slot)
    PROVE  /\ packets' \in [Buffered' -> Sent]
           /\ evicted_slots' \in [Evicted' -> Timestamp]
           /\ Buffered' \subseteq Int /\ IsFiniteSet(Buffered')
           /\ Evicted' \subseteq Int /\ IsFiniteSet(Evicted')
           /\ packets_in' \in Nat /\ packets_dropped' \in Nat
           /\ \A k \in Buffered' : packets'[k] = IF k = slot THEN p ELSE packets[k]
           /\ \/ /\ Buffered' = Buffered \cup {slot} /\ Evicted' = Evicted
                 /\ Cardinality(Buffered') <= Capacity
                 /\ packets_dropped' = packets_dropped
              \/ \E last \in Buffered \cup {slot} :
                    /\ \A k \in Buffered \cup {slot} : k <= last
                    /\ Buffered' = (Buffered \cup {slot}) \ {last}
                    /\ Evicted' = Evicted \cup {last}
                    /\ Cardinality(Buffered \cup {slot}) > Capacity
                    /\ packets_dropped' = packets_dropped + 1
  <1> DEFINE held == [k \in Buffered \cup {slot} |->
                        IF k = slot THEN p ELSE packets[k]]
  <1>1. /\ held \in [Buffered \cup {slot} -> Sent]
        /\ DOMAIN held = Buffered \cup {slot}
    BY DEF TypeOK
  <1>2. IsFiniteSet(Buffered \cup {slot})
    BY FS_AddElement DEF TypeOK
  <1>3. StoreWithin(held) /\ packets_in' = packets_in + 1
    BY DEF Store
  <1> HIDE DEF held
  <1>4. CASE /\ Cardinality(DOMAIN held) <= Capacity
             /\ packets' = held
             /\ UNCHANGED <<evicted_slots, packets_dropped>>
    <2>1. Buffered' = Buffered \cup {slot} /\ Evicted' = Evicted
      BY <1>1, <1>4 DEF Buffered, Evicted
    <2>2. \A k \in Buffered' : packets'[k] = IF k = slot THEN p ELSE packets[k]
      BY <1>4, <2>1 DEF held
    <2>3. Buffered' \subseteq Int /\ Evicted' \subseteq Int
      BY <2>1 DEF TypeOK
    <2> QED  BY <1>1, <1>2, <1>3, <1>4, <2>1, <2>2, <2>3 DEF TypeOK
  <1>5. ASSUME NEW last \in DOMAIN held,
               Cardinality(DOMAIN held) > Capacity,
               \A k \in DOMAIN held : k <= last,
               packets' = Restrict(held, DOMAIN held \ {last}),
               evicted_slots' =
                 [k \in Evicted \cup {last} |->
                    IF k = last THEN held[last].timestamp ELSE evicted_slots[k]],
               packets_dropped' = packets_dropped + 1
        PROVE  /\ packets' \in [Buffered' -> Sent]
               /\ evicted_slots' \in [Evicted' -> Timestamp]
               /\ Buffered' \subseteq Int /\ IsFiniteSet(Buffered')
               /\ Evicted' \subseteq Int /\ IsFiniteSet(Evicted')
               /\ packets_dropped' \in Nat
               /\ \A k \in Buffered' : packets'[k] = IF k = slot THEN p ELSE packets[k]
               /\ Buffered' = (Buffered \cup {slot}) \ {last}
               /\ Evicted' = Evicted \cup {last}
    <2>1. packets' = [k \in (Buffered \cup {slot}) \ {last} |-> held[k]]
      BY <1>1, <1>5 DEF Restrict
    <2>2. /\ Buffered' = (Buffered \cup {slot}) \ {last}
          /\ Evicted' = Evicted \cup {last}
      BY <1>5, <2>1 DEF Buffered, Evicted
    <2>3. IsFiniteSet(Buffered') /\ IsFiniteSet(Evicted')
      BY <1>2, <2>2, FS_AddElement, FS_RemoveElement DEF TypeOK
    <2>4. held[last].timestamp \in Timestamp
      BY <1>1, SentType
    <2>5. packets' \in [Buffered' -> Sent]
      BY <1>1, <2>1, <2>2
    <2>6. evicted_slots' \in [Evicted' -> Timestamp]
      BY <1>5, <2>2, <2>4 DEF TypeOK
    <2>7. \A k \in Buffered' : packets'[k] = IF k = slot THEN p ELSE packets[k]
      BY <2>1, <2>2 DEF held
    <2>8. packets_dropped' \in Nat
      BY <1>5 DEF TypeOK
    <2>9. Buffered' \subseteq Int /\ Evicted' \subseteq Int
      BY <1>1, <2>2 DEF TypeOK
    <2> QED  BY <2>2, <2>3, <2>5, <2>6, <2>7, <2>8, <2>9
  <1>6. packets_in' \in Nat
    BY <1>3 DEF TypeOK
  <1>7. CASE /\ Cardinality(DOMAIN held) > Capacity
             /\ \E last \in DOMAIN held :
                  /\ \A k \in DOMAIN held : k <= last
                  /\ packets' = Restrict(held, DOMAIN held \ {last})
                  /\ evicted_slots' =
                       [k \in Evicted \cup {last} |->
                          IF k = last THEN held[last].timestamp
                                      ELSE evicted_slots[k]]
                  /\ packets_dropped' = packets_dropped + 1
    BY <1>1, <1>5, <1>6, <1>7
  <1> QED  BY <1>3, <1>4, <1>7 DEF StoreWithin

\* Emitting a slot keeps the types of what it changes.
LEMMA EmitType ==
    ASSUME TypeOK, NEW kind \in {"packet", "recovered", "missing"},
           NEW timestamp \in Timestamp, NEW payload \in SUBSET Nat,
           EmitSlot(kind, timestamp, payload)
    PROVE  /\ next_seq' \in Int /\ next_timestamp' \in Timestamp
           /\ started' \in BOOLEAN /\ playout_started' \in BOOLEAN
           /\ anchor_timestamp' \in Timestamp /\ anchor_deadline' \in Nat
           /\ current_target_latency' \in Nat /\ transit_anchor_arrival' \in Nat
           /\ transit_anchor_timestamp' \in Timestamp
           /\ max_positive_transit' \in Nat
           /\ packets_in' \in Nat /\ packets_late' \in Nat
           /\ now' \in Nat /\ arrivals' \in Nat
           /\ log' \in Seq(Event)
  <1>1. next_timestamp' \in Timestamp
    <2>1. timestamp \in Int /\ FrameTicks \in Int
      BY JitterAssumption DEF Timestamp
    <2> QED  BY <2>1, TsArithmetic DEF EmitSlot
  <1>2. PlayoutEvent(kind, timestamp, payload) \in Event
    BY DEF TypeOK, PlayoutEvent, Event
  <1>3. log' \in Seq(Event)
    BY <1>2 DEF TypeOK, EmitSlot
  <1>4. next_seq' \in Int /\ playout_started' \in BOOLEAN
    BY DEF TypeOK, EmitSlot
  <1> QED  BY <1>1, <1>3, <1>4 DEF TypeOK, EmitSlot, schedule

-----------------------------------------------------------------------------
(* Type correctness.                                                       *)

\* A new buffer is well typed.
\* The deadline of the next slot is an instant.
LEMMA DeadlineType == TypeOK => NextDeadline \in Nat
  <1> SUFFICES ASSUME TypeOK PROVE NextDeadline \in Nat
    OBVIOUS
  <1>1. \A k \in Buffered : packets[k].timestamp \in Timestamp
    BY SentType DEF TypeOK
  <1>2. NextSlotTimestamp \in Timestamp
    BY <1>1 DEF NextSlotTimestamp, TypeOK
  <1>3. NextSlotTimestamp \in Int /\ anchor_timestamp \in Int /\ anchor_deadline \in Nat
    BY <1>2, JitterAssumption DEF TypeOK, Timestamp, JitterAssumption
  <1>4. TsSub(NextSlotTimestamp, anchor_timestamp) \in Nat
    BY <1>3, TsArithmetic DEF Timestamp
  <1> QED  BY <1>3, <1>4 DEF NextDeadline, DeadlineFor

LEMMA InitType == Init => TypeOK
  <1> SUFFICES ASSUME Init PROVE TypeOK
    OBVIOUS
  <1>1. Buffered = {} /\ Evicted = {}
    BY DEF Init, Nothing, Buffered, Evicted
  <1>2. IsFiniteSet({})
    BY FS_EmptySet
  <1>3. packets \in [{} -> Sent] /\ evicted_slots \in [{} -> Timestamp]
    BY DEF Init, Nothing
  <1>4. 0 \in Timestamp
    BY JitterAssumption DEF Timestamp
  <1>5. log \in Seq(Event)
    BY DEF Init
  <1>6. started \in BOOLEAN /\ playout_started \in BOOLEAN
    BY DEF Init
  <1>7. /\ next_seq \in Int
        /\ next_timestamp \in Timestamp /\ anchor_timestamp \in Timestamp
        /\ transit_anchor_timestamp \in Timestamp
        /\ anchor_deadline \in Nat /\ current_target_latency \in Nat
        /\ transit_anchor_arrival \in Nat /\ max_positive_transit \in Nat
        /\ packets_in \in Nat /\ packets_out \in Nat
        /\ packets_dropped \in Nat /\ packets_late \in Nat
        /\ now \in Nat /\ arrivals \in Nat
    BY <1>4, ConfigType DEF Init
  <1> QED  BY <1>1, <1>2, <1>3, <1>5, <1>6, <1>7 DEF TypeOK

\* Every way through push() keeps the types.
LEMMA PushType ==
    ASSUME TypeOK, NEW p \in Sent, Push(p)
    PROVE  TypeOK'
  <1>1. /\ p.sequence_number \in Int /\ p.timestamp \in Timestamp
        /\ Extend(p.sequence_number, next_seq) \in Int
    BY SentType, ExtendType DEF TypeOK
  <1>2. CASE PushFirst(p)
    <2>1. /\ transit_anchor_arrival' \in Nat
          /\ transit_anchor_timestamp' \in Timestamp
          /\ now + current_target_latency \in Nat
      BY <1>1, <1>2 DEF PushFirst, TypeOK
    <2>2. /\ max_positive_transit' \in Nat /\ current_target_latency' \in Nat
          /\ anchor_deadline' \in Nat
      BY <1>2, <2>1, AdaptType DEF PushFirst
    <2>3. Store(p, p.sequence_number)
      BY <1>2 DEF PushFirst
    <2>4. /\ packets' \in [Buffered' -> Sent]
          /\ evicted_slots' \in [Evicted' -> Timestamp]
          /\ IsFiniteSet(Buffered') /\ IsFiniteSet(Evicted')
          /\ packets_in' \in Nat /\ packets_dropped' \in Nat
          /\ Buffered' \subseteq Int /\ Evicted' \subseteq Int
      BY <1>1, <2>3, StoreEffect
    <2> QED  BY <1>1, <1>2, <2>1, <2>2, <2>4 DEF PushFirst, TypeOK
  <1>3. CASE PushLate(p)
    BY <1>3 DEF PushLate, TypeOK, cursor, schedule, Buffered, Evicted
  <1>4. CASE PushEarlier(p)
    <2> DEFINE slot == Extend(p.sequence_number, next_seq)
    <2>1. /\ transit_anchor_arrival' \in Nat
          /\ transit_anchor_timestamp' \in Timestamp
      BY <1>1, <1>4 DEF PushEarlier, TypeOK
    <2>2. /\ max_positive_transit' \in Nat /\ current_target_latency' \in Nat
          /\ anchor_deadline' \in Nat
      BY <1>4, <2>1, AdaptType DEF PushEarlier, TypeOK
    <2>3. Store(p, slot)
      BY <1>4 DEF PushEarlier
    <2>4. /\ packets' \in [Buffered' -> Sent]
          /\ evicted_slots' \in [Evicted' -> Timestamp]
          /\ IsFiniteSet(Buffered') /\ IsFiniteSet(Evicted')
          /\ packets_in' \in Nat /\ packets_dropped' \in Nat
          /\ Buffered' \subseteq Int /\ Evicted' \subseteq Int
      BY <1>1, <2>3, StoreEffect
    <2> QED  BY <1>1, <1>4, <2>1, <2>2, <2>4 DEF PushEarlier, TypeOK
  <1>5. CASE PushDuplicate(p)
    BY <1>5 DEF PushDuplicate, TypeOK, cursor, schedule, Buffered, Evicted
  <1>6. CASE PushAhead(p)
    <2> DEFINE slot == Extend(p.sequence_number, next_seq)
    <2>1. /\ transit_anchor_arrival' \in Nat
          /\ transit_anchor_timestamp' \in Timestamp
      BY <1>6 DEF PushAhead, TypeOK
    <2>2. /\ max_positive_transit' \in Nat /\ current_target_latency' \in Nat
          /\ anchor_deadline' \in Nat
      BY <1>6, <2>1, AdaptType DEF PushAhead, TypeOK
    <2>3. Store(p, slot)
      BY <1>6 DEF PushAhead
    <2>4. /\ packets' \in [Buffered' -> Sent]
          /\ evicted_slots' \in [Evicted' -> Timestamp]
          /\ IsFiniteSet(Buffered') /\ IsFiniteSet(Evicted')
          /\ packets_in' \in Nat /\ packets_dropped' \in Nat
          /\ Buffered' \subseteq Int /\ Evicted' \subseteq Int
      BY <1>1, <2>3, StoreEffect
    <2> QED  BY <1>6, <2>1, <2>2, <2>4 DEF PushAhead, TypeOK, cursor
  <1> QED  BY <1>2, <1>3, <1>4, <1>5, <1>6 DEF Push

\* Every outcome of pop_event() keeps the types.
LEMMA PopType ==
    ASSUME TypeOK, PopEvent
    PROVE  TypeOK'
  <1>1. CASE PopPacket
    <2>1. packets[next_seq] \in Sent
      BY <1>1 DEF PopPacket, TypeOK
    <2>2. /\ packets[next_seq].timestamp \in Timestamp
          /\ {packets[next_seq].payload} \in SUBSET Nat
      BY <2>1, SentType
    <2>3. packets' = [k \in Buffered \ {next_seq} |-> packets[k]]
      BY <1>1 DEF PopPacket, Restrict
    <2>4. Buffered' = Buffered \ {next_seq}
      BY <2>3 DEF Buffered
    <2>5. packets' \in [Buffered' -> Sent]
      BY <2>3, <2>4 DEF TypeOK
    <2>6. IsFiniteSet(Buffered') /\ Buffered' \subseteq Int
      BY <2>4, FS_RemoveElement DEF TypeOK
    <2>7. evicted_slots' \in [Evicted' -> Timestamp]
          /\ Evicted' = Evicted /\ packets_dropped' \in Nat
          /\ packets_out' \in Nat
      BY <1>1 DEF PopPacket, TypeOK, Evicted
    <2>8. EmitSlot("packet", packets[next_seq].timestamp,
                   {packets[next_seq].payload})
      BY <1>1 DEF PopPacket
    <2> QED  BY <2>2, <2>5, <2>6, <2>7, <2>8, EmitType DEF TypeOK
  <1>2. CASE PopEvicted
    <2>1. evicted_slots' = [k \in Evicted \ {next_seq} |-> evicted_slots[k]]
      BY <1>2 DEF PopEvicted, Restrict
    <2>2. Evicted' = Evicted \ {next_seq}
      BY <2>1 DEF Evicted
    <2>3. evicted_slots' \in [Evicted' -> Timestamp]
      BY <2>1, <2>2 DEF TypeOK
    <2>4. IsFiniteSet(Evicted') /\ Evicted' \subseteq Int
      BY <2>2, FS_RemoveElement DEF TypeOK
    <2>5. packets' \in [Buffered' -> Sent]
          /\ Buffered' = Buffered /\ packets_dropped' \in Nat
          /\ packets_out' \in Nat
      BY <1>2 DEF PopEvicted, TypeOK, Buffered
    <2>6. EmitSlot("missing", evicted_slots[next_seq], {})
          /\ evicted_slots[next_seq] \in Timestamp /\ {} \in SUBSET Nat
      BY <1>2 DEF PopEvicted, TypeOK
    <2> QED  BY <2>3, <2>4, <2>5, <2>6, EmitType DEF TypeOK
  <1>3. ASSUME NEW kind \in {"recovered", "missing"},
               NEW payload \in SUBSET Nat, LoseSlot(kind, payload)
        PROVE  TypeOK'
    <2>1. EmitSlot(kind, next_timestamp, payload) /\ next_timestamp \in Timestamp
      BY <1>3 DEF LoseSlot, TypeOK
    <2>2. /\ packets' \in [Buffered' -> Sent] /\ Buffered' = Buffered
          /\ evicted_slots' \in [Evicted' -> Timestamp] /\ Evicted' = Evicted
          /\ packets_dropped' \in Nat /\ packets_out' \in Nat
      BY <1>3 DEF LoseSlot, TypeOK, Buffered, Evicted
    <2> QED  BY <2>1, <2>2, EmitType DEF TypeOK
  <1>4. CASE PopRecovered
    <2>1. packets[next_seq + 1] \in Sent
      BY <1>4 DEF PopRecovered, TypeOK
    <2> QED  BY <1>3, <1>4, <2>1, SentType DEF PopRecovered
  <1>5. CASE PopMissing
    BY <1>3, <1>5 DEF PopMissing
  <1> QED  BY <1>1, <1>2, <1>4, <1>5 DEF PopEvent

\* clear() leaves a buffer as typed as a new one.
LEMMA ClearType == TypeOK /\ Clear => TypeOK'
  <1> SUFFICES ASSUME TypeOK, Clear PROVE TypeOK'
    OBVIOUS
  <1>1. Buffered' = {} /\ Evicted' = {}
    BY DEF Clear, Nothing, Buffered, Evicted
  <1>2. IsFiniteSet({})
    BY FS_EmptySet
  <1>3. packets' \in [{} -> Sent] /\ evicted_slots' \in [{} -> Timestamp]
    BY DEF Clear, Nothing
  <1>4. 0 \in Timestamp
    BY JitterAssumption DEF Timestamp
  <1>5. log' \in Seq(Event)
    BY DEF Clear
  <1>6. started' \in BOOLEAN /\ playout_started' \in BOOLEAN
    BY DEF Clear
  <1>7. /\ next_seq' \in Int
        /\ next_timestamp' \in Timestamp /\ anchor_timestamp' \in Timestamp
        /\ transit_anchor_timestamp' \in Timestamp
        /\ anchor_deadline' \in Nat /\ current_target_latency' \in Nat
        /\ transit_anchor_arrival' \in Nat /\ max_positive_transit' \in Nat
        /\ packets_in' \in Nat /\ packets_out' \in Nat
        /\ packets_dropped' \in Nat /\ packets_late' \in Nat
        /\ now' \in Nat /\ arrivals' \in Nat
    BY <1>4, ConfigType DEF Clear, TypeOK
  <1> QED  BY <1>1, <1>2, <1>3, <1>5, <1>6, <1>7 DEF TypeOK

\* Nothing happens to the buffer but that time may pass.
Waiting == UNCHANGED <<packets, evicted_slots, cursor, schedule, counters,
                       arrivals, log>>

LEMMA WaitType == TypeOK /\ Waiting /\ now' \in Nat => TypeOK'
  BY DEF Waiting, TypeOK, cursor, schedule, counters, Buffered, Evicted

LEMMA NextType == TypeOK /\ [Next]_vars => TypeOK'
  <1> SUFFICES ASSUME TypeOK, [Next]_vars PROVE TypeOK'
    OBVIOUS
  <1>1. ASSUME NEW p \in Sent, Arrive(p) PROVE TypeOK'
    BY <1>1, PushType DEF Arrive
  <1>2. CASE PopEvent
    BY <1>2, PopType
  <1>3. CASE Clear
    BY <1>3, ClearType
  <1>4. CASE Tick \/ UNCHANGED vars
    <2>1. Waiting /\ now' \in Nat
      BY <1>4 DEF Tick, vars, Waiting, TypeOK
    <2> QED  BY <2>1, WaitType
  <1> QED  BY <1>1, <1>2, <1>3, <1>4 DEF Next

\* Every field of the buffer keeps its type, whatever is pushed and popped.
THEOREM TypeCorrect == Spec => []TypeOK
  <1> QED  BY InitType, NextType, PTL DEF Spec

-----------------------------------------------------------------------------
(* The slots that are held: the invariant the others rest on.              *)

\* Before its first packet a stream holds nothing, and before playout it has
\* emitted nothing.
Quiet ==
    /\ ~started => Buffered = {} /\ Evicted = {} /\ ~playout_started
    /\ ~playout_started => log = <<>>

SlotInv == Quiet /\ PendingAhead /\ PrimedHead

\* Storing into a free slot keeps the two stores apart and nothing is lost:
\* what was pending still is, and so is the new slot.
LEMMA StoreSlots ==
    ASSUME TypeOK, Buffered \cap Evicted = {},
           NEW p \in Sent, NEW slot \in Int, Store(p, slot),
           slot \notin Buffered \cup Evicted
    PROVE  /\ Buffered' \cap Evicted' = {}
           /\ Buffered' \cup Evicted' = Buffered \cup Evicted \cup {slot}
  <1>1. CASE Buffered' = Buffered \cup {slot} /\ Evicted' = Evicted
    BY <1>1
  <1>2. CASE \E last \in Buffered \cup {slot} :
                /\ Buffered' = (Buffered \cup {slot}) \ {last}
                /\ Evicted' = Evicted \cup {last}
    BY <1>2
  <1> QED  BY <1>1, <1>2, StoreEffect

\* The packet with the lowest number is never the one evicted: eviction takes
\* the last of at least two.
LEMMA HeadKept ==
    ASSUME TypeOK, NEW p \in Sent, NEW slot \in Int, Store(p, slot),
           NEW head \in Buffered \cup {slot},
           \A k \in Buffered \cup {slot} : k >= head
    PROVE  head \in Buffered'
  <1>1. CASE Buffered' = Buffered \cup {slot}
    BY <1>1
  <1>2. ASSUME NEW last \in Buffered \cup {slot},
               \A k \in Buffered \cup {slot} : k <= last,
               Buffered' = (Buffered \cup {slot}) \ {last},
               Cardinality(Buffered \cup {slot}) > Capacity
        PROVE  head \in Buffered'
    <2> SUFFICES ASSUME head = last PROVE FALSE
      BY <1>2
    <2>1. \A k \in Buffered \cup {slot} : k = head
      BY <1>2 DEF TypeOK
    <2>2. Buffered \cup {slot} = {head}
      BY <2>1
    <2>3. Cardinality({head}) = 1
      BY FS_Singleton
    <2> QED  BY <1>2, <2>2, <2>3, ConfigType
  <1> QED  BY <1>1, <1>2, StoreEffect

LEMMA PushSlots ==
    ASSUME TypeOK, SlotInv, NEW p \in Sent, Push(p)
    PROVE  SlotInv'
  <1>1. p.sequence_number \in Int /\ Extend(p.sequence_number, next_seq) \in Int
    BY SentType, ExtendType DEF TypeOK
  <1>2. CASE PushFirst(p)
    <2> DEFINE slot == p.sequence_number
    <2>1. Buffered = {} /\ Evicted = {} /\ ~playout_started /\ log = <<>>
      BY <1>2 DEF PushFirst, SlotInv, Quiet
    <2>2. /\ Store(p, slot) /\ next_seq' = slot /\ started'
          /\ playout_started' = playout_started /\ log' = log
      BY <1>2 DEF PushFirst
    <2>3. /\ Buffered' \cap Evicted' = {}
          /\ Buffered' \cup Evicted' = {slot}
      BY <1>1, <2>1, <2>2, StoreSlots
    <2>4. slot \in Buffered'
      BY <1>1, <2>1, <2>2, HeadKept
    <2> QED  BY <1>1, <2>1, <2>2, <2>3, <2>4
             DEF SlotInv, Quiet, PendingAhead, PrimedHead
  <1>3. CASE PushLate(p) \/ PushDuplicate(p)
    <2>1. UNCHANGED <<Buffered, Evicted, packets, evicted_slots, cursor, log>>
      BY <1>3 DEF PushLate, PushDuplicate, Buffered, Evicted
    <2> QED  BY <2>1 DEF SlotInv, Quiet, PendingAhead, PrimedHead, HasPending, cursor
  <1>4. CASE PushEarlier(p)
    <2> DEFINE slot == Extend(p.sequence_number, next_seq)
    <2>1. /\ Store(p, slot) /\ next_seq' = slot /\ slot < next_seq
          /\ started /\ started' = started
          /\ ~playout_started /\ playout_started' = playout_started /\ log' = log
      BY <1>4 DEF PushEarlier
    <2>2. \A k \in Buffered \cup Evicted : k > slot
      BY <1>1, <2>1 DEF SlotInv, PendingAhead, TypeOK
    <2>3. slot \notin Buffered \cup Evicted
      BY <1>1, <2>2
    <2>4. /\ Buffered' \cap Evicted' = {}
          /\ Buffered' \cup Evicted' = Buffered \cup Evicted \cup {slot}
      BY <1>1, <2>1, <2>3, StoreSlots DEF SlotInv, PendingAhead
    <2>5. slot \in Buffered'
      <3>1. \A k \in Buffered \cup {slot} : k >= slot
        BY <1>1, <2>2 DEF TypeOK
      <3> QED  BY <1>1, <2>1, <3>1, HeadKept
    <2>6. \A k \in Buffered' \cup Evicted' : k >= next_seq'
      <3>1. slot >= slot
        BY <1>1
      <3>2. \A k \in Buffered \cup Evicted : k >= slot
        BY <1>1, <2>2 DEF TypeOK
      <3> QED  BY <2>1, <2>4, <3>1, <3>2
    <2> QED  BY <2>1, <2>4, <2>5, <2>6
             DEF SlotInv, Quiet, PendingAhead, PrimedHead
  <1>5. CASE PushAhead(p)
    <2> DEFINE slot == Extend(p.sequence_number, next_seq)
    <2>1. /\ Store(p, slot) /\ slot >= next_seq /\ slot \notin Buffered \cup Evicted
          /\ started /\ UNCHANGED cursor /\ log' = log
      BY <1>5 DEF PushAhead
    <2>2. /\ Buffered' \cap Evicted' = {}
          /\ Buffered' \cup Evicted' = Buffered \cup Evicted \cup {slot}
      BY <1>1, <2>1, StoreSlots DEF SlotInv, PendingAhead
    <2>3. \A k \in Buffered' \cup Evicted' : k >= next_seq'
      BY <2>1, <2>2 DEF SlotInv, PendingAhead, cursor
    <2>4. ~playout_started => next_seq' \in Buffered'
      <3> SUFFICES ASSUME ~playout_started PROVE next_seq \in Buffered'
        BY <2>1 DEF cursor
      <3>1. next_seq \in Buffered
        BY <2>1 DEF SlotInv, PrimedHead
      <3>2. \A k \in Buffered \cup {slot} : k >= next_seq
        BY <2>1 DEF SlotInv, PendingAhead
      <3> QED  BY <1>1, <2>1, <3>1, <3>2, HeadKept
    <2> QED  BY <2>1, <2>2, <2>3, <2>4
             DEF SlotInv, Quiet, PendingAhead, PrimedHead, cursor
  <1> QED  BY <1>2, <1>3, <1>4, <1>5 DEF Push

\* What pop_event does to the slots: the one at the cursor leaves, whatever
\* became of it.
LEMMA PopEffect ==
    ASSUME TypeOK, SlotInv, PopEvent
    PROVE  /\ started /\ started' /\ playout_started'
           /\ next_seq' = next_seq + 1
           /\ Buffered' = Buffered \ {next_seq}
           /\ Evicted' = Evicted \ {next_seq}
           /\ \A k \in Buffered' : packets'[k] = packets[k]
           /\ \E event \in Event : event.slot = next_seq /\ log' = Append(log, event)
  <1>1. ASSUME NEW kind \in {"packet", "recovered", "missing"},
               NEW timestamp \in Timestamp, NEW payload \in SUBSET Nat,
               EmitSlot(kind, timestamp, payload), Due
        PROVE  /\ started /\ started' /\ playout_started'
               /\ next_seq' = next_seq + 1
               /\ \E event \in Event :
                     event.slot = next_seq /\ log' = Append(log, event)
    <2>1. /\ PlayoutEvent(kind, timestamp, payload) \in Event
          /\ PlayoutEvent(kind, timestamp, payload).slot = next_seq
      BY DEF PlayoutEvent, Event, TypeOK
    <2> QED  BY <1>1, <2>1 DEF EmitSlot, Due
  <1>2. CASE PopPacket
    <2>1. packets' = [k \in Buffered \ {next_seq} |-> packets[k]]
      BY <1>2 DEF PopPacket, Restrict
    <2>2. /\ Buffered' = Buffered \ {next_seq} /\ Evicted' = Evicted
          /\ \A k \in Buffered' : packets'[k] = packets[k]
      BY <1>2, <2>1 DEF PopPacket, Buffered, Evicted
    <2>3. next_seq \notin Evicted
      BY <1>2 DEF PopPacket, SlotInv, PendingAhead
    <2>4. /\ EmitSlot("packet", packets[next_seq].timestamp,
                      {packets[next_seq].payload}) /\ Due
          /\ packets[next_seq] \in Sent
      BY <1>2 DEF PopPacket, TypeOK
    <2>5. /\ packets[next_seq].timestamp \in Timestamp
          /\ {packets[next_seq].payload} \in SUBSET Nat
      BY <2>4, SentType
    <2> QED  BY <1>1, <2>2, <2>3, <2>4, <2>5
  <1>3. CASE PopEvicted
    <2>1. evicted_slots' = [k \in Evicted \ {next_seq} |-> evicted_slots[k]]
      BY <1>3 DEF PopEvicted, Restrict
    <2>2. /\ Buffered' = Buffered \ {next_seq} /\ Evicted' = Evicted \ {next_seq}
          /\ packets' = packets
      BY <1>3, <2>1 DEF PopEvicted, Buffered, Evicted
    <2>3. /\ EmitSlot("missing", evicted_slots[next_seq], {}) /\ Due
          /\ evicted_slots[next_seq] \in Timestamp /\ {} \in SUBSET Nat
      BY <1>3 DEF PopEvicted, TypeOK
    <2> QED  BY <1>1, <2>2, <2>3
  <1>4. ASSUME NEW kind \in {"recovered", "missing"},
               NEW payload \in SUBSET Nat, LoseSlot(kind, payload)
        PROVE  /\ EmitSlot(kind, next_timestamp, payload) /\ Due
               /\ next_timestamp \in Timestamp
               /\ Buffered' = Buffered \ {next_seq} /\ Evicted' = Evicted \ {next_seq}
               /\ packets' = packets
    BY <1>4 DEF LoseSlot, Buffered, Evicted, TypeOK
  <1>5. CASE PopRecovered
    <2>1. packets[next_seq + 1] \in Sent
      BY <1>5 DEF PopRecovered, TypeOK
    <2>2. {packets[next_seq + 1].payload} \in SUBSET Nat
      BY <2>1, SentType
    <2>3. LoseSlot("recovered", {packets[next_seq + 1].payload})
      BY <1>5 DEF PopRecovered
    <2> QED  BY <1>1, <1>4, <2>2, <2>3
  <1>6. CASE PopMissing
    <2>1. LoseSlot("missing", {})
      BY <1>6 DEF PopMissing
    <2> QED  BY <1>1, <1>4, <2>1
  <1> QED  BY <1>2, <1>3, <1>5, <1>6 DEF PopEvent

LEMMA PopSlots == TypeOK /\ SlotInv /\ PopEvent => SlotInv'
  <1> SUFFICES ASSUME TypeOK, SlotInv, PopEvent PROVE SlotInv'
    OBVIOUS
  <1>1. \A k \in Buffered' \cup Evicted' : k >= next_seq'
    <2> SUFFICES ASSUME NEW k \in Buffered' \cup Evicted'
                 PROVE  k >= next_seq'
      OBVIOUS
    <2>1. k \in Buffered \cup Evicted /\ k # next_seq /\ next_seq' = next_seq + 1
      BY PopEffect
    <2>2. k \in Int /\ next_seq \in Int /\ k >= next_seq
      BY <2>1 DEF SlotInv, PendingAhead, TypeOK
    <2> QED  BY <2>1, <2>2
  <1> QED  BY <1>1, PopEffect DEF SlotInv, Quiet, PendingAhead, PrimedHead

LEMMA ClearSlots == Clear => SlotInv'
  <1> SUFFICES ASSUME Clear PROVE SlotInv'
    OBVIOUS
  <1>1. Buffered' = {} /\ Evicted' = {}
    BY DEF Clear, Nothing, Buffered, Evicted
  <1>2. ~started' /\ ~playout_started' /\ log' = <<>>
    BY DEF Clear
  <1> QED  BY <1>1, <1>2 DEF SlotInv, Quiet, PendingAhead, PrimedHead, HasPending

LEMMA WaitSlots == SlotInv /\ Waiting => SlotInv'
  BY DEF Waiting, SlotInv, Quiet, PendingAhead, PrimedHead, HasPending, cursor,
         Buffered, Evicted

LEMMA SlotStep == TypeOK /\ SlotInv /\ [Next]_vars => SlotInv'
  <1> SUFFICES ASSUME TypeOK, SlotInv, [Next]_vars PROVE SlotInv'
    OBVIOUS
  <1>1. ASSUME NEW p \in Sent, Arrive(p) PROVE SlotInv'
    BY <1>1, PushSlots DEF Arrive
  <1>2. CASE Tick \/ UNCHANGED vars
    BY <1>2, WaitSlots DEF Tick, vars, Waiting
  <1> QED  BY <1>1, <1>2, PopSlots, ClearSlots DEF Next

LEMMA SlotInit == Init => SlotInv
  <1> SUFFICES ASSUME Init PROVE SlotInv
    OBVIOUS
  <1>1. Buffered = {} /\ Evicted = {}
    BY DEF Init, Nothing, Buffered, Evicted
  <1>2. ~started /\ ~playout_started /\ log = <<>>
    BY DEF Init
  <1> QED  BY <1>1, <1>2 DEF SlotInv, Quiet, PendingAhead, PrimedHead, HasPending

LEMMA SlotsAlways == Spec => [](TypeOK /\ SlotInv)
  BY InitType, NextType, SlotInit, SlotStep, PTL DEF Spec

\* pop_event never meets a pending slot it has already passed, nor one both
\* buffered and evicted: its debug_assert and unreachable! hold.
THEOREM PendingAheadAlways == Spec => []PendingAhead
  <1>1. SlotInv => PendingAhead
    BY DEF SlotInv
  <1> QED  BY <1>1, SlotsAlways, PTL

\* Whatever is evicted or re-anchored before playout, the packet at the head
\* of the stream is held, so that a stream begins with a real frame.
THEOREM PrimedHeadAlways == Spec => []PrimedHead
  <1>1. SlotInv => PrimedHead
    BY DEF SlotInv
  <1> QED  BY <1>1, SlotsAlways, PTL

-----------------------------------------------------------------------------
(* The events.                                                             *)

EventInv == OneEventPerSlot /\ RecoveredThenPlayed

\* A push leaves the events alone, and the cursor too once there is one.
LEMMA PushLog ==
    ASSUME TypeOK, SlotInv, NEW p \in Sent, Push(p)
    PROVE  log' = log /\ (log # <<>> => next_seq' = next_seq)
  BY DEF Push, PushFirst, PushLate, PushEarlier, PushDuplicate, PushAhead,
         SlotInv, Quiet, cursor

\* Once a slot has been emitted the next slot's packet is not evicted and not
\* replaced by a push.
LEMMA PushKeepsHead ==
    ASSUME TypeOK, SlotInv, NEW p \in Sent, Push(p),
           playout_started, next_seq \in Buffered
    PROVE  next_seq' \in Buffered' /\ packets'[next_seq'] = packets[next_seq]
  <1>1. CASE PushFirst(p) \/ PushEarlier(p)
    BY <1>1 DEF PushFirst, PushEarlier, SlotInv, Quiet
  <1>2. CASE PushLate(p) \/ PushDuplicate(p)
    BY <1>2 DEF PushLate, PushDuplicate, Buffered, cursor
  <1>3. CASE PushAhead(p)
    <2> DEFINE slot == Extend(p.sequence_number, next_seq)
    <2>1. slot \in Int
      BY SentType, ExtendType DEF TypeOK
    <2>2. /\ Store(p, slot) /\ slot >= next_seq /\ slot \notin Buffered
          /\ next_seq' = next_seq
      BY <1>3 DEF PushAhead, cursor
    <2>3. \A k \in Buffered \cup {slot} : k >= next_seq
      BY <2>2 DEF SlotInv, PendingAhead
    <2>4. next_seq \in Buffered'
      BY <2>1, <2>2, <2>3, HeadKept
    <2>5. packets'[next_seq] = packets[next_seq]
      BY <2>1, <2>2, <2>4, StoreEffect
    <2> QED  BY <2>2, <2>4, <2>5
  <1> QED  BY <1>1, <1>2, <1>3 DEF Push

LEMMA PushEvents ==
    ASSUME TypeOK, SlotInv, EventInv, NEW p \in Sent, Push(p)
    PROVE  EventInv'
  <1>1. OneEventPerSlot'
    <2>1. CASE log = <<>>
      BY <2>1, PushLog DEF OneEventPerSlot
    <2>2. CASE log # <<>>
      BY <2>2, PushLog DEF EventInv, OneEventPerSlot
    <2> QED  BY <2>1, <2>2
  <1>2. RecoveredThenPlayed'
    <2> SUFFICES ASSUME NEW i \in DOMAIN log, log[i].kind = "recovered"
                 PROVE  IF i < Len(log)
                        THEN /\ log[i + 1].kind = "packet"
                             /\ log[i + 1].payload = log[i].payload
                        ELSE /\ next_seq' \in Buffered'
                             /\ {packets'[next_seq'].payload} = log[i].payload
      BY PushLog DEF RecoveredThenPlayed
    <2>1. CASE i < Len(log)
      BY <2>1 DEF EventInv, RecoveredThenPlayed
    <2>2. CASE ~(i < Len(log))
      <3>1. playout_started
        BY DEF SlotInv, Quiet
      <3>2. next_seq \in Buffered /\ {packets[next_seq].payload} = log[i].payload
        BY <2>2 DEF EventInv, RecoveredThenPlayed
      <3> QED  BY <2>2, <3>1, <3>2, PushKeepsHead
    <2> QED  BY <2>1, <2>2
  <1> QED  BY <1>1, <1>2 DEF EventInv

LEMMA PopEvents ==
    ASSUME TypeOK, SlotInv, EventInv, PopEvent
    PROVE  EventInv'
  <1>1. PICK event \in Event : event.slot = next_seq /\ log' = Append(log, event)
    BY PopEffect
  <1>2. /\ log \in Seq(Event) /\ Len(log) \in Nat
        /\ Len(log') = Len(log) + 1
        /\ DOMAIN log' = 1 .. Len(log) + 1
        /\ \A i \in 1 .. Len(log) : log'[i] = log[i]
        /\ log'[Len(log) + 1] = event
    BY <1>1 DEF TypeOK
  <1>3. next_seq \in Int /\ next_seq' = next_seq + 1
    BY PopEffect DEF TypeOK
  <1>4. OneEventPerSlot'
    <2> SUFFICES ASSUME NEW i \in DOMAIN log'
                 PROVE  log'[i].slot = next_seq' - Len(log') + (i - 1)
      BY DEF OneEventPerSlot
    <2>1. CASE i \in 1 .. Len(log)
      <3>1. log[i].slot = next_seq - Len(log) + (i - 1)
        BY <1>2, <2>1 DEF EventInv, OneEventPerSlot
      <3> QED  BY <1>2, <1>3, <2>1, <3>1
    <2>2. CASE i = Len(log) + 1
      BY <1>1, <1>2, <1>3, <2>2
    <2> QED  BY <1>2, <2>1, <2>2
  <1>5. RecoveredThenPlayed'
    <2> SUFFICES ASSUME NEW i \in DOMAIN log', log'[i].kind = "recovered"
                 PROVE  IF i < Len(log')
                        THEN /\ log'[i + 1].kind = "packet"
                             /\ log'[i + 1].payload = log'[i].payload
                        ELSE /\ next_seq' \in Buffered'
                             /\ {packets'[next_seq'].payload} = log'[i].payload
      BY DEF RecoveredThenPlayed
    <2>1. CASE i < Len(log)
      BY <1>2, <2>1 DEF EventInv, RecoveredThenPlayed
    <2>2. CASE i = Len(log)
      <3>1. next_seq \in Buffered /\ {packets[next_seq].payload} = log[i].payload
        BY <1>2, <2>2 DEF EventInv, RecoveredThenPlayed
      <3>2. PopPacket
        BY <3>1 DEF PopEvent, PopPacket, PopEvicted, PopRecovered, PopMissing, LoseSlot
      <3>3. log' = Append(log, PlayoutEvent("packet", packets[next_seq].timestamp,
                                            {packets[next_seq].payload}))
        BY <3>2 DEF PopPacket, EmitSlot
      <3>4. log'[i + 1] = PlayoutEvent("packet", packets[next_seq].timestamp,
                                       {packets[next_seq].payload})
        BY <1>2, <2>2, <3>3
      <3>5. log'[i + 1].kind = "packet" /\ log'[i + 1].payload = log[i].payload
        BY <3>1, <3>4 DEF PlayoutEvent
      <3> QED  BY <1>2, <2>2, <3>5
    <2>3. CASE i = Len(log) + 1
      <3>1. event.kind = "recovered"
        BY <1>2, <2>3
      <3>2. PopRecovered
        <4>1. ASSUME NEW timestamp, NEW payload,
                     log' = Append(log, PlayoutEvent("packet", timestamp, payload))
                       \/ log' = Append(log, PlayoutEvent("missing", timestamp, payload))
              PROVE  FALSE
          <5>1. \/ log'[Len(log) + 1] = PlayoutEvent("packet", timestamp, payload)
                \/ log'[Len(log) + 1] = PlayoutEvent("missing", timestamp, payload)
            BY <1>2, <4>1
          <5> QED  BY <1>2, <3>1, <5>1 DEF PlayoutEvent
        <4> QED  BY <4>1 DEF PopEvent, PopPacket, PopEvicted, PopMissing,
                             LoseSlot, EmitSlot
      <3>3. /\ next_seq + 1 \in Buffered
            /\ log' = Append(log, PlayoutEvent("recovered", next_timestamp,
                                               {packets[next_seq + 1].payload}))
        BY <3>2 DEF PopRecovered, LoseSlot, EmitSlot
      <3>4. log'[i] = PlayoutEvent("recovered", next_timestamp,
                                   {packets[next_seq + 1].payload})
        BY <1>2, <2>3, <3>3
      <3>5. log'[i].payload = {packets[next_seq + 1].payload}
        BY <3>4 DEF PlayoutEvent
      <3>6. next_seq' \in Buffered' /\ packets'[next_seq'] = packets[next_seq + 1]
        BY <1>3, <3>3, PopEffect
      <3> QED  BY <1>2, <2>3, <3>5, <3>6
    <2> QED  BY <1>2, <2>1, <2>2, <2>3
  <1> QED  BY <1>4, <1>5 DEF EventInv

LEMMA WaitEvents == EventInv /\ Waiting => EventInv'
  BY DEF Waiting, EventInv, OneEventPerSlot, RecoveredThenPlayed, cursor, Buffered

LEMMA EventStep == TypeOK /\ SlotInv /\ EventInv /\ [Next]_vars => EventInv'
  <1> SUFFICES ASSUME TypeOK, SlotInv, EventInv, [Next]_vars PROVE EventInv'
    OBVIOUS
  <1>1. ASSUME NEW p \in Sent, Arrive(p) PROVE EventInv'
    BY <1>1, PushEvents DEF Arrive
  <1>2. CASE Tick \/ UNCHANGED vars
    BY <1>2, WaitEvents DEF Tick, vars, Waiting
  <1>3. CASE Clear
    <2>1. log' = <<>>
      BY <1>3 DEF Clear
    <2> QED  BY <2>1 DEF EventInv, OneEventPerSlot, RecoveredThenPlayed
  <1> QED  BY <1>1, <1>2, <1>3, PopEvents DEF Next

LEMMA EventsAlways == Spec => [](TypeOK /\ SlotInv /\ EventInv)
  <1>1. Init => EventInv
    BY DEF Init, EventInv, OneEventPerSlot, RecoveredThenPlayed
  <1> QED  BY <1>1, InitType, NextType, SlotInit, SlotStep, EventStep, PTL DEF Spec

\* From the first slot emitted on, every sequence slot has exactly one event,
\* in slot order: nothing is skipped, repeated or rewound.
THEOREM OneEventPerSlotAlways == Spec => []OneEventPerSlot
  <1>1. EventInv => OneEventPerSlot
    BY DEF EventInv
  <1> QED  BY <1>1, EventsAlways, PTL

\* A packet whose FEC reconstructed its predecessor is itself the next frame
\* played: no push in between evicts or replaces it.
THEOREM RecoveredThenPlayedAlways == Spec => []RecoveredThenPlayed
  <1>1. EventInv => RecoveredThenPlayed
    BY DEF EventInv
  <1> QED  BY <1>1, EventsAlways, PTL

-----------------------------------------------------------------------------
(* The startup delay and the schedule.                                     *)

StartupInv ==
    /\ StartupDelay
    /\ ~started => current_target_latency = StartupTarget /\ max_positive_transit = 0

\* Adapting moves the deadline and the target together, within the ceiling,
\* and far enough for the spread just measured.
LEMMA AdaptStep ==
    ASSUME TypeOK, NEW p \in Sent, NEW deadline \in Nat,
           transit_anchor_arrival' \in Nat,
           transit_anchor_timestamp' \in Timestamp,
           MeasureTransit(p), AdaptStartup(deadline),
           StartupTarget <= current_target_latency,
           current_target_latency <= MaxLatency,
           deadline = transit_anchor_arrival' + current_target_latency
    PROVE  /\ anchor_deadline' = transit_anchor_arrival' + current_target_latency'
           /\ StartupTarget <= current_target_latency'
           /\ current_target_latency' <= MaxLatency
           /\ ~playout_started =>
                current_target_latency' >= MinOf(max_positive_transit', MaxLatency)
  <1>1. /\ max_positive_transit' \in Nat /\ current_target_latency' \in Nat
        /\ anchor_deadline' \in Nat /\ current_target_latency \in Nat
    BY AdaptType DEF TypeOK
  <1>2. CASE playout_started
    BY <1>1, <1>2 DEF AdaptStartup
  <1>3. CASE ~playout_started
    BY <1>1, <1>3, ConfigType DEF AdaptStartup, DesiredTarget, MinOf, MaxOf
  <1> QED  BY <1>2, <1>3

LEMMA PushStartup ==
    ASSUME TypeOK, SlotInv, StartupInv, NEW p \in Sent, Push(p)
    PROVE  StartupInv'
  <1>1. p.timestamp \in Timestamp
    BY SentType
  <1>2. CASE PushFirst(p)
    <2>1. /\ transit_anchor_arrival' \in Nat
          /\ transit_anchor_timestamp' \in Timestamp
          /\ now + current_target_latency \in Nat
          /\ now + current_target_latency = transit_anchor_arrival' + current_target_latency
          /\ current_target_latency = StartupTarget
      BY <1>1, <1>2 DEF PushFirst, TypeOK, StartupInv
    <2>2. /\ MeasureTransit(p) /\ AdaptStartup(now + current_target_latency)
          /\ started' /\ playout_started' = playout_started
      BY <1>2 DEF PushFirst
    <2>3. StartupTarget <= current_target_latency /\ current_target_latency <= MaxLatency
      BY <2>1, ConfigType
    <2> QED  BY <2>1, <2>2, <2>3, AdaptStep DEF StartupInv, StartupDelay
  <1>3. CASE PushLate(p) \/ PushDuplicate(p)
    <2>1. UNCHANGED <<cursor, schedule>>
      BY <1>3 DEF PushLate, PushDuplicate
    <2> QED  BY <2>1 DEF StartupInv, StartupDelay, cursor, schedule
  <1>4. CASE PushEarlier(p) \/ PushAhead(p)
    <2>1. /\ started /\ started' = started /\ playout_started' = playout_started
          /\ transit_anchor_arrival' = transit_anchor_arrival
          /\ transit_anchor_timestamp' = transit_anchor_timestamp
          /\ MeasureTransit(p) /\ AdaptStartup(anchor_deadline)
      BY <1>4 DEF PushEarlier, PushAhead, cursor
    <2>2. /\ anchor_deadline \in Nat /\ transit_anchor_arrival' \in Nat
          /\ transit_anchor_timestamp' \in Timestamp
      BY <2>1 DEF TypeOK
    <2>3. /\ anchor_deadline = transit_anchor_arrival' + current_target_latency
          /\ StartupTarget <= current_target_latency
          /\ current_target_latency <= MaxLatency
      BY <2>1 DEF StartupInv, StartupDelay
    <2> QED  BY <2>1, <2>2, <2>3, AdaptStep DEF StartupInv, StartupDelay
  <1> QED  BY <1>2, <1>3, <1>4 DEF Push

LEMMA StartupStep == TypeOK /\ SlotInv /\ StartupInv /\ [Next]_vars => StartupInv'
  <1> SUFFICES ASSUME TypeOK, SlotInv, StartupInv, [Next]_vars PROVE StartupInv'
    OBVIOUS
  <1>1. ASSUME NEW p \in Sent, Arrive(p) PROVE StartupInv'
    BY <1>1, PushStartup DEF Arrive
  <1>2. CASE PopEvent
    <2>1. UNCHANGED schedule /\ started /\ started' /\ playout_started'
      <3>1. UNCHANGED schedule
        BY <1>2 DEF PopEvent, PopPacket, PopEvicted, PopRecovered, PopMissing,
                    LoseSlot, EmitSlot
      <3> QED  BY <1>2, <3>1, PopEffect
    <2> QED  BY <2>1 DEF StartupInv, StartupDelay, schedule
  <1>3. CASE Clear
    <2>1. /\ ~started' /\ current_target_latency' = StartupTarget
          /\ max_positive_transit' = 0
      BY <1>3 DEF Clear
    <2> QED  BY <2>1 DEF StartupInv, StartupDelay
  <1>4. CASE Tick \/ UNCHANGED vars
    <2>1. UNCHANGED <<cursor, schedule>>
      BY <1>4 DEF Tick, vars
    <2> QED  BY <2>1 DEF StartupInv, StartupDelay, cursor, schedule
  <1> QED  BY <1>1, <1>2, <1>3, <1>4 DEF Next

LEMMA StartupAlways == Spec => [](TypeOK /\ SlotInv /\ StartupInv)
  <1>1. Init => StartupInv
    BY DEF Init, StartupInv, StartupDelay
  <1> QED  BY <1>1, InitType, NextType, SlotInit, SlotStep, StartupStep, PTL DEF Spec

\* The startup delay is the first arrival plus the adapted target, never above
\* max_latency_ms, and covers the transit spread seen before playout.
THEOREM StartupDelayAlways == Spec => []StartupDelay
  <1>1. StartupInv => StartupDelay
    BY DEF StartupInv
  <1> QED  BY <1>1, StartupAlways, PTL

\* Once playout started, no step but a reset of the stream moves a deadline.
THEOREM ScheduleNeverMoves == Spec => ScheduleFixed
  <1> DEFINE Fixed == playout_started /\ playout_started' =>
                        UNCHANGED <<anchor_timestamp, anchor_deadline,
                                    current_target_latency>>
  <1>1. TypeOK /\ SlotInv /\ [Next]_vars => Fixed
    <2> SUFFICES ASSUME TypeOK, SlotInv, [Next]_vars,
                        playout_started, playout_started'
                 PROVE  UNCHANGED <<anchor_timestamp, anchor_deadline,
                                    current_target_latency>>
      OBVIOUS
    <2>1. ASSUME NEW p \in Sent, Arrive(p)
          PROVE  UNCHANGED <<anchor_timestamp, anchor_deadline, current_target_latency>>
      <3>1. CASE PushFirst(p) \/ PushEarlier(p)
        BY <3>1 DEF PushFirst, PushEarlier, SlotInv, Quiet
      <3>2. CASE PushLate(p) \/ PushDuplicate(p)
        BY <3>2 DEF PushLate, PushDuplicate, schedule
      <3>3. CASE PushAhead(p)
        BY <3>3 DEF PushAhead, AdaptStartup
      <3> QED  BY <2>1, <3>1, <3>2, <3>3 DEF Arrive, Push
    <2>2. CASE PopEvent
      BY <2>2 DEF PopEvent, PopPacket, PopEvicted, PopRecovered, PopMissing,
                  LoseSlot, EmitSlot, schedule
    <2>3. CASE Clear
      BY <2>3 DEF Clear
    <2>4. CASE Tick \/ UNCHANGED vars
      BY <2>4 DEF Tick, vars, schedule
    <2> QED  BY <2>1, <2>2, <2>3, <2>4 DEF Next
  <1> QED  BY <1>1, SlotsAlways, PTL DEF Spec, ScheduleFixed

-----------------------------------------------------------------------------
(* The counters.                                                           *)

CountInv == WithinCapacity /\ StreamAccounting

\* Storing a packet counts it once, and once more exactly when a slot becomes
\* evicted; the buffer stays within its ceiling.
LEMMA StoreCounts ==
    ASSUME TypeOK, Buffered \cap Evicted = {}, WithinCapacity,
           NEW p \in Sent, NEW slot \in Int, Store(p, slot),
           slot \notin Buffered \cup Evicted
    PROVE  /\ Cardinality(Buffered') <= Capacity
           /\ packets_dropped' - Cardinality(Evicted')
                = packets_dropped - Cardinality(Evicted)
           /\ packets_in' = packets_in + 1
  <1>1. packets_in' = packets_in + 1
    BY DEF Store
  <1>2. /\ Cardinality(Buffered) \in Nat /\ Cardinality(Evicted) \in Nat
        /\ packets_dropped \in Nat
    BY FS_CardinalityType DEF TypeOK
  <1>3. CASE /\ Buffered' = Buffered \cup {slot} /\ Evicted' = Evicted
             /\ Cardinality(Buffered') <= Capacity
             /\ packets_dropped' = packets_dropped
    BY <1>1, <1>2, <1>3
  <1>4. ASSUME NEW last \in Buffered \cup {slot},
               Buffered' = (Buffered \cup {slot}) \ {last},
               Evicted' = Evicted \cup {last},
               packets_dropped' = packets_dropped + 1
        PROVE  /\ Cardinality(Buffered') <= Capacity
               /\ packets_dropped' - Cardinality(Evicted')
                    = packets_dropped - Cardinality(Evicted)
    <2>1. last \notin Evicted
      OBVIOUS
    <2>2. Cardinality(Evicted') = Cardinality(Evicted) + 1
      BY <1>4, <2>1, FS_AddElement DEF TypeOK
    <2>3. /\ IsFiniteSet(Buffered \cup {slot})
          /\ Cardinality(Buffered \cup {slot}) = Cardinality(Buffered) + 1
      BY FS_AddElement DEF TypeOK
    <2>4. Cardinality(Buffered') = Cardinality(Buffered)
      <3>1. Cardinality((Buffered \cup {slot}) \ {last})
              = Cardinality(Buffered \cup {slot}) - 1
        BY <2>3, FS_RemoveElement
      <3> QED  BY <1>2, <1>4, <2>3, <3>1
    <2>5. packets_dropped' - Cardinality(Evicted')
            = packets_dropped - Cardinality(Evicted)
      BY <1>2, <1>4, <2>2
    <2> QED  BY <2>4, <2>5 DEF WithinCapacity
  <1>5. CASE \E last \in Buffered \cup {slot} :
               /\ Buffered' = (Buffered \cup {slot}) \ {last}
               /\ Evicted' = Evicted \cup {last}
               /\ packets_dropped' = packets_dropped + 1
    BY <1>1, <1>4, <1>5
  <1> QED  BY <1>3, <1>5, StoreEffect

LEMMA CountTypes ==
    ASSUME TypeOK
    PROVE  /\ packets_in \in Nat /\ packets_out \in Nat
           /\ packets_dropped \in Nat /\ packets_late \in Nat
           /\ arrivals \in Nat /\ Len(log) \in Nat
           /\ Cardinality(Buffered) \in Nat /\ Cardinality(Evicted) \in Nat
  BY FS_CardinalityType DEF TypeOK

LEMMA PushCounts ==
    ASSUME TypeOK, TypeOK', SlotInv, CountInv, NEW p \in Sent, Push(p)
    PROVE  CountInv'
  <1>1. p.sequence_number \in Int /\ Extend(p.sequence_number, next_seq) \in Int
    BY SentType, ExtendType DEF TypeOK
  <1>2. ASSUME NEW slot \in Int, Store(p, slot), slot \notin Buffered \cup Evicted,
               packets_out' = packets_out, packets_late' = packets_late,
               arrivals' = arrivals + 1
        PROVE  CountInv'
    <2>1. Buffered \cap Evicted = {} /\ WithinCapacity /\ StreamAccounting
      BY DEF SlotInv, PendingAhead, CountInv
    <2>2. /\ Cardinality(Buffered') <= Capacity
          /\ packets_dropped' - Cardinality(Evicted')
               = packets_dropped - Cardinality(Evicted)
          /\ packets_in' = packets_in + 1
      BY <1>2, <2>1, StoreCounts
    <2>3. packets_dropped' \in Nat /\ Cardinality(Evicted') \in Nat
      BY FS_CardinalityType DEF TypeOK
    <2>4. log' = log
      BY PushLog
    <2>5. packets_in' + packets_out' + packets_dropped' + packets_late'
            = arrivals' + Len(log') + Cardinality(Evicted')
      <3>1. packets_in + packets_out + packets_dropped + packets_late
              = arrivals + Len(log) + Cardinality(Evicted)
        BY <2>1 DEF StreamAccounting
      <3>2. /\ packets_in \in Nat /\ packets_out \in Nat
            /\ packets_dropped \in Nat /\ packets_late \in Nat
            /\ arrivals \in Nat /\ Len(log) \in Nat /\ Cardinality(Evicted) \in Nat
        BY CountTypes
      <3>3. Len(log') = Len(log)
        BY <2>4
      <3>4. packets_in' + packets_out' + packets_dropped' + packets_late'
              = packets_in + packets_out + packets_dropped + packets_late + 1
                  + (Cardinality(Evicted') - Cardinality(Evicted))
        BY <1>2, <2>2, <2>3, <3>2
      <3>5. arrivals' + Len(log') + Cardinality(Evicted')
              = arrivals + Len(log) + Cardinality(Evicted) + 1
                  + (Cardinality(Evicted') - Cardinality(Evicted))
        BY <1>2, <2>3, <3>2, <3>3
      <3> QED  BY <3>1, <3>4, <3>5
    <2> QED  BY <2>2, <2>5 DEF CountInv, WithinCapacity, StreamAccounting
  <1>3. CASE PushFirst(p)
    <2>1. p.sequence_number \notin Buffered \cup Evicted
      BY <1>3 DEF PushFirst, SlotInv, Quiet
    <2> QED  BY <1>1, <1>2, <1>3, <2>1 DEF PushFirst
  <1>4. CASE PushLate(p) \/ PushDuplicate(p)
    <2>1. /\ Buffered' = Buffered /\ Evicted' = Evicted
          /\ log' = log /\ arrivals' = arrivals + 1
          /\ packets_in' = packets_in /\ packets_out' = packets_out
          /\ \/ packets_dropped' = packets_dropped + 1 /\ packets_late' = packets_late
             \/ packets_dropped' = packets_dropped /\ packets_late' = packets_late + 1
      BY <1>4 DEF PushLate, PushDuplicate, Buffered, Evicted
    <2>2. packets_in' + packets_out' + packets_dropped' + packets_late'
            = arrivals' + Len(log') + Cardinality(Evicted')
      <3>1. packets_in + packets_out + packets_dropped + packets_late
              = arrivals + Len(log) + Cardinality(Evicted)
        BY DEF CountInv, StreamAccounting
      <3>2. /\ packets_in \in Nat /\ packets_out \in Nat
            /\ packets_dropped \in Nat /\ packets_late \in Nat
            /\ arrivals \in Nat /\ Len(log) \in Nat /\ Cardinality(Evicted) \in Nat
        BY CountTypes
      <3>3. packets_in' + packets_out' + packets_dropped' + packets_late'
              = packets_in + packets_out + packets_dropped + packets_late + 1
        BY <2>1, <3>2
      <3>4. arrivals' + Len(log') + Cardinality(Evicted')
              = arrivals + Len(log) + Cardinality(Evicted) + 1
        BY <2>1, <3>2
      <3> QED  BY <3>1, <3>3, <3>4
    <2> QED  BY <2>1, <2>2 DEF CountInv, WithinCapacity, StreamAccounting
  <1>5. CASE PushEarlier(p)
    <2>1. Extend(p.sequence_number, next_seq) \notin Buffered \cup Evicted
      <3>1. /\ Extend(p.sequence_number, next_seq) < next_seq
            /\ \A k \in Buffered \cup Evicted : k >= next_seq
        BY <1>5 DEF PushEarlier, SlotInv, PendingAhead
      <3>2. next_seq \in Int
        BY DEF TypeOK
      <3>3. ~(Extend(p.sequence_number, next_seq) >= next_seq)
        BY <1>1, <3>1, <3>2
      <3> QED  BY <3>1, <3>3
    <2> QED  BY <1>1, <1>2, <1>5, <2>1 DEF PushEarlier
  <1>6. CASE PushAhead(p)
    BY <1>1, <1>2, <1>6 DEF PushAhead
  <1> QED  BY <1>3, <1>4, <1>5, <1>6 DEF Push

LEMMA PopCounts ==
    ASSUME TypeOK, TypeOK', SlotInv, CountInv, PopEvent
    PROVE  CountInv'
  <1>1. Len(log') = Len(log) + 1
    <2>1. PICK event \in Event : log' = Append(log, event)
      BY PopEffect
    <2> QED  BY <2>1 DEF TypeOK
  <1>2. UNCHANGED <<packets_in, packets_late, arrivals>>
    BY DEF PopEvent, PopPacket, PopEvicted, PopRecovered, PopMissing, LoseSlot,
           EmitSlot
  <1>3. Cardinality(Buffered') <= Cardinality(Buffered)
    <2>1. /\ Buffered' = Buffered \ {next_seq} /\ IsFiniteSet(Buffered)
          /\ Cardinality(Buffered) \in Nat
      BY PopEffect, CountTypes DEF TypeOK
    <2>2. Cardinality(Buffered \ {next_seq}) =
            IF next_seq \in Buffered THEN Cardinality(Buffered) - 1
                                     ELSE Cardinality(Buffered)
      BY <2>1, FS_RemoveElement
    <2> QED  BY <2>1, <2>2
  <1>4. CASE PopPacket \/ PopRecovered \/ PopMissing
    <2>1. Evicted' = Evicted
      BY <1>4 DEF PopPacket, PopRecovered, PopMissing, LoseSlot, Evicted
    <2>2. \/ packets_out' = packets_out + 1 /\ packets_dropped' = packets_dropped
          \/ packets_out' = packets_out /\ packets_dropped' = packets_dropped + 1
      BY <1>4 DEF PopPacket, PopRecovered, PopMissing, LoseSlot
    <2>3. packets_in' + packets_out' + packets_dropped' + packets_late'
            = arrivals' + Len(log') + Cardinality(Evicted')
      <3>1. packets_in + packets_out + packets_dropped + packets_late
              = arrivals + Len(log) + Cardinality(Evicted)
        BY DEF CountInv, StreamAccounting
      <3>2. packets_in' + packets_out' + packets_dropped' + packets_late'
              = packets_in + packets_out + packets_dropped + packets_late + 1
        BY <1>2, <2>2, CountTypes
      <3>3. arrivals' + Len(log') + Cardinality(Evicted')
              = arrivals + Len(log) + Cardinality(Evicted) + 1
        BY <1>1, <1>2, <2>1, CountTypes
      <3> QED  BY <3>1, <3>2, <3>3
    <2>4. Cardinality(Buffered') <= Capacity
      <3>1. /\ Cardinality(Buffered) <= Capacity /\ Capacity \in Nat
            /\ Cardinality(Buffered) \in Nat
        BY CountTypes, ConfigType DEF CountInv, WithinCapacity
      <3>2. Cardinality(Buffered') \in Nat
        BY FS_CardinalityType DEF TypeOK
      <3> QED  BY <1>3, <3>1, <3>2
    <2> QED  BY <2>3, <2>4 DEF CountInv, WithinCapacity, StreamAccounting
  <1>5. CASE PopEvicted
    <2>1. next_seq \in Evicted
      BY <1>5 DEF PopEvicted
    <2>2. Cardinality(Evicted') = Cardinality(Evicted) - 1
      BY <2>1, PopEffect, FS_RemoveElement DEF TypeOK
    <2>3. packets_out' = packets_out /\ packets_dropped' = packets_dropped
          /\ Buffered' = Buffered
      BY <1>5 DEF PopEvicted, Buffered
    <2> QED  BY <1>1, <1>2, <2>2, <2>3, CountTypes
             DEF CountInv, WithinCapacity, StreamAccounting
  <1> QED  BY <1>4, <1>5 DEF PopEvent

LEMMA CountReset ==
    ASSUME Buffered = {}, Evicted = {}, log = <<>>, packets_in = 0,
           packets_out = 0, packets_dropped = 0, packets_late = 0, arrivals = 0
    PROVE  CountInv
  BY FS_EmptySet, ConfigType DEF CountInv, WithinCapacity, StreamAccounting

LEMMA CountStep == TypeOK /\ SlotInv /\ CountInv /\ [Next]_vars => CountInv'
  <1> SUFFICES ASSUME TypeOK, SlotInv, CountInv, [Next]_vars PROVE CountInv'
    OBVIOUS
  <1>1. ASSUME NEW p \in Sent, Arrive(p) PROVE CountInv'
    BY <1>1, PushCounts, NextType DEF Arrive
  <1>2. CASE Clear
    <2>1. Buffered' = {} /\ Evicted' = {}
      BY <1>2 DEF Clear, Nothing, Buffered, Evicted
    <2>2. /\ log' = <<>> /\ packets_in' = 0 /\ packets_out' = 0
          /\ packets_dropped' = 0 /\ packets_late' = 0 /\ arrivals' = 0
      BY <1>2 DEF Clear
    <2>3. Cardinality({}) = 0
      BY FS_EmptySet
    <2> QED  BY <2>1, <2>2, <2>3, ConfigType
             DEF CountInv, WithinCapacity, StreamAccounting
  <1>3. CASE Tick \/ UNCHANGED vars
    <2>1. UNCHANGED <<Buffered, Evicted, log, counters, arrivals>>
      BY <1>3 DEF Tick, vars, Buffered, Evicted
    <2> QED  BY <2>1 DEF CountInv, WithinCapacity, StreamAccounting, counters
  <1> QED  BY <1>1, <1>2, <1>3, PopCounts, NextType DEF Next

LEMMA CountsAlways == Spec => [](TypeOK /\ SlotInv /\ CountInv)
  <1>1. Init => CountInv
    <2> SUFFICES ASSUME Init PROVE CountInv
      OBVIOUS
    <2>1. Buffered = {} /\ Evicted = {}
      BY DEF Init, Nothing, Buffered, Evicted
    <2> QED  BY <2>1, CountReset DEF Init
  <1> QED  BY <1>1, InitType, NextType, SlotInit, SlotStep, CountStep, PTL DEF Spec

\* Every packet pushed and every slot emitted is counted once and once only.
THEOREM StreamAccountingAlways == Spec => []StreamAccounting
  <1>1. CountInv => StreamAccounting
    BY DEF CountInv
  <1> QED  BY <1>1, CountsAlways, PTL

\* The packet store never exceeds its configured ceiling.
THEOREM WithinCapacityAlways == Spec => []WithinCapacity
  <1>1. CountInv => WithinCapacity
    BY DEF CountInv
  <1> QED  BY <1>1, CountsAlways, PTL

-----------------------------------------------------------------------------
(* The buffer implements PlayoutSchedule, step by step.                    *)

\* The abstract state, as the INSTANCE in JitterBuffer maps it.
Phase   == IF ~started THEN "idle"
           ELSE IF playout_started THEN "playing" ELSE "priming"
Emitted == [i \in DOMAIN log |->
              [slot |-> log[i].slot,
               fate |-> IF log[i].kind = "packet" THEN "played" ELSE "concealed"]]

\* Storing a packet takes it into the schedule: what is given up, if anything,
\* is never the packet of the slot at the cursor.
LEMMA StoreTakes ==
    ASSUME TypeOK, NEW p \in Sent, NEW slot \in Int, Store(p, slot),
           \A k \in Buffered \cup {slot} : k >= next_seq'
    PROVE  Schedule!Take(slot)
  <1>1. CASE Buffered' = Buffered \cup {slot} /\ Evicted' = Evicted
    BY <1>1 DEF Schedule!Take
  <1>2. ASSUME NEW last \in Buffered \cup {slot},
               Buffered' = (Buffered \cup {slot}) \ {last},
               Evicted' = Evicted \cup {last}
        PROVE  Schedule!Take(slot)
    <2>1. last # next_seq'
      BY <1>2, HeadKept
    <2> QED  BY <1>2, <2>1 DEF Schedule!Take
  <1> QED  BY <1>1, <1>2, StoreEffect

\* Every way through push() is a step of the schedule, or none.
LEMMA PushRefines ==
    ASSUME TypeOK, SlotInv, NEW p \in Sent, Push(p)
    PROVE  [Schedule!Next]_(Schedule!vars)
  <1>1. p.sequence_number \in Int /\ Extend(p.sequence_number, next_seq) \in Int
    BY SentType, ExtendType DEF TypeOK
  <1>2. next_seq \in Int /\ \A k \in Buffered \cup Evicted : k >= next_seq
    BY DEF TypeOK, SlotInv, PendingAhead
  <1>3. CASE PushFirst(p)
    <2> DEFINE slot == p.sequence_number
    <2>1. /\ Buffered = {} /\ Evicted = {} /\ ~playout_started
          /\ Store(p, slot) /\ next_seq' = slot /\ ~started /\ started' = TRUE
          /\ playout_started' = playout_started /\ log' = log
      BY <1>3 DEF PushFirst, SlotInv, Quiet
    <2>2. Schedule!Take(slot)
      BY <1>1, <2>1, StoreTakes
    <2>3. slot \in Buffered' \cup Evicted'
      BY <1>1, <2>1, StoreSlots
    <2>4. Schedule!Open(slot)
      BY <2>1, <2>2 DEF Schedule!Open
    <2> QED  BY <2>3, <2>4 DEF Schedule!Next
  <1>4. CASE PushLate(p) \/ PushDuplicate(p)
    <2>1. UNCHANGED <<started, playout_started, next_seq, Buffered, Evicted, log>>
      BY <1>4 DEF PushLate, PushDuplicate, Buffered, Evicted, cursor
    <2> QED  BY <2>1 DEF Schedule!vars
  <1>5. CASE PushEarlier(p)
    <2> DEFINE slot == Extend(p.sequence_number, next_seq)
    <2>1. /\ Store(p, slot) /\ next_seq' = slot /\ slot < next_seq
          /\ started /\ started' = started
          /\ ~playout_started /\ playout_started' = playout_started /\ log' = log
      BY <1>5 DEF PushEarlier
    <2>2. \A k \in Buffered \cup {slot} : k >= next_seq'
      BY <1>1, <1>2, <2>1 DEF TypeOK
    <2>3. slot \notin Buffered \cup Evicted
      BY <1>1, <1>2, <2>1
    <2>4. Schedule!Take(slot)
      BY <1>1, <2>1, <2>2, StoreTakes
    <2>5. slot \in Buffered' \cup Evicted'
      BY <1>1, <2>1, <2>3, StoreSlots DEF SlotInv, PendingAhead
    <2>6. Schedule!Prepend(slot)
      BY <2>1, <2>4 DEF Schedule!Prepend
    <2> QED  BY <2>5, <2>6 DEF Schedule!Next
  <1>6. CASE PushAhead(p)
    <2> DEFINE slot == Extend(p.sequence_number, next_seq)
    <2>1. /\ Store(p, slot) /\ slot >= next_seq /\ slot \notin Buffered \cup Evicted
          /\ started /\ UNCHANGED <<started, playout_started, next_seq, log>>
      BY <1>6 DEF PushAhead, cursor
    <2>2. \A k \in Buffered \cup {slot} : k >= next_seq'
      BY <1>2, <2>1
    <2>3. Schedule!Take(slot)
      BY <1>1, <2>1, <2>2, StoreTakes
    <2>4. slot \in Buffered' \cup Evicted'
      BY <1>1, <2>1, StoreSlots DEF SlotInv, PendingAhead
    <2>5. Schedule!Accept(slot)
      BY <2>1, <2>3 DEF Schedule!Accept
    <2> QED  BY <2>4, <2>5 DEF Schedule!Next
  <1> QED  BY <1>3, <1>4, <1>5, <1>6 DEF Push

\* A popped slot is played if its packet was held and concealed otherwise.
LEMMA PopRefines ==
    ASSUME TypeOK, SlotInv, PopEvent
    PROVE  Schedule!Next
  <1>1. /\ started /\ started' /\ playout_started'
        /\ next_seq' = next_seq + 1
        /\ Buffered' = Buffered \ {next_seq} /\ Evicted' = Evicted \ {next_seq}
    BY PopEffect
  <1>2. HasPending
    BY DEF PopEvent, PopPacket, PopEvicted, PopRecovered, PopMissing, LoseSlot, Due
  <1>3. PICK kind \in {"packet", "recovered", "missing"} :
          /\ kind = "packet" <=> next_seq \in Buffered
          /\ \E timestamp, payload : log' = Append(log, PlayoutEvent(kind, timestamp, payload))
    BY DEF PopEvent, PopPacket, PopEvicted, PopRecovered, PopMissing, LoseSlot, EmitSlot
  <1>4. PICK timestamp, payload : log' = Append(log, PlayoutEvent(kind, timestamp, payload))
    BY <1>3
  <1> DEFINE event == PlayoutEvent(kind, timestamp, payload)
             fate == IF kind = "packet" THEN "played" ELSE "concealed"
  <1>5. event.slot = next_seq /\ event.kind = kind
    BY DEF PlayoutEvent
  <1>6. Emitted' = Append(Emitted, [slot |-> next_seq, fate |-> fate])
    <2> HIDE DEF event
    <2>1. /\ log \in Seq(Event) /\ Len(log) \in Nat
          /\ log' = Append(log, event)
      BY <1>4 DEF TypeOK, event
    <2>2. /\ DOMAIN log = 1 .. Len(log) /\ DOMAIN log' = 1 .. Len(log) + 1
          /\ \A i \in 1 .. Len(log) : log'[i] = log[i]
          /\ log'[Len(log) + 1] = event
      BY <2>1
    <2> QED  BY <1>5, <2>1, <2>2 DEF Emitted
  <1>7. Schedule!Emit(fate)
    BY <1>1, <1>6 DEF Schedule!Emit, Emitted
  <1>8. CASE next_seq \in Buffered
    BY <1>1, <1>3, <1>7, <1>8 DEF Schedule!Next, Schedule!Play, SlotInv, PendingAhead
  <1>9. CASE next_seq \notin Buffered
    BY <1>1, <1>2, <1>3, <1>7, <1>9 DEF Schedule!Next, Schedule!Conceal, HasPending
  <1> QED  BY <1>8, <1>9

LEMMA ClearRefines ==
    ASSUME Clear
    PROVE  Schedule!Next
  <1>1. /\ ~started' /\ next_seq' = 0 /\ log' = <<>>
        /\ Buffered' = {} /\ Evicted' = {}
    BY DEF Clear, Nothing, Buffered, Evicted
  <1> QED  BY <1>1 DEF Schedule!Next, Schedule!Reset

\* The jitter buffer emits what a playout schedule may emit: slots one by one
\* in order, each exactly once, concealed only if their packet is absent, and
\* the packet at the cursor is never given up to make room (jitter.rs:285-442,
\* 537-561).  The safety half of ImplementsSchedule.
THEOREM BufferIsSchedule == Spec => Schedule!Spec
  <1>1. Init => Schedule!Init
    BY DEF Init, Schedule!Init, Nothing, Buffered, Evicted
  <1>2. TypeOK /\ SlotInv /\ [Next]_vars => [Schedule!Next]_(Schedule!vars)
    <2> SUFFICES ASSUME TypeOK, SlotInv, [Next]_vars
                 PROVE  [Schedule!Next]_(Schedule!vars)
      OBVIOUS
    <2>1. ASSUME NEW p \in Sent, Arrive(p) PROVE [Schedule!Next]_(Schedule!vars)
      BY <2>1, PushRefines DEF Arrive
    <2>2. CASE Tick \/ UNCHANGED vars
      <3>1. UNCHANGED <<started, playout_started, next_seq, Buffered, Evicted, log>>
        BY <2>2 DEF Tick, vars, Buffered, Evicted, cursor
      <3> QED  BY <3>1 DEF Schedule!vars
    <2> QED  BY <2>1, <2>2, PopRefines, ClearRefines DEF Next
  <1> QED  BY <1>1, <1>2, SlotsAlways, PTL DEF Spec, Schedule!Spec

=============================================================================
