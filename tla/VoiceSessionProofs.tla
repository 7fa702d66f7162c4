-------------------------- MODULE VoiceSessionProofs --------------------------
(***************************************************************************)
(* Theorems about VoiceSession, for any stream, any finite set of tracks   *)
(* and any interleaving of their tasks.                                    *)
(***************************************************************************)
EXTENDS VoiceSession, FiniteSetTheorems, TLAPS

\* The buffer the tasks share keeps its own invariants.
BufferInv == JB!TypeOK /\ JB!SlotInv /\ JB!EventInv

\* Where the two tasks of a track are, and what the playout task holds there.
Place(t) ==
    /\ playout[t] = "none" <=> receiver[t] \in {"none", "unserved"}
    /\ playout[t] = "sleeping" => deadline[t] # {}
    /\ playout[t] # "delivering" => decoded[t] = {}
    /\ playout[t] = "delivering" => \E slot \in decoded[t] : decoded[t] = {slot}

PlacesInv ==
    /\ \A t \in Tracks : Place(t)
    /\ \A i \in DOMAIN delivered : delivered[i].track \in Served

\* The playout task keeps its distance to all its callbacks.
PaceInv ==
    /\ Paced
    /\ \A i \in DOMAIN delivered :
         delivered[i].at + Recovery <= next_decode_at[delivered[i].track]
    /\ \A t \in Tracks : playout[t] = "delivering" => now >= next_decode_at[t]

\* WakeupNotLost, of the track that is served alone.
WakeInv ==
    \A t \in Tracks :
        /\ Served = {t}
        /\ playout[t] \in {"observed", "idle", "sleeping"}
        /\ deadline[t] # PlayoutDeadline
        => packet_ready[t] \/ receiver[t] = "notifying"

FrameInv == FrameDeliveredOnce /\ IsFiniteSet(Decodable)

\* DeliveredInOrder, with the frame that is about to be delivered.
OrderInv ==
    \A t \in Tracks : Served = {t} =>
        /\ \A i, j \in DOMAIN delivered : i < j => delivered[i].slot < delivered[j].slot
        /\ \A i \in DOMAIN delivered, slot \in decoded[t] : delivered[i].slot < slot

IInv == TypeOK /\ BufferInv /\ PlacesInv /\ PaceInv /\ WakeInv /\ FrameInv /\ OrderInv

-----------------------------------------------------------------------------
(* What the steps do to the buffer.                                        *)

\* A step of the session drives the buffer through one of its operations, or
\* leaves it alone while time may pass.
LEMMA BufferSteps ==
    ASSUME BufferInv, [Next]_vars
    PROVE  \/ \E t \in Tracks, p \in Sent : Receive(t, p) /\ JB!Push(p)
           \/ \E t \in Tracks : Pop(t) /\ JB!PopEvent
           \/ JB!Waiting /\ now' \in Nat /\ now' >= now
<1>1. now \in Nat
  BY DEF BufferInv, JB!TypeOK
<1> DEFINE Idle == JB!Waiting /\ now' \in Nat /\ now' >= now
<1>2. UNCHANGED buffer => Idle
  BY <1>1 DEF buffer, stream, JB!Waiting, JB!cursor, JB!schedule, JB!counters
<1>3. Tick => Idle
  BY <1>1 DEF Tick, stream, JB!Waiting, JB!cursor, JB!schedule, JB!counters
<1> HIDE DEF Idle
<1>4. ASSUME NEW t \in Tracks, AddTrack(t) \/ ReceiverStep(t) \/ PlayoutStep(t)
      PROVE  \/ \E p \in Sent : Receive(t, p) /\ JB!Push(p)
             \/ Pop(t) /\ JB!PopEvent
             \/ UNCHANGED buffer
  BY <1>4 DEF AddTrack, ReceiverStep, Receive, NotifyPlayout, CloseTrack, PlayoutStep,
              Observe, CheckObserved, WakeOnPacket, WakeOnClose, Pop, Deliver, CheckPlayed
<1>5. OnRemoteAudio \/ UNCHANGED vars => UNCHANGED buffer
  BY DEF OnRemoteAudio, vars
<1>6. CASE \E t \in Tracks : AddTrack(t) \/ ReceiverStep(t) \/ PlayoutStep(t)
  BY <1>2, <1>4, <1>6 DEF Idle
<1> QED  BY <1>2, <1>3, <1>5, <1>6 DEF Next, Idle

LEMMA BufferKept == BufferInv /\ [Next]_vars => BufferInv'
<1> SUFFICES ASSUME BufferInv, [Next]_vars PROVE BufferInv'
  OBVIOUS
<1>1. ASSUME NEW p \in Sent, JB!Push(p) PROVE BufferInv'
  BY <1>1, BufferAssumption, JB!PushType, JB!PushSlots, JB!PushEvents DEF BufferInv
<1>2. ASSUME JB!PopEvent PROVE BufferInv'
  BY <1>2, BufferAssumption, JB!PopType, JB!PopSlots, JB!PopEvents DEF BufferInv
<1>3. ASSUME JB!Waiting, now' \in Nat PROVE BufferInv'
  BY <1>3, BufferAssumption, JB!WaitType, JB!WaitSlots, JB!WaitEvents DEF BufferInv
<1> QED  BY <1>1, <1>2, <1>3, BufferSteps

\* The event that pop_event appends, as the task that popped it reads it.
LEMMA Popped ==
    ASSUME BufferInv, JB!PopEvent
    PROVE  \E event \in JB!Event :
             /\ event.slot = next_seq /\ next_seq \in Int
             /\ log \in Seq(JB!Event) /\ log' = Append(log, event)
             /\ log'[Len(log')] = event
<1>1. PICK event \in JB!Event : event.slot = next_seq /\ log' = Append(log, event)
  BY BufferAssumption, JB!PopEffect DEF BufferInv
<1>2. log \in Seq(JB!Event) /\ next_seq \in Int
  BY DEF BufferInv, JB!TypeOK
<1> QED  BY <1>1, <1>2

-----------------------------------------------------------------------------
(* Types.                                                                  *)

LEMMA InitTyped == Init => TypeOK
<1> SUFFICES ASSUME Init PROVE TypeOK
  OBVIOUS
<1>1. /\ deadline \in [Tracks -> SUBSET Nat] /\ decoded \in [Tracks -> SUBSET Int]
      /\ delivered \in Seq([track : Tracks, slot : Int, at : Nat])
      /\ next_decode_at \in [Tracks -> Nat]
  BY DEF Init
<1> QED  BY <1>1 DEF Init, TypeOK

LEMMA StepTyped ==
    ASSUME BufferInv, TypeOK, [Next]_vars
    PROVE  TypeOK'
<1>1. now \in Nat /\ PlayoutDeadline \in SUBSET Nat /\ JB!HasPending \in BOOLEAN
  BY BufferAssumption, JB!DeadlineType DEF BufferInv, JB!TypeOK, PlayoutDeadline, JB!HasPending
<1>2. ASSUME NEW t \in Tracks, AddTrack(t) PROVE TypeOK'
  BY <1>1, <1>2 DEF AddTrack, TypeOK
<1>3. ASSUME NEW t \in Tracks, ReceiverStep(t) PROVE TypeOK'
  BY <1>3 DEF ReceiverStep, Receive, NotifyPlayout, CloseTrack, ReceiverAt, locals, TypeOK
<1>4. ASSUME NEW t \in Tracks, PlayoutStep(t) PROVE TypeOK'
  <2>1. CASE Observe(t)
    BY <1>1, <2>1 DEF Observe, PlayoutAt, TypeOK
  <2>2. CASE CheckObserved(t) \/ WakeOnPacket(t) \/ WakeOnClose(t) \/ CheckPlayed(t)
    BY <2>2 DEF CheckObserved, WakeOnPacket, WakeOnClose, CheckPlayed, PlayoutAt, locals, TypeOK
  <2>3. CASE Pop(t)
    <3>1. decoded' = [decoded EXCEPT ![t] = decoded'[t]] /\ decoded'[t] \in SUBSET Int
      <4>1. CASE JB!PopEvent /\ decoded' = [decoded EXCEPT ![t] = FrameOf(log'[Len(log')])]
        BY <4>1, Popped DEF FrameOf, TypeOK
      <4>2. CASE decoded' = [decoded EXCEPT ![t] = {}]
        BY <4>2 DEF TypeOK
      <4> QED  BY <2>3, <4>1, <4>2 DEF Pop
    <3>2. JB!HasPending' \in BOOLEAN
      BY DEF JB!HasPending
    <3> QED  BY <2>3, <3>1, <3>2 DEF Pop, PlayoutAt, TypeOK
  <2>4. CASE Deliver(t)
    <3>1. PICK slot \in decoded[t] :
            delivered' = Append(delivered, [track |-> t, slot |-> slot, at |-> now])
      BY <2>4 DEF Deliver
    <3>2. delivered' \in Seq([track : Tracks, slot : Int, at : Nat])
      BY <1>1, <3>1 DEF TypeOK
    <3>3. now + Recovery \in Nat
      BY <1>1, SessionAssumption DEF SessionAssumption
    <3> QED  BY <2>4, <3>2, <3>3 DEF Deliver, PlayoutAt, TypeOK
  <2> QED  BY <1>4, <2>1, <2>2, <2>3, <2>4 DEF PlayoutStep
<1>5. OnRemoteAudio \/ Tick \/ UNCHANGED vars => TypeOK'
  BY DEF OnRemoteAudio, Tick, vars, tasks, locals, TypeOK
<1> QED  BY <1>2, <1>3, <1>4, <1>5 DEF Next

-----------------------------------------------------------------------------
(* Who does what.                                                          *)

Acts(t) == AddTrack(t) \/ ReceiverStep(t) \/ PlayoutStep(t)

\* What a track's tasks keep to themselves.
Own(t) == <<receiver[t], playout[t], packet_ready[t], deadline[t],
            next_decode_at[t], decoded[t]>>

\* A step that is no track's, and what one of a track leaves to the others.
LEMMA StepsOfTracks ==
    ASSUME TypeOK, [Next]_vars
    PROVE  \/ \E t \in Tracks : Acts(t)
           \/ UNCHANGED <<tasks, locals, delivered>>
  BY DEF Next, Acts, OnRemoteAudio, Tick, vars

LEMMA OthersKept ==
    ASSUME TypeOK, NEW t \in Tracks, Acts(t), NEW u \in Tracks, u # t
    PROVE  Own(u)' = Own(u)
<1>1. CASE AddTrack(t)
  BY <1>1 DEF AddTrack, Own, TypeOK
<1>2. CASE ReceiverStep(t)
  BY <1>2 DEF ReceiverStep, Receive, NotifyPlayout, CloseTrack, ReceiverAt, locals, Own, TypeOK
<1>3. CASE Observe(t) \/ CheckObserved(t) \/ WakeOnPacket(t) \/ WakeOnClose(t) \/ CheckPlayed(t)
  BY <1>3 DEF Observe, CheckObserved, WakeOnPacket, WakeOnClose, CheckPlayed, PlayoutAt,
              locals, Own, TypeOK
<1>4. CASE Pop(t) \/ Deliver(t)
  BY <1>4 DEF Pop, Deliver, PlayoutAt, Own, TypeOK
<1> QED  BY <1>1, <1>2, <1>3, <1>4 DEF Acts, PlayoutStep

\* Each track is where its tasks were taken.
LEMMA StepPlace ==
    ASSUME TypeOK, NEW t \in Tracks, Place(t), Acts(t)
    PROVE  Place(t)'
<1>1. CASE AddTrack(t)
  BY <1>1 DEF AddTrack, Place, TypeOK
<1>2. CASE ReceiverStep(t)
  BY <1>2 DEF ReceiverStep, Receive, NotifyPlayout, CloseTrack, ReceiverAt, locals, Place, TypeOK
<1>3. CASE Observe(t) \/ CheckObserved(t)
  BY <1>3 DEF Observe, CheckObserved, PlayoutAt, locals, Place, TypeOK
<1>4. CASE WakeOnPacket(t) \/ WakeOnClose(t) \/ CheckPlayed(t)
  BY <1>4 DEF WakeOnPacket, WakeOnClose, CheckPlayed, PlayoutAt, locals, Place, TypeOK
<1>5. CASE Pop(t)
  <2>1. decoded'[t] = {} \/ \E slot \in decoded'[t] : decoded'[t] = {slot}
    <3>1. \A event : FrameOf(event) = {} \/ FrameOf(event) = {event.slot}
      BY DEF FrameOf
    <3>2. decoded'[t] = {} \/ decoded'[t] = FrameOf(log'[Len(log')])
      BY <1>5 DEF Pop, TypeOK
    <3> HIDE DEF FrameOf
    <3>3. CASE decoded'[t] = FrameOf(log'[Len(log')])
      BY <3>1, <3>3
    <3> QED  BY <3>2, <3>3
  <2>2. /\ playout[t] = "sleeping" /\ receiver'[t] = receiver[t]
        /\ playout'[t] = IF decoded'[t] = {} THEN "played" ELSE "delivering"
    BY <1>5 DEF Pop, PlayoutAt, TypeOK
  <2> QED  BY <2>1, <2>2 DEF Place
<1>6. CASE Deliver(t)
  BY <1>6 DEF Deliver, PlayoutAt, Place, TypeOK
<1> QED  BY <1>1, <1>2, <1>3, <1>4, <1>5, <1>6 DEF Acts, PlayoutStep

\* A track that is served stays so.
LEMMA ServedGrows ==
    ASSUME TypeOK, \A t \in Tracks : Place(t), [Next]_vars
    PROVE  Served \subseteq Served'
<1> SUFFICES ASSUME NEW u \in Tracks, playout[u] # "none" PROVE playout'[u] # "none"
  BY DEF Served
<1>1. ASSUME Acts(u) PROVE playout'[u] # "none"
  <2>1. receiver[u] # "none"
    BY DEF Place
  <2>2. ~ AddTrack(u)
    BY <2>1 DEF AddTrack
  <2>3. CASE ReceiverStep(u)
    BY <2>3 DEF ReceiverStep, Receive, NotifyPlayout, CloseTrack
  <2>4. CASE PlayoutStep(u)
    BY <2>4 DEF PlayoutStep, Observe, CheckObserved, WakeOnPacket, WakeOnClose, Pop, Deliver,
                CheckPlayed, PlayoutAt, TypeOK
  <2> QED  BY <1>1, <2>2, <2>3, <2>4 DEF Acts
<1>2. ASSUME NEW t \in Tracks, Acts(t), t # u PROVE playout'[u] # "none"
  BY <1>2, OthersKept DEF Own
<1> QED  BY <1>1, <1>2, StepsOfTracks DEF tasks

\* The callbacks: every other step leaves them alone.
LEMMA DeliveredSteps ==
    ASSUME [Next]_vars
    PROVE  delivered' = delivered \/ \E t \in Tracks : Deliver(t)
<1>1. ASSUME NEW t \in Tracks, AddTrack(t) \/ ReceiverStep(t) \/ PlayoutStep(t)
      PROVE  delivered' = delivered \/ Deliver(t)
  BY <1>1 DEF AddTrack, ReceiverStep, Receive, NotifyPlayout, CloseTrack, PlayoutStep,
              Observe, CheckObserved, WakeOnPacket, WakeOnClose, Pop, CheckPlayed
<1> QED  BY <1>1 DEF Next, OnRemoteAudio, Tick, vars

Callback(t, slot) == [track |-> t, slot |-> slot, at |-> now]

LEMMA Deliveries ==
    ASSUME TypeOK, PlacesInv, BufferInv, NEW t \in Tracks, Deliver(t)
    PROVE  /\ playout[t] = "delivering" /\ now \in Nat
           /\ \E slot \in Int :
                /\ decoded[t] = {slot}
                /\ delivered' = Append(delivered, Callback(t, slot))
<1>1. PICK slot \in decoded[t] : delivered' = Append(delivered, Callback(t, slot))
  BY DEF Deliver, Callback
<1>2. decoded[t] = {slot} /\ slot \in Int /\ playout[t] = "delivering"
  BY <1>1 DEF Deliver, PlayoutAt, PlacesInv, Place, TypeOK
<1> QED  BY <1>1, <1>2 DEF BufferInv, JB!TypeOK

LEMMA ElementOf ==
    ASSUME NEW S, NEW seq \in Seq(S), NEW i \in DOMAIN seq
    PROVE  seq[i] \in S
  OBVIOUS

\* Appending a callback.
LEMMA Appended ==
    ASSUME TypeOK, NEW callback, delivered' = Append(delivered, callback)
    PROVE  /\ Len(delivered) \in Nat /\ Len(delivered') = Len(delivered) + 1
           /\ DOMAIN delivered = 1 .. Len(delivered)
           /\ DOMAIN delivered' = 1 .. Len(delivered) + 1
           /\ \A i \in 1 .. Len(delivered) : delivered'[i] = delivered[i]
           /\ delivered'[Len(delivered) + 1] = callback
<1>1. delivered \in Seq([track : Tracks, slot : Int, at : Nat])
  BY DEF TypeOK
<1> HIDE DEF TypeOK
<1> QED  BY <1>1

LEMMA StepPlaces ==
    ASSUME BufferInv, TypeOK, TypeOK', PlacesInv, [Next]_vars
    PROVE  PlacesInv'
<1>1. ASSUME NEW u \in Tracks PROVE Place(u)'
  <2>1. CASE Acts(u)
    BY <2>1, StepPlace DEF PlacesInv
  <2>2. ASSUME Own(u)' = Own(u) PROVE Place(u)'
    BY <2>2 DEF Own, Place, PlacesInv
  <2>3. CASE UNCHANGED <<tasks, locals>>
    BY <2>2, <2>3 DEF tasks, locals, Own
  <2> QED  BY <2>1, <2>2, <2>3, OthersKept, StepsOfTracks
<1>2. Served \subseteq Served'
  BY ServedGrows DEF PlacesInv
<1>3. ASSUME NEW t \in Tracks, Deliver(t), NEW i \in DOMAIN delivered'
      PROVE  delivered'[i].track \in Served
  <2>1. PICK slot \in Int : delivered' = Append(delivered, Callback(t, slot))
    BY <1>3, Deliveries
  <2>2. CASE i \in DOMAIN delivered
    BY <2>1, <2>2, Appended DEF PlacesInv
  <2>3. CASE i = Len(delivered) + 1
    <3>1. delivered'[i].track = t
      BY <2>1, <2>3, Appended DEF Callback
    <3> QED  BY <1>3, <3>1, Deliveries DEF Served
  <2> QED  BY <1>3, <2>1, <2>2, <2>3, Appended
<1> QED  BY <1>1, <1>2, <1>3, DeliveredSteps DEF PlacesInv

-----------------------------------------------------------------------------
(* The pace of the callbacks.                                              *)

\* The task wakes to decode no sooner than its pace allows, and only a callback
\* or the start of the task moves the instant from which it may.
LEMMA DecodeInstant ==
    ASSUME TypeOK, PlacesInv, BufferInv, [Next]_vars, NEW u \in Tracks
    PROVE  /\ playout'[u] = "delivering" /\ playout[u] # "delivering" =>
                now >= next_decode_at[u] /\ next_decode_at'[u] = next_decode_at[u]
           /\ playout[u] # "none" /\ ~ Deliver(u) => next_decode_at'[u] = next_decode_at[u]
           /\ Deliver(u) => playout'[u] = "played" /\ next_decode_at'[u] = now + Recovery
<1>1. Deliver(u) => playout'[u] = "played" /\ next_decode_at'[u] = now + Recovery
  BY DEF Deliver, PlayoutAt, TypeOK
<1>2. CASE AddTrack(u)
  <2>1. playout[u] = "none" /\ playout'[u] # "delivering"
    BY <1>2 DEF AddTrack, PlacesInv, Place, TypeOK
  <2> QED  BY <1>1, <2>1 DEF Deliver, PlayoutAt
<1>3. CASE ReceiverStep(u)
  BY <1>1, <1>3 DEF ReceiverStep, Receive, NotifyPlayout, CloseTrack, locals
<1>4. CASE PlayoutStep(u)
  <2>1. CASE Pop(u)
    <3>1. PICK d \in deadline[u] : now >= JB!MaxOf(d, next_decode_at[u])
      BY <2>1 DEF Pop, WakeAt, PlacesInv, Place
    <3>2. now \in Nat /\ d \in Nat /\ next_decode_at[u] \in Nat
      BY DEF BufferInv, JB!TypeOK, TypeOK
    <3>3. now >= next_decode_at[u]
      BY <3>1, <3>2 DEF JB!MaxOf
    <3> QED  BY <1>1, <2>1, <3>3 DEF Pop
  <2>2. CASE Deliver(u)
    BY <1>1, <2>2
  <2>3. CASE Observe(u) \/ CheckObserved(u) \/ WakeOnPacket(u) \/ WakeOnClose(u) \/ CheckPlayed(u)
    BY <2>3, <1>1 DEF Observe, CheckObserved, WakeOnPacket, WakeOnClose, CheckPlayed, PlayoutAt,
                locals, TypeOK
  <2> QED  BY <1>4, <2>1, <2>2, <2>3 DEF PlayoutStep
<1>5. CASE Own(u)' = Own(u)
  BY <1>1, <1>5 DEF Own
<1>6. CASE UNCHANGED <<tasks, locals>>
  BY <1>5, <1>6 DEF tasks, locals, Own
<1> QED  BY <1>2, <1>3, <1>4, <1>5, <1>6, OthersKept, StepsOfTracks DEF Acts

LEMMA ClockSteps ==
    ASSUME BufferInv, [Next]_vars
    PROVE  now \in Nat /\ now' \in Nat /\ now' >= now
<1>1. now \in Nat
  BY DEF BufferInv, JB!TypeOK
<1>2. ASSUME NEW p \in Sent, JB!Push(p) PROVE now' = now
  BY <1>2 DEF JB!Push, JB!PushFirst, JB!PushLate, JB!PushEarlier, JB!PushDuplicate, JB!PushAhead
<1>3. JB!PopEvent => now' = now
  BY DEF JB!PopEvent, JB!PopPacket, JB!PopEvicted, JB!PopRecovered, JB!PopMissing,
         JB!LoseSlot, JB!EmitSlot
<1> QED  BY <1>1, <1>2, <1>3, BufferSteps

LEMMA StepPace ==
    ASSUME BufferInv, TypeOK, PlacesInv, PaceInv, [Next]_vars
    PROVE  PaceInv'
<1>1. /\ now \in Nat /\ now' \in Nat /\ now' >= now
      /\ \A u \in Tracks : next_decode_at[u] \in Nat
      /\ Recovery \in Nat
  BY ClockSteps, SessionAssumption DEF TypeOK, SessionAssumption
<1>2. ASSUME NEW u \in Tracks, playout'[u] = "delivering" PROVE now' >= next_decode_at'[u]
  <2>1. now >= next_decode_at[u] /\ next_decode_at'[u] = next_decode_at[u]
    BY <1>2, DecodeInstant DEF PaceInv
  <2> QED  BY <1>1, <2>1
<1>3. ASSUME NEW i \in DOMAIN delivered
      PROVE  /\ delivered[i].track \in Tracks /\ playout[delivered[i].track] # "none"
             /\ delivered[i].at \in Nat
             /\ delivered[i].at + Recovery <= next_decode_at[delivered[i].track]
  <2>1. delivered[i] \in [track : Tracks, slot : Int, at : Nat]
    BY ElementOf DEF TypeOK
  <2> QED  BY <2>1 DEF PlacesInv, Served, PaceInv
<1>4. CASE delivered' = delivered
  <2>1. ASSUME NEW t \in Tracks PROVE ~ Deliver(t)
    BY <1>4, Appended, Deliveries
  <2>2. ASSUME NEW i \in DOMAIN delivered
        PROVE  delivered[i].at + Recovery <= next_decode_at'[delivered[i].track]
    BY <1>3, <2>1, DecodeInstant
  <2> QED  BY <1>2, <1>4, <2>2 DEF PaceInv, Paced
<1>5. ASSUME NEW t \in Tracks, Deliver(t) PROVE PaceInv'
  <2>1. PICK slot \in Int : delivered' = Append(delivered, Callback(t, slot))
    BY <1>5, Deliveries
  <2> DEFINE last == Len(delivered) + 1
  <2>2. /\ DOMAIN delivered = 1 .. Len(delivered) /\ Len(delivered) \in Nat
        /\ DOMAIN delivered' = 1 .. last
        /\ \A i \in DOMAIN delivered : delivered'[i] = delivered[i]
        /\ delivered'[last].track = t /\ delivered'[last].at = now
    BY <2>1, Appended DEF Callback
  <2>3. now >= next_decode_at[t] /\ next_decode_at'[t] = now + Recovery
    BY <1>5, DecodeInstant, Deliveries DEF PaceInv
  <2>4. \A u \in Tracks \ {t} : playout[u] # "none" => next_decode_at'[u] = next_decode_at[u]
    <3>1. \A u \in Tracks \ {t} : Own(u)' = Own(u)
      BY <1>5, OthersKept DEF Acts, PlayoutStep
    <3> QED  BY <3>1 DEF Own
  <2>5. ASSUME NEW i \in DOMAIN delivered'
        PROVE  delivered'[i].at + Recovery <= next_decode_at'[delivered'[i].track]
    <3>1. CASE i = last
      BY <1>1, <2>2, <2>3, <3>1
    <3>2. CASE i \in DOMAIN delivered /\ delivered[i].track = t
      BY <1>1, <1>3, <2>2, <2>3, <3>2
    <3>3. CASE i \in DOMAIN delivered /\ delivered[i].track # t
      BY <1>3, <2>2, <2>4, <3>3
    <3> QED  BY <2>2, <3>1, <3>2, <3>3
  <2>6. ASSUME NEW i \in DOMAIN delivered', NEW j \in DOMAIN delivered',
               i < j, delivered'[i].track = delivered'[j].track
        PROVE  delivered'[j].at - delivered'[i].at >= Recovery
    <3>1. i \in DOMAIN delivered
      BY <2>2, <2>6
    <3>2. CASE j \in DOMAIN delivered
      BY <2>2, <2>6, <3>1, <3>2 DEF PaceInv, Paced
    <3>3. CASE j = last
      BY <1>1, <1>3, <2>2, <2>3, <2>6, <3>1, <3>3
    <3> QED  BY <2>2, <3>2, <3>3
  <2> QED  BY <1>2, <2>5, <2>6 DEF PaceInv, Paced
<1> QED  BY <1>4, <1>5, DeliveredSteps

-----------------------------------------------------------------------------
(* The wakeups.                                                            *)

\* The deadline depends on the buffer alone, not on the time.
LEMMA DeadlineKept == UNCHANGED stream => PlayoutDeadline' = PlayoutDeadline
  BY DEF stream, PlayoutDeadline, JB!HasPending, JB!Buffered, JB!Evicted,
         JB!NextDeadline, JB!NextSlotTimestamp, JB!DeadlineFor, JB!TsSub

\* A step of the only track that is served.
LEMMA StepAlone ==
    ASSUME TypeOK, PlacesInv, BufferInv, [Next]_vars, WakeInv,
           NEW t \in Tracks, Served = {t}, Acts(t),
           playout'[t] \in {"observed", "idle", "sleeping"},
           deadline'[t] # PlayoutDeadline'
    PROVE  packet_ready'[t] \/ receiver'[t] = "notifying"
<1> DEFINE Stale == /\ playout[t] \in {"observed", "idle", "sleeping"}
                    /\ deadline[t] # PlayoutDeadline
<1>1. Stale => packet_ready[t] \/ receiver[t] = "notifying"
  BY DEF WakeInv
<1>2. playout[t] # "none" /\ receiver[t] \notin {"none", "unserved"}
  BY DEF Served, PlacesInv, Place
<1>3. UNCHANGED buffer => PlayoutDeadline' = PlayoutDeadline
  BY DeadlineKept DEF buffer
<1>4. ~ AddTrack(t)
  BY <1>2 DEF AddTrack
<1>5. ASSUME NEW p \in Sent, Receive(t, p) PROVE packet_ready'[t] \/ receiver'[t] = "notifying"
  <2>1. /\ receiver[t] = "reading"
        /\ receiver'[t] = IF PlayoutDeadline' # PlayoutDeadline THEN "notifying" ELSE "reading"
        /\ UNCHANGED <<playout, packet_ready, deadline>>
    BY <1>5 DEF Receive, ReceiverAt, TypeOK, locals
  <2> QED  BY <1>1, <2>1
<1>6. CASE NotifyPlayout(t)
  BY <1>6 DEF NotifyPlayout, TypeOK
<1>7. CASE CloseTrack(t)
  <2>1. /\ receiver[t] = "reading" /\ UNCHANGED <<playout, packet_ready, deadline>>
        /\ UNCHANGED buffer
    BY <1>7 DEF CloseTrack, ReceiverAt, locals
  <2> QED  BY <1>1, <1>3, <2>1
<1>8. CASE Observe(t)
  <2>1. deadline'[t] = PlayoutDeadline /\ UNCHANGED buffer
    BY <1>8 DEF Observe, TypeOK
  <2> QED  BY <1>3, <2>1
<1>9. CASE CheckObserved(t)
  <2>1. /\ playout[t] = "observed" /\ UNCHANGED <<packet_ready, receiver, deadline>>
        /\ UNCHANGED buffer
    BY <1>9 DEF CheckObserved, PlayoutAt, locals
  <2> QED  BY <1>1, <1>3, <2>1
<1>10. ~ WakeOnPacket(t) /\ ~ WakeOnClose(t) /\ ~ Pop(t) /\ ~ Deliver(t) /\ ~ CheckPlayed(t)
  BY DEF WakeOnPacket, WakeOnClose, Pop, Deliver, CheckPlayed, PlayoutAt, TypeOK
<1> QED  BY <1>4, <1>5, <1>6, <1>7, <1>8, <1>9, <1>10 DEF Acts, ReceiverStep, PlayoutStep

\* A step of a track nobody serves.
LEMMA StepUnserved ==
    ASSUME PlacesInv, NEW u \in Tracks, Acts(u), playout[u] = "none"
    PROVE  UNCHANGED buffer /\ AddTrack(u)
<1>1. receiver[u] \in {"none", "unserved"}
  BY DEF PlacesInv, Place
<1>2. AddTrack(u)
  BY <1>1 DEF Acts, ReceiverStep, Receive, NotifyPlayout, CloseTrack, ReceiverAt,
              PlayoutStep, Observe, CheckObserved, WakeOnPacket, WakeOnClose, Pop, Deliver,
              CheckPlayed, PlayoutAt
<1> QED  BY <1>2 DEF AddTrack

LEMMA StepWake ==
    ASSUME TypeOK, PlacesInv, BufferInv, WakeInv, [Next]_vars
    PROVE  WakeInv'
<1> SUFFICES ASSUME NEW t \in Tracks, Served' = {t},
                    playout'[t] \in {"observed", "idle", "sleeping"},
                    deadline'[t] # PlayoutDeadline'
             PROVE  packet_ready'[t] \/ receiver'[t] = "notifying"
  BY DEF WakeInv
<1>1. Served \subseteq {t}
  BY ServedGrows DEF PlacesInv
<1>2. CASE Acts(t)
  <2>1. CASE playout[t] = "none"
    <3>1. playout'[t] \in {"none", "observing"}
      BY <1>2, <2>1, StepUnserved DEF AddTrack, TypeOK
    <3> QED  BY <3>1
  <2>2. CASE playout[t] # "none"
    BY <1>1, <1>2, <2>2, StepAlone DEF Served
  <2> QED  BY <2>1, <2>2
<1>3. ASSUME Own(t)' = Own(t), UNCHANGED buffer \/ Tick
      PROVE  packet_ready'[t] \/ receiver'[t] = "notifying"
  <2>1. PlayoutDeadline' = PlayoutDeadline
    BY <1>3, DeadlineKept DEF Tick, buffer
  <2>2. Served = {t}
    BY <1>1, <1>3 DEF Served, Own
  <2> QED  BY <1>3, <2>1, <2>2 DEF WakeInv, Own
<1>4. ASSUME NEW u \in Tracks, Acts(u), u # t
      PROVE  packet_ready'[t] \/ receiver'[t] = "notifying"
  <2>1. playout[u] = "none"
    BY <1>1, <1>4 DEF Served
  <2> QED  BY <1>3, <1>4, <2>1, OthersKept, StepUnserved
<1>5. CASE OnRemoteAudio \/ Tick \/ UNCHANGED vars
  <2>1. Own(t)' = Own(t) /\ (UNCHANGED buffer \/ Tick)
    BY <1>5 DEF OnRemoteAudio, Tick, vars, tasks, locals, Own
  <2> QED  BY <1>3, <2>1
<1> QED  BY <1>2, <1>4, <1>5 DEF Next, Acts

-----------------------------------------------------------------------------
(* The frames.                                                             *)

\* The slots of the events so far lie behind the cursor, in their order.
LEMMA SlotsBehind ==
    ASSUME BufferInv
    PROVE  /\ DOMAIN log = 1 .. Len(log) /\ Len(log) \in Nat /\ next_seq \in Int
           /\ \A i \in DOMAIN log : log[i].slot \in Int /\ log[i].slot < next_seq
<1>1. log \in Seq(JB!Event) /\ next_seq \in Int
  BY DEF BufferInv, JB!TypeOK
<1>2. DOMAIN log = 1 .. Len(log) /\ Len(log) \in Nat
  BY <1>1
<1> QED  BY <1>1, <1>2 DEF BufferInv, JB!EventInv, JB!OneEventPerSlot

\* Popping an event makes its frame decodable, if it is, and no other.
LEMMA PopDecodable ==
    ASSUME BufferInv, JB!PopEvent
    PROVE  LET frame == FrameOf(log'[Len(log')])
           IN  /\ Decodable' = Decodable \cup frame
               /\ \/ frame = {}
                  \/ frame = {next_seq} /\ next_seq \notin Decodable
<1>1. PICK event \in JB!Event :
         /\ event.slot = next_seq /\ log \in Seq(JB!Event)
         /\ log' = Append(log, event) /\ log'[Len(log')] = event
  BY Popped
<1>2. /\ DOMAIN log = 1 .. Len(log) /\ Len(log) \in Nat
      /\ DOMAIN log' = 1 .. Len(log) + 1
      /\ \A i \in 1 .. Len(log) : log'[i] = log[i]
      /\ log'[Len(log) + 1] = event
  BY <1>1
<1>3. next_seq \notin Decodable
  BY SlotsBehind DEF Decodable
<1>4. Decodable' = Decodable \cup FrameOf(event)
  <2>1. ASSUME NEW slot \in Decodable' PROVE slot \in Decodable \cup FrameOf(event)
    <3>1. PICK i \in DOMAIN log' : ~ DecodeFails(log'[i]) /\ slot = log'[i].slot
      BY <2>1 DEF Decodable
    <3>2. CASE i \in 1 .. Len(log)
      BY <1>2, <3>1, <3>2 DEF Decodable
    <3>3. CASE i = Len(log) + 1
      BY <1>1, <1>2, <3>1, <3>3 DEF FrameOf
    <3> QED  BY <1>2, <3>2, <3>3
  <2>2. ASSUME NEW slot \in FrameOf(event) PROVE slot \in Decodable'
    BY <1>1, <1>2, <2>2 DEF FrameOf, Decodable
  <2>3. ASSUME NEW slot \in Decodable PROVE slot \in Decodable'
    <3>1. PICK i \in DOMAIN log : ~ DecodeFails(log[i]) /\ slot = log[i].slot
      BY <2>3 DEF Decodable
    <3> QED  BY <1>2, <3>1 DEF Decodable
  <2> QED  BY <2>1, <2>2, <2>3
<1> QED  BY <1>1, <1>3, <1>4 DEF FrameOf

\* Only popping and delivering touch frames.
LEMMA FrameSteps ==
    ASSUME BufferInv, TypeOK, PlacesInv, [Next]_vars
    PROVE  \/ \E t \in Tracks : Pop(t) /\ JB!PopEvent
           \/ \E t \in Tracks : Deliver(t)
           \/ log' = log /\ delivered' = delivered /\ decoded' = decoded
<1>1. ASSUME NEW t \in Tracks, NEW p \in Sent, Receive(t, p)
      PROVE  log' = log /\ delivered' = delivered /\ decoded' = decoded
  BY <1>1, BufferAssumption, JB!PushLog DEF Receive, BufferInv, locals
<1>2. ASSUME NEW t \in Tracks, Pop(t), ~ JB!PopEvent
      PROVE  log' = log /\ delivered' = delivered /\ decoded' = decoded
  <2>1. decoded[t] = {} /\ decoded' = [decoded EXCEPT ![t] = {}]
    BY <1>2 DEF Pop, PlacesInv, Place
  <2> QED  BY <1>2, <2>1 DEF Pop, TypeOK, buffer, stream
<1>3. ASSUME NEW t \in Tracks, Acts(t), ~ Pop(t), ~ Deliver(t),
             \A p \in Sent : ~ Receive(t, p)
      PROVE  log' = log /\ delivered' = delivered /\ decoded' = decoded
  BY <1>3 DEF Acts, AddTrack, ReceiverStep, NotifyPlayout, CloseTrack, PlayoutStep, Observe,
              CheckObserved, WakeOnPacket, WakeOnClose, CheckPlayed, locals, buffer, stream
<1>4. OnRemoteAudio \/ Tick \/ UNCHANGED vars =>
        log' = log /\ delivered' = delivered /\ decoded' = decoded
  BY DEF OnRemoteAudio, Tick, vars, locals, buffer, stream
<1> QED  BY <1>1, <1>2, <1>3, <1>4 DEF Next, Acts

\* Tasks that hold a frame to deliver.
Holding == {t \in Tracks : decoded[t] # {}}

Heard == {delivered[i].slot : i \in DOMAIN delivered}

Held == UNION {decoded[t] : t \in Tracks}

LEMMA HoldingFinite == IsFiniteSet(Holding) /\ Cardinality(Holding) \in Nat
<1>1. Holding \in SUBSET Tracks /\ IsFiniteSet(Tracks)
  BY SessionAssumption DEF Holding, SessionAssumption
<1> QED  BY <1>1, FS_Subset, FS_CardinalityType

LEMMA StepFrames ==
    ASSUME BufferInv, TypeOK, PlacesInv, FrameInv, [Next]_vars
    PROVE  FrameInv'
<1>1. /\ Heard \cup Held = Decodable
      /\ Len(delivered) + Cardinality(Holding) = Cardinality(Decodable)
      /\ IsFiniteSet(Decodable)
  BY DEF FrameInv, FrameDeliveredOnce, Holding, Heard, Held
<1>2. /\ Len(delivered) \in Nat /\ Cardinality(Decodable) \in Nat
      /\ decoded \in [Tracks -> SUBSET Int]
  BY <1>1, FS_CardinalityType DEF TypeOK
<1>3. SUFFICES /\ Heard' \cup Held' = Decodable'
               /\ Len(delivered') + Cardinality(Holding') = Cardinality(Decodable')
               /\ IsFiniteSet(Decodable')
  BY DEF FrameInv, FrameDeliveredOnce, Holding, Heard, Held
<1>4. log' = log => Decodable' = Decodable
  BY DEF Decodable
<1>5. delivered' = delivered => Heard' = Heard
  BY DEF Heard
<1>6. decoded' = decoded => Held' = Held /\ Holding' = Holding
  BY DEF Held, Holding
<1>7. CASE log' = log /\ delivered' = delivered /\ decoded' = decoded
  BY <1>1, <1>4, <1>5, <1>6, <1>7
<1>8. ASSUME NEW t \in Tracks, Pop(t)
      PROVE  decoded[t] = {} /\ delivered' = delivered
  BY <1>8 DEF Pop, PlacesInv, Place
<1>9. ASSUME NEW t \in Tracks, Pop(t), JB!PopEvent
       PROVE  /\ Heard' \cup Held' = Decodable'
              /\ Len(delivered') + Cardinality(Holding') = Cardinality(Decodable')
              /\ IsFiniteSet(Decodable')
  <2> DEFINE frame == FrameOf(log'[Len(log')])
  <2>1. decoded' = [decoded EXCEPT ![t] = frame]
    BY <1>9 DEF Pop, JB!PopEvent, JB!PopPacket, JB!PopEvicted, JB!PopRecovered,
                 JB!PopMissing, JB!LoseSlot
  <2>2. /\ Decodable' = Decodable \cup frame
        /\ \/ frame = {}
           \/ frame = {next_seq} /\ next_seq \notin Decodable
    BY <1>9, PopDecodable
  <2> HIDE DEF frame
  <2>3. CASE frame = {}
    <3>1. decoded' = decoded
      BY <1>2, <1>8, <1>9, <2>1, <2>3
    <3> QED  BY <1>1, <1>5, <1>6, <1>8, <1>9, <2>2, <2>3, <3>1
  <2>4. CASE frame = {next_seq} /\ next_seq \notin Decodable
    <3>1. Held' = Held \cup {next_seq}
      BY <1>2, <1>8, <1>9, <2>1, <2>4 DEF Held
    <3>2. Holding' = Holding \cup {t} /\ t \notin Holding
      BY <1>2, <1>8, <1>9, <2>1, <2>4 DEF Holding
    <3>3. Cardinality(Holding') = Cardinality(Holding) + 1
      BY <3>2, HoldingFinite, FS_AddElement
    <3>4. /\ IsFiniteSet(Decodable')
          /\ Cardinality(Decodable') = Cardinality(Decodable) + 1
      BY <1>1, <2>2, <2>4, FS_AddElement
    <3> QED  BY <1>1, <1>2, <1>5, <1>8, <1>9, <2>2, <2>4, <3>1, <3>3, <3>4, HoldingFinite
  <2> QED  BY <2>2, <2>3, <2>4
<1>10. ASSUME NEW t \in Tracks, Deliver(t)
       PROVE  /\ Heard' \cup Held' = Decodable'
              /\ Len(delivered') + Cardinality(Holding') = Cardinality(Decodable')
              /\ IsFiniteSet(Decodable')
  <2>1. PICK slot \in Int : /\ decoded[t] = {slot}
                            /\ delivered' = Append(delivered, Callback(t, slot))
    BY <1>10, Deliveries
  <2>2. /\ decoded' = [decoded EXCEPT ![t] = {}] /\ log' = log
    BY <1>10 DEF Deliver, buffer, stream
  <2>3. Held' \cup {slot} = Held
    BY <1>2, <2>1, <2>2 DEF Held
  <2>4. Heard' = Heard \cup {slot}
    BY <2>1, Appended DEF Heard, Callback
  <2>5. Holding' = Holding \ {t} /\ t \in Holding
    BY <1>2, <2>1, <2>2 DEF Holding
  <2>6. Cardinality(Holding') = Cardinality(Holding) - 1
    BY <2>5, HoldingFinite, FS_RemoveElement
  <2>7. Len(delivered') = Len(delivered) + 1
    BY <2>1, Appended
  <2> QED  BY <1>1, <1>2, <1>4, <2>2, <2>3, <2>4, <2>6, <2>7, HoldingFinite
<1> QED  BY <1>7, <1>9, <1>10, FrameSteps

-----------------------------------------------------------------------------
(* The order of the callbacks.                                             *)

\* Whatever was delivered lies behind the cursor.
LEMMA DeliveredBehind ==
    ASSUME BufferInv, FrameInv, NEW i \in DOMAIN delivered
    PROVE  delivered[i].slot < next_seq
<1>1. delivered[i].slot \in Decodable
  BY DEF FrameInv, FrameDeliveredOnce
<1> QED  BY <1>1, SlotsBehind DEF Decodable

LEMMA StepOrder ==
    ASSUME BufferInv, TypeOK, PlacesInv, FrameInv, OrderInv, [Next]_vars
    PROVE  OrderInv'
<1> DEFINE Sorted == \A i, j \in DOMAIN delivered : i < j => delivered[i].slot < delivered[j].slot
           Ahead(t) == \A i \in DOMAIN delivered, slot \in decoded[t] : delivered[i].slot < slot
<1> SUFFICES ASSUME NEW t \in Tracks, Served' = {t}
             PROVE  Sorted' /\ Ahead(t)'
  BY DEF OrderInv
<1>1. Served \subseteq {t}
  BY ServedGrows DEF PlacesInv
<1>2. Sorted /\ Ahead(t)
  <2>1. CASE Served = {t}
    BY <2>1 DEF OrderInv
  <2>2. CASE Served = {}
    BY <2>2 DEF PlacesInv
  <2> QED  BY <1>1, <2>1, <2>2
<1>3. CASE delivered' = delivered /\ decoded' = decoded
  BY <1>2, <1>3
<1>4. ASSUME NEW u \in Tracks, Pop(u), JB!PopEvent PROVE Sorted' /\ Ahead(t)'
  <2>1. u = t
    BY <1>1, <1>4 DEF Pop, Served
  <2>2. delivered' = delivered
    BY <1>4 DEF Pop
  <2>3. decoded'[t] \subseteq {next_seq}
    <3>1. decoded' = [decoded EXCEPT ![t] = FrameOf(log'[Len(log')])]
      BY <1>4, <2>1 DEF Pop, JB!PopEvent, JB!PopPacket, JB!PopEvicted, JB!PopRecovered,
                        JB!PopMissing, JB!LoseSlot
    <3>2. decoded'[t] = FrameOf(log'[Len(log')])
      BY <3>1 DEF TypeOK
    <3> QED  BY <1>4, <3>2, PopDecodable
  <2> QED  BY <1>2, <2>2, <2>3, DeliveredBehind
<1>5. ASSUME NEW u \in Tracks, Deliver(u) PROVE Sorted' /\ Ahead(t)'
  <2>1. u = t
    BY <1>1, <1>5, Deliveries DEF Served
  <2>2. PICK slot \in Int : /\ decoded[t] = {slot}
                            /\ delivered' = Append(delivered, Callback(t, slot))
    BY <1>5, <2>1, Deliveries
  <2>3. decoded'[t] = {}
    BY <1>5, <2>1 DEF Deliver, TypeOK
  <2>4. /\ DOMAIN delivered = 1 .. Len(delivered) /\ Len(delivered) \in Nat
        /\ DOMAIN delivered' = 1 .. Len(delivered) + 1
        /\ \A i \in 1 .. Len(delivered) : delivered'[i] = delivered[i]
        /\ delivered'[Len(delivered) + 1].slot = slot
    BY <2>2, Appended DEF Callback
  <2>5. \A i \in DOMAIN delivered : delivered[i].slot < slot
    BY <1>2, <2>2
  <2> QED  BY <1>2, <2>3, <2>4, <2>5
<1> QED  BY <1>3, <1>4, <1>5, FrameSteps

-----------------------------------------------------------------------------
LEMMA SingleServed ==
    ASSUME Cardinality(Served) = 1
    PROVE  \E t \in Tracks : Served = {t}
<1>1. Served \in SUBSET Tracks /\ IsFiniteSet(Tracks)
  BY SessionAssumption DEF Served, SessionAssumption
<1>2. IsFiniteSet(Served)
  BY <1>1, FS_Subset
<1> QED  BY <1>1, <1>2, FS_Singleton

LEMMA InitInv == Init => IInv
<1> SUFFICES ASSUME Init PROVE IInv
  OBVIOUS
<1>1. JB!Init /\ delivered = <<>> /\ log = <<>> /\ DOMAIN delivered = {} /\ DOMAIN log = {}
  BY DEF Init, JB!Init
<1>2. BufferInv
  BY <1>1, BufferAssumption, JB!InitType, JB!SlotInit
     DEF BufferInv, JB!EventInv, JB!OneEventPerSlot, JB!RecoveredThenPlayed
<1>3. \A t \in Tracks : receiver[t] = "none" /\ playout[t] = "none" /\ decoded[t] = {}
  BY DEF Init
<1>4. PlacesInv /\ PaceInv /\ WakeInv /\ OrderInv
  BY <1>1, <1>3 DEF PlacesInv, Place, PaceInv, Paced, WakeInv, OrderInv
<1>5. FrameInv
  <2>1. /\ Decodable = {} /\ Heard = {} /\ Held = {} /\ Holding = {} /\ Len(delivered) = 0
    BY <1>1, <1>3 DEF Decodable, Heard, Held, Holding
  <2> QED  BY <2>1, FS_EmptySet DEF FrameInv, FrameDeliveredOnce, Heard, Held, Holding
<1> QED  BY <1>2, <1>4, <1>5, InitTyped DEF IInv

LEMMA InvAlways == Spec => []IInv
<1>1. IInv /\ [Next]_vars => IInv'
  BY BufferKept, StepTyped, StepPlaces, StepPace, StepWake, StepFrames, StepOrder DEF IInv
<1> QED  BY <1>1, InitInv, PTL DEF Spec

\* Every reachable state of the session's tasks is well typed.
THEOREM TypeCorrect == Spec => []TypeOK
  BY InvAlways, PTL DEF IInv

\* The one track that is served is told of every change of the deadline its
\* task waits for: the wakeup is stored, or about to be sent.
THEOREM WakeupNotLostAlways == Spec => []WakeupNotLost
<1>1. IInv => WakeupNotLost
  <2> SUFFICES ASSUME IInv, NEW t \in Served, Cardinality(Served) = 1,
                      playout[t] \in {"observed", "idle", "sleeping"},
                      deadline[t] # PlayoutDeadline
               PROVE  packet_ready[t] \/ receiver[t] = "notifying"
    BY DEF WakeupNotLost
  <2>1. Served = {t} /\ t \in Tracks
    BY SingleServed
  <2> QED  BY <2>1 DEF IInv, WakeInv
<1> QED  BY <1>1, InvAlways, PTL

\* However late a playout task runs, its callbacks are Recovery ticks apart.
THEOREM PacedAlways == Spec => []Paced
<1>1. IInv => Paced
  BY DEF IInv, PaceInv
<1> QED  BY <1>1, InvAlways, PTL

\* With any number of tracks on the one buffer, each frame that decodes is
\* delivered once, or held by exactly one task that is about to deliver it.
THEOREM FrameDeliveredOnceAlways == Spec => []FrameDeliveredOnce
<1>1. IInv => FrameDeliveredOnce
  BY DEF IInv, FrameInv
<1> QED  BY <1>1, InvAlways, PTL

\* A single track hears its frames in slot order.
THEOREM DeliveredInOrderAlways == Spec => []DeliveredInOrder
<1>1. IInv => DeliveredInOrder
  <2> SUFFICES ASSUME IInv, Cardinality(Served) = 1 PROVE DeliveredInOrder
    BY DEF DeliveredInOrder
  <2>1. PICK t \in Tracks : Served = {t}
    BY SingleServed
  <2> QED  BY <2>1 DEF IInv, OrderInv, DeliveredInOrder
<1> QED  BY <1>1, InvAlways, PTL

=============================================================================
