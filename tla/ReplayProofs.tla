----------------------------- MODULE ReplayProofs -----------------------------
(***************************************************************************)
(* Theorems about Replay, for any number of frames, any network profile    *)
(* and any loss, delay and lateness: from the theorems about the buffer.   *)
(***************************************************************************)
EXTENDS Replay, FiniteSetTheorems, WellFoundedInduction, TLAPS

\* The buffer keeps its own invariants.
BufferInv == JB!TypeOK /\ JB!SlotInv /\ JB!StartupInv

-----------------------------------------------------------------------------
(* The trace.                                                              *)

\* When the i-th frame arrives, and that losses come in short rows.
Encoded(i) ==
    /\ trace[i].frame = i - 1
    /\ trace[i].arrival >= (i - 1) * FrameTicks + profile.base_delay - profile.jitter
    /\ trace[i].arrival <= (i - 1) * FrameTicks + profile.base_delay + profile.jitter
    /\ IsGuard(i - 1) =>
         trace[i].arrival = (i - 1) * FrameTicks + profile.base_delay
    /\ trace[i].dropped =>
         /\ ~ \A k \in i - profile.loss_run .. i - 1 :
                k \in DOMAIN trace /\ trace[k].dropped
         /\ program = "bench" \/ (program = "trace" /\ i # 1 /\ ~IsGuard(i - 1))

TraceInv ==
    /\ Len(trace) <= FrameCount
    /\ at # "encode" => Len(trace) = FrameCount
    /\ \A i \in DOMAIN trace : Encoded(i)

\* The packets the network delivers, and those that it has delivered.
Deliveries == {trace[i] : i \in {k \in DOMAIN trace : ~trace[k].dropped}}
Arrived    == IF at = "encode" THEN {} ELSE Deliveries \ waiting

\* What a program has done when it is where it is.
PlaceInv ==
    /\ waiting \subseteq Deliveries
    /\ at = "encode" => /\ ~started /\ output = <<>> /\ waiting = {}
                        /\ now = 0 /\ tick = 0
    /\ at \in {"arrivals", "push", "poll"} => program \in {"trace", "bench"}
    /\ at \in {"loop", "sleep", "play"} => program = "loopback"

-----------------------------------------------------------------------------
(* The clock of the replay and of the benchmark.                           *)

ClockInv ==
    program # "loopback" =>
        /\ now <= tick
        /\ \A e \in Arrived : e.arrival <= tick
        /\ at \in {"arrivals", "push"} =>
             /\ \A e \in waiting : now <= e.arrival /\ tick - Poll < e.arrival
             /\ program = "bench" => tick - Poll <= now
        /\ at = "push" /\ program = "trace" => \E e \in Arriving : now = e.arrival
        /\ at = "poll" => now = tick /\ \A e \in waiting : tick < e.arrival

-----------------------------------------------------------------------------
(* The stream.  base is the slot that frame 0 has, or would have.          *)

First     == IF program = "trace" THEN StartSequence ELSE 0
Stamp(f)  == AudioPacket(f).timestamp
Cursor(base) == IF started THEN next_seq - base ELSE 0

\* Frames are held in their slots, and none is evicted.
SlotsAt(base) ==
    /\ JB!Aligned(base, First)
    /\ evicted_slots = JB!Nothing
    /\ \A slot \in JB!Buffered :
         /\ packets[slot] = AudioPacket(slot - base)
         /\ \E e \in Arrived : e.frame = slot - base
    /\ \A e \in Arrived :
         /\ started
         /\ \/ base + e.frame \in JB!Buffered
            \/ playout_started /\ base + e.frame < next_seq
    /\ started => /\ base <= next_seq
                  /\ \E e \in Arrived : next_seq <= base + e.frame + 1

\* Frames are scheduled by their stamps, behind the first that arrived.
ScheduledAt(base) ==
    started =>
        /\ next_timestamp = Stamp(next_seq - base)
        /\ transit_anchor_arrival <= now
        /\ \E m \in 0 .. next_seq - base :
             /\ anchor_timestamp = Stamp(m)
             /\ program # "loopback" =>
                  transit_anchor_arrival <=
                    m * FrameTicks + profile.base_delay + profile.jitter

\* As long as something is left to play the poll is not far behind it.
LagAt(base) ==
    program # "loopback" /\ at # "encode" =>
        \A e \in Deliveries : e.frame >= Cursor(base) =>
            tick <= Cursor(base) * FrameTicks + profile.base_delay + Slack(profile)

\* The content frames from the first that was played up to the cursor.
OutputAt(base) ==
    /\ log = <<>> =>
         /\ output = <<>> /\ ~playout_started
         /\ started => next_seq - base < ContentFrames
    /\ log # <<>> =>
         \E start \in 0 .. ContentFrames - 1 :
            /\ started /\ start < next_seq - base
            /\ Len(output) = JB!MinOf(next_seq - base, ContentFrames) - start
            /\ \A i \in DOMAIN output : output[i].frame = start + i - 1

\* Nothing is left to play when a program stops.
DoneAt(base) ==
    at = "done" =>
        IF program = "trace" THEN Cursor(base) >= ContentFrames
        ELSE \A e \in Deliveries : e.frame < Cursor(base)

StreamInv ==
    \E base \in Int : /\ SlotsAt(base) /\ ScheduledAt(base) /\ LagAt(base)
                      /\ OutputAt(base) /\ DoneAt(base)

-----------------------------------------------------------------------------
\* The clock of the benchmark may lag behind an arrival, by less than a poll.
ClockLag == IF program = "bench" THEN Poll ELSE 0

\* What is played was held back since some packet truly arrived.
HeldInv ==
    /\ started /\ program # "loopback" =>
         \E e \in Deliveries : e.arrival - ClockLag <= transit_anchor_arrival
    /\ \A i \in DOMAIN output :
         /\ output[i].at >= JB!StartupTarget
         /\ program # "loopback" =>
              \E e \in Deliveries :
                 output[i].at >= e.arrival - ClockLag + JB!StartupTarget

IInv == /\ TypeOK /\ BufferInv /\ TraceInv /\ PlaceInv /\ ClockInv /\ StreamInv
        /\ HeldInv

-----------------------------------------------------------------------------
(* Arithmetic and packets.                                                 *)

LEMMA Constants ==
    /\ FrameTicks \in Nat /\ FrameTicks >= 1 /\ Poll \in Nat /\ Poll >= 1
    /\ Poll <= FrameTicks
    /\ ContentFrames \in Nat /\ ContentFrames >= 1
    /\ GuardFrames \in Nat /\ GuardFrames >= 1
    /\ StartSequence \in Nat /\ StartTimestamp \in Nat
    /\ TailTime \in Nat /\ MaxOversleep \in Nat
    /\ SeqSpace \in Nat \ {0} /\ TsSpace \in Nat \ {0}
    /\ MaxLatency \in Nat /\ MaxPackets \in Nat
    /\ JB!StartupTarget \in Nat
BY BufferAssumption, ReplayAssumption, JB!ConfigType
   DEF BufferAssumption, JB!JitterAssumption, ReplayAssumption

\* Multiplying by the length of a frame.
LEMMA Times ==
    ASSUME NEW a \in Int, NEW b \in Int
    PROVE  /\ a * FrameTicks \in Int
           /\ a <= b => a * FrameTicks <= b * FrameTicks
           /\ (a + b) * FrameTicks = a * FrameTicks + b * FrameTicks
           /\ (a - b) * FrameTicks = a * FrameTicks - b * FrameTicks
           /\ (a + 1) * FrameTicks = a * FrameTicks + FrameTicks
BY Constants, SMT

LEMMA Product ==
    ASSUME NEW a \in Int
    PROVE  a * FrameTicks \in Int
BY Constants, SMT

\* What the assumption says of the profile in use.
LEMMA ProfileFacts ==
    ASSUME profile \in Profiles
    PROVE  /\ profile.base_delay \in Nat /\ profile.jitter \in Nat
           /\ profile.loss_run \in Nat /\ profile.jitters \subseteq Int
           /\ \A j \in profile.jitters : -profile.jitter <= j /\ j <= profile.jitter
           /\ profile.jitter < ContentFrames * FrameTicks
           /\ Slack(profile) \in Nat /\ Slack(profile) <= TailTime
           /\ Slack(profile) >= profile.jitter + Poll + MaxLatency
           /\ Slack(profile) >= profile.jitter + Poll + profile.loss_run * FrameTicks
           /\ Slack(profile) + profile.jitter <= (MaxPackets - 1) * FrameTicks
<1>1. /\ profile \in Profile
      /\ \A j \in profile.jitters : -profile.jitter <= j /\ j <= profile.jitter
      /\ profile.jitter < ContentFrames * FrameTicks
      /\ Slack(profile) <= TailTime
      /\ Slack(profile) + profile.jitter <= (MaxPackets - 1) * FrameTicks
  BY ReplayAssumption DEF ReplayAssumption
<1>2. /\ profile.base_delay \in Nat /\ profile.jitter \in Nat
      /\ profile.loss_run \in Nat /\ profile.jitters \subseteq Int
  BY <1>1 DEF Profile
<1>3. PICK row \in Nat : row = profile.loss_run * FrameTicks
  BY <1>2, Constants, SMT
<1>4. /\ JB!MaxOf(MaxLatency, row) \in Nat
      /\ JB!MaxOf(MaxLatency, row) >= MaxLatency /\ JB!MaxOf(MaxLatency, row) >= row
  BY Constants DEF JB!MaxOf
<1>5. Slack(profile) = profile.jitter + Poll + JB!MaxOf(MaxLatency, row)
  BY <1>3 DEF Slack
<1> QED  BY <1>1, <1>2, <1>3, <1>4, <1>5, Constants

LEMMA Frames ==
    ASSUME program \in Programs
    PROVE  /\ FrameCount \in Nat /\ FrameCount >= ContentFrames
           /\ FrameCount <= ContentFrames + GuardFrames
           /\ program = "trace" => FrameCount = ContentFrames + GuardFrames
           /\ program # "trace" => FrameCount = ContentFrames
           /\ First \in Nat
           /\ program \in {"trace", "bench", "loopback"}
BY Constants, ReplayAssumption DEF FrameCount, First, ReplayAssumption

\* The packets of a program's frames.
LEMMA Packets ==
    ASSUME NEW f \in 0 .. ContentFrames + GuardFrames - 1
    PROVE  /\ AudioPacket(f) \in AllPackets
           /\ AudioPacket(f).sequence_number = (First + f) % SeqSpace
           /\ AudioPacket(f).timestamp = Stamp(f)
<1>1. PICK first_ts : AudioPacket(f) = PacketOf(f, First, first_ts)
                   /\ <<First, first_ts>> \in {<<0, 0>>, <<StartSequence, StartTimestamp>>}
  BY DEF AudioPacket, First
<1>2. AudioPacket(f) \in AllPackets
  <2>1. PICK first \in {<<0, 0>>, <<StartSequence, StartTimestamp>>} : first = <<First, first_ts>>
    BY <1>1
  <2>2. first[1] = First /\ first[2] = first_ts
    BY <2>1
  <2> QED  BY <1>1, <2>2 DEF AllPackets
<1> QED  BY <1>1, <1>2 DEF PacketOf, Stamp

\* Stamps count frames around the wrap.
LEMMA Stamps ==
    /\ \A f \in Int : Stamp(f) \in 0 .. TsSpace - 1
    /\ \A f \in Int : JB!TsAdd(Stamp(f), FrameTicks) = Stamp(f + 1)
    /\ \A f \in 0 .. ContentFrames + GuardFrames, m \in Int :
         0 <= m /\ m <= f => JB!TsSub(Stamp(f), Stamp(m)) = (f - m) * FrameTicks
<1>1. PICK ts \in Nat : \A f : Stamp(f) = (ts + f * FrameTicks) % TsSpace
  BY Constants DEF Stamp, AudioPacket, PacketOf
<1>2. ASSUME NEW f \in Int
      PROVE  /\ ts + f * FrameTicks \in Int /\ Stamp(f) \in 0 .. TsSpace - 1
             /\ \E q \in Int : ts + f * FrameTicks = q * TsSpace + Stamp(f)
  <2>1. ts + f * FrameTicks \in Int
    BY Product
  <2> QED  BY <1>1, <2>1, Constants, BufferAssumption, JB!Modulo
<1>3. ASSUME NEW f \in Int PROVE JB!TsAdd(Stamp(f), FrameTicks) = Stamp(f + 1)
  <2>1. PICK q \in Int : ts + f * FrameTicks = q * TsSpace + Stamp(f)
    BY <1>2
  <2>2. ts + (f + 1) * FrameTicks = (Stamp(f) + FrameTicks) + q * TsSpace
    <3>1. q * TsSpace \in Int /\ Stamp(f) \in Int /\ f * FrameTicks \in Int
      BY <1>2, Constants, Times, SMT
    <3>2. (f + 1) * FrameTicks = f * FrameTicks + FrameTicks
      BY Times
    <3> QED  BY <2>1, <3>1, <3>2, Constants
  <2>3. Stamp(f) + FrameTicks \in Int
    BY <1>2, Constants
  <2>4. (Stamp(f) + FrameTicks + q * TsSpace) % TsSpace = (Stamp(f) + FrameTicks) % TsSpace
    BY <2>3, Constants, BufferAssumption, JB!SameRemainder
  <2> QED  BY <1>1, <2>2, <2>4 DEF JB!TsAdd
<1>4. ASSUME NEW f \in 0 .. ContentFrames + GuardFrames, NEW m \in Int, 0 <= m, m <= f
      PROVE  JB!TsSub(Stamp(f), Stamp(m)) = (f - m) * FrameTicks
  <2>0. f \in Int /\ f - m \in Int /\ f - m <= ContentFrames + GuardFrames /\ 0 <= f - m
    BY <1>4, Constants
  <2>1. PICK q \in Int : ts + f * FrameTicks = q * TsSpace + Stamp(f)
    BY <1>2, <2>0
  <2>2. PICK r \in Int : ts + m * FrameTicks = r * TsSpace + Stamp(m)
    BY <1>2
  <2>3. PICK d \in Int : d = (f - m) * FrameTicks
    BY <2>0, Times
  <2>4. 0 <= d /\ d < TsSpace
    <3>1. 0 * FrameTicks <= d /\ d <= (ContentFrames + GuardFrames) * FrameTicks
      BY <2>0, <2>3, Times, Constants
    <3>2. 0 * FrameTicks = 0
      BY Constants
    <3> QED  BY <3>1, <3>2, <2>3, ReplayAssumption, Constants, Times DEF ReplayAssumption
  <2>5. Stamp(f) - Stamp(m) = d + (r - q) * TsSpace
    <3>1. (r - q) * TsSpace = r * TsSpace - q * TsSpace
      BY Constants, SMT
    <3>2. q * TsSpace \in Int /\ r * TsSpace \in Int
      BY Constants, SMT
    <3>3. d = f * FrameTicks - m * FrameTicks /\ f * FrameTicks \in Int /\ m * FrameTicks \in Int
      BY <2>0, <2>3, Times
    <3>4. Stamp(f) \in Int /\ Stamp(m) \in Int
      BY <1>2, <2>0
    <3> QED  BY <2>1, <2>2, <3>1, <3>2, <3>3, <3>4
  <2>6. PICK k \in Int : k = r - q
    OBVIOUS
  <2>7. (d + k * TsSpace) % TsSpace = d % TsSpace
    BY Constants, BufferAssumption, JB!SameRemainder
  <2>8. d % TsSpace = d
    BY <2>4, Constants
  <2> QED  BY <2>3, <2>5, <2>6, <2>7, <2>8 DEF JB!TsSub
<1> QED  BY <1>2, <1>3, <1>4

\* frame_index of a slot.
LEMMA FrameFound ==
    ASSUME NEW base \in Int, JB!Aligned(base, First), program \in Programs,
           NEW f \in 0 .. ContentFrames + GuardFrames
    PROVE  FrameOf(base + f) = f
<1>1. PICK wraps \in Int : base = First + wraps * SeqSpace
  BY DEF JB!Aligned
<1>2. First \in Nat /\ wraps * SeqSpace \in Int /\ f \in Int
  BY Frames, Constants, SMT
<1>3. base + f - First = f + wraps * SeqSpace
  BY <1>1, <1>2
<1>4. (f + wraps * SeqSpace) % SeqSpace = f % SeqSpace
  BY <1>2, Constants, BufferAssumption, JB!SameRemainder
<1>5. f % SeqSpace = f
  <2>1. f < SeqSpace /\ 0 <= f /\ f \in Int
    BY Constants, ReplayAssumption DEF ReplayAssumption
  <2> QED  BY <2>1, Constants
<1>6. FrameOf(base + f) = (base + f - First) % SeqSpace
  BY <1>2, Constants DEF FrameOf, First
<1> QED  BY <1>3, <1>4, <1>5, <1>6

-----------------------------------------------------------------------------
(* The entries of the trace, and types.                                    *)

LEMMA Least ==
    ASSUME NEW T \in SUBSET Nat, T # {}
    PROVE  \E x \in T : \A y \in T : x <= y
<1> DEFINE R == OpToRel(<, Nat)
<1>1. IsWellFoundedOn(R, Nat)
  BY NatLessThanWellFounded
<1>2. \A x, y \in Nat : <<x, y>> \in R <=> x < y
  BY DEF OpToRel
<1> HIDE DEF R
<1>3. PICK x \in T : \A y \in T : ~ (<<y, x>> \in R)
  BY <1>1, WFMin
<1>4. \A y \in T : ~ (y < x)
  BY <1>2, <1>3
<1>5. \A y \in T : x <= y
  BY <1>4
<1> QED  BY <1>5

LEMMA ElementOf ==
    ASSUME NEW S, NEW seq \in Seq(S), NEW i \in DOMAIN seq
    PROVE  seq[i] \in S
  OBVIOUS

LEMMA TraceType ==
    ASSUME TypeOK
    PROVE  /\ Len(trace) \in Nat /\ DOMAIN trace = 1 .. Len(trace)
           /\ \A i \in DOMAIN trace : /\ trace[i].frame \in Nat /\ trace[i].arrival \in Nat
                                      /\ trace[i].dropped \in BOOLEAN
<1>1. trace \in Seq([frame : Nat, arrival : Nat, dropped : BOOLEAN])
  BY DEF TypeOK
<1>2. \A i \in DOMAIN trace : trace[i] \in [frame : Nat, arrival : Nat, dropped : BOOLEAN]
  BY <1>1, ElementOf
<1> HIDE DEF TypeOK
<1> QED  BY <1>1, <1>2

\* A packet of the trace that is not lost.
LEMMA Entries ==
    ASSUME TypeOK, TraceInv, NEW e \in Deliveries
    PROVE  /\ e.frame \in 0 .. FrameCount - 1 /\ e.frame \in Nat /\ e.arrival \in Nat
           /\ e.frame \in 0 .. ContentFrames + GuardFrames - 1
           /\ e.frame + 1 \in DOMAIN trace /\ e = trace[e.frame + 1] /\ ~e.dropped
           /\ e.arrival >= e.frame * FrameTicks + profile.base_delay - profile.jitter
           /\ e.arrival <= e.frame * FrameTicks + profile.base_delay + profile.jitter
<1>1. PICK i \in DOMAIN trace : e = trace[i] /\ ~e.dropped
  BY DEF Deliveries
<1>2. /\ e.frame = i - 1 /\ i \in 1 .. Len(trace) /\ Len(trace) \in Nat
      /\ Len(trace) <= FrameCount /\ e.arrival \in Nat
      /\ FrameCount \in Nat /\ FrameCount <= ContentFrames + GuardFrames
  BY <1>1, TraceType, Frames DEF TraceInv, Encoded, TypeOK
<1>3. /\ e.arrival >= (i - 1) * FrameTicks + profile.base_delay - profile.jitter
      /\ e.arrival <= (i - 1) * FrameTicks + profile.base_delay + profile.jitter
  BY <1>1 DEF TraceInv, Encoded
<1>4. i = e.frame + 1 /\ e.frame \in 0 .. FrameCount - 1 /\ e.frame <= ContentFrames + GuardFrames - 1
  <2>1. i \in Nat /\ 1 <= i /\ i <= FrameCount
    BY <1>2
  <2> QED  BY <1>2, <2>1, Constants
<1> QED  BY <1>1, <1>2, <1>3, <1>4, Constants

\* What steps of a program do to the buffer.
LEMMA BufferSteps ==
    ASSUME TypeOK, BufferInv, PlaceInv, [Next]_vars
    PROVE  \/ \E e \in waiting : /\ JB!Push(AudioPacket(e.frame))
                                 /\ PushArrival \/ LoopBack
           \/ JB!PopEvent /\ (PollBuffer \/ Play)
           \/ JB!Waiting /\ now' \in Nat
<1>1. now \in Nat /\ tick \in Nat
  BY DEF BufferInv, JB!TypeOK, TypeOK
<1>2. UNCHANGED buffer => JB!Waiting
  BY DEF buffer, JB!Waiting, JB!cursor, JB!schedule, JB!counters
<1>3. EncodeFrame \/ StartReplay \/ LoopTail \/ UNCHANGED vars => UNCHANGED <<buffer, now>>
  BY DEF EncodeFrame, StartReplay, LoopTail, vars
<1>4. ASSUME NextArrival PROVE UNCHANGED buffer /\ now' \in Nat
  <2>1. PICK e \in Arriving : SetClock(e)
    BY <1>4 DEF NextArrival
  <2>2. e.arrival \in Nat
    BY <2>1, TraceType DEF Arriving, TypeOK
  <2> QED  BY <1>1, <1>4, <2>1, <2>2 DEF NextArrival, SetClock
<1>5. AdvanceClock => UNCHANGED buffer /\ now' \in Nat
  BY <1>1 DEF AdvanceClock
<1>6. Sleep => UNCHANGED buffer /\ now' \in Nat
  BY <1>1, Constants DEF Sleep
<1>7. PushArrival \/ LoopBack => \E e \in waiting : JB!Push(AudioPacket(e.frame))
  BY DEF PushArrival, LoopBack, Arriving
<1>8. PollBuffer \/ Play => JB!PopEvent \/ UNCHANGED <<buffer, now>>
  BY DEF PollBuffer, Play, PopOne
<1> QED  BY <1>1, <1>2, <1>3, <1>4, <1>5, <1>6, <1>7, <1>8 DEF Next

LEMMA BufferKept ==
    ASSUME TypeOK, TraceInv, BufferInv, PlaceInv, [Next]_vars
    PROVE  BufferInv'
<1>1. ASSUME NEW e \in waiting, JB!Push(AudioPacket(e.frame)) PROVE BufferInv'
  <2>1. AudioPacket(e.frame) \in AllPackets
    BY Entries, Packets DEF PlaceInv
  <2> QED  BY <1>1, <2>1, BufferAssumption, JB!PushType, JB!PushSlots, JB!PushStartup DEF BufferInv
<1>2. ASSUME JB!PopEvent PROVE BufferInv'
  BY <1>2, BufferAssumption, JB!PopType, JB!PopSlots, JB!StartupStep DEF BufferInv, JB!Next
<1>3. ASSUME JB!Waiting, now' \in Nat PROVE BufferInv'
  <2>1. JB!StartupInv'
    BY <1>3 DEF BufferInv, JB!Waiting, JB!StartupInv, JB!StartupDelay, JB!cursor, JB!schedule
  <2> QED  BY <1>3, <2>1, BufferAssumption, JB!WaitType, JB!WaitSlots DEF BufferInv
<1> QED  BY <1>1, <1>2, <1>3, BufferSteps

\* What pop_event appends to the log.
LEMMA Popped ==
    ASSUME BufferInv, JB!PopEvent
    PROVE  \E event \in JB!Event :
             /\ event.slot = next_seq /\ next_seq \in Int
             /\ event.kind \in {"packet", "recovered", "missing"}
             /\ log \in Seq(JB!Event) /\ log' = Append(log, event)
             /\ log'[Len(log')] = event
<1>1. PICK event \in JB!Event : event.slot = next_seq /\ log' = Append(log, event)
  BY BufferAssumption, JB!PopEffect DEF BufferInv
<1>2. log \in Seq(JB!Event) /\ next_seq \in Int
  BY DEF BufferInv, JB!TypeOK
<1>3. event.kind \in {"packet", "recovered", "missing"}
  BY <1>1 DEF JB!Event
<1>4. log'[Len(log')] = event
  BY <1>1, <1>2
<1> QED  BY <1>1, <1>2, <1>3, <1>4

\* The entry that a round of encode_trace appends.
LEMMA TraceGrows ==
    ASSUME TypeOK, EncodeFrame
    PROVE  \E entry \in [frame : Nat, arrival : Nat, dropped : BOOLEAN],
              jitter \in Jitters(Len(trace)) :
             /\ entry.frame = Len(trace)
             /\ entry.arrival =
                  JB!MaxOf(Len(trace) * FrameTicks + profile.base_delay + jitter, 0)
             /\ entry.dropped => MayDrop(Len(trace))
             /\ trace' = Append(trace, entry)
             /\ Len(trace') = Len(trace) + 1 /\ DOMAIN trace' = 1 .. Len(trace) + 1
             /\ \A i \in DOMAIN trace : trace'[i] = trace[i]
             /\ trace'[Len(trace) + 1] = entry
             /\ jitter \in Int /\ -profile.jitter <= jitter /\ jitter <= profile.jitter
             /\ IsGuard(Len(trace)) => jitter = 0
<1>1. PICK jitter \in Jitters(Len(trace)), dropped \in BOOLEAN :
        /\ dropped => MayDrop(Len(trace))
        /\ trace' = Append(trace,
              [frame   |-> Len(trace),
               arrival |-> JB!MaxOf(Len(trace) * FrameTicks
                                      + profile.base_delay + jitter, 0),
               dropped |-> dropped])
  BY DEF EncodeFrame
<1>2. /\ jitter \in Int /\ -profile.jitter <= jitter /\ jitter <= profile.jitter
      /\ IsGuard(Len(trace)) => jitter = 0
  BY <1>1, ProfileFacts DEF Jitters, TypeOK
<1>3. PICK arrival \in Nat :
        arrival = JB!MaxOf(Len(trace) * FrameTicks + profile.base_delay + jitter, 0)
  <2>1. PICK t \in Int : t = Len(trace) * FrameTicks + profile.base_delay + jitter
    <3>1. Len(trace) * FrameTicks \in Int
      BY Product, TraceType
    <3> QED  BY <1>2, <3>1, ProfileFacts DEF TypeOK
  <2>2. JB!MaxOf(t, 0) \in Nat
    BY DEF JB!MaxOf
  <2> QED  BY <2>1, <2>2
<1> DEFINE entry == [frame |-> Len(trace), arrival |-> arrival, dropped |-> dropped]
<1>4. entry \in [frame : Nat, arrival : Nat, dropped : BOOLEAN] /\ trace' = Append(trace, entry)
  BY <1>1, <1>3, TraceType
<1>5. entry.frame = Len(trace) /\ entry.arrival = arrival /\ entry.dropped = dropped
  OBVIOUS
<1> HIDE DEF entry
<1>6. /\ Len(trace') = Len(trace) + 1 /\ DOMAIN trace' = 1 .. Len(trace) + 1
      /\ \A i \in DOMAIN trace : trace'[i] = trace[i]
      /\ trace'[Len(trace) + 1] = entry
  <2>1. trace \in Seq([frame : Nat, arrival : Nat, dropped : BOOLEAN])
    BY DEF TypeOK
  <2> QED  BY <1>4, <2>1
<1> QED  BY <1>1, <1>2, <1>3, <1>4, <1>5, <1>6

\* The frame that a poll counts as played, if it played one.
LEMMA PlayedOne ==
    ASSUME TypeOK, BufferInv, PopOne
    PROVE  \/ /\ JB!PopEvent
              /\ LET frame == FrameOf(next_seq)
                 IN  \/ /\ frame \in 0 .. ContentFrames - 1
                        /\ \E event \in [frame : {frame}, at : {now},
                                         kind : {"packet", "recovered", "missing"}] :
                             output' = Append(output, event)
                     \/ /\ IsGuard(frame) /\ output' = output
           \/ ~JB!Due /\ UNCHANGED <<buffer, now, output>>
<1>1. CASE JB!PopEvent /\ LET event == log'[Len(log')]
                              frame == FrameOf(event.slot)
                          IN  output' = IF IsGuard(frame) THEN output
                                ELSE Append(output, [frame |-> frame, at |-> now,
                                                     kind |-> event.kind])
  <2>1. PICK event \in JB!Event :
          /\ event.slot = next_seq /\ next_seq \in Int /\ log'[Len(log')] = event
          /\ event.kind \in {"packet", "recovered", "missing"}
    BY <1>1, Popped
  <2>2. output' = IF IsGuard(FrameOf(next_seq)) THEN output
                  ELSE Append(output, [frame |-> FrameOf(next_seq), at |-> now,
                                       kind |-> event.kind])
    BY <1>1, <2>1
  <2>3. FrameOf(next_seq) \in Nat
    <3>1. PICK n \in Int : n = next_seq - First
      BY <2>1, Frames DEF TypeOK
    <3>2. FrameOf(next_seq) = n % SeqSpace
      BY <3>1 DEF FrameOf, First
    <3> QED  BY <3>2, Constants, BufferAssumption, JB!Modulo
  <2>4. ~IsGuard(FrameOf(next_seq)) => FrameOf(next_seq) \in 0 .. ContentFrames - 1
    BY <2>3, Constants DEF IsGuard
  <2> QED  BY <1>1, <2>1, <2>2, <2>4
<1> QED  BY <1>1 DEF PopOne

LEMMA TypeKept ==
    ASSUME TypeOK, TraceInv, BufferInv, PlaceInv, [Next]_vars
    PROVE  TypeOK'
<1>1. JB!TypeOK' /\ now \in Nat
  BY BufferKept DEF BufferInv, JB!TypeOK
<1>2. CASE EncodeFrame
  <2>1. PICK entry \in [frame : Nat, arrival : Nat, dropped : BOOLEAN] :
          trace' = Append(trace, entry)
    BY <1>2, TraceGrows
  <2>2. trace' \in Seq([frame : Nat, arrival : Nat, dropped : BOOLEAN])
    BY <2>1 DEF TypeOK
  <2>3. waiting' = {}
    BY <1>2 DEF EncodeFrame, PlaceInv
  <2> QED  BY <1>1, <1>2, <2>2, <2>3 DEF EncodeFrame, choice, TypeOK
<1>3. CASE StartReplay
  BY <1>1, <1>3 DEF StartReplay, choice, TypeOK
<1>4. CASE NextArrival \/ AdvanceClock \/ LoopTail \/ Sleep
  BY <1>1, <1>4 DEF NextArrival, AdvanceClock, LoopTail, Sleep, choice, TypeOK
<1>5. CASE PushArrival \/ LoopBack
  BY <1>1, <1>5 DEF PushArrival, LoopBack, choice, TypeOK
<1>6. CASE PollBuffer \/ Play
  <2>1. PopOne
    BY <1>6 DEF PollBuffer, Play
  <2>2. output' \in Seq([frame : 0 .. ContentFrames - 1, at : Nat,
                         kind : {"packet", "recovered", "missing"}])
    <3>1. CASE output' = output
      BY <3>1 DEF TypeOK
    <3>2. ASSUME FrameOf(next_seq) \in 0 .. ContentFrames - 1,
                 NEW event \in [frame : {FrameOf(next_seq)}, at : {now},
                                kind : {"packet", "recovered", "missing"}],
                 output' = Append(output, event)
          PROVE  output' \in Seq([frame : 0 .. ContentFrames - 1, at : Nat,
                                  kind : {"packet", "recovered", "missing"}])
      <4>1. event \in [frame : 0 .. ContentFrames - 1, at : Nat,
                       kind : {"packet", "recovered", "missing"}]
        BY <1>1, <3>2
      <4> QED  BY <3>2, <4>1 DEF TypeOK
    <3> QED  BY <2>1, <3>1, <3>2, PlayedOne
  <2>3. tick' \in Nat /\ UNCHANGED <<choice, trace, waiting>>
        /\ at' \in {"arrivals", "done", "loop"}
    BY <1>6, Constants DEF PollBuffer, Play, TypeOK
  <2> QED  BY <1>1, <2>2, <2>3 DEF choice, TypeOK
<1>7. CASE UNCHANGED vars
  BY <1>1, <1>7 DEF vars, choice, TypeOK
<1> QED  BY <1>2, <1>3, <1>4, <1>5, <1>6, <1>7 DEF Next

LEMMA InitTyped == Init => TypeOK /\ BufferInv
<1> SUFFICES ASSUME Init PROVE TypeOK /\ BufferInv
  OBVIOUS
<1>1. JB!Init
  BY DEF Init
<1>2. JB!TypeOK /\ JB!SlotInv /\ JB!StartupInv
  <2>1. JB!StartupInv
    BY <1>1 DEF JB!Init, JB!StartupInv, JB!StartupDelay
  <2> QED  BY <1>1, <2>1, BufferAssumption, JB!InitType, JB!SlotInit
<1> QED  BY <1>2 DEF Init, TypeOK, BufferInv

-----------------------------------------------------------------------------
(* The trace and the place.                                                *)

LEMMA TraceKept ==
    ASSUME TypeOK, TraceInv, PlaceInv, [Next]_vars
    PROVE  TraceInv'
<1>1. CASE EncodeFrame
  <2>1. PICK entry \in [frame : Nat, arrival : Nat, dropped : BOOLEAN],
             jitter \in Jitters(Len(trace)) :
          /\ entry.frame = Len(trace)
          /\ entry.arrival =
               JB!MaxOf(Len(trace) * FrameTicks + profile.base_delay + jitter, 0)
          /\ entry.dropped => MayDrop(Len(trace))
          /\ Len(trace') = Len(trace) + 1 /\ DOMAIN trace' = 1 .. Len(trace) + 1
          /\ \A i \in DOMAIN trace : trace'[i] = trace[i]
          /\ trace'[Len(trace) + 1] = entry
          /\ jitter \in Int /\ -profile.jitter <= jitter /\ jitter <= profile.jitter
          /\ IsGuard(Len(trace)) => jitter = 0
    BY <1>1, TraceGrows
  <2>2. /\ Len(trace) \in Nat /\ DOMAIN trace = 1 .. Len(trace)
        /\ at = "encode" /\ at' = at /\ Len(trace) < FrameCount
        /\ program' = program /\ profile' = profile
    BY <1>1, TraceType DEF EncodeFrame, choice
  <2>3. FrameCount \in Nat /\ FrameCount' = FrameCount
    BY <2>2, Frames DEF FrameCount, TypeOK
  <2>4. ASSUME NEW i \in 1 .. Len(trace) PROVE Encoded(i)'
    <3>1. Encoded(i) /\ trace'[i] = trace[i] /\ i \in DOMAIN trace
      BY <2>1, <2>2 DEF TraceInv
    <3>2. ASSUME trace[i].dropped, \A k \in i - profile.loss_run .. i - 1 :
                     k \in DOMAIN trace' /\ trace'[k].dropped
          PROVE  FALSE
      <4>1. ASSUME NEW k \in i - profile.loss_run .. i - 1
            PROVE  k \in DOMAIN trace /\ trace[k].dropped
        <5>1. k \in DOMAIN trace' /\ trace'[k].dropped /\ k <= i - 1 /\ k \in Int
          BY <2>2, <3>2, ProfileFacts DEF TypeOK
        <5>2. k \in DOMAIN trace
          BY <2>1, <2>2, <5>1
        <5> QED  BY <2>1, <5>1, <5>2
      <4> QED  BY <3>1, <3>2, <4>1 DEF Encoded
    <3> QED  BY <2>2, <3>1, <3>2 DEF Encoded, IsGuard
  <2>5. PICK i \in Nat : i = Len(trace) + 1
    BY <2>2
  <2>6. Encoded(i)'
    <3>1. trace'[i] = entry /\ entry.frame = i - 1 /\ i - 1 = Len(trace)
      BY <2>1, <2>2, <2>5
    <3>2. PICK t \in Int : t = (i - 1) * FrameTicks
      BY <2>5, Product
    <3>3. /\ entry.arrival >= t + profile.base_delay - profile.jitter
          /\ entry.arrival <= t + profile.base_delay + profile.jitter
          /\ IsGuard(i - 1) => entry.arrival = t + profile.base_delay
      <4>1. 0 <= t
        <5>1. 0 * FrameTicks <= t /\ 0 * FrameTicks = 0
          BY <2>2, <3>1, <3>2, Times, Constants
        <5> QED  BY <5>1
      <4>2. entry.arrival = JB!MaxOf(t + profile.base_delay + jitter, 0)
        BY <2>1, <3>1, <3>2
      <4>3. PICK delay \in Nat, most \in Nat : delay = profile.base_delay /\ most = profile.jitter
        BY ProfileFacts DEF TypeOK
      <4>4. /\ -most <= jitter /\ jitter <= most /\ jitter \in Int
            /\ IsGuard(i - 1) => jitter = 0
        BY <2>1, <3>1, <4>3
      <4>5. entry.arrival = JB!MaxOf(t + delay + jitter, 0)
        BY <4>2, <4>3
      <4>6. /\ entry.arrival >= t + delay - most /\ entry.arrival <= t + delay + most
            /\ jitter = 0 => entry.arrival = t + delay
        BY <4>1, <4>4, <4>5 DEF JB!MaxOf
      <4> QED  BY <4>3, <4>4, <4>6
    <3>4. ASSUME entry.dropped
          PROVE  /\ ~ \A k \in i - profile.loss_run .. i - 1 :
                        k \in DOMAIN trace' /\ trace'[k].dropped
                 /\ program = "bench" \/ (program = "trace" /\ i # 1 /\ ~IsGuard(i - 1))
      <4>1. MayDrop(i - 1)
        BY <2>1, <3>1, <3>4
      <4>2. PICK k \in (i - 1) - profile.loss_run + 1 .. i - 1 :
              ~ (k \in DOMAIN trace /\ trace[k].dropped)
        BY <4>1 DEF MayDrop
      <4>3. k \in i - profile.loss_run .. i - 1 /\ k \in Int /\ k <= Len(trace)
        BY <2>2, <3>1, <4>2, ProfileFacts DEF TypeOK
      <4>4. ~ (k \in DOMAIN trace' /\ trace'[k].dropped)
        BY <2>1, <2>2, <4>2, <4>3
      <4>5. i # 1 \/ program = "bench"
        BY <4>1 DEF MayDrop
      <4> QED  BY <4>1, <4>3, <4>4, <4>5 DEF MayDrop
    <3> QED  BY <2>2, <3>1, <3>2, <3>3, <3>4 DEF Encoded, IsGuard
  <2>7. Len(trace') <= FrameCount'
    BY <2>1, <2>2, <2>3
  <2>8. ASSUME NEW k \in DOMAIN trace' PROVE Encoded(k)'
    <3>1. k \in 1 .. Len(trace) \/ k = i
      BY <2>1, <2>2, <2>5
    <3> QED  BY <3>1, <2>4, <2>6
  <2> QED  BY <2>2, <2>7, <2>8 DEF TraceInv
<1>2. CASE ~ EncodeFrame
  <2>1. /\ UNCHANGED <<trace, choice>>
        /\ at' # "encode" => (at = "encode" => Len(trace) = FrameCount)
    BY <1>2 DEF Next, StartReplay, NextArrival, PushArrival, AdvanceClock, PollBuffer,
                LoopBack, LoopTail, Sleep, Play, vars
  <2>2. FrameCount' = FrameCount /\ \A i \in DOMAIN trace : Encoded(i) => Encoded(i)'
    BY <2>1 DEF FrameCount, Encoded, IsGuard, choice
  <2> QED  BY <2>1, <2>2 DEF TraceInv
<1> QED  BY <1>1, <1>2

LEMMA PlaceKept ==
    ASSUME TypeOK, BufferInv, PlaceInv, [Next]_vars
    PROVE  PlaceInv'
<1>1. CASE EncodeFrame
  <2>1. UNCHANGED <<started, output, waiting, now, tick>> /\ at = "encode" /\ at' = at
    BY <1>1 DEF EncodeFrame, buffer
  <2> QED  BY <2>1 DEF PlaceInv
<1>2. CASE StartReplay
  BY <1>2, Frames DEF StartReplay, choice, Deliveries, PlaceInv, TypeOK
<1>3. CASE NextArrival \/ AdvanceClock \/ LoopTail \/ Sleep \/ PollBuffer \/ Play
  <2>1. /\ UNCHANGED <<choice, trace, waiting>> /\ at # "encode" /\ at' # "encode"
        /\ at' \in {"arrivals", "push", "poll"} => at \in {"arrivals", "push", "poll"}
        /\ at' \in {"loop", "sleep", "play"} => at \in {"loop", "sleep", "play"}
    BY <1>3 DEF NextArrival, AdvanceClock, LoopTail, Sleep, PollBuffer, Play
  <2> QED  BY <2>1 DEF PlaceInv, Deliveries, choice
<1>4. CASE PushArrival \/ LoopBack
  BY <1>4 DEF PushArrival, LoopBack, PlaceInv, Deliveries, choice
<1>5. CASE UNCHANGED vars
  BY <1>5 DEF vars, buffer, choice, PlaceInv, Deliveries
<1> QED  BY <1>1, <1>2, <1>3, <1>4, <1>5 DEF Next

-----------------------------------------------------------------------------
(* The clock.                                                              *)

\* Who is pushed next: the first of those still on their way.
LEMMA FirstWaiting ==
    ASSUME TypeOK, NEW e \in waiting
    PROVE  \E x \in waiting : Earliest(x) /\ x.arrival <= e.arrival
<1>1. \A w \in waiting : w.arrival \in Nat /\ w.frame \in Nat
  BY TraceType DEF TypeOK
<1>2. PICK t \in {w.arrival : w \in waiting} : \A u \in {w.arrival : w \in waiting} : t <= u
  <2>1. {w.arrival : w \in waiting} \in SUBSET Nat /\ e.arrival \in {w.arrival : w \in waiting}
    BY <1>1
  <2> QED  BY <2>1, Least
<1> DEFINE Firsts == {w \in waiting : w.arrival = t}
<1>3. PICK f \in {w.frame : w \in Firsts} : \A g \in {w.frame : w \in Firsts} : f <= g
  <2>1. {w.frame : w \in Firsts} \in SUBSET Nat /\ {w.frame : w \in Firsts} # {}
    BY <1>1, <1>2
  <2> QED  BY <2>1, Least
<1>4. PICK x \in Firsts : x.frame = f
  BY <1>3
<1>5. x \in waiting /\ x.arrival = t /\ t \in Nat /\ \A w \in waiting : t <= w.arrival
  BY <1>1, <1>2, <1>4
<1>6. ASSUME NEW w \in waiting
      PROVE  x.arrival < w.arrival \/ (x.arrival = w.arrival /\ x.frame <= w.frame)
  <2>1. CASE w.arrival = t
    BY <1>3, <1>4, <1>5, <2>1
  <2>2. CASE w.arrival # t
    BY <1>1, <1>5, <2>2
  <2> QED  BY <2>1, <2>2
<1> QED  BY <1>5, <1>6 DEF Earliest

\* Pushing and popping take no time, and who anchors the stream.
LEMMA PushAnchor ==
    ASSUME NEW p, JB!Push(p)
    PROVE  /\ now' = now /\ started'
           /\ IF started THEN transit_anchor_arrival' = transit_anchor_arrival
                         ELSE transit_anchor_arrival' = now
BY DEF JB!Push, JB!PushFirst, JB!PushLate, JB!PushEarlier, JB!PushDuplicate, JB!PushAhead,
       JB!cursor, JB!schedule

LEMMA PopAnchor ==
    ASSUME JB!PopEvent
    PROVE  JB!Due /\ UNCHANGED <<now, started, transit_anchor_arrival, anchor_timestamp>>
BY DEF JB!PopEvent, JB!PopPacket, JB!PopEvicted, JB!PopRecovered, JB!PopMissing,
       JB!LoseSlot, JB!EmitSlot, JB!schedule

\* The packets delivered, while the trace stays as it is.
LEMMA SameTrace ==
    ASSUME UNCHANGED trace
    PROVE  /\ Deliveries' = Deliveries
           /\ at # "encode" /\ at' # "encode" /\ waiting' = waiting => Arrived' = Arrived
           /\ \A e \in waiting : at # "encode" /\ at' # "encode" /\ waiting' = waiting \ {e}
                => Arrived' \subseteq Arrived \cup {e}
BY DEF Deliveries, Arrived

LEMMA PollNow ==
    ASSUME PopOne
    PROVE  now' = now
BY PopAnchor DEF PopOne

LEMMA ClockKept ==
    ASSUME TypeOK, TypeOK', TraceInv, PlaceInv, ClockInv, BufferInv, [Next]_vars
    PROVE  ClockInv'
<1> SUFFICES ASSUME program # "loopback" PROVE ClockInv'
  BY DEF ClockInv, Next, EncodeFrame, StartReplay, NextArrival, PushArrival, AdvanceClock,
         PollBuffer, LoopBack, LoopTail, Sleep, Play, vars, choice
<1>1. /\ now \in Nat /\ tick \in Nat /\ \A e \in Deliveries : e.arrival \in Nat
      /\ waiting \subseteq Deliveries
  BY Entries DEF BufferInv, JB!TypeOK, TypeOK, PlaceInv
<1>2. /\ now <= tick /\ \A e \in Arrived : e.arrival <= tick
      /\ at \in {"arrivals", "push"} =>
           /\ \A e \in waiting : now <= e.arrival /\ tick - Poll < e.arrival
           /\ program = "bench" => tick - Poll <= now
      /\ at = "push" /\ program = "trace" => \E e \in Arriving : now = e.arrival
      /\ at = "poll" => now = tick /\ \A e \in waiting : tick < e.arrival
  BY DEF ClockInv
<1>3. CASE EncodeFrame
  BY <1>2, <1>3 DEF EncodeFrame, ClockInv, Arrived, buffer
<1>4. CASE StartReplay
  <2>1. now = 0 /\ tick = 0 /\ now' = 0 /\ tick' = 0
    BY <1>4 DEF StartReplay, PlaceInv
  <2>2. waiting' = Deliveries /\ trace' = trace /\ at' \in {"loop", "arrivals"}
    BY <1>4 DEF StartReplay, Deliveries
  <2>3. Arrived' = {}
    BY <2>2, SameTrace DEF Arrived
  <2> QED  BY <1>1, <2>1, <2>2, <2>3, Constants DEF ClockInv
<1>5. CASE NextArrival
  <2>1. PICK e \in Arriving : SetClock(e)
    BY <1>5 DEF NextArrival
  <2>2. /\ UNCHANGED <<trace, waiting, tick, program>> /\ at = "arrivals" /\ at' = "push"
        /\ Arriving' = Arriving
    BY <1>5 DEF NextArrival, Arriving, Earliest, choice
  <2>3. Arrived' = Arrived
    BY <2>2, SameTrace
  <2>4. e \in waiting /\ e.arrival <= tick /\ \A w \in waiting : e.arrival <= w.arrival
    BY <1>1, <2>1 DEF Arriving, Earliest
  <2>5. CASE program = "trace"
    <3>1. now' = e.arrival
      BY <2>1, <2>5 DEF SetClock
    <3> QED  BY <1>1, <1>2, <2>1, <2>2, <2>3, <2>4, <2>5, <3>1 DEF ClockInv
  <2>6. CASE program # "trace"
    <3>1. now' = now
      BY <2>1, <2>6 DEF SetClock
    <3> QED  BY <1>2, <2>2, <2>3, <2>6, <3>1 DEF ClockInv
  <2> QED  BY <2>5, <2>6
<1>6. CASE PushArrival
  <2>1. PICK e \in Arriving : JB!Push(AudioPacket(e.frame)) /\ waiting' = waiting \ {e}
    BY <1>6 DEF PushArrival
  <2>2. /\ UNCHANGED <<trace, tick, program, now>> /\ at = "push" /\ at' = "arrivals"
        /\ e \in waiting /\ e.arrival <= tick
    BY <1>6, <2>1, PushAnchor DEF PushArrival, choice, Arriving
  <2>3. Arrived' \subseteq Arrived \cup {e}
    BY <2>1, <2>2, SameTrace
  <2> QED  BY <1>2, <2>1, <2>2, <2>3 DEF ClockInv
<1>7. CASE AdvanceClock
  <2>1. /\ UNCHANGED <<trace, waiting, tick, program>> /\ now' = tick
        /\ at = "arrivals" /\ at' = "poll" /\ Arriving = {}
    BY <1>7 DEF AdvanceClock, choice
  <2>2. \A w \in waiting : tick < w.arrival
    <3>1. ASSUME NEW w \in waiting, ~ (tick < w.arrival) PROVE FALSE
      <4>1. PICK x \in waiting : Earliest(x) /\ x.arrival <= w.arrival
        BY FirstWaiting
      <4>2. x \in Arriving
        BY <1>1, <3>1, <4>1 DEF Arriving
      <4> QED  BY <2>1, <4>2
    <3> QED  BY <3>1
  <2> QED  BY <1>1, <1>2, <2>1, <2>2, SameTrace DEF ClockInv
<1>8. CASE PollBuffer
  <2>1. /\ UNCHANGED <<trace, waiting, program, now>> /\ tick' = tick + Poll
        /\ at = "poll" /\ at' \in {"arrivals", "done"}
    BY <1>8, PollNow DEF PollBuffer, choice
  <2>2. Arrived' = Arrived
    BY <2>1, SameTrace
  <2>3. /\ now' <= tick' /\ tick' - Poll = tick /\ now = tick
        /\ \A e \in Arrived : e.arrival <= tick'
        /\ \A e \in waiting : tick < e.arrival
    <3>1. ASSUME NEW e \in Arrived PROVE e.arrival <= tick'
      <4>1. e.arrival <= tick /\ e.arrival \in Nat
        BY <1>1, <1>2 DEF Arrived
      <4> QED  BY <1>1, <2>1, <4>1, Constants
    <3> QED  BY <1>1, <1>2, <2>1, <3>1, Constants
  <2> QED  BY <1>1, <2>1, <2>2, <2>3 DEF ClockInv
<1>9. LoopBack \/ LoopTail \/ Sleep \/ Play => FALSE
  BY DEF LoopBack, LoopTail, Sleep, Play, PlaceInv
<1>10. CASE UNCHANGED vars
  BY <1>2, <1>10 DEF vars, choice, ClockInv, Arrived, Deliveries, Arriving, Earliest
<1> QED  BY <1>3, <1>4, <1>5, <1>6, <1>7, <1>8, <1>9, <1>10 DEF Next

-----------------------------------------------------------------------------
(* Content is held back.                                                   *)

LEMMA DueHeld ==
    ASSUME BufferInv, JB!Due
    PROVE  /\ started /\ now \in Nat /\ transit_anchor_arrival \in Nat
           /\ now >= transit_anchor_arrival + JB!StartupTarget
<1>1. started /\ now >= JB!DeadlineFor(JB!NextSlotTimestamp)
  BY DEF JB!Due, JB!NextDeadline
<1>2. JB!NextSlotTimestamp \in Int /\ anchor_timestamp \in Int
  <2>1. JB!NextSlotTimestamp \in JB!Timestamp
    <3>1. \A k \in JB!Buffered : packets[k].timestamp \in JB!Timestamp
      BY BufferAssumption, JB!SentType DEF BufferInv, JB!TypeOK
    <3> QED  BY <3>1 DEF JB!NextSlotTimestamp, BufferInv, JB!TypeOK
  <2> QED  BY <2>1, Constants DEF JB!Timestamp, BufferInv, JB!TypeOK
<1>3. PICK wait \in Nat : wait = JB!TsSub(JB!NextSlotTimestamp, anchor_timestamp)
  BY <1>2, BufferAssumption, JB!TsArithmetic, Constants DEF JB!Timestamp
<1>4. /\ anchor_deadline = transit_anchor_arrival + current_target_latency
      /\ JB!StartupTarget <= current_target_latency
  BY <1>1 DEF BufferInv, JB!StartupInv, JB!StartupDelay
<1>5. /\ now \in Nat /\ transit_anchor_arrival \in Nat /\ current_target_latency \in Nat
  BY DEF BufferInv, JB!TypeOK
<1> QED  BY <1>1, <1>3, <1>4, <1>5, Constants DEF JB!DeadlineFor

LEMMA HeldKept ==
    ASSUME TypeOK, BufferInv, TraceInv, PlaceInv, ClockInv, HeldInv, [Next]_vars
    PROVE  HeldInv'
<1>1. ClockLag \in Nat /\ JB!StartupTarget \in Nat
  BY Constants DEF ClockLag
<1>2. JB!StartupTarget' = JB!StartupTarget
  BY DEF JB!StartupTarget
<1>3. choice' = choice
  BY DEF Next, EncodeFrame, StartReplay, NextArrival, PushArrival, AdvanceClock,
         PollBuffer, LoopBack, LoopTail, Sleep, Play, vars
<1>4. program' = program /\ ClockLag' = ClockLag
  BY <1>3 DEF choice, ClockLag
<1>5. CASE EncodeFrame
  <2>1. ~started' /\ output' = <<>>
    BY <1>5 DEF EncodeFrame, PlaceInv, buffer
  <2> QED  BY <2>1 DEF HeldInv
<1>6. CASE ~EncodeFrame
  <2>1. trace' = trace
    BY <1>6 DEF Next, StartReplay, NextArrival, PushArrival, AdvanceClock,
         PollBuffer, LoopBack, LoopTail, Sleep, Play, vars
  <2>2. Deliveries' = Deliveries
    BY <2>1, SameTrace
  <2>3. ASSUME NEW e \in waiting, JB!Push(AudioPacket(e.frame)), PushArrival \/ LoopBack
        PROVE  HeldInv'
    <3>1. output' = output
      BY <2>3 DEF PushArrival, LoopBack
    <3>2. \/ started /\ transit_anchor_arrival' = transit_anchor_arrival
          \/ transit_anchor_arrival' = now
      BY <2>3, PushAnchor
    <3>3. program # "loopback" =>
            \E x \in Deliveries : x.arrival - ClockLag <= now
      <4> SUFFICES ASSUME program # "loopback"
                   PROVE  \E x \in Deliveries : x.arrival - ClockLag <= now
        OBVIOUS
      <4>1. PushArrival /\ at = "push"
        BY <2>3 DEF LoopBack, PushArrival, PlaceInv
      <4>2. now \in Nat /\ tick \in Nat
        BY DEF BufferInv, JB!TypeOK, TypeOK
      <4>3. CASE program = "trace"
        <5>1. PICK x \in Arriving : now = x.arrival
          BY <4>1, <4>3 DEF ClockInv
        <5>2. x \in Deliveries /\ x.arrival - ClockLag <= now
          BY <1>1, <4>2, <5>1 DEF Arriving, PlaceInv
        <5> QED  BY <5>2
      <4>4. CASE program # "trace"
        <5>1. program = "bench" /\ ClockLag = Poll
          BY <4>4, Frames DEF TypeOK, ClockLag
        <5>2. PICK x \in Arriving : x.arrival <= tick
          BY <4>1 DEF PushArrival, Arriving
        <5>3. x \in Deliveries /\ tick - Poll <= now
          BY <4>1, <5>1, <5>2 DEF Arriving, PlaceInv, ClockInv
        <5>4. x.arrival \in Nat
          BY <5>3, Entries
        <5> QED  BY <4>2, <5>1, <5>2, <5>3, <5>4, Constants
      <4> QED  BY <4>3, <4>4
    <3> QED  BY <1>2, <1>4, <2>2, <3>1, <3>2, <3>3 DEF HeldInv
  <2>4. ASSUME PollBuffer \/ Play PROVE HeldInv'
    <3>1. PopOne
      BY <2>4 DEF PollBuffer, Play
    <3>2. UNCHANGED <<started, transit_anchor_arrival>>
      BY <3>1, PopAnchor DEF PopOne, buffer
    <3>3. CASE output' = output
      BY <1>2, <1>4, <2>2, <3>2, <3>3 DEF HeldInv
    <3>4. ASSUME JB!PopEvent, NEW event, event.at = now, output' = Append(output, event)
          PROVE  HeldInv'
      <4>1. /\ started /\ now \in Nat /\ transit_anchor_arrival \in Nat
            /\ now >= transit_anchor_arrival + JB!StartupTarget
        BY <3>4, PopAnchor, DueHeld
      <4>2. /\ now >= JB!StartupTarget
            /\ program # "loopback" =>
                 \E e \in Deliveries : now >= e.arrival - ClockLag + JB!StartupTarget
        <5>1. now >= JB!StartupTarget
          BY <1>1, <4>1
        <5>2. ASSUME program # "loopback"
              PROVE  \E e \in Deliveries : now >= e.arrival - ClockLag + JB!StartupTarget
          <6>1. PICK e \in Deliveries : e.arrival - ClockLag <= transit_anchor_arrival
            BY <4>1, <5>2 DEF HeldInv
          <6>2. e.arrival \in Nat
            BY Entries
          <6>3. now >= e.arrival - ClockLag + JB!StartupTarget
            BY <1>1, <4>1, <6>1, <6>2
          <6> QED  BY <6>3
        <5> QED  BY <5>1, <5>2
      <4>3. ASSUME NEW i \in DOMAIN output'
            PROVE  \/ i \in DOMAIN output /\ output'[i] = output[i]
                   \/ output'[i] = event
        <5>1. output \in Seq([frame : 0 .. ContentFrames - 1, at : Nat,
                              kind : {"packet", "recovered", "missing"}])
          BY DEF TypeOK
        <5> HIDE DEF TypeOK
        <5> QED  BY <3>4, <4>3, <5>1
      <4> QED  BY <1>2, <1>4, <2>2, <3>2, <3>4, <4>2, <4>3 DEF HeldInv
    <3> QED  BY <3>1, <3>3, <3>4, PlayedOne
  <2>5. ASSUME UNCHANGED <<started, transit_anchor_arrival, output>> PROVE HeldInv'
    BY <1>2, <1>4, <2>2, <2>5 DEF HeldInv
  <2>6. StartReplay \/ NextArrival \/ AdvanceClock \/ LoopTail \/ Sleep \/ UNCHANGED vars =>
          UNCHANGED <<started, transit_anchor_arrival, output>>
    BY DEF StartReplay, NextArrival, AdvanceClock, LoopTail, Sleep, vars, buffer
  <2>7. PushArrival \/ LoopBack => \E e \in waiting : JB!Push(AudioPacket(e.frame))
    BY DEF PushArrival, LoopBack, Arriving
  <2> QED  BY <1>6, <2>3, <2>4, <2>5, <2>6, <2>7 DEF Next
<1> QED  BY <1>5, <1>6

-----------------------------------------------------------------------------
(* The stream: before it starts, and while it waits.                       *)

Fresh == /\ TypeOK /\ BufferInv /\ ~started /\ output = <<>> /\ Arrived = {}
         /\ tick = 0 /\ at # "done"

LEMMA FreshStream == Fresh => StreamInv
<1> SUFFICES ASSUME Fresh PROVE StreamInv
  OBVIOUS
<1>1. /\ ~started /\ ~playout_started /\ log = <<>> /\ JB!Buffered = {} /\ JB!Evicted = {}
      /\ output = <<>> /\ Arrived = {} /\ tick = 0 /\ at # "done"
  BY DEF Fresh, BufferInv, JB!SlotInv, JB!Quiet
<1>2. evicted_slots = JB!Nothing
  <2>1. evicted_slots \in [{} -> JB!Timestamp]
    BY <1>1 DEF Fresh, BufferInv, JB!TypeOK
  <2> QED  BY <2>1 DEF JB!Nothing
<1>3. First \in Int /\ JB!Aligned(First, First)
  <2>1. First \in Int /\ First = First + 0 * SeqSpace
    BY Frames, Constants DEF Fresh, TypeOK
  <2> QED  BY <2>1 DEF JB!Aligned
<1>4. SlotsAt(First) /\ ScheduledAt(First) /\ OutputAt(First) /\ DoneAt(First)
  BY <1>1, <1>2, <1>3 DEF SlotsAt, ScheduledAt, OutputAt, DoneAt
<1>5. LagAt(First)
  <2>1. 0 * FrameTicks = 0 /\ profile.base_delay \in Nat /\ Slack(profile) \in Nat
    BY Constants, ProfileFacts DEF Fresh, TypeOK
  <2> QED  BY <1>1, <2>1 DEF LagAt, Cursor
<1> QED  BY <1>3, <1>4, <1>5 DEF StreamInv

LEMMA FreshNext == Fresh' => StreamInv'
BY FreshStream, PTL

\* Nothing but time passes for the stream.
StreamWaits ==
    /\ UNCHANGED <<buffer, choice, trace, waiting, tick, output>>
    /\ at = "encode" <=> at' = "encode"
    /\ now <= now'
    /\ at' = "done" => at = "done" \/ (waiting = {} /\ ~JB!HasPending
                                         /\ program = "loopback" /\ at # "encode")

LEMMA WaitingKept ==
    ASSUME TypeOK, BufferInv, TraceInv, StreamInv, StreamWaits, now' \in Nat
    PROVE  StreamInv'
<1>1. PICK base \in Int : /\ SlotsAt(base) /\ ScheduledAt(base) /\ LagAt(base)
                          /\ OutputAt(base) /\ DoneAt(base)
  BY DEF StreamInv
<1>2. UNCHANGED <<buffer, program, profile, trace, waiting, tick, output>>
  BY DEF StreamWaits, choice
<1>3. UNCHANGED <<packets, evicted_slots, next_seq, started, next_timestamp,
                  anchor_timestamp, playout_started, transit_anchor_arrival, log>>
  BY <1>2 DEF buffer
<1>4. Arrived' = Arrived /\ Deliveries' = Deliveries /\ JB!Buffered' = JB!Buffered
  BY <1>2, <1>3 DEF Arrived, Deliveries, StreamWaits, JB!Buffered
<1>5. First' = First /\ Cursor(base)' = Cursor(base) /\ \A f : AudioPacket(f)' = AudioPacket(f)
  BY <1>2, <1>3 DEF First, Cursor, AudioPacket
<1>6. SlotsAt(base)'
  BY <1>1, <1>3, <1>4, <1>5 DEF SlotsAt
<1>7. ScheduledAt(base)'
  <2>1. now \in Nat /\ transit_anchor_arrival \in Nat
    BY DEF BufferInv, JB!TypeOK
  <2> QED  BY <1>1, <1>2, <1>3, <1>5, <2>1 DEF ScheduledAt, Stamp, StreamWaits
<1>8. LagAt(base)'
  BY <1>1, <1>2, <1>4, <1>5 DEF LagAt, StreamWaits
<1>9. OutputAt(base)'
  BY <1>1, <1>2, <1>3 DEF OutputAt
<1>10. DoneAt(base)'
  <2>1. CASE at = "done"
    BY <1>1, <1>2, <1>4, <1>5, <2>1 DEF DoneAt
  <2>2. ASSUME waiting = {}, ~JB!HasPending, program = "loopback", at # "encode",
               NEW e \in Deliveries
        PROVE  e.frame < Cursor(base)
    <3>1. e \in Arrived /\ JB!Buffered = {}
      BY <2>2 DEF Arrived, JB!HasPending
    <3>2. started /\ base + e.frame < next_seq
      BY <1>1, <3>1 DEF SlotsAt
    <3>3. e.frame \in Nat /\ next_seq \in Int
      BY <2>2, Entries DEF BufferInv, JB!TypeOK
    <3> QED  BY <3>2, <3>3 DEF Cursor
  <2> QED  BY <1>2, <1>4, <1>5, <2>1, <2>2 DEF DoneAt, StreamWaits
<1> QED  BY <1>6, <1>7, <1>8, <1>9, <1>10 DEF StreamInv

-----------------------------------------------------------------------------
(* A packet is pushed.                                                     *)

LEMMA ArrivedGrows ==
    ASSUME PlaceInv, NEW e \in waiting, waiting' = waiting \ {e}, trace' = trace,
           at # "encode", at' # "encode"
    PROVE  Arrived' = Arrived \cup {e} /\ Deliveries' = Deliveries /\ e \in Deliveries
BY DEF Arrived, Deliveries, PlaceInv

\* What a push does to the cursor and the slots, if its frame is its slot's.
PushKept(base, f) ==
    /\ started
    /\ UNCHANGED <<packets, evicted_slots, next_seq, next_timestamp,
                   anchor_timestamp, transit_anchor_arrival>>
    /\ base + f \in JB!Buffered \/ (playout_started /\ base + f < next_seq)

PushAnchors(base, f) ==
    /\ next_seq' = base + f
    /\ next_timestamp' = Stamp(f) /\ anchor_timestamp' = Stamp(f)
    /\ \/ ~started /\ transit_anchor_arrival' = now
       \/ /\ started /\ ~playout_started /\ base + f < next_seq
          /\ transit_anchor_arrival' = transit_anchor_arrival

PushBehind(base, f) ==
    /\ started /\ base + f >= next_seq
    /\ UNCHANGED <<next_seq, next_timestamp, anchor_timestamp, transit_anchor_arrival>>

PushesAt(base, b, f) ==
    /\ JB!Aligned(b, First) /\ (started => b = base)
    /\ started' /\ now' = now /\ log' = log /\ playout_started' = playout_started
    /\ \/ PushKept(b, f)
       \/ /\ JB!Store(AudioPacket(f), b + f) /\ b + f \notin JB!Buffered
          /\ PushAnchors(b, f) \/ PushBehind(b, f)

LEMMA PushCases ==
    ASSUME TypeOK, BufferInv, TraceInv, NEW base \in Int, SlotsAt(base),
           NEW e \in Deliveries, JB!Push(AudioPacket(e.frame))
    PROVE  \E b \in Int : PushesAt(base, b, e.frame)
<1>1. PICK f \in Nat : f = e.frame /\ f \in 0 .. ContentFrames + GuardFrames - 1
  BY Entries
<1>2. PICK p : p = AudioPacket(f)
  OBVIOUS
<1>3. /\ p.sequence_number = (First + f) % SeqSpace /\ p.timestamp = Stamp(f)
      /\ JB!Push(p) /\ First \in Int
  BY <1>1, <1>2, Packets, Frames DEF TypeOK
<1>4. /\ next_seq \in Int /\ JB!Evicted = {}
      /\ \A k \in JB!Buffered : k >= next_seq
      /\ ~started => JB!Buffered = {}
  BY DEF BufferInv, JB!TypeOK, SlotsAt, JB!Nothing, JB!Evicted, JB!SlotInv, JB!PendingAhead,
         JB!Quiet
<1>5. CASE JB!PushFirst(p)
  <2>1. p.sequence_number \in Int
        /\ \E q \in Int : First + f = q * SeqSpace + p.sequence_number
    <3>1. PICK a \in Int : a = First + f
      BY <1>1, <1>3
    <3>2. a % SeqSpace \in 0 .. SeqSpace - 1 /\ \E q \in Int : a = q * SeqSpace + (a % SeqSpace)
      BY Constants, BufferAssumption, JB!Modulo
    <3>3. p.sequence_number = a % SeqSpace
      BY <1>3, <3>1
    <3>4. PICK q \in Int : a = q * SeqSpace + (a % SeqSpace)
      BY <3>2
    <3>5. First + f = q * SeqSpace + p.sequence_number
      BY <3>1, <3>3, <3>4
    <3>6. p.sequence_number \in Int
      BY <3>2, <3>3, Constants
    <3> QED  BY <3>5, <3>6
  <2>2. PICK q \in Int : First + f = q * SeqSpace + p.sequence_number
    BY <2>1
  <2>3. PICK b \in Int : b = p.sequence_number - f
    BY <1>1, <2>1
  <2>4. JB!Aligned(b, First)
    <3>1. (-q) * SeqSpace = -(q * SeqSpace) /\ q * SeqSpace \in Int /\ -q \in Int
      BY Constants, SMT
    <3>2. b = First + (-q) * SeqSpace
      BY <1>1, <1>3, <2>1, <2>2, <2>3, <3>1
    <3> QED  BY <3>1, <3>2 DEF JB!Aligned
  <2>5. p.sequence_number = b + f
    BY <1>1, <2>1, <2>3
  <2>6. /\ ~started /\ started' /\ log' = log /\ playout_started' = playout_started
        /\ now' = now /\ JB!Store(p, b + f) /\ b + f \notin JB!Buffered
        /\ next_seq' = b + f /\ next_timestamp' = Stamp(f) /\ anchor_timestamp' = Stamp(f)
        /\ transit_anchor_arrival' = now
    BY <1>3, <1>4, <1>5, <2>5 DEF JB!PushFirst
  <2> QED  BY <1>1, <1>2, <2>4, <2>6 DEF PushesAt, PushAnchors
<1>6. CASE ~ JB!PushFirst(p)
  <2>1. started /\ base <= next_seq
    BY <1>3, <1>6 DEF JB!Push, JB!PushLate, JB!PushEarlier, JB!PushDuplicate, JB!PushAhead,
                      SlotsAt
  <2>2. next_seq <= base + ContentFrames + GuardFrames
    <3>1. PICK x \in Arrived : next_seq <= base + x.frame + 1
      BY <2>1 DEF SlotsAt
    <3>2. x.frame \in 0 .. ContentFrames + GuardFrames - 1
      BY <3>1, Entries DEF Arrived
    <3> QED  BY <1>4, <3>1, <3>2, Constants
  <2>3. JB!Extend(p.sequence_number, next_seq) = base + f
    <3>1. /\ -SeqSpace <= 2 * (base + f - next_seq)
          /\ 2 * (base + f - next_seq) < SeqSpace
      <4>1. 2 * (ContentFrames + GuardFrames) <= SeqSpace
        BY ReplayAssumption DEF ReplayAssumption
      <4> QED  BY <1>1, <1>4, <2>1, <2>2, <4>1, Constants
    <3>2. JB!Aligned(base, First)
      BY DEF SlotsAt
    <3>3. JB!Extend((First + f) % SeqSpace, next_seq) = base + f
      BY <1>3, <1>4, <3>1, <3>2, BufferAssumption, JB!ExtendFinds
    <3> QED  BY <1>3, <3>3
  <2>4. CASE JB!PushLate(p) \/ JB!PushDuplicate(p)
    <3>1. /\ UNCHANGED <<packets, evicted_slots, next_seq, next_timestamp, started,
                         playout_started, anchor_timestamp, transit_anchor_arrival, now, log>>
          /\ base + f \in JB!Buffered \/ (playout_started /\ base + f < next_seq)
      BY <1>4, <2>3, <2>4 DEF JB!PushLate, JB!PushDuplicate, JB!cursor, JB!schedule
    <3> QED  BY <1>1, <2>1, <3>1 DEF PushesAt, PushKept, SlotsAt
  <2>5. CASE JB!PushEarlier(p)
    <3>1. /\ UNCHANGED <<started, playout_started, transit_anchor_arrival, now, log>>
          /\ ~playout_started /\ base + f < next_seq /\ next_seq' = base + f
          /\ next_timestamp' = Stamp(f) /\ anchor_timestamp' = Stamp(f)
          /\ JB!Store(p, base + f)
      BY <1>3, <2>3, <2>5 DEF JB!PushEarlier
    <3>2. base + f \notin JB!Buffered
      BY <1>1, <1>4, <3>1
    <3> QED  BY <1>1, <1>2, <2>1, <3>1, <3>2 DEF PushesAt, PushAnchors, SlotsAt
  <2>6. CASE JB!PushAhead(p)
    <3>1. /\ UNCHANGED <<started, playout_started, next_seq, next_timestamp, anchor_timestamp,
                         transit_anchor_arrival, now, log>>
          /\ base + f >= next_seq /\ base + f \notin JB!Buffered
          /\ JB!Store(p, base + f)
      BY <2>3, <2>6 DEF JB!PushAhead, JB!cursor
    <3> QED  BY <1>1, <1>2, <2>1, <3>1 DEF PushesAt, PushBehind, SlotsAt
  <2> QED  BY <1>3, <1>6, <2>4, <2>5, <2>6 DEF JB!Push
<1> QED  BY <1>5, <1>6

\* The slots between two bounds are few.
LEMMA FewSlots ==
    ASSUME NEW a \in Int, NEW n \in Nat, NEW S \in SUBSET (a .. a + n - 1)
    PROVE  JB!Cardinality(S) <= n
<1>1. PICK b \in Int : b = a + n - 1
  OBVIOUS
<1>2. /\ JB!IsFiniteSet(a .. b) /\ JB!Cardinality(a .. b) = IF a > b THEN 0 ELSE b - a + 1
  BY BufferAssumption, JB!FS_Interval
<1>3. JB!Cardinality(a .. b) = n
  BY <1>1, <1>2
<1>4. S \in SUBSET (a .. b)
  BY <1>1
<1>5. JB!Cardinality(S) <= JB!Cardinality(a .. b)
  BY <1>2, <1>4, BufferAssumption, JB!FS_Subset
<1> QED  BY <1>3, <1>5

\* What is left to play once e has arrived is within the lag: the poll is not
\* so far behind the cursor that more frames could be waiting than fit.
LEMMA WithinBuffer ==
    ASSUME TypeOK, TraceInv, NEW cursor \in Nat, NEW x \in Deliveries,
           x.arrival <= tick, tick <= cursor * FrameTicks + profile.base_delay + Slack(profile)
    PROVE  x.frame <= cursor + MaxPackets - 1
<1>1. PICK g \in Nat : g = x.frame
  BY Entries
<1>2. PICK late \in Int : late = g * FrameTicks
  BY Product
<1>3. PICK played \in Int : played = cursor * FrameTicks
  BY Product
<1>4. PICK room \in Int : room = (MaxPackets - 1) * FrameTicks
  BY Constants, Product
<1>5. PICK delay \in Nat, most \in Nat, slack \in Nat :
        delay = profile.base_delay /\ most = profile.jitter /\ slack = Slack(profile)
  BY ProfileFacts DEF TypeOK
<1>6. slack + most <= room
  BY <1>4, <1>5, ProfileFacts DEF TypeOK
<1>7. x.arrival >= late + delay - most /\ x.arrival \in Nat
  BY <1>1, <1>2, <1>5, Entries
<1>8. tick \in Nat /\ x.arrival <= tick /\ tick <= played + delay + slack
  BY <1>3, <1>5 DEF TypeOK
<1>9. late <= played + room
  BY <1>6, <1>7, <1>8
<1>10. (cursor + (MaxPackets - 1)) * FrameTicks = played + room
  BY <1>3, <1>4, Times, Constants
<1>11. ASSUME g >= cursor + (MaxPackets - 1) + 1 PROVE FALSE
  <2>1. PICK n \in Int : n = cursor + (MaxPackets - 1)
    BY Constants
  <2>2. (n + 1) * FrameTicks <= late
    <3>1. PICK k \in Int : k = n + 1
      BY <2>1
    <3>2. k <= g /\ g \in Int
      BY <1>11, <2>1, <3>1
    <3> QED  BY <1>2, <3>1, <3>2, Times
  <2>3. (n + 1) * FrameTicks = played + room + FrameTicks
    BY <1>10, <2>1, Times
  <2> QED  BY <1>9, <2>2, <2>3, <1>2, <1>3, <1>4, Constants
<1> QED  BY <1>1, <1>11, Constants

\* Storing a packet evicts none.
LEMMA StoredWithin ==
    ASSUME BufferInv, NEW p, NEW slot \in Int, JB!Store(p, slot),
           NEW from \in Int, JB!Buffered \cup {slot} \subseteq from .. from + MaxPackets - 1
    PROVE  /\ evicted_slots' = evicted_slots
           /\ packets' = [k \in JB!Buffered \cup {slot} |-> IF k = slot THEN p ELSE packets[k]]
           /\ JB!Buffered' = JB!Buffered \cup {slot}
<1> DEFINE held == [k \in JB!Buffered \cup {slot} |-> IF k = slot THEN p ELSE packets[k]]
<1>1. DOMAIN held = JB!Buffered \cup {slot} /\ JB!StoreWithin(held)
  BY DEF JB!Store
<1>2. JB!Cardinality(DOMAIN held) <= MaxPackets
  <2>1. DOMAIN held \in SUBSET (from .. from + MaxPackets - 1) /\ MaxPackets \in Nat
    BY <1>1, Constants
  <2> HIDE DEF held
  <2> QED  BY <2>1, FewSlots
<1>3. MaxPackets <= JB!Capacity /\ JB!Capacity \in Nat /\ JB!Cardinality(DOMAIN held) \in Nat
  <2>1. JB!IsFiniteSet(DOMAIN held)
    <3>1. JB!IsFiniteSet(JB!Buffered)
      BY DEF BufferInv, JB!TypeOK
    <3> QED  BY <1>1, <3>1, BufferAssumption, JB!FS_AddElement
  <2> HIDE DEF held
  <2> QED  BY <2>1, BufferAssumption, JB!FS_CardinalityType, Constants DEF JB!Capacity, JB!MaxOf
<1>4. ~ (JB!Cardinality(DOMAIN held) > JB!Capacity)
  <2> HIDE DEF held
  <2> QED  BY <1>2, <1>3, Constants
<1>5. packets' = held /\ evicted_slots' = evicted_slots
  <2> HIDE DEF held
  <2> QED  BY <1>1, <1>4 DEF JB!StoreWithin
<1>6. JB!Buffered' = DOMAIN held
  <2> HIDE DEF held
  <2> QED  BY <1>5 DEF JB!Buffered
<1> QED  BY <1>1, <1>5, <1>6

\* A step that pushes e, the next of those on their way.
Pushes(e) ==
    /\ e \in waiting /\ Earliest(e) /\ waiting' = waiting \ {e}
    /\ JB!Push(AudioPacket(e.frame))
    /\ UNCHANGED <<choice, trace, tick, output>>
    /\ at \in {"push", "loop"} /\ at' \in {"arrivals", "sleep"}
    /\ program # "loopback" => at = "push" /\ e.arrival <= tick

LEMMA PushSteps ==
    ASSUME TypeOK, PlaceInv, PushArrival \/ LoopBack
    PROVE  \E e \in waiting : Pushes(e)
BY DEF PushArrival, LoopBack, Pushes, Arriving, PlaceInv

\* The instants of a push, and its frame.
LEMMA PushFacts ==
    ASSUME TypeOK, BufferInv, TraceInv, PlaceInv, ClockInv,
           NEW base \in Int, SlotsAt(base), NEW b \in Int, NEW e, Pushes(e),
           PushesAt(base, b, e.frame)
    PROVE  /\ e \in Deliveries /\ Arrived' = Arrived \cup {e} /\ Deliveries' = Deliveries
           /\ e.frame \in Nat /\ e.frame \in 0 .. FrameCount - 1
           /\ e.arrival \in Nat /\ now \in Nat /\ tick \in Nat /\ next_seq \in Int
           /\ First' = First /\ \A f : AudioPacket(f)' = AudioPacket(f)
           /\ program' = program /\ profile' = profile /\ started'
           /\ started => base <= next_seq
           /\ program # "loopback" =>
                /\ tick - Poll < e.arrival /\ now <= e.arrival
                /\ \A x \in Arrived' : x.arrival <= tick
<1>1. /\ e \in waiting /\ waiting' = waiting \ {e} /\ trace' = trace
      /\ at # "encode" /\ at' # "encode"
  BY DEF Pushes
<1>2. Arrived' = Arrived \cup {e} /\ Deliveries' = Deliveries /\ e \in Deliveries
  BY <1>1, ArrivedGrows
<1>3. program' = program /\ profile' = profile
  BY DEF Pushes, choice
<1>4. First' = First /\ \A f : AudioPacket(f)' = AudioPacket(f)
  BY <1>3 DEF First, AudioPacket
<1>5. program # "loopback" => /\ tick - Poll < e.arrival /\ now <= e.arrival
                              /\ \A x \in Arrived' : x.arrival <= tick
  BY <1>1, <1>2 DEF Pushes, ClockInv
<1>6. now \in Nat /\ tick \in Nat /\ next_seq \in Int
  BY DEF BufferInv, JB!TypeOK, TypeOK
<1>7. started' /\ (started => base <= next_seq)
  BY DEF PushesAt, SlotsAt
<1> QED  BY <1>2, <1>3, <1>4, <1>5, <1>6, <1>7, Entries

\* The cursor of a stream that is pushed to.
LEMMA PushCursor ==
    ASSUME TypeOK, BufferInv, TraceInv, PlaceInv, ClockInv,
           NEW base \in Int, SlotsAt(base), NEW b \in Int, NEW e, Pushes(e),
           PushesAt(base, b, e.frame)
    PROVE  /\ Cursor(base) \in Nat /\ Cursor(b)' \in Nat /\ next_seq' \in Int
           /\ next_seq' = b + Cursor(b)' /\ (started => next_seq = b + Cursor(base))
           /\ \/ PushAnchors(b, e.frame) /\ Cursor(b)' = e.frame
              \/ ~PushAnchors(b, e.frame) /\ started /\ Cursor(b)' = Cursor(base)
                   /\ next_seq' = next_seq
<1>1. e.frame \in Nat /\ next_seq \in Int /\ (started => base <= next_seq) /\ started'
  BY PushFacts
<1>2. started => b = base
  BY DEF PushesAt
<1>3. CASE PushAnchors(b, e.frame)
  BY <1>1, <1>2, <1>3 DEF PushAnchors, Cursor
<1>4. CASE ~PushAnchors(b, e.frame)
  <2>1. started /\ next_seq' = next_seq
    BY <1>4 DEF PushesAt, PushKept, PushBehind
  <2> QED  BY <1>1, <1>2, <1>4, <2>1 DEF Cursor
<1> QED  BY <1>3, <1>4

LEMMA PushLag ==
    ASSUME TypeOK, BufferInv, TraceInv, PlaceInv, ClockInv,
           NEW base \in Int, SlotsAt(base), LagAt(base), NEW b \in Int, NEW e, Pushes(e),
           PushesAt(base, b, e.frame)
    PROVE  LagAt(b)'
<1> SUFFICES ASSUME program # "loopback", NEW x \in Deliveries, x.frame >= Cursor(b)'
             PROVE  tick <= Cursor(b)' * FrameTicks + profile.base_delay + Slack(profile)
  <2>1. tick' = tick /\ Deliveries' = Deliveries /\ program' = program /\ profile' = profile
    BY PushFacts DEF Pushes
  <2> QED  BY <2>1 DEF LagAt
<1>1. /\ e \in Deliveries /\ e.frame \in Nat /\ e.arrival \in Nat /\ tick \in Nat
      /\ tick - Poll < e.arrival
  BY PushFacts
<1>2. PICK delay \in Nat, most \in Nat, slack \in Nat :
        /\ delay = profile.base_delay /\ most = profile.jitter /\ slack = Slack(profile)
        /\ slack >= most + Poll + MaxLatency
  BY ProfileFacts DEF TypeOK
<1>3. Cursor(base) \in Nat /\ Cursor(b)' \in Nat
  BY PushCursor
<1>4. CASE PushAnchors(b, e.frame)
  <2>1. PICK sent \in Int : sent = e.frame * FrameTicks
    BY <1>1, Product
  <2>2. e.arrival <= sent + delay + most
    BY <1>1, <1>2, <2>1, Entries
  <2>3. tick <= sent + delay + slack
    BY <1>1, <1>2, <2>2, Constants
  <2>4. Cursor(b)' = e.frame
    BY <1>4, PushCursor
  <2> QED  BY <1>2, <2>1, <2>3, <2>4
<1>5. CASE ~PushAnchors(b, e.frame)
  <2>1. Cursor(b)' = Cursor(base)
    BY <1>5, PushCursor
  <2> QED  BY <2>1 DEF LagAt, Pushes
<1> QED  BY <1>4, <1>5

\* A push evicts no packet.
LEMMA PushStores ==
    ASSUME TypeOK, BufferInv, TraceInv, PlaceInv, ClockInv,
           NEW base \in Int, SlotsAt(base), LagAt(base), NEW b \in Int, NEW e, Pushes(e),
           PushesAt(base, b, e.frame), ~PushKept(b, e.frame)
    PROVE  /\ evicted_slots' = evicted_slots
           /\ packets' = [k \in JB!Buffered \cup {b + e.frame} |->
                            IF k = b + e.frame THEN AudioPacket(e.frame) ELSE packets[k]]
           /\ JB!Buffered' = JB!Buffered \cup {b + e.frame}
<1>1. PICK f \in Nat : f = e.frame /\ e \in Deliveries /\ f \in 0 .. FrameCount - 1
  BY PushFacts
<1>2. PICK slot \in Int : slot = b + f
  BY <1>1
<1>3. /\ JB!Store(AudioPacket(f), slot)
      /\ PushAnchors(b, f) \/ PushBehind(b, f)
  BY <1>1, <1>2 DEF PushesAt
<1>4. PICK cursor \in Nat : cursor = Cursor(b)'
  BY PushCursor
<1>5. next_seq' = b + cursor /\ next_seq \in Int
  BY <1>4, PushCursor DEF BufferInv, JB!TypeOK
<1>6. cursor <= f
  <2>1. CASE PushAnchors(b, f)
    BY <1>1, <1>4, <2>1, PushCursor
  <2>2. CASE ~PushAnchors(b, f)
    <3>1. started /\ cursor = Cursor(base) /\ next_seq = b + Cursor(base) /\ b + f >= next_seq
      BY <1>1, <1>3, <1>4, <2>2, PushCursor DEF PushBehind
    <3> QED  BY <1>1, <1>4, <3>1
  <2> QED  BY <2>1, <2>2
<1>7. ASSUME NEW k \in JB!Buffered
      PROVE  \E g \in Nat : k = b + g /\ cursor <= g /\ \E x \in Arrived : x.frame = g
  <2>1. started /\ k >= next_seq /\ k \in Int
    BY DEF BufferInv, JB!TypeOK, JB!SlotInv, JB!PendingAhead, JB!Quiet
  <2>2. b = base
    BY <2>1 DEF PushesAt
  <2>3. PICK x \in Arrived : x.frame = k - b
    BY <2>2 DEF SlotsAt
  <2>4. x.frame \in Nat
    BY <2>3, Entries DEF Arrived
  <2>5. next_seq' <= next_seq
    <3>1. CASE PushAnchors(b, f)
      BY <1>1, <1>5, <2>1, <3>1, PushCursor DEF PushAnchors
    <3>2. CASE ~PushAnchors(b, f)
      BY <1>1, <1>5, <3>2, PushCursor
    <3> QED  BY <3>1, <3>2
  <2>6. cursor <= x.frame /\ k = b + x.frame
    BY <1>5, <2>1, <2>3, <2>4, <2>5
  <2> QED  BY <2>3, <2>4, <2>6
<1>8. \E from \in Int : JB!Buffered \cup {slot} \subseteq from .. from + MaxPackets - 1
  <2>1. CASE program = "loopback"
    <3>1. FrameCount = ContentFrames /\ ContentFrames <= MaxPackets /\ "loopback" \in Programs
      BY <2>1, Frames, ReplayAssumption DEF ReplayAssumption, TypeOK
    <3>2. ASSUME NEW k \in JB!Buffered \cup {slot} PROVE k \in b .. b + MaxPackets - 1
      <4>1. CASE k = slot
        BY <1>1, <1>2, <3>1, <4>1, Constants
      <4>2. CASE k \in JB!Buffered
        <5>1. PICK g \in Nat, x \in Arrived : k = b + g /\ x.frame = g
          BY <1>7, <4>2
        <5>2. g \in 0 .. FrameCount - 1
          BY <5>1, Entries DEF Arrived
        <5> QED  BY <3>1, <5>1, <5>2, Constants
      <4> QED  BY <3>2, <4>1, <4>2
    <3> QED  BY <3>2
  <2>2. CASE program # "loopback"
    <3>1. tick <= cursor * FrameTicks + profile.base_delay + Slack(profile)
      <4>1. LagAt(b)'
        BY PushLag
      <4>2. /\ tick' = tick /\ profile' = profile /\ program' = program
            /\ Deliveries' = Deliveries /\ at' # "encode"
        BY PushFacts DEF Pushes
      <4>3. \A x \in Deliveries : x.frame >= cursor =>
              tick <= cursor * FrameTicks + profile.base_delay + Slack(profile)
        BY <1>4, <2>2, <4>1, <4>2 DEF LagAt
      <4> QED  BY <1>1, <1>6, <4>3
    <3>2. ASSUME NEW x \in Arrived \cup {e} PROVE x.frame <= cursor + MaxPackets - 1
      <4>1. x \in Deliveries /\ x.arrival <= tick
        BY <2>2, PushFacts DEF Arrived
      <4> QED  BY <3>1, <4>1, WithinBuffer
    <3>3. PICK from \in Int : from = b + cursor
      OBVIOUS
    <3>4. ASSUME NEW k \in JB!Buffered \cup {slot} PROVE k \in from .. from + MaxPackets - 1
      <4>1. CASE k = slot
        <5>1. f <= cursor + MaxPackets - 1
          BY <1>1, <3>2
        <5> QED  BY <1>1, <1>2, <1>6, <3>3, <4>1, <5>1, Constants
      <4>2. CASE k \in JB!Buffered
        <5>1. PICK g \in Nat, x \in Arrived : k = b + g /\ x.frame = g /\ cursor <= g
          BY <1>7, <4>2
        <5>2. g <= cursor + MaxPackets - 1
          BY <3>2, <5>1
        <5> QED  BY <3>3, <5>1, <5>2, Constants
      <4> QED  BY <3>4, <4>1, <4>2
    <3> QED  BY <3>4
  <2> QED  BY <2>1, <2>2
<1>9. PICK from \in Int : JB!Buffered \cup {slot} \subseteq from .. from + MaxPackets - 1
  BY <1>8
<1>10. PICK p : p = AudioPacket(f)
  OBVIOUS
<1>11. /\ evicted_slots' = evicted_slots
       /\ packets' = [k \in JB!Buffered \cup {slot} |-> IF k = slot THEN p ELSE packets[k]]
       /\ JB!Buffered' = JB!Buffered \cup {slot}
  <2>1. JB!Store(p, slot)
    BY <1>3, <1>10
  <2> QED  BY <1>9, <2>1, StoredWithin
<1> QED  BY <1>1, <1>2, <1>10, <1>11

LEMMA PushSlotsKept ==
    ASSUME TypeOK, BufferInv, TraceInv, PlaceInv, ClockInv,
           NEW base \in Int, SlotsAt(base), LagAt(base), NEW b \in Int, NEW e, Pushes(e),
           PushesAt(base, b, e.frame)
    PROVE  SlotsAt(b)'
<1>1. /\ e.frame \in Nat /\ Arrived' = Arrived \cup {e} /\ First' = First
      /\ \A f : AudioPacket(f)' = AudioPacket(f)
      /\ started' /\ next_seq \in Int
  BY PushFacts
<1>2. /\ JB!Aligned(b, First) /\ (started => b = base)
      /\ playout_started' = playout_started
  BY DEF PushesAt
<1>3. b <= next_seq' /\ \E x \in Arrived' : next_seq' <= b + x.frame + 1
  <2>1. CASE PushAnchors(b, e.frame)
    BY <1>1, <2>1 DEF PushAnchors
  <2>2. CASE ~PushAnchors(b, e.frame)
    <3>1. started /\ next_seq' = next_seq /\ b = base
      BY <1>2, <2>2, PushCursor
    <3> QED  BY <1>1, <3>1 DEF SlotsAt
  <2> QED  BY <2>1, <2>2
<1>4. CASE PushKept(b, e.frame)
  <2>1. /\ started /\ b = base /\ JB!Buffered' = JB!Buffered
        /\ UNCHANGED <<packets, evicted_slots, next_seq>>
        /\ \/ b + e.frame \in JB!Buffered
           \/ playout_started /\ b + e.frame < next_seq
    BY <1>2, <1>4 DEF PushKept, JB!Buffered
  <2> QED  BY <1>1, <1>2, <1>3, <2>1 DEF SlotsAt, JB!Nothing
<1>5. CASE ~PushKept(b, e.frame)
  <2>1. /\ evicted_slots' = evicted_slots
        /\ packets' = [k \in JB!Buffered \cup {b + e.frame} |->
                         IF k = b + e.frame THEN AudioPacket(e.frame) ELSE packets[k]]
        /\ JB!Buffered' = JB!Buffered \cup {b + e.frame}
    BY <1>5, PushStores
  <2>2. ASSUME NEW k \in JB!Buffered'
        PROVE  /\ packets'[k] = AudioPacket(k - b)
               /\ \E x \in Arrived' : x.frame = k - b
    <3>1. CASE k = b + e.frame
      <4>1. k - b = e.frame
        BY <1>1, <3>1
      <4> QED  BY <1>1, <2>1, <3>1, <4>1
    <3>2. CASE k # b + e.frame
      <4>1. k \in JB!Buffered /\ packets'[k] = packets[k]
        BY <2>1, <3>2
      <4>2. started
        BY <4>1 DEF BufferInv, JB!SlotInv, JB!Quiet
      <4> QED  BY <1>1, <1>2, <4>1, <4>2 DEF SlotsAt
    <3> QED  BY <3>1, <3>2
  <2>3. ASSUME NEW x \in Arrived'
        PROVE  \/ b + x.frame \in JB!Buffered'
               \/ playout_started /\ b + x.frame < next_seq'
    <3>1. CASE x = e
      BY <2>1, <3>1
    <3>2. CASE x \in Arrived
      <4>1. /\ started /\ b = base
            /\ \/ b + x.frame \in JB!Buffered
               \/ playout_started /\ b + x.frame < next_seq
        BY <1>2, <3>2 DEF SlotsAt
      <4>2. playout_started => next_seq' = next_seq
        <5>1. CASE PushAnchors(b, e.frame)
          BY <4>1, <5>1 DEF PushAnchors
        <5>2. CASE ~PushAnchors(b, e.frame)
          BY <5>2, PushCursor
        <5> QED  BY <5>1, <5>2
      <4> QED  BY <2>1, <4>1, <4>2
    <3> QED  BY <1>1, <3>1, <3>2
  <2>4. evicted_slots = JB!Nothing
    BY DEF SlotsAt
  <2> QED  BY <1>1, <1>2, <1>3, <2>1, <2>2, <2>3, <2>4 DEF SlotsAt, JB!Nothing
<1> QED  BY <1>4, <1>5

LEMMA PushScheduled ==
    ASSUME TypeOK, BufferInv, TraceInv, PlaceInv, ClockInv,
           NEW base \in Int, SlotsAt(base), ScheduledAt(base), NEW b \in Int,
           NEW e, Pushes(e), PushesAt(base, b, e.frame)
    PROVE  ScheduledAt(b)'
<1>1. /\ e \in Deliveries /\ e.frame \in Nat /\ e.arrival \in Nat /\ now \in Nat
      /\ program' = program /\ profile' = profile /\ next_seq \in Int
      /\ \A f : AudioPacket(f)' = AudioPacket(f)
      /\ program # "loopback" => now <= e.arrival
  BY PushFacts
<1>2. now' = now /\ (started => b = base) /\ transit_anchor_arrival \in Nat
  BY DEF PushesAt, BufferInv, JB!TypeOK
<1>3. \A f : Stamp(f)' = Stamp(f)
  BY <1>1 DEF Stamp
<1>4. CASE PushAnchors(b, e.frame)
  <2>1. PICK f \in Nat : f = e.frame
    BY <1>1
  <2>2. /\ next_seq' = b + f /\ next_timestamp' = Stamp(f) /\ anchor_timestamp' = Stamp(f)
        /\ transit_anchor_arrival' <= now /\ transit_anchor_arrival' \in Nat
    <3>1. CASE ~started
      BY <1>1, <1>4, <2>1, <3>1 DEF PushAnchors
    <3>2. CASE started
      BY <1>1, <1>2, <1>4, <2>1, <3>2 DEF PushAnchors, ScheduledAt
    <3> QED  BY <3>1, <3>2
  <2>3. next_seq' - b = f /\ f \in 0 .. next_seq' - b
    BY <2>1, <2>2
  <2>4. PICK sent \in Int : sent = f * FrameTicks
    BY <2>1, Product
  <2>5. program # "loopback" =>
          transit_anchor_arrival' <= sent + profile.base_delay + profile.jitter
    <3>1. e.arrival <= sent + profile.base_delay + profile.jitter
      BY <1>1, <2>1, <2>4, Entries
    <3>2. profile.base_delay \in Nat /\ profile.jitter \in Nat
      BY ProfileFacts DEF TypeOK
    <3> QED  BY <1>1, <2>2, <2>4, <3>1, <3>2
  <2> QED  BY <1>1, <1>2, <1>3, <2>2, <2>3, <2>4, <2>5 DEF ScheduledAt
<1>5. CASE ~PushAnchors(b, e.frame)
  <2>1. /\ started /\ b = base
        /\ UNCHANGED <<next_seq, next_timestamp, anchor_timestamp, transit_anchor_arrival>>
    BY <1>2, <1>5 DEF PushesAt, PushKept, PushBehind
  <2> QED  BY <1>1, <1>2, <1>3, <2>1 DEF ScheduledAt
<1> QED  BY <1>4, <1>5

\* The frame that anchors a stream is content: the first frame is never lost,
\* and no guard overtakes it.
LEMMA AnchorIsContent ==
    ASSUME TypeOK, TraceInv, NEW base \in Int, SlotsAt(base), ~started,
           NEW e \in waiting, Earliest(e), e \in Deliveries, at # "encode"
    PROVE  e.frame < ContentFrames
<1>1. PICK f \in Nat : f = e.frame /\ f \in 0 .. FrameCount - 1
  BY Entries
<1>2. CASE program # "trace"
  BY <1>1, <1>2, Frames, Constants DEF TypeOK
<1>3. CASE program = "trace"
  <2>1. Len(trace) = FrameCount /\ Len(trace) >= 1 /\ Len(trace) \in Nat
    BY Frames, Constants DEF TraceInv, TypeOK
  <2>2. 1 \in DOMAIN trace /\ DOMAIN trace = 1 .. Len(trace)
    BY <2>1, TraceType
  <2>3. Encoded(1) /\ ~trace[1].dropped
    <3>1. Encoded(1)
      BY <2>2 DEF TraceInv
    <3> QED  BY <1>3, <3>1 DEF Encoded
  <2>4. trace[1] \in Deliveries
    BY <2>2, <2>3 DEF Deliveries
  <2>5. trace[1] \in waiting
    BY <2>4 DEF SlotsAt, Arrived
  <2>6. e.arrival <= trace[1].arrival /\ e.arrival \in Nat /\ trace[1].arrival \in Nat
    BY <2>2, <2>5, Entries, TraceType DEF Earliest
  <2>7. PICK delay \in Nat, most \in Nat : delay = profile.base_delay /\ most = profile.jitter
    BY ProfileFacts DEF TypeOK
  <2>8. trace[1].arrival <= delay + most
    <3>1. trace[1].arrival <= (1 - 1) * FrameTicks + profile.base_delay + profile.jitter
      BY <2>3 DEF Encoded
    <3>2. (1 - 1) * FrameTicks = 0
      BY Constants
    <3> QED  BY <2>7, <3>1, <3>2
  <2>9. ASSUME f >= ContentFrames PROVE FALSE
    <3>1. PICK i \in Nat : i = f + 1
      OBVIOUS
    <3>2. i \in DOMAIN trace /\ e = trace[i] /\ i - 1 = f
      BY <1>1, <3>1, Entries
    <3>3. Encoded(i)
      BY <3>2 DEF TraceInv
    <3>4. e.arrival = f * FrameTicks + delay
      BY <2>7, <2>9, <3>2, <3>3 DEF Encoded, IsGuard
    <3>5. PICK guards \in Int, content \in Int :
            guards = f * FrameTicks /\ content = ContentFrames * FrameTicks
      BY Product, Constants
    <3>6. content <= guards
      BY <2>9, <3>5, Times, Constants
    <3>7. most < content
      BY <2>7, <3>5, ProfileFacts DEF TypeOK
    <3> QED  BY <2>6, <2>7, <2>8, <3>4, <3>5, <3>6, <3>7
  <2> QED  BY <1>1, <2>9, Constants
<1> QED  BY <1>2, <1>3

LEMMA PushOutput ==
    ASSUME TypeOK, BufferInv, TraceInv, PlaceInv, ClockInv,
           NEW base \in Int, SlotsAt(base), OutputAt(base), NEW b \in Int,
           NEW e, Pushes(e), PushesAt(base, b, e.frame)
    PROVE  OutputAt(b)'
<1>1. /\ e \in Deliveries /\ e.frame \in Nat /\ next_seq \in Int
  BY PushFacts
<1>2. /\ log' = log /\ playout_started' = playout_started /\ output' = output /\ started'
      /\ started => b = base
  BY DEF PushesAt, Pushes
<1>3. CASE log = <<>>
  <2>1. output = <<>> /\ ~playout_started
    BY <1>3 DEF OutputAt
  <2>2. next_seq' - b < ContentFrames
    <3>1. CASE ~started
      <4>1. e.frame < ContentFrames
        BY <1>1, <3>1, AnchorIsContent DEF Pushes
      <4>2. next_seq' = b + e.frame
        BY <3>1 DEF PushesAt, PushKept, PushAnchors, PushBehind
      <4> QED  BY <1>1, <4>1, <4>2
    <3>2. CASE started
      <4>1. next_seq - b < ContentFrames
        BY <1>2, <1>3, <3>2 DEF OutputAt
      <4>2. next_seq' <= next_seq /\ next_seq' \in Int
        BY <1>1, <3>2, PushCursor DEF PushAnchors
      <4>3. PICK n \in Int, m \in Int, c \in Nat : n = next_seq /\ m = next_seq' /\ c = ContentFrames
        BY <1>1, <4>2, Constants
      <4>4. m - b < c
        <5>1. n - b < c
          BY <4>1, <4>3
        <5>2. m <= n
          BY <4>2, <4>3
        <5> QED  BY <5>1, <5>2
      <4> QED  BY <4>3, <4>4
    <3> QED  BY <3>1, <3>2
  <2> QED  BY <1>2, <1>3, <2>1, <2>2 DEF OutputAt
<1>4. CASE log # <<>>
  <2>1. started /\ playout_started
    BY <1>4 DEF BufferInv, JB!SlotInv, JB!Quiet
  <2>2. b = base /\ next_seq' = next_seq
    BY <1>2, <2>1, PushCursor DEF PushAnchors
  <2> QED  BY <1>2, <1>4, <2>1, <2>2 DEF OutputAt
<1> QED  BY <1>3, <1>4

LEMMA PushStream ==
    ASSUME TypeOK, BufferInv, TraceInv, PlaceInv, ClockInv, StreamInv,
           PushArrival \/ LoopBack
    PROVE  StreamInv'
<1>1. PICK e \in waiting : Pushes(e)
  BY PushSteps
<1>2. PICK base \in Int : /\ SlotsAt(base) /\ ScheduledAt(base) /\ LagAt(base)
                          /\ OutputAt(base) /\ DoneAt(base)
  BY DEF StreamInv
<1>3. PICK b \in Int : PushesAt(base, b, e.frame)
  <2>1. e \in Deliveries /\ JB!Push(AudioPacket(e.frame))
    BY <1>1 DEF PlaceInv, Pushes
  <2> QED  BY <1>2, <2>1, PushCases
<1>4. SlotsAt(b)'
  BY <1>1, <1>2, <1>3, PushSlotsKept
<1>5. ScheduledAt(b)'
  BY <1>1, <1>2, <1>3, PushScheduled
<1>6. LagAt(b)'
  BY <1>1, <1>2, <1>3, PushLag
<1>7. OutputAt(b)'
  BY <1>1, <1>2, <1>3, PushOutput
<1>8. DoneAt(b)'
  BY <1>1 DEF DoneAt, Pushes
<1> QED  BY <1>4, <1>5, <1>6, <1>7, <1>8 DEF StreamInv

-----------------------------------------------------------------------------
(* The buffer is polled.                                                   *)

\* Losses come in short rows: of the packets delivered from a frame on, the first
\* is one of the next loss_run.
LEMMA NextDelivered ==
    ASSUME TypeOK, TraceInv, NEW n \in Nat, NEW e \in Deliveries, e.frame >= n
    PROVE  \E x \in Deliveries : n <= x.frame /\ x.frame <= n + profile.loss_run
<1> DEFINE later == {x.frame : x \in {d \in Deliveries : d.frame >= n}}
<1>1. later \in SUBSET Nat /\ later # {}
  BY Entries
<1>2. PICK g \in later : \A h \in later : g <= h
  BY <1>1, Least
<1>3. PICK x \in Deliveries : x.frame = g /\ g >= n
  BY <1>2
<1>4. g \in Nat /\ x.frame = g /\ g + 1 \in DOMAIN trace
  BY <1>3, Entries
<1>5. \A d \in Deliveries : d.frame >= n => g <= d.frame
  BY <1>2
<1>6. PICK run \in Nat : run = profile.loss_run
  BY ProfileFacts DEF TypeOK
<1> HIDE DEF later
<1>7. ASSUME g > n + run PROVE FALSE
  <2>1. /\ DOMAIN trace = 1 .. Len(trace) /\ Len(trace) \in Nat
        /\ \A i \in DOMAIN trace : trace[i].dropped \in BOOLEAN
    BY TraceType
  <2>2. ASSUME NEW k \in n + 1 .. g PROVE k \in DOMAIN trace /\ trace[k].dropped
    <3>1. k \in Int /\ k >= n + 1 /\ k <= g /\ k \in DOMAIN trace
      BY <1>4, <2>1
    <3>2. ASSUME ~trace[k].dropped PROVE FALSE
      <4>1. trace[k] \in Deliveries
        BY <3>1, <3>2 DEF Deliveries
      <4>2. trace[k].frame = k - 1
        BY <3>1 DEF TraceInv, Encoded
      <4>3. g <= k - 1
        BY <1>5, <3>1, <4>1, <4>2
      <4> QED  BY <1>4, <3>1, <4>3
    <3> QED  BY <2>1, <3>1, <3>2
  <2>3. g \in n + 1 .. g
    BY <1>4, <1>6, <1>7
  <2>4. g \in DOMAIN trace /\ trace[g].dropped
    BY <2>2, <2>3
  <2>5. Encoded(g)
    BY <2>4 DEF TraceInv
  <2>6. ~ \A k \in g - profile.loss_run .. g - 1 : k \in DOMAIN trace /\ trace[k].dropped
    BY <2>4, <2>5 DEF Encoded
  <2>7. PICK k \in g - profile.loss_run .. g - 1 : ~ (k \in DOMAIN trace /\ trace[k].dropped)
    BY <2>6
  <2>8. k \in n + 1 .. g
    BY <1>4, <1>6, <1>7, <2>7
  <2> QED  BY <2>2, <2>7, <2>8
<1> QED  BY <1>3, <1>4, <1>6, <1>7

\* What is still on its way keeps the poll near the cursor.
LEMMA WaitingLag ==
    ASSUME TypeOK, TraceInv, NEW n \in Nat, NEW e \in Deliveries, e.frame >= n,
           \A x \in Deliveries : x.frame >= n => tick < x.arrival
    PROVE  tick + Poll <= n * FrameTicks + profile.base_delay + Slack(profile)
<1>1. PICK x \in Deliveries : n <= x.frame /\ x.frame <= n + profile.loss_run
  BY NextDelivered
<1>2. PICK delay \in Nat, most \in Nat, slack \in Nat, run \in Nat :
        /\ delay = profile.base_delay /\ most = profile.jitter /\ slack = Slack(profile)
        /\ run = profile.loss_run
  BY ProfileFacts DEF TypeOK
<1>3. PICK lost \in Int, played \in Int, sent \in Int, all \in Int :
        /\ lost = run * FrameTicks /\ played = n * FrameTicks
        /\ sent = x.frame * FrameTicks /\ all = (n + run) * FrameTicks
  <2>1. x.frame \in Int /\ n + run \in Int
    BY <1>1, Entries
  <2> QED  BY <2>1, Product
<1>4. all = played + lost
  BY <1>3, Times
<1>5. sent <= all
  <2>1. x.frame \in Int /\ x.frame <= n + run
    BY <1>1, <1>2, Entries
  <2>2. PICK m \in Int : m = n + run
    OBVIOUS
  <2> QED  BY <1>3, <2>1, <2>2, Times
<1>6. x.arrival <= sent + delay + most /\ x.arrival \in Nat
  BY <1>1, <1>2, <1>3, Entries
<1>7. slack >= most + Poll + lost
  BY <1>2, <1>3, ProfileFacts DEF TypeOK
<1>8. tick \in Nat /\ tick < x.arrival
  BY <1>1 DEF TypeOK
<1>9. tick + Poll <= played + delay + slack
  BY <1>4, <1>5, <1>6, <1>7, <1>8, Constants
<1> QED  BY <1>2, <1>3, <1>9

\* The cursor of a stream counts the frames of the trace.
LEMMA CursorType ==
    ASSUME TypeOK, BufferInv, TraceInv, NEW base \in Int, SlotsAt(base)
    PROVE  /\ Cursor(base) \in 0 .. FrameCount /\ Cursor(base) \in Nat
           /\ started => next_seq = base + Cursor(base) /\ Cursor(base) = next_seq - base
<1>1. next_seq \in Int /\ FrameCount \in Nat
  BY Frames DEF BufferInv, JB!TypeOK, TypeOK
<1>2. CASE ~started
  BY <1>1, <1>2 DEF Cursor
<1>3. CASE started
  <2>1. PICK x \in Arrived : base <= next_seq /\ next_seq <= base + x.frame + 1
    BY <1>3 DEF SlotsAt
  <2>2. x.frame \in 0 .. FrameCount - 1
    BY <2>1, Entries DEF Arrived
  <2> QED  BY <1>1, <1>3, <2>1, <2>2 DEF Cursor
<1> QED  BY <1>2, <1>3

\* The next slot is due when its frame's stamp says so.
LEMMA NextStampAt ==
    ASSUME TypeOK, BufferInv, TraceInv, NEW base \in Int, SlotsAt(base), ScheduledAt(base),
           started
    PROVE  JB!NextSlotTimestamp = Stamp(Cursor(base))
<1>1. JB!Evicted = {} /\ Cursor(base) = next_seq - base /\ Cursor(base) \in Nat
  BY CursorType DEF SlotsAt, JB!Nothing, JB!Evicted
<1>2. CASE next_seq \in JB!Buffered
  BY <1>1, <1>2 DEF JB!NextSlotTimestamp, SlotsAt, Stamp
<1>3. CASE next_seq \notin JB!Buffered
  BY <1>1, <1>3 DEF JB!NextSlotTimestamp, ScheduledAt
<1> QED  BY <1>2, <1>3

LEMMA DeadlineLag ==
    ASSUME TypeOK, BufferInv, TraceInv, NEW base \in Int, SlotsAt(base), ScheduledAt(base),
           started, program # "loopback", now < JB!NextDeadline
    PROVE  now + Poll <= Cursor(base) * FrameTicks + profile.base_delay + Slack(profile)
<1>1. PICK n \in Nat : n = Cursor(base) /\ n \in 0 .. FrameCount /\ n = next_seq - base
  BY CursorType
<1>2. PICK m \in 0 .. n :
        /\ anchor_timestamp = Stamp(m)
        /\ transit_anchor_arrival <= m * FrameTicks + profile.base_delay + profile.jitter
  BY <1>1 DEF ScheduledAt
<1>3. m \in Int /\ 0 <= m /\ m <= n /\ n \in 0 .. ContentFrames + GuardFrames
  BY <1>1, <1>2, Frames, Constants DEF TypeOK
<1>4. JB!TsSub(Stamp(n), Stamp(m)) = (n - m) * FrameTicks
  BY <1>3, Stamps
<1>5. now < anchor_deadline + (n - m) * FrameTicks
  BY <1>1, <1>2, <1>4, NextStampAt DEF JB!NextDeadline, JB!DeadlineFor
<1>6. PICK played \in Int, anchored \in Int :
        played = n * FrameTicks /\ anchored = m * FrameTicks
  BY <1>1, <1>3, Product
<1>7. (n - m) * FrameTicks = played - anchored
  BY <1>1, <1>3, <1>6, Times
<1>8. /\ anchor_deadline = transit_anchor_arrival + current_target_latency
      /\ current_target_latency <= MaxLatency
      /\ transit_anchor_arrival \in Nat /\ current_target_latency \in Nat /\ now \in Nat
  BY DEF BufferInv, JB!StartupInv, JB!StartupDelay, JB!TypeOK
<1>9. PICK delay \in Nat, most \in Nat, slack \in Nat :
        /\ delay = profile.base_delay /\ most = profile.jitter /\ slack = Slack(profile)
        /\ slack >= most + Poll + MaxLatency
  BY ProfileFacts DEF TypeOK
<1>10. transit_anchor_arrival <= anchored + delay + most
  BY <1>2, <1>6, <1>9
<1>11. now + Poll <= played + delay + slack
  BY <1>5, <1>6, <1>7, <1>8, <1>9, <1>10, Constants
<1> QED  BY <1>1, <1>6, <1>9, <1>11

\* The slot that is popped, and the frames left to play.
LEMMA PopFacts ==
    ASSUME TypeOK, BufferInv, TraceInv, NEW base \in Int, SlotsAt(base), JB!PopEvent
    PROVE  /\ started /\ started' /\ playout_started' /\ next_seq \in Int
           /\ next_seq' = next_seq + 1 /\ now' = now
           /\ JB!Buffered' = JB!Buffered \ {next_seq} /\ JB!Evicted' = {}
           /\ \A k \in JB!Buffered' : packets'[k] = packets[k]
           /\ Cursor(base) \in 0 .. FrameCount - 1 /\ Cursor(base) = next_seq - base
           /\ Cursor(base)' = Cursor(base) + 1
           /\ \E x \in Arrived : next_seq <= base + x.frame
<1>1. /\ started /\ started' /\ playout_started' /\ next_seq' = next_seq + 1
      /\ JB!Buffered' = JB!Buffered \ {next_seq} /\ JB!Evicted' = JB!Evicted \ {next_seq}
      /\ \A k \in JB!Buffered' : packets'[k] = packets[k]
  BY BufferAssumption, JB!PopEffect DEF BufferInv
<1>2. next_seq \in Int /\ now' = now /\ JB!Evicted = {}
  BY PopAnchor DEF BufferInv, JB!TypeOK, SlotsAt, JB!Nothing, JB!Evicted
<1>3. PICK k \in JB!Buffered : k >= next_seq /\ k \in Int
  BY <1>2, PopAnchor DEF JB!Due, JB!HasPending, BufferInv, JB!SlotInv, JB!PendingAhead, JB!TypeOK
<1>4. PICK x \in Arrived : x.frame = k - base
  BY <1>3 DEF SlotsAt
<1>5. x.frame \in 0 .. FrameCount - 1
  BY <1>4, Entries DEF Arrived
<1>6. next_seq <= base + x.frame
  BY <1>2, <1>3, <1>4
<1>7. Cursor(base) = next_seq - base /\ Cursor(base) \in Nat
  BY <1>1, CursorType
<1>8. Cursor(base) \in 0 .. FrameCount - 1
  BY <1>2, <1>5, <1>6, <1>7, Frames DEF TypeOK
<1>9. Cursor(base)' = Cursor(base) + 1
  BY <1>1, <1>2, <1>7 DEF Cursor
<1> QED  BY <1>1, <1>2, <1>6, <1>7, <1>8, <1>9

\* A step that polls the buffer.
Polls ==
    /\ PopOne /\ UNCHANGED <<choice, trace, waiting>>
    /\ at # "encode" /\ at' # "encode" /\ (at' = "done" => PollBuffer)
    /\ program # "loopback" => PollBuffer /\ tick' = tick + Poll

LEMMA PollSteps ==
    ASSUME PlaceInv, PollBuffer \/ Play
    PROVE  Polls
BY DEF PollBuffer, Play, Polls, PlaceInv

LEMMA PollFacts ==
    ASSUME Polls
    PROVE  /\ Arrived' = Arrived /\ Deliveries' = Deliveries
           /\ First' = First /\ \A f : AudioPacket(f)' = AudioPacket(f)
           /\ program' = program /\ profile' = profile /\ trace' = trace /\ waiting' = waiting
<1>1. UNCHANGED <<program, profile, trace, waiting>> /\ at # "encode" /\ at' # "encode"
  BY DEF Polls, choice
<1> QED  BY <1>1, SameTrace DEF First, AudioPacket

\* A poll that finds nothing due leaves the stream as it is.
LEMMA NotDue ==
    ASSUME Polls, ~JB!PopEvent
    PROVE  ~JB!Due /\ UNCHANGED <<buffer, now, output>>
BY DEF Polls, PopOne

LEMMA PollLag ==
    ASSUME TypeOK, BufferInv, TraceInv, PlaceInv, ClockInv,
           NEW base \in Int, SlotsAt(base), ScheduledAt(base), LagAt(base), Polls
    PROVE  LagAt(base)'
<1> SUFFICES ASSUME program # "loopback", NEW e \in Deliveries, e.frame >= Cursor(base)'
             PROVE  tick + Poll <= Cursor(base)' * FrameTicks + profile.base_delay
                                     + Slack(profile)
  <2>1. /\ Deliveries' = Deliveries /\ program' = program /\ profile' = profile
        /\ program # "loopback" => tick' = tick + Poll
    BY PollFacts DEF Polls
  <2> QED  BY <2>1 DEF LagAt
<1>1. /\ PollBuffer /\ at = "poll" /\ tick' = tick + Poll /\ at # "encode"
      /\ now = tick /\ tick \in Nat /\ \A x \in waiting : tick < x.arrival
      /\ e.frame \in Nat
  BY Entries DEF Polls, PollBuffer, ClockInv, TypeOK
<1>2. PICK n \in Nat : n = Cursor(base)
  BY CursorType
<1>3. CASE JB!PopEvent
  <2>1. Cursor(base)' = n + 1
    BY <1>2, <1>3, PopFacts
  <2>2. e.frame >= n
    BY <1>1, <2>1
  <2>3. tick <= n * FrameTicks + profile.base_delay + Slack(profile)
    BY <1>1, <1>2, <2>2 DEF LagAt
  <2>4. PICK played \in Int, delay \in Nat, slack \in Nat :
          played = n * FrameTicks /\ delay = profile.base_delay /\ slack = Slack(profile)
    <3>1. PICK played \in Int : played = n * FrameTicks
      BY <1>2, Product
    <3> QED  BY <3>1, ProfileFacts DEF TypeOK
  <2>5. (n + 1) * FrameTicks = played + FrameTicks
    BY <2>4, Times
  <2>6. tick + Poll <= (played + FrameTicks) + delay + slack
    BY <1>1, <2>3, <2>4, Constants
  <2> QED  BY <2>1, <2>4, <2>5, <2>6
<1>4. CASE ~JB!PopEvent
  <2>1. ~JB!Due /\ UNCHANGED <<next_seq, started>>
    BY <1>4, NotDue DEF buffer
  <2>2. Cursor(base)' = n /\ e.frame >= n
    BY <1>2, <2>1 DEF Cursor
  <2>3. CASE started /\ JB!HasPending
    <3>1. now < JB!NextDeadline
      <4>1. JB!NextDeadline \in Nat
        BY BufferAssumption, JB!DeadlineType DEF BufferInv
      <4> QED  BY <1>1, <2>1, <2>3, <4>1 DEF JB!Due
    <3> QED  BY <1>1, <1>2, <2>2, <2>3, <3>1, DeadlineLag
  <2>4. CASE ~ (started /\ JB!HasPending)
    <3>1. ASSUME NEW x \in Deliveries, x.frame >= n PROVE tick < x.arrival
      <4>1. ASSUME x \in Arrived PROVE FALSE
        <5>1. started /\ JB!Buffered = {} /\ base + x.frame < next_seq
          BY <2>4, <4>1 DEF SlotsAt, JB!HasPending
        <5>2. next_seq = base + n /\ x.frame \in Nat
          BY <1>2, <3>1, <5>1, CursorType, Entries
        <5> QED  BY <3>1, <5>1, <5>2
      <4>2. x \in waiting
        BY <1>1, <4>1 DEF Arrived
      <4> QED  BY <1>1, <4>2
    <3> QED  BY <2>2, <3>1, WaitingLag
  <2> QED  BY <2>3, <2>4
<1> QED  BY <1>3, <1>4

LEMMA PollSlots ==
    ASSUME TypeOK, BufferInv, BufferInv', TraceInv, NEW base \in Int, SlotsAt(base), Polls
    PROVE  SlotsAt(base)'
<1>1. Arrived' = Arrived /\ First' = First /\ \A f : AudioPacket(f)' = AudioPacket(f)
  BY PollFacts
<1>2. CASE JB!PopEvent
  <2>1. /\ started /\ started' /\ playout_started' /\ next_seq \in Int
        /\ next_seq' = next_seq + 1
        /\ JB!Buffered' = JB!Buffered \ {next_seq} /\ JB!Evicted' = {}
        /\ \A k \in JB!Buffered' : packets'[k] = packets[k]
        /\ \E x \in Arrived : next_seq <= base + x.frame
    BY <1>2, PopFacts
  <2>2. evicted_slots' = JB!Nothing'
    <3>1. evicted_slots' \in [{} -> JB!Timestamp']
      BY <2>1 DEF BufferInv, JB!TypeOK
    <3> QED  BY <3>1 DEF JB!Nothing
  <2>3. base <= next_seq' /\ \E x \in Arrived : next_seq' <= base + x.frame + 1
    <3>1. PICK x \in Arrived : next_seq <= base + x.frame
      BY <2>1
    <3>2. x.frame \in Nat /\ base <= next_seq
      BY <2>1, <3>1, Entries DEF Arrived, SlotsAt
    <3>3. next_seq' <= base + x.frame + 1 /\ base <= next_seq'
      BY <2>1, <3>1, <3>2
    <3> QED  BY <3>3
  <2>4. ASSUME NEW x \in Arrived
        PROVE  base + x.frame \in JB!Buffered' \/ base + x.frame < next_seq'
    <3>1. PICK slot \in Int : slot = base + x.frame
      BY Entries DEF Arrived
    <3>2. slot \in JB!Buffered \/ slot < next_seq
      BY <2>4, <3>1 DEF SlotsAt
    <3> QED  BY <2>1, <3>1, <3>2
  <2> QED  BY <1>1, <2>1, <2>2, <2>3, <2>4 DEF SlotsAt
<1>3. CASE ~JB!PopEvent
  <2>1. UNCHANGED <<packets, evicted_slots, next_seq, started, playout_started>>
    BY <1>3, NotDue DEF buffer
  <2> QED  BY <1>1, <2>1 DEF SlotsAt, JB!Buffered, JB!Nothing
<1> QED  BY <1>2, <1>3

LEMMA PollScheduled ==
    ASSUME TypeOK, BufferInv, TraceInv, NEW base \in Int, SlotsAt(base), ScheduledAt(base),
           Polls
    PROVE  ScheduledAt(base)'
<1>1. program' = program /\ profile' = profile /\ \A f : Stamp(f)' = Stamp(f)
  BY PollFacts DEF Stamp
<1>2. CASE JB!PopEvent
  <2>1. /\ started /\ next_seq' = next_seq + 1 /\ next_seq \in Int
        /\ Cursor(base) = next_seq - base /\ Cursor(base) \in 0 .. FrameCount - 1
    BY <1>2, PopFacts
  <2>2. PICK n \in Nat : n = Cursor(base) /\ n = next_seq - base
    BY <2>1
  <2>3. UNCHANGED <<now, transit_anchor_arrival, anchor_timestamp>>
    BY <1>2, PopAnchor
  <2>4. next_timestamp' = Stamp(n + 1)
    <3>1. PICK kind, payload : JB!EmitSlot(kind, JB!NextSlotTimestamp, payload)
      BY <1>2, BufferAssumption, JB!EmitsScheduled DEF BufferInv
    <3>2. next_timestamp' = JB!TsAdd(JB!NextSlotTimestamp, FrameTicks)
      BY <3>1 DEF JB!EmitSlot
    <3>3. JB!NextSlotTimestamp = Stamp(n)
      BY <2>1, <2>2, NextStampAt
    <3> QED  BY <3>2, <3>3, Stamps
  <2>5. next_seq' - base = n + 1
    BY <2>1, <2>2
  <2>6. PICK m \in 0 .. n :
          /\ anchor_timestamp = Stamp(m)
          /\ program # "loopback" =>
               transit_anchor_arrival <=
                 m * FrameTicks + profile.base_delay + profile.jitter
    BY <2>1, <2>2 DEF ScheduledAt
  <2>7. m \in 0 .. n + 1
    OBVIOUS
  <2>8. transit_anchor_arrival <= now
    BY <2>1 DEF ScheduledAt
  <2> QED  BY <1>1, <2>3, <2>4, <2>5, <2>6, <2>7, <2>8 DEF ScheduledAt
<1>3. CASE ~JB!PopEvent
  <2>1. UNCHANGED <<next_seq, started, next_timestamp, now, transit_anchor_arrival,
                    anchor_timestamp>>
    BY <1>3, NotDue DEF buffer
  <2> QED  BY <1>1, <2>1 DEF ScheduledAt
<1> QED  BY <1>2, <1>3

LEMMA PollOutput ==
    ASSUME TypeOK, BufferInv, TraceInv, NEW base \in Int, SlotsAt(base), OutputAt(base),
           Polls
    PROVE  OutputAt(base)'
<1>1. CASE JB!PopEvent
  <2>1. /\ started /\ started' /\ next_seq' = next_seq + 1 /\ next_seq \in Int
        /\ Cursor(base) = next_seq - base /\ Cursor(base) \in 0 .. FrameCount - 1
    BY <1>1, PopFacts
  <2>2. PICK n \in Nat : n = next_seq - base /\ n \in 0 .. FrameCount - 1
                           /\ next_seq = base + n /\ next_seq' - base = n + 1
    BY <2>1
  <2>3. FrameOf(next_seq) = n
    <3>1. n \in 0 .. ContentFrames + GuardFrames
      BY <2>2, Frames, Constants DEF TypeOK
    <3> QED  BY <2>2, <3>1, FrameFound DEF SlotsAt, TypeOK
  <2>4. log' # <<>>
    <3>1. PICK event \in JB!Event : log \in Seq(JB!Event) /\ log' = Append(log, event)
      BY <1>1, Popped
    <3> QED  BY <3>1
  <2>5. /\ output \in Seq([frame : 0 .. ContentFrames - 1, at : Nat,
                           kind : {"packet", "recovered", "missing"}])
        /\ Len(output) \in Nat /\ DOMAIN output = 1 .. Len(output)
    BY DEF TypeOK
  <2>6. PICK c \in Nat : c = ContentFrames /\ c >= 1
    BY Constants
  <2>7. \/ n < c /\ \E event : event.frame = n /\ output' = Append(output, event)
        \/ n >= c /\ output' = output
    <3>1. CASE n \in 0 .. c - 1 /\ \E event \in [frame : {n}, at : {now},
                                 kind : {"packet", "recovered", "missing"}] :
                             output' = Append(output, event)
      <4>1. PICK event \in [frame : {n}, at : {now}, kind : {"packet", "recovered", "missing"}] :
              output' = Append(output, event)
        BY <3>1
      <4>2. event.frame = n
        OBVIOUS
      <4> QED  BY <3>1, <4>1, <4>2
    <3>2. CASE IsGuard(n) /\ output' = output
      BY <2>2, <2>6, <3>2 DEF IsGuard
    <3>3. CASE ~JB!Due
      BY <1>1, <3>3, PopAnchor
    <3> QED  BY <2>3, <2>6, <3>1, <3>2, <3>3, PlayedOne DEF Polls
  <2>8. PICK start \in 0 .. c - 1 :
          /\ start <= n
          /\ Len(output) = JB!MinOf(n, c) - start
          /\ \A i \in DOMAIN output : output[i].frame = start + i - 1
    <3>1. CASE log = <<>>
      <4>1. output = <<>> /\ n < c
        BY <2>1, <2>2, <2>6, <3>1 DEF OutputAt
      <4>2. Len(output) = 0 /\ DOMAIN output = {} /\ JB!MinOf(n, c) = n /\ n \in 0 .. c - 1
        BY <2>6, <4>1 DEF JB!MinOf
      <4> QED  BY <4>2
    <3>2. CASE log # <<>>
      BY <2>2, <2>6, <3>2 DEF OutputAt
    <3> QED  BY <3>1, <3>2
  <2>9. CASE n < c
    <3>1. PICK event : event.frame = n /\ output' = Append(output, event)
      BY <2>7, <2>9
    <3>2. /\ Len(output') = Len(output) + 1 /\ DOMAIN output' = 1 .. Len(output) + 1
          /\ \A i \in DOMAIN output : output'[i] = output[i]
          /\ output'[Len(output) + 1] = event
      <4> HIDE DEF TypeOK
      <4> QED  BY <2>5, <3>1
    <3>3. JB!MinOf(n, c) = n /\ JB!MinOf(n + 1, c) = n + 1
      BY <2>6, <2>9 DEF JB!MinOf
    <3>4. Len(output) = n - start /\ Len(output') = JB!MinOf(n + 1, c) - start
      BY <2>5, <2>8, <3>2, <3>3
    <3>5. ASSUME NEW i \in DOMAIN output' PROVE output'[i].frame = start + i - 1
      <4>1. i \in DOMAIN output \/ i = Len(output) + 1
        BY <2>5, <3>2
      <4>2. CASE i = Len(output) + 1
        BY <2>5, <3>1, <3>2, <3>4, <4>2
      <4>3. CASE i \in DOMAIN output
        BY <2>8, <3>2, <4>3
      <4> QED  BY <4>1, <4>2, <4>3
    <3> QED  BY <2>1, <2>2, <2>4, <2>6, <2>8, <3>4, <3>5 DEF OutputAt
  <2>10. CASE n >= c
    <3>1. output' = output
      BY <2>7, <2>10
    <3>2. JB!MinOf(n, c) = c /\ JB!MinOf(n + 1, c) = c
      BY <2>6, <2>10 DEF JB!MinOf
    <3> QED  BY <2>1, <2>2, <2>4, <2>6, <2>8, <3>1, <3>2 DEF OutputAt
  <2> QED  BY <2>6, <2>9, <2>10
<1>2. CASE ~JB!PopEvent
  <2>1. UNCHANGED <<next_seq, started, playout_started, log, output>>
    BY <1>2, NotDue DEF buffer
  <2> QED  BY <2>1 DEF OutputAt
<1> QED  BY <1>1, <1>2

-----------------------------------------------------------------------------
(* The stop conditions.                                                    *)

\* LastArrival is the latest arrival of the trace.
LEMMA LastArrivalBounds ==
    ASSUME TypeOK, TraceInv
    PROVE  LastArrival \in Nat /\ \A i \in DOMAIN trace : trace[i].arrival <= LastArrival
<1> DEFINE arrivals_ == {0} \cup {trace[i].arrival : i \in DOMAIN trace}
           bounds    == {u \in Nat : \A i \in DOMAIN trace : trace[i].arrival <= u}
<1>1. \A i \in DOMAIN trace : trace[i].arrival \in Nat /\ i \in 1 .. Len(trace)
  BY TraceType
<1>2. bounds # {}
  <2>1. PICK delay \in Nat, most \in Nat : delay = profile.base_delay /\ most = profile.jitter
    BY ProfileFacts DEF TypeOK
  <2>2. PICK all \in Int : all = FrameCount * FrameTicks
    BY Frames, Product DEF TypeOK
  <2>3. 0 <= all
    <3>1. 0 * FrameTicks = 0 /\ 0 <= FrameCount /\ FrameCount \in Int
      BY Frames, Constants DEF TypeOK
    <3> QED  BY <2>2, <3>1, Times
  <2>4. ASSUME NEW i \in DOMAIN trace PROVE trace[i].arrival <= all + delay + most
    <3>1. i \in Int /\ i - 1 <= FrameCount /\ FrameCount \in Int
      BY <1>1, TraceType, Frames DEF TraceInv, TypeOK
    <3>2. PICK k \in Int : k = i - 1
      BY <3>1
    <3>3. PICK sent \in Int : sent = k * FrameTicks
      BY <3>2, Product
    <3>4. sent <= all
      BY <2>2, <3>1, <3>2, <3>3, Times
    <3>5. trace[i].arrival <= sent + delay + most
      BY <2>1, <3>2, <3>3 DEF TraceInv, Encoded
    <3> QED  BY <1>1, <3>4, <3>5
  <2>5. PICK v \in Nat : v = all + delay + most
    BY <2>3
  <2>6. v \in bounds
    BY <2>4, <2>5
  <2> QED  BY <2>6
<1>3. PICK u \in bounds : \A v \in bounds : u <= v
  <2>1. bounds \in SUBSET Nat
    OBVIOUS
  <2> HIDE DEF bounds
  <2> QED  BY <1>2, <2>1, Least
<1>4. u \in arrivals_
  <2>1. CASE u = 0
    BY <2>1
  <2>2. CASE u # 0
    <3>1. PICK v \in Nat : v = u - 1
      BY <2>2
    <3>2. ~ (v \in bounds)
      BY <1>3, <3>1
    <3>3. PICK i \in DOMAIN trace : ~ (trace[i].arrival <= v)
      BY <3>1, <3>2
    <3>4. trace[i].arrival = u
      BY <1>1, <3>1, <3>3
    <3> QED  BY <3>4
  <2> QED  BY <2>1, <2>2
<1>5. \E t \in arrivals_ : \A i \in DOMAIN trace : trace[i].arrival <= t
  BY <1>4
<1>6. LastArrival \in arrivals_ /\ \A i \in DOMAIN trace : trace[i].arrival <= LastArrival
  BY <1>5 DEF LastArrival
<1> QED  BY <1>1, <1>6

\* A replay that stops has played its content.
LEMMA TraceDone ==
    ASSUME TypeOK, TypeOK', TraceInv, BufferInv, PlaceInv, ClockInv,
           NEW base \in Int, SlotsAt(base), ScheduledAt(base), LagAt(base), OutputAt(base),
           Polls, BufferInv', at' = "done", program = "trace"
    PROVE  Cursor(base)' >= ContentFrames
<1>1. PollBuffer /\ ~ (tick' <= EndOfReplay /\ Len(output') < ContentFrames)
  BY DEF Polls, PollBuffer, Continues
<1>2. PICK c \in Nat : c = ContentFrames /\ c >= 1 /\ ContentFrames \in Int
  BY Constants
<1>3. OutputAt(base)' /\ LagAt(base)' /\ SlotsAt(base)'
  BY PollOutput, PollLag, PollSlots
<1>4. PICK n \in Nat : n = Cursor(base)'
  <2>1. CASE JB!PopEvent
    <3>1. Cursor(base) \in Nat /\ Cursor(base)' = Cursor(base) + 1
      BY <2>1, PopFacts, CursorType
    <3> QED  BY <3>1
  <2>2. CASE ~JB!PopEvent
    <3>1. UNCHANGED <<next_seq, started>>
      BY <2>2, NotDue DEF buffer
    <3>2. Cursor(base)' = Cursor(base)
      BY <3>1 DEF Cursor
    <3> QED  BY <3>2, CursorType
  <2> QED  BY <2>1, <2>2
<1>5. tick' \in Nat /\ Len(output') \in Nat
  BY DEF TypeOK
<1>6. CASE Len(output') >= c
  <2>1. Len(<<>>) = 0
    OBVIOUS
  <2>2. log' # <<>>
    BY <1>2, <1>3, <1>6, <2>1 DEF OutputAt
  <2>3. PICK start \in 0 .. c - 1 :
          started' /\ Len(output') = JB!MinOf(next_seq' - base, c) - start
    BY <1>2, <1>3, <2>2 DEF OutputAt
  <2>4. n = next_seq' - base
    BY <1>4, <2>3 DEF Cursor
  <2>5. JB!MinOf(n, c) = IF n <= c THEN n ELSE c
    BY DEF JB!MinOf
  <2>6. n >= c
    BY <1>6, <2>3, <2>4, <2>5
  <2> QED  BY <1>2, <1>4, <2>6
<1>7. ASSUME tick' > EndOfReplay, n < c PROVE FALSE
  <2>1. PICK i \in Nat : i = c + 1 /\ i - 1 = c
    BY <1>2
  <2>2. i \in DOMAIN trace
    <3>1. Len(trace) = FrameCount /\ FrameCount = ContentFrames + GuardFrames
      BY Frames DEF TraceInv, Polls, TypeOK
    <3>2. DOMAIN trace = 1 .. Len(trace)
      BY TraceType
    <3>3. i <= FrameCount /\ 1 <= i
      BY <1>2, <2>1, <3>1, Constants
    <3> QED  BY <3>1, <3>2, <3>3, TraceType
  <2>3. Encoded(i)
    BY <2>2 DEF TraceInv
  <2>4. IsGuard(i - 1)
    BY <1>2, <2>1, Constants DEF IsGuard
  <2>5. ~trace[i].dropped
    BY <2>3, <2>4 DEF Encoded
  <2>6. trace[i] \in Deliveries /\ trace[i].frame = c
    BY <2>1, <2>2, <2>3, <2>5 DEF Deliveries, Encoded
  <2>7. PICK delay \in Nat, slack \in Nat :
          delay = profile.base_delay /\ slack = Slack(profile) /\ slack <= TailTime
    BY ProfileFacts DEF TypeOK
  <2>8. PICK content \in Int, played \in Int :
          content = c * FrameTicks /\ played = n * FrameTicks
    BY Product
  <2>9. trace[i].arrival = content + delay
    BY <2>1, <2>3, <2>4, <2>7, <2>8 DEF Encoded
  <2>10. LastArrival \in Nat /\ content + delay <= LastArrival
    BY <2>2, <2>9, LastArrivalBounds
  <2>11. tick' <= played + delay + slack
    <3>1. /\ Deliveries' = Deliveries /\ profile' = profile /\ program' = program
          /\ at' # "encode"
      BY PollFacts
    <3>2. trace[i].frame >= n
      BY <1>7, <2>6
    <3>3. tick' <= n * FrameTicks + profile.base_delay + Slack(profile)
      BY <1>3, <1>4, <2>6, <3>1, <3>2 DEF LagAt
    <3> QED  BY <2>7, <2>8, <3>3
  <2>12. played <= content
    BY <1>7, <2>8, Times
  <2>13. tick' > LastArrival + TailTime
    BY <1>7 DEF EndOfReplay
  <2> QED  BY <1>5, <2>7, <2>8, <2>10, <2>11, <2>12, <2>13, Constants
<1>8. tick' > EndOfReplay \/ Len(output') >= c
  <2>1. EndOfReplay \in Nat
    BY LastArrivalBounds, Constants DEF EndOfReplay
  <2> QED  BY <1>1, <1>2, <1>5, <2>1
<1> QED  BY <1>2, <1>4, <1>6, <1>7, <1>8

\* A benchmark that stops has played what it was sent.
LEMMA BenchDone ==
    ASSUME TypeOK, TypeOK', TraceInv, BufferInv, PlaceInv, ClockInv,
           NEW base \in Int, SlotsAt(base), ScheduledAt(base), LagAt(base),
           Polls, BufferInv', at' = "done", program = "bench", NEW e \in Deliveries
    PROVE  e.frame < Cursor(base)'
<1>1. PollBuffer /\ ~ ((waiting # {} \/ JB!HasPending') /\ tick' < EndOfBenchmark)
  BY DEF Polls, PollBuffer, Continues
<1>2. LagAt(base)' /\ SlotsAt(base)'
  BY PollLag, PollSlots
<1>3. /\ Arrived' = Arrived /\ Deliveries' = Deliveries /\ profile' = profile
      /\ program' = program
  BY PollFacts
<1>4. e.frame \in Nat /\ e.frame \in 0 .. FrameCount - 1 /\ FrameCount = ContentFrames
  BY Entries, Frames DEF TypeOK
<1>5. PICK n \in Nat : n = Cursor(base)'
  <2>1. CASE JB!PopEvent
    <3>1. Cursor(base) \in Nat /\ Cursor(base)' = Cursor(base) + 1
      BY <2>1, PopFacts, CursorType
    <3> QED  BY <3>1
  <2>2. CASE ~JB!PopEvent
    <3>1. UNCHANGED <<next_seq, started>>
      BY <2>2, NotDue DEF buffer
    <3>2. Cursor(base)' = Cursor(base)
      BY <3>1 DEF Cursor
    <3> QED  BY <3>2, CursorType
  <2> QED  BY <2>1, <2>2
<1>6. CASE waiting = {} /\ ~JB!HasPending'
  <2>1. e \in Arrived' /\ JB!Buffered' = {}
    BY <1>3, <1>6 DEF Arrived, JB!HasPending, Polls
  <2>2. started' /\ base + e.frame < next_seq'
    BY <1>2, <2>1 DEF SlotsAt
  <2>3. next_seq' \in Int /\ n = next_seq' - base
    BY <1>5, <2>2 DEF BufferInv, JB!TypeOK, Cursor
  <2> QED  BY <1>4, <1>5, <2>2, <2>3
<1>7. ASSUME ~ (tick' < EndOfBenchmark), ~ (e.frame < n) PROVE FALSE
  <2>1. PICK delay \in Nat, most \in Nat, slack \in Nat :
          /\ delay = profile.base_delay /\ most = profile.jitter
          /\ slack = Slack(profile) /\ slack <= TailTime
    BY ProfileFacts DEF TypeOK
  <2>2. PICK content \in Int, played \in Int :
          content = ContentFrames * FrameTicks /\ played = n * FrameTicks
    BY Product, Constants
  <2>3. tick' <= played + delay + slack
    <3>1. tick' <= n * FrameTicks + profile.base_delay + Slack(profile)
      BY <1>2, <1>3, <1>4, <1>5, <1>7 DEF LagAt, Polls
    <3> QED  BY <2>1, <2>2, <3>1
  <2>4. played + FrameTicks <= content
    <3>1. PICK k \in Int : k = n + 1
      OBVIOUS
    <3>2. k <= ContentFrames /\ ContentFrames \in Int
      BY <1>4, <1>7, <3>1, Constants
    <3>3. k * FrameTicks <= content
      BY <2>2, <3>2, Times
    <3>4. k * FrameTicks = played + FrameTicks
      BY <2>2, <3>1, Times
    <3> QED  BY <3>3, <3>4
  <2>5. EndOfBenchmark = content + delay + most + TailTime
    BY <2>1, <2>2 DEF EndOfBenchmark
  <2>6. tick' \in Nat
    BY DEF TypeOK
  <2> QED  BY <1>7, <2>1, <2>2, <2>3, <2>4, <2>5, <2>6, Constants
<1> QED  BY <1>1, <1>5, <1>6, <1>7

LEMMA PollStream ==
    ASSUME TypeOK, TypeOK', TraceInv, BufferInv, BufferInv', PlaceInv, ClockInv, StreamInv,
           Polls
    PROVE  StreamInv'
<1>1. PICK base \in Int : /\ SlotsAt(base) /\ ScheduledAt(base) /\ LagAt(base)
                          /\ OutputAt(base) /\ DoneAt(base)
  BY DEF StreamInv
<1>2. DoneAt(base)'
  <2>1. program' = program /\ Deliveries' = Deliveries
    BY PollFacts
  <2>2. at' = "done" => program \in {"trace", "bench"}
    BY DEF Polls, PollBuffer, PlaceInv
  <2> QED  BY <1>1, <2>1, <2>2, TraceDone, BenchDone DEF DoneAt
<1> QED  BY <1>1, <1>2, PollSlots, PollScheduled, PollLag, PollOutput DEF StreamInv

-----------------------------------------------------------------------------
(* The invariant.                                                          *)

LEMMA FreshSteps ==
    ASSUME TypeOK', BufferInv', PlaceInv, EncodeFrame \/ StartReplay
    PROVE  Fresh'
<1>1. /\ ~started' /\ output' = <<>> /\ tick' = 0 /\ at' # "done"
  BY DEF EncodeFrame, StartReplay, buffer, PlaceInv
<1>2. Arrived' = {}
  BY DEF EncodeFrame, StartReplay, Arrived, Deliveries
<1> QED  BY <1>1, <1>2 DEF Fresh

LEMMA WaitingSteps ==
    ASSUME TypeOK, BufferInv, TraceInv, PlaceInv, ClockInv,
           NextArrival \/ AdvanceClock \/ LoopTail \/ Sleep \/ UNCHANGED vars
    PROVE  StreamWaits /\ now' \in Nat
<1>1. now \in Nat /\ tick \in Nat
  BY DEF BufferInv, JB!TypeOK, TypeOK
<1>2. CASE NextArrival
  <2>1. PICK e \in Arriving : SetClock(e)
    BY <1>2 DEF NextArrival
  <2>2. e \in waiting /\ e.arrival \in Nat /\ program # "loopback"
    BY <1>2, <2>1, Entries DEF Arriving, PlaceInv, NextArrival
  <2>3. now <= e.arrival
    BY <1>2, <2>2 DEF ClockInv, NextArrival
  <2>4. now' \in Nat /\ now <= now'
    BY <1>1, <2>1, <2>2, <2>3 DEF SetClock
  <2> QED  BY <1>2, <2>4 DEF NextArrival, StreamWaits
<1>3. CASE AdvanceClock
  <2>1. now <= tick
    BY <1>3 DEF AdvanceClock, ClockInv, PlaceInv
  <2> QED  BY <1>1, <1>3, <2>1 DEF AdvanceClock, StreamWaits
<1>4. CASE LoopTail
  <2>1. program = "loopback"
    BY <1>4 DEF LoopTail, PlaceInv
  <2> QED  BY <1>1, <1>4, <2>1 DEF LoopTail, StreamWaits
<1>5. CASE Sleep
  <2>1. PICK late \in 0 .. MaxOversleep : now' = now + FrameTicks + late
    BY <1>5 DEF Sleep
  <2>2. now' \in Nat /\ now <= now'
    BY <1>1, <2>1, Constants
  <2> QED  BY <1>5, <2>2 DEF Sleep, StreamWaits
<1>6. CASE UNCHANGED vars
  BY <1>1, <1>6 DEF vars, StreamWaits
<1> QED  BY <1>2, <1>3, <1>4, <1>5, <1>6

LEMMA InvInit == Init => IInv
<1> SUFFICES ASSUME Init PROVE IInv
  OBVIOUS
<1>1. TypeOK /\ BufferInv
  BY InitTyped
<1>2. /\ at = "encode" /\ trace = <<>> /\ waiting = {} /\ tick = 0 /\ output = <<>>
      /\ ~started /\ now = 0
  BY DEF Init, JB!Init
<1>3. DOMAIN trace = {} /\ DOMAIN output = {} /\ Len(trace) = 0
  BY <1>2
<1>4. Arrived = {}
  BY <1>2 DEF Arrived
<1>5. TraceInv
  BY <1>1, <1>2, <1>3, Frames DEF TraceInv, TypeOK
<1>6. PlaceInv
  BY <1>2 DEF PlaceInv
<1>7. ClockInv
  BY <1>2, <1>4 DEF ClockInv
<1>8. HeldInv
  BY <1>2, <1>3 DEF HeldInv
<1>9. StreamInv
  BY <1>1, <1>2, <1>4, FreshStream DEF Fresh
<1> QED  BY <1>1, <1>5, <1>6, <1>7, <1>8, <1>9 DEF IInv

LEMMA InvStep == IInv /\ [Next]_vars => IInv'
<1> SUFFICES ASSUME IInv, [Next]_vars PROVE IInv'
  OBVIOUS
<1>1. /\ TypeOK /\ BufferInv /\ TraceInv /\ PlaceInv /\ ClockInv /\ StreamInv /\ HeldInv
  BY DEF IInv
<1>2. TypeOK'
  BY <1>1, TypeKept
<1>3. BufferInv' /\ TraceInv' /\ PlaceInv'
  BY <1>1, BufferKept, TraceKept, PlaceKept
<1>4. ClockInv' /\ HeldInv'
  BY <1>1, <1>2, ClockKept, HeldKept
<1>5. StreamInv'
  <2>1. CASE EncodeFrame \/ StartReplay
    BY <1>1, <1>2, <1>3, <2>1, FreshSteps, FreshNext
  <2>2. CASE NextArrival \/ AdvanceClock \/ LoopTail \/ Sleep \/ UNCHANGED vars
    BY <1>1, <2>2, WaitingSteps, WaitingKept
  <2>3. CASE PushArrival \/ LoopBack
    BY <1>1, <2>3, PushStream
  <2>4. CASE PollBuffer \/ Play
    BY <1>1, <1>2, <1>3, <2>4, PollSteps, PollStream
  <2> QED  BY <2>1, <2>2, <2>3, <2>4 DEF Next
<1> QED  BY <1>2, <1>3, <1>4, <1>5 DEF IInv

LEMMA InvAlways == Spec => []IInv
BY InvInit, InvStep, PTL DEF Spec

-----------------------------------------------------------------------------
\* The variables of the three programs keep their types, whatever the network
\* of a profile does with their packets.
THEOREM TypeCorrect == Spec => []TypeOK
<1>1. IInv => TypeOK
  BY DEF IInv
<1> QED  BY <1>1, InvAlways, PTL

\* No program plays content before the startup target has passed since the
\* first packet truly arrived, for any trace and any profile: neither the clock
\* the replay injects nor the benchmark's, a poll behind, lets a frame out early
\* (neteq_trace_sender.rs:287-291, 331-336, 343-344, benchmark.rs:323-334).
THEOREM StartupHeldAlways == Spec => []StartupHeld
<1>1. IInv => StartupHeld
  <2> SUFFICES ASSUME IInv, output # <<>> PROVE StartupHeld
    BY DEF StartupHeld
  <2>1. TypeOK /\ TraceInv /\ HeldInv
    BY DEF IInv
  <2>2. 1 \in DOMAIN output /\ output[1].at \in Nat
    <3>1. output \in Seq([frame : 0 .. ContentFrames - 1, at : Nat,
                          kind : {"packet", "recovered", "missing"}])
      BY <2>1 DEF TypeOK
    <3>2. 1 \in DOMAIN output
      BY <3>1
    <3>3. output[1] \in [frame : 0 .. ContentFrames - 1, at : Nat,
                         kind : {"packet", "recovered", "missing"}]
      BY <3>1, <3>2, ElementOf
    <3> QED  BY <3>2, <3>3
  <2>3. program \in {"trace", "bench", "loopback"}
    BY <2>1, Frames DEF TypeOK
  <2>4. CASE program = "loopback"
    BY <2>1, <2>2, <2>4 DEF StartupHeld, HeldInv
  <2>5. CASE program # "loopback"
    <3>1. PICK e \in Deliveries : output[1].at >= e.arrival - ClockLag + JB!StartupTarget
      BY <2>1, <2>2, <2>5 DEF HeldInv
    <3>2. FirstArrival \in Nat /\ FirstArrival <= e.arrival
      <4> DEFINE delivered == {x.arrival : x \in Deliveries}
      <4>1. delivered \in SUBSET Nat /\ e.arrival \in delivered
        BY <2>1, Entries
      <4>2. PICK t \in delivered : \A u \in delivered : t <= u
        BY <4>1, Least
      <4>3. PICK x \in Deliveries : x.arrival = t
        BY <4>2
      <4>4. PICK i \in DOMAIN trace : ~trace[i].dropped /\ trace[i].arrival = t
        BY <4>3 DEF Deliveries
      <4>5. \A k \in DOMAIN trace : trace[k].dropped \/ t <= trace[k].arrival
        BY <4>2 DEF Deliveries
      <4>6. t \in {trace[k].arrival : k \in DOMAIN trace}
        BY <4>4
      <4>7. /\ FirstArrival \in {trace[k].arrival : k \in DOMAIN trace}
            /\ \A k \in DOMAIN trace : trace[k].dropped \/ FirstArrival <= trace[k].arrival
        BY <4>4, <4>5, <4>6 DEF FirstArrival
      <4>8. FirstArrival \in Nat
        BY <2>1, <4>7, TraceType
      <4>9. FirstArrival <= e.arrival
        BY <4>7 DEF Deliveries
      <4> QED  BY <4>8, <4>9
    <3>3. e.arrival \in Nat /\ ClockLag \in Nat /\ JB!StartupTarget \in Nat
          /\ ClockLag = IF program = "bench" THEN Poll ELSE 0
      BY <2>1, Entries, Constants DEF ClockLag
    <3>4. output[1].at >= FirstArrival - ClockLag + JB!StartupTarget
      BY <2>2, <3>1, <3>2, <3>3
    <3> QED  BY <2>2, <2>3, <2>5, <3>2, <3>3, <3>4, Constants DEF StartupHeld
  <2> QED  BY <2>4, <2>5
<1> QED  BY <1>1, InvAlways, PTL

\* A program that stops has played every content frame from its first one on,
\* for any trace and any profile within the assumptions: the polls keep up with
\* the cursor, so that the stop conditions cut nothing short
\* (neteq_trace_sender.rs:326-330, benchmark.rs:315-321,
\* voice_pipeline.rs:99-107).
THEOREM ContinuityCompleteAlways == Spec => []ContinuityComplete
<1>1. IInv => ContinuityComplete
  <2> SUFFICES ASSUME IInv, at = "done", Delivered # {}
               PROVE  /\ output # <<>>
                      /\ \A i \in DOMAIN output : output[i].frame = output[1].frame + i - 1
                      /\ output[Len(output)].frame = LastFrame
    BY DEF ContinuityComplete
  <2>1. TypeOK /\ BufferInv /\ TraceInv /\ StreamInv
    BY DEF IInv
  <2>2. PICK base \in Int : SlotsAt(base) /\ OutputAt(base) /\ DoneAt(base)
    BY <2>1 DEF StreamInv
  <2>3. PICK n \in Nat : /\ n = Cursor(base) /\ n <= FrameCount
                         /\ started => next_seq = base + n /\ n = next_seq - base
    BY <2>1, <2>2, CursorType
  <2>4. PICK c \in Nat : c = ContentFrames /\ c >= 1
    BY Constants
  <2>5. /\ program = "trace" => n >= c
        /\ program # "trace" => \A e \in Deliveries : e.frame < n
    BY <2>2, <2>3, <2>4 DEF DoneAt
  <2>6. Delivered = {e.frame : e \in Deliveries} /\ Delivered \subseteq Nat
    <3>1. Delivered = {e.frame : e \in Deliveries}
      BY DEF Delivered, Deliveries
    <3> QED  BY <2>1, <3>1, Entries
  <2>7. n >= 1 /\ started
    <3>1. n >= 1
      <4>1. CASE program = "trace"
        BY <2>4, <2>5, <4>1
      <4>2. CASE program # "trace"
        <5>1. PICK e \in Deliveries : e.frame \in Nat
          BY <2>6
        <5> QED  BY <2>5, <4>2, <5>1
      <4> QED  BY <4>1, <4>2
    <3> QED  BY <2>3, <3>1 DEF Cursor
  <2>8. log # <<>>
    <3> SUFFICES ASSUME log = <<>> PROVE FALSE
      OBVIOUS
    <3>1. ~playout_started /\ n < c
      BY <2>2, <2>3, <2>4, <2>7 DEF OutputAt
    <3>2. program # "trace"
      BY <2>4, <2>5, <3>1
    <3>3. next_seq \in JB!Buffered
      BY <2>1, <2>7, <3>1 DEF BufferInv, JB!SlotInv, JB!PrimedHead
    <3>4. PICK e \in Arrived : e.frame = n
      BY <2>2, <2>3, <2>7, <3>3 DEF SlotsAt
    <3> QED  BY <2>5, <3>2, <3>4 DEF Arrived
  <2>9. PICK start \in 0 .. c - 1 :
          /\ start < n
          /\ Len(output) = JB!MinOf(n, c) - start
          /\ \A i \in DOMAIN output : output[i].frame = start + i - 1
    BY <2>2, <2>3, <2>4, <2>7, <2>8 DEF OutputAt
  <2>10. PICK played \in Nat : played = JB!MinOf(n, c) /\ start < played
                               /\ played = IF n <= c THEN n ELSE c
    BY <2>4, <2>9 DEF JB!MinOf
  <2>11. /\ Len(output) \in Nat /\ DOMAIN output = 1 .. Len(output)
         /\ Len(output) = played - start /\ Len(output) >= 1
    <3>1. output \in Seq([frame : 0 .. ContentFrames - 1, at : Nat,
                          kind : {"packet", "recovered", "missing"}])
      BY <2>1 DEF TypeOK
    <3> QED  BY <2>9, <2>10, <3>1
  <2>12. output # <<>> /\ output[1].frame = start /\ output[Len(output)].frame = played - 1
    <3>1. 1 \in DOMAIN output /\ Len(output) \in DOMAIN output
      BY <2>11
    <3>2. output[1].frame = start + 1 - 1 /\ output[Len(output)].frame = start + Len(output) - 1
      BY <2>9, <3>1
    <3>3. Len(<<>>) = 0
      OBVIOUS
    <3> QED  BY <2>10, <2>11, <3>2, <3>3
  <2>13. played - 1 = LastFrame
    <3>1. CASE program = "trace"
      BY <2>4, <2>5, <2>10, <3>1 DEF LastFrame
    <3>2. CASE program # "trace"
      <4>1. played = n
        BY <2>1, <2>3, <2>4, <2>10, <3>2, Frames DEF TypeOK
      <4>2. PICK x \in Arrived : next_seq <= base + x.frame + 1
        BY <2>2, <2>7 DEF SlotsAt
      <4>3. x.frame \in Nat /\ x.frame < n /\ x \in Deliveries
        BY <2>1, <2>5, <3>2, <4>2, Entries DEF Arrived
      <4>4. x.frame = n - 1
        BY <2>3, <2>7, <4>2, <4>3
      <4>5. \A g \in Delivered : g \in Nat /\ g <= n - 1
        BY <2>5, <2>6, <3>2
      <4>6. n - 1 \in Delivered
        BY <2>6, <4>3, <4>4
      <4>7. \A f \in Delivered : (\A g \in Delivered : g <= f) => f = n - 1
        BY <4>5, <4>6
      <4>8. LastFrame = CHOOSE f \in Delivered : \A g \in Delivered : g <= f
        BY <3>2 DEF LastFrame
      <4>9. LastFrame = n - 1
        BY <4>5, <4>6, <4>7, <4>8
      <4> QED  BY <4>1, <4>9
    <3> QED  BY <3>1, <3>2
  <2> QED  BY <2>9, <2>12, <2>13
<1> QED  BY <1>1, InvAlways, PTL

=============================================================================
