-------------------------- MODULE JitterSenderProofs --------------------------
(***************************************************************************)
(* What the jitter buffer makes of the stream of a sender that numbers and *)
(* stamps its frames as RTP wants it: they are played in the order they    *)
(* were sent in, and none overlaps another, however both counters wrap.    *)
(***************************************************************************)
EXTENDS JitterBufferProofs

-----------------------------------------------------------------------------
(* Arithmetic modulo the size of a space.                                  *)

LEMMA Modulo ==
    ASSUME NEW a \in Int, NEW size \in Nat \ {0}
    PROVE  a % size \in 0 .. size - 1 /\ \E q \in Int : a = q * size + (a % size)
<1>1. a \div size \in Int /\ a = (a \div size) * size + (a % size)
  BY SMT
<1>2. a % size \in 0 .. size - 1
  BY SMT
<1>3. QED BY <1>1, <1>2

\* A multiple of the size between the bounds of two remainders is one or none.
LEMMA FewWraps ==
    ASSUME NEW size \in Nat \ {0}, NEW m \in Int,
           -2 * size < m * size, m * size < size
    PROVE  m \in {-1, 0}
<1>1. CASE m >= 1
  <2>1. m * size >= 1 * size
    BY <1>1, SMT
  <2>2. QED BY <2>1
<1>2. CASE m <= -2
  <2>1. m * size <= (-2) * size
    BY <1>2, SMT
  <2>2. QED BY <2>1
<1>3. QED BY <1>1, <1>2

\* Numbers that differ by whole wraps have one remainder.
LEMMA SameRemainder ==
    ASSUME NEW size \in Nat \ {0}, NEW a \in Int, NEW wraps \in Int
    PROVE  (a + wraps * size) % size = a % size
<1>1. PICK q \in Int : a = q * size + (a % size)
  BY Modulo
<1>2. PICK b \in Int : b = a + wraps * size
  BY SMT
<1>3. PICK k \in Int : b = k * size + (b % size)
  BY Modulo
<1>4. a % size \in 0 .. size - 1 /\ b % size \in 0 .. size - 1
  BY Modulo
<1>5. PICK r \in 0 .. size - 1 : r = a % size
  BY <1>4
<1>6. PICK s \in 0 .. size - 1 : s = b % size
  BY <1>4
<1>7. (q + wraps - k) * size = s - r
  <2>1. (q + wraps - k) * size = q * size + wraps * size - k * size
    BY SMT
  <2>2. q * size + r + wraps * size = k * size + s
    BY <1>1, <1>2, <1>3, <1>5, <1>6
  <2>3. q * size \in Int /\ wraps * size \in Int /\ k * size \in Int
    BY SMT
  <2>4. QED BY <2>1, <2>2, <2>3
<1>8. q + wraps - k = 0
  <2>1. PICK m \in Int : m = q + wraps - k
    BY SMT
  <2>2. m * size = s - r /\ -size < s - r /\ s - r < size
    BY <1>5, <1>6, <1>7, <2>1
  <2>3. m \in {-1, 0}
    BY <2>2, FewWraps
  <2>4. m # -1
    BY <2>2
  <2>5. QED BY <2>1, <2>3, <2>4
<1>9. QED BY <1>2, <1>5, <1>6, <1>7, <1>8

-----------------------------------------------------------------------------
(* The sender.                                                             *)

\* Frame n carries number first + n, and the stream is no longer than half the
\* sequence space, as far as extend_seq can look.
Numbered(first, last) ==
    /\ 2 * (last + 1) <= SeqSpace
    /\ \A p \in Sent : /\ p.payload <= last
                       /\ p.sequence_number = (first + p.payload) % SeqSpace

\* Frame n carries timestamp first + clock[n]; frames do not overlap, and the
\* stream is shorter than half the timestamp space.
Stamped(first, clock, last) ==
    /\ clock \in [0 .. last -> Nat]
    /\ \A n \in 0 .. last : 2 * clock[n] < TsSpace
    /\ \A n \in 0 .. last : n # last => clock[n] + FrameTicks <= clock[n + 1]
    /\ \A p \in Sent : p.timestamp = (first + clock[p.payload]) % TsSpace

\* base is an extended number of frame 0.
Aligned(base, first) == \E wraps \in Int : base = first + wraps * SeqSpace

\* extend_seq finds the slot of a frame from anywhere within half a space.
LEMMA ExtendFinds ==
    ASSUME NEW first \in Int, NEW base \in Int, Aligned(base, first),
           NEW frame \in Nat, NEW reference \in Int,
           -SeqSpace <= 2 * (base + frame - reference),
           2 * (base + frame - reference) < SeqSpace
    PROVE  Extend((first + frame) % SeqSpace, reference) = base + frame
<1> DEFINE seq == (first + frame) % SeqSpace
           distance == (seq - reference) % SeqSpace
           d == base + frame - reference
<1>1. SeqSpace \in Nat \ {0}
  BY JitterAssumption
<1>2. PICK wraps \in Int : base = first + wraps * SeqSpace
  BY DEF Aligned
<1>3. PICK q \in Int : first + frame = q * SeqSpace + seq
  <2>1. first + frame \in Int
    OBVIOUS
  <2>2. QED BY <1>1, <2>1, Modulo
<1>4. seq \in 0 .. SeqSpace - 1 /\ distance \in 0 .. SeqSpace - 1 /\ d \in Int
  <2>1. seq \in 0 .. SeqSpace - 1
    BY <1>1, Modulo
  <2>2. seq - reference \in Int
    BY <1>1, <2>1
  <2>3. QED BY <1>1, <2>1, <2>2, Modulo
<1>5. seq - reference = d + (- (q + wraps)) * SeqSpace
  <2>1. (- (q + wraps)) * SeqSpace = - (q * SeqSpace) - wraps * SeqSpace
    BY <1>1, SMT
  <2>2. q * SeqSpace \in Int /\ wraps * SeqSpace \in Int
    BY <1>1, SMT
  <2> HIDE DEF seq, distance
  <2>3. QED BY <1>1, <1>2, <1>3, <1>4, <2>1, <2>2
<1>6. distance = d % SeqSpace
  <2>1. PICK m \in Int : m = - (q + wraps)
    OBVIOUS
  <2>2. (d + m * SeqSpace) % SeqSpace = d % SeqSpace
    BY <1>1, <1>4, SameRemainder
  <2>3. QED BY <1>5, <2>1, <2>2
<1>7. PICK k \in Int : d = k * SeqSpace + distance
  BY <1>1, <1>4, <1>6, Modulo
<1>8. k \in {-1, 0}
  <2>1. k * SeqSpace = d - distance
    BY <1>1, <1>4, <1>7, SMT
  <2> HIDE DEF d, distance
  <2>2. -2 * SeqSpace < d - distance /\ d - distance < SeqSpace
    BY <1>1, <1>4 DEF d
  <2>3. QED BY <1>1, <2>1, <2>2, FewWraps
<1>9. CASE k = 0
  BY <1>1, <1>4, <1>7, <1>9 DEF Extend
<1>10. CASE k = -1
  BY <1>1, <1>4, <1>7, <1>10 DEF Extend
<1>11. QED BY <1>8, <1>9, <1>10

-----------------------------------------------------------------------------
(* The invariant: every slot is its frame's.                               *)

FramesAt(base, last) ==
    /\ started => base <= next_seq /\ next_seq <= base + last + 1
    /\ \A slot \in Buffered : slot = base + packets[slot].payload
    /\ \A slot \in Evicted : slot - base \in 0 .. last
    /\ \A i \in DOMAIN log :
         log[i].kind = "packet" => log[i].payload = {log[i].slot - base}

\* Up to the slot just emitted no prediction ran ahead of its frame's own
\* timestamp.
TimesAt(base, first, clock, last) ==
    /\ \A slot \in Evicted : evicted_slots[slot] = (first + clock[slot - base]) % TsSpace
    /\ playout_started => log # <<>>
    /\ log # <<>> => \E t \in Nat :
         /\ next_seq - 1 - base \in 0 .. last /\ t <= clock[next_seq - 1 - base]
         /\ log[Len(log)].timestamp = (first + t) % TsSpace
         /\ next_timestamp = (first + t + FrameTicks) % TsSpace
    /\ FramesDoNotOverlap


-----------------------------------------------------------------------------
(* Pushes.                                                                 *)

\* A push changes nothing that the frames see, or stores its packet in the free
\* slot of its frame; the first one decides where frame 0 would be.
LEMMA PushPlaces ==
    ASSUME TypeOK, SlotInv, NEW first \in Int, NEW last \in Nat, Numbered(first, last),
           NEW base \in Int, Aligned(base, first), FramesAt(base, last),
           NEW p \in Sent, Push(p)
    PROVE  \E b \in Int :
             /\ Aligned(b, first) /\ (started => b = base) /\ started'
             /\ log' = log /\ playout_started' = playout_started
             /\ log # <<>> => UNCHANGED <<next_seq, next_timestamp>>
             /\ b <= next_seq' /\ next_seq' <= b + last + 1
             /\ \/ UNCHANGED <<packets, evicted_slots>>
                \/ /\ Store(p, b + p.payload)
                   /\ b + p.payload \notin Buffered \cup Evicted
<1>1. /\ p.payload \in Nat /\ p.payload <= last
      /\ p.sequence_number = (first + p.payload) % SeqSpace
      /\ next_seq \in Int /\ SeqSpace \in Nat \ {0}
  BY SentType, JitterAssumption DEF Numbered, TypeOK
<1>2. log # <<>> => playout_started /\ started
  BY DEF SlotInv, Quiet
<1>3. CASE PushFirst(p)
  <2>1. PICK q \in Int : first + p.payload = q * SeqSpace + p.sequence_number
    <3>1. first + p.payload \in Int
      BY <1>1
    <3>2. QED BY <1>1, <3>1, Modulo
  <2> DEFINE b == p.sequence_number - p.payload
  <2>2. b \in Int /\ b + p.payload = p.sequence_number /\ p.sequence_number \in Int
    BY <1>1, SentType
  <2>3. Aligned(b, first)
    <3>1. (-q) * SeqSpace = -(q * SeqSpace) /\ q * SeqSpace \in Int /\ -q \in Int
      BY <1>1, SMT
    <3>2. b = first + (-q) * SeqSpace
      BY <1>1, <2>1, <2>2, <3>1
    <3>3. QED BY <3>1, <3>2 DEF Aligned
  <2>4. /\ ~started /\ started' /\ log' = log /\ playout_started' = playout_started
        /\ next_seq' = p.sequence_number /\ Store(p, p.sequence_number)
        /\ Buffered = {} /\ Evicted = {}
    BY <1>3 DEF PushFirst, SlotInv, Quiet
  <2>5. b <= next_seq' /\ next_seq' <= b + last + 1
    BY <1>1, <2>2, <2>4
  <2> HIDE DEF b
  <2>6. QED BY <1>2, <2>2, <2>3, <2>4, <2>5
<1>4. CASE ~ PushFirst(p)
  <2> DEFINE slot == Extend(p.sequence_number, next_seq)
  <2>1. started /\ base <= next_seq /\ next_seq <= base + last + 1
    BY <1>4 DEF Push, PushLate, PushEarlier, PushDuplicate, PushAhead, FramesAt
  <2>2. slot = base + p.payload
    <3>1. PICK frame \in Nat : frame = p.payload
      BY <1>1
    <3>2. /\ -SeqSpace <= 2 * (base + frame - next_seq)
          /\ 2 * (base + frame - next_seq) < SeqSpace
      BY <1>1, <2>1, <3>1 DEF Numbered
    <3>3. Extend((first + frame) % SeqSpace, next_seq) = base + frame
      BY <1>1, <3>2, ExtendFinds
    <3>4. QED BY <1>1, <3>1, <3>3
  <2>3. CASE PushLate(p) \/ PushDuplicate(p)
    BY <2>1, <2>3 DEF PushLate, PushDuplicate, cursor
  <2>4. CASE PushEarlier(p)
    <3>1. /\ started' /\ log' = log /\ playout_started' = playout_started
          /\ next_seq' = slot /\ Store(p, slot) /\ slot < next_seq /\ ~playout_started
      BY <2>4 DEF PushEarlier
    <3>2. slot \notin Buffered \cup Evicted
      BY <1>1, <2>2, <3>1 DEF SlotInv, PendingAhead
    <3>3. base <= next_seq' /\ next_seq' <= base + last + 1
      BY <1>1, <2>2, <3>1
    <3>4. QED BY <1>2, <2>2, <3>1, <3>2, <3>3
  <2>5. CASE PushAhead(p)
    BY <2>1, <2>2, <2>5 DEF PushAhead, cursor
  <2>6. QED BY <1>4, <2>3, <2>4, <2>5 DEF Push
<1>5. QED BY <1>3, <1>4

\* What is stored where its frame belongs stays there, buffered or evicted.
LEMMA StoreFrames ==
    ASSUME TypeOK, NEW last \in Nat, NEW base \in Int, FramesAt(base, last),
           NEW p \in Sent, p.payload <= last, Store(p, base + p.payload),
           \A q \in Sent : q.payload <= last,
           base <= next_seq', next_seq' <= base + last + 1, log' = log
    PROVE  FramesAt(base, last)'
<1> DEFINE slot == base + p.payload
<1>1. p.payload \in Nat /\ slot \in Int /\ slot - base = p.payload /\ Store(p, slot)
  BY SentType
<1> HIDE DEF slot
<1>2. \A k \in Buffered' : packets'[k] = IF k = slot THEN p ELSE packets[k]
  BY <1>1, StoreEffect
<1>3. Buffered' \subseteq Buffered \cup {slot} /\ Evicted' \subseteq Buffered \cup Evicted \cup {slot}
  <2>1. \/ Buffered' = Buffered \cup {slot} /\ Evicted' = Evicted
        \/ \E gone \in Buffered \cup {slot} :
             /\ Buffered' = (Buffered \cup {slot}) \ {gone}
             /\ Evicted' = Evicted \cup {gone}
    BY <1>1, StoreEffect
  <2>2. QED BY <2>1
<1>4. \A k \in Buffered' : k = base + packets'[k].payload
  BY <1>1, <1>2, <1>3 DEF FramesAt, slot
<1>5. \A k \in Buffered \cup Evicted \cup {slot} : k - base \in 0 .. last
  <2>1. ASSUME NEW k \in Buffered PROVE k - base \in 0 .. last
    <3>1. packets[k].payload \in Nat /\ packets[k].payload <= last
      BY SentType DEF TypeOK
    <3>2. k = base + packets[k].payload
      BY DEF FramesAt
    <3>3. QED BY <3>1, <3>2
  <2>2. QED BY <1>1, <2>1 DEF FramesAt
<1>6. QED BY <1>3, <1>4, <1>5 DEF FramesAt

\* Before the first packet the slots of no frame are decided.
LEMMA QuietFrames ==
    ASSUME SlotInv, ~started, NEW b \in Int, NEW last \in Nat
    PROVE  FramesAt(b, last)
BY DEF SlotInv, Quiet, FramesAt

LEMMA PushFrames ==
    ASSUME TypeOK, SlotInv, NEW last \in Nat,
           \A q \in Sent : q.payload <= last,
           NEW b \in Int, FramesAt(b, last), NEW p \in Sent,
           log' = log, b <= next_seq', next_seq' <= b + last + 1,
           \/ UNCHANGED <<packets, evicted_slots>>
           \/ Store(p, b + p.payload)
    PROVE  FramesAt(b, last)'
<1>1. CASE UNCHANGED <<packets, evicted_slots>>
  BY <1>1 DEF FramesAt, Buffered, Evicted
<1>2. CASE Store(p, b + p.payload)
  BY <1>2, StoreFrames
<1>3. QED BY <1>1, <1>2

-----------------------------------------------------------------------------
(* Pops.                                                                   *)

\* The slot that is popped is a frame's: a later one proves that it was sent.
LEMMA PoppedFrame ==
    ASSUME TypeOK, SlotInv, NEW base \in Int, NEW last \in Nat, FramesAt(base, last),
           \A q \in Sent : q.payload <= last, PopEvent
    PROVE  next_seq - base \in 0 .. last
<1>1. HasPending /\ started
  BY DEF PopEvent, PopPacket, PopEvicted, PopRecovered, PopMissing, LoseSlot, Due
<1>2. PICK k \in Buffered \cup Evicted : k >= next_seq
  BY <1>1 DEF HasPending, SlotInv, PendingAhead
<1>3. k - base \in 0 .. last
  <2>1. CASE k \in Buffered
    <3>1. packets[k].payload \in Nat /\ packets[k].payload <= last /\ k \in Int
      BY <2>1, SentType DEF TypeOK
    <3>2. k = base + packets[k].payload
      BY <2>1 DEF FramesAt
    <3>3. QED BY <3>1, <3>2
  <2>2. CASE k \in Evicted
    BY <2>2 DEF FramesAt
  <2>3. QED BY <2>1, <2>2
<1>4. base <= next_seq /\ next_seq \in Int /\ k \in Int
  BY <1>1 DEF FramesAt, TypeOK
<1>5. QED BY <1>2, <1>3, <1>4

LEMMA PopFrames ==
    ASSUME TypeOK, SlotInv, NEW base \in Int, NEW last \in Nat, FramesAt(base, last),
           \A q \in Sent : q.payload <= last, PopEvent
    PROVE  FramesAt(base, last)'
<1>1. /\ next_seq' = next_seq + 1 /\ started'
      /\ Buffered' = Buffered \ {next_seq} /\ Evicted' = Evicted \ {next_seq}
      /\ \A k \in Buffered' : packets'[k] = packets[k]
  BY PopEffect
<1>2. base <= next_seq' /\ next_seq' <= base + last + 1
  <2>1. next_seq \in Int
    BY DEF TypeOK
  <2>2. QED BY <1>1, <2>1, PoppedFrame
<1>3. PICK event \in Event : event.slot = next_seq /\ log' = Append(log, event)
  BY PopEffect
<1>4. /\ DOMAIN log' = 1 .. Len(log) + 1 /\ DOMAIN log = 1 .. Len(log) /\ Len(log) \in Nat
      /\ \A i \in 1 .. Len(log) : log'[i] = log[i]
      /\ log'[Len(log) + 1] = event
  BY <1>3 DEF TypeOK
<1>5. event.kind = "packet" => event.payload = {next_seq - base}
  <2> SUFFICES ASSUME event.kind = "packet" PROVE event.payload = {next_seq - base}
    OBVIOUS
  <2>1. PopPacket
    <3>1. ASSUME NEW kind \in {"missing", "recovered"}, NEW timestamp, NEW payload,
                 log' = Append(log, PlayoutEvent(kind, timestamp, payload))
          PROVE  FALSE
      <4>1. log'[Len(log) + 1] = PlayoutEvent(kind, timestamp, payload)
        BY <1>4, <3>1 DEF TypeOK
      <4>2. QED BY <1>4, <4>1 DEF PlayoutEvent
    <3>2. QED BY <3>1 DEF PopEvent, PopEvicted, PopMissing, PopRecovered, LoseSlot, EmitSlot
  <2>2. /\ next_seq \in Buffered
        /\ log' = Append(log, PlayoutEvent("packet", packets[next_seq].timestamp,
                                           {packets[next_seq].payload}))
    BY <2>1 DEF PopPacket, EmitSlot
  <2>3. log'[Len(log) + 1] = PlayoutEvent("packet", packets[next_seq].timestamp,
                                          {packets[next_seq].payload})
    BY <2>2 DEF TypeOK
  <2>4. event.payload = {packets[next_seq].payload}
    BY <1>4, <2>3 DEF PlayoutEvent
  <2>5. next_seq = base + packets[next_seq].payload /\ packets[next_seq].payload \in Nat
    BY <2>2, SentType DEF FramesAt, TypeOK
  <2>6. QED BY <2>4, <2>5
<1>6. \A i \in DOMAIN log' :
        log'[i].kind = "packet" => log'[i].payload = {log'[i].slot - base}
  <2> SUFFICES ASSUME NEW i \in DOMAIN log', log'[i].kind = "packet"
               PROVE  log'[i].payload = {log'[i].slot - base}
    OBVIOUS
  <2>1. CASE i \in 1 .. Len(log)
    BY <1>4, <2>1 DEF FramesAt
  <2>2. CASE i = Len(log) + 1
    BY <1>3, <1>4, <1>5, <2>2
  <2>3. QED BY <1>4, <2>1, <2>2
<1>7. QED BY <1>1, <1>2, <1>6 DEF FramesAt


-----------------------------------------------------------------------------
(* The order of the frames.                                                *)

FramesInv(first, last) ==
    \E base \in Int : Aligned(base, first) /\ FramesAt(base, last)

LEMMA FramesStep ==
    ASSUME NEW first \in Int, NEW last \in Nat, Numbered(first, last),
           TypeOK, SlotInv, FramesInv(first, last), [Next]_vars
    PROVE  FramesInv(first, last)'
<1>1. \A q \in Sent : q.payload <= last
  BY DEF Numbered
<1>2. PICK base \in Int : Aligned(base, first) /\ FramesAt(base, last)
  BY DEF FramesInv
<1>3. ASSUME NEW p \in Sent, Arrive(p) PROVE FramesInv(first, last)'
  <2>1. PICK b \in Int :
          /\ Aligned(b, first) /\ (started => b = base)
          /\ log' = log /\ b <= next_seq' /\ next_seq' <= b + last + 1
          /\ UNCHANGED <<packets, evicted_slots>> \/ Store(p, b + p.payload)
    BY <1>2, <1>3, PushPlaces DEF Arrive
  <2>2. FramesAt(b, last)
    BY <1>2, <2>1, QuietFrames
  <2>3. FramesAt(b, last)'
    BY <1>1, <2>1, <2>2, PushFrames
  <2>4. QED BY <2>1, <2>3 DEF FramesInv
<1>4. CASE PopEvent
  <2>1. FramesAt(base, last)'
    BY <1>1, <1>2, <1>4, PopFrames
  <2>2. QED BY <1>2, <2>1 DEF FramesInv
<1>5. CASE Clear
  <2>1. ~ started' /\ Buffered' = {} /\ Evicted' = {} /\ log' = <<>>
    BY <1>5 DEF Clear, Nothing, Buffered, Evicted
  <2>2. FramesAt(base, last)'
    BY <2>1 DEF FramesAt
  <2>3. QED BY <1>2, <2>2 DEF FramesInv
<1>6. CASE Tick \/ UNCHANGED vars
  <2>1. UNCHANGED <<packets, evicted_slots, started, next_seq, log>>
    BY <1>6 DEF Tick, vars, cursor
  <2>2. FramesAt(base, last)'
    BY <1>2, <2>1 DEF FramesAt, Buffered, Evicted
  <2>3. QED BY <1>2, <2>2 DEF FramesInv
<1>7. QED BY <1>3, <1>4, <1>5, <1>6 DEF Next

\* Before anything arrived, frame 0 may have any slot.
LEMMA FramesInit ==
    ASSUME Init, NEW first \in Int, NEW last \in Nat
    PROVE  FramesAt(first, last) /\ Aligned(first, first)
<1>1. Buffered = {} /\ Evicted = {} /\ ~ started /\ log = <<>>
  BY DEF Init, Nothing, Buffered, Evicted
<1>2. first = first + 0 * SeqSpace
  BY JitterAssumption
<1>3. QED BY <1>1, <1>2 DEF FramesAt, Aligned

\* Whatever the network reorders, repeats or loses, the frames of a stream of at
\* most half the sequence space reach the decoder in the order the sender
\* numbered them, also across the wrap of the 16-bit number (jitter.rs:636-646).
THEOREM InSenderOrderAlways ==
    ASSUME NEW CONSTANT first \in Int, NEW CONSTANT last \in Nat, Numbered(first, last)
    PROVE  Spec => []InSenderOrder
<1>1. Init => FramesInv(first, last)
  BY FramesInit DEF FramesInv
<1>2. TypeOK /\ SlotInv /\ FramesInv(first, last) /\ [Next]_vars => FramesInv(first, last)'
  BY FramesStep
<1>3. OneEventPerSlot /\ TypeOK /\ FramesInv(first, last) => InSenderOrder
  <2> SUFFICES ASSUME OneEventPerSlot, TypeOK, FramesInv(first, last),
                      NEW i \in DOMAIN log, NEW j \in DOMAIN log, i < j,
                      log[i].kind = "packet", log[j].kind = "packet"
               PROVE  \A a \in log[i].payload, b \in log[j].payload : a < b
    BY DEF InSenderOrder
  <2>1. PICK base \in Int : FramesAt(base, last)
    BY DEF FramesInv
  <2>2. log[i].payload = {log[i].slot - base} /\ log[j].payload = {log[j].slot - base}
    BY <2>1 DEF FramesAt
  <2>3. /\ log[i].slot = next_seq - Len(log) + (i - 1)
        /\ log[j].slot = next_seq - Len(log) + (j - 1)
    BY DEF OneEventPerSlot
  <2>4. next_seq \in Int /\ Len(log) \in Nat /\ i \in Int /\ j \in Int
    BY DEF TypeOK
  <2>5. log[i].slot - base < log[j].slot - base
    BY <2>3, <2>4
  <2>6. QED BY <2>2, <2>5
<1>4. QED BY <1>1, <1>2, <1>3, SlotsAlways, OneEventPerSlotAlways, PTL DEF Spec


-----------------------------------------------------------------------------
(* Timestamps around the wrap.                                             *)

\* The signed distance of two instants less than half a space apart is theirs.
LEMMA DistanceOf ==
    ASSUME NEW first \in Int, NEW t \in Nat, NEW later \in Nat,
           t <= later, 2 * later < TsSpace
    PROVE  TsDistance((first + later) % TsSpace, (first + t) % TsSpace) = later - t
<1> DEFINE a == (first + later) % TsSpace
           b == (first + t) % TsSpace
<1>1. TsSpace \in Nat \ {0}
  BY JitterAssumption
<1>2. PICK q \in Int : first + later = q * TsSpace + a
  <2>1. first + later \in Int
    OBVIOUS
  <2>2. QED BY <1>1, <2>1, Modulo
<1>3. PICK r \in Int : first + t = r * TsSpace + b
  <2>1. first + t \in Int
    OBVIOUS
  <2>2. QED BY <1>1, <2>1, Modulo
<1>4. a \in Int /\ b \in Int
  BY <1>1
<1> HIDE DEF a, b
<1>5. a - b = (later - t) + (r - q) * TsSpace
  <2>1. (r - q) * TsSpace = r * TsSpace - q * TsSpace
    BY <1>1, SMT
  <2>2. r * TsSpace \in Int /\ q * TsSpace \in Int
    BY <1>1, SMT
  <2>3. QED BY <1>2, <1>3, <1>4, <2>1, <2>2
<1>6. (a - b) % TsSpace = (later - t) % TsSpace
  <2>1. PICK m \in Int : m = r - q
    OBVIOUS
  <2>2. PICK d \in Int : d = later - t
    OBVIOUS
  <2>3. (d + m * TsSpace) % TsSpace = d % TsSpace
    BY <1>1, SameRemainder
  <2>4. QED BY <1>5, <2>1, <2>2, <2>3
<1>7. (later - t) % TsSpace = later - t
  <2>1. PICK d \in Nat : d = later - t
    OBVIOUS
  <2>2. d < TsSpace
    BY <1>1, <2>1
  <2>3. d % TsSpace = d
    BY <1>1, <2>2
  <2>4. QED BY <2>1, <2>3
<1>8. TsSub(a, b) = later - t
  BY <1>6, <1>7 DEF TsSub
<1>9. 2 * (later - t) < TsSpace
  BY <1>1
<1>10. QED BY <1>8, <1>9 DEF TsDistance, a, b

\* wrapping_add moves an instant on.
LEMMA AddedTo ==
    ASSUME NEW first \in Int, NEW t \in Nat
    PROVE  TsAdd((first + t) % TsSpace, FrameTicks) = (first + t + FrameTicks) % TsSpace
<1>1. TsSpace \in Nat \ {0} /\ FrameTicks \in Nat
  BY JitterAssumption
<1>2. PICK a \in Int : a = first + t
  OBVIOUS
<1>3. PICK q \in Int : a = q * TsSpace + (a % TsSpace)
  BY <1>1, Modulo
<1>4. PICK r \in Int : r = a % TsSpace
  BY <1>1
<1>5. r + FrameTicks = (a + FrameTicks) + (-q) * TsSpace
  <2>1. (-q) * TsSpace = -(q * TsSpace) /\ q * TsSpace \in Int
    BY <1>1, SMT
  <2>2. QED BY <1>1, <1>3, <1>4, <2>1
<1>6. (r + FrameTicks) % TsSpace = (a + FrameTicks) % TsSpace
  <2>1. PICK m \in Int : m = -q
    OBVIOUS
  <2>2. PICK d \in Int : d = a + FrameTicks
    BY <1>1
  <2>3. (d + m * TsSpace) % TsSpace = d % TsSpace
    BY <1>1, SameRemainder
  <2>4. QED BY <1>5, <2>1, <2>2, <2>3
<1>7. QED BY <1>2, <1>4, <1>6 DEF TsAdd

\* An evicted slot keeps the timestamp of the packet it held.
LEMMA StoreStamps ==
    ASSUME TypeOK, NEW p \in Sent, NEW slot \in Int, Store(p, slot)
    PROVE  \A k \in Evicted' :
             \/ k \in Evicted /\ evicted_slots'[k] = evicted_slots[k]
             \/ k = slot /\ evicted_slots'[k] = p.timestamp
             \/ k \in Buffered /\ evicted_slots'[k] = packets[k].timestamp
<1> DEFINE held == [k \in Buffered \cup {slot} |-> IF k = slot THEN p ELSE packets[k]]
<1>1. DOMAIN held = Buffered \cup {slot} /\ StoreWithin(held)
  BY DEF Store
<1>2. \A k \in Buffered \cup {slot} : held[k] = IF k = slot THEN p ELSE packets[k]
  OBVIOUS
<1> HIDE DEF held
<1>3. CASE UNCHANGED evicted_slots
  BY <1>3 DEF Evicted
<1>4. ASSUME NEW gone \in DOMAIN held,
             evicted_slots' = [k \in Evicted \cup {gone} |->
                                 IF k = gone THEN held[gone].timestamp ELSE evicted_slots[k]]
      PROVE  \A k \in Evicted' :
             \/ k \in Evicted /\ evicted_slots'[k] = evicted_slots[k]
             \/ k = slot /\ evicted_slots'[k] = p.timestamp
             \/ k \in Buffered /\ evicted_slots'[k] = packets[k].timestamp
  <2>1. Evicted' = Evicted \cup {gone}
    BY <1>4 DEF Evicted
  <2>2. \A k \in Evicted' : evicted_slots'[k] = IF k = gone THEN held[gone].timestamp
                                                           ELSE evicted_slots[k]
    BY <1>4, <2>1
  <2>3. \/ gone = slot /\ held[gone] = p
        \/ gone \in Buffered /\ held[gone] = packets[gone]
    <3>1. gone \in Buffered \cup {slot}
      BY <1>1
    <3>2. CASE gone = slot
      BY <1>2, <3>1, <3>2
    <3>3. CASE gone # slot
      BY <1>2, <3>1, <3>3
    <3>4. QED BY <3>2, <3>3
  <2>4. QED BY <2>1, <2>2, <2>3
<1>5. QED BY <1>1, <1>3, <1>4 DEF StoreWithin


LEMMA PushTimes ==
    ASSUME TypeOK, NEW first \in Int, NEW clock, NEW last \in Nat,
           Stamped(first, clock, last), NEW b \in Int,
           FramesAt(b, last), TimesAt(b, first, clock, last), NEW p \in Sent,
           log' = log, playout_started' = playout_started,
           log # <<>> => UNCHANGED <<next_seq, next_timestamp>>,
           UNCHANGED <<packets, evicted_slots>> \/ Store(p, b + p.payload)
    PROVE  TimesAt(b, first, clock, last)'
<1>1. \A slot \in Evicted' : evicted_slots'[slot] = (first + clock[slot - b]) % TsSpace
  <2>1. CASE UNCHANGED <<packets, evicted_slots>>
    BY <2>1 DEF TimesAt, Evicted
  <2>2. CASE Store(p, b + p.payload)
    <3>1. PICK slot \in Int : slot = b + p.payload /\ Store(p, slot) /\ slot - b = p.payload
      BY <2>2, SentType
    <3>2. p.timestamp = (first + clock[slot - b]) % TsSpace
      BY <3>1 DEF Stamped
    <3>3. ASSUME NEW k \in Buffered
          PROVE  packets[k].timestamp = (first + clock[k - b]) % TsSpace
      <4>1. packets[k] \in Sent /\ packets[k].payload \in Nat
        BY SentType DEF TypeOK
      <4>2. k - b = packets[k].payload
        <5>1. k = b + packets[k].payload
          BY DEF FramesAt
        <5>2. QED BY <4>1, <5>1
      <4>3. QED BY <4>1, <4>2 DEF Stamped
    <3>4. \A k \in Evicted : evicted_slots[k] = (first + clock[k - b]) % TsSpace
      BY DEF TimesAt
    <3>5. QED BY <3>1, <3>2, <3>3, <3>4, StoreStamps
  <2>3. QED BY <2>1, <2>2
<1>2. FramesDoNotOverlap'
  BY DEF TimesAt, FramesDoNotOverlap, TsDistance, TsSub
<1>3. QED BY <1>1, <1>2 DEF TimesAt

\* A popped slot is stamped no later than its frame, and a frame later than the
\* slot before it.
LEMMA PoppedTime ==
    ASSUME TypeOK, SlotInv, NEW first \in Int, NEW clock, NEW last \in Nat,
           Stamped(first, clock, last), \A q \in Sent : q.payload <= last,
           NEW base \in Int, FramesAt(base, last), TimesAt(base, first, clock, last),
           PopEvent
    PROVE  \E t \in Nat :
             /\ t <= clock[next_seq - base]
             /\ \E kind, payload : EmitSlot(kind, (first + t) % TsSpace, payload)
             /\ log # <<>> => \E before \in Nat :
                  /\ log[Len(log)].timestamp = (first + before) % TsSpace
                  /\ before + FrameTicks <= t
<1> DEFINE frame == next_seq - base
<1>1. frame \in 0 .. last /\ next_seq \in Int /\ frame \in Nat
  <2>1. next_seq - base \in 0 .. last
    BY PoppedFrame
  <2>2. QED BY <2>1 DEF TypeOK
<1>2. clock[frame] \in Nat /\ FrameTicks \in Nat
  BY <1>1, JitterAssumption DEF Stamped
<1>3. ASSUME log # <<>>
      PROVE  \E before \in Nat :
               /\ log[Len(log)].timestamp = (first + before) % TsSpace
               /\ next_timestamp = (first + before + FrameTicks) % TsSpace
               /\ before + FrameTicks <= clock[frame]
  <2>1. PICK t \in Nat :
          /\ next_seq - 1 - base \in 0 .. last /\ t <= clock[next_seq - 1 - base]
          /\ log[Len(log)].timestamp = (first + t) % TsSpace
          /\ next_timestamp = (first + t + FrameTicks) % TsSpace
    BY <1>3 DEF TimesAt
  <2>2. PICK n \in 0 .. last : n = next_seq - 1 - base
    BY <2>1
  <2>3. n + 1 = frame /\ n # last
    BY <1>1, <2>2
  <2>4. clock[n] \in Nat /\ clock[n] + FrameTicks <= clock[frame]
    BY <2>3 DEF Stamped
  <2>5. t + FrameTicks <= clock[frame]
    BY <1>2, <2>1, <2>2, <2>4
  <2>6. QED BY <2>1, <2>5
<1>4. ASSUME NEW kind, NEW payload, EmitSlot(kind, (first + clock[frame]) % TsSpace, payload)
      PROVE  \E t \in Nat :
               /\ t <= clock[next_seq - base]
               /\ \E k, load : EmitSlot(k, (first + t) % TsSpace, load)
               /\ log # <<>> => \E before \in Nat :
                    /\ log[Len(log)].timestamp = (first + before) % TsSpace
                    /\ before + FrameTicks <= t
  <2>1. clock[frame] <= clock[frame]
    BY <1>2
  <2>2. QED BY <1>2, <1>3, <1>4, <2>1
<1>5. CASE PopPacket
  <2>1. packets[next_seq] \in Sent /\ next_seq \in Buffered
    BY <1>5 DEF PopPacket, TypeOK
  <2>2. packets[next_seq].payload = frame
    <3>1. next_seq = base + packets[next_seq].payload /\ packets[next_seq].payload \in Nat
      BY <2>1, SentType DEF FramesAt
    <3>2. QED BY <3>1
  <2>3. packets[next_seq].timestamp = (first + clock[frame]) % TsSpace
    BY <2>1, <2>2 DEF Stamped
  <2>4. QED BY <1>4, <1>5, <2>3 DEF PopPacket
<1>6. CASE PopEvicted
  <2>1. evicted_slots[next_seq] = (first + clock[frame]) % TsSpace
    BY <1>6 DEF PopEvicted, TimesAt
  <2>2. QED BY <1>4, <1>6, <2>1 DEF PopEvicted
<1>7. CASE PopRecovered \/ PopMissing
  <2>1. PICK kind, payload : EmitSlot(kind, next_timestamp, payload) /\ next_seq \notin Buffered
    BY <1>7 DEF PopRecovered, PopMissing, LoseSlot
  <2>2. log # <<>>
    <3>1. started
      BY <1>7 DEF PopRecovered, PopMissing, LoseSlot, Due
    <3>2. playout_started
      BY <2>1, <3>1 DEF SlotInv, PrimedHead
    <3>3. QED BY <3>2 DEF TimesAt
  <2>3. PICK before \in Nat :
          /\ log[Len(log)].timestamp = (first + before) % TsSpace
          /\ next_timestamp = (first + before + FrameTicks) % TsSpace
          /\ before + FrameTicks <= clock[frame]
    BY <1>3, <2>2
  <2>4. PICK t \in Nat : t = before + FrameTicks
    BY <1>2
  <2>5. first + before + FrameTicks = first + t
    BY <1>2, <2>4
  <2>6. next_timestamp = (first + t) % TsSpace /\ before + FrameTicks <= t
    BY <1>2, <2>3, <2>4, <2>5
  <2>7. EmitSlot(kind, (first + t) % TsSpace, payload)
    BY <2>1, <2>6
  <2>8. QED BY <2>3, <2>4, <2>6, <2>7
<1>8. QED BY <1>5, <1>6, <1>7 DEF PopEvent

LEMMA PopTimes ==
    ASSUME TypeOK, SlotInv, NEW first \in Int, NEW clock, NEW last \in Nat,
           Stamped(first, clock, last), \A q \in Sent : q.payload <= last,
           NEW base \in Int, FramesAt(base, last), TimesAt(base, first, clock, last),
           PopEvent
    PROVE  TimesAt(base, first, clock, last)'
<1>1. /\ next_seq' = next_seq + 1 /\ Evicted' = Evicted \ {next_seq} /\ playout_started'
      /\ next_seq \in Int /\ next_seq - base \in 0 .. last
  BY PopEffect, PoppedFrame DEF TypeOK
<1>2. PICK t \in Nat :
        /\ t <= clock[next_seq - base]
        /\ \E kind, payload : EmitSlot(kind, (first + t) % TsSpace, payload)
        /\ log # <<>> => \E before \in Nat :
             /\ log[Len(log)].timestamp = (first + before) % TsSpace
             /\ before + FrameTicks <= t
  BY PoppedTime
<1>3. PICK kind, payload : EmitSlot(kind, (first + t) % TsSpace, payload)
  BY <1>2
<1> DEFINE event == PlayoutEvent(kind, (first + t) % TsSpace, payload)
<1>4. log' = Append(log, event) /\ event.timestamp = (first + t) % TsSpace
      /\ next_timestamp' = (first + t + FrameTicks) % TsSpace
  BY <1>3, AddedTo DEF EmitSlot, PlayoutEvent
<1> HIDE DEF event
<1>5. /\ Len(log) \in Nat /\ Len(log') = Len(log) + 1 /\ log' # <<>>
      /\ \A i \in 1 .. Len(log) : log'[i] = log[i]
      /\ log'[Len(log) + 1] = event
  BY <1>4 DEF TypeOK
<1>6. FramesDoNotOverlap'
  <2> SUFFICES ASSUME NEW i \in 1 .. Len(log') - 1
               PROVE  TsDistance(log'[i + 1].timestamp, log'[i].timestamp) >= FrameTicks
    BY DEF FramesDoNotOverlap, TsDistance, TsSub
  <2>1. CASE i \in 1 .. Len(log) - 1
    <3>1. i + 1 \in 1 .. Len(log) /\ i \in 1 .. Len(log)
      BY <1>5, <2>1
    <3>2. log'[i + 1] = log[i + 1] /\ log'[i] = log[i]
      BY <1>5, <3>1
    <3>3. QED BY <2>1, <3>2 DEF TimesAt, FramesDoNotOverlap
  <2>2. CASE i = Len(log)
    <3>1. log # <<>> /\ i \in 1 .. Len(log)
      BY <1>5, <2>2 DEF TypeOK
    <3>2. PICK before \in Nat :
            /\ log[Len(log)].timestamp = (first + before) % TsSpace
            /\ before + FrameTicks <= t
      BY <1>2, <3>1
    <3>3. 2 * t < TsSpace /\ before <= t /\ FrameTicks \in Nat /\ TsSpace \in Nat
      <4>1. clock[next_seq - base] \in Nat /\ 2 * clock[next_seq - base] < TsSpace
        BY <1>1 DEF Stamped
      <4>2. PICK c \in Nat : c = clock[next_seq - base] /\ 2 * c < TsSpace /\ t <= c
        BY <1>2, <4>1
      <4>3. FrameTicks \in Nat /\ TsSpace \in Nat
        BY JitterAssumption
      <4>4. 2 * t < TsSpace
        BY <4>2, <4>3
      <4>5. before <= t
        BY <3>2, <4>3
      <4>6. QED BY <4>3, <4>4, <4>5
    <3>4. TsDistance((first + t) % TsSpace, (first + before) % TsSpace) = t - before
      BY <3>3, DistanceOf
    <3>5. t - before >= FrameTicks
      BY <3>2, <3>3
    <3>6. log'[i + 1].timestamp = (first + t) % TsSpace
          /\ log'[i].timestamp = (first + before) % TsSpace
      BY <1>4, <1>5, <2>2, <3>1, <3>2
    <3>7. QED BY <3>4, <3>5, <3>6
  <2>3. QED BY <1>5, <2>1, <2>2
<1>7. \A slot \in Evicted' : evicted_slots'[slot] = (first + clock[slot - base]) % TsSpace
  <2>1. \A slot \in Evicted' : slot \in Evicted /\ evicted_slots'[slot] = evicted_slots[slot]
    <3>1. CASE PopEvicted
      BY <1>1, <3>1 DEF PopEvicted, Restrict, Evicted
    <3>2. CASE UNCHANGED evicted_slots
      BY <1>1, <3>2
    <3>3. QED BY <3>1, <3>2 DEF PopEvent, PopPacket, PopRecovered, PopMissing, LoseSlot
  <2>2. QED BY <2>1 DEF TimesAt
<1>8. next_seq' - 1 - base = next_seq - base
  BY <1>1
<1>9. log'[Len(log')].timestamp = (first + t) % TsSpace
  BY <1>4, <1>5
<1>10. QED BY <1>1, <1>2, <1>4, <1>5, <1>6, <1>7, <1>8, <1>9 DEF TimesAt


-----------------------------------------------------------------------------
(* The distance of the frames.                                             *)

\* first_ts and clock say how the sender stamps, first and last how it numbers.
TimesInv(first, first_ts, clock, last) ==
    \E base \in Int : /\ Aligned(base, first) /\ FramesAt(base, last)
                      /\ TimesAt(base, first_ts, clock, last)

\* Before the first packet nothing is stamped.
LEMMA QuietTimes ==
    ASSUME SlotInv, ~ started, NEW b \in Int, NEW first_ts \in Int, NEW clock, NEW last \in Nat
    PROVE  TimesAt(b, first_ts, clock, last)
<1>1. Evicted = {} /\ log = <<>> /\ ~ playout_started
  BY DEF SlotInv, Quiet
<1>2. FramesDoNotOverlap
  BY <1>1 DEF FramesDoNotOverlap
<1>3. QED BY <1>1, <1>2 DEF TimesAt

LEMMA TimesStep ==
    ASSUME NEW first \in Int, NEW first_ts \in Int, NEW clock, NEW last \in Nat,
           Numbered(first, last), Stamped(first_ts, clock, last),
           TypeOK, SlotInv, TimesInv(first, first_ts, clock, last), [Next]_vars
    PROVE  TimesInv(first, first_ts, clock, last)'
<1>1. \A q \in Sent : q.payload <= last
  BY DEF Numbered
<1>2. PICK base \in Int : /\ Aligned(base, first) /\ FramesAt(base, last)
                          /\ TimesAt(base, first_ts, clock, last)
  BY DEF TimesInv
<1>3. ASSUME NEW p \in Sent, Arrive(p) PROVE TimesInv(first, first_ts, clock, last)'
  <2>1. PICK b \in Int :
          /\ Aligned(b, first) /\ (started => b = base)
          /\ log' = log /\ playout_started' = playout_started
          /\ log # <<>> => UNCHANGED <<next_seq, next_timestamp>>
          /\ b <= next_seq' /\ next_seq' <= b + last + 1
          /\ UNCHANGED <<packets, evicted_slots>> \/ Store(p, b + p.payload)
    BY <1>2, <1>3, PushPlaces DEF Arrive
  <2>2. FramesAt(b, last) /\ TimesAt(b, first_ts, clock, last)
    BY <1>2, <2>1, QuietFrames, QuietTimes
  <2>3. FramesAt(b, last)'
    BY <1>1, <2>1, <2>2, PushFrames
  <2>4. TimesAt(b, first_ts, clock, last)'
    BY <2>1, <2>2, PushTimes
  <2>5. QED BY <2>1, <2>3, <2>4 DEF TimesInv
<1>4. CASE PopEvent
  <2>1. FramesAt(base, last)'
    BY <1>1, <1>2, <1>4, PopFrames
  <2>2. TimesAt(base, first_ts, clock, last)'
    BY <1>1, <1>2, <1>4, PopTimes
  <2>3. QED BY <1>2, <2>1, <2>2 DEF TimesInv
<1>5. CASE Clear
  <2>1. /\ ~ started' /\ ~ playout_started' /\ log' = <<>>
        /\ Buffered' = {} /\ Evicted' = {}
    BY <1>5 DEF Clear, Nothing, Buffered, Evicted
  <2>2. FramesAt(base, last)'
    BY <2>1 DEF FramesAt
  <2>3. TimesAt(base, first_ts, clock, last)'
    BY <2>1 DEF TimesAt, FramesDoNotOverlap, TsDistance, TsSub
  <2>4. QED BY <1>2, <2>2, <2>3 DEF TimesInv
<1>6. CASE Tick \/ UNCHANGED vars
  <2>1. UNCHANGED <<packets, evicted_slots, started, playout_started, next_seq,
                    next_timestamp, log>>
    BY <1>6 DEF Tick, vars, cursor
  <2>2. FramesAt(base, last)'
    BY <1>2, <2>1 DEF FramesAt, Buffered, Evicted
  <2>3. TimesAt(base, first_ts, clock, last)'
    BY <1>2, <2>1 DEF TimesAt, Evicted, FramesDoNotOverlap, TsDistance, TsSub
  <2>4. QED BY <1>2, <2>2, <2>3 DEF TimesInv
<1>7. QED BY <1>3, <1>4, <1>5, <1>6 DEF Next

\* Whatever is lost, evicted or predicted, and however long the sender is silent
\* between two frames, the events of its stream are stamped at least a frame
\* apart: a prediction never overtakes the packets behind it (jitter.rs:402-417).
THEOREM FramesDoNotOverlapAlways ==
    ASSUME NEW CONSTANT first \in Int, NEW CONSTANT first_ts \in Int,
           NEW CONSTANT clock, NEW CONSTANT last \in Nat,
           Numbered(first, last), Stamped(first_ts, clock, last)
    PROVE  Spec => []FramesDoNotOverlap
<1>1. Init => TimesInv(first, first_ts, clock, last)
  BY FramesInit, SlotInit, QuietTimes DEF TimesInv, Init
<1>2. TypeOK /\ SlotInv /\ TimesInv(first, first_ts, clock, last) /\ [Next]_vars
        => TimesInv(first, first_ts, clock, last)'
  BY TimesStep
<1>3. TimesInv(first, first_ts, clock, last) => FramesDoNotOverlap
  BY DEF TimesInv, TimesAt
<1>4. QED BY <1>1, <1>2, <1>3, SlotsAlways, PTL DEF Spec


-----------------------------------------------------------------------------
(* Deadlines, when the sender is never silent.                             *)

\* Frame follows frame without a gap.
Steady(clock, last) ==
    \A n \in 0 .. last : n # last => clock[n + 1] = clock[n] + FrameTicks

\* What the buffer predicts of the next slot is then what its frame is stamped.
PredictedAt(base, first, clock, last) ==
    playout_started /\ next_seq - base \in 0 .. last =>
        next_timestamp = (first + clock[next_seq - base]) % TsSpace

\* Numbers less than a space apart with one remainder are the same.
LEMMA SameNumber ==
    ASSUME NEW size \in Nat \ {0}, NEW a \in Int, NEW b \in Int,
           a % size = b % size, -size < a - b, a - b < size
    PROVE  a = b
<1>1. PICK q \in Int : a = q * size + (a % size)
  BY Modulo
<1>2. PICK r \in Int : b = r * size + (b % size)
  BY Modulo
<1>3. PICK m \in Int : m = q - r
  OBVIOUS
<1>4. m * size = a - b
  <2>1. (q - r) * size = q * size - r * size
    BY SMT
  <2>2. q * size \in Int /\ r * size \in Int /\ a % size \in Int
    BY SMT
  <2>3. q * size - r * size = a - b
    BY <1>1, <1>2, <2>2
  <2>4. QED BY <1>3, <2>1, <2>3
<1>5. m \in {-1, 0}
  BY <1>4, FewWraps
<1>6. m # -1
  BY <1>4
<1>7. QED BY <1>4, <1>5, <1>6

\* The packet of a slot is the frame's that the slot belongs to.
LEMMA FrameOfSlot ==
    ASSUME NEW first \in Int, NEW last \in Nat, Numbered(first, last),
           NEW base \in Int, Aligned(base, first), next_seq \in Int,
           next_seq - base \in 0 .. last, NEW p \in Sent, OfSlot(p, next_seq)
    PROVE  p.payload = next_seq - base
<1>1. PICK frame \in Nat : frame = next_seq - base /\ frame <= last /\ next_seq = base + frame
  OBVIOUS
<1>2. PICK n \in Nat : n = p.payload /\ n <= last
  BY SentType DEF Numbered
<1>3. SeqSpace \in Nat \ {0} /\ 2 * (last + 1) <= SeqSpace
  BY JitterAssumption DEF Numbered
<1>4. PICK wraps \in Int : base = first + wraps * SeqSpace
  BY DEF Aligned
<1>5. next_seq % SeqSpace = (first + frame) % SeqSpace
  <2>1. PICK a \in Int : a = first + frame
    OBVIOUS
  <2>2. wraps * SeqSpace \in Int
    BY <1>3, SMT
  <2>3. next_seq = a + wraps * SeqSpace
    BY <1>1, <1>4, <2>1, <2>2
  <2>4. (a + wraps * SeqSpace) % SeqSpace = a % SeqSpace
    BY <1>3, SameRemainder
  <2>5. QED BY <2>1, <2>3, <2>4
<1>6. (first + n) % SeqSpace = (first + frame) % SeqSpace
  BY <1>2, <1>5 DEF OfSlot, Numbered
<1>7. first + n = first + frame
  <2>1. PICK a \in Int : a = first + n
    OBVIOUS
  <2>2. PICK b \in Int : b = first + frame
    OBVIOUS
  <2>3. -SeqSpace < a - b /\ a - b < SeqSpace
    BY <1>1, <1>2, <1>3, <2>1, <2>2
  <2>4. QED BY <1>3, <1>6, <2>1, <2>2, <2>3, SameNumber
<1>8. QED BY <1>1, <1>2, <1>7

\* The next slot is scheduled by its frame's own timestamp, present or not.
LEMMA NextStamp ==
    ASSUME TypeOK, SlotInv, NEW first \in Int, NEW clock, NEW last \in Nat,
           Stamped(first, clock, last), NEW base \in Int, FramesAt(base, last),
           TimesAt(base, first, clock, last), PredictedAt(base, first, clock, last),
           started, next_seq - base \in 0 .. last
    PROVE  NextSlotTimestamp = (first + clock[next_seq - base]) % TsSpace
<1>1. CASE next_seq \in Buffered
  <2>1. packets[next_seq] \in Sent
    BY <1>1 DEF TypeOK
  <2>2. packets[next_seq].payload = next_seq - base
    <3>1. next_seq = base + packets[next_seq].payload /\ packets[next_seq].payload \in Nat
      BY <1>1, <2>1, SentType DEF FramesAt
    <3>2. QED BY <3>1
  <2>3. QED BY <1>1, <2>1, <2>2 DEF NextSlotTimestamp, Stamped
<1>2. CASE next_seq \in Evicted \ Buffered
  <2>1. NextSlotTimestamp = evicted_slots[next_seq]
    BY <1>2 DEF NextSlotTimestamp
  <2>2. QED BY <1>2, <2>1 DEF TimesAt
<1>3. CASE next_seq \notin Buffered \cup Evicted
  <2>1. playout_started
    BY <1>3 DEF SlotInv, PrimedHead
  <2>2. NextSlotTimestamp = next_timestamp
    BY <1>3 DEF NextSlotTimestamp
  <2>3. QED BY <2>1, <2>2 DEF PredictedAt
<1>4. QED BY <1>1, <1>2, <1>3

\* Every pop emits the slot at the timestamp it was scheduled by.
LEMMA EmitsScheduled ==
    ASSUME TypeOK, PopEvent
    PROVE  \E kind, payload : EmitSlot(kind, NextSlotTimestamp, payload)
<1>1. CASE PopPacket
  BY <1>1 DEF PopPacket, NextSlotTimestamp
<1>2. CASE PopEvicted
  <2>1. NextSlotTimestamp = evicted_slots[next_seq]
    BY <1>2 DEF PopEvicted, NextSlotTimestamp
  <2>2. QED BY <1>2, <2>1 DEF PopEvicted
<1>3. CASE PopRecovered \/ PopMissing
  <2>1. NextSlotTimestamp = next_timestamp
    BY <1>3 DEF PopRecovered, PopMissing, LoseSlot, NextSlotTimestamp
  <2>2. QED BY <1>3, <2>1 DEF PopRecovered, PopMissing, LoseSlot
<1>4. QED BY <1>1, <1>2, <1>3 DEF PopEvent

\* The prediction made at one slot holds for the next.
LEMMA PopPredicts ==
    ASSUME TypeOK, SlotInv, NEW first \in Int, NEW clock, NEW last \in Nat,
           Stamped(first, clock, last), Steady(clock, last),
           \A q \in Sent : q.payload <= last,
           NEW base \in Int, FramesAt(base, last), TimesAt(base, first, clock, last),
           PredictedAt(base, first, clock, last), PopEvent
    PROVE  PredictedAt(base, first, clock, last)'
<1>1. next_seq' = next_seq + 1 /\ started
  BY PopEffect
<1>2. PICK frame \in Nat : frame = next_seq - base /\ frame \in 0 .. last
  BY PoppedFrame DEF TypeOK
<1>3. NextSlotTimestamp = (first + clock[frame]) % TsSpace
  BY <1>1, <1>2, NextStamp
<1>4. PICK t \in Nat : t = clock[frame]
  BY <1>2 DEF Stamped
<1>5. next_timestamp' = TsAdd((first + t) % TsSpace, FrameTicks)
  BY <1>3, <1>4, EmitsScheduled DEF EmitSlot
<1>6. next_timestamp' = (first + t + FrameTicks) % TsSpace
  BY <1>5, AddedTo
<1>7. next_seq \in Int /\ next_seq' - base = frame + 1
  BY <1>1, <1>2 DEF TypeOK
<1>8. ASSUME frame + 1 \in 0 .. last
      PROVE  next_timestamp' = (first + clock[frame + 1]) % TsSpace
  <2>1. clock[frame + 1] = t + FrameTicks
    BY <1>2, <1>4, <1>8 DEF Steady
  <2>2. first + (t + FrameTicks) = first + t + FrameTicks
    BY JitterAssumption
  <2>3. QED BY <1>6, <2>1, <2>2
<1>9. QED BY <1>7, <1>8 DEF PredictedAt


SteadyInv(first, first_ts, clock, last) ==
    \E base \in Int : /\ Aligned(base, first) /\ FramesAt(base, last)
                      /\ TimesAt(base, first_ts, clock, last)
                      /\ PredictedAt(base, first_ts, clock, last)

LEMMA SteadyStep ==
    ASSUME NEW first \in Int, NEW first_ts \in Int, NEW clock, NEW last \in Nat,
           Numbered(first, last), Stamped(first_ts, clock, last), Steady(clock, last),
           TypeOK, SlotInv, SteadyInv(first, first_ts, clock, last), [Next]_vars
    PROVE  SteadyInv(first, first_ts, clock, last)'
<1>1. \A q \in Sent : q.payload <= last
  BY DEF Numbered
<1>2. PICK base \in Int : /\ Aligned(base, first) /\ FramesAt(base, last)
                          /\ TimesAt(base, first_ts, clock, last)
                          /\ PredictedAt(base, first_ts, clock, last)
  BY DEF SteadyInv
<1>3. ASSUME NEW p \in Sent, Arrive(p) PROVE SteadyInv(first, first_ts, clock, last)'
  <2>1. PICK b \in Int :
          /\ Aligned(b, first) /\ (started => b = base)
          /\ log' = log /\ playout_started' = playout_started
          /\ log # <<>> => UNCHANGED <<next_seq, next_timestamp>>
          /\ b <= next_seq' /\ next_seq' <= b + last + 1
          /\ UNCHANGED <<packets, evicted_slots>> \/ Store(p, b + p.payload)
    BY <1>2, <1>3, PushPlaces DEF Arrive
  <2>2. /\ FramesAt(b, last) /\ TimesAt(b, first_ts, clock, last)
        /\ PredictedAt(b, first_ts, clock, last)
    <3>1. CASE started
      BY <1>2, <2>1, <3>1
    <3>2. CASE ~ started
      BY <3>2, QuietFrames, QuietTimes DEF PredictedAt, SlotInv, Quiet
    <3>3. QED BY <3>1, <3>2
  <2>3. FramesAt(b, last)'
    BY <1>1, <2>1, <2>2, PushFrames
  <2>4. TimesAt(b, first_ts, clock, last)'
    BY <2>1, <2>2, PushTimes
  <2>5. PredictedAt(b, first_ts, clock, last)'
    BY <2>1, <2>2 DEF PredictedAt, TimesAt
  <2>6. QED BY <2>1, <2>3, <2>4, <2>5 DEF SteadyInv
<1>4. CASE PopEvent
  <2>1. FramesAt(base, last)' /\ TimesAt(base, first_ts, clock, last)'
    BY <1>1, <1>2, <1>4, PopFrames, PopTimes
  <2>2. PredictedAt(base, first_ts, clock, last)'
    BY <1>1, <1>2, <1>4, PopPredicts
  <2>3. QED BY <1>2, <2>1, <2>2 DEF SteadyInv
<1>5. CASE Clear
  <2>1. /\ ~ started' /\ ~ playout_started' /\ log' = <<>>
        /\ Buffered' = {} /\ Evicted' = {}
    BY <1>5 DEF Clear, Nothing, Buffered, Evicted
  <2>2. FramesAt(base, last)' /\ PredictedAt(base, first_ts, clock, last)'
    BY <2>1 DEF FramesAt, PredictedAt
  <2>3. TimesAt(base, first_ts, clock, last)'
    BY <2>1 DEF TimesAt, FramesDoNotOverlap, TsDistance, TsSub
  <2>4. QED BY <1>2, <2>2, <2>3 DEF SteadyInv
<1>6. CASE Tick \/ UNCHANGED vars
  <2>1. UNCHANGED <<packets, evicted_slots, started, playout_started, next_seq,
                    next_timestamp, log>>
    BY <1>6 DEF Tick, vars, cursor
  <2>2. FramesAt(base, last)' /\ PredictedAt(base, first_ts, clock, last)'
    BY <1>2, <2>1 DEF FramesAt, Buffered, Evicted, PredictedAt
  <2>3. TimesAt(base, first_ts, clock, last)'
    BY <1>2, <2>1 DEF TimesAt, Evicted, FramesDoNotOverlap, TsDistance, TsSub
  <2>4. QED BY <1>2, <2>2, <2>3 DEF SteadyInv
<1>7. QED BY <1>3, <1>4, <1>5, <1>6 DEF Next

\* No slot of a sender that is never silent is emitted before the instant its own
\* timestamp schedules it at, whether its packet is there, was evicted or never
\* came (jitter.rs:355, 361-377, 402-417).  A silent sender's may be: see
\* LateAfterDeadline.
THEOREM NeverEarlyAlways ==
    ASSUME NEW CONSTANT first \in Int, NEW CONSTANT first_ts \in Int,
           NEW CONSTANT clock, NEW CONSTANT last \in Nat,
           Numbered(first, last), Stamped(first_ts, clock, last), Steady(clock, last)
    PROVE  Spec => NeverEarly
<1> DEFINE OnTime == Len(log') > Len(log) =>
               \A p \in Sent : OfSlot(p, next_seq) => now >= PlayoutInstant(p.timestamp)
<1>1. Init => SteadyInv(first, first_ts, clock, last)
  <2> SUFFICES ASSUME Init PROVE SteadyInv(first, first_ts, clock, last)
    OBVIOUS
  <2>1. FramesAt(first, last) /\ Aligned(first, first)
    BY FramesInit
  <2>2. TimesAt(first, first_ts, clock, last)
    BY SlotInit, QuietTimes DEF Init
  <2>3. PredictedAt(first, first_ts, clock, last)
    BY DEF Init, PredictedAt
  <2>4. QED BY <2>1, <2>2, <2>3 DEF SteadyInv
<1>2. TypeOK /\ SlotInv /\ SteadyInv(first, first_ts, clock, last) /\ [Next]_vars
        => SteadyInv(first, first_ts, clock, last)'
  BY SteadyStep
<1>3. TypeOK /\ SlotInv /\ SteadyInv(first, first_ts, clock, last) /\ [Next]_vars => OnTime
  <2> SUFFICES ASSUME TypeOK, SlotInv, SteadyInv(first, first_ts, clock, last), [Next]_vars,
                      Len(log') > Len(log), NEW p \in Sent, OfSlot(p, next_seq)
               PROVE  now >= PlayoutInstant(p.timestamp)
    OBVIOUS
  <2>1. PopEvent
    <3>1. ASSUME NEW q \in Sent, Arrive(q) PROVE FALSE
      <4>1. log' = log
        BY <3>1, PushLog DEF Arrive
      <4>2. QED BY <4>1 DEF TypeOK
    <3>2. CASE Clear
      <4>1. log' = <<>>
        BY <3>2 DEF Clear
      <4>2. Len(log') = 0 /\ Len(log) \in Nat
        BY <4>1 DEF TypeOK
      <4>3. QED BY <4>2
    <3>3. CASE Tick \/ UNCHANGED vars
      <4>1. log' = log
        BY <3>3 DEF Tick, vars
      <4>2. QED BY <4>1 DEF TypeOK
    <3>4. QED BY <3>1, <3>2, <3>3 DEF Next
  <2>2. PICK base \in Int : /\ Aligned(base, first) /\ FramesAt(base, last)
                            /\ TimesAt(base, first_ts, clock, last)
                            /\ PredictedAt(base, first_ts, clock, last)
    BY DEF SteadyInv
  <2>3. next_seq - base \in 0 .. last /\ started /\ next_seq \in Int
    BY <2>1, <2>2, PoppedFrame, PopEffect DEF Numbered, TypeOK
  <2>4. p.timestamp = (first_ts + clock[next_seq - base]) % TsSpace
    BY <2>2, <2>3, FrameOfSlot DEF Stamped
  <2>5. NextSlotTimestamp = p.timestamp
    BY <2>2, <2>3, <2>4, NextStamp
  <2>6. now >= anchor_deadline + TsSub(p.timestamp, anchor_timestamp)
    BY <2>1, <2>5 DEF PopEvent, PopPacket, PopEvicted, PopRecovered, PopMissing, LoseSlot,
                      Due, NextDeadline, DeadlineFor
  <2>7. p.timestamp \in Int /\ anchor_timestamp \in Int
    BY SentType, JitterAssumption DEF TypeOK, Timestamp
  <2>8. PICK ahead \in Int : ahead = TsSub(p.timestamp, anchor_timestamp)
    BY <2>7, TsArithmetic
  <2>9. TsDistance(p.timestamp, anchor_timestamp)
          = IF 2 * ahead < TsSpace THEN ahead ELSE ahead - TsSpace
    BY <2>8 DEF TsDistance
  <2>10. TsSpace \in Nat /\ anchor_deadline \in Int /\ now \in Int
    BY JitterAssumption DEF TypeOK
  <2>11. now >= anchor_deadline + ahead
    BY <2>6, <2>8
  <2>12. now >= anchor_deadline + TsDistance(p.timestamp, anchor_timestamp)
    BY <2>9, <2>10, <2>11
  <2>13. QED BY <2>12 DEF PlayoutInstant
<1>4. QED BY <1>1, <1>2, <1>3, SlotsAlways, PTL DEF Spec, NeverEarly

=============================================================================
