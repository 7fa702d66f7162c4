------------------------- MODULE OutgoingAudioProofs --------------------------
(***************************************************************************)
(* Theorems about OutgoingAudio, for every frame of the processor, every   *)
(* set of codec frames and block sizes, and every pattern of failures.     *)
(***************************************************************************)
EXTENDS OutgoingAudio, SequenceTheorems, WellFoundedInduction, TLAPS

-----------------------------------------------------------------------------
(* The block: a common multiple of the two frames.                         *)

\* Division with remainder.
LEMMA Division ==
    ASSUME NEW a \in Nat, NEW d \in Nat \ {0}
    PROVE  /\ a = (a \div d) * d + (a % d) /\ a \div d \in Nat
           /\ a % d \in Nat /\ a % d < d
BY SMT

Divides(d, a) == \E q \in Nat : a = q * d

LEMMA WholeDivision ==
    \A a \in Nat, d \in Nat \ {0} : a \div d \in Nat
BY Division

\* A common divisor passes to the remainder and back.
LEMMA Remainder ==
    ASSUME NEW a \in Nat, NEW b \in Nat \ {0}, NEW d \in Nat \ {0}, Divides(d, b)
    PROVE  Divides(d, a) <=> Divides(d, a % b)
<1>1. a = (a \div b) * b + (a % b) /\ a \div b \in Nat /\ a % b \in Nat
  BY Division
<1>2. PICK k \in Nat : k = a \div b
  BY <1>1
<1>3. PICK rest \in Nat : rest = a % b
  BY <1>1
<1>4. PICK q \in Nat : b = q * d
  BY DEF Divides
<1>5. a = k * (q * d) + rest
  BY <1>1, <1>2, <1>3, <1>4
<1>6. ASSUME NEW r \in Nat, rest = r * d PROVE a = (k * q + r) * d /\ k * q + r \in Nat
  BY <1>5, <1>6, SMT
<1>7. ASSUME NEW r \in Nat, a = r * d PROVE rest = (r - k * q) * d /\ r - k * q \in Nat
  <2>1. rest = (r - k * q) * d
    BY <1>5, <1>7, SMT
  <2>2. r - k * q \in Int
    BY SMT
  <2>3. r - k * q >= 0
    BY <2>1, <2>2, SMT
  <2>4. QED BY <2>1, <2>2, <2>3, SMT
<1>8. QED BY <1>3, <1>6, <1>7 DEF Divides

LEMMA DivisorBound ==
    ASSUME NEW b \in Nat \ {0}, NEW d \in Nat \ {0}, Divides(d, b)
    PROVE  d <= b
<1>1. PICK q \in Nat : b = q * d
  BY DEF Divides
<1>2. q >= 1
  BY <1>1, SMT
<1>3. QED BY <1>1, <1>2, SMT

Common(a, b) == {d \in Nat \ {0} : Divides(d, a) /\ Divides(d, b)}
Greatest(S) == CHOOSE d \in S : \A e \in S : e <= d

\* Some function satisfies the recursion: the greatest common divisor does.
LEMMA EuclidExists ==
    \E f : f = [p \in Nat \X Nat |->
                  IF p[2] = 0 THEN p[1] ELSE f[<<p[2], p[1] % p[2]>>]]
<1> DEFINE f == [p \in Nat \X Nat |-> IF p[2] = 0 THEN p[1] ELSE Greatest(Common(p[1], p[2]))]
<1>1. ASSUME NEW a \in Nat, NEW b \in Nat
      PROVE  f[<<a, b>>] = IF b = 0 THEN a ELSE Greatest(Common(a, b))
  OBVIOUS
<1> HIDE DEF f
<1>2. ASSUME NEW a \in Nat, NEW b \in Nat \ {0} PROVE f[<<a, b>>] = f[<<b, a % b>>]
  <2>1. a % b \in Nat /\ b \in Nat /\ b # 0
    BY Division
  <2>2. Divides(b, b) /\ Divides(b, 0)
    BY SMT DEF Divides
  <2>3. CASE a % b = 0
    <3>1. f[<<b, a % b>>] = b
      BY <1>1, <2>1, <2>3
    <3>2. b \in Common(a, b)
      BY <2>2, <2>3, Remainder DEF Common
    <3>3. \A e \in Common(a, b) : e \in Nat /\ e <= b
      BY DivisorBound DEF Common
    <3>4. \A d \in Common(a, b) : (\A e \in Common(a, b) : e <= d) => d = b
      BY <3>2, <3>3, SMT
    <3>5. Greatest(Common(a, b)) = b
      BY <3>2, <3>3, <3>4, Zenon DEF Greatest
    <3>6. QED BY <1>1, <2>1, <3>1, <3>5
  <2>4. CASE a % b # 0
    <3>1. Common(a, b) = Common(b, a % b)
      BY Remainder DEF Common
    <3>2. f[<<a, b>>] = Greatest(Common(a, b))
      BY <1>1, <2>1
    <3>3. f[<<b, a % b>>] = Greatest(Common(b, a % b))
      BY <1>1, <2>1, <2>4
    <3>4. QED BY <3>1, <3>2, <3>3, Zenon
  <2>5. QED BY <2>3, <2>4
<1>3. f = [p \in Nat \X Nat |-> IF p[2] = 0 THEN p[1] ELSE f[<<p[2], p[1] % p[2]>>]]
  <2>1. ASSUME NEW p \in Nat \X Nat
        PROVE  (IF p[2] = 0 THEN p[1] ELSE Greatest(Common(p[1], p[2])))
                 = IF p[2] = 0 THEN p[1] ELSE f[<<p[2], p[1] % p[2]>>]
    <3>1. p[1] \in Nat /\ p[2] \in Nat
      OBVIOUS
    <3>2. f[<<p[1], p[2]>>] = IF p[2] = 0 THEN p[1] ELSE Greatest(Common(p[1], p[2]))
      BY <1>1, <3>1
    <3>3. p[2] # 0 => f[<<p[1], p[2]>>] = f[<<p[2], p[1] % p[2]>>]
      BY <1>2, <3>1
    <3>4. QED BY <3>2, <3>3, Zenon
  <2>2. QED BY <2>1, Zenon DEF f
<1>4. QED BY <1>3, Zenon

LEMMA Euclid ==
    ASSUME NEW a \in Nat, NEW b \in Nat
    PROVE  Gcd[<<a, b>>] = IF b = 0 THEN a ELSE Gcd[<<b, a % b>>]
<1>1. Gcd = [p \in Nat \X Nat |-> IF p[2] = 0 THEN p[1] ELSE Gcd[<<p[2], p[1] % p[2]>>]]
  BY EuclidExists, Zenon DEF Gcd
<1>2. QED BY <1>1

\* A set of numbers that is not empty has a least element.
LEMMA Least ==
    ASSUME NEW T \in SUBSET Nat, T # {}
    PROVE  \E x \in T : \A y \in T : ~ (y < x)
<1> DEFINE R == OpToRel(<, Nat)
<1>1. IsWellFoundedOn(R, Nat)
  BY NatLessThanWellFounded
<1>2. \A x, y \in Nat : <<x, y>> \in R <=> x < y
  BY DEF OpToRel
<1> HIDE DEF R
<1>3. PICK x \in T : \A y \in T : ~ (<<y, x>> \in R)
  BY <1>1, WFMin
<1>4. QED BY <1>2, <1>3

\* What Euclid's algorithm returns divides both numbers.
LEMMA GcdDivides ==
    ASSUME NEW a \in Nat, NEW b \in Nat, a # 0 \/ b # 0
    PROVE  Gcd[<<a, b>>] \in Nat \ {0} /\ Divides(Gcd[<<a, b>>], a) /\ Divides(Gcd[<<a, b>>], b)
<1> DEFINE Good(m, n) == /\ Gcd[<<m, n>>] \in Nat \ {0}
                         /\ Divides(Gcd[<<m, n>>], m) /\ Divides(Gcd[<<m, n>>], n)
           Bad == {n \in Nat : \E m \in Nat : (m # 0 \/ n # 0) /\ ~ Good(m, n)}
<1>1. SUFFICES Bad = {}
  OBVIOUS
<1>2. SUFFICES ASSUME Bad # {} PROVE FALSE
  OBVIOUS
<1>3. PICK n \in Bad : \A k \in Bad : ~ (k < n)
  <2>1. Bad \in SUBSET Nat
    OBVIOUS
  <2> HIDE DEF Bad
  <2>2. QED BY <1>2, <2>1, Least
<1>4. PICK m \in Nat : (m # 0 \/ n # 0) /\ ~ Good(m, n)
  BY <1>3
<1>5. n \in Nat
  BY <1>3
<1>6. CASE n = 0
  <2>1. Gcd[<<m, n>>] = m
    BY <1>5, <1>6, Euclid
  <2>2. Divides(m, m) /\ Divides(m, 0)
    <3>1. m = 1 * m /\ 0 = 0 * m
      BY ONLY m \in Nat, SMT
    <3>2. QED BY <3>1 DEF Divides
  <2>3. QED BY <1>4, <1>6, <2>1, <2>2
<1>7. CASE n # 0
  <2>1. Gcd[<<m, n>>] = Gcd[<<n, m % n>>] /\ m % n \in Nat /\ m % n < n
    BY <1>5, <1>7, Euclid, Division
  <2>2. Good(n, m % n)
    BY <1>3, <1>5, <1>7, <2>1
  <2>3. Good(m, n)
    BY <1>5, <1>7, <2>1, <2>2, Remainder
  <2>4. QED BY <1>4, <2>3
<1>8. QED BY <1>6, <1>7

\* The pipeline's block is a whole number of frames of the codec and of the
\* processor.
LEMMA BlockWhole ==
    ASSUME NEW left \in Nat \ {0}, NEW right \in Nat \ {0}
    PROVE  LET block == LeastCommonMultiple(left, right)
           IN  block \in Nat \ {0} /\ Divides(left, block) /\ Divides(right, block)
<1>1. PICK g \in Nat \ {0} : g = Gcd[<<left, right>>] /\ Divides(g, left) /\ Divides(g, right)
  <2>1. left \in Nat /\ right \in Nat /\ left # 0
    OBVIOUS
  <2>2. QED BY <2>1, GcdDivides
<1>2. PICK q \in Nat : left = q * g
  BY <1>1 DEF Divides
<1>3. PICK r \in Nat : right = r * g
  BY <1>1 DEF Divides
<1>4. left \div g = q
  BY <1>2, SMT
<1>5. PICK block : block = LeastCommonMultiple(left, right)
  OBVIOUS
<1>6. block = q * right
  BY <1>1, <1>4, <1>5 DEF LeastCommonMultiple
<1>7. block = r * left
  BY <1>2, <1>3, <1>6, SMT
<1>8. q # 0
  BY <1>2, SMT
<1>9. block \in Nat \ {0}
  BY <1>6, <1>8, SMT
<1>10. QED BY <1>5, <1>6, <1>7, <1>9 DEF Divides

\* Whole frames: how many, and nothing over.
LEMMA Frames ==
    ASSUME NEW d \in Nat \ {0}, NEW x \in Nat, Divides(d, x)
    PROVE  \E m \in Nat : /\ x = m * d /\ x % d = 0
                          /\ (x + d - 1) \div d = m
<1>1. PICK m \in Nat : x = m * d
  BY DEF Divides
<1>2. (m * d) \div d = m
  BY SMT
<1>3. x % d = 0
  BY <1>1, <1>2, SMT
<1>4. (m * d + d - 1) \div d = m
  BY SMT
<1>5. QED BY <1>1, <1>3, <1>4

LEMMA DividesTransitive ==
    ASSUME NEW a \in Nat, NEW b \in Nat, NEW c \in Nat, Divides(a, b), Divides(b, c)
    PROVE  Divides(a, c)
<1>1. PICK q \in Nat : b = q * a
  BY DEF Divides
<1>2. PICK r \in Nat : c = r * b
  BY DEF Divides
<1>3. c = (r * q) * a /\ r * q \in Nat
  BY <1>1, <1>2, SMT
<1>4. QED BY <1>3 DEF Divides

-----------------------------------------------------------------------------
(* Packets in line: each a frame of consecutive processed samples, each     *)
(* behind the one before it, all of them among the first "limit" samples.   *)

Frame(first, size) == AP!Processed([i \in 1 .. size |-> first + i - 1])
Start(packet)      == packet[1].number

InLine(packets, limit, size) ==
    /\ \A k \in DOMAIN packets :
          LET first == Start(packets[k])
          IN  /\ first \in 1 .. limit /\ first + size - 1 <= limit
              /\ packets[k] = Frame(first, size)
    /\ \A k, l \in DOMAIN packets :
          k < l => Start(packets[k]) + size <= Start(packets[l])

\* None is missing between them.
Complete(packets, limit, size) ==
    /\ Len(packets) * size = limit
    /\ \A k \in DOMAIN packets : Start(packets[k]) = (k - 1) * size + 1

LEMMA FrameSamplesAt ==
    ASSUME NEW first \in Nat, NEW size \in Nat \ {0}
    PROVE  /\ \A i \in 1 .. size :
                 Frame(first, size)[i] = [number |-> first + i - 1, processed |-> TRUE]
           /\ DOMAIN Frame(first, size) = 1 .. size
           /\ Start(Frame(first, size)) = first
<1>1. /\ DOMAIN Frame(first, size) = 1 .. size
      /\ \A i \in 1 .. size :
            Frame(first, size)[i] = [number |-> first + i - 1, processed |-> TRUE]
  <2> DEFINE numbers == [i \in 1 .. size |-> first + i - 1]
  <2>1. DOMAIN numbers = 1 .. size /\ \A i \in 1 .. size : numbers[i] = first + i - 1
    OBVIOUS
  <2> HIDE DEF numbers
  <2>2. Frame(first, size)
          = [i \in DOMAIN numbers |-> [number |-> numbers[i], processed |-> TRUE]]
    BY Zenon DEF Frame, AP!Processed, numbers
  <2>3. QED BY <2>1, <2>2, Zenon
<1>2. 1 \in 1 .. size /\ first + 1 - 1 = first
  BY SMT
<1>3. Frame(first, size)[1] = [number |-> first, processed |-> TRUE]
  BY <1>1, <1>2
<1>4. Start(Frame(first, size)) = first
  BY <1>3 DEF Start
<1>5. QED BY <1>1, <1>4

LEMMA LineWeaker ==
    ASSUME NEW packets, NEW size \in Nat, NEW limit \in Nat, NEW wider \in Nat,
           limit <= wider, InLine(packets, limit, size)
    PROVE  InLine(packets, wider, size)
BY SMT DEF InLine

\* The packets in front of others are in line by themselves.
LEMMA LineFront ==
    ASSUME NEW S, NEW s \in Seq(S), NEW t \in Seq(S), NEW limit, NEW size,
           InLine(s \o t, limit, size)
    PROVE  InLine(s, limit, size)
<1> DEFINE w == s \o t
<1>1. DOMAIN s \subseteq DOMAIN w /\ \A i \in DOMAIN s : w[i] = s[i]
  BY SMT
<1> HIDE DEF w
<1>2. InLine(w, limit, size)
  BY DEF w
<1>3. QED BY <1>1, <1>2, Zenon DEF InLine

\* The frames of one call, put behind those already in line.
LEMMA LineExtended ==
    ASSUME NEW S, NEW s \in Seq(S), NEW t \in Seq(S),
           NEW size \in Nat \ {0}, NEW limit \in Nat, NEW m \in Nat,
           Len(t) = m, \A k \in 1 .. m : t[k] = Frame(limit + (k - 1) * size + 1, size),
           InLine(s, limit, size)
    PROVE  /\ limit + m * size \in Nat
           /\ InLine(s \o t, limit + m * size, size)
           /\ Complete(s, limit, size) => Complete(s \o t, limit + m * size, size)
<1> DEFINE w == s \o t
           top == limit + m * size
<1>1. Len(s) \in Nat /\ DOMAIN s = 1 .. Len(s) /\ DOMAIN w = 1 .. Len(s) + m
      /\ Len(w) = Len(s) + m
  <2>1. Len(w) = Len(s) + Len(t) /\ w \in Seq(S)
    BY AP!Concatenation
  <2> HIDE DEF w
  <2>2. Len(s) \in Nat /\ DOMAIN s = 1 .. Len(s) /\ DOMAIN w = 1 .. Len(w)
    BY ONLY <2>1, s \in Seq(S), SMT
  <2>3. QED BY <2>1, <2>2
<1>2. /\ \A k \in 1 .. Len(s) : w[k] = s[k]
      /\ \A k \in Len(s) + 1 .. Len(s) + m : w[k] = t[k - Len(s)]
  BY AP!ConcatenationAt
<1> HIDE DEF w
<1>3. ASSUME NEW k \in 1 .. m
      PROVE  /\ (k - 1) * size \in Nat /\ (k - 1) * size + size <= m * size
             /\ Start(t[k]) = limit + (k - 1) * size + 1
             /\ t[k] = Frame(Start(t[k]), size)
  <2>1. (k - 1) * size \in Nat
    BY SMT
  <2>2. k * size <= m * size /\ (k - 1) * size + size = k * size
    BY SMT
  <2>3. limit + (k - 1) * size + 1 \in Nat
    BY <2>1, SMT
  <2>4. Start(t[k]) = limit + (k - 1) * size + 1
    BY <2>3, FrameSamplesAt
  <2>5. QED BY <2>1, <2>2, <2>4
<1>4. m * size \in Nat
  BY SMT
<1>5. limit <= top /\ top \in Nat
  BY <1>4, SMT
<1>6. ASSUME NEW k \in DOMAIN w
      PROVE  LET first == Start(w[k])
             IN  /\ first \in 1 .. top /\ first + size - 1 <= top
                 /\ w[k] = Frame(first, size)
  <2>1. CASE k \in 1 .. Len(s)
    <3>1. InLine(s, top, size)
      BY <1>5, LineWeaker
    <3>2. QED BY <1>1, <1>2, <2>1, <3>1 DEF InLine
  <2>2. CASE k \in Len(s) + 1 .. Len(s) + m
    <3>1. k - Len(s) \in 1 .. m /\ w[k] = t[k - Len(s)]
      BY <1>1, <1>2, <2>2, SMT
    <3>2. PICK j \in 1 .. m : w[k] = t[j]
      BY <3>1
    <3>3. PICK x \in Nat : x = (j - 1) * size /\ x + size <= m * size
      BY <1>3
    <3>4. Start(w[k]) = limit + x + 1
      BY <1>3, <3>2, <3>3
    <3>5. limit + x + 1 \in 1 .. top /\ limit + x + 1 + size - 1 <= top
      BY <1>4, <3>3, SMT
    <3>6. QED BY <1>3, <3>2, <3>4, <3>5
  <2>3. QED BY <1>1, <2>1, <2>2, SMT
<1>7. ASSUME NEW k \in DOMAIN w, NEW l \in DOMAIN w, k < l
      PROVE  Start(w[k]) + size <= Start(w[l])
  <2>1. CASE l \in 1 .. Len(s)
    <3>1. k \in 1 .. Len(s)
      BY <1>1, <1>7, <2>1, SMT
    <3>2. QED BY <1>1, <1>2, <1>7, <2>1, <3>1 DEF InLine
  <2>2. CASE l \in Len(s) + 1 .. Len(s) + m
    <3>1. l - Len(s) \in 1 .. m /\ w[l] = t[l - Len(s)]
      BY <1>1, <1>2, <2>2, SMT
    <3>2. PICK j \in 1 .. m : j = l - Len(s)
      BY <3>1
    <3>3. Start(w[l]) = limit + (j - 1) * size + 1 /\ (j - 1) * size \in Nat
      BY <1>3, <3>1, <3>2
    <3>4. CASE k \in 1 .. Len(s)
      <4>1. Start(w[k]) \in 1 .. limit /\ Start(w[k]) + size - 1 <= limit
        BY <1>1, <1>2, <3>4 DEF InLine
      <4>2. PICK first \in Nat : first = Start(w[k]) /\ first + size - 1 <= limit
        BY <4>1, SMT
      <4>3. PICK x \in Nat : x = (j - 1) * size
        BY <3>3
      <4>4. first + size <= limit + x + 1
        BY <4>2, SMT
      <4>5. QED BY <3>3, <4>2, <4>3, <4>4
    <3>5. CASE k \in Len(s) + 1 .. Len(s) + m
      <4>1. k - Len(s) \in 1 .. m /\ w[k] = t[k - Len(s)]
        BY <1>1, <1>2, <3>5, SMT
      <4>2. PICK i \in 1 .. m : i = k - Len(s)
        BY <4>1
      <4>3. Start(w[k]) = limit + (i - 1) * size + 1 /\ (i - 1) * size \in Nat
        BY <1>3, <4>1, <4>2
      <4>4. i <= j - 1
        BY <1>1, <1>7, <3>2, <4>2, SMT
      <4>5. (i - 1) * size + size <= (j - 1) * size
        <5>1. i * size <= (j - 1) * size /\ (i - 1) * size + size = i * size
          BY <4>4, SMT
        <5>2. QED BY <5>1
      <4>6. QED BY <3>3, <4>3, <4>5, SMT
    <3>6. QED BY <1>1, <3>4, <3>5, SMT
  <2>3. QED BY <1>1, <2>1, <2>2, SMT
<1>8. InLine(w, top, size)
  BY <1>6, <1>7 DEF InLine
<1>9. ASSUME Complete(s, limit, size) PROVE Complete(w, top, size)
  <2>1. Len(s) * size = limit
    BY <1>9 DEF Complete
  <2>2. Len(w) * size = top
    <3>1. (Len(s) + m) * size = Len(s) * size + m * size
      BY <1>1, SMT
    <3>2. QED BY <1>1, <2>1, <3>1
  <2>3. ASSUME NEW k \in DOMAIN w PROVE Start(w[k]) = (k - 1) * size + 1
    <3>1. CASE k \in 1 .. Len(s)
      BY <1>1, <1>2, <1>9, <3>1 DEF Complete
    <3>2. CASE k \in Len(s) + 1 .. Len(s) + m
      <4>1. k - Len(s) \in 1 .. m /\ w[k] = t[k - Len(s)]
        BY <1>1, <1>2, <3>2, SMT
      <4>2. PICK j \in 1 .. m : j = k - Len(s)
        BY <4>1
      <4>3. Start(w[k]) = limit + (j - 1) * size + 1
        BY <1>3, <4>1, <4>2
      <4>4. k - 1 = Len(s) + (j - 1)
        BY <1>1, <4>2, SMT
      <4>5. (k - 1) * size = Len(s) * size + (j - 1) * size
        BY <1>1, <4>4, SMT
      <4>6. QED BY <2>1, <4>3, <4>5
    <3>3. QED BY <1>1, <3>1, <3>2, SMT
  <2>4. QED BY <2>2, <2>3 DEF Complete
<1>10. QED BY <1>5, <1>8, <1>9 DEF w

-----------------------------------------------------------------------------
(* The inductive invariant.                                                 *)

\* The samples that have left the pipeline's queue: the oldest ones.
Taken == captured - Len(pending_outgoing)

\* The queue is what the microphone delivered last, less than a block of it.
QueueInv == /\ Len(pending_outgoing) <= captured
            /\ pending_outgoing = [i \in 1 .. Len(pending_outgoing) |-> Taken + i]

\* A session that writes has something to write.
WritingInv == writing => outgoing_packets # <<>>

PacketInv == InLine(Packets, Taken, samples_per_frame)

LossInv == failures = 0 /\ errors = 0 => Complete(Packets, Taken, samples_per_frame)

IInv == /\ TypeOK /\ ProcessorHoldsNothing /\ HeldBackWithinBlock
        /\ QueueInv /\ WritingInv /\ PacketInv /\ LossInv

-----------------------------------------------------------------------------
(* Encoding.                                                                *)

LEMMA EncodeTyped ==
    ASSUME NEW pcm \in Seq(AP!Sample), samples_per_frame \in Nat \ {0}
    PROVE  Encode(pcm) \in Seq(Seq(AP!Sample))
<1> DEFINE size  == samples_per_frame
           count == (Len(pcm) + size - 1) \div size
           At(k, i) == (k - 1) * size + i
           Piece(k) == [i \in 1 .. size |-> IF At(k, i) <= Len(pcm) THEN pcm[At(k, i)] ELSE Silence]
<1>1. Len(pcm) \in Nat /\ Len(pcm) + size - 1 \in Nat /\ size \in Nat \ {0}
  BY SMT
<1>2. count \in Nat
  <2> HIDE DEF size
  <2>1. PICK x \in Nat : x = Len(pcm) + size - 1
    BY <1>1
  <2>2. x \div size \in Nat
    BY <1>1, WholeDivision
  <2>3. QED BY <2>1, <2>2
<1>3. Silence \in AP!Sample
  BY SMT DEF Silence, AP!Sample
<1>4. ASSUME NEW k \in 1 .. count PROVE Piece(k) \in Seq(AP!Sample)
  <2>1. ASSUME NEW i \in 1 .. size, At(k, i) <= Len(pcm) PROVE pcm[At(k, i)] \in AP!Sample
    <3>1. (k - 1) * size \in Nat
      BY <1>1, <1>2, SMT
    <3>2. At(k, i) \in 1 .. Len(pcm)
      BY <1>1, <2>1, <3>1, SMT
    <3>3. QED BY <3>2, ElementOfSeq
  <2>2. \A i \in 1 .. size :
           (IF At(k, i) <= Len(pcm) THEN pcm[At(k, i)] ELSE Silence) \in AP!Sample
    BY <1>3, <2>1, Zenon
  <2>3. Piece(k) \in [1 .. size -> AP!Sample]
    BY <2>2, Zenon
  <2> HIDE DEF Piece
  <2>4. QED BY <1>1, <2>3, SMT
<1>5. Encode(pcm) = [k \in 1 .. count |-> Piece(k)]
  BY Zenon DEF Encode
<1>6. Encode(pcm) \in [1 .. count -> Seq(AP!Sample)]
  BY <1>4, <1>5, Zenon
<1> HIDE DEF count, Piece
<1>7. QED BY <1>2, <1>6, SMT

\* A block that is whole frames of the codec is encoded without padding.
LEMMA EncodeWhole ==
    ASSUME NEW c \in Nat, NEW m \in Nat, NEW chunk \in Seq(Nat),
           samples_per_frame \in Nat \ {0}, Len(chunk) = m * samples_per_frame,
           \A i \in 1 .. Len(chunk) : chunk[i] = c + i
    PROVE  Encode(AP!Processed(chunk))
             = [k \in 1 .. m |-> Frame(c + (k - 1) * samples_per_frame + 1, samples_per_frame)]
<1>1. PICK size \in Nat \ {0} : size = samples_per_frame
  OBVIOUS
<1>2. PICK pcm : pcm = AP!Processed(chunk)
  OBVIOUS
<1>3. Len(pcm) = m * size
  <2>1. Len(AP!Processed(chunk)) = Len(chunk)
    BY FramingAssumption, AP!Marking
  <2>2. QED BY <1>1, <1>2, <2>1
<1>4. DOMAIN chunk = 1 .. m * size
  BY <1>1, SMT
<1>5. \A i \in 1 .. m * size : pcm[i] = [number |-> c + i, processed |-> TRUE]
  <2>1. \A i \in 1 .. m * size : pcm[i] = [number |-> chunk[i], processed |-> TRUE]
    BY <1>2, <1>4, Zenon DEF AP!Processed
  <2>2. QED BY <1>1, <2>1
<1>6. (m * size + size - 1) \div size = m
  BY SMT
<1> DEFINE Piece(k) == [i \in 1 .. size |-> LET at == (k - 1) * size + i
                                            IN IF at <= Len(pcm) THEN pcm[at] ELSE Silence]
<1>7. Encode(pcm) = [k \in 1 .. m |-> Piece(k)]
  <2>1. Encode(pcm) = [k \in 1 .. (Len(pcm) + size - 1) \div size |-> Piece(k)]
    BY <1>1, Zenon DEF Encode
  <2>2. QED BY <1>3, <1>6, <2>1, Zenon
<1>8. ASSUME NEW k \in 1 .. m
      PROVE  Piece(k) = Frame(c + (k - 1) * size + 1, size)
  <2>1. PICK x \in Nat : x = (k - 1) * size /\ x + size <= m * size
    <3>1. (k - 1) * size \in Nat /\ (k - 1) * size + size = k * size
      BY SMT
    <3>2. k * size <= m * size
      BY SMT
    <3>3. QED BY <3>1, <3>2
  <2>2. ASSUME NEW i \in 1 .. size
        PROVE  /\ x + i \in 1 .. m * size
               /\ c + x + 1 + i - 1 = c + (x + i)
    BY <2>1, SMT
  <2>3. \A i \in 1 .. size : Piece(k)[i] = [number |-> c + (x + i), processed |-> TRUE]
    <3>1. ASSUME NEW i \in 1 .. size PROVE Piece(k)[i] = pcm[x + i]
      <4>1. x + i <= Len(pcm)
        BY <1>3, <2>2, SMT
      <4>2. QED BY <2>1, <4>1, Zenon
    <3>2. QED BY <1>5, <2>2, <3>1, Zenon
  <2>4. c + x + 1 \in Nat
    BY <2>1, SMT
  <2>5. \A i \in 1 .. size :
           Frame(c + x + 1, size)[i] = [number |-> c + x + 1 + i - 1, processed |-> TRUE]
    BY <2>4, FrameSamplesAt
  <2>6. DOMAIN Frame(c + x + 1, size) = 1 .. size
    BY <2>4, FrameSamplesAt
  <2>7. Piece(k) = [i \in 1 .. size |-> [number |-> c + (x + i), processed |-> TRUE]]
    BY <2>3, Zenon
  <2>8. Frame(c + x + 1, size)
          = [i \in 1 .. size |-> [number |-> c + (x + i), processed |-> TRUE]]
    <3> DEFINE numbers == [i \in 1 .. size |-> c + x + 1 + i - 1]
    <3>1. DOMAIN numbers = 1 .. size /\ \A i \in 1 .. size : numbers[i] = c + (x + i)
      BY <2>2
    <3> HIDE DEF numbers
    <3>2. Frame(c + x + 1, size)
            = [i \in DOMAIN numbers |-> [number |-> numbers[i], processed |-> TRUE]]
      BY Zenon DEF Frame, AP!Processed, numbers
    <3>3. QED BY <3>1, <3>2, Zenon
  <2>9. QED BY <2>1, <2>7, <2>8, Zenon
<1>9. QED BY <1>1, <1>2, <1>7, <1>8, Zenon

-----------------------------------------------------------------------------
(* What the calls do.                                                       *)

\* How the processing of some whole blocks, or of none, ends: its packets are
\* about to be written, or an error was counted and nothing will be.
PacketsReady(c, m) ==
    /\ failures' = failures /\ errors' = errors
    /\ outgoing_packets'
         = [k \in 1 .. m |-> Frame(c + (k - 1) * samples_per_frame + 1, samples_per_frame)]
    /\ writing' = (outgoing_packets' # <<>>)

NothingReady ==
    /\ failures' # 0 \/ errors' # 0
    /\ writing' = FALSE

OutputTyped == /\ near_end' \in Seq(AP!Sample) /\ ok' \in BOOLEAN
               /\ failures' \in Nat /\ errors' \in Nat
               /\ outgoing_packets' \in Seq(Seq(AP!Sample))

LEMMA Sizes ==
    ASSUME TypeOK
    PROVE  /\ samples_per_frame \in Nat \ {0} /\ FrameSamples \in Nat \ {0}
           /\ Block \in Nat \ {0}
           /\ Divides(samples_per_frame, Block) /\ Divides(FrameSamples, Block)
<1>1. samples_per_frame \in Nat \ {0} /\ FrameSamples \in Nat \ {0}
  BY FramingAssumption, OutgoingAssumption DEF TypeOK, AP!ProcessorAssumption
<1>2. QED BY <1>1, BlockWhole DEF Block

\* A chunk of whole blocks goes through the processor in place.
LEMMA ChunkProcessed ==
    ASSUME TypeOK, ProcessorHoldsNothing, NEW chunk \in Seq(Nat),
           Divides(Block, Len(chunk)), AP!Process(chunk)
    PROVE  /\ ProcessorHoldsNothing'
           /\ near_end' \in Seq(AP!Sample) /\ ok' \in BOOLEAN /\ failures' \in Nat
           /\ \/ /\ ok' = TRUE /\ failures' = failures /\ near_end' = AP!Processed(chunk)
              \/ ok' = FALSE /\ failures' # 0
<1>1. AP!TypeOK /\ AP!ProcessorAssumption
  BY FramingAssumption DEF TypeOK
<1>2. near_end' \in Seq(AP!Sample) /\ ok' \in BOOLEAN /\ failures' \in Nat
  BY <1>1, AP!ProcessFrames
<1>3. Len(chunk) % FrameSamples = 0
  <2>1. Len(chunk) \in Nat
    BY SMT
  <2>2. Divides(FrameSamples, Len(chunk))
    BY <2>1, Sizes, DividesTransitive
  <2>3. QED BY <2>1, <2>2, Sizes, Frames
<1>4. AP!ProcessInPlace(chunk)
  BY <1>3 DEF AP!Process, ProcessorHoldsNothing
<1>5. ProcessorHoldsNothing'
  BY <1>4 DEF AP!ProcessInPlace, ProcessorHoldsNothing
<1>6. \/ ok' = TRUE /\ failures' = failures /\ near_end' = AP!Processed(chunk)
      \/ ok' = FALSE /\ failures' # 0
  <2>1. PICK done \in 0 .. Len(chunk) \div FrameSamples :
           LET n == done * FrameSamples
           IN  /\ IF n = Len(chunk) THEN AP!Done ELSE AP!Failed
               /\ near_end' = AP!Processed(AP!Front(chunk, n)) \o AP!Raw(AP!Rest(chunk, n))
    BY <1>4 DEF AP!ProcessInPlace
  <2>2. CASE done * FrameSamples = Len(chunk)
    <3>1. AP!Done
      BY <2>1, <2>2
    <3>2. ok' = TRUE /\ failures' = failures
      BY <3>1 DEF AP!Done
    <3>3. near_end' = AP!Processed(AP!Front(chunk, Len(chunk)))
                        \o AP!Raw(AP!Rest(chunk, Len(chunk)))
      BY <2>1, <2>2
    <3>4. AP!Front(chunk, Len(chunk)) = chunk
      BY SubSeqFull DEF AP!Front
    <3>5. AP!Rest(chunk, Len(chunk)) = <<>>
      <4>1. Len(chunk) \in Int /\ Len(chunk) + 1 \in Int /\ Len(chunk) < Len(chunk) + 1
        BY SMT
      <4>2. QED BY <4>1, SubSeqEmpty DEF AP!Rest
    <3>6. AP!Raw(<<>>) = <<>>
      <4>1. <<>> \in Seq(Nat) /\ Len(<<>>) = 0
        BY SMT
      <4>2. AP!Raw(<<>>) \in Seq(AP!Sample) /\ Len(AP!Raw(<<>>)) = 0
        BY <4>1, FramingAssumption, AP!Marking
      <4>3. QED BY <4>2, EmptySeq
    <3>7. AP!Processed(chunk) \in Seq(AP!Sample)
      BY FramingAssumption, AP!Marking
    <3>8. AP!Processed(chunk) \o <<>> = AP!Processed(chunk)
      BY <3>7, ConcatEmptySeq
    <3>9. QED BY <3>2, <3>3, <3>4, <3>5, <3>6, <3>8
  <2>3. CASE done * FrameSamples # Len(chunk)
    <3>1. AP!Failed
      BY <2>1, <2>3
    <3>2. QED BY <1>1, <3>1, AP!Outcome DEF AP!Failed
  <2>4. QED BY <2>2, <2>3
<1>7. QED BY <1>2, <1>5, <1>6

\* It is then encoded.
LEMMA ChunkEncoded ==
    ASSUME TypeOK, ProcessorHoldsNothing, NEW c \in Nat, NEW chunk \in Seq(Nat),
           \A i \in 1 .. Len(chunk) : chunk[i] = c + i,
           Divides(Block, Len(chunk)), AP!Process(chunk), EncodeProcessed
    PROVE  /\ ProcessorHoldsNothing' /\ OutputTyped
           /\ \E m \in Nat : /\ Len(chunk) = m * samples_per_frame
                             /\ PacketsReady(c, m) \/ NothingReady
<1>1. /\ ProcessorHoldsNothing'
      /\ near_end' \in Seq(AP!Sample) /\ ok' \in BOOLEAN /\ failures' \in Nat
      /\ \/ /\ ok' = TRUE /\ failures' = failures /\ near_end' = AP!Processed(chunk)
         \/ ok' = FALSE /\ failures' # 0
  BY ChunkProcessed
<1>2. PICK m \in Nat : Len(chunk) = m * samples_per_frame
  <2>1. Len(chunk) \in Nat
    BY SMT
  <2>2. Divides(samples_per_frame, Len(chunk))
    BY <2>1, Sizes, DividesTransitive
  <2>3. QED BY <2>2 DEF Divides
<1>3. Encode(near_end') \in Seq(Seq(AP!Sample))
  BY <1>1, Sizes, EncodeTyped
<1>4. errors \in Nat
  BY DEF TypeOK
<1>5. CASE ok' /\ Prepare(Encode(near_end')) /\ UNCHANGED errors
  <2>1. failures' = failures /\ near_end' = AP!Processed(chunk)
    BY <1>1, <1>5
  <2>2. Encode(near_end')
          = [k \in 1 .. m |-> Frame(c + (k - 1) * samples_per_frame + 1, samples_per_frame)]
    BY <1>2, <2>1, Sizes, EncodeWhole
  <2>3. outgoing_packets' = Encode(near_end') /\ writing' = (Encode(near_end') # <<>>)
    BY <1>5, Zenon DEF Prepare
  <2>4. PacketsReady(c, m)
    BY <1>5, <2>1, <2>2, <2>3, Zenon DEF PacketsReady
  <2>5. OutputTyped
    BY <1>1, <1>3, <1>4, <1>5, <2>3, Zenon DEF OutputTyped
  <2>6. QED BY <1>1, <1>2, <2>4, <2>5
<1>6. CASE /\ ok' /\ errors < MaxErrors /\ errors' = errors + 1
           /\ \E done \in 0 .. Len(Encode(near_end')) - 1 :
                GiveUp(SubSeq(Encode(near_end'), 1, done))
  <2>1. PICK done \in 0 .. Len(Encode(near_end')) - 1 :
                GiveUp(SubSeq(Encode(near_end'), 1, done))
    BY <1>6
  <2>2. PICK packets \in Seq(Seq(AP!Sample)) : packets = Encode(near_end')
    BY <1>3
  <2>3. SubSeq(packets, 1, done) \in Seq(Seq(AP!Sample))
    <3>1. done \in 0 .. Len(packets)
      BY <2>1, <2>2, SMT
    <3>2. QED BY <3>1, AP!FrontAndRest DEF AP!Front
  <2>4. outgoing_packets' \in Seq(Seq(AP!Sample)) /\ writing' = FALSE
    BY <2>1, <2>2, <2>3, Zenon DEF GiveUp
  <2>5. errors' \in Nat /\ errors' # 0
    BY <1>4, <1>6, SMT
  <2>6. NothingReady /\ OutputTyped
    BY <1>1, <2>4, <2>5 DEF NothingReady, OutputTyped
  <2>7. QED BY <1>1, <1>2, <2>6
<1>7. CASE ~ok' /\ GiveUp(<<>>) /\ UNCHANGED errors
  <2>1. failures' # 0 /\ outgoing_packets' = <<>> /\ writing' = FALSE /\ errors' \in Nat
    BY <1>1, <1>4, <1>7 DEF GiveUp
  <2>2. outgoing_packets' \in Seq(Seq(AP!Sample))
    BY <2>1, EmptySeq
  <2>3. NothingReady /\ OutputTyped
    BY <1>1, <2>1, <2>2 DEF NothingReady, OutputTyped
  <2>4. QED BY <1>1, <1>2, <2>3
<1>8. QED BY <1>5, <1>6, <1>7 DEF EncodeProcessed

\* The queue and the microphone's block, as one run of samples.
LEMMA Queued ==
    ASSUME TypeOK, QueueInv, NEW n \in Nat
    PROVE  LET queued == pending_outgoing \o AP!Captured(n)
           IN  /\ queued \in Seq(Nat) /\ Len(queued) = Len(pending_outgoing) + n
               /\ Len(pending_outgoing) \in Nat /\ Taken \in Nat
               /\ captured = Taken + Len(pending_outgoing)
               /\ \A i \in 1 .. Len(pending_outgoing) + n : queued[i] = Taken + i
<1> DEFINE mic    == AP!Captured(n)
           queued == pending_outgoing \o mic
           held   == Len(pending_outgoing)
<1>1. captured \in Nat /\ pending_outgoing \in Seq(Nat)
  BY DEF TypeOK, AP!TypeOK
<1>2. held \in Nat /\ held <= captured
  BY <1>1, SMT DEF QueueInv
<1>3. Taken \in Nat /\ captured = Taken + held
  BY <1>1, <1>2, SMT DEF Taken
<1>4. mic \in Seq(Nat) /\ Len(mic) = n
  BY FramingAssumption, AP!CapturedBlock DEF TypeOK
<1>5. \A i \in 1 .. n : mic[i] = captured + i
  BY Zenon DEF AP!Captured
<1>6. \A i \in 1 .. held : pending_outgoing[i] = Taken + i
  <2>1. PICK h \in Nat : h = held
    BY <1>2
  <2>2. pending_outgoing = [i \in 1 .. h |-> Taken + i]
    BY <2>1, Zenon DEF QueueInv
  <2>3. QED BY <2>1, <2>2, Zenon
<1> HIDE DEF mic
<1>7. /\ queued \in Seq(Nat) /\ Len(queued) = held + n
      /\ \A i \in 1 .. held : queued[i] = pending_outgoing[i]
      /\ \A i \in held + 1 .. held + n : queued[i] = mic[i - held]
  BY <1>1, <1>4, FramingAssumption, AP!Concatenation, AP!ConcatenationAt
<1> HIDE DEF queued
<1>8. ASSUME NEW i \in 1 .. held + n PROVE queued[i] = Taken + i
  <2>1. CASE i \in 1 .. held
    BY <1>6, <1>7, <2>1
  <2>2. CASE i \in held + 1 .. held + n
    <3>1. i - held \in 1 .. n
      BY <1>2, <2>2, SMT
    <3>2. queued[i] = captured + (i - held)
      BY <1>5, <1>7, <2>2, <3>1
    <3>3. captured + (i - held) = Taken + i
      BY <1>1, <1>2, <1>3, SMT
    <3>4. QED BY <3>2, <3>3
  <2>3. QED BY <1>2, <2>1, <2>2, SMT
<1>9. QED BY <1>2, <1>3, <1>7, <1>8 DEF queued, mic

\* What a call makes of the microphone's block.
Moves == /\ ProcessorHoldsNothing' /\ OutputTyped
         /\ pending_outgoing' \in Seq(Nat) /\ Len(pending_outgoing') < Block
         /\ Len(pending_outgoing') <= captured'
         /\ \A i \in 1 .. Len(pending_outgoing') :
               pending_outgoing'[i] = captured' - Len(pending_outgoing') + i
         /\ \E m \in Nat :
               /\ captured' - Len(pending_outgoing') = Taken + m * samples_per_frame
               /\ PacketsReady(Taken, m) \/ NothingReady

LEMMA AlignedMoves ==
    ASSUME TypeOK, ProcessorHoldsNothing, QueueInv, NEW n \in Nat,
           captured' = captured + n, ProcessAligned(AP!Captured(n))
    PROVE  Moves
<1>1. captured \in Nat /\ pending_outgoing = <<>> /\ pending_outgoing' = <<>>
  BY DEF TypeOK, AP!TypeOK, ProcessAligned
<1>2. Len(pending_outgoing) = 0 /\ Len(pending_outgoing') = 0 /\ pending_outgoing' \in Seq(Nat)
  BY <1>1, EmptySeq, SMT
<1>3. Taken = captured
  BY <1>1, <1>2, SMT DEF Taken
<1>4. PICK mic \in Seq(Nat) : mic = AP!Captured(n) /\ Len(mic) = n
  BY FramingAssumption, AP!CapturedBlock DEF TypeOK
<1>5. \A i \in 1 .. Len(mic) : mic[i] = Taken + i
  BY <1>3, <1>4, Zenon DEF AP!Captured
<1>6. Divides(Block, Len(mic))
  <2>1. n % Block = 0
    BY <1>4 DEF ProcessAligned
  <2>2. PICK b \in Nat \ {0} : b = Block
    BY Sizes
  <2>3. n = (n \div b) * b + (n % b) /\ n \div b \in Nat
    BY Division
  <2>4. PICK q \in Nat : n = q * b + 0
    BY <2>1, <2>2, <2>3
  <2>5. n = q * b
    BY <2>4, SMT
  <2>6. QED BY <1>4, <2>2, <2>5 DEF Divides
<1>7. AP!Process(mic) /\ EncodeProcessed
  BY <1>4 DEF ProcessAligned
<1>8. /\ ProcessorHoldsNothing' /\ OutputTyped
      /\ \E m \in Nat : /\ Len(mic) = m * samples_per_frame
                        /\ PacketsReady(Taken, m) \/ NothingReady
  BY <1>1, <1>3, <1>5, <1>6, <1>7, ChunkEncoded
<1>9. captured' - Len(pending_outgoing') = Taken + Len(mic)
      /\ Len(pending_outgoing') <= captured'
  BY <1>1, <1>2, <1>3, <1>4, SMT
<1>10. Len(pending_outgoing') < Block
  BY <1>2, Sizes, SMT
<1>11. \A i \in 1 .. Len(pending_outgoing') :
               pending_outgoing'[i] = captured' - Len(pending_outgoing') + i
  BY <1>2, SMT
<1>12. QED BY <1>2, <1>8, <1>9, <1>10, <1>11 DEF Moves

LEMMA GatherMoves ==
    ASSUME TypeOK, ProcessorHoldsNothing, QueueInv, NEW n \in Nat,
           captured' = captured + n, Gather(AP!Captured(n))
    PROVE  Moves
<1> DEFINE held == Len(pending_outgoing)
<1>1. PICK queued \in Seq(Nat) :
          /\ queued = pending_outgoing \o AP!Captured(n) /\ Len(queued) = held + n
          /\ held \in Nat /\ Taken \in Nat /\ captured = Taken + held
          /\ \A i \in 1 .. held + n : queued[i] = Taken + i
  BY Queued
<1>2. pending_outgoing' = queued
  BY <1>1 DEF Gather
<1>3. captured' - Len(pending_outgoing') = Taken /\ Len(pending_outgoing') <= captured'
  <2>1. captured' = Taken + held + n
    BY <1>1, SMT
  <2>2. PICK taken \in Nat, h \in Nat : taken = Taken /\ h = held
    BY <1>1
  <2>3. taken + h + n - (h + n) = taken /\ h + n <= taken + h + n
    BY SMT
  <2>4. captured' = taken + h + n /\ Len(pending_outgoing') = h + n
    BY <1>1, <1>2, <2>1, <2>2
  <2>5. QED BY <2>2, <2>3, <2>4
<1>4. Len(pending_outgoing') < Block
  <2>1. Len(AP!Captured(n)) = n
    BY FramingAssumption, AP!CapturedBlock DEF TypeOK
  <2>2. QED BY <1>1, <1>2, <2>1 DEF Gather
<1>5. ProcessorHoldsNothing'
  BY DEF ProcessorHoldsNothing, Gather
<1>6. ok' = TRUE /\ failures' = failures /\ errors' = errors /\ near_end' = near_end
      /\ outgoing_packets' = <<>> /\ writing' = FALSE
  BY DEF Gather, AP!Done, Prepare
<1>7. OutputTyped
  <2>1. near_end \in Seq(AP!Sample) /\ failures \in Nat /\ errors \in Nat
    BY DEF TypeOK, AP!TypeOK
  <2>2. <<>> \in Seq(Seq(AP!Sample))
    BY EmptySeq
  <2>3. QED BY <1>6, <2>1, <2>2 DEF OutputTyped
<1>8. PacketsReady(Taken, 0)
  <2> DEFINE none == [k \in 1 .. 0 |-> Frame(Taken + (k - 1) * samples_per_frame + 1, samples_per_frame)]
  <2>1. none = <<>>
    <3>1. 1 .. 0 = {}
      BY SMT
    <3>2. QED BY <3>1
  <2>2. QED BY <1>6, <2>1, Zenon DEF PacketsReady
<1>9. 0 \in Nat /\ Taken = Taken + 0 * samples_per_frame
  BY <1>1, Sizes, SMT
<1>10. QED BY <1>1, <1>2, <1>3, <1>4, <1>5, <1>7, <1>8, <1>9 DEF Moves

LEMMA GatheredMoves ==
    ASSUME TypeOK, ProcessorHoldsNothing, QueueInv, NEW n \in Nat,
           captured' = captured + n, ProcessGathered(AP!Captured(n))
    PROVE  Moves
<1> DEFINE held == Len(pending_outgoing)
<1>1. PICK queued \in Seq(Nat) :
          /\ queued = pending_outgoing \o AP!Captured(n) /\ Len(queued) = held + n
          /\ held \in Nat /\ Taken \in Nat /\ captured = Taken + held
          /\ \A i \in 1 .. held + n : queued[i] = Taken + i
  BY Queued
<1>2. PICK b \in Nat \ {0} : b = Block
  BY Sizes
<1>3. PICK total \in Nat : total = Len(queued)
  BY SMT
<1>4. PICK x \in Nat : x = total \div b
  BY WholeDivision
<1>5. PICK complete \in Nat : complete = x * b /\ complete \in 0 .. total /\ total - complete < b
  <2>1. total = x * b + (total % b) /\ total % b \in Nat /\ total % b < b
    BY <1>4, Division
  <2>2. PICK c \in Nat : c = x * b
    BY SMT
  <2>3. c \in 0 .. total /\ total - c < b
    BY <2>1, <2>2, SMT
  <2>4. QED BY <2>2, <2>3
<1> complete \in 0 .. Len(queued)
  BY <1>3, <1>5
<1>6. PICK chunk \in Seq(Nat) : /\ chunk = SubSeq(queued, 1, complete) /\ Len(chunk) = complete
                                /\ \A i \in 1 .. complete : chunk[i] = queued[i]
  <2> DEFINE front == AP!Front(queued, complete)
  <2>1. front \in Seq(Nat) /\ Len(front) = complete
    BY FramingAssumption, AP!FrontAndRest
  <2>2. \A i \in 1 .. complete : front[i] = queued[i]
    BY FramingAssumption, AP!FrontAndRestAt
  <2>3. front = SubSeq(queued, 1, complete)
    BY DEF AP!Front
  <2> HIDE DEF front
  <2>4. QED BY <2>1, <2>2, <2>3
<1>7. PICK rest \in Seq(Nat) : /\ rest = SubSeq(queued, complete + 1, Len(queued))
                               /\ Len(rest) = total - complete
                               /\ \A i \in 1 .. total - complete : rest[i] = queued[complete + i]
  <2> DEFINE behind == AP!Rest(queued, complete)
  <2>1. behind \in Seq(Nat) /\ Len(behind) = Len(queued) - complete
    BY FramingAssumption, AP!FrontAndRest
  <2>2. \A i \in 1 .. Len(queued) - complete : behind[i] = queued[complete + i]
    BY FramingAssumption, AP!FrontAndRestAt
  <2>3. behind = SubSeq(queued, complete + 1, Len(queued))
    BY DEF AP!Rest
  <2> HIDE DEF behind
  <2>4. QED BY <1>3, <2>1, <2>2, <2>3
<1>8. AP!Process(chunk) /\ EncodeProcessed /\ pending_outgoing' = rest
  BY <1>1, <1>2, <1>3, <1>4, <1>5, <1>6, <1>7 DEF ProcessGathered
<1>9. \A i \in 1 .. Len(chunk) : chunk[i] = Taken + i
  <2>1. \A i \in 1 .. complete : i \in 1 .. total
    BY <1>5, SMT
  <2>2. QED BY <1>1, <1>3, <1>6, <2>1
<1>10. Divides(Block, Len(chunk))
  BY <1>2, <1>5, <1>6 DEF Divides
<1>11. /\ ProcessorHoldsNothing' /\ OutputTyped
       /\ \E m \in Nat : /\ Len(chunk) = m * samples_per_frame
                         /\ PacketsReady(Taken, m) \/ NothingReady
  BY <1>1, <1>8, <1>9, <1>10, ChunkEncoded
<1>12. captured' = Taken + total
  BY <1>1, <1>3, SMT
<1>13. PICK taken \in Nat : taken = Taken
  BY <1>1
<1>14. taken + total - (total - complete) = taken + complete /\ total - complete <= taken + total
       /\ total - complete \in Nat
  <2>1. \A a, t \in Nat : \A c \in 0 .. t :
           a + t - (t - c) = a + c /\ t - c <= a + t /\ t - c \in Nat
    BY SMT
  <2>2. QED BY <1>5, <2>1
<1>15. captured' - Len(pending_outgoing') = Taken + Len(chunk)
       /\ Len(pending_outgoing') <= captured'
  <2>1. captured' = taken + total /\ Len(pending_outgoing') = total - complete
    BY <1>7, <1>8, <1>12, <1>13
  <2>2. captured' - Len(pending_outgoing') = taken + total - (total - complete)
    <3>1. PICK last, length : last = captured' /\ length = Len(pending_outgoing')
      OBVIOUS
    <3>2. last = taken + total /\ length = total - complete
      BY <2>1, <3>1, Zenon
    <3>3. last - length = taken + total - (total - complete)
      BY ONLY <3>2, taken \in Nat, total \in Nat, complete \in Nat, SMT
    <3>4. QED BY <3>1, <3>3, Zenon
  <2>3. Len(pending_outgoing') <= captured'
    BY <1>14, <2>1
  <2>4. QED BY <1>6, <1>13, <1>14, <2>2, <2>3
<1>16. Len(pending_outgoing') < Block
  BY <1>2, <1>5, <1>7, <1>8
<1>17. ASSUME NEW i \in 1 .. Len(pending_outgoing')
       PROVE  pending_outgoing'[i] = captured' - Len(pending_outgoing') + i
  <2>1. i \in 1 .. total - complete
    BY <1>7, <1>8
  <2>2. complete + i \in 1 .. total
    <3>1. \A t \in Nat : \A c \in 0 .. t : \A j \in 1 .. t - c : c + j \in 1 .. t
      BY SMT
    <3>2. QED BY <1>5, <2>1, <3>1
  <2>3. rest[i] = taken + (complete + i)
    BY <1>1, <1>3, <1>7, <1>13, <2>1, <2>2
  <2>4. taken + (complete + i) = taken + complete + i
    BY <2>1, SMT
  <2>5. QED BY <1>6, <1>8, <1>13, <1>15, <2>3, <2>4
<1>18. QED BY <1>7, <1>8, <1>11, <1>15, <1>16, <1>17 DEF Moves

LEMMA OutgoingMoves ==
    ASSUME TypeOK, ProcessorHoldsNothing, QueueInv, NEW n \in Nat,
           captured' = captured + n, ProcessOutgoing(AP!Captured(n))
    PROVE  Moves
BY AlignedMoves, GatherMoves, GatheredMoves DEF ProcessOutgoing

-----------------------------------------------------------------------------
(* Every step keeps the invariant.                                          *)

LEMMA PacketsTyped ==
    ASSUME TypeOK
    PROVE  /\ Packets \in Seq(Seq(AP!Sample))
           /\ ~ writing => Packets = track
<1>1. track \in Seq(Seq(AP!Sample)) /\ outgoing_packets \in Seq(Seq(AP!Sample))
  BY DEF TypeOK
<1>2. track \o outgoing_packets \in Seq(Seq(AP!Sample))
  BY <1>1, FramingAssumption, AP!Concatenation
<1>3. track \o <<>> = track
  BY <1>1, ConcatEmptySeq
<1>4. QED BY <1>1, <1>2, <1>3, Zenon DEF Packets

LEMMA TakenTyped ==
    ASSUME TypeOK, QueueInv
    PROVE  Taken \in Nat
<1>1. captured \in Nat /\ pending_outgoing \in Seq(Nat)
  BY DEF TypeOK, AP!TypeOK
<1>2. QED BY <1>1, SMT DEF QueueInv, Taken

\* A call that takes the microphone's block.
LEMMA SendStep ==
    ASSUME IInv, ~ writing, NEW n \in Nat, captured' = captured + n,
           ProcessOutgoing(AP!Captured(n)), pending_render' \in Nat,
           UNCHANGED <<output, samples_per_frame, track>>
    PROVE  IInv'
<1>1. TypeOK /\ ProcessorHoldsNothing /\ QueueInv /\ PacketInv /\ LossInv
  BY DEF IInv
<1>2. Moves
  BY <1>1, OutgoingMoves
<1>3. PICK size \in Nat \ {0} : size = samples_per_frame
  BY <1>1, Sizes
<1>4. PICK limit \in Nat : limit = Taken
  BY <1>1, TakenTyped
<1>5. PICK m \in Nat :
         /\ captured' - Len(pending_outgoing') = limit + m * size
         /\ PacketsReady(Taken, m) \/ NothingReady
  BY <1>2, <1>3, <1>4 DEF Moves
<1>6. Taken' = limit + m * size
  BY <1>5 DEF Taken
<1>7. writing' \in BOOLEAN
  BY <1>5, Zenon DEF PacketsReady, NothingReady
<1>8. TypeOK'
  <2>1. captured' \in Nat
    <3>1. captured \in Nat
      BY <1>1 DEF TypeOK, AP!TypeOK
    <3>2. QED BY <3>1, SMT
  <2>2. pending_capture' \in Seq(Nat) /\ carry_out' \in Seq(Nat)
    BY <1>2, EmptySeq DEF Moves, ProcessorHoldsNothing
  <2>3. output' \in Seq(AP!Sample) /\ samples_per_frame' \in CodecFrames
        /\ track' \in Seq(Seq(AP!Sample))
    BY <1>1 DEF TypeOK, AP!TypeOK
  <2>4. OutputTyped /\ pending_outgoing' \in Seq(Nat)
    BY <1>2 DEF Moves
  <2>5. QED BY <1>7, <2>1, <2>2, <2>3, <2>4, Zenon DEF TypeOK, AP!TypeOK, OutputTyped
<1>9. ProcessorHoldsNothing'
  BY <1>2 DEF Moves
<1>10. Block' = Block
  BY DEF Block
<1>11. HeldBackWithinBlock'
  BY <1>2, <1>10 DEF Moves, HeldBackWithinBlock
<1>12. QueueInv'
  <2>1. PICK taken : taken = captured' - Len(pending_outgoing')
    OBVIOUS
  <2>2. \A i \in 1 .. Len(pending_outgoing') : pending_outgoing'[i] = taken + i
    BY <1>2, <2>1, Zenon DEF Moves
  <2>3. pending_outgoing' \in Seq(Nat)
    BY <1>2 DEF Moves
  <2>4. pending_outgoing' = [i \in 1 .. Len(pending_outgoing') |-> taken + i]
    <3>1. DOMAIN pending_outgoing' = 1 .. Len(pending_outgoing')
      BY <2>3, SMT
    <3>2. pending_outgoing' = [i \in DOMAIN pending_outgoing' |-> pending_outgoing'[i]]
      BY <2>3, SMT
    <3>3. QED BY <2>2, <3>1, <3>2, Zenon
  <2>5. Len(pending_outgoing') <= captured'
    BY <1>2 DEF Moves
  <2>6. Taken' = taken
    BY <2>1 DEF Taken
  <2>7. QED BY <2>4, <2>5, <2>6, Zenon DEF QueueInv
<1>13. WritingInv'
  BY <1>5, Zenon DEF WritingInv, PacketsReady, NothingReady
<1>14. Packets = track /\ track \in Seq(Seq(AP!Sample)) /\ InLine(track, limit, size)
  BY <1>1, <1>3, <1>4, PacketsTyped DEF PacketInv, TypeOK
<1>15. PacketInv' /\ LossInv'
  <2>1. CASE PacketsReady(Taken, m)
    <3> DEFINE ready == [k \in 1 .. m |-> Frame(limit + (k - 1) * size + 1, size)]
    <3>1. outgoing_packets' = ready /\ failures' = failures /\ errors' = errors
      BY <1>3, <1>4, <2>1 DEF PacketsReady
    <3>2. ready \in Seq(Seq(AP!Sample))
      BY <1>2, <3>1 DEF Moves, OutputTyped
    <3>3. Len(ready) = m
      <4>1. DOMAIN ready = 1 .. m
        OBVIOUS
      <4> HIDE DEF ready
      <4>2. QED BY <3>2, <4>1, SMT
    <3>4. \A k \in 1 .. m : ready[k] = Frame(limit + (k - 1) * size + 1, size)
      OBVIOUS
    <3> HIDE DEF ready
    <3>5. /\ InLine(track \o ready, limit + m * size, size)
          /\ Complete(track, limit, size) => Complete(track \o ready, limit + m * size, size)
      BY <1>14, <3>2, <3>3, <3>4, LineExtended
    <3>6. Packets' = track \o ready
      <4>1. writing' = (ready # <<>>)
        BY <2>1, <3>1 DEF PacketsReady
      <4>2. track \o <<>> = track
        BY <1>14, ConcatEmptySeq
      <4>3. (IF writing' THEN outgoing_packets' ELSE <<>>) = ready
        BY <3>1, <4>1, Zenon
      <4>4. QED BY <4>3, Zenon DEF Packets
    <3>7. failures' = 0 /\ errors' = 0 => Complete(track, limit, size)
      BY <1>1, <1>3, <1>4, <1>14, <3>1 DEF LossInv
    <3>8. samples_per_frame' = size
      BY <1>3
    <3>9. QED BY <1>6, <3>5, <3>6, <3>7, <3>8, Zenon DEF PacketInv, LossInv
  <2>2. CASE NothingReady
    <3>1. Packets' = track
      <4>1. track \o <<>> = track
        BY <1>14, ConcatEmptySeq
      <4>2. (IF writing' THEN outgoing_packets' ELSE <<>>) = <<>>
        BY <2>2, Zenon DEF NothingReady
      <4>3. QED BY <4>1, <4>2, Zenon DEF Packets
    <3>2. limit + m * size \in Nat /\ limit <= limit + m * size
      <4>1. m * size \in Nat
        BY SMT
      <4>2. QED BY <4>1, SMT
    <3>3. InLine(track, limit + m * size, size)
      BY <1>14, <3>2, LineWeaker
    <3>4. samples_per_frame' = size
      BY <1>3
    <3>5. QED BY <1>6, <2>2, <3>1, <3>3, <3>4, Zenon DEF PacketInv, LossInv, NothingReady
  <2>3. QED BY <1>5, <2>1, <2>2
<1>16. QED BY <1>8, <1>9, <1>11, <1>12, <1>13, <1>15 DEF IInv

\* A call that moves no near-end sample.
LEMMA FarEndStep ==
    ASSUME IInv, pending_render' \in Nat, ok' \in BOOLEAN, failures' \in Nat,
           failures' = failures \/ failures' # 0,
           UNCHANGED <<pending_capture, carry_out, near_end, captured, output,
                       samples_per_frame, pending_outgoing, outgoing_packets,
                       writing, errors, track>>
    PROVE  IInv'
<1>1. TypeOK'
  BY Zenon DEF IInv, TypeOK, AP!TypeOK
<1>2. Packets' = Packets /\ Taken' = Taken /\ Block' = Block
  BY DEF Packets, Taken, Block
<1>3. ProcessorHoldsNothing' /\ HeldBackWithinBlock' /\ QueueInv' /\ WritingInv'
  BY <1>2, Zenon DEF IInv, ProcessorHoldsNothing, HeldBackWithinBlock, QueueInv, WritingInv
<1>4. PacketInv' /\ LossInv'
  BY <1>2, Zenon DEF IInv, PacketInv, LossInv
<1>5. QED BY <1>1, <1>3, <1>4 DEF IInv

\* The head put behind one sequence and the tail are both sequences in full.
LEMMA HeadAppendTail ==
    ASSUME NEW S, NEW s \in Seq(S), NEW t \in Seq(S), t # <<>>
    PROVE  /\ Head(t) \in S /\ Tail(t) \in Seq(S) /\ Append(s, Head(t)) \in Seq(S)
           /\ Append(s, Head(t)) \o Tail(t) = s \o t
BY SMT

\* Writing moves packets, or drops the last ones.
LEMMA WriteStep ==
    ASSUME IInv, WritePacket
    PROVE  IInv'
<1>1. PICK written, ready \in Seq(Seq(AP!Sample)) :
          written = track /\ ready = outgoing_packets /\ ready # <<>>
  BY DEF IInv, TypeOK, WritingInv, WritePacket
<1>2. /\ Head(ready) \in Seq(AP!Sample) /\ Tail(ready) \in Seq(Seq(AP!Sample))
      /\ Append(written, Head(ready)) \in Seq(Seq(AP!Sample))
      /\ Append(written, Head(ready)) \o Tail(ready) = written \o ready
  BY <1>1, HeadAppendTail
<1>3. track' = Append(written, Head(ready)) /\ outgoing_packets' = Tail(ready)
      /\ writing' = (Tail(ready) # <<>>)
  BY <1>1 DEF WritePacket, Prepare
<1>4. Packets' = Packets
  <2>1. Packets = written \o ready
    BY <1>1 DEF Packets, WritePacket
  <2>2. (IF writing' THEN outgoing_packets' ELSE <<>>) = Tail(ready)
    BY <1>3, Zenon
  <2>3. Packets' = track' \o Tail(ready)
    BY <2>2, Zenon DEF Packets
  <2>4. QED BY <1>2, <1>3, <2>1, <2>3, Zenon
<1>5. /\ UNCHANGED <<pending_capture, carry_out, pending_render, near_end, ok,
                     captured, output, failures>>
      /\ UNCHANGED <<samples_per_frame, pending_outgoing, errors>>
  BY DEF WritePacket, processor
<1>6. Taken' = Taken /\ Block' = Block
  BY <1>5 DEF Taken, Block
<1>7. TypeOK'
  BY <1>2, <1>3, <1>5, Zenon DEF IInv, TypeOK, AP!TypeOK
<1>8. ProcessorHoldsNothing' /\ HeldBackWithinBlock' /\ QueueInv' /\ WritingInv'
  BY <1>3, <1>5, <1>6, Zenon DEF IInv, ProcessorHoldsNothing, HeldBackWithinBlock, QueueInv, WritingInv
<1>9. PacketInv' /\ LossInv'
  BY <1>4, <1>5, <1>6, Zenon DEF IInv, PacketInv, LossInv
<1>10. QED BY <1>7, <1>8, <1>9 DEF IInv

LEMMA WriteFailsStep ==
    ASSUME IInv, WriteFails
    PROVE  IInv'
<1>1. /\ outgoing_packets' = <<>> /\ writing' = FALSE /\ track' = track
      /\ errors \in Nat /\ errors' = errors + 1
  BY DEF WriteFails, GiveUp, IInv, TypeOK
<1>2. errors' \in Nat /\ errors' # 0
  BY <1>1, SMT
<1>3. PICK written, ready \in Seq(Seq(AP!Sample)) :
          written = track /\ ready = outgoing_packets
  BY DEF IInv, TypeOK
<1>4. Packets' = written
  <2>1. written \o <<>> = written
    BY <1>3, ConcatEmptySeq
  <2>2. QED BY <1>1, <1>3, <2>1, Zenon DEF Packets
<1>5. Packets = written \o ready
  BY <1>3 DEF Packets, WriteFails
<1>6. InLine(written, Taken, samples_per_frame)
  BY <1>5, LineFront DEF IInv, PacketInv
<1>7. /\ UNCHANGED <<pending_capture, carry_out, pending_render, near_end, ok,
                     captured, output, failures>>
      /\ UNCHANGED <<samples_per_frame, pending_outgoing>>
  BY DEF WriteFails, processor
<1>8. Taken' = Taken /\ Block' = Block
  BY <1>7 DEF Taken, Block
<1>9. outgoing_packets' \in Seq(Seq(AP!Sample)) /\ writing' \in BOOLEAN
  BY <1>1, EmptySeq
<1>10. TypeOK'
  BY <1>1, <1>2, <1>7, <1>9, Zenon DEF IInv, TypeOK, AP!TypeOK
<1>11. ProcessorHoldsNothing' /\ HeldBackWithinBlock' /\ QueueInv' /\ WritingInv'
  BY <1>1, <1>7, <1>8, Zenon DEF IInv, ProcessorHoldsNothing, HeldBackWithinBlock, QueueInv, WritingInv
<1>12. PacketInv' /\ LossInv'
  BY <1>2, <1>4, <1>6, <1>7, <1>8, Zenon DEF PacketInv, LossInv
<1>13. QED BY <1>10, <1>11, <1>12 DEF IInv

\* A stream that starts: nothing sent, nothing waiting.
Empty == /\ samples_per_frame \in CodecFrames /\ captured = 0
         /\ pending_outgoing = <<>> /\ track = <<>> /\ writing = FALSE

LEMMA EmptyStream ==
    Empty => HeldBackWithinBlock /\ QueueInv /\ WritingInv /\ PacketInv /\ LossInv
<1> SUFFICES ASSUME Empty
             PROVE  HeldBackWithinBlock /\ QueueInv /\ WritingInv /\ PacketInv /\ LossInv
  OBVIOUS
<1> USE DEF Empty
<1>1. samples_per_frame \in Nat \ {0} /\ FrameSamples \in Nat \ {0}
  BY FramingAssumption, OutgoingAssumption DEF AP!ProcessorAssumption
<1>2. Block \in Nat \ {0}
  BY <1>1, BlockWhole DEF Block
<1>3. Len(<<>>) = 0 /\ DOMAIN <<>> = {} /\ 1 .. 0 = {}
  BY SMT
<1>4. Len(pending_outgoing) = 0 /\ Taken = 0
  <2>1. Len(pending_outgoing) = 0 /\ captured = 0
    BY <1>3
  <2>2. 0 - 0 = 0
    BY SMT
  <2>3. QED BY <2>1, <2>2, Zenon DEF Taken
<1>5. Packets = <<>>
  <2>1. <<>> \o <<>> = <<>>
    BY SMT
  <2>2. QED BY <2>1, Zenon DEF Packets
<1>6. HeldBackWithinBlock
  BY <1>2, <1>4, SMT DEF HeldBackWithinBlock
<1>7. QueueInv
  <2>1. [i \in 1 .. 0 |-> Taken + i] = <<>>
    BY <1>3
  <2>2. QED BY <1>4, <2>1 DEF QueueInv
<1>8. WritingInv /\ PacketInv
  BY <1>3, <1>5, Zenon DEF WritingInv, PacketInv, InLine
<1>9. 0 * samples_per_frame = 0
  BY <1>1, SMT
<1>10. LossInv
  BY <1>3, <1>4, <1>5, <1>9, Zenon DEF LossInv, Complete
<1>11. QED BY <1>6, <1>7, <1>8, <1>10

LEMMA InitInv ==
    ASSUME Init
    PROVE  IInv
<1>1. AP!TypeOK
  BY FramingAssumption, AP!InitTyped DEF Init
<1>2. TypeOK
  BY <1>1, EmptySeq DEF Init, TypeOK
<1>3. ProcessorHoldsNothing /\ captured = 0
  BY DEF Init, AP!Init, ProcessorHoldsNothing
<1>4. QED BY <1>2, <1>3, EmptyStream DEF Init, Empty, IInv

LEMMA ResetStep ==
    ASSUME IInv, Reset
    PROVE  IInv'
<1>1. /\ pending_capture' = <<>> /\ carry_out' = <<>> /\ pending_render' = 0
      /\ pending_outgoing' = <<>> /\ captured' = 0 /\ track' = <<>>
      /\ writing' = FALSE /\ samples_per_frame' \in CodecFrames
      /\ UNCHANGED <<near_end, ok, output, failures, samples_per_frame,
                     outgoing_packets, writing, errors>>
  BY DEF Reset, AP!ClearFraming, IInv, TypeOK
<1>2. TypeOK'
  <2>1. <<>> \in Seq(Nat) /\ <<>> \in Seq(Seq(AP!Sample)) /\ 0 \in Nat
    BY EmptySeq
  <2>2. QED BY <1>1, <2>1, Zenon DEF IInv, TypeOK, AP!TypeOK
<1>3. ProcessorHoldsNothing'
  BY <1>1 DEF ProcessorHoldsNothing
<1>4. (HeldBackWithinBlock /\ QueueInv /\ WritingInv /\ PacketInv /\ LossInv)'
  <2>1. Empty'
    BY <1>1 DEF Empty
  <2>2. QED BY <2>1, EmptyStream, PTL
<1>5. QED BY <1>2, <1>3, <1>4 DEF IInv

LEMMA FarEndTyped ==
    ASSUME TypeOK, NEW n \in Nat
    PROVE  /\ AP!RenderSucceeds(n) => pending_render' \in Nat
           /\ AP!RenderFails(n) => pending_render' \in Nat
           /\ AP!Done => ok' \in BOOLEAN /\ failures' \in Nat /\ failures' = failures
           /\ AP!Failed => ok' \in BOOLEAN /\ failures' \in Nat /\ failures' # 0
<1>1. AP!TypeOK
  BY DEF TypeOK
<1>2. /\ AP!RenderSucceeds(n) => pending_render' \in 0 .. FrameSamples - 1
      /\ AP!RenderFails(n) => pending_render' \in Nat
  BY <1>1, FramingAssumption, AP!RenderFrames
<1>3. pending_render' \in 0 .. FrameSamples - 1 => pending_render' \in Nat
  BY SMT
<1>4. /\ AP!Done \/ AP!Failed => ok' \in BOOLEAN /\ failures' \in Nat
      /\ AP!Done => failures' = failures
      /\ AP!Failed => failures' # 0
  BY <1>1, FramingAssumption, AP!Outcome
<1>5. QED BY <1>2, <1>3, <1>4

LEMMA StepInv ==
    ASSUME IInv, [Next]_vars
    PROVE  IInv'
<1>1. TypeOK /\ BlockSizes \subseteq Nat
  BY FramingAssumption DEF IInv, AP!ProcessorAssumption
<1>2. ASSUME NEW n \in BlockSizes, SendAudio(n) PROVE IInv'
  <2>1. n \in Nat /\ pending_render' \in Nat
    BY <1>1, <1>2 DEF SendAudio, TypeOK, AP!TypeOK
  <2>2. QED BY <1>2, <2>1, SendStep DEF SendAudio
<1>3. ASSUME NEW n \in BlockSizes, OnRender(n) PROVE IInv'
  <2>1. n \in Nat
    BY <1>1
  <2>2. /\ UNCHANGED <<samples_per_frame, pending_outgoing, outgoing_packets,
                       writing, errors, track>>
        /\ UNCHANGED <<pending_capture, carry_out, near_end, captured, output>>
        /\ \/ AP!RenderSucceeds(n) /\ AP!Done
           \/ AP!RenderFails(n) /\ AP!Failed
    BY <1>3 DEF OnRender, AP!Render
  <2>3. pending_render' \in Nat /\ ok' \in BOOLEAN /\ failures' \in Nat
        /\ (failures' = failures \/ failures' # 0)
    BY <1>1, <2>1, <2>2, FarEndTyped
  <2>4. QED BY <2>2, <2>3, FarEndStep
<1>4. ASSUME NEW n \in BlockSizes, NEW far_end \in BlockSizes,
             SendAudioWithReference(n, far_end)
      PROVE  IInv'
  <2>1. n \in Nat /\ far_end \in Nat
    BY <1>1
  <2>2. CASE /\ AP!RenderSucceeds(far_end)
             /\ captured' = captured + n
             /\ ProcessOutgoing(AP!Captured(n))
    <3>1. pending_render' \in Nat
      BY <1>1, <2>1, <2>2, FarEndTyped
    <3>2. QED BY <1>4, <2>1, <2>2, <3>1, SendStep DEF SendAudioWithReference
  <2>3. CASE /\ AP!RenderFails(far_end) /\ AP!Failed
             /\ UNCHANGED <<pending_capture, carry_out, near_end, captured, errors,
                            pending_outgoing, outgoing_packets, writing>>
    <3>1. pending_render' \in Nat /\ ok' \in BOOLEAN /\ failures' \in Nat /\ failures' # 0
      BY <1>1, <2>1, <2>3, FarEndTyped
    <3>2. QED BY <1>4, <2>3, <3>1, FarEndStep DEF SendAudioWithReference
  <2>4. QED BY <1>4, <2>2, <2>3 DEF SendAudioWithReference
<1>5. CASE UNCHANGED vars
  <2>1. /\ UNCHANGED <<pending_capture, carry_out, pending_render, near_end, ok,
                       captured, output, failures>>
        /\ UNCHANGED <<samples_per_frame, pending_outgoing, outgoing_packets,
                       writing, errors, track>>
    BY <1>5 DEF vars, processor
  <2>2. pending_render' \in Nat /\ ok' \in BOOLEAN /\ failures' \in Nat
    BY <1>1, <2>1 DEF TypeOK, AP!TypeOK
  <2>3. QED BY <2>1, <2>2, FarEndStep
<1>6. QED BY <1>2, <1>3, <1>4, <1>5, WriteStep, WriteFailsStep, ResetStep DEF Next

LEMMA InvAlways == Spec => []IInv
<1>1. Init => IInv
  BY InitInv
<1>2. IInv /\ [Next]_vars => IInv'
  BY StepInv
<1>3. QED BY <1>1, <1>2, PTL DEF Spec

-----------------------------------------------------------------------------
(* The theorems.                                                            *)

\* Every reachable state of the outgoing path is well typed.
THEOREM TypeCorrect == Spec => []TypeOK
<1>1. IInv => TypeOK
  BY DEF IInv
<1>2. QED BY <1>1, InvAlways, PTL

\* The block is a common multiple of both frames, so whatever the two frames
\* are the processor never buffers samples of its own.
THEOREM ProcessorHoldsNothingAlways == Spec => []ProcessorHoldsNothing
<1>1. IInv => ProcessorHoldsNothing
  BY DEF IInv
<1>2. QED BY <1>1, InvAlways, PTL

\* Between calls less than one block waits, also after a call that failed.
THEOREM HeldBackWithinBlockAlways == Spec => []HeldBackWithinBlock
<1>1. IInv => HeldBackWithinBlock
  BY DEF IInv
<1>2. QED BY <1>1, InvAlways, PTL

LEMMA FrameOf ==
    ASSUME IInv, NEW k \in DOMAIN Packets
    PROVE  /\ Start(Packets[k]) \in 1 .. captured
           /\ Packets[k] = Frame(Start(Packets[k]), samples_per_frame)
           /\ \A i \in 1 .. samples_per_frame :
                 Packets[k][i].number = Start(Packets[k]) + i - 1
<1>1. PICK first : first = Start(Packets[k])
  OBVIOUS
<1>2. first \in 1 .. Taken /\ Packets[k] = Frame(first, samples_per_frame)
  BY <1>1, Zenon DEF IInv, PacketInv, InLine
<1>3. Taken \in Nat /\ Taken <= captured /\ captured \in Nat
  <2>1. captured \in Nat /\ pending_outgoing \in Seq(Nat) /\ Taken \in Nat
    BY TakenTyped DEF IInv, TypeOK, AP!TypeOK
  <2>2. QED BY <2>1, SMT DEF Taken
<1>4. first \in 1 .. captured /\ first \in Nat
  BY <1>2, <1>3, SMT
<1>5. samples_per_frame \in Nat \ {0}
  BY Sizes DEF IInv
<1>6. \A i \in 1 .. samples_per_frame :
         Packets[k][i] = [number |-> first + i - 1, processed |-> TRUE]
  BY <1>2, <1>4, <1>5, FrameSamplesAt
<1>7. \A i \in 1 .. samples_per_frame : Packets[k][i].number = first + i - 1
  <2>1. ASSUME NEW i \in 1 .. samples_per_frame
        PROVE  Packets[k][i].number = first + i - 1
    <3>1. PICK sample : sample = Packets[k][i]
      OBVIOUS
    <3>2. sample = [number |-> first + i - 1, processed |-> TRUE]
      BY <1>6, <3>1
    <3>3. sample.number = first + i - 1
      BY <3>2
    <3>4. QED BY <3>1, <3>3
  <2>2. QED BY <2>1
<1>8. QED BY <1>1, <1>2, <1>4, <1>7

\* Whatever fails, every packet is one frame of consecutive processed samples.
THEOREM WholeFramesAlways == Spec => []WholeFrames
<1>1. ASSUME IInv PROVE WholeFrames
  <2>1. ASSUME NEW k \in DOMAIN Packets
        PROVE  \E first \in 1 .. captured : Packets[k] = Frame(first, samples_per_frame)
    BY <1>1, FrameOf
  <2>2. QED BY <2>1, Zenon DEF WholeFrames, Frame
<1>2. QED BY <1>1, InvAlways, PTL

\* Whatever fails, no sample is sent twice or behind a later one.
THEOREM SentInOrderAlways == Spec => []SentInOrder
<1>1. ASSUME IInv PROVE SentInOrder
  <2>1. ASSUME NEW k \in DOMAIN Packets, NEW l \in DOMAIN Packets, k < l,
               NEW i \in 1 .. samples_per_frame, NEW j \in 1 .. samples_per_frame
        PROVE  Packets[k][i].number < Packets[l][j].number
    <3>1. PICK a \in 1 .. captured : a = Start(Packets[k])
      BY <1>1, FrameOf
    <3>2. PICK b \in 1 .. captured : b = Start(Packets[l])
      BY <1>1, FrameOf
    <3>3. a + samples_per_frame <= b
      BY <1>1, <2>1, <3>1, <3>2, Zenon DEF IInv, PacketInv, InLine
    <3>4. Packets[k][i].number = a + i - 1 /\ Packets[l][j].number = b + j - 1
      BY <1>1, <3>1, <3>2, FrameOf
    <3>5. samples_per_frame \in Nat \ {0} /\ captured \in Nat
      BY <1>1, Sizes DEF IInv, TypeOK, AP!TypeOK
    <3>6. a + i - 1 < b + j - 1
      BY <3>3, <3>5, SMT
    <3>7. QED BY <3>4, <3>6
  <2>2. QED BY <2>1 DEF SentInOrder
<1>2. QED BY <1>1, InvAlways, PTL

\* Until something fails every captured sample is in a packet, or waits.
THEOREM NothingLostAlways == Spec => []NothingLost
<1>1. ASSUME IInv PROVE NothingLost
  <2>1. SUFFICES ASSUME failures = 0 /\ errors = 0
                 PROVE  LET sent == Len(Packets) * samples_per_frame
                        IN  /\ \A k \in DOMAIN Packets :
                                 Packets[k][1].number = (k - 1) * samples_per_frame + 1
                            /\ pending_outgoing = [i \in 1 .. captured - sent |-> sent + i]
    BY DEF NothingLost
  <2>2. /\ Len(Packets) * samples_per_frame = Taken
        /\ \A k \in DOMAIN Packets :
              Packets[k][1].number = (k - 1) * samples_per_frame + 1
    BY <1>1, <2>1, Zenon DEF IInv, LossInv, Complete, Start
  <2>3. captured \in Nat /\ pending_outgoing \in Seq(Nat)
    BY <1>1 DEF IInv, TypeOK, AP!TypeOK
  <2>4. captured - Taken = Len(pending_outgoing)
    BY <2>3, SMT DEF Taken
  <2>5. pending_outgoing = [i \in 1 .. Len(pending_outgoing) |-> Taken + i]
    BY <1>1 DEF IInv, QueueInv
  <2>6. pending_outgoing = [i \in 1 .. captured - Taken |-> Taken + i]
    BY <2>4, <2>5, Zenon
  <2>7. QED BY <2>2, <2>6, Zenon
<1>2. QED BY <1>1, InvAlways, PTL

=============================================================================
