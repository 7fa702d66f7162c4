------------------------- MODULE NeteqHandshakeProofs -------------------------
(***************************************************************************)
(* Theorems about NeteqHandshake, for every number of calls, repetitions   *)
(* and packets, and every pattern of failures.                             *)
(***************************************************************************)
EXTENDS NeteqHandshake, TLAPS

-----------------------------------------------------------------------------
(* The inductive invariant.                                                *)

At(k, r, s, in, out) ==
    receiver[k] = r /\ sender[k] = s /\ stdin[k] = in /\ stdout[k] = out

Lines == {<<>>, <<"OFFER_READY">>, <<"READY">>, <<"SENT">>}

\* Where the two ends of a call can be together, as long as both are there.
InStep(k) ==
    \/ At(k, "none", "none", <<>>, <<>>)
    \/ At(k, "offer", "offering", <<>>, <<>>)
    \/ At(k, "offer", "answering", <<>>, <<"OFFER_READY">>)
    \/ At(k, "offer", "failed", <<>>, <<>>)
    \/ At(k, "gathering", "answering", <<>>, <<>>)
    \/ At(k, "answered", "answering", <<"ANSWER_READY">>, <<>>)
    \/ At(k, "answered", "connecting", <<>>, <<>>)
    \/ At(k, "answered", "ready", <<>>, <<"READY">>)
    \/ At(k, "answered", "failed", <<>>, <<>>)
    \/ At(k, "gate", "ready", <<>>, <<>>)
    \/ At(k, "measuring", "ready", <<"GO">>, <<>>)
    \/ At(k, "measuring", "sending", <<>>, <<>>)
    \/ At(k, "measuring", "sent", <<>>, <<"SENT">>)
    \/ At(k, "measuring", "failed", <<>>, <<>>)
    \/ At(k, "draining", "sent", <<>>, <<>>)
    \/ At(k, "finishing", "sent", <<"STOP">>, <<>>)
    \/ At(k, "finishing", "closing", <<>>, <<>>)
    \/ At(k, "finishing", "exited", <<>>, <<>>)
    \/ At(k, "finishing", "failed", <<>>, <<>>)
    \/ At(k, "done", "exited", <<>>, <<>>)

\* A sender whose receiver is gone gives up, whatever it last said.
Abandoned(k) ==
    /\ ~Alive
    /\ receiver[k] \in {"offer", "gathering", "answered", "gate", "measuring",
                        "draining", "finishing"}
    /\ sender[k] = "failed" /\ stdin[k] = <<>> /\ stdout[k] \in Lines

Typed ==
    /\ mode \in Modes /\ batch \in 0 .. Repetitions - 1
    /\ main \in {"gate", "calls", "reported", "crashed"}
    /\ DOMAIN sender = Calls /\ DOMAIN receiver = Calls
    /\ DOMAIN stdin = Calls /\ DOMAIN stdout = Calls
    /\ written \in [Calls -> 0 .. Packets]

Waiting == {"offer", "gathering", "answered", "gate"}
Started == {"gate", "measuring", "draining", "finishing", "done"}

\* Batches run one after the other, each call of them over before the next.
BatchOrder ==
    \A k \in Calls :
        /\ k \div BatchSize < batch => receiver[k] = "done"
        /\ k \div BatchSize = batch => receiver[k] # "none"
        /\ k \div BatchSize > batch => receiver[k] = "none"

\* In load mode no call of a batch starts before the last has reached the gate.
GateHolds ==
    /\ main = "gate" => mode = "load"
    /\ mode = "load" =>
         /\ \/ \A k \in Current : receiver[k] \in Waiting
            \/ \A k \in Current : receiver[k] \in Started
         /\ main = "gate" => \A k \in Current : receiver[k] \in Waiting
         /\ main = "calls" => \A k \in Current : receiver[k] \in Started

IInv ==
    /\ Typed
    /\ \A k \in Calls : InStep(k) \/ Abandoned(k)
    /\ BatchOrder
    /\ GateHolds

-----------------------------------------------------------------------------
(* The lines in a pipe.                                                    *)

LEMMA OneLine ==
    ASSUME NEW line
    PROVE  /\ Append(<<>>, line) = <<line>> /\ <<line>> # <<>>
           /\ Head(<<line>>) = line /\ Tail(<<line>>) = <<>>
BY SMT

LEMMA Expected ==
    /\ DOMAIN Expects = {"answering", "ready", "sent"}
    /\ Expects["answering"] = "ANSWER_READY" /\ Then["answering"] = "connecting"
    /\ Expects["ready"] = "GO" /\ Then["ready"] = "sending"
    /\ Expects["sent"] = "STOP" /\ Then["sent"] = "closing"
BY DEF Expects, Then

-----------------------------------------------------------------------------
(* The sender's steps.                                                     *)

Ends(k) == InStep(k) \/ Abandoned(k)

\* Where a call is does not change with the steps of other calls, nor when the
\* Node process ends.
LEMMA EndsKept ==
    ASSUME NEW k, Ends(k), Alive' => Alive,
           receiver'[k] = receiver[k], sender'[k] = sender[k],
           stdin'[k] = stdin[k], stdout'[k] = stdout[k]
    PROVE  Ends(k)'
BY DEF Ends, InStep, Abandoned, At

LEMMA SenderMoves ==
    ASSUME Typed, NEW k \in Calls, Ends(k), SenderStep(k)
    PROVE  Ends(k)'
<1> USE Expected DEF Typed
<1>1. CASE Offer(k)
  BY <1>1, OneLine DEF Offer, EmitProtocol, SenderTo, Ends, InStep, Abandoned, At, Lines
<1>2. CASE Connect(k)
  BY <1>2, OneLine DEF Connect, EmitProtocol, SenderTo, Ends, InStep, Abandoned, At, Lines
<1>3. CASE ProtocolLine(k)
  BY <1>3, OneLine DEF ProtocolLine, SenderTo, Ends, InStep, Abandoned, At, Lines
<1>4. CASE EndOfInput(k)
  BY <1>4, OneLine DEF EndOfInput, SenderTo, Ends, InStep, Abandoned, At, Lines, Alive
<1>5. CASE WriteRtp(k)
  BY <1>5, OneLine DEF WriteRtp, Ends, InStep, Abandoned, At, Alive
<1>6. CASE FinishTrace(k)
  BY <1>6, OneLine DEF FinishTrace, EmitProtocol, SenderTo, Ends, InStep, Abandoned, At
<1>7. CASE SenderFails(k)
  BY <1>7, OneLine DEF SenderFails, SenderTo, Ends, InStep, Abandoned, At
<1>8. CASE CloseSender(k)
  BY <1>8, OneLine DEF CloseSender, SenderTo, Ends, InStep, Abandoned, At
<1>9. QED BY <1>1, <1>2, <1>3, <1>4, <1>5, <1>6, <1>7, <1>8 DEF SenderStep

\* A sender's step concerns its own call, and nothing of the Node process.
LEMMA SenderFrame ==
    ASSUME Typed, NEW k \in Calls, SenderStep(k)
    PROVE  /\ Typed'
           /\ UNCHANGED <<mode, main, batch, receiver>>
           /\ \A other \in Calls \ {k} :
                 /\ sender'[other] = sender[other]
                 /\ stdin'[other] = stdin[other] /\ stdout'[other] = stdout[other]
           /\ written' # written => sender[k] = "sending"
           /\ \A other \in Calls \ {k} : written'[other] = written[other]
<1> USE DEF Typed
<1>1. CASE WriteRtp(k)
  <2>1. written[k] \in 0 .. Packets /\ written[k] < Packets /\ Packets \in Nat
    BY <1>1, HandshakeAssumption DEF WriteRtp, HandshakeAssumption
  <2>2. written[k] + 1 \in 0 .. Packets
    BY <2>1
  <2> QED BY <1>1, <2>2 DEF WriteRtp, Calls, BatchSize
<1>2. CASE ~WriteRtp(k)
  BY <1>2 DEF SenderStep, Offer, Connect, ProtocolLine, EndOfInput, FinishTrace,
              SenderFails, CloseSender, EmitProtocol, SenderTo, Calls, BatchSize
<1> QED BY <1>1, <1>2

LEMMA SenderKeeps ==
    ASSUME IInv, NEW k \in Calls, SenderStep(k)
    PROVE  IInv'
<1>1. /\ Typed' /\ UNCHANGED <<mode, main, batch, receiver>>
      /\ Calls' = Calls /\ Current' = Current /\ BatchSize' = BatchSize /\ Alive' = Alive
  BY SenderFrame DEF IInv, Calls, Current, BatchOf, BatchSize, Alive
<1>2. ASSUME NEW other \in Calls PROVE Ends(other)'
  <2>1. CASE other = k
    BY <2>1, SenderMoves DEF IInv, Ends
  <2>2. CASE other # k
    BY <1>1, <2>2, SenderFrame, EndsKept DEF IInv, Ends
  <2> QED BY <2>1, <2>2
<1>3. BatchOrder' /\ GateHolds'
  BY <1>1 DEF IInv, BatchOrder, GateHolds
<1> QED BY <1>1, <1>2, <1>3 DEF IInv, Ends

-----------------------------------------------------------------------------
(* The receiver's steps.                                                   *)

\* A call's receiver takes the line its sender has written, and no other: it
\* moves on within its half of the batch, or the Node process ends.
LEMMA ReceiverMoves ==
    ASSUME Typed, NEW k \in Calls, Ends(k), ReceiverStep(k)
    PROVE  /\ Ends(k)'
           /\ \/ main' = main
              \/ main' = "crashed" /\ UNCHANGED receiver
           /\ \/ UNCHANGED receiver
              \/ receiver[k] \in {"offer", "gathering"} /\ receiver'[k] \in Waiting \ {"gate"}
              \/ /\ receiver[k] = "answered"
                 /\ receiver'[k] = IF mode = "load" THEN "gate" ELSE "measuring"
              \/ /\ receiver[k] = "gate" /\ receiver'[k] = "measuring"
                 /\ main = "calls"
              \/ /\ receiver[k] \in {"measuring", "draining", "finishing"}
                 /\ receiver'[k] \in Started
<1> USE DEF Typed, Waiting, Started
<1>1. CASE TakeOffer(k)
  BY <1>1, OneLine DEF TakeOffer, TakeLine, ReceiverTo, Ends, InStep, Abandoned, At
<1>2. CASE Answer(k)
  BY <1>2, OneLine DEF Answer, Say, ReceiverTo, Ends, InStep, Abandoned, At
<1>3. CASE ArriveAtGate(k)
  <2>1. At(k, "answered", "ready", <<>>, <<"READY">>)
    BY <1>3 DEF ArriveAtGate, TakeLine, Ends, InStep, Abandoned, At
  <2>2. /\ Head(stdout[k]) = "READY" /\ Tail(stdout[k]) = <<>>
        /\ Append(stdin[k], "GO") = <<"GO">>
    BY <2>1, OneLine DEF At
  <2>3. CASE mode = "load"
    <3>1. At(k, "gate", "ready", <<>>, <<>>)' /\ main' = main
          /\ receiver' = [receiver EXCEPT ![k] = "gate"]
      BY <1>3, <2>1, <2>2, <2>3 DEF ArriveAtGate, TakeLine, ReceiverTo, At
    <3> QED BY <2>1, <2>3, <3>1 DEF Ends, InStep, At
  <2>4. CASE mode # "load"
    <3>1. At(k, "measuring", "ready", <<"GO">>, <<>>)' /\ main' = main
          /\ receiver' = [receiver EXCEPT ![k] = "measuring"]
      BY <1>3, <2>1, <2>2, <2>4 DEF ArriveAtGate, TakeLine, Say, ReceiverTo, At
    <3> QED BY <2>1, <2>4, <3>1 DEF Ends, InStep, At
  <2> QED BY <2>3, <2>4
<1>4. CASE PassGate(k)
  BY <1>4, OneLine DEF PassGate, Say, ReceiverTo, Ends, InStep, Abandoned, At, Alive
<1>5. CASE TakeSent(k)
  BY <1>5, OneLine DEF TakeSent, TakeLine, ReceiverTo, Ends, InStep, Abandoned, At
<1>6. CASE Stop(k)
  BY <1>6, OneLine DEF Stop, Say, ReceiverTo, Ends, InStep, Abandoned, At
<1>7. CASE Finish(k)
  BY <1>7, OneLine DEF Finish, ReceiverTo, Ends, InStep, Abandoned, At
<1>8. CASE ReceiverThrows(k) \/ SenderLost(k)
  <2>1. Crash
    BY <1>8 DEF ReceiverThrows, SenderLost
  <2>2. Ends(k)'
    BY <2>1, EndsKept DEF Crash, Alive
  <2> QED BY <2>1, <2>2 DEF Crash
<1> QED BY <1>1, <1>2, <1>3, <1>4, <1>5, <1>6, <1>7, <1>8 DEF ReceiverStep

LEMMA ReceiverFrame ==
    ASSUME Typed, NEW k \in Calls, ReceiverStep(k)
    PROVE  /\ Typed'
           /\ UNCHANGED <<mode, batch, sender, written>>
           /\ UNCHANGED receiver \/ receiver' = [receiver EXCEPT ![k] = receiver'[k]]
           /\ \A other \in Calls \ {k} :
                 /\ receiver'[other] = receiver[other]
                 /\ stdin'[other] = stdin[other] /\ stdout'[other] = stdout[other]
BY DEF ReceiverStep, TakeOffer, Answer, ArriveAtGate, PassGate, TakeSent, Stop,
       Finish, ReceiverThrows, SenderLost, Crash, TakeLine, ReceiverTo, Say,
       Typed, Calls, BatchSize

LEMMA ReceiverKeeps ==
    ASSUME IInv, NEW k \in Calls, ReceiverStep(k)
    PROVE  IInv'
<1>1. /\ Typed' /\ UNCHANGED <<mode, batch, sender>> /\ k \in Calls'
      /\ Calls' = Calls /\ Current' = Current /\ BatchSize' = BatchSize
      /\ DOMAIN receiver = Calls /\ Current \subseteq Calls
  BY ReceiverFrame DEF IInv, Typed, Calls, Current, BatchOf, BatchSize
<1>2. Alive' => Alive
  <2>1. main' = main \/ main' = "crashed"
    BY ReceiverMoves DEF IInv, Ends
  <2> QED BY <2>1 DEF Alive
<1>3. ASSUME NEW other \in Calls PROVE Ends(other)'
  <2>1. CASE other = k
    BY <2>1, ReceiverMoves DEF IInv, Ends
  <2>2. CASE other # k
    BY <1>1, <1>2, <2>2, ReceiverFrame, EndsKept DEF IInv, Ends
  <2> QED BY <2>1, <2>2
<1>4. CASE UNCHANGED receiver
  <2>1. main' = main \/ main' = "crashed"
    BY ReceiverMoves DEF IInv, Ends
  <2>2. BatchOrder' /\ GateHolds'
    BY <1>1, <1>4, <2>1 DEF IInv, BatchOrder, GateHolds
  <2> QED BY <1>1, <1>3, <2>2 DEF IInv, Ends
<1>5. CASE receiver' # receiver
  <2>1. /\ main' = main
        /\ receiver[k] \notin {"none", "done"} /\ receiver'[k] # "none"
        /\ receiver' = [receiver EXCEPT ![k] = receiver'[k]]
    BY <1>5, ReceiverMoves, ReceiverFrame DEF IInv, Ends, Waiting, Started
  <2>2. k \div BatchSize = batch
    <3>1. BatchSize \in Nat \ {0} /\ k \in Nat /\ batch \in Nat
      BY HandshakeAssumption DEF HandshakeAssumption, BatchSize, Calls, IInv, Typed
    <3>2. k \div BatchSize \in Nat
      BY <3>1
    <3> QED BY <2>1, <3>1, <3>2 DEF IInv, BatchOrder
  <2>3. BatchOrder'
    BY <1>1, <2>1, <2>2 DEF IInv, BatchOrder
  <2>4. k \in Current
    BY <2>2 DEF Current, BatchOf
  <2>5. ASSUME mode = "load"
        PROVE  /\ \/ \A j \in Current : receiver'[j] \in Waiting
                  \/ \A j \in Current : receiver'[j] \in Started
               /\ main = "gate" => \A j \in Current : receiver'[j] \in Waiting
               /\ main = "calls" => \A j \in Current : receiver'[j] \in Started
    <3>1. CASE receiver[k] \in {"offer", "gathering", "answered"}
      <4>1. receiver'[k] \in Waiting
        BY <1>5, <2>5, <3>1, ReceiverMoves DEF IInv, Ends, Waiting
      <4>2. main # "calls" /\ \A j \in Current : receiver[j] \in Waiting
        BY <2>4, <2>5, <3>1 DEF IInv, GateHolds, Started
      <4> QED BY <1>1, <2>1, <4>1, <4>2
    <3>2. CASE receiver[k] \notin {"offer", "gathering", "answered"}
      <4>1. receiver'[k] \in Started /\ (receiver[k] \notin Waiting \/ main = "calls")
        BY <1>5, <2>5, <3>2, ReceiverMoves DEF IInv, Ends, Waiting, Started
      <4>2. main # "gate" /\ \A j \in Current : receiver[j] \in Started
        BY <2>4, <2>5, <4>1 DEF IInv, GateHolds
      <4> QED BY <1>1, <2>1, <4>1, <4>2
    <3> QED BY <3>1, <3>2
  <2>6. GateHolds'
    BY <1>1, <2>1, <2>5 DEF IInv, GateHolds
  <2> QED BY <1>1, <1>3, <2>3, <2>6 DEF IInv, Ends
<1> QED BY <1>4, <1>5

-----------------------------------------------------------------------------
(* The Node process.                                                       *)

\* A call whose turn has not come is at rest, and one that is done is over.
LEMMA AtRest ==
    ASSUME NEW k, Ends(k)
    PROVE  /\ receiver[k] = "none" => At(k, "none", "none", <<>>, <<>>)
           /\ receiver[k] = "done" => At(k, "done", "exited", <<>>, <<>>)
BY DEF Ends, InStep, Abandoned, At

LEMMA MainKeeps ==
    ASSUME IInv, MainStep
    PROVE  IInv'
<1>1. /\ Calls' = Calls /\ BatchSize' = BatchSize /\ mode' = mode
      /\ BatchSize \in Nat \ {0} /\ batch \in Nat
      /\ \A k \in Calls : k \div BatchSize \in Nat
  <2>1. mode' = mode
    BY DEF MainStep, ReleaseGate, EndBatch, RejectBatch, Crash
  <2>2. BatchSize \in Nat \ {0} /\ batch \in Nat /\ \A k \in Calls : k \in Nat
    BY HandshakeAssumption DEF HandshakeAssumption, BatchSize, Calls, IInv, Typed
  <2> QED BY <2>1, <2>2 DEF Calls, BatchSize
<1>2. CASE ReleaseGate \/ RejectBatch
  <2>1. /\ UNCHANGED <<mode, batch, sender, receiver, stdin, stdout, written>>
        /\ Alive' => Alive
        /\ main' \in {"calls", "crashed"}
        /\ main' = "calls" => AllReady
    BY <1>2 DEF ReleaseGate, RejectBatch, Crash, Alive
  <2>2. Typed' /\ BatchOrder' /\ Current' = Current
    BY <1>1, <2>1 DEF IInv, Typed, BatchOrder, Current, BatchOf
  <2>3. GateHolds'
    <3>1. main' = "calls" => \A k \in Current : receiver[k] \in Started
      BY <2>1 DEF AllReady, Started
    <3> QED BY <2>1, <2>2, <3>1 DEF IInv, GateHolds
  <2>4. \A k \in Calls : Ends(k)'
    BY <2>1, EndsKept DEF IInv, Ends
  <2> QED BY <1>1, <2>2, <2>3, <2>4 DEF IInv, Ends
<1>3. CASE EndBatch /\ batch + 1 = Repetitions
  <2>1. /\ main' = "reported" /\ AllDone
        /\ UNCHANGED <<mode, batch, sender, receiver, stdin, stdout, written>>
    BY <1>3 DEF EndBatch
  <2>2. Typed' /\ BatchOrder' /\ Current' = Current
    BY <1>1, <2>1 DEF IInv, Typed, BatchOrder, Current, BatchOf
  <2>3. GateHolds'
    BY <2>1, <2>2 DEF IInv, GateHolds
  <2>4. \A k \in Calls : Ends(k)'
    BY <2>1, EndsKept DEF IInv, Ends, Alive
  <2> QED BY <1>1, <2>2, <2>3, <2>4 DEF IInv, Ends
<1>4. CASE EndBatch /\ batch + 1 # Repetitions
  <2> DEFINE next == BatchOf(batch + 1)
  <2>1. /\ main = "calls" /\ AllDone
        /\ main' = StartOfBatch /\ batch' = batch + 1
        /\ sender' = [k \in Calls |-> IF k \in next THEN "offering" ELSE sender[k]]
        /\ receiver' = [k \in Calls |-> IF k \in next THEN "offer" ELSE receiver[k]]
        /\ UNCHANGED <<stdin, stdout, written>>
    BY <1>4 DEF EndBatch
  <2>2. Typed'
    <3>1. batch + 1 \in 0 .. Repetitions - 1
      BY <1>4, HandshakeAssumption DEF HandshakeAssumption, IInv, Typed
    <3> QED BY <1>1, <2>1, <3>1 DEF IInv, Typed, StartOfBatch
  <2>3. Current' = next /\ next \subseteq Calls
    BY <1>1, <2>1 DEF Current, BatchOf
  <2>4. \A k \in next : receiver[k] = "none"
    BY <1>1 DEF IInv, BatchOrder, BatchOf
  <2>5. BatchOrder'
    <3> SUFFICES ASSUME NEW k \in Calls
                 PROVE  /\ k \div BatchSize < batch + 1 => receiver'[k] = "done"
                        /\ k \div BatchSize = batch + 1 => receiver'[k] # "none"
                        /\ k \div BatchSize > batch + 1 => receiver'[k] = "none"
      BY <1>1, <2>1 DEF BatchOrder
    <3>1. CASE k \div BatchSize < batch + 1
      <4>1. k \notin next /\ (k \div BatchSize < batch \/ k \div BatchSize = batch)
        BY <1>1, <3>1 DEF BatchOf
      <4>2. receiver[k] = "done"
        BY <2>1, <4>1 DEF IInv, BatchOrder, AllDone, Current, BatchOf
      <4> QED BY <1>1, <2>1, <3>1, <4>1, <4>2
    <3>2. CASE k \div BatchSize = batch + 1
      <4>1. k \in next
        BY <3>2 DEF BatchOf
      <4> QED BY <1>1, <2>1, <3>2, <4>1
    <3>3. CASE k \div BatchSize > batch + 1
      <4>1. k \notin next /\ k \div BatchSize > batch
        BY <1>1, <3>3 DEF BatchOf
      <4> QED BY <1>1, <2>1, <3>3, <4>1 DEF IInv, BatchOrder
    <3> QED BY <1>1, <3>1, <3>2, <3>3
  <2>6. GateHolds'
    BY <1>1, <2>1, <2>3 DEF GateHolds, StartOfBatch, Waiting, Started
  <2>7. ASSUME NEW k \in Calls PROVE Ends(k)'
    <3>1. CASE k \in next
      <4>1. At(k, "none", "none", <<>>, <<>>)
        BY <2>4, <3>1, AtRest DEF IInv, Ends
      <4>2. At(k, "offer", "offering", <<>>, <<>>)'
        BY <2>1, <3>1, <4>1 DEF At
      <4> QED BY <4>2 DEF Ends, InStep
    <3>2. CASE k \notin next
      BY <2>1, <3>2, EndsKept DEF IInv, Ends, Alive
    <3> QED BY <3>1, <3>2
  <2> QED BY <1>1, <2>2, <2>5, <2>6, <2>7 DEF IInv, Ends
<1> QED BY <1>2, <1>3, <1>4 DEF MainStep

-----------------------------------------------------------------------------
(* The theorems.                                                           *)

LEMMA InitInv == Init => IInv
<1> SUFFICES ASSUME Init PROVE IInv
  OBVIOUS
<1>1. Typed
  <2>1. 0 \in 0 .. Repetitions - 1 /\ 0 \in 0 .. Packets
    BY HandshakeAssumption DEF HandshakeAssumption
  <2> QED BY <2>1 DEF Init, Typed, StartOfBatch
<1>2. \A k \in Calls : Ends(k)
  BY DEF Init, Ends, InStep, At
<1>3. /\ BatchSize \in Nat \ {0} /\ batch = 0
      /\ \A k \in Calls : k \div BatchSize \in Nat
  <2>1. BatchSize \in Nat \ {0} /\ \A k \in Calls : k \in Nat
    BY HandshakeAssumption DEF HandshakeAssumption, BatchSize, Calls
  <2> QED BY <2>1 DEF Init
<1>4. BatchOrder
  BY <1>3 DEF Init, BatchOrder, Current, BatchOf
<1>5. GateHolds
  BY <1>3 DEF Init, GateHolds, StartOfBatch, Current, BatchOf, Waiting
<1> QED BY <1>1, <1>2, <1>4, <1>5 DEF IInv, Ends

LEMMA StepInv == IInv /\ [Next]_vars => IInv'
<1> SUFFICES ASSUME IInv, [Next]_vars PROVE IInv'
  OBVIOUS
<1>1. CASE UNCHANGED vars
  <2>1. /\ UNCHANGED <<mode, main, batch, sender, receiver, stdin, stdout, written>>
        /\ Calls' = Calls /\ Current' = Current /\ BatchSize' = BatchSize
    BY <1>1 DEF vars, Calls, Current, BatchOf, BatchSize
  <2>2. \A k \in Calls : Ends(k)'
    BY <2>1, EndsKept DEF IInv, Ends, Alive
  <2> QED BY <2>1, <2>2 DEF IInv, Ends, Typed, BatchOrder, GateHolds
<1> QED BY <1>1, MainKeeps, SenderKeeps, ReceiverKeeps DEF Next

LEMMA InvAlways == Spec => []IInv
BY InitInv, StepInv, PTL DEF Spec

\* Every reachable state is well typed, and neither end ever finds a line in
\* its pipe that it does not expect.
THEOREM TypeCorrect == Spec => []TypeOK
<1>1. IInv => TypeOK
  <2> SUFFICES ASSUME IInv PROVE TypeOK
    OBVIOUS
  <2>1. ASSUME NEW k \in Calls
        PROVE  /\ sender[k] \in {"none", "offering", "answering", "connecting", "ready",
                    "sending", "sent", "closing", "exited", "failed"}
               /\ receiver[k] \in {"none", "offer", "gathering", "answered", "gate",
                    "measuring", "draining", "finishing", "done"}
               /\ stdin[k] # <<>> => /\ sender[k] \in DOMAIN Expects
                                     /\ stdin[k] = <<Expects[sender[k]]>>
               /\ stdout[k] \in {<<>>, <<"OFFER_READY">>, <<"READY">>, <<"SENT">>}
    <3>1. CASE InStep(k)
      BY <3>1, Expected DEF InStep, At
    <3>2. CASE Abandoned(k)
      BY <3>2 DEF Abandoned, Lines
    <3> QED BY <3>1, <3>2 DEF IInv
  <2> QED BY <2>1 DEF IInv, Typed, TypeOK
<1> QED BY <1>1, InvAlways, PTL

\* A sender that writes is measured, or its receiver is gone.
LEMMA SendingMeasured ==
    ASSUME NEW k, Ends(k), sender[k] = "sending"
    PROVE  receiver[k] = "measuring"
BY DEF Ends, InStep, Abandoned, At

\* A packet is written only while the receiver of its call measures.
THEOREM WrittenOnlyWhileMeasured == Spec => WrittenWhileMeasured
<1> DEFINE Counted == \A k \in Calls : written'[k] # written[k] => Measuring(k) \/ ~Alive
<1>1. IInv /\ [Next]_vars => Counted
  <2> SUFFICES ASSUME IInv, [Next]_vars, NEW k \in Calls, written'[k] # written[k]
               PROVE  Measuring(k)
    OBVIOUS
  <2>1. PICK other \in Calls : SenderStep(other)
    BY ReceiverFrame DEF Next, vars, MainStep, ReleaseGate, EndBatch, RejectBatch, Crash, IInv
  <2>2. other = k /\ sender[k] = "sending"
    BY <2>1, SenderFrame DEF IInv
  <2> QED BY <2>2, SendingMeasured DEF IInv, Ends, Measuring
<1> QED BY <1>1, InvAlways, PTL DEF Spec, WrittenWhileMeasured

\* Calls are numbered batch by batch.
LEMMA BatchesInOrder ==
    ASSUME NEW size \in Nat \ {0}, NEW k \in Nat, NEW other \in 0 .. k
    PROVE  other \div size <= k \div size
<1> DEFINE q == k \div size
           r == other \div size
<1>1. /\ q \in Int /\ r \in Int
      /\ size * q <= k /\ k < size * (q + 1)
      /\ size * r <= other /\ other < size * (r + 1)
  BY SMT
<1> HIDE DEF q, r
<1>2. ASSUME q + 1 <= r PROVE FALSE
  <2>1. size * (q + 1) <= size * r
    BY <1>1, <1>2, SMT
  <2> QED BY <1>1, <2>1, SMT
<1>3. r <= q
  BY <1>1, <1>2, SMT
<1> QED BY <1>3 DEF q, r

\* A sender writes only when every call of its batch has been connected, and
\* every call before its batch has ended.
THEOREM BatchStartsTogetherAlways == Spec => []BatchStartsTogether
<1>1. IInv => BatchStartsTogether
  <2> SUFFICES ASSUME IInv, NEW k \in Calls, sender[k] = "sending",
                      NEW other \in Current \cup (0 .. k)
               PROVE  IF other \div BatchSize = k \div BatchSize
                      THEN receiver[other] \in
                             {"gate", "measuring", "draining", "finishing", "done"}
                      ELSE sender[other] = "exited"
    BY DEF BatchStartsTogether
  <2>1. /\ BatchSize \in Nat \ {0} /\ batch \in Nat /\ k \in Nat
        /\ 0 .. k \subseteq Calls /\ Current \subseteq Calls
    BY HandshakeAssumption DEF HandshakeAssumption, BatchSize, Calls, Current, BatchOf,
                               IInv, Typed
  <2>2. receiver[k] = "measuring"
    BY SendingMeasured DEF IInv, Ends
  <2>3. k \div BatchSize = batch /\ k \in Current
    <3>1. k \div BatchSize \in Nat
      BY <2>1
    <3> QED BY <2>1, <2>2, <3>1 DEF IInv, BatchOrder, Current, BatchOf
  <2>4. CASE other \div BatchSize = k \div BatchSize
    <3>1. other \in Current
      BY <2>1, <2>3, <2>4 DEF Current, BatchOf
    <3>2. CASE mode = "load"
      <4>1. receiver[other] \in Started
        BY <2>2, <2>3, <3>1, <3>2 DEF IInv, GateHolds, Waiting, Started
      <4> QED BY <2>4, <4>1 DEF Started
    <3>3. CASE mode # "load"
      <4>1. other = k
        <5>1. BatchSize = 1 /\ other \in Nat
          BY <2>1, <3>1, <3>3 DEF BatchSize, Calls
        <5> QED BY <2>1, <2>4, <5>1
      <4> QED BY <2>2, <4>1, <2>4
    <3> QED BY <2>4, <3>2, <3>3
  <2>5. CASE other \div BatchSize # k \div BatchSize
    <3>1. other \notin Current
      BY <2>3, <2>5 DEF Current, BatchOf
    <3>2. other \div BatchSize <= k \div BatchSize /\ other \div BatchSize \in Int
      BY <2>1, <3>1, BatchesInOrder
    <3>3. receiver[other] = "done"
      BY <2>1, <2>3, <2>5, <3>1, <3>2 DEF IInv, BatchOrder
    <3>4. sender[other] = "exited"
      BY <2>1, <3>1, <3>3, AtRest DEF IInv, Ends, At
    <3> QED BY <2>5, <3>4
  <2> QED BY <2>4, <2>5
<1> QED BY <1>1, InvAlways, PTL

=============================================================================
