---------------------------- MODULE NeteqHandshake ----------------------------
(***************************************************************************)
(* The NetEq comparison: a Node process (benchmarks/neteq-comparison/      *)
(* neteq_receiver.js) spawns a sender process (run_neteq_sender of         *)
(* examples/neteq_trace_sender.rs) per call, and the two ends of a call    *)
(* talk by lines over the sender's standard input and output:              *)
(*                                                                         *)
(*    sender:    OFFER_READY            READY      SENT                    *)
(*    receiver:              ANSWER_READY      GO        STOP              *)
(*                                                                         *)
(* In load mode the calls of a batch start together: each waits at a gate  *)
(* until all are connected.  A sender that fails, a timeout or an exception *)
(* ends the Node process (a rejected promise nobody handles is fatal), and *)
(* the other senders read the end of their standard input.                 *)
(***************************************************************************)
EXTENDS Integers, Sequences

CONSTANTS
    Modes,          \* those of "load" and "quality" to run
    Concurrency,    \* calls in a batch of load mode
    Repetitions,
    Packets         \* packets of the trace that are not dropped

ASSUME HandshakeAssumption ==
    /\ Concurrency \in Nat \ {0} /\ Repetitions \in Nat \ {0}
    /\ Packets \in Nat

VARIABLES
    mode,
    main,       \* where the Node process is
    batch,      \* the batch it runs
    sender,     \* per call, where the sender process is
    receiver,   \* per call, where runOnce is
    stdin,      \* per call, lines the sender has not read
    stdout,     \* per call, lines the receiver has not taken
    written     \* per call, RTP packets written

vars == <<mode, main, batch, sender, receiver, stdin, stdout, written>>

\* Quality mode is one call after the other, load mode a batch after the other.
BatchSize == IF mode = "load" THEN Concurrency ELSE 1
Calls == 0 .. Repetitions * Concurrency - 1
BatchOf(n) == {k \in Calls : k \div BatchSize = n}
Current == BatchOf(batch)

Alive == main \in {"gate", "calls"}
Measuring(k) == receiver[k] \in {"measuring", "draining"}

\* Only load mode has a gate.
StartOfBatch == IF mode = "load" THEN "gate" ELSE "calls"

Init ==
    /\ mode \in Modes
    /\ main = StartOfBatch /\ batch = 0
    /\ sender = [k \in Calls |-> IF k \in Current THEN "offering" ELSE "none"]
    /\ receiver = [k \in Calls |-> IF k \in Current THEN "offer" ELSE "none"]
    /\ stdin = [k \in Calls |-> <<>>]
    /\ stdout = [k \in Calls |-> <<>>]
    /\ written = [k \in Calls |-> 0]

-----------------------------------------------------------------------------
(* The sender. *)

SenderTo(k, state) == sender' = [sender EXCEPT ![k] = state]
ReceiverTo(k, state) == receiver' = [receiver EXCEPT ![k] = state]

\* What the sender waits for, and what it does once it came.
Expects == [answering |-> "ANSWER_READY", ready |-> "GO", sent |-> "STOP"]
Then == [answering |-> "connecting", ready |-> "sending", sent |-> "closing"]

\* println! fails if nobody is left to read: see SenderFails.
EmitProtocol(k, line, state) ==
    /\ Alive
    /\ stdout' = [stdout EXCEPT ![k] = Append(@, line)]
    /\ SenderTo(k, state)
    /\ UNCHANGED <<mode, main, batch, receiver, stdin, written>>

\* ICE gathering ends or is given up after 5 s; the offer is written either way.
Offer(k) == sender[k] = "offering" /\ EmitProtocol(k, "OFFER_READY", "answering")

Connect(k) == sender[k] = "connecting" /\ EmitProtocol(k, "READY", "ready")

ProtocolLine(k) ==
    /\ sender[k] \in DOMAIN Expects
    /\ stdin[k] # <<>>
    /\ stdin' = [stdin EXCEPT ![k] = Tail(@)]
    /\ SenderTo(k, IF Head(stdin[k]) = Expects[sender[k]] THEN Then[sender[k]]
                   ELSE "failed")
    /\ UNCHANGED <<mode, main, batch, receiver, stdout, written>>

\* The end of the standard input is an empty line, and no expected one is.
EndOfInput(k) ==
    /\ sender[k] \in DOMAIN Expects
    /\ stdin[k] = <<>> /\ ~Alive
    /\ SenderTo(k, "failed")
    /\ UNCHANGED <<mode, main, batch, receiver, stdin, stdout, written>>

WriteRtp(k) ==
    /\ sender[k] = "sending" /\ written[k] < Packets
    /\ written' = [written EXCEPT ![k] = @ + 1]
    /\ UNCHANGED <<mode, main, batch, sender, receiver, stdin, stdout>>

FinishTrace(k) ==
    /\ sender[k] = "sending" /\ written[k] = Packets
    /\ EmitProtocol(k, "SENT", "sent")

\* Not connected within 15 s, connection failed, a write or the close failed.
SenderFails(k) ==
    /\ sender[k] \in {"offering", "connecting", "sending", "closing"}
    /\ SenderTo(k, "failed")
    /\ UNCHANGED <<mode, main, batch, receiver, stdin, stdout, written>>

CloseSender(k) ==
    /\ sender[k] = "closing"
    /\ SenderTo(k, "exited")
    /\ UNCHANGED <<mode, main, batch, receiver, stdin, stdout, written>>

SenderStep(k) ==
    \/ Offer(k) \/ Connect(k) \/ ProtocolLine(k) \/ EndOfInput(k)
    \/ WriteRtp(k) \/ FinishTrace(k) \/ SenderFails(k) \/ CloseSender(k)

-----------------------------------------------------------------------------
(* The Node process: one runOnce per call, and the function that awaits    *)
(* them.                                                                   *)

Crash ==
    /\ main' = "crashed"
    /\ UNCHANGED <<mode, batch, sender, receiver, stdin, stdout, written>>

\* nextLine, and the exception if it is another line.
TakeLine(k, line, state) ==
    /\ Alive /\ stdout[k] # <<>>
    /\ stdout' = [stdout EXCEPT ![k] = Tail(@)]
    /\ IF Head(stdout[k]) = line
       THEN ReceiverTo(k, state) /\ UNCHANGED main
       ELSE main' = "crashed" /\ UNCHANGED receiver

Say(k, line) == stdin' = [stdin EXCEPT ![k] = Append(@, line)]

TakeOffer(k) ==
    /\ receiver[k] = "offer"
    /\ TakeLine(k, "OFFER_READY", "gathering")
    /\ UNCHANGED <<mode, batch, sender, stdin, written>>

Answer(k) ==
    /\ Alive /\ receiver[k] = "gathering"
    /\ ReceiverTo(k, "answered") /\ Say(k, "ANSWER_READY")
    /\ UNCHANGED <<mode, main, batch, sender, stdout, written>>

\* Slip: GO is written before the call waits at the gate.
ArriveSayingGo(k) ==
    /\ receiver[k] = "answered"
    /\ TakeLine(k, "READY", IF mode = "load" THEN "gate" ELSE "measuring")
    /\ Say(k, "GO")
    /\ UNCHANGED <<mode, batch, sender, written>>

\* READY: in load mode the call waits at the gate, in quality mode it starts.
ArriveAtGate(k) ==
    /\ receiver[k] = "answered"
    /\ IF mode = "load"
       THEN TakeLine(k, "READY", "gate") /\ UNCHANGED stdin
       ELSE TakeLine(k, "READY", "measuring") /\ Say(k, "GO")
    /\ UNCHANGED <<mode, batch, sender, written>>

PassGate(k) ==
    /\ main = "calls" /\ receiver[k] = "gate"
    /\ ReceiverTo(k, "measuring") /\ Say(k, "GO")
    /\ UNCHANGED <<mode, main, batch, sender, stdout, written>>

TakeSent(k) ==
    /\ receiver[k] = "measuring"
    /\ TakeLine(k, "SENT", "draining")
    /\ UNCHANGED <<mode, batch, sender, stdin, written>>

\* 300 ms later.
Stop(k) ==
    /\ Alive /\ receiver[k] = "draining"
    /\ ReceiverTo(k, "finishing") /\ Say(k, "STOP")
    /\ UNCHANGED <<mode, main, batch, sender, stdout, written>>

Finish(k) ==
    /\ Alive /\ receiver[k] = "finishing" /\ sender[k] = "exited"
    /\ ReceiverTo(k, "done")
    /\ UNCHANGED <<mode, main, batch, sender, stdin, stdout, written>>

\* ICE gathering times out after 10 s; SDP or statistics calls throw.
ReceiverThrows(k) ==
    /\ Alive /\ receiver[k] \in {"gathering", "draining"}
    /\ Crash

\* Slip: `finished` gets a handler that swallows the rejection until awaited.
SenderLostWhenAwaited(k) ==
    /\ Alive /\ sender[k] = "failed" /\ receiver[k] = "finishing"
    /\ Crash

\* An exit code other than 0 rejects `finished`, awaited or not.
SenderLost(k) ==
    /\ Alive /\ sender[k] = "failed"
    /\ Crash

ReceiverStep(k) ==
    \/ TakeOffer(k) \/ Answer(k) \/ ArriveAtGate(k) \/ PassGate(k)
    \/ TakeSent(k) \/ Stop(k) \/ Finish(k) \/ ReceiverThrows(k)
    \/ SenderLost(k)

\* Slip: the gate counts to one less.
AllButOneReady ==
    \E last \in Current : \A k \in Current \ {last} : receiver[k] = "gate"

\* ready === expected
AllReady == \A k \in Current : receiver[k] = "gate"

ReleaseGate ==
    /\ main = "gate" /\ AllReady
    /\ main' = "calls"
    /\ UNCHANGED <<mode, batch, sender, receiver, stdin, stdout, written>>

AllDone == \A k \in Current : receiver[k] = "done"

\* Spawns the senders of the next batch, or reports.
EndBatch ==
    /\ main = "calls" /\ AllDone
    /\ IF batch + 1 = Repetitions
       THEN /\ main' = "reported"
            /\ UNCHANGED <<batch, sender, receiver>>
       ELSE LET next == BatchOf(batch + 1)
            IN /\ main' = StartOfBatch
               /\ batch' = batch + 1
               /\ sender' = [k \in Calls |->
                    IF k \in next THEN "offering" ELSE sender[k]]
               /\ receiver' = [k \in Calls |->
                    IF k \in next THEN "offer" ELSE receiver[k]]
    /\ UNCHANGED <<mode, stdin, stdout, written>>

\* Too few callbacks or packets: load mode rejects the batch.
RejectBatch ==
    /\ mode = "load" /\ main = "calls" /\ AllDone
    /\ Crash

MainStep == ReleaseGate \/ EndBatch \/ RejectBatch

Next == MainStep \/ \E k \in Calls : SenderStep(k) \/ ReceiverStep(k)

Spec == Init /\ [][Next]_vars

\* Two programs and one event loop that serves whatever is ready.
FairSpec ==
    /\ Spec
    /\ \A k \in Calls : WF_vars(SenderStep(k))
    /\ WF_vars(MainStep \/ \E k \in Calls : ReceiverStep(k))

-----------------------------------------------------------------------------
(* Properties. *)

\* Type correctness; a pipe never holds more than the line its reader is about
\* to expect, so that no end ever finds an unexpected line.
TypeOK ==
    /\ mode \in Modes /\ batch \in 0 .. Repetitions - 1
    /\ main \in {"gate", "calls", "reported", "crashed"}
    /\ \A k \in Calls :
         /\ sender[k] \in {"none", "offering", "answering", "connecting", "ready",
              "sending", "sent", "closing", "exited", "failed"}
         /\ receiver[k] \in {"none", "offer", "gathering", "answered", "gate",
              "measuring", "draining", "finishing", "done"}
         /\ stdin[k] # <<>> => /\ sender[k] \in DOMAIN Expects
                               /\ stdin[k] = <<Expects[sender[k]]>>
         /\ stdout[k] \in {<<>>, <<"OFFER_READY">>, <<"READY">>, <<"SENT">>}
         /\ written[k] \in 0 .. Packets

\* The comparison counts what arrives while it measures (ondata returns early
\* before and after): a packet is written only while its receiver measures, also
\* in a call that waits long at the gate, unless the Node process is gone.
WrittenWhileMeasured ==
    [][\A k \in Calls : written'[k] # written[k] => Measuring(k) \/ ~Alive]_vars

\* The load of a batch is concurrent and alone: a sender writes only when all
\* calls of its batch were connected, and when those of earlier batches ended.
BatchStartsTogether ==
    \A k \in Calls : sender[k] = "sending" =>
        \A other \in Current \cup (0 .. k) :
            IF other \div BatchSize = k \div BatchSize
            THEN receiver[other] \in
                   {"gate", "measuring", "draining", "finishing", "done"}
            ELSE sender[other] = "exited"

\* Whatever fails, and wherever the others wait, the Node process ends and no
\* sender is left behind; a report is written only after all of them succeeded.
EveryoneEnds ==
    <>[](/\ main \in {"reported", "crashed"}
         /\ \A k \in Calls : sender[k] \in {"none", "exited", "failed"}
         /\ main = "reported" => \A k \in Calls : sender[k] # "failed")

=============================================================================
