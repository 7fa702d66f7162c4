--------------------------- MODULE PlayoutSchedule ---------------------------
(***************************************************************************)
(* What a jitter buffer promises its decoder, without saying when packets  *)
(* are due or how many fit: once playout starts, the slots of the stream   *)
(* are emitted one by one in order, each exactly once, as a real frame or  *)
(* as a concealed one.  Only a slot whose packet is not held is concealed, *)
(* and the packet of the slot at the cursor is never given up.             *)
(***************************************************************************)
EXTENDS Integers, Sequences

VARIABLES
    phase,      \* "idle", "priming" (nothing emitted yet) or "playing"
    cursor,     \* the slot to emit next
    held,       \* slots whose packet is held
    owed,       \* slots whose packet was given up but that are still due
    emitted     \* history: the slots emitted, with what became of each

vars == <<phase, cursor, held, owed, emitted>>

Init == /\ phase = "idle" /\ cursor = 0
        /\ held = {} /\ owed = {} /\ emitted = <<>>

\* A packet is taken into its slot; one other than the cursor's may be given up.
Take(slot) ==
    \/ held' = held \cup {slot} /\ UNCHANGED owed
    \/ \E lost \in (held \cup {slot}) \ {cursor'} :
         /\ held' = (held \cup {slot}) \ {lost}
         /\ owed' = owed \cup {lost}

Open(slot) ==
    /\ phase = "idle" /\ phase' = "priming"
    /\ cursor' = slot
    /\ Take(slot)
    /\ UNCHANGED emitted

\* Until the first slot is emitted the stream may turn out to begin earlier.
Prepend(slot) ==
    /\ phase = "priming" /\ slot < cursor
    /\ cursor' = slot
    /\ Take(slot)
    /\ UNCHANGED <<phase, emitted>>

Accept(slot) ==
    /\ phase # "idle"
    /\ slot >= cursor /\ slot \notin held \cup owed
    /\ UNCHANGED cursor
    /\ Take(slot)
    /\ UNCHANGED <<phase, emitted>>

Emit(fate) ==
    /\ emitted' = Append(emitted, [slot |-> cursor, fate |-> fate])
    /\ cursor' = cursor + 1
    /\ phase' = "playing"

Play ==
    /\ cursor \in held
    /\ Emit("played")
    /\ held' = held \ {cursor} /\ UNCHANGED owed

\* A slot is concealed only if a later one, or its own given-up packet, shows
\* that the sender filled it; silence is not loss.
Conceal ==
    /\ cursor \notin held /\ held \cup owed # {}
    /\ Emit("concealed")
    /\ owed' = owed \ {cursor} /\ UNCHANGED held

Reset == /\ phase' = "idle" /\ cursor' = 0
         /\ held' = {} /\ owed' = {} /\ emitted' = <<>>

\* (A slot that is taken is held or owed afterwards.)
Next == \/ \E slot \in held' \cup owed' :
              Open(slot) \/ Prepend(slot) \/ Accept(slot)
        \/ Play \/ Conceal
        \/ Reset

Spec == Init /\ [][Next]_vars

\* What is held or owed does not wait for ever.
FairSpec == Spec /\ WF_vars(Play \/ Conceal)

=============================================================================
