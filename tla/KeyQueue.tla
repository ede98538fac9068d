------------------------------ MODULE KeyQueue ------------------------------
(***************************************************************************)
(* What the keyboard's buffer promises: a queue in which keys wait in the   *)
(* order of their interrupts, and which is emptied at once by the one that  *)
(* finds it full.  A reader that has looked, and so is sure of a key, still *)
(* has that key's place in use.  It promises nothing once arrivals overlap. *)
(***************************************************************************)
EXTENDS Integers, Sequences

CONSTANTS
    Codes,          \* scancodes
    Size,           \* KEYBOARD_BUFFER_SIZE
    NoCode          \* the reader's hand is empty

VARIABLES
    queue,          \* scancodes that wait
    looked,         \* the reader has seen that there is one
    hand,           \* the one it took
    void            \* the promise no longer holds

qvars == <<queue, looked, hand, void>>

Room == IF looked THEN Size ELSE Size - 1

Init == queue = <<>> /\ looked = FALSE /\ hand = NoCode /\ void = FALSE

Arrive(c) ==
    /\ queue' = IF Len(queue) < Room THEN Append(queue, c)
                ELSE IF looked THEN <<c>> ELSE <<>>
    /\ UNCHANGED <<looked, hand, void>>

Look ==
    /\ queue # <<>> /\ ~looked /\ hand = NoCode
    /\ looked' = TRUE
    /\ UNCHANGED <<queue, hand, void>>

Take ==
    /\ looked /\ queue # <<>>
    /\ hand' = Head(queue) /\ queue' = Tail(queue)
    /\ looked' = FALSE
    /\ UNCHANGED void

Use == hand # NoCode /\ hand' = NoCode /\ UNCHANGED <<queue, looked, void>>

(* Arrivals that overlap: from here on, anything. *)
Break == void'

Next == (\E c \in Codes : Arrive(c)) \/ Look \/ Take \/ Use \/ Break

Spec == Init /\ [][Next]_qvars
=============================================================================
