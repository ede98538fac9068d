---------------------------- MODULE SchedulerSpec ---------------------------
(***************************************************************************)
(* What the scheduler promises the tasks, without stacks, locks, interrupts *)
(* or a run queue: one task runs; a task that asked to sleep is not run     *)
(* before its time; the idle task runs only while all the others sleep.     *)
(***************************************************************************)
EXTENDS Naturals

CONSTANTS Tasks, Idle, Ticks    \* Ticks: what a task may ask to sleep

VARIABLES
    running,        \* the task in hand
    listed,         \* the tasks that exist and were not killed
    asleep,         \* those of them that wait for a time
    remaining       \* remaining[t]: ticks until t's time

vars == <<running, listed, asleep, remaining>>

Init ==
    /\ listed \subseteq Tasks \ {Idle} /\ running \in listed
    /\ asleep = {} /\ remaining = [t \in Tasks |-> 0]

Spawn(t) == /\ t \notin listed \cup {Idle}
            /\ listed' = listed \cup {t}
            /\ UNCHANGED <<running, asleep, remaining>>

Retire(t) == /\ t \in listed \ {running}
             /\ listed' = listed \ {t}
             /\ UNCHANGED <<running, remaining>>
             /\ asleep' \subseteq asleep /\ asleep \ asleep' \subseteq {t}

Doze(n) == /\ running # Idle
           /\ asleep' = asleep \cup {running}
           /\ remaining' = [remaining EXCEPT ![running] = n]
           /\ UNCHANGED <<running, listed>>

PassTime == /\ remaining' = [t \in Tasks |-> IF remaining[t] = 0 THEN 0
                                             ELSE remaining[t] - 1]
            /\ UNCHANGED <<running, listed, asleep>>

Runnable(t) == t \notin asleep \/ remaining[t] = 0

Dispatch(t) == /\ t \in listed /\ Runnable(t)
               /\ running' = t
               /\ asleep' = asleep \ {t}
               /\ UNCHANGED <<listed, remaining>>

Rest == /\ listed \subseteq asleep
        /\ running' = Idle
        /\ UNCHANGED <<listed, asleep, remaining>>

Next == \/ \E t \in Tasks : Spawn(t) \/ Retire(t) \/ Dispatch(t)
        \/ \E n \in Ticks : Doze(n)
        \/ PassTime \/ Rest

Spec == Init /\ [][Next]_vars

(* A task that may run does run, or is killed first. *)
Served == \A t \in Tasks :
    t \in listed /\ Runnable(t) ~> running = t \/ t \notin listed

(* A task that sleeps wakes up, or is killed first. *)
Woken == \A t \in Tasks :
    t \in asleep ~> t \notin asleep \/ t \notin listed
=============================================================================
