----------------------------- MODULE Interrupts -----------------------------
(***************************************************************************)
(* The interrupt gate of the kernel: the processor's interrupt flag and the *)
(* counter that push_ints and pop_ints keep in asm_misc.s.  Both routines   *)
(* begin with cli, so nothing comes between their steps: each is one action.*)
(***************************************************************************)
EXTENDS Integers

CONSTANT
    MaxSem        \* bound of the model: the counter is not pushed beyond it

ASSUME MaxSemAssumption == MaxSem \in Nat \ {0}

VARIABLES
    eflags_if,              \* the IF bit of eflags
    interrupts_semaphore    \* "disabled <= 0 < enabled"

gateVars == <<eflags_if, interrupts_semaphore>>

(* Mutant of EnabledBy: the gate opens at zero, jl taken for jle. *)
EnabledAtZero(count) == count >= 0

(* The cmp / jl / sti both routines end with, on the count they stored. *)
EnabledBy(count) == count >= 1

push_ints == /\ interrupts_semaphore < MaxSem
             /\ interrupts_semaphore' = interrupts_semaphore + 1
             /\ eflags_if' = EnabledBy(interrupts_semaphore + 1)

pop_ints == /\ interrupts_semaphore' = interrupts_semaphore - 1
            /\ eflags_if' = EnabledBy(interrupts_semaphore - 1)
=============================================================================
