-------------------------- MODULE SchedulerGateProofs -----------------------
(***************************************************************************)
(* Theorems about Scheduler that need the gate: what moves the count of     *)
(* push_ints and pop_ints summed over all stacks; that every task that is   *)
(* listed can be switched to and SchedulerSpec's promise is kept as long as *)
(* no tick comes in the middle of a switch, which none does before idle is  *)
(* first chosen; and that the count is regular as long as none of the four  *)
(* kinds of step is taken that upset it or the flag that goes with it.      *)
(***************************************************************************)
EXTENDS SchedulerListProofs

(* An exception handler that kills, an interrupt within an interrupt, the
   switch to idle, and the first switch to a stack whose flags word has IF
   set. *)
Steady ==
    /\ ~FaultKill
    /\ ~(TimerInterrupt /\ Top.irq)
    /\ ~(current # Idle /\ current' = Idle)
    /\ ~(cpu' # cpu /\ frame[cpu'].fl)

(* From the end of select_next to the exchange of the stacks. *)
Window == {"unlock", "load", "swap"}

(* No tick comes in between: its yield would save this stack for the task
   that has been chosen, and for which it is not yet exchanged. *)
Calm == ~(TimerInterrupt /\ Top.at \in Window)

(* No task kills itself, nor does an exception of its: yield would switch
   from a structure that is freed. *)
NoSuicide == ~KillMe /\ ~KillOwnId /\ ~FaultKill
-----------------------------------------------------------------------------
(* What the place of a frame has to do with its call. *)
Proper(f) ==
    /\ f.at \in {"pop", "lock"} => f.op \in {"yield", "new", "kill", "exit", "dump"}
    /\ f.at = "unlist" => f.op \in {"kill", "exit"}
    /\ f.at \in {"heap_lock", "heap"} => f.op \in {"heap", "new", "kill", "exit"} /\ ~f.irq
    /\ f.op = "heap" => f.at \in {"heap_lock", "heap"}
    /\ f.op = "new" => f.at \in {"pop", "heap_lock", "heap", "lock", "link", "leave", "push"}
    /\ f.irq => f.op \in {"none", "yield", "idle"} /\ f.at # "run"
    /\ f.at \in {"undo", "exit", "iret", "tick", "run"} => f.op = "none"

Improper == {f \in Frame : ~Proper(f)}
AllProper == Sites(Improper) = {}

(* A step brings no frame of P to where there was none. *)
LEMMA SitesFewer ==
    ASSUME TypeOK, Shape, Next, NEW P,
           Onward /\ Top' \in P => Top \in P,
           TimerInterrupt => Top' \notin P,
           Iret => Top \notin P,
           \A flag \in BOOLEAN : FreshFrame(flag) \notin P,
           HeapDone /\ Top.at = "heap" /\ Top.op = "new" /\ Moved("lock") \in P => Top \in P,
           \A to : Top.at = "swap" /\ SwapsTo(to) => frame'[cpu] \notin P
    PROVE  Sites(P)' \subseteq Sites(P)
<1>1. CASE Still
  BY <1>1, SitesStill
<1>2. CASE Onward
  <2>1. CASE Top' \in P
    <3>1. Sites(P)' = Sites(P) \cup {Here}
      BY <1>2, <2>1, SitesGained DEF Onward
    <3>2. Here \in Sites(P)
      BY <1>2, <2>1, HereIs
    <3> QED
      BY <3>1, <3>2
  <2>2. CASE Top' \notin P
    <3>1. Sites(P)' = Sites(P) \ {Here}
      BY <1>2, <2>2, SitesLost DEF Onward
    <3> QED
      BY <3>1
  <2> QED
    BY <2>1, <2>2
<1>3. CASE TimerInterrupt
  BY <1>3, SitesPushed
<1>4. CASE Iret
  BY <1>4, SitesPopped
<1>5. CASE HeapDone /\ Top.at = "heap" /\ Top.op = "new" /\ Top.arg \in Tasks /\ Makes(Top.arg)
  <2>1. PICK flag \in StaleFlags :
           frame' = [frame EXCEPT ![Top.arg] = FreshFrame(flag), ![cpu] = Moved("lock")]
    BY <1>5 DEF Makes
  <2>2. FreshFrame(flag) \notin P /\ (Moved("lock") \in P => Top \in P) /\ under' = under
    BY <1>5, ChoiceAssumption DEF Makes
  <2>3. \A t \in Tasks : frame'[t] \in P => frame[t] \in P
    BY <2>1, <2>2 DEF TypeOK, Top
  <2>4. \A t \in Tasks : Depth(t)' = Depth(t) /\ Spots(t)' = Spots(t)
    BY <2>2 DEF Depth, Spots
  <2>5. \A t \in Tasks : \A k : FrameAt(t, k)' \in P => FrameAt(t, k) \in P
    BY <2>2, <2>3, <2>4 DEF FrameAt
  <2> QED
    BY <2>4, <2>5 DEF Sites
<1>6. CASE SwapStacks /\ Top.at = "swap" /\ SwapsTo(Top.esp)
  <2>1. SetTop(frame'[cpu]) /\ under' = under /\ frame'[cpu] \notin P
    BY <1>6 DEF SwapsTo, SetTop
  <2>2. Sites(P)' = Sites(P) \ {Here}
    BY <2>1, SitesLost
  <2> QED
    BY <2>2
<1> QED
  BY <1>1, <1>2, <1>3, <1>4, <1>5, <1>6, NextSteps

LEMMA ProperIs ==
    ASSUME TypeOK, AllProper
    PROVE  /\ Proper(Top)
           /\ \A t \in Tasks : Proper(frame[t]) /\ \A i \in 1..Len(under[t]) : Proper(under[t][i])
<1>1. ASSUME NEW t \in Tasks, NEW k \in Spots(t) PROVE Proper(FrameAt(t, k))
  <2>1. k \in Nat \ {0} /\ FrameAt(t, k) \in Frame
    BY Stacks
  <2>2. <<t, k>> \notin Sites(Improper)
    BY DEF AllProper
  <2> QED
    BY <2>1, <2>2 DEF Sites, Improper
<1>2. ASSUME NEW t \in Tasks PROVE Proper(frame[t])
  BY <1>1, Stacks
<1>3. ASSUME NEW t \in Tasks, NEW i \in 1..Len(under[t]) PROVE Proper(under[t][i])
  <2>1. Len(under[t]) \in Nat /\ Depth(t) = Len(under[t]) + 1
    BY Stacks DEF Depth
  <2>2. Depth(t) - i \in Spots(t) /\ Depth(t) - i # Depth(t) /\ Depth(t) - (Depth(t) - i) = i
    BY <2>1 DEF Spots
  <2>3. FrameAt(t, Depth(t) - i) = under[t][i]
    BY <2>2 DEF FrameAt
  <2> QED
    BY <1>1, <2>2, <2>3
<1>4. Proper(Top)
  BY <1>2 DEF Top, TypeOK
<1> QED
  BY <1>2, <1>3, <1>4

LEMMA TopProper ==
    ASSUME TypeOK, Shape, Next, Onward, Proper(Top), Wellformed(Top)
    PROVE  Proper(Top')
<1> USE DEF Passes, Returns, Starts
<1>1. CASE TaskCall
  <2>1. CASE Sleep \/ Yield \/ Dump \/ KillMe \/ FaultKill \/ KillTask \/ KillOwnId \/ NewTask \/ UseHeap
    BY <2>1, CallSteps DEF Yield, Dump, KillMe, KillTask, KillOwnId, Proper
  <2>2. CASE KillKernel \/ FaultPanic
    BY <2>2, CallSteps, SitesStill
  <2> QED
    BY <1>1, <2>1, <2>2 DEF TaskCall
<1>2. CASE Tick
  BY <1>2, InterruptSteps DEF Proper, Wellformed
<1>3. CASE UndoCount \/ ExitInterrupt
  BY <1>3, InterruptSteps DEF Proper, Wellformed
<1>4. CASE PopInts
  BY <1>4, LockSteps DEF Proper
<1>5. CASE LockSched
  BY <1>5, LockSteps DEF Proper, UnderLock
<1>6. CASE LockHeap
  BY <1>6, LockSteps DEF Proper
<1>7. CASE Leave
  BY <1>7, LockSteps DEF Proper
<1>8. CASE PushInts \/ Resume
  BY <1>8, LockSteps, SwitchSteps DEF Proper
<1>9. CASE HeapDone
  <2>1. CASE Top.op = "new" /\ Makes(Top.arg)
    <3>1. Top' = Moved("lock")
      BY <2>1 DEF Makes, Top, TypeOK
    <3> QED
      BY <1>9, <2>1, <3>1, MovedFields, MovedIrq, HeapSteps DEF Proper
  <2>2. CASE ~(Top.op = "new" /\ Makes(Top.arg))
    BY <1>9, <2>2, HeapSteps DEF Proper
  <2> QED
    BY <2>1, <2>2
<1>10. CASE LinkTask \/ UnlistOther
  BY <1>10, ListSteps DEF Proper, Wellformed
<1>11. CASE UnlistCurrent
  <2>1. CASE Still
    BY <2>1, SitesStill
  <2> QED
    BY <1>11, <2>1, ListSteps DEF Proper, Wellformed
<1>12. CASE SelectNext
  BY <1>12, ListSteps DEF Proper, Wellformed, Switches
<1>13. CASE ReleaseToSwitch \/ LoadEsp
  BY <1>13, SwitchSteps DEF Proper, Wellformed
<1>14. CASE SwapStacks
  <2>1. Still
    BY <1>14, SwitchSteps DEF SwapsTo, Onward
  <2> QED
    BY <2>1, SitesStill
<1>15. CASE TimerInterrupt
  BY <1>15, Pushed DEF At, Proper
<1>16. ~Iret
  <2>1. Iret => Depth(cpu)' = Depth(cpu) - 1 /\ Depth(cpu) \in Nat
    BY Popped, Stacks DEF TypeOK
  <2>2. Depth(cpu)' = Depth(cpu)
    BY DEF Onward, Depth
  <2> QED
    BY <2>1, <2>2
<1> QED
  BY <1>1, <1>2, <1>3, <1>4, <1>5, <1>6, <1>7, <1>8, <1>9, <1>10, <1>11, <1>12, <1>13, <1>14,
     <1>15, <1>16 DEF Next, KernelStep

LEMMA InitProper == Init => AllProper
<1> SUFFICES ASSUME Init PROVE AllProper
  OBVIOUS
<1>1. \A t \in Tasks : Proper(frame[t])
  BY DEF Init, FreshFrame, At, Proper
<1>2. \A t \in Tasks : Depth(t) = 1 /\ Spots(t) = {1}
  <2>1. \A t \in Tasks : Len(under[t]) = 0
    BY EmptySeq DEF Init
  <2> QED
    BY <2>1 DEF Spots, Depth
<1>3. \A t \in Tasks : \A k \in Spots(t) : Proper(FrameAt(t, k))
  BY <1>1, <1>2 DEF FrameAt
<1> QED
  BY <1>3 DEF Sites, Improper, AllProper

LEMMA NextProper == ASSUME TypeOK, Shape, AllProper, [Next]_vars PROVE AllProper'
<1>1. CASE UNCHANGED vars
  BY <1>1, SitesStill DEF vars, Still, AllProper
<1>2. CASE Next
  <2>1. Proper(Top) /\ Wellformed(Top)
    BY ProperIs, TopShape
  <2>2. Onward => Top' \notin Improper
    BY <1>2, <2>1, TopProper DEF Improper
  <2>3. TimerInterrupt => Top' \notin Improper
    BY Pushed DEF At, Improper, Proper
  <2>4. \A flag \in BOOLEAN : FreshFrame(flag) \notin Improper
    BY DEF FreshFrame, At, Improper, Proper
  <2>5. Top.at = "heap" /\ Top.op = "new" => Moved("lock") \notin Improper
    BY <2>1, MovedFields, MovedIrq DEF Improper, Proper
  <2>6. \A to : Top.at = "swap" /\ SwapsTo(to) => frame'[cpu] \notin Improper
    BY <2>1 DEF SwapsTo, Improper, Proper, Wellformed
  <2>7. Top \notin Improper
    BY <2>1 DEF Improper
  <2> QED
    BY <1>2, <2>2, <2>3, <2>4, <2>5, <2>6, <2>7, SitesFewer DEF AllProper
<1> QED
  BY <1>1, <1>2
-----------------------------------------------------------------------------
(* The stacks, the count and the flag while the gate is steady. *)

(* Code that can be interrupted: outside the kernel, before its pop_ints, or
   in an allocation that the shell asked for. *)
Open(f) == ~f.irq /\ (f.at \in {"run", "pop"} \/ f.op = "heap")

(* At most one interrupt is on a stack, above code that can be interrupted. *)
Flat ==
    \A t \in Tasks :
        \/ Len(under[t]) = 0 /\ ~frame[t].irq
        \/ Len(under[t]) = 1 /\ frame[t].irq /\ Open(under[t][1])

(* The stacks that are not in use wait for the end of a switch, or have not
   been made yet. *)
Dormant == \A t \in Tasks : t # cpu => frame[t].at \in {"run", "resume"} /\ frame[t].op # "idle"

(* What the count is at each place: one outside the kernel, zero inside. *)
Regular(f) == f.at \in {"run", "pop", "undo", "iret"} \/ f.op = "heap"

Gate ==
    /\ Top.op # "idle"
    /\ interrupts_semaphore = IF Regular(Top) THEN 1 ELSE 0
    /\ Top.at \in {"run", "undo", "iret"} \/ Top.op = "heap" => eflags_if
    /\ Top.at = "pop" => (eflags_if <=> ~Top.irq)
    /\ Top.at \notin {"run", "pop", "undo", "exit", "iret"} /\ Top.op # "heap" => ~eflags_if

LEMMA OnlyRunning == Next => mode = "run"
<1>1. TaskCall => mode = "run"
  <2>1. \A call : InCall(call) => mode = "run"
    BY DEF InCall, Is
  <2> QED
    BY <2>1, Zenon DEF TaskCall, Sleep, Yield, Dump, NewTask, KillMe, KillTask, KillOwnId,
                       KillKernel, UseHeap, FaultKill, FaultPanic, Call
<1>2. KernelStep => mode = "run"
  BY DEF KernelStep, Tick, UndoCount, ExitInterrupt, Iret, PopInts, LockSched, LockHeap, HeapDone,
         LinkTask, UnlistCurrent, UnlistOther, SelectNext, ReleaseToSwitch, LoadEsp, SwapStacks,
         Resume, Leave, PushInts, Is
<1> QED
  BY <1>1, <1>2 DEF Next, TimerInterrupt

(* Idle is left to the branch that the gate does not survive. *)
LEMMA SteadySelect ==
    ASSUME TypeOK, ListSound, SelectNext, current' # Idle \/ current = Idle
    PROVE  /\ Top.at = "select" /\ tasks' = Ring
           /\ \/ /\ Passes("leave") /\ current' = current
              \/ /\ Switches("yield") /\ current' # current /\ current' \in Range(tasks)
<1>1. Range(Ring) = Range(tasks)
  BY RotatedIs DEF TypeOK, Ring
<1>2. \A i \in ReadyAt : Ring[i] \in Range(Ring)
  BY DEF ReadyAt, Range
<1> QED
  BY <1>1, <1>2, ListSteps

(* The two routines at the counts of a steady gate. *)
LEMMA GateMoves ==
    /\ interrupts_semaphore = 0 /\ push_ints => interrupts_semaphore' = 1 /\ eflags_if'
    /\ interrupts_semaphore = 1 /\ pop_ints => interrupts_semaphore' = 0 /\ ~eflags_if'
<1>1. interrupts_semaphore = 0 /\ push_ints => interrupts_semaphore' = 1
  BY DEF push_ints
<1>2. interrupts_semaphore = 0 => EnabledBy(interrupts_semaphore + 1)
  BY DEF EnabledBy
<1>3. interrupts_semaphore = 1 /\ pop_ints => interrupts_semaphore' = 0
  BY DEF pop_ints
<1>4. interrupts_semaphore = 1 => ~EnabledBy(interrupts_semaphore - 1)
  BY DEF EnabledBy
<1> QED
  BY <1>1, <1>2, <1>3, <1>4, Zenon DEF push_ints, pop_ints

LEMMA NextGate ==
    ASSUME TypeOK, Shape, AllProper, ListSound, Flat, Dormant, Gate, Next, Steady, mode' = "run"
    PROVE  Gate'
<1> USE DEF Passes, Returns, Starts, Regular, gateVars
<1>1. Proper(Top) /\ Wellformed(Top) /\ interrupts_semaphore \in Int /\ cpu \in Tasks
  BY ProperIs, TopShape DEF TypeOK
<1>2. CASE TaskCall
  <2>1. ~KillKernel /\ ~FaultPanic
    BY CallSteps
  <2>2. UNCHANGED gateVars /\ Top.at = "run"
    BY <1>2, <2>1, CallSteps
    DEF Steady, TaskCall, Sleep, Yield, Dump, NewTask, KillMe, KillTask, KillOwnId, UseHeap, Call
  <2>3. \/ \E op \in {"yield", "dump", "exit", "new", "kill"}, arg \in Tasks \cup {NoTask} :
              Starts("pop", op, arg)
        \/ Starts("heap_lock", "heap", NoTask)
    <3>1. created \subseteq Tasks /\ current \in Tasks
      BY DEF TypeOK
    <3> QED
      BY <1>2, <2>1, <3>1, CallSteps DEF TaskCall, Yield, Dump, KillMe, KillTask, KillOwnId
  <2> QED
    BY <1>1, <2>2, <2>3 DEF Gate
<1>3. CASE Tick
  <2>1. eflags_if' = eflags_if
    BY <1>3 DEF Tick
  <2> QED
    BY <1>1, <1>3, <2>1, InterruptSteps DEF Gate, Wellformed, Proper
<1>4. CASE UndoCount
  BY <1>1, <1>4, InterruptSteps DEF Gate, Proper, UndoCount
<1>5. CASE ExitInterrupt
  <2>1. interrupts_semaphore = 0 /\ push_ints
    BY <1>1, <1>5, InterruptSteps DEF Gate, Proper, ExitInterrupt
  <2>2. interrupts_semaphore' = 1 /\ eflags_if'
    BY <2>1, GateMoves
  <2> QED
    BY <1>1, <1>5, <2>2, InterruptSteps DEF Gate, Proper
<1>6. CASE Iret
  <2>1. Top.irq /\ Top.at = "iret" /\ Top' = under[cpu][1] /\ 1 \in 1..Len(under[cpu])
    BY <1>6, Popped
  <2>2. Open(under[cpu][1]) /\ Proper(under[cpu][1])
    BY <1>1, <2>1, ProperIs DEF Flat, Top
  <2>3. eflags_if' = TRUE /\ interrupts_semaphore' = interrupts_semaphore
    BY <1>6 DEF Iret
  <2> QED
    BY <1>1, <2>1, <2>2, <2>3 DEF Gate, Open, Proper
<1>7. CASE PopInts
  <2>1. interrupts_semaphore = 1 /\ pop_ints
    BY <1>1, <1>7, LockSteps DEF Gate, Proper, PopInts
  <2>2. interrupts_semaphore' = 0 /\ ~eflags_if'
    BY <2>1, GateMoves
  <2> QED
    BY <1>1, <1>7, <2>2, LockSteps DEF Gate, Proper
<1>8. CASE LockSched
  BY <1>1, <1>8, LockSteps DEF Gate, Proper, LockSched, UnderLock
<1>9. CASE LockHeap
  BY <1>1, <1>9, LockSteps DEF Gate, LockHeap
<1>10. CASE Leave
  BY <1>1, <1>10, LockSteps DEF Gate, Proper, Leave
<1>11. CASE PushInts
  <2>1. interrupts_semaphore = 0 /\ push_ints
    BY <1>1, <1>11, LockSteps DEF Gate, Proper, PushInts
  <2>2. interrupts_semaphore' = 1 /\ eflags_if'
    BY <2>1, GateMoves
  <2> QED
    BY <1>1, <1>11, <2>2, LockSteps DEF Gate, Proper
<1>12. CASE HeapDone
  <2>1. UNCHANGED gateVars
    BY <1>12 DEF HeapDone
  <2>2. CASE Top.op = "new" /\ Makes(Top.arg)
    <3>1. Top' = Moved("lock")
      BY <2>2 DEF Makes, Top, TypeOK
    <3> QED
      BY <1>1, <1>12, <2>1, <2>2, <3>1, MovedFields, HeapSteps DEF Gate
  <2>3. CASE ~(Top.op = "new" /\ Makes(Top.arg))
    BY <1>1, <1>12, <2>1, <2>3, HeapSteps DEF Gate
  <2> QED
    BY <2>2, <2>3
<1>13. CASE LinkTask
  BY <1>1, <1>13, ListSteps DEF Gate, Wellformed, LinkTask
<1>14. CASE UnlistOther
  BY <1>1, <1>14, ListSteps DEF Gate, UnlistOther
<1>15. CASE UnlistCurrent
  <2>1. current # Kernel
    BY <1>15 DEF UnlistCurrent
  <2>2. UNCHANGED gateVars
    BY <1>15, <2>1 DEF UnlistCurrent
  <2> QED
    BY <1>1, <1>15, <2>1, <2>2, ListSteps DEF Gate, Proper
<1>16. CASE SelectNext
  <2>1. UNCHANGED gateVars
    BY <1>16 DEF SelectNext
  <2>2. current' # Idle \/ current = Idle
    BY DEF Steady
  <2> QED
    BY <1>1, <1>16, <2>1, <2>2, SteadySelect DEF Gate, Wellformed, Switches
<1>17. CASE ReleaseToSwitch
  BY <1>1, <1>17, SwitchSteps DEF Gate, Proper, ReleaseToSwitch
<1>18. CASE LoadEsp
  BY <1>1, <1>18, SwitchSteps DEF Gate, Proper, LoadEsp
<1>19. CASE SwapStacks
  <2>1. Top.at = "swap" /\ SwapsTo(Top.esp)
    BY <1>19, SwitchSteps
  <2>2. Top' = frame[cpu'] /\ cpu' # cpu /\ cpu' \in Tasks /\ frame[cpu'].at = "resume"
    BY <1>1, <2>1 DEF SwapsTo, Top, TypeOK
  <2>3. eflags_if' = frame[cpu'].fl /\ interrupts_semaphore' = interrupts_semaphore
    BY <1>19, <2>1 DEF SwapsTo, SwapStacks
  <2>4. ~eflags_if'
    BY <2>2, <2>3 DEF Steady
  <2>5. Top'.op # "idle" /\ Top'.op # "heap"
    BY <2>2, ProperIs DEF Dormant, Proper
  <2> QED
    BY <1>1, <2>1, <2>2, <2>3, <2>4, <2>5 DEF Gate, Proper
<1>20. CASE Resume
  <2>1. interrupts_semaphore = 0 /\ push_ints
    BY <1>1, <1>20, SwitchSteps DEF Gate, Proper, Resume
  <2>2. interrupts_semaphore' = 1 /\ eflags_if'
    BY <2>1, GateMoves
  <2> QED
    BY <1>1, <1>20, <2>2, SwitchSteps DEF Gate, Proper
<1>21. CASE TimerInterrupt
  <2>1. Top' = [At("tick") EXCEPT !.irq = TRUE] /\ ~Top.irq /\ eflags_if
    BY <1>21, Pushed DEF Steady, TimerInterrupt
  <2>2. Top'.at = "tick" /\ Top'.op = "none"
    BY <2>1 DEF At
  <2>3. Top.at \in {"run", "pop"} \/ Top.op = "heap"
    BY <1>1, <2>1 DEF Gate, Wellformed
  <2>4. interrupts_semaphore' = 0 /\ ~eflags_if'
    <3>1. interrupts_semaphore = 1 /\ pop_ints
      BY <1>1, <1>21, <2>3 DEF Gate, TimerInterrupt
    <3> QED
      BY <3>1, GateMoves
  <2> QED
    BY <2>2, <2>4 DEF Gate
<1> QED
  BY <1>2, <1>3, <1>4, <1>5, <1>6, <1>7, <1>8, <1>9, <1>10, <1>11, <1>12, <1>13, <1>14, <1>15,
     <1>16, <1>17, <1>18, <1>19, <1>20, <1>21 DEF Next, KernelStep

(* The call under way on a stack is in the frame that it began with. *)
LEMMA OnwardIrq ==
    ASSUME TypeOK, Shape, AllProper, Next, Onward PROVE Top'.irq <=> Top.irq
<1> USE DEF Passes, Returns, Starts
<1>1. Proper(Top)
  BY ProperIs
<1>2. CASE TaskCall
  <2>1. CASE Sleep \/ Yield \/ Dump \/ KillMe \/ FaultKill \/ KillTask \/ KillOwnId \/ NewTask \/ UseHeap
    <3>1. ~Top.irq
      BY <1>1, <1>2, CallSteps DEF Proper
    <3>2. ~Top'.irq
      BY <2>1, CallSteps DEF Yield, Dump, KillMe, KillTask, KillOwnId
    <3> QED
      BY <3>1, <3>2
  <2>2. CASE KillKernel \/ FaultPanic
    BY <2>2, CallSteps, SitesStill
  <2> QED
    BY <1>2, <2>1, <2>2 DEF TaskCall
<1>3. CASE Tick \/ UndoCount \/ ExitInterrupt
  BY <1>3, InterruptSteps
<1>4. CASE PopInts \/ LockSched \/ LockHeap \/ Leave \/ PushInts
  BY <1>4, LockSteps
<1>5. CASE HeapDone
  <2>1. CASE Top.op = "new" /\ Makes(Top.arg)
    <3>1. Top' = Moved("lock")
      BY <2>1 DEF Makes, Top, TypeOK
    <3> QED
      BY <3>1, MovedIrq
  <2>2. CASE ~(Top.op = "new" /\ Makes(Top.arg))
    BY <1>1, <1>5, <2>2, HeapSteps DEF Proper
  <2> QED
    BY <2>1, <2>2
<1>6. CASE LinkTask \/ UnlistOther \/ SelectNext
  BY <1>6, ListSteps DEF Switches
<1>7. CASE UnlistCurrent
  <2>1. CASE Still
    BY <2>1, SitesStill
  <2> QED
    BY <1>7, <2>1, ListSteps
<1>8. CASE ReleaseToSwitch \/ LoadEsp \/ Resume
  BY <1>8, SwitchSteps
<1>9. CASE SwapStacks
  <2>1. Still
    BY <1>9, SwitchSteps DEF SwapsTo, Onward
  <2> QED
    BY <2>1, SitesStill
<1>10. ~Iret /\ ~TimerInterrupt
  <2>1. Depth(cpu)' = Depth(cpu) /\ Depth(cpu) \in Nat
    BY Stacks DEF Onward, Depth, TypeOK
  <2> QED
    BY <2>1, Popped, Pushed
<1> QED
  BY <1>2, <1>3, <1>4, <1>5, <1>6, <1>7, <1>8, <1>9, <1>10 DEF Next, KernelStep

(* new_task writes to the stack of a task that has never run. *)
Fresh == Top.at = "heap" /\ Top.op = "new" => Top.arg # cpu /\ frame[Top.arg].at = "run"

LEMMA NextFlat ==
    ASSUME TypeOK, Shape, AllProper, Flat, Gate, Next, Steady, Fresh
    PROVE  Flat'
<1>1. cpu \in Tasks /\ frame \in [Tasks -> Frame] /\ under \in [Tasks -> Seq(Frame)]
  BY DEF TypeOK
<1>2. CASE Still
  BY <1>2 DEF Still, Flat, Open
<1>3. CASE Onward
  <2>1. frame'[cpu] = Top' /\ frame[cpu] = Top /\ \A t \in Tasks : t # cpu => frame'[t] = frame[t]
    BY <1>1, <1>3 DEF Onward, SetTop, Top
  <2>2. Top'.irq <=> Top.irq
    BY <1>3, OnwardIrq
  <2>3. \A t \in Tasks : frame'[t].irq <=> frame[t].irq
    BY <2>1, <2>2
  <2> QED
    BY <1>3, <2>3 DEF Onward, Flat, Open
<1>4. CASE TimerInterrupt
  <2>1. ~Top.irq /\ eflags_if
    BY <1>4 DEF Steady, TimerInterrupt
  <2>2. Wellformed(Top) /\ Open(Top)
    BY <2>1, TopShape DEF Gate, Open, Wellformed
  <2>3. under' = [under EXCEPT ![cpu] = <<Top>> \o @] /\ SetTop([At("tick") EXCEPT !.irq = TRUE])
    BY <1>4 DEF TimerInterrupt
  <2>4. Len(under[cpu]) = 0 /\ under[cpu] \in Seq(Frame) /\ Top \in Frame
    BY <1>1, <2>1 DEF Flat, Top
  <2>5. under'[cpu] = <<Top>> \o under[cpu] /\ \A t \in Tasks : t # cpu => under'[t] = under[t]
    BY <1>1, <2>3
  <2>6. Len(<<Top>> \o under[cpu]) = 1 /\ (<<Top>> \o under[cpu])[1] = Top
    BY <2>4, SMT
  <2>7. frame'[cpu] = [At("tick") EXCEPT !.irq = TRUE] /\ \A t \in Tasks : t # cpu => frame'[t] = frame[t]
    BY <1>1, <2>3 DEF SetTop
  <2>8. frame'[cpu].irq
    BY <2>7 DEF At
  <2>9. Len(under'[cpu]) = 1 /\ frame'[cpu].irq /\ Open(under'[cpu][1])
    BY <2>2, <2>5, <2>6, <2>8
  <2>10. ASSUME NEW t \in Tasks, t # cpu
         PROVE  \/ Len(under'[t]) = 0 /\ ~frame'[t].irq
                \/ Len(under'[t]) = 1 /\ frame'[t].irq /\ Open(under'[t][1])
    BY <2>5, <2>7, <2>10 DEF Flat
  <2> QED
    BY <2>9, <2>10 DEF Flat
<1>5. CASE Iret
  <2>1. Top.irq /\ Top' = under[cpu][1] /\ cpu' = cpu
    BY <1>5, Popped
  <2>2. Len(under[cpu]) = 1 /\ Open(under[cpu][1])
    BY <1>1, <2>1 DEF Flat, Top
  <2>3. SetTop(Head(under[cpu])) /\ under' = [under EXCEPT ![cpu] = Tail(@)]
    BY <1>5 DEF Iret
  <2>4. frame'[cpu] = Top' /\ \A t \in Tasks : t # cpu => frame'[t] = frame[t] /\ under'[t] = under[t]
    BY <1>1, <2>1, <2>3 DEF SetTop, Top
  <2>5. Len(under'[cpu]) = 0
    BY <1>1, <2>2, <2>3
  <2> QED
    BY <2>1, <2>2, <2>4, <2>5 DEF Flat, Open
<1>6. CASE HeapDone /\ Top.at = "heap" /\ Top.op = "new" /\ Top.arg \in Tasks /\ Makes(Top.arg)
  <2>1. PICK flag \in StaleFlags :
           frame' = [frame EXCEPT ![Top.arg] = FreshFrame(flag), ![cpu] = Moved("lock")]
    BY <1>6 DEF Makes
  <2>2. Proper(frame[Top.arg]) /\ ~frame[Top.arg].irq
    BY <1>6, ProperIs DEF Fresh, Proper
  <2>3. Len(under[Top.arg]) = 0
    BY <1>6, <2>2 DEF Flat
  <2>4. \A t \in Tasks : t # cpu /\ t # Top.arg => frame'[t] = frame[t]
    BY <1>1, <2>1
  <2>5. frame'[cpu] = Moved("lock") /\ frame'[Top.arg] = FreshFrame(flag)
    BY <1>1, <1>6, <2>1 DEF Fresh
  <2>6. (frame'[cpu].irq <=> frame[cpu].irq) /\ ~frame'[Top.arg].irq
    BY <2>5, MovedIrq DEF FreshFrame, At, Top
  <2>7. under' = under
    BY <1>6 DEF Makes
  <2> QED
    BY <2>2, <2>3, <2>4, <2>6, <2>7 DEF Flat, Open
<1>7. CASE SwapStacks /\ Top.at = "swap" /\ SwapsTo(Top.esp)
  <2>1. \A t \in Tasks : t # cpu => frame'[t] = frame[t]
    BY <1>1, <1>7 DEF SwapsTo
  <2>2. (frame'[cpu].irq <=> frame[cpu].irq) /\ under' = under
    BY <1>7 DEF SwapsTo, Top
  <2> QED
    BY <2>1, <2>2 DEF Flat, Open
<1> QED
  BY <1>2, <1>3, <1>4, <1>5, <1>6, <1>7, NextSteps

LEMMA NextDormant ==
    ASSUME TypeOK, Shape, Dormant, Gate, Next, Fresh
    PROVE  Dormant'
<1>1. cpu \in Tasks /\ frame \in [Tasks -> Frame]
  BY DEF TypeOK
<1>2. CASE Still
  BY <1>2 DEF Still, Dormant
<1>3. CASE Onward
  BY <1>1, <1>3 DEF Onward, SetTop, Dormant
<1>4. CASE TimerInterrupt
  BY <1>1, <1>4 DEF TimerInterrupt, SetTop, Dormant
<1>5. CASE Iret
  BY <1>1, <1>5 DEF Iret, SetTop, Dormant
<1>6. CASE HeapDone /\ Top.at = "heap" /\ Top.op = "new" /\ Top.arg \in Tasks /\ Makes(Top.arg)
  <2>1. PICK flag \in StaleFlags :
           frame' = [frame EXCEPT ![Top.arg] = FreshFrame(flag), ![cpu] = Moved("lock")]
    BY <1>6 DEF Makes
  <2>2. \A t \in Tasks : t # cpu /\ t # Top.arg => frame'[t] = frame[t]
    BY <1>1, <2>1
  <2>3. frame'[Top.arg] = FreshFrame(flag)
    BY <1>1, <1>6, <2>1 DEF Fresh
  <2>4. frame'[Top.arg].at = "resume" /\ frame'[Top.arg].op = "none" /\ cpu' = cpu
    BY <1>6, <2>3 DEF FreshFrame, At, Makes
  <2> QED
    BY <2>2, <2>4 DEF Dormant
<1>7. CASE SwapStacks /\ Top.at = "swap" /\ SwapsTo(Top.esp)
  <2>1. \A t \in Tasks : t # cpu => frame'[t] = frame[t]
    BY <1>1, <1>7 DEF SwapsTo
  <2>2. frame'[cpu].at = "resume" /\ frame'[cpu].op # "idle"
    BY <1>7 DEF SwapsTo, Gate
  <2> QED
    BY <2>1, <2>2 DEF Dormant
<1> QED
  BY <1>2, <1>3, <1>4, <1>5, <1>6, <1>7, NextSteps
-----------------------------------------------------------------------------
(* Which stacks can be resumed. *)

(* new_task of t, before it has made t's stack, and after. *)
BlankFrames(t) ==
    {f \in Frame : f.op = "new" /\ f.arg = t /\ f.at \in {"pop", "heap_lock", "heap"}}
LinkFrames(t) ==
    {f \in Frame : f.op = "new" /\ f.arg = t /\ f.at \in {"lock", "link"}}

(* t can be resumed at the top of its own stack. *)
Parked(t) == esp[t] = t /\ frame[t].at = "resume"

Leaving ==
    \/ Top.op = "exit" /\ cpu = current
    \/ /\ Top.op \in {"yield", "idle"} /\ Top.old = cpu /\ cpu # current
       /\ current \in Range(tasks) \cup {Idle}

Chosen ==
    /\ Top.at \notin Window => cpu = current
    /\ Top.at \in Window => Top.arg = current /\ Leaving
    /\ Top.at = "swap" => Top.esp = esp[Top.arg]
    /\ esp[cpu] = Nowhere

AllParked == \A t \in (Range(tasks) \cup {Idle}) \ {cpu} : Parked(t)
NewParked == \A t \in Tasks : Sites(LinkFrames(t)) # {} => t # cpu /\ Parked(t)
Untouched == \A t \in Tasks : t \notin created \/ Sites(BlankFrames(t)) # {} =>
                t # cpu /\ frame[t].at = "run"

(* Nothing lies above a switch that is under way, and no other stack is in one. *)
WindowFrames == {f \in Frame : f.at \in Window}
Buried == Sites(WindowFrames) \subseteq {Here}

Switching == Chosen /\ AllParked /\ NewParked /\ Untouched /\ Buried

LEMMA BlankSites ==
    ASSUME TypeOK, Shape, Next, NEW t \in Tasks
    PROVE  \/ Sites(BlankFrames(t))' \subseteq Sites(BlankFrames(t))
           \/ /\ NewTask /\ t \in created' \ created
              /\ Sites(BlankFrames(t))' \subseteq Sites(BlankFrames(t)) \cup {Here}
<1> DEFINE P == BlankFrames(t)
<1>1. \A f \in P : f.at \notin Passive /\ f.at \in Inward
  BY DEF BlankFrames, Passive, Inward
<1>2. \A f \in P : ~(f.op = "new" /\ f.at = "lock")
  BY DEF BlankFrames
<1>3. \A s \in Sites(P)' : s \in Sites(P) \/ (s = Here /\ Onward /\ Top' \in P)
  <2> HIDE DEF P
  <2> QED
    BY <1>1, <1>2, SitesNext
<1>4. CASE Onward /\ Top' \in P
  <2>1. Top'.op = "new" /\ Top'.arg = t /\ Top'.at \in {"pop", "heap_lock", "heap"}
    BY <1>4 DEF BlankFrames
  <2>2. Enters
    BY <1>1, <1>4, EntersIs
  <2>3. CASE NewTask /\ Top'.arg \in created' \ created
    BY <1>3, <2>1, <2>3
  <2>4. CASE Carries /\ ~(NewTask /\ Top'.arg \in created' \ created)
    <3>1. Top.op = "new" /\ Top.arg = t
      BY <2>1, <2>4 DEF Carries
    <3>2. Top.at \in {"pop", "heap_lock", "heap"}
      <4>1. Top'.at # "lock" /\ Top'.at # UnderLock(Top.op) /\ Top.op # "kill" /\ Top'.op # "exit"
        BY <2>1, <3>1 DEF UnderLock
      <4> QED
        BY <2>1, <2>2, <2>4, <3>1, <4>1 DEF Enters
    <3>3. Top \in P
      BY <3>1, <3>2, TopTypes DEF BlankFrames
    <3>4. Here \in Sites(P)
      BY <3>3, HereIs
    <3> QED
      BY <1>3, <3>4
  <2> QED
    BY <2>1, <2>2, <2>3, <2>4 DEF Enters
<1> QED
  BY <1>3, <1>4

LEMMA LinkSites ==
    ASSUME TypeOK, Shape, Next, NEW t \in Tasks
    PROVE  \/ Sites(LinkFrames(t))' \subseteq Sites(LinkFrames(t))
           \/ HeapDone /\ Top.op = "new" /\ Top.arg = t
<1> SUFFICES ASSUME ~(HeapDone /\ Top.op = "new" /\ Top.arg = t)
             PROVE  Sites(LinkFrames(t))' \subseteq Sites(LinkFrames(t))
  OBVIOUS
<1> DEFINE P == LinkFrames(t)
<1>1. \A f \in P : f.at \notin Passive /\ f.at \in Inward /\ f.at \in {"lock", "link"}
                 /\ f.op = "new" /\ f.arg = t
  BY DEF LinkFrames, Passive, Inward
<1>2. Onward /\ Top' \in P => Top \in P
  <2> SUFFICES ASSUME Onward, Top' \in P PROVE Top \in P
    OBVIOUS
  <2>1. Top'.op = "new" /\ Top'.arg = t /\ Top'.at \in {"lock", "link"}
    BY <1>1
  <2>2. Enters
    BY <1>1, EntersIs
  <2>3. Carries /\ ~NewTask
    <3>1. NewTask => Top'.at = "pop"
      BY CallSteps DEF Starts
    <3> QED
      BY <2>1, <2>2, <3>1 DEF Enters
  <2>4. Top.op = "new" /\ Top.arg = t
    BY <2>1, <2>3 DEF Carries
  <2>5. Top.at \in {"lock", "link"}
    BY <2>1, <2>2, <2>3, <2>4 DEF Enters
  <2> QED
    BY <2>4, <2>5, TopTypes DEF LinkFrames
<1>3. TimerInterrupt => Top' \notin P
  <2>1. TimerInterrupt => Top'.at = "tick"
    BY Pushed DEF At
  <2> QED
    BY <1>1, <2>1
<1>4. Iret => Top \notin P
  BY <1>1, Popped
<1>5. \A flag \in BOOLEAN : FreshFrame(flag) \notin P
  BY <1>1 DEF FreshFrame, At
<1>6. HeapDone /\ Top.at = "heap" /\ Top.op = "new" /\ Moved("lock") \in P => Top \in P
  BY <1>1, MovedFields
<1>7. \A to : Top.at = "swap" /\ SwapsTo(to) => frame'[cpu] \notin P
  BY <1>1 DEF SwapsTo
<1> HIDE DEF P
<1>8. Sites(P)' \subseteq Sites(P)
  BY <1>2, <1>3, <1>4, <1>5, <1>6, <1>7, SitesFewer
<1> QED
  BY <1>8 DEF P

(* Most steps leave the other stacks, the saved esp and the choice alone. *)
LEMMA OthersKept ==
    ASSUME TypeOK, Shape, Next
    PROVE  /\ created \subseteq created'
           /\ ~SelectNext => current' = current
           /\ ~SwapStacks /\ ~(HeapDone /\ Top.op = "new") =>
                /\ cpu' = cpu /\ esp' = esp
                /\ \A t \in Tasks : t # cpu => frame'[t] = frame[t]
<1>1. CASE TaskCall
  <2>1. \A call, op, args : Call(call, op, args) =>
           /\ UNCHANGED <<created, current, cpu, esp>>
           /\ \A t \in Tasks : t # cpu => frame'[t] = frame[t]
    BY DEF Call, Enter, SetTop, TypeOK, taskVars
  <2>2. CASE Yield \/ Dump \/ KillMe \/ KillTask \/ KillOwnId
    BY <2>1, <2>2 DEF Yield, Dump, KillMe, KillTask, KillOwnId
  <2>3. CASE Sleep \/ UseHeap \/ FaultKill \/ FaultPanic
    BY <2>3 DEF Sleep, UseHeap, FaultKill, FaultPanic, Enter, SetTop, TypeOK, taskVars
  <2>4. CASE NewTask
    BY <2>4 DEF NewTask, Enter, SetTop, TypeOK
  <2>5. CASE KillKernel
    BY <2>5, Zenon DEF KillKernel, taskVars
  <2> QED
    BY <1>1, <2>2, <2>3, <2>4, <2>5 DEF TaskCall
<1>2. CASE Tick \/ UndoCount \/ ExitInterrupt \/ Iret \/ TimerInterrupt
  BY <1>2 DEF Tick, UndoCount, ExitInterrupt, Iret, TimerInterrupt, Goto, SetTop, TypeOK, taskVars
<1>3. CASE PopInts \/ LockSched \/ LockHeap \/ Leave \/ PushInts \/ Resume \/ ReleaseToSwitch \/ LoadEsp
  BY <1>3 DEF PopInts, LockSched, LockHeap, Leave, PushInts, Resume, ReleaseToSwitch, LoadEsp,
              Goto, SetTop, TypeOK, taskVars
<1>4. CASE HeapDone
  BY <1>4 DEF HeapDone, Goto, SetTop, TypeOK
<1>5. CASE LinkTask
  BY <1>5 DEF LinkTask, Goto, SetTop, TypeOK
<1>6. CASE UnlistCurrent
  BY <1>6 DEF UnlistCurrent, SetTop, TypeOK
<1>7. CASE UnlistOther
  BY <1>7 DEF UnlistOther, Goto, SetTop, TypeOK
<1>8. CASE SelectNext
  BY <1>8 DEF SelectNext, SwitchTo, Stay, Goto, SetTop, TypeOK
<1>9. CASE SwapStacks
  BY <1>9 DEF SwapStacks, taskVars
<1> QED
  BY <1>1, <1>2, <1>3, <1>4, <1>5, <1>6, <1>7, <1>8, <1>9 DEF Next, KernelStep

LEMMA FreshIs == ASSUME TypeOK, Shape, Untouched PROVE Fresh
<1> SUFFICES ASSUME Top.at = "heap", Top.op = "new"
             PROVE  Top.arg # cpu /\ frame[Top.arg].at = "run"
  BY DEF Fresh
<1>1. Top.arg \in Tasks /\ Top \in Frame
  BY TopShape, TopTypes DEF Wellformed
<1>2. Here \in Sites(BlankFrames(Top.arg))
  BY <1>1, HereIs DEF BlankFrames
<1> QED
  BY <1>1, <1>2 DEF Untouched

LEMMA ParkedKept ==
    ASSUME TypeOK, Shape, AllParked, NewParked, Untouched, Next,
           ~SwapStacks, ~(HeapDone /\ Top.op = "new"),
           \A t \in Range(tasks)' : t \in Tasks /\ (t \in Range(tasks) \/ Sites(LinkFrames(t)) # {})
    PROVE  AllParked' /\ NewParked' /\ Untouched'
<1>1. /\ cpu' = cpu /\ esp' = esp /\ created \subseteq created'
      /\ \A t \in Tasks : t # cpu => frame'[t] = frame[t]
  BY OthersKept
<1>2. Idle \in Tasks /\ \A t \in Tasks : t # cpu /\ Parked(t) => Parked(t)'
  BY <1>1, TasksAssumption DEF Parked
<1>3. AllParked'
  BY <1>1, <1>2 DEF AllParked, NewParked
<1>4. NewParked'
  BY <1>1, <1>2, LinkSites DEF NewParked
<1>5. Untouched'
  BY <1>1, BlankSites DEF Untouched
<1> QED
  BY <1>3, <1>4, <1>5

LEMMA ListedAre == ASSUME TypeOK PROVE Range(tasks) \subseteq Tasks
<1>1. tasks \in Seq(Tasks)
  BY DEF TypeOK
<1>2. \A i \in 1..Len(tasks) : tasks[i] \in Tasks
  BY <1>1
<1> QED
  BY <1>1, <1>2, ListIs

(* The stack that new_task has made. *)
(* The stack of a new task is made once: the frame that made it was the only
   one of its birth, and goes on to link it. *)
LEMMA MadeTouched ==
    ASSUME TypeOK, Shape, BirthInv, Untouched, Next, HeapDone, Top.op = "new"
    PROVE  Untouched'
<1>0. PICK new \in Tasks : new = Top.arg
  BY HeapSteps
<1>1. Top.at = "heap" /\ new \in Tasks /\ Makes(new) /\ Top.arg = new
  BY <1>0, HeapSteps
<1>2. new # cpu /\ cpu \in Tasks /\ Top \in Frame
  BY <1>1, FreshIs, TopTypes DEF Fresh, TypeOK
<1>3. PICK flag \in StaleFlags :
         frame' = [frame EXCEPT ![new] = FreshFrame(flag), ![cpu] = Moved("lock")]
  BY <1>1 DEF Makes
<1>4. cpu' = cpu /\ UNCHANGED <<tasks, created>>
  BY <1>1 DEF Makes, HeapDone
<1>5. \A t \in Tasks : t # cpu /\ t # new => frame'[t] = frame[t]
  BY <1>3 DEF TypeOK
<1>6. \A t \in Tasks : Sites(BlankFrames(t))' \subseteq Sites(BlankFrames(t))
  BY <1>4, BlankSites
<1>7. Sites(BlankFrames(new))' = {}
  <2>1. Here \in Sites(NewFrames(new))
    BY <1>1, <1>2, HereIs DEF NewFrames
  <2>2. Sites(BlankFrames(new)) \subseteq Sites(NewFrames(new))
    BY DEF Sites, BlankFrames, NewFrames
  <2>3. Sites(BlankFrames(new))' \subseteq {Here}
    BY <1>1, <1>6, <2>1, <2>2 DEF BirthInv, OneBirth
  <2>4. Top'.at = "lock"
    <3>1. frame'[cpu] = Moved("lock")
      BY <1>2, <1>3 DEF TypeOK
    <3> QED
      BY <1>4, <3>1, MovedFields DEF Top
  <2>5. Here \notin Sites(BlankFrames(new))'
    <3>1. FrameAt(cpu, Depth(cpu))' = Top'
      BY <1>4 DEF FrameAt, Top
    <3>2. Here[1] = cpu /\ Here[2] = Depth(cpu) /\ Depth(cpu)' = Depth(cpu) /\ cpu' = cpu
      BY <1>1, <1>4 DEF Here, Depth, Makes
    <3>3. \A s \in Sites(BlankFrames(new))' : FrameAt(s[1], s[2])' \in BlankFrames(new)
      BY DEF Sites, BlankFrames
    <3>4. \A s \in Sites(BlankFrames(new))' :
             s[1] = cpu /\ s[2] = Depth(cpu) => FrameAt(s[1], s[2])' = frame'[cpu]
      BY <3>2 DEF FrameAt
    <3>5. frame'[cpu] \notin BlankFrames(new)
      BY <1>4, <2>4 DEF BlankFrames, Top
    <3> QED
      BY <3>2, <3>3, <3>4, <3>5
  <2> QED
    BY <2>3, <2>5
<1>8. new \in created
  <2>1. Sites(NewFrames(new)) # {}
    BY <1>1, <1>2, HereIs DEF NewFrames
  <2> QED
    BY <1>1, <2>1 DEF BirthInv, Unborn
<1> QED
  BY <1>4, <1>5, <1>6, <1>7, <1>8 DEF Untouched

LEMMA ParkedMade ==
    ASSUME TypeOK, Shape, BirthInv, Switching, Next, HeapDone, Top.op = "new"
    PROVE  AllParked' /\ NewParked' /\ Untouched' /\ esp'[cpu] = esp[cpu]
<1>0. PICK new \in Tasks : new = Top.arg
  BY HeapSteps
<1>1. Top.at = "heap" /\ new \in Tasks /\ Makes(new) /\ Top.arg = new
  BY <1>0, HeapSteps
<1>2. new # cpu /\ cpu \in Tasks /\ current \in Tasks /\ Top \in Frame
  BY <1>1, FreshIs, TopTypes DEF Fresh, Switching, TypeOK
<1>3. PICK flag \in StaleFlags :
         frame' = [frame EXCEPT ![new] = FreshFrame(flag), ![cpu] = Moved("lock")]
  BY <1>1 DEF Makes
<1>4. cpu' = cpu /\ esp' = [esp EXCEPT ![new] = new] /\ UNCHANGED <<tasks, created>>
  BY <1>1 DEF Makes, HeapDone
<1>5. /\ frame'[new].at = "resume" /\ esp'[new] = new
      /\ \A t \in Tasks : t # cpu /\ t # new => frame'[t] = frame[t] /\ esp'[t] = esp[t]
      /\ esp'[cpu] = esp[cpu]
  BY <1>1, <1>2, <1>3, <1>4 DEF TypeOK, FreshFrame, At
<1>6. Parked(new)' /\ \A t \in Tasks : t # cpu /\ Parked(t) => Parked(t)'
  BY <1>1, <1>5 DEF Parked
<1>7. AllParked'
  <2>1. Range(tasks)' = Range(tasks)
    BY <1>4
  <2>2. Range(tasks) \subseteq Tasks /\ Idle \in Tasks
    BY TasksAssumption, ListedAre
  <2> QED
    BY <1>4, <1>6, <2>1, <2>2 DEF AllParked, Switching
<1>8. NewParked'
  <2>1. \A t \in Tasks : t # new => Sites(LinkFrames(t))' \subseteq Sites(LinkFrames(t))
    BY <1>1, LinkSites
  <2> QED
    BY <1>2, <1>4, <1>6, <2>1 DEF NewParked, Switching
<1>9. Untouched'
  BY MadeTouched DEF Switching
<1> QED
  BY <1>5, <1>7, <1>8, <1>9

(* The list gains the task that new_task links, and no other. *)
LEMMA ListGains ==
    ASSUME TypeOK, Shape, ListSound, Next
    PROVE  \A t \in Range(tasks)' : t \in Range(tasks) \/ (LinkTask /\ t = Top.arg)
<1>0. tasks \in Seq(Tasks) /\ IsInjective(tasks)
  BY DEF TypeOK, ListSound
<1>1. CASE TaskCall
  <2>1. tasks' = tasks
    BY <1>1, Zenon DEF TaskCall, Sleep, Yield, Dump, NewTask, KillMe, KillTask, KillOwnId, KillKernel,
                       UseHeap, FaultKill, FaultPanic, Call, taskVars
  <2> QED
    BY <2>1
<1>2. CASE Tick \/ UndoCount \/ ExitInterrupt \/ Iret \/ TimerInterrupt
  BY <1>2 DEF Tick, UndoCount, ExitInterrupt, Iret, TimerInterrupt, taskVars
<1>3. CASE PopInts \/ LockSched \/ LockHeap \/ HeapDone \/ Leave \/ PushInts
  BY <1>3 DEF PopInts, LockSched, LockHeap, HeapDone, Leave, PushInts, taskVars
<1>4. CASE ReleaseToSwitch \/ LoadEsp \/ SwapStacks \/ Resume
  BY <1>4 DEF ReleaseToSwitch, LoadEsp, SwapStacks, Resume, taskVars
<1>5. CASE LinkTask
  <2>1. tasks' = Append(tasks, Top.arg) /\ Top.arg \in Tasks
    BY <1>5, ListSteps, TopShape DEF Wellformed
  <2>2. Range(Append(tasks, Top.arg)) = Range(tasks) \cup {Top.arg}
    BY <1>0, <2>1, AppendIs
  <2> QED
    BY <1>5, <2>1, <2>2
<1>6. CASE UnlistCurrent \/ UnlistOther
  <2>1. tasks' = tasks \/ \E t : tasks' = Without(tasks, t)
    BY <1>6, ListSteps
  <2>2. \A t : Range(Without(tasks, t)) \subseteq Range(tasks)
    BY <1>0, WithoutIs
  <2> QED
    BY <2>1, <2>2
<1>7. CASE SelectNext
  <2>1. tasks' = Ring
    BY <1>7, ListSteps
  <2>2. Range(Ring) = Range(tasks)
    BY <1>0, RotatedIs DEF Ring
  <2> QED
    BY <2>1, <2>2
<1> QED
  BY <1>1, <1>2, <1>3, <1>4, <1>5, <1>6, <1>7 DEF Next, KernelStep

LEMMA NextParked ==
    ASSUME TypeOK, Shape, BirthInv, Switching, Next, ~SwapStacks
    PROVE  AllParked' /\ NewParked' /\ Untouched'
<1>1. CASE HeapDone /\ Top.op = "new"
  BY <1>1, ParkedMade
<1>2. CASE ~(HeapDone /\ Top.op = "new")
  <2>1. ASSUME LinkTask PROVE Top.arg \in Tasks /\ Sites(LinkFrames(Top.arg)) # {}
    <3>1. Top \in LinkFrames(Top.arg) /\ Top.arg \in Tasks
      BY <2>1, ListSteps, TopShape, TopTypes DEF Wellformed, LinkFrames
    <3> QED
      BY <3>1, HereIs
  <2>2. \A t \in Range(tasks)' : t \in Tasks /\ (t \in Range(tasks) \/ Sites(LinkFrames(t)) # {})
    BY <2>1, ListGains, ListedAre DEF BirthInv
  <2> QED
    BY <1>2, <2>2, ParkedKept DEF Switching
<1> QED
  BY <1>1, <1>2

(* No frame of P is brought to light by an iret if there is none. *)
LEMMA PoppedBuried ==
    ASSUME TypeOK, Shape, Buried, Iret PROVE Sites(WindowFrames) = {}
<1>1. Top \notin WindowFrames
  BY Popped DEF WindowFrames, Window
<1> QED
  BY <1>1, HereIs DEF Buried

LEMMA PoppedOutside ==
    ASSUME TypeOK, Shape, Iret, Sites(WindowFrames) = {} PROVE Top'.at \notin Window
<1>1. Depth(cpu) \in Nat \ {0} /\ Depth(cpu) - 1 \in Nat /\ cpu \in Tasks
  BY Stacks DEF TypeOK
<1>2. 1 \in 1..Len(under[cpu]) /\ Depth(cpu) = Len(under[cpu]) + 1 /\ Len(under[cpu]) \in Nat
  BY Popped, Stacks DEF Depth, TypeOK
<1>3. Depth(cpu) - 1 \in Spots(cpu) /\ Depth(cpu) - 1 \in Nat \ {0}
  BY <1>1, <1>2 DEF Spots
<1>4. FrameAt(cpu, Depth(cpu) - 1) \in Frame /\ Top' = FrameAt(cpu, Depth(cpu) - 1)
  BY <1>1, <1>3, Stacks, Popped
<1>5. <<cpu, Depth(cpu) - 1>> \notin Sites(WindowFrames)
  OBVIOUS
<1> QED
  BY <1>1, <1>3, <1>4, <1>5 DEF Sites, WindowFrames

(* select_next goes on, or to another task of the list, or to idle. *)
LEMMA SelectChooses ==
    ASSUME TypeOK, SelectNext
    PROVE  \/ Top'.at = "leave" /\ current' = current
           \/ /\ Switches("yield") \/ Switches("idle")
              /\ current' # current /\ current' \in Range(tasks)' \cup {Idle}
<1>1. tasks' = Ring
  BY ListSteps
<1>2. \A i \in ReadyAt : Ring[i] \in Range(Ring)
  BY DEF ReadyAt, Range
<1> QED
  BY <1>1, <1>2, ListSteps DEF Passes

(* A switch stays on top until the stacks are exchanged. *)
LEMMA NextBuried ==
    ASSUME TypeOK, Shape, Buried, Next, Calm PROVE Buried'
<1> DEFINE P == WindowFrames
<1>1. Top \notin P => Sites(P) = {}
  BY HereIs DEF Buried
<1>2. \A f \in Frame : f \in P <=> f.at \in Window
  BY DEF WindowFrames
<1>3. P' = P
  BY DEF WindowFrames, Frame
<1>4. Sites(P)' \subseteq {Here'} => Buried'
  BY DEF Buried
<1>5. Top \in Frame
  BY TopTypes
<1> HIDE DEF P
<1>6. CASE Still
  BY <1>3, <1>4, <1>6, SitesStill DEF Still, Buried, Here, Depth, P
<1>7. CASE Onward
  <2>1. Here' = Here
    BY <1>7 DEF Onward, Here, Depth
  <2>2. Sites(P)' = Sites(P) \cup {Here} \/ Sites(P)' = Sites(P) \ {Here}
    BY <1>7, SitesGained, SitesLost DEF Onward
  <2>3. Sites(P) \subseteq {Here}
    BY DEF Buried, P
  <2> QED
    BY <1>4, <2>1, <2>2, <2>3
<1>8. CASE TimerInterrupt
  <2>1. Top \notin P /\ Top'.at = "tick"
    BY <1>2, <1>5, <1>8, Pushed DEF Calm, At
  <2>2. Top' \notin P
    BY <2>1 DEF P, WindowFrames, Window
  <2> QED
    BY <1>1, <1>4, <1>8, <2>1, <2>2, SitesPushed
<1>9. CASE Iret
  <2>1. Top \notin P
    BY <1>2, <1>5, <1>9, Popped DEF Window
  <2> QED
    BY <1>1, <1>4, <1>9, <2>1, SitesPopped
<1>10. CASE HeapDone /\ Top.at = "heap" /\ Top.op = "new" /\ Top.arg \in Tasks /\ Makes(Top.arg)
  <2>1. Top \notin P
    BY <1>2, <1>5, <1>10 DEF Window
  <2>2. \A s \in Sites(P)' : s \in Sites(P) \/ (s = Here /\ Onward /\ Top' \in P)
    <3>1. \A f \in P : f.at \notin Passive /\ f.at # "lock"
      BY DEF P, WindowFrames, Window, Passive
    <3> QED
      BY <3>1, SitesNext
  <2>3. CASE Onward
    BY <1>7, <2>3
  <2> QED
    BY <1>1, <1>4, <2>1, <2>2, <2>3
<1>11. CASE SwapStacks /\ Top.at = "swap" /\ SwapsTo(Top.esp)
  <2>1. SetTop(frame'[cpu]) /\ under' = under /\ frame'[cpu].at = "resume"
    BY <1>11 DEF SwapsTo, SetTop
  <2>2. frame'[cpu] \notin P
    BY <2>1 DEF P, WindowFrames, Window
  <2>3. Sites(P)' = Sites(P) \ {Here} /\ Sites(P) \subseteq {Here}
    BY <2>1, <2>2, SitesLost DEF Buried, P
  <2> QED
    BY <1>4, <2>3
<1> QED
  BY <1>6, <1>7, <1>8, <1>9, <1>10, <1>11, NextSteps

(* The choice stands from select_next to the exchange of the stacks. *)
LEMMA NextChosen ==
    ASSUME TypeOK, Shape, AllProper, BirthInv, Switching, Next, Calm, ~SwapStacks, mode' = "run"
    PROVE  Chosen'
<1> USE DEF Passes, Returns, Starts, Window
<1>1. Proper(Top) /\ Wellformed(Top) /\ Chosen /\ cpu \in Tasks /\ ListSound
  BY ProperIs, TopShape DEF TypeOK, Switching, BirthInv
<1>2. cpu' = cpu /\ esp'[cpu] = esp[cpu] /\ (~SelectNext => current' = current)
  <2>1. HeapDone /\ Top.op = "new" => cpu' = cpu
    BY HeapSteps DEF Makes
  <2> QED
    BY <2>1, OthersKept, ParkedMade
<1>3. ASSUME Top.at \notin Window, Top'.at \notin Window, ~SelectNext PROVE Chosen'
  BY <1>1, <1>2, <1>3 DEF Chosen
<1>4. CASE TaskCall
  <2>1. CASE KillKernel \/ FaultPanic
    BY <2>1, CallSteps
  <2>2. CASE Sleep \/ Yield \/ Dump \/ KillMe \/ FaultKill \/ KillTask \/ KillOwnId \/ NewTask \/ UseHeap
    <3>1. Top.at = "run" /\ Top'.at \in {"pop", "heap_lock"}
      BY <2>2, <1>4, CallSteps DEF Yield, Dump, KillMe, KillTask, KillOwnId
    <3>2. ~SelectNext
      BY <3>1, ListSteps
    <3> QED
      BY <1>3, <3>1, <3>2
  <2> QED
    BY <1>4, <2>1, <2>2 DEF TaskCall
<1>5. CASE Tick \/ UndoCount \/ ExitInterrupt
  <2>1. Top.at \in {"tick", "undo", "exit"} /\ Top'.at \in {"pop", "exit", "iret"}
    BY <1>5, InterruptSteps
  <2>2. ~SelectNext
    BY <2>1, ListSteps
  <2> QED
    BY <1>3, <2>1, <2>2
<1>6. CASE TimerInterrupt
  <2>1. Top.at \notin Window
    BY <1>6 DEF Calm
  <2>2. Top'.at = "tick"
    BY <1>6, Pushed DEF At
  <2>3. ~SelectNext
    BY <2>2, ListSteps DEF Switches
  <2> QED
    BY <1>3, <2>1, <2>2, <2>3
<1>7. CASE Iret
  <2>1. Top.irq /\ Top.at = "iret" /\ Top' = under[cpu][1] /\ 1 \in 1..Len(under[cpu])
    BY <1>7, Popped
  <2>2. Sites(WindowFrames) = {}
    BY <1>7, PoppedBuried DEF Switching
  <2>3. Top'.at \notin Window
    BY <1>7, <2>2, PoppedOutside
  <2>4. ~SelectNext
    BY <2>1, ListSteps
  <2> QED
    BY <1>3, <2>1, <2>3, <2>4
<1>8. CASE PopInts \/ LockSched \/ LockHeap \/ Leave \/ PushInts
  <2>1. Top.at \in {"pop", "lock", "heap_lock", "leave", "push"} /\ Top'.at \notin Window
    BY <1>8, LockSteps DEF UnderLock
  <2>2. ~SelectNext
    BY <2>1, ListSteps
  <2> QED
    BY <1>3, <2>1, <2>2
<1>9. CASE HeapDone
  <2>1. Top.at = "heap" /\ ~SelectNext /\ cpu = current /\ current' = current
    <3>1. Top.at = "heap"
      BY <1>9, HeapSteps
    <3> QED
      BY <1>1, <1>2, <3>1, ListSteps DEF Chosen
  <2>2. CASE Top.op = "exit"
    <3>1. Top'.at = "unlock" /\ Top'.op = "exit" /\ Top'.arg = current
      BY <1>9, <2>2, HeapSteps
    <3> QED
      BY <1>1, <1>2, <2>1, <3>1 DEF Chosen, Leaving
  <2>3. CASE Top.op = "new"
    <3>1. Makes(Top.arg)
      BY <1>9, <2>3, HeapSteps
    <3>2. Top' = Moved("lock")
      BY <3>1 DEF Makes, Top, TypeOK
    <3>3. Top'.at = "lock"
      BY <3>2, MovedFields
    <3> QED
      BY <1>3, <2>1, <3>3
  <2>4. CASE Top.op \notin {"exit", "new"}
    <3>1. Top'.at \in {"run", "leave"}
      BY <1>9, <2>4, HeapSteps
    <3> QED
      BY <1>3, <2>1, <3>1
  <2> QED
    BY <2>2, <2>3, <2>4
<1>10. CASE LinkTask \/ UnlistOther
  <2>1. Top.at \in {"link", "unlist"} /\ Top'.at \in {"leave", "heap_lock"}
    BY <1>10, ListSteps
  <2>2. ~SelectNext
    BY <2>1, ListSteps
  <2> QED
    BY <1>3, <2>1, <2>2
<1>11. CASE UnlistCurrent
  <2>1. Top.at = "unlist" /\ Top'.at = "heap_lock"
    BY <1>11, ListSteps
  <2>2. ~SelectNext
    BY <2>1, ListSteps
  <2> QED
    BY <1>3, <2>1, <2>2
<1>12. CASE SelectNext
  <2>1. cpu = current
    BY <1>1, <1>12, ListSteps DEF Chosen
  <2>2. \/ Top'.at = "leave" /\ current' = current
        \/ /\ Switches("yield") \/ Switches("idle")
           /\ current' # current /\ current' \in Range(tasks)' \cup {Idle}
    BY <1>12, SelectChooses
  <2> QED
    BY <1>1, <1>2, <2>1, <2>2 DEF Chosen, Leaving, Switches
<1>13. CASE ReleaseToSwitch
  <2>1. Top.at = "unlock" /\ Top'.at = "load" /\ UNCHANGED <<current, tasks>>
    BY <1>13, SwitchSteps DEF ReleaseToSwitch, taskVars
  <2>2. Top'.op = Top.op /\ Top'.arg = Top.arg /\ Top'.old = Top.old
    BY <1>13, SwitchSteps
  <2> QED
    BY <1>1, <1>2, <2>1, <2>2 DEF Chosen, Leaving
<1>14. CASE LoadEsp
  <2>1. Top.at = "load" /\ Top'.at = "swap" /\ UNCHANGED <<current, tasks, esp>>
    BY <1>14, SwitchSteps DEF LoadEsp, taskVars
  <2>2. Top'.op = Top.op /\ Top'.arg = Top.arg /\ Top'.old = Top.old /\ Top'.esp = esp[Top.arg]
    BY <1>14, SwitchSteps
  <2> QED
    BY <1>1, <1>2, <2>1, <2>2 DEF Chosen, Leaving
<1>15. CASE Resume
  <2>1. Top.at = "resume" /\ Top'.at \notin Window
    BY <1>15, SwitchSteps
  <2>2. ~SelectNext
    BY <2>1, ListSteps
  <2> QED
    BY <1>3, <2>1, <2>2
<1> QED
  BY <1>4, <1>5, <1>6, <1>7, <1>8, <1>9, <1>10, <1>11, <1>12, <1>13, <1>14, <1>15 DEF Next, KernelStep

(* The exchange of the stacks resumes the task that select_next chose. *)
LEMMA SwapSwitching ==
    ASSUME TypeOK, Shape, BirthInv, Switching, Next, Calm, SwapStacks, mode' = "run"
    PROVE  Switching'
<1>0. PICK old \in Tasks, next \in Tasks : old = cpu /\ next = current
  BY DEF TypeOK
<1>1. Top.at = "swap" /\ SwapsTo(Top.esp)
  BY SwitchSteps
<1>2. Top.esp = esp[next] /\ Leaving /\ esp[old] = Nowhere
  BY <1>0, <1>1 DEF Switching, Chosen, Window
<1>3. Top.esp \in Tasks /\ Nowhere \notin Tasks
  BY <1>1, TasksAssumption DEF SwapsTo
<1>4. Top.old = old /\ old # next /\ next \in Range(tasks) \cup {Idle}
  BY <1>0, <1>2, <1>3 DEF Leaving
<1>5. Parked(next) /\ Top.esp = next
  BY <1>0, <1>2, <1>4 DEF Switching, AllParked, Parked
<1>6. cpu' = next /\ current' = next /\ UNCHANGED <<tasks, created>>
  BY <1>0, <1>1, <1>5 DEF SwapsTo, SwapStacks, taskVars
<1>7. esp' = [t \in Tasks |-> IF t = old THEN old ELSE IF esp[t] = next THEN Nowhere ELSE esp[t]]
  BY <1>0, <1>1, <1>4, <1>5 DEF SwapsTo, SavedEsp
<1>8. frame'[old].at = "resume" /\ \A t \in Tasks : t # old => frame'[t] = frame[t]
  BY <1>0, <1>1 DEF SwapsTo, TypeOK
<1>9. Parked(old)' /\ \A t \in Tasks : t # next /\ Parked(t) => Parked(t)'
  BY <1>7, <1>8 DEF Parked
<1>10. Chosen'
  <2>1. Top'.at = "resume"
    BY <1>4, <1>5, <1>6, <1>8 DEF Top, Parked
  <2>2. esp'[next] = Nowhere
    BY <1>4, <1>5, <1>7 DEF Parked
  <2> QED
    BY <1>6, <2>1, <2>2 DEF Chosen, Window
<1>11. AllParked'
  BY <1>0, <1>6, <1>9, ListedAre, TasksAssumption DEF AllParked, Switching
<1>12. \A t \in Tasks : Sites(LinkFrames(t)) # {} \/ Sites(BlankFrames(t)) # {} \/ t \notin created => t # next
  <2>1. \A t \in Tasks : /\ Sites(BlankFrames(t)) \subseteq Sites(NewFrames(t))
                         /\ Sites(LinkFrames(t)) \subseteq Sites(NewFrames(t))
    BY DEF Sites, BlankFrames, LinkFrames, NewFrames
  <2> QED
    BY <1>0, <2>1 DEF BirthInv, Unborn, ListCreated
<1>13. ~HeapDone /\ ~NewTask
  BY <1>1, HeapSteps, CallSteps DEF TaskCall
<1>14. NewParked'
  BY <1>6, <1>9, <1>12, <1>13, LinkSites DEF NewParked, Switching
<1>15. Untouched'
  BY <1>0, <1>6, <1>8, <1>12, <1>13, BlankSites DEF Untouched, Switching
<1>16. Buried'
  BY NextBuried DEF Switching
<1> QED
  BY <1>10, <1>11, <1>14, <1>15, <1>16 DEF Switching

(* While the steps are calm, and until the kernel panics or runs wild. *)
CalmInv == ListInv /\ SleepInv /\ AllProper /\ (mode = "run" => Switching)

LEMMA CalmIs ==
    ASSUME CalmInv
    PROVE  /\ TypeOK /\ Shape /\ LockInv /\ BirthInv /\ ListSound /\ SleepInv /\ AllProper
           /\ mode = "run" => Switching /\ Fresh
<1>1. TypeOK /\ Shape /\ LockInv /\ BirthInv /\ ListSound /\ SleepInv /\ AllProper
  BY DEF CalmInv, ListInv, IInv, BirthInv
<1>2. mode = "run" => Switching /\ Fresh
  BY <1>1, FreshIs DEF CalmInv, Switching
<1> QED
  BY <1>1, <1>2

LEMMA InitCalm == Init => CalmInv
<1> SUFFICES ASSUME Init PROVE CalmInv
  OBVIOUS
<1>1. TypeOK /\ ListInv /\ SleepInv /\ AllProper
  BY InitType, InitShape, InitLock, InitBirth, InitSleep, InitProper DEF ListInv, IInv
<1>2. \A t \in Tasks : Len(under[t]) = 0
  BY EmptySeq DEF Init
<1>3. \A t \in Tasks : frame[t].at = IF t \in created \ {Kernel} THEN "resume" ELSE "run"
  <2>1. ASSUME NEW t \in Tasks
        PROVE  \/ frame[t] = At("run")
               \/ \E flag \in StaleFlags : frame[t] = FreshFrame(flag)
    BY DEF Init
  <2>2. \A flag : FreshFrame(flag).at = "resume"
    BY DEF FreshFrame, At
  <2>3. At("run").at = "run"
    BY DEF At
  <2>4. \A t \in Tasks : frame[t] = At("run") <=> t \notin created \ {Kernel}
    BY DEF Init
  <2> QED
    BY <2>1, <2>2, <2>3, <2>4
<1>4. /\ cpu = Kernel /\ current = Kernel /\ Kernel \in Tasks /\ Idle \in Tasks /\ Kernel # Idle
      /\ Kernel \in created /\ Idle \in created /\ Range(tasks) \subseteq created
  BY TasksAssumption DEF Init
<1>5. Top.at = "run"
  BY <1>3, <1>4 DEF Top
<1>6. \A t \in Tasks : esp[t] = IF t \in created \ {Kernel} THEN t ELSE Nowhere
  BY DEF Init
<1>7. Chosen
  BY <1>4, <1>5, <1>6 DEF Chosen, Window
<1>8. AllParked
  BY <1>3, <1>4, <1>6, ListedAre, <1>1 DEF AllParked, Parked
<1>9. \A t \in Tasks : Sites(LinkFrames(t)) = {} /\ Sites(BlankFrames(t)) = {}
  BY InitSites DEF LinkFrames, BlankFrames, Passive
<1>10. NewParked /\ Untouched
  BY <1>3, <1>4, <1>9 DEF NewParked, Untouched
<1>11. Buried
  <2>1. \A f \in WindowFrames : f.at \notin Passive
    BY DEF WindowFrames, Window, Passive
  <2>2. Sites(WindowFrames) = {}
    BY <2>1, InitSites
  <2> QED
    BY <2>2 DEF Buried
<1> QED
  BY <1>1, <1>7, <1>8, <1>10, <1>11 DEF CalmInv, Switching

LEMMA NextCalm == ASSUME CalmInv, [Next]_vars, [Calm]_vars PROVE CalmInv'
<1>1. TypeOK /\ Shape /\ LockInv /\ BirthInv /\ ListSound /\ SleepInv /\ AllProper
  BY CalmIs
<1>2. ListInv' /\ AllProper' /\ SleepInv'
  BY <1>1, NextType, NextShape, NextLock, NextBirth, NextProper, NextSleep DEF ListInv, IInv
<1>3. CASE UNCHANGED vars
  <2>1. Still /\ UNCHANGED <<mode, current, tasks, created, esp>>
    BY <1>3 DEF vars, Still, taskVars
  <2>2. \A t \in Tasks : /\ Sites(LinkFrames(t))' = Sites(LinkFrames(t))
                         /\ Sites(BlankFrames(t))' = Sites(BlankFrames(t))
    <3>1. \A t : LinkFrames(t)' = LinkFrames(t) /\ BlankFrames(t)' = BlankFrames(t)
      BY DEF LinkFrames, BlankFrames, Frame
    <3> QED
      BY <2>1, <3>1, SitesStill
  <2>3. Sites(WindowFrames)' = Sites(WindowFrames) /\ Here' = Here /\ Top' = Top
    BY <2>1, SitesStill DEF Still, Here, Depth
  <2> QED
    BY <1>2, <2>1, <2>2, <2>3 DEF CalmInv, Still, Switching, Chosen, Leaving, AllParked, NewParked,
       Untouched, Parked, Buried
<1>4. CASE Next /\ mode' = "run" /\ ~(UNCHANGED vars)
  <2>1. Calm /\ mode = "run" /\ Switching
    BY <1>4, OnlyRunning DEF CalmInv
  <2>2. CASE SwapStacks
    BY <1>1, <1>2, <1>4, <2>1, <2>2, SwapSwitching DEF CalmInv
  <2>3. CASE ~SwapStacks
    BY <1>1, <1>2, <1>4, <2>1, <2>3, NextParked, NextChosen, NextBuried DEF Switching, CalmInv
  <2> QED
    BY <2>2, <2>3
<1>5. CASE mode' # "run"
  BY <1>2, <1>5 DEF CalmInv
<1> QED
  BY <1>3, <1>4, <1>5

LEMMA CalmInductive == Spec /\ [][Calm]_vars => []CalmInv
<1>1. Init => CalmInv
  BY InitCalm
<1>2. CalmInv /\ [Next]_vars /\ [Calm]_vars => CalmInv'
  BY NextCalm
<1> QED
  BY <1>1, <1>2, PTL DEF Spec

(* Every listed task but the one in hand, and idle, can be switched to, as
   long as no tick comes between a choice and its exchange of the stacks:
   whoever is created or killed, whether idle runs or not, and however far
   the count has drifted, a switch resumes the top of the stack of the task
   it chose, and nothing takes that stack away in between. *)
THEOREM AlwaysSwitchable == Spec /\ [][Calm]_vars => []Switchable
<1>1. CalmInv => Switchable
  <2> SUFFICES ASSUME CalmInv, mode = "run" PROVE Switchable
    BY DEF Switchable
  <2> QED
    BY DEF CalmInv, Switching, Chosen, AllParked, Parked, Window, Switchable
<1> QED
  BY <1>1, CalmInductive, PTL
-----------------------------------------------------------------------------
(* While the steps are steady. *)
GateInv == mode = "run" => Flat /\ Dormant /\ Gate /\ current # Idle

SteadyInv == CalmInv /\ KheapInv /\ GateInv

LEMMA SteadyIs ==
    ASSUME SteadyInv
    PROVE  /\ TypeOK /\ Shape /\ LockInv /\ BirthInv /\ ListSound /\ KheapInv /\ SleepInv /\ AllProper
           /\ mode = "run" => Flat /\ Dormant /\ Gate /\ Switching /\ Chosen /\ Fresh /\ current # Idle
  BY CalmIs DEF SteadyInv, GateInv, Switching

LEMMA InitSteady == Init => SteadyInv
<1> SUFFICES ASSUME Init PROVE SteadyInv
  OBVIOUS
<1>1. CalmInv /\ KheapInv
  BY InitCalm, InitKheap
<1>2. \A t \in Tasks : Len(under[t]) = 0
  BY EmptySeq DEF Init
<1>3. \A t \in Tasks : ~frame[t].irq /\ frame[t].at \in {"run", "resume"} /\ frame[t].op = "none"
  <2>1. \A flag : FreshFrame(flag).at = "resume" /\ ~FreshFrame(flag).irq /\ FreshFrame(flag).op = "none"
    BY DEF FreshFrame, At
  <2>2. At("run").at = "run" /\ ~At("run").irq /\ At("run").op = "none"
    BY DEF At
  <2> QED
    BY <2>1, <2>2 DEF Init
<1>4. frame[Kernel] = At("run")
  BY TasksAssumption DEF Init
<1>5. /\ cpu = Kernel /\ current = Kernel /\ Kernel \in Tasks /\ Kernel # Idle
      /\ interrupts_semaphore = 1 /\ eflags_if
  BY TasksAssumption DEF Init
<1>6. Flat /\ Dormant
  BY <1>2, <1>3 DEF Flat, Dormant
<1>7. Top.at = "run" /\ Top.op = "none" /\ ~Top.irq
  BY <1>4, <1>5 DEF Top, At
<1>8. Gate
  BY <1>5, <1>7 DEF Gate, Regular
<1> QED
  BY <1>1, <1>5, <1>6, <1>8 DEF SteadyInv, GateInv

(* A steady step is calm: a switch runs with interrupts off. *)
LEMMA SteadyCalm == ASSUME SteadyInv, mode = "run" PROVE Calm
<1>1. Gate /\ Proper(Top)
  BY SteadyIs, ProperIs
<1> QED
  BY <1>1 DEF Gate, TimerInterrupt, Proper, Calm, Window

LEMMA NextSteady == ASSUME SteadyInv, [Next]_vars, [Steady]_vars PROVE SteadyInv'
<1>1. TypeOK /\ Shape /\ LockInv /\ BirthInv /\ ListSound /\ KheapInv /\ SleepInv /\ AllProper
  BY SteadyIs
<1>2. mode = "run" => Flat /\ Dormant /\ Gate /\ Switching /\ Fresh /\ current # Idle
  BY SteadyIs
<1>3. CalmInv'
  <2>1. [Calm]_vars
    <3>1. CASE UNCHANGED vars
      BY <3>1
    <3>2. CASE Next
      BY <3>2, OnlyRunning, SteadyCalm
    <3> QED
      BY <3>1, <3>2
  <2> QED
    BY <2>1, NextCalm DEF SteadyInv
<1>4. KheapInv'
  BY <1>1, NextKheap
<1>5. CASE UNCHANGED vars
  <2>1. UNCHANGED <<mode, current, cpu, frame, under, gateVars>> /\ Top' = Top
    BY <1>5 DEF vars, Top
  <2>2. GateInv'
    BY <2>1 DEF SteadyInv, GateInv, gateVars, Flat, Open, Dormant, Gate, Regular
  <2> QED
    BY <1>3, <1>4, <2>2 DEF SteadyInv
<1>6. CASE Next /\ mode' = "run" /\ ~(UNCHANGED vars)
  <2>1. Steady /\ mode = "run"
    BY <1>6, OnlyRunning
  <2>2. Flat' /\ Dormant' /\ Gate'
    BY <1>1, <1>2, <1>6, <2>1, NextFlat, NextDormant, NextGate
  <2>3. current' # Idle
    BY <1>2, <2>1 DEF Steady
  <2> QED
    BY <1>3, <1>4, <2>2, <2>3 DEF SteadyInv, GateInv
<1>7. CASE mode' # "run"
  BY <1>3, <1>4, <1>7 DEF SteadyInv, GateInv
<1> QED
  BY <1>5, <1>6, <1>7

LEMMA SteadyInductive == Spec /\ [][Steady]_vars => []SteadyInv
<1>1. Init => SteadyInv
  BY InitSteady
<1>2. SteadyInv /\ [Next]_vars /\ [Steady]_vars => SteadyInv'
  BY NextSteady
<1> QED
  BY <1>1, <1>2, PTL DEF Spec

(* Code outside the kernel runs with the regular count and with interrupts
   on as long as the steps are steady: whatever the tasks call, create and
   kill, and wherever the ticks preempt them. *)
THEOREM CountRegular == Spec /\ [][Steady]_vars => []RegularCount
<1>1. SteadyInv => RegularCount
  <2> SUFFICES ASSUME SteadyInv, mode = "run", Top.at = "run"
               PROVE  interrupts_semaphore = 1 /\ eflags_if
    BY DEF RegularCount, Is
  <2> QED
    BY DEF SteadyInv, GateInv, Gate, Regular
<1> QED
  BY <1>1, SteadyInductive, PTL

LEMMA NoDeafSpin == ASSUME SteadyInv PROVE DeafSpinOnlyBehindShell
<1> SUFFICES ASSUME ~eflags_if, mode = "run"
             PROVE  /\ ~(Top.at = "lock" /\ lock = Locked)
                    /\ Top.at = "heap_lock" /\ kheap_lock = Locked =>
                         \E t \in Tasks \ {cpu} : \E i \in DOMAIN StackOf(t) :
                            StackOf(t)[i].at = "heap" /\ StackOf(t)[i].op = "heap"
  BY DEF DeafSpinOnlyBehindShell
<1>1. TypeOK /\ LockInv /\ AllProper /\ Flat /\ Dormant /\ KheapInv /\ cpu \in Tasks
  BY SteadyIs DEF TypeOK
<1>2. ~(Top.at = "lock" /\ lock = Locked)
  <2> SUFFICES ASSUME Top.at = "lock", lock = Locked PROVE FALSE
    OBVIOUS
  <2>1. PICK i \in 1..Len(under[cpu]) : Holding(under[cpu][i])
    BY <1>1 DEF LockInv, Holding
  <2>2. Len(under[cpu]) \in Nat
    BY <1>1, Stacks
  <2>3. i = 1 /\ Open(under[cpu][1])
    BY <1>1, <2>1, <2>2 DEF Flat
  <2>4. Proper(under[cpu][1])
    BY <1>1, <2>1, <2>3, ProperIs
  <2> QED
    BY <2>1, <2>3, <2>4 DEF Holding, Open, Proper
<1>3. ASSUME Top.at = "heap_lock", kheap_lock = Locked
      PROVE  \E t \in Tasks \ {cpu} : \E i \in DOMAIN StackOf(t) :
                StackOf(t)[i].at = "heap" /\ StackOf(t)[i].op = "heap"
  <2>1. PICK s : s \in Sites(InHeap)
    BY <1>1, <1>3 DEF KheapInv
  <2>2. PICK t \in Tasks, k \in Nat : k \in Spots(t) /\ FrameAt(t, k).at = "heap"
    <3>1. s[1] \in Tasks /\ s[2] \in Nat /\ s[2] \in Spots(s[1]) /\ FrameAt(s[1], s[2]) \in InHeap
      BY <1>1, <2>1, SiteIs
    <3> QED
      BY <3>1 DEF InHeap
  <2>3. Len(under[t]) \in Nat /\ Depth(t) = Len(under[t]) + 1 /\ k \in 1..Depth(t)
    BY <1>1, <2>2, Stacks DEF Depth, Spots
  <2>4. frame[t].at # "heap"
    BY <1>1, <1>3 DEF Dormant, Top
  <2>5. k # Depth(t) /\ FrameAt(t, k) = under[t][Depth(t) - k]
    BY <2>2, <2>4 DEF FrameAt
  <2>6. Len(under[t]) = 1 /\ Depth(t) - k = 1 /\ frame[t].irq /\ Open(under[t][1])
    BY <1>1, <2>3, <2>5 DEF Flat
  <2>7. under[t][1].at = "heap" /\ under[t][1].op = "heap"
    BY <2>2, <2>5, <2>6 DEF Open
  <2>8. t # cpu
    BY <1>1, <1>3, <2>6, ProperIs DEF Proper, Top
  <2>9. Depth(t) + 1 - k \in Spots(t) /\ Depth(t) + 1 - (Depth(t) + 1 - k) = k
    BY <2>3, <2>5 DEF Spots
  <2>10. /\ DOMAIN StackOf(t) = Spots(t)
         /\ StackOf(t)[Depth(t) + 1 - k] = FrameAt(t, Depth(t) + 1 - (Depth(t) + 1 - k))
    BY <1>1, <2>9, StackIs
  <2> QED
    BY <2>5, <2>6, <2>7, <2>8, <2>9, <2>10
<1> QED
  BY <1>2, <1>3

(* A processor that spins with interrupts off spins for ever; as long as the
   steps are steady it never does on the scheduler's lock, and on the heap's
   only behind an allocation the shell made with interrupts on. *)
THEOREM DeafOnlyBehindShell == Spec /\ [][Steady]_vars => []DeafSpinOnlyBehindShell
<1>1. SteadyInv => DeafSpinOnlyBehindShell
  BY NoDeafSpin
<1> QED
  BY <1>1, SteadyInductive, PTL
-----------------------------------------------------------------------------
(* The books of push_ints and pop_ints, however the gate drifts. *)

Debts(n) == {f \in Frame : Owed(f) >= n}

(* Only the tasks that were ever made have something on their stacks. *)
Finite == IsFiniteSet(Sites(Debts(1))) /\ IsFiniteSet(Suspended)

LEMMA OwedIs ==
    /\ \A f : Owed(f) \in 0..2
    /\ \A f \in Frame : (f \in Debts(1) <=> Owed(f) >= 1) /\ (f \in Debts(2) <=> Owed(f) = 2)
  BY DEF Owed, Debts

(* The sites of the frames that owe are the places Count speaks of. *)
LEMMA OwingIs ==
    ASSUME TypeOK, NEW n \in {1, 2}, IsFiniteSet(Sites(Debts(n)))
    PROVE  Cardinality(Owing(n)) = Cardinality(Sites(Debts(n)))
<1> DEFINE S == Sites(Debts(n))
           In(t) == {i \in DOMAIN StackOf(t) : Owed(StackOf(t)[i]) >= n}
           h == [s \in S |-> <<s[1], Depth(s[1]) + 1 - s[2]>>]
<1>1. Owing(n) = UNION {{t} \X In(t) : t \in Tasks}
  BY DEF Owing
<1>2. \A t \in Tasks : Depth(t) \in Nat \ {0} /\ Spots(t) = 1..Depth(t)
  BY Stacks DEF Spots
<1>3. ASSUME NEW s \in S
      PROVE  /\ s[1] \in Tasks /\ s = <<s[1], s[2]>> /\ s[2] \in Spots(s[1])
             /\ h[s] = <<s[1], Depth(s[1]) + 1 - s[2]>> /\ h[s] \in Owing(n)
  <2>1. /\ s[1] \in Tasks /\ s = <<s[1], s[2]>> /\ s[2] \in Spots(s[1])
        /\ FrameAt(s[1], s[2]) \in Debts(n)
    BY SiteIs
  <2>2. s[2] \in Nat /\ Depth(s[1]) + 1 - s[2] \in Spots(s[1])
        /\ Depth(s[1]) + 1 - (Depth(s[1]) + 1 - s[2]) = s[2]
    BY <1>2, <2>1
  <2>3. Depth(s[1]) + 1 - s[2] \in In(s[1])
    BY <2>1, <2>2, StackIs DEF Debts
  <2> QED
    BY <1>1, <2>1, <2>3
<1>4. ASSUME NEW p \in Owing(n) PROVE \E s \in S : h[s] = p
  <2>0. PICK t \in Tasks : \E i \in In(t) : p = <<t, i>>
    BY <1>1
  <2>1. PICK i \in In(t) : p = <<t, i>>
    BY <2>0
  <2>2. i \in Spots(t) /\ Depth(t) + 1 - i \in Spots(t) /\ FrameAt(t, Depth(t) + 1 - i) = StackOf(t)[i]
    BY StackIs
  <2>3. i \in Nat /\ Depth(t) + 1 - i \in Nat \ {0} /\ Depth(t) + 1 - (Depth(t) + 1 - i) = i
    BY <1>2, <2>2
  <2>4. FrameAt(t, Depth(t) + 1 - i) \in Debts(n)
    BY <2>2, Stacks DEF Debts
  <2>5. <<t, Depth(t) + 1 - i>> \in S
    BY <2>2, <2>3, <2>4 DEF Sites
  <2> QED
    BY <2>1, <2>3, <2>5
<1>5. ASSUME NEW r \in S, NEW s \in S, h[r] = h[s] PROVE r = s
  <2> HIDE DEF h, S
  <2>1. r[1] = s[1] /\ Depth(r[1]) + 1 - r[2] = Depth(s[1]) + 1 - s[2]
    BY <1>3, <1>5
  <2>2. r[2] \in Nat /\ s[2] \in Nat /\ Depth(s[1]) \in Nat
    BY <1>2, <1>3
  <2>3. r[2] = s[2]
    BY <2>1, <2>2
  <2> QED
    BY <1>3, <2>1, <2>3
<1>6. h \in [S -> Owing(n)]
  BY <1>3
<1> HIDE DEF h, S
<1>7. h \in Bijection(S, Owing(n))
  BY <1>4, <1>5, <1>6 DEF Bijection, Injection, Surjection, IsInjective
<1>8. ExistsBijection(S, Owing(n))
  BY <1>7 DEF ExistsBijection
<1> QED
  BY <1>8, FS_Bijection DEF S

(* What the counter is made of, by the sites. *)
Tally == interrupts_semaphore + Cardinality(Sites(Debts(1))) + Cardinality(Sites(Debts(2)))
            - Cardinality(Suspended)

LEMMA FiniteIs ==
    ASSUME TypeOK, Finite
    PROVE  /\ IsFiniteSet(Sites(Debts(2)))
           /\ Cardinality(Sites(Debts(1))) \in Nat /\ Cardinality(Sites(Debts(2))) \in Nat
           /\ Cardinality(Suspended) \in Nat /\ interrupts_semaphore \in Int
<1>1. Sites(Debts(2)) \subseteq Sites(Debts(1))
  <2>1. Debts(2) \subseteq Debts(1)
    BY OwedIs DEF Debts
  <2> QED
    BY <2>1 DEF Sites
<1>2. IsFiniteSet(Sites(Debts(2)))
  BY <1>1, FS_Subset DEF Finite
<1> QED
  BY <1>2, FS_CardinalityType DEF Finite, TypeOK

LEMMA TallyIs == ASSUME TypeOK, Finite PROVE Count = Tally /\ Count \in Int
  BY FiniteIs, OwingIs DEF Count, Tally, Finite

(* The frame in hand goes on: its own site may join or leave. *)
LEMMA SitesCount ==
    ASSUME TypeOK, NEW P, Onward, IsFiniteSet(Sites(P))
    PROVE  /\ IsFiniteSet(Sites(P))'
           /\ Cardinality(Sites(P))' = Cardinality(Sites(P)) + (IF Top' \in P THEN 1 ELSE 0)
                                                             - (IF Top \in P THEN 1 ELSE 0)
<1>1. Here \in Sites(P) <=> Top \in P
  BY HereIs
<1>2. Cardinality(Sites(P)) \in Nat
  BY FS_CardinalityType
<1>3. CASE Top' \in P
  <2>1. Sites(P)' = Sites(P) \cup {Here}
    BY <1>3, SitesGained DEF Onward
  <2> QED
    BY <1>1, <1>2, <1>3, <2>1, FS_AddElement
<1>4. CASE Top' \notin P
  <2>1. Sites(P)' = Sites(P) \ {Here}
    BY <1>4, SitesLost DEF Onward
  <2> QED
    BY <1>1, <1>2, <1>4, <2>1, FS_RemoveElement
<1> QED
  BY <1>3, <1>4

LEMMA OnwardTally ==
    ASSUME TypeOK, TypeOK', Finite, Onward
    PROVE  Finite' /\ Tally' = Tally + (interrupts_semaphore' - interrupts_semaphore) + Owed(Top') - Owed(Top)
<1>1. Suspended' = Suspended
  BY DEF Suspended, Onward, SetTop, TypeOK
<1>2. Top \in Frame /\ Top' \in Frame
  BY TopTypes DEF TypeOK, Top
<1>3. IsFiniteSet(Sites(Debts(2)))
  BY FiniteIs
<1> DEFINE P == Debts(1)
           Q == Debts(2)
<1>4. /\ Owed(Top) = (IF Top \in P THEN 1 ELSE 0) + (IF Top \in Q THEN 1 ELSE 0)
      /\ Owed(Top') = (IF Top' \in P THEN 1 ELSE 0) + (IF Top' \in Q THEN 1 ELSE 0)
  <2>1. \A f \in Frame : Owed(f) = (IF f \in P THEN 1 ELSE 0) + (IF f \in Q THEN 1 ELSE 0)
    BY OwedIs
  <2> QED
    BY <1>2, <2>1
<1>5. /\ Cardinality(Sites(P)) \in Nat /\ Cardinality(Sites(Q)) \in Nat
      /\ Cardinality(Suspended) \in Nat /\ interrupts_semaphore \in Int /\ interrupts_semaphore' \in Int
  BY FiniteIs DEF TypeOK
<1>6. P' = P /\ Q' = Q
  BY DEF Debts
<1> HIDE DEF P, Q
<1>7. /\ IsFiniteSet(Sites(P))'
      /\ Cardinality(Sites(P))' = Cardinality(Sites(P)) + (IF Top' \in P THEN 1 ELSE 0)
                                                        - (IF Top \in P THEN 1 ELSE 0)
  BY SitesCount DEF Finite, P
<1>8. Cardinality(Sites(Q))' = Cardinality(Sites(Q)) + (IF Top' \in Q THEN 1 ELSE 0)
                                                     - (IF Top \in Q THEN 1 ELSE 0)
  BY <1>3, SitesCount DEF Q
<1>9. Finite'
  BY <1>1, <1>7 DEF Finite, P
<1>10. /\ Tally = interrupts_semaphore + Cardinality(Sites(P)) + Cardinality(Sites(Q)) - Cardinality(Suspended)
       /\ Tally' = interrupts_semaphore' + Cardinality(Sites(P))' + Cardinality(Sites(Q))' - Cardinality(Suspended)'
  BY DEF Tally, P, Q
<1> QED
  BY <1>1, <1>4, <1>5, <1>7, <1>8, <1>9, <1>10

(* The other steps that touch the stacks leave the books as they were: the
   interrupt's pop_ints is owed by the frame it pushes, ... *)
LEMMA TimerTally ==
    ASSUME TypeOK, TypeOK', Finite, TimerInterrupt
    PROVE  Finite' /\ Tally' = Tally
<1> DEFINE new == <<cpu, Depth(cpu) + 1>>
<1>1. cpu' = cpu /\ cpu \in Tasks /\ interrupts_semaphore' = interrupts_semaphore - 1
  BY DEF TimerInterrupt, pop_ints, TypeOK
<1>2. Suspended' = Suspended
  BY <1>1 DEF Suspended, TimerInterrupt, SetTop, TypeOK
<1>3. Top'.at = "tick" /\ Top'.op = "none" /\ Top' \in Frame
  BY <1>1, Pushed, TopTypes DEF At, TypeOK, Top
<1>4. Owed(Top') = 1
  BY <1>3 DEF Owed
<1>5. Top' \in Debts(1) /\ Top' \notin Debts(2)
  BY <1>3, <1>4, OwedIs
<1>6. Sites(Debts(2))' = Sites(Debts(2))
  BY <1>5, SitesPushed DEF Debts
<1>7. Depth(cpu) \in Nat \ {0}
  BY <1>1, Stacks
<1>8. new \notin Sites(Debts(1))
  BY <1>7 DEF Sites, Spots
<1>9. ASSUME NEW s \in Tasks \X (Nat \ {0})
      PROVE  s \in Sites(Debts(1))' <=> s \in Sites(Debts(1)) \/ s = new
  <2>1. s[1] \in Tasks /\ s[2] \in Nat \ {0} /\ s = <<s[1], s[2]>>
    OBVIOUS
  <2>2. CASE s[1] # cpu
    BY <2>1, <2>2, Pushed DEF Sites, Spots, Debts
  <2>3. CASE s[1] = cpu
    <3>1. Spots(cpu)' = Spots(cpu) \cup {Depth(cpu) + 1} /\ Depth(cpu) + 1 \notin Spots(cpu)
      BY <1>7, Pushed DEF Spots
    <3>2. CASE s[2] = Depth(cpu) + 1
      <4>1. Depth(s[1])' = Depth(cpu) + 1
        BY <1>1, <2>3, Pushed DEF Depth
      <4>2. FrameAt(s[1], s[2])' = Top' /\ s[2] \in Spots(s[1])'
        BY <1>1, <1>7, <2>3, <3>2, <4>1 DEF FrameAt, Top, Spots
      <4>3. s \in Sites(Debts(1))'
        BY <1>5, <4>2 DEF Sites, Debts
      <4> QED
        BY <2>1, <2>3, <3>2, <4>3
    <3>3. CASE s[2] # Depth(cpu) + 1
      BY <2>1, <2>3, <3>1, <3>3, Pushed DEF Sites, Debts
    <3> QED
      BY <3>2, <3>3
  <2> QED
    BY <2>2, <2>3
<1>10. Sites(Debts(1))' = Sites(Debts(1)) \cup {new}
  <2>1. new \in Tasks \X (Nat \ {0})
    BY <1>1, <1>7
  <2>2. Sites(Debts(1))' \subseteq Tasks \X (Nat \ {0}) /\ Sites(Debts(1)) \subseteq Tasks \X (Nat \ {0})
    BY DEF Sites
  <2> HIDE DEF new
  <2> QED
    BY <1>9, <2>1, <2>2
<1> HIDE DEF new
<1>11. Cardinality(Sites(Debts(1)))' = Cardinality(Sites(Debts(1))) + 1 /\ IsFiniteSet(Sites(Debts(1))')
  BY <1>8, <1>10, FS_AddElement DEF Finite
<1> QED
  BY <1>1, <1>2, <1>6, <1>11, FiniteIs DEF Finite, Tally

(* ...its iret comes when nothing is owed any more, ... *)
LEMMA IretTally ==
    ASSUME TypeOK, Shape, TypeOK', Finite, Iret
    PROVE  Finite' /\ Tally' = Tally
<1>1. cpu' = cpu /\ interrupts_semaphore' = interrupts_semaphore /\ Top.at = "iret"
  BY DEF Iret, Is
<1>2. Suspended' = Suspended
  BY <1>1 DEF Suspended, Iret, SetTop, TypeOK
<1>3. Owed(Top) = 0 /\ Top \in Frame
  BY <1>1, TopTypes DEF Owed
<1>4. Top \notin Debts(1) /\ Top \notin Debts(2)
  BY <1>3, OwedIs
<1>5. Sites(Debts(1))' = Sites(Debts(1)) /\ Sites(Debts(2))' = Sites(Debts(2))
  BY <1>4, SitesPopped DEF Debts
<1> QED
  BY <1>1, <1>2, <1>5 DEF Finite, Tally

(* ...a new task is suspended with the push_ints of its first switch owed,
   and the exchange of two stacks leaves one suspended for the other. *)
LEMMA MakesTally ==
    ASSUME TypeOK, Shape, TypeOK', Finite, Untouched, HeapDone, Top.op = "new"
    PROVE  Finite' /\ Tally' = Tally
<1>0. PICK new \in Tasks : new = Top.arg
  BY HeapSteps
<1>1. Top.at = "heap" /\ Makes(new) /\ Top.arg = new /\ interrupts_semaphore' = interrupts_semaphore
  BY <1>0, HeapSteps DEF HeapDone, gateVars
<1>2. new # cpu /\ frame[new].at = "run" /\ cpu \in Tasks
  BY <1>1, FreshIs DEF Fresh, TypeOK
<1>3. PICK flag \in StaleFlags :
         frame' = [frame EXCEPT ![new] = FreshFrame(flag), ![cpu] = Moved("lock")]
  BY <1>1 DEF Makes
<1>4. /\ frame'[new] = FreshFrame(flag) /\ frame'[cpu] = Moved("lock") /\ under' = under /\ cpu' = cpu
      /\ \A t \in Tasks : t # cpu /\ t # new => frame'[t] = frame[t]
  BY <1>1, <1>2, <1>3 DEF TypeOK, Makes
<1>5. frame'[new].at = "resume" /\ frame'[new].op = "none" /\ frame'[new] \in Frame
  BY <1>4 DEF FreshFrame, At, TypeOK
<1>6. frame'[cpu].at = "lock" /\ frame'[cpu].op = "new" /\ frame'[cpu] \in Frame
  <2>1. frame'[cpu] \in Frame
    BY <1>2 DEF TypeOK
  <2>2. Moved("lock").at = "lock" /\ Moved("lock").op = Top.op
    BY MovedFields
  <2> QED
    BY <1>4, <2>1, <2>2
<1>7. /\ Owed(frame'[new]) = 1 /\ Owed(frame'[cpu]) = 1 /\ Owed(Top) = 1 /\ Owed(frame[new]) = 0
      /\ Top = frame[cpu] /\ frame[cpu] \in Frame /\ frame[new] \in Frame
  BY <1>1, <1>2, <1>5, <1>6 DEF Owed, Top, TypeOK
<1>8. Sites(Debts(2))' = Sites(Debts(2))
  <2>1. \A t \in {new, cpu} : t \in Tasks /\ (frame'[t] \in Debts(2) <=> frame[t] \in Debts(2))
    BY <1>2, <1>5, <1>6, <1>7, OwedIs
  <2>2. Debts(2)' = Debts(2)
    BY DEF Debts
  <2>3. \A t \in Tasks \ {new, cpu} : frame'[t] = frame[t]
    BY <1>4
  <2> DEFINE P == Debts(2)
  <2> HIDE DEF P
  <2>4. Sites(P)' = Sites(P)
    BY <1>4, <2>1, <2>3, SitesSet DEF P
  <2> QED
    BY <2>4 DEF P
<1>9. /\ frame'[new] \in Debts(1) /\ frame'[cpu] \in Debts(1)
      /\ frame[cpu] \in Debts(1) /\ frame[new] \notin Debts(1)
  BY <1>2, <1>5, <1>6, <1>7, OwedIs
<1>10. \A t \in Tasks : Depth(t)' = Depth(t) /\ Spots(t)' = Spots(t)
  BY <1>4 DEF Depth, Spots
<1>11. \A t \in Tasks : \A k : FrameAt(t, k)' =
          IF t = new /\ k = Depth(new) THEN frame'[new]
          ELSE IF t = cpu /\ k = Depth(cpu) THEN frame'[cpu] ELSE FrameAt(t, k)
  BY <1>2, <1>4, <1>10 DEF FrameAt
<1> DEFINE place == <<new, Depth(new)>>
<1>12. place \in Tasks \X (Nat \ {0}) /\ Depth(new) \in Spots(new) /\ FrameAt(new, Depth(new)) = frame[new]
       /\ FrameAt(cpu, Depth(cpu)) = frame[cpu]
  BY <1>2, Stacks
<1>13. place \notin Sites(Debts(1))
  BY <1>9, <1>12 DEF Sites
<1>14. ASSUME NEW s \in Tasks \X (Nat \ {0})
       PROVE  s \in Sites(Debts(1))' <=> s \in Sites(Debts(1)) \/ s = place
  <2>1. s[1] \in Tasks /\ s[2] \in Nat \ {0} /\ s = <<s[1], s[2]>> /\ Debts(1)' = Debts(1)
    BY DEF Debts
  <2>2. s = place <=> s[1] = new /\ s[2] = Depth(new)
    BY <2>1
  <2>3. FrameAt(s[1], s[2])' \in Debts(1) <=> s = place \/ FrameAt(s[1], s[2]) \in Debts(1)
    BY <1>9, <1>11, <1>12, <2>1, <2>2
  <2>4. s = place => s[2] \in Spots(s[1])
    BY <1>12, <2>2
  <2> QED
    BY <1>10, <2>1, <2>3, <2>4 DEF Sites
<1>15. Sites(Debts(1))' = Sites(Debts(1)) \cup {place}
  <2>1. Sites(Debts(1))' \subseteq Tasks \X (Nat \ {0}) /\ Sites(Debts(1)) \subseteq Tasks \X (Nat \ {0})
    BY DEF Sites
  <2> HIDE DEF place
  <2> QED
    BY <1>12, <1>14, <2>1
<1> HIDE DEF place
<1>16. Cardinality(Sites(Debts(1)))' = Cardinality(Sites(Debts(1))) + 1 /\ IsFiniteSet(Sites(Debts(1))')
  BY <1>13, <1>15, FS_AddElement DEF Finite
<1>17. Suspended' = Suspended \cup {new} /\ new \notin Suspended
  BY <1>2, <1>4, <1>5 DEF Suspended
<1>18. Cardinality(Suspended)' = Cardinality(Suspended) + 1 /\ IsFiniteSet(Suspended')
  BY <1>17, FS_AddElement DEF Finite
<1> QED
  BY <1>1, <1>8, <1>16, <1>18, FiniteIs DEF Finite, Tally

LEMMA SwapTally ==
    ASSUME TypeOK, TypeOK', Finite, SwapStacks, SwapsTo(Top.esp)
    PROVE  Finite' /\ Tally' = Tally
<1>0. PICK to \in Tasks, old \in Tasks : to = Top.esp /\ old = cpu
  BY DEF SwapsTo, TypeOK
<1>1. /\ to # old /\ frame[to].at = "resume" /\ under' = under /\ cpu' = to /\ Top.at = "swap"
      /\ interrupts_semaphore' = interrupts_semaphore
  BY <1>0 DEF SwapsTo, SwapStacks, Is
<1>2. /\ frame'[old].at = "resume" /\ frame'[old].op = Top.op /\ frame'[old] \in Frame
      /\ \A t \in Tasks : t # old => frame'[t] = frame[t]
  BY <1>0 DEF SwapsTo, TypeOK
<1>3. Owed(frame'[old]) = Owed(Top)
  BY <1>1, <1>2 DEF Owed
<1>4. frame[old] = Top /\ Top \in Frame
  BY <1>0, TopTypes DEF Top
<1>5. SetTop(frame'[cpu]) /\ frame'[cpu] = frame'[old]
  BY <1>0 DEF SwapsTo, SetTop
<1>6. /\ frame'[old] \in Debts(1) <=> Top \in Debts(1)
      /\ frame'[old] \in Debts(2) <=> Top \in Debts(2)
  BY <1>2, <1>3, <1>4, OwedIs
<1>7. Debts(1)' = Debts(1) /\ Debts(2)' = Debts(2)
  BY DEF Debts
<1>8. Sites(Debts(1))' = Sites(Debts(1))
  <2> DEFINE P == Debts(1)
  <2> HIDE DEF P
  <2>1. Sites(P)' = Sites(P)
    BY <1>1, <1>5, <1>6, SitesKept DEF P
  <2> QED
    BY <2>1 DEF P
<1>9. Sites(Debts(2))' = Sites(Debts(2))
  <2> DEFINE P == Debts(2)
  <2> HIDE DEF P
  <2>1. Sites(P)' = Sites(P)
    BY <1>1, <1>5, <1>6, SitesKept DEF P
  <2> QED
    BY <2>1 DEF P
<1> DEFINE rest == Suspended \ {to}
<1>10. to \in Suspended /\ Suspended' = rest \cup {old} /\ old \notin rest
  BY <1>0, <1>1, <1>2 DEF Suspended
<1>11. /\ IsFiniteSet(rest) /\ Cardinality(rest) = Cardinality(Suspended) - 1
  BY <1>10, FS_RemoveElement DEF Finite
<1> HIDE DEF rest
<1>12. IsFiniteSet(Suspended') /\ Cardinality(Suspended)' = Cardinality(Suspended)
  <2>1. IsFiniteSet(rest \cup {old}) /\ Cardinality(rest \cup {old}) = Cardinality(rest) + 1
    BY <1>10, <1>11, FS_AddElement
  <2>2. Cardinality(Suspended) \in Nat
    BY FiniteIs
  <2> QED
    BY <1>10, <1>11, <2>1, <2>2
<1> QED
  BY <1>1, <1>8, <1>9, <1>12 DEF Finite, Tally

LEMMA StillOnward == ASSUME TypeOK, Still PROVE Onward
<1>1. Top' = Top /\ frame' = frame /\ under' = under /\ cpu' = cpu
  BY SitesStill DEF Still
<1>2. frame = [frame EXCEPT ![cpu] = Top]
  BY DEF TypeOK, Top
<1> QED
  BY <1>1, <1>2 DEF Onward, SetTop

(* What a step changes in the counter and what the frame in hand owes. *)
Gain == interrupts_semaphore' + Owed(Top') - (interrupts_semaphore + Owed(Top))

Booked ==
    \/ Gain = 0
    \/ Gain = 1 /\ SelectNext /\ current' = Idle
    \/ Gain = -1 /\ (FaultKill \/ FaultPanic)

LEMMA CallBooked ==
    ASSUME TypeOK, TypeOK', Shape, AllProper, TaskCall
    PROVE  Booked
<1>1. Top.at = "run" /\ Owed(Top) = 0
  BY CallSteps DEF Owed
<1>2. interrupts_semaphore \in Int /\ interrupts_semaphore' \in Int
  BY DEF TypeOK
<1>3. ASSUME NEW op, NEW arg, Starts("pop", op, arg) PROVE Owed(Top') = 0
  BY <1>3 DEF Starts, Owed
<1>4. CASE Sleep
  <2>1. interrupts_semaphore' = interrupts_semaphore
    BY <1>4 DEF Sleep, gateVars
  <2>2. Owed(Top') = 0
    BY <1>3, <1>4, CallSteps
  <2> QED
    BY <1>1, <1>2, <2>1, <2>2 DEF Booked, Gain
<1>5. CASE Yield \/ Dump \/ KillMe \/ KillTask \/ KillOwnId
  <2>1. PICK call, op, args : Call(call, op, args)
    BY <1>5 DEF Yield, Dump, KillMe, KillTask, KillOwnId
  <2>2. interrupts_semaphore' = interrupts_semaphore
    BY <2>1 DEF Call, gateVars
  <2>3. Owed(Top') = 0
    BY <1>3, <2>1, CallSteps
  <2> QED
    BY <1>1, <1>2, <2>2, <2>3 DEF Booked, Gain
<1>6. CASE NewTask
  <2>1. interrupts_semaphore' = interrupts_semaphore
    BY <1>6 DEF NewTask, gateVars
  <2>2. Owed(Top') = 0
    BY <1>3, <1>6, CallSteps
  <2> QED
    BY <1>1, <1>2, <2>1, <2>2 DEF Booked, Gain
<1>7. CASE UseHeap
  <2>1. interrupts_semaphore' = interrupts_semaphore
    BY <1>7 DEF UseHeap, gateVars
  <2>2. Owed(Top') = 0
    BY <1>7, CallSteps DEF Starts, Owed
  <2> QED
    BY <1>1, <1>2, <2>1, <2>2 DEF Booked, Gain
<1>8. CASE FaultKill
  <2>1. interrupts_semaphore' = interrupts_semaphore - 1
    BY <1>8 DEF FaultKill, pop_ints
  <2>2. Owed(Top') = 0
    BY <1>3, <1>8, CallSteps
  <2> QED
    BY <1>1, <1>2, <1>8, <2>1, <2>2 DEF Booked, Gain
<1>9. CASE KillKernel
  <2>1. interrupts_semaphore' = interrupts_semaphore
    BY <1>9, Zenon DEF KillKernel
  <2>2. Top' = Top
    BY <1>9, CallSteps, SitesStill
  <2> QED
    BY <1>1, <1>2, <2>1, <2>2 DEF Booked, Gain
<1>10. CASE FaultPanic
  <2>1. interrupts_semaphore' = interrupts_semaphore - 1
    BY <1>10 DEF FaultPanic
  <2>2. Top' = Top
    BY <1>10, CallSteps, SitesStill
  <2> QED
    BY <1>1, <1>2, <1>10, <2>1, <2>2 DEF Booked, Gain
<1> QED
  BY <1>4, <1>5, <1>6, <1>7, <1>8, <1>9, <1>10 DEF TaskCall

LEMMA KernelBooked ==
    ASSUME TypeOK, TypeOK', Shape, AllProper, KernelStep, ~Iret,
           ~(HeapDone /\ Top.op = "new"), SwapStacks => Still
    PROVE  Booked
<1>1. interrupts_semaphore \in Int /\ interrupts_semaphore' \in Int
  BY DEF TypeOK
<1>2. Proper(Top) /\ Wellformed(Top)
  BY ProperIs, TopShape
<1> USE DEF Passes, Returns, Booked, Gain
<1>3. CASE Tick
  <2>1. Top.at = "tick" /\ Top.op = "none"
    BY <1>2, <1>3, InterruptSteps DEF Proper
  <2>2. Owed(Top) = 1
    BY <2>1 DEF Owed
  <2>3. CASE Top'.at = "pop" /\ interrupts_semaphore' = interrupts_semaphore + 1
    <3>1. Owed(Top') = 0
      BY <2>3 DEF Owed
    <3> QED
      BY <1>1, <2>2, <2>3, <3>1
  <2>4. CASE Top'.at = "exit" /\ Top'.op = "none" /\ interrupts_semaphore' = interrupts_semaphore
    <3>1. Owed(Top') = 1
      BY <2>4 DEF Owed
    <3> QED
      BY <1>1, <2>2, <2>4, <3>1
  <2> QED
    BY <1>3, <2>1, <2>3, <2>4, InterruptSteps
<1>4. CASE UndoCount
  <2>1. Top.at = "undo" /\ Top.op = "none" /\ Top'.at = "exit" /\ Top'.op = "none"
    BY <1>2, <1>4, InterruptSteps DEF Proper
  <2>2. interrupts_semaphore' = interrupts_semaphore - 1
    BY <1>4 DEF UndoCount
  <2> QED
    BY <1>1, <2>1, <2>2 DEF Owed
<1>5. CASE ExitInterrupt
  <2>1. Top.at = "exit" /\ Top.op = "none" /\ Top'.at = "iret"
    BY <1>2, <1>5, InterruptSteps DEF Proper
  <2>2. interrupts_semaphore' = interrupts_semaphore + 1
    BY <1>5 DEF ExitInterrupt, push_ints
  <2> QED
    BY <1>1, <2>1, <2>2 DEF Owed
<1>6. CASE PopInts
  <2>1. Top.at = "pop" /\ Top'.at \in {"lock", "heap_lock"} /\ Top'.op = Top.op
        /\ Top.op \notin {"heap", "idle"}
    BY <1>2, <1>6, LockSteps DEF Proper
  <2>2. interrupts_semaphore' = interrupts_semaphore - 1
    BY <1>6 DEF PopInts, pop_ints
  <2>3. Owed(Top) = 0 /\ Owed(Top') = 1
    BY <2>1 DEF Owed
  <2> QED
    BY <1>1, <2>2, <2>3
<1>7. CASE LockSched
  <2>1. Top.at = "lock" /\ Top'.op = Top.op /\ Top.op \notin {"heap", "idle"}
        /\ Top'.at \in {"select", "link", "leave", "unlist"}
    BY <1>2, <1>7, LockSteps DEF Proper, UnderLock
  <2>2. interrupts_semaphore' = interrupts_semaphore
    BY <1>7 DEF LockSched, gateVars
  <2>3. Owed(Top) = 1 /\ Owed(Top') = 1
    BY <2>1 DEF Owed
  <2> QED
    BY <1>1, <2>2, <2>3
<1>8. CASE LockHeap
  <2>1. Top.at = "heap_lock" /\ Top'.op = Top.op /\ Top'.at = "heap"
    BY <1>8, LockSteps
  <2>2. interrupts_semaphore' = interrupts_semaphore
    BY <1>8 DEF LockHeap, gateVars
  <2>3. Owed(Top) = Owed(Top') /\ Owed(Top) \in Int
    BY <2>1 DEF Owed
  <2> QED
    BY <1>1, <2>2, <2>3
<1>9. CASE HeapDone
  <2>1. interrupts_semaphore' = interrupts_semaphore
    BY <1>9 DEF HeapDone, gateVars
  <2>2. Owed(Top) = Owed(Top') /\ Owed(Top) \in Int
    BY <1>9, HeapSteps DEF Owed
  <2> QED
    BY <1>1, <2>1, <2>2
<1>10. CASE LinkTask \/ UnlistOther
  <2>1. interrupts_semaphore' = interrupts_semaphore
    BY <1>10 DEF LinkTask, UnlistOther, gateVars
  <2>2. Top.op \in {"new", "kill"} /\ Top'.op = Top.op /\ Top.at \in {"link", "unlist"}
        /\ Top'.at \in {"leave", "heap_lock"}
    BY <1>2, <1>10, ListSteps DEF Wellformed
  <2>3. Owed(Top) = 1 /\ Owed(Top') = 1
    BY <2>2 DEF Owed
  <2> QED
    BY <1>1, <2>1, <2>3
<1>11. CASE UnlistCurrent
  <2>1. interrupts_semaphore' = interrupts_semaphore
    BY <1>11 DEF UnlistCurrent
  <2>2. CASE Still
    BY <1>1, <2>1, <2>2, SitesStill, OwedIs
  <2>3. CASE ~Still
    <3>1. Top.at = "unlist" /\ Top.op \in {"kill", "exit"} /\ Top'.at = "heap_lock" /\ Top'.op = "exit"
      BY <1>2, <1>11, <2>3, ListSteps DEF Proper
    <3>2. Owed(Top) = 1 /\ Owed(Top') = 1
      BY <3>1 DEF Owed
    <3> QED
      BY <1>1, <2>1, <3>2
  <2> QED
    BY <2>2, <2>3
<1>12. CASE SelectNext
  <2>1. interrupts_semaphore' = interrupts_semaphore
    BY <1>12 DEF SelectNext, gateVars
  <2>2. Top.at = "select" /\ Top.op = "yield"
    BY <1>2, <1>12, ListSteps DEF Wellformed
  <2>3. Owed(Top) = 1
    BY <2>2 DEF Owed
  <2>4. \/ Top'.at = "leave" /\ Top'.op = "yield"
        \/ Top'.at = "unlock" /\ Top'.op = "yield"
        \/ Top'.at = "unlock" /\ Top'.op = "idle" /\ current' = Idle
    BY <1>12, <2>2, ListSteps DEF Switches
  <2>5. Owed(Top') = 1 \/ (Owed(Top') = 2 /\ current' = Idle)
    BY <2>4 DEF Owed
  <2> QED
    BY <1>1, <1>12, <2>1, <2>3, <2>5
<1>13. CASE ReleaseToSwitch \/ LoadEsp
  <2>1. interrupts_semaphore' = interrupts_semaphore
    BY <1>13 DEF ReleaseToSwitch, LoadEsp, gateVars
  <2>2. Top.at \in {"unlock", "load"} /\ Top'.at \in {"load", "swap"} /\ Top'.op = Top.op
    BY <1>13, SwitchSteps
  <2>3. Owed(Top') = Owed(Top) /\ Owed(Top) \in Int
    BY <2>2 DEF Owed
  <2> QED
    BY <1>1, <2>1, <2>3
<1>14. CASE SwapStacks
  <2>1. interrupts_semaphore' = interrupts_semaphore
    BY <1>14 DEF SwapStacks
  <2> QED
    BY <1>1, <1>14, <2>1, SitesStill, OwedIs
<1>15. CASE Resume
  <2>1. interrupts_semaphore' = interrupts_semaphore + 1
    BY <1>15 DEF Resume, push_ints
  <2>2. Owed(Top') = Owed(Top) - 1
    <3>1. CASE Top.op = "idle"
      BY <1>15, <3>1, SwitchSteps DEF Owed
    <3>2. CASE Top.op # "idle"
      <4>1. Top.at = "resume" /\ Top.op # "heap" /\ Returns
        BY <1>2, <1>15, <3>2, SwitchSteps DEF Proper
      <4> QED
        BY <3>2, <4>1 DEF Owed
    <3> QED
      BY <3>1, <3>2
  <2> QED
    BY <1>1, <2>1, <2>2, OwedIs
<1>16. CASE Leave
  <2>1. interrupts_semaphore' = interrupts_semaphore
    BY <1>16 DEF Leave, gateVars
  <2>2. Top.at = "leave" /\ Top'.at = "push" /\ Top'.op = Top.op
    BY <1>16, LockSteps
  <2>3. Owed(Top') = Owed(Top) /\ Owed(Top) \in Int
    BY <2>2 DEF Owed
  <2> QED
    BY <1>1, <2>1, <2>3
<1>17. CASE PushInts
  <2>1. interrupts_semaphore' = interrupts_semaphore + 1
    BY <1>17 DEF PushInts, push_ints
  <2>2. Top.at = "push" /\ Top.op # "heap" /\ Returns
    BY <1>2, <1>17, LockSteps DEF Proper
  <2>3. Owed(Top) = 1 /\ Owed(Top') = 0
    BY <2>2 DEF Owed
  <2> QED
    BY <1>1, <2>1, <2>3
<1> QED
  BY <1>3, <1>4, <1>5, <1>6, <1>7, <1>8, <1>9, <1>10, <1>11, <1>12, <1>13, <1>14, <1>15, <1>16,
     <1>17 DEF KernelStep

(* The books over a step of any kind. *)
BooksInv == IInv /\ AllProper /\ BirthInv /\ Untouched /\ Finite

LEMMA NextTally ==
    ASSUME BooksInv, TypeOK', Next
    PROVE  /\ Finite'
           /\ \/ Tally' = Tally
              \/ Tally' = Tally + 1 /\ SelectNext /\ current' = Idle
              \/ Tally' = Tally - 1 /\ (FaultKill \/ FaultPanic)
<1>1. TypeOK /\ Shape /\ AllProper /\ BirthInv /\ Untouched /\ Finite
  BY DEF BooksInv, IInv
<1>2. CASE HeapDone /\ Top.op = "new"
  BY <1>1, <1>2, MakesTally
<1>3. CASE SwapStacks /\ ~Still
  <2>1. SwapsTo(Top.esp)
    BY <1>1, <1>3, SwitchSteps
  <2> QED
    BY <1>1, <1>3, <2>1, SwapTally
<1>4. CASE TimerInterrupt
  BY <1>1, <1>4, TimerTally
<1>5. CASE Iret
  BY <1>1, <1>5, IretTally
<1>6. CASE /\ ~TimerInterrupt /\ ~Iret
           /\ ~(HeapDone /\ Top.op = "new") /\ ~(SwapStacks /\ ~Still)
  <2>1. Onward
    BY <1>1, <1>6, NextSteps, StillOnward, Zenon
  <2>2. Booked
    BY <1>1, <1>6, CallBooked, KernelBooked, Zenon DEF Next
  <2>3. /\ Finite'
        /\ Tally' = Tally + (interrupts_semaphore' - interrupts_semaphore) + Owed(Top') - Owed(Top)
    BY <1>1, <2>1, OnwardTally
  <2>4. interrupts_semaphore' \in Int
    BY DEF TypeOK
  <2>5. Tally \in Int /\ interrupts_semaphore \in Int
    BY <1>1, FiniteIs DEF Tally
  <2>6. Owed(Top) \in Int /\ Owed(Top') \in Int
    BY OwedIs
  <2>7. Tally' = Tally + Gain /\ Gain \in Int
    BY <2>3, <2>4, <2>5, <2>6 DEF Gain
  <2> QED
    BY <2>2, <2>3, <2>5, <2>7 DEF Booked
<1> QED
  BY <1>2, <1>3, <1>4, <1>5, <1>6

(* Until its stack is made nothing is on the stack of a task, whatever the
   gate does. *)
LEMMA UntouchedKept ==
    ASSUME TypeOK, Shape, BirthInv, Untouched, Next
    PROVE  Untouched'
<1>1. CASE HeapDone /\ Top.op = "new"
  BY <1>1, MadeTouched
<1>2. CASE SwapStacks
  <2>1. Top.at = "swap" /\ created' = created
    BY <1>2, SwitchSteps DEF SwapStacks, taskVars
  <2>2. \A t \in Tasks : Sites(BlankFrames(t))' \subseteq Sites(BlankFrames(t))
    BY <2>1, CallSteps, BlankSites DEF TaskCall
  <2>3. CASE Still
    BY <2>1, <2>2, <2>3 DEF Untouched, Still
  <2>4. CASE SwapsTo(Top.esp)
    <3>1. PICK to \in Tasks : to = Top.esp
      BY <2>4 DEF SwapsTo
    <3>2. frame[to].at = "resume" /\ cpu' = to /\ \A t \in Tasks : t # cpu => frame'[t] = frame[t]
      BY <2>4, <3>1 DEF SwapsTo, TypeOK
    <3> QED
      BY <2>1, <2>2, <3>1, <3>2 DEF Untouched
  <2> QED
    BY <1>2, <2>3, <2>4, SwitchSteps
<1>3. CASE ~(HeapDone /\ Top.op = "new") /\ ~SwapStacks
  <2>1. /\ created \subseteq created' /\ cpu' = cpu
        /\ \A t \in Tasks : t # cpu => frame'[t] = frame[t]
    BY <1>3, OthersKept
  <2>2. \A t \in Tasks : \/ Sites(BlankFrames(t))' \subseteq Sites(BlankFrames(t))
                         \/ t \notin created
    BY BlankSites
  <2> QED
    BY <2>1, <2>2 DEF Untouched
<1> QED
  BY <1>1, <1>2, <1>3

LEMMA InitBooks == Init => BooksInv
<1> SUFFICES ASSUME Init PROVE BooksInv
  OBVIOUS
<1>1. CalmInv /\ mode = "run"
  BY InitCalm DEF Init
<1>2. IInv /\ AllProper /\ BirthInv /\ Untouched /\ TypeOK
  BY <1>1 DEF CalmInv, ListInv, Switching, IInv
<1>3. IsFiniteSet(created)
  <2>1. Started \in Seq(Tasks \ {Idle}) /\ created = {Kernel, Idle} \cup Range(Started)
    BY StartedAssumption DEF Init
  <2>2. Len(Started) \in Nat /\ Started \in [1..Len(Started) -> Tasks \ {Idle}]
    BY <2>1, LenProperties
  <2>3. Started \in Surjection(1..Len(Started), Range(Started))
    BY <2>2 DEF Surjection, Range
  <2>4. IsFiniteSet(Range(Started))
    BY <2>2, <2>3, FS_Interval, FS_Surjection
  <2>5. IsFiniteSet((Range(Started) \cup {Kernel}) \cup {Idle})
    BY <2>4, FS_AddElement
  <2>6. created = (Range(Started) \cup {Kernel}) \cup {Idle}
    BY <2>1
  <2> QED
    BY <2>5, <2>6
<1>4. \A t \in Tasks : t \notin created => frame[t] = At("run")
  BY DEF Init
<1>5. Suspended \subseteq created
  BY <1>4 DEF Suspended, At
<1>6. Sites(Debts(1)) \subseteq created \X {1}
  <2>1. \A t \in Tasks : Depth(t) = 1 /\ Spots(t) = {1}
    <3>1. \A t \in Tasks : Len(under[t]) = 0
      BY EmptySeq DEF Init
    <3> QED
      BY <3>1 DEF Spots, Depth
  <2>2. ASSUME NEW s \in Sites(Debts(1)) PROVE s \in created \X {1}
    <3>1. s[1] \in Tasks /\ s = <<s[1], s[2]>> /\ s[2] \in Spots(s[1])
          /\ FrameAt(s[1], s[2]) \in Debts(1)
      BY <1>2, SiteIs
    <3>2. s[2] = 1 /\ frame[s[1]] \in Debts(1)
      BY <2>1, <3>1 DEF FrameAt
    <3>3. s[1] \in created
      BY <1>4, <3>1, <3>2 DEF Debts, Owed, At
    <3> QED
      BY <3>1, <3>2, <3>3
  <2> QED
    BY <2>2
<1>7. Finite
  <2>1. IsFiniteSet(created \X {1})
    BY <1>3, FS_Singleton, FS_Product
  <2> QED
    BY <1>3, <1>5, <1>6, <2>1, FS_Subset DEF Finite
<1> QED
  BY <1>2, <1>7 DEF BooksInv

LEMMA NextBooks == ASSUME BooksInv, [Next]_vars PROVE BooksInv'
<1>1. TypeOK /\ Shape /\ LockInv /\ AllProper /\ BirthInv /\ Untouched /\ Finite
  BY DEF BooksInv, IInv
<1>2. IInv' /\ AllProper' /\ BirthInv'
  BY <1>1, NextType, NextShape, NextLock, NextBirth, NextProper DEF IInv
<1>3. CASE UNCHANGED vars
  <2>1. Still /\ created' = created
    BY <1>3 DEF vars, Still, taskVars
  <2>2. Untouched'
    BY <1>1, <2>1, SitesStill DEF Untouched, Still
  <2>3. Finite'
    BY <1>1, <2>1, SitesStill DEF Finite, Suspended, Still
  <2> QED
    BY <1>2, <2>2, <2>3 DEF BooksInv
<1>4. CASE Next
  BY <1>1, <1>2, <1>4, UntouchedKept, NextTally DEF BooksInv, IInv
<1> QED
  BY <1>3, <1>4

(* Every suspended stack owes the push that its switch hands over, and the
   stack in use owes on top of that what the frame in hand does. *)
LEMMA HereOwes ==
    ASSUME TypeOK, AllProper, Finite, Owed(Top) >= 1
    PROVE  Cardinality(Sites(Debts(1))) >= Cardinality(Suspended) + 1
<1> DEFINE T == Suspended \cup {cpu}
           S == Sites(Debts(1))
           h == [t \in T |-> <<t, Depth(t)>>]
<1>1. IsFiniteSet(T) /\ Cardinality(T) = Cardinality(Suspended) + 1
  <2>1. cpu \notin Suspended
    BY DEF Suspended
  <2> QED
    BY <2>1, FS_AddElement DEF Finite
<1>2. ASSUME NEW t \in T PROVE h[t] = <<t, Depth(t)>> /\ h[t] \in S
  <2>1. t \in Tasks /\ (t = cpu \/ frame[t].at = "resume")
    BY DEF Suspended, TypeOK
  <2>2. Proper(frame[t]) /\ frame[t] \in Frame
    BY <2>1, ProperIs DEF TypeOK
  <2>3. Owed(frame[t]) >= 1
    BY <2>1, <2>2 DEF Top, Proper, Owed
  <2>4. frame[t] \in Debts(1)
    BY <2>2, <2>3 DEF Debts
  <2>5. Depth(t) \in Nat \ {0} /\ Depth(t) \in Spots(t) /\ FrameAt(t, Depth(t)) = frame[t]
    BY <2>1, Stacks
  <2> QED
    BY <2>1, <2>4, <2>5 DEF Sites
<1> HIDE DEF S
<1>3. h \in [T -> S]
  BY <1>2
<1>4. \A t, u \in T : h[t] = h[u] => t = u
  BY <1>2
<1> HIDE DEF T, h
<1>5. h \in Injection(T, S)
  BY <1>3, <1>4 DEF Injection, IsInjective
<1>6. Cardinality(T) <= Cardinality(S)
  BY <1>5, FS_Injection DEF Finite, S
<1>7. Cardinality(Suspended) \in Nat /\ Cardinality(Sites(Debts(1))) \in Nat
  BY FiniteIs
<1> QED
  BY <1>1, <1>6, <1>7 DEF S

(* Count is the tally, in every state. *)
Balanced == Count = Tally /\ Count \in Int /\ (Owed(Top) >= 1 => Count >= interrupts_semaphore + 1)

LEMMA BooksBalance == ASSUME BooksInv PROVE Balanced
<1>1. TypeOK /\ AllProper /\ Finite
  BY DEF BooksInv, IInv
<1>2. Count = Tally /\ Count \in Int
  BY <1>1, TallyIs
<1>3. ASSUME Owed(Top) >= 1 PROVE Count >= interrupts_semaphore + 1
  <2>1. Cardinality(Sites(Debts(1))) >= Cardinality(Suspended) + 1
    BY <1>1, <1>3, HereOwes
  <2> QED
    BY <1>1, <1>2, <2>1, FiniteIs DEF Tally
<1> QED
  BY <1>2, <1>3 DEF Balanced

(* The count begins at one: each task that waits owes one push. *)
LEMMA InitCount == ASSUME Init, BooksInv, Balanced PROVE Count <= 1
<1>1. TypeOK /\ Finite
  BY DEF BooksInv, IInv
<1>2. \A t \in Tasks : frame[t] = At("run") \/ \E flag \in StaleFlags : frame[t] = FreshFrame(flag)
  BY DEF Init
<1>3. \A t \in Tasks : Depth(t) = 1 /\ Spots(t) = {1}
  <2>1. \A t \in Tasks : Len(under[t]) = 0
    BY EmptySeq DEF Init
  <2> QED
    BY <2>1 DEF Spots, Depth
<1>4. ASSUME NEW n \in {1, 2}, NEW s \in Sites(Debts(n))
      PROVE  n = 1 /\ s[2] = 1 /\ s = <<s[1], s[2]>> /\ s[1] \in Suspended
  <2>1. s[1] \in Tasks /\ s = <<s[1], s[2]>> /\ s[2] = 1 /\ frame[s[1]] \in Debts(n)
    BY <1>1, <1>3, SiteIs DEF FrameAt
  <2>2. Owed(At("run")) = 0 /\ \A flag : Owed(FreshFrame(flag)) = 1 /\ FreshFrame(flag).at = "resume"
    BY DEF Owed, At, FreshFrame
  <2>3. Owed(frame[s[1]]) >= n
    BY <2>1 DEF Debts
  <2>4. \E flag \in StaleFlags : frame[s[1]] = FreshFrame(flag)
    BY <1>2, <2>1, <2>2, <2>3
  <2>5. n = 1 /\ frame[s[1]].at = "resume"
    BY <2>2, <2>3, <2>4
  <2>6. s[1] # cpu
    <3>1. frame[Kernel] = At("run") /\ cpu = Kernel /\ Kernel \in Tasks
      BY TasksAssumption DEF Init
    <3> QED
      BY <2>5, <3>1 DEF At
  <2> QED
    BY <2>1, <2>5, <2>6 DEF Suspended
<1>5. Cardinality(Sites(Debts(2))) = 0
  <2>1. Sites(Debts(2)) = {}
    BY <1>4
  <2> QED
    BY <2>1, FS_EmptySet
<1>6. Cardinality(Sites(Debts(1))) <= Cardinality(Suspended)
  <2> DEFINE S == Sites(Debts(1))
             h == [s \in S |-> s[1]]
  <2>1. h \in [S -> Suspended]
    BY <1>4
  <2>2. \A r, s \in S : h[r] = h[s] => r = s
    BY <1>4
  <2> HIDE DEF S, h
  <2>3. h \in Injection(S, Suspended)
    BY <2>1, <2>2 DEF Injection, IsInjective
  <2> QED
    BY <1>1, <2>3, FS_Injection DEF Finite, S
<1>7. interrupts_semaphore = 1
  BY DEF Init
<1> QED
  BY <1>1, <1>5, <1>6, <1>7, FiniteIs DEF Balanced, Tally

LEMMA BooksInductive == Spec => [](BooksInv /\ Balanced)
<1>1. Init => BooksInv
  BY InitBooks
<1>2. BooksInv /\ [Next]_vars => BooksInv'
  BY NextBooks
<1>3. BooksInv => Balanced
  BY BooksBalance
<1> QED
  BY <1>1, <1>2, <1>3, PTL DEF Spec

LEMMA StepBooked ==
    ASSUME BooksInv, BooksInv', Balanced, Balanced', [Next]_vars
    PROVE  /\ Count \in Int /\ Count' \in Int
           /\ \/ Count' = Count
              \/ Count' = Count + 1 /\ SelectNext /\ current' = Idle
              \/ Count' = Count - 1 /\ (FaultKill \/ FaultPanic)
<1>1. TypeOK'
  BY DEF BooksInv, IInv
<1>2. Count = Tally /\ Count' = Tally' /\ Count \in Int /\ Count' \in Int
  BY DEF Balanced
<1>3. CASE UNCHANGED vars
  <2>1. Still /\ interrupts_semaphore' = interrupts_semaphore
    BY <1>3 DEF vars, Still, gateVars
  <2>2. Tally' = Tally
    BY <2>1, SitesStill DEF Tally, Suspended, Still
  <2> QED
    BY <1>2, <2>2
<1>4. CASE Next
  BY <1>1, <1>2, <1>4, NextTally
<1> QED
  BY <1>3, <1>4

(* The pushes and pops of all stacks together stay paired, whatever the tasks
   call and wherever the ticks come, without any condition on the steps: only
   the switch to idle raises what they come to, by one, and only an exception
   lowers it, by one (scheduler.cpp:174-175, interrupts.s:81). *)
THEOREM PairsKept == Spec => CountMovesOnlyBy
<1>1. BooksInv /\ BooksInv' /\ Balanced /\ Balanced' /\ [Next]_vars =>
        [/\ Count' > Count => Count' = Count + 1 /\ SelectNext /\ current' = Idle
         /\ Count' < Count => Count' = Count - 1 /\ (FaultKill \/ FaultPanic)]_vars
  <2> SUFFICES ASSUME BooksInv, BooksInv', Balanced, Balanced', [Next]_vars
               PROVE  /\ Count' > Count => Count' = Count + 1 /\ SelectNext /\ current' = Idle
                      /\ Count' < Count => Count' = Count - 1 /\ (FaultKill \/ FaultPanic)
    OBVIOUS
  <2> QED
    BY StepBooked
<1> QED
  BY <1>1, BooksInductive, PTL DEF Spec, CountMovesOnlyBy

(* The frames between their pop_ints and the release of what they locked, or
   the exchange of the stacks. *)
Closed(f) ==
    \/ f.at \in {"lock", "select", "link", "unlist"} \cup Window
    \/ f.at \in {"heap_lock", "heap"} /\ f.op # "heap"
    \/ f.at = "leave" /\ f.op # "idle"

ClosedFrames == {f \in Frame : Closed(f)}

(* A tick can only find, or have found, such a frame with the count raised. *)
DriftInv == mode = "run" => \A s \in Sites(ClosedFrames) : s # Here \/ eflags_if => Count >= 2

(* Only a pop_ints brings a frame there. *)
LEMMA ClosedSteps ==
    ASSUME TypeOK, Shape, AllProper, Next, Onward, Closed(Top'),
           ~(HeapDone /\ Top.op = "new")
    PROVE  PopInts \/ (Closed(Top) /\ eflags_if' = eflags_if) \/ mode' # "run"
<1>1. Proper(Top) /\ Wellformed(Top)
  BY ProperIs, TopShape
<1> USE DEF Passes, Returns, Window
<1>2. CASE TaskCall
  <2>1. ~Closed(Top') \/ mode' = "panic"
    BY <1>2, CallSteps DEF TaskCall, Yield, Dump, KillMe, KillTask, KillOwnId, Starts, Closed
  <2> QED
    BY <2>1
<1>3. CASE Tick \/ UndoCount \/ ExitInterrupt
  BY <1>3, InterruptSteps DEF Closed
<1>4. CASE LockSched
  <2>1. Top.at = "lock" /\ eflags_if' = eflags_if
    BY <1>4, LockSteps DEF LockSched, gateVars
  <2> QED
    BY <2>1 DEF Closed
<1>5. CASE LockHeap
  <2>1. Top.at = "heap_lock" /\ Top'.op = Top.op /\ Top'.at = "heap" /\ eflags_if' = eflags_if
    BY <1>5, LockSteps DEF LockHeap, gateVars
  <2> QED
    BY <2>1 DEF Closed
<1>6. CASE HeapDone
  <2>1. eflags_if' = eflags_if
    BY <1>6 DEF HeapDone, gateVars
  <2>2. Top.at = "heap" /\ (Top.op # "heap" \/ Top'.at = "run")
    BY <1>6, HeapSteps
  <2> QED
    BY <2>1, <2>2 DEF Closed
<1>7. CASE LinkTask \/ UnlistOther \/ SelectNext
  <2>1. eflags_if' = eflags_if
    BY <1>7 DEF LinkTask, UnlistOther, SelectNext, gateVars
  <2>2. Top.at \in {"link", "unlist", "select"}
    BY <1>7, ListSteps
  <2> QED
    BY <2>1, <2>2 DEF Closed
<1>8. CASE UnlistCurrent
  <2>1. Top.at = "unlist" /\ (current = Kernel => mode' = "panic")
    BY <1>8, ListSteps
  <2>2. current # Kernel => eflags_if' = eflags_if
    BY <1>8 DEF UnlistCurrent
  <2> QED
    BY <2>1, <2>2 DEF Closed
<1>9. CASE ReleaseToSwitch \/ LoadEsp
  <2>1. eflags_if' = eflags_if
    BY <1>9 DEF ReleaseToSwitch, LoadEsp, gateVars
  <2> QED
    BY <1>9, <2>1, SwitchSteps DEF Closed
<1>10. CASE Resume
  BY <1>10, SwitchSteps DEF Closed
<1>11. CASE Leave \/ PushInts
  BY <1>11, LockSteps DEF Closed
<1>12. CASE SwapStacks
  BY <1>12, SwitchSteps DEF SwapsTo, Onward
<1>13. CASE TimerInterrupt
  BY <1>13, Pushed DEF At, Closed
<1>14. ~Iret
  <2>1. Iret => Depth(cpu)' = Depth(cpu) - 1 /\ Depth(cpu) \in Nat
    BY Popped, Stacks DEF TypeOK
  <2>2. Depth(cpu)' = Depth(cpu)
    BY DEF Onward, Depth
  <2> QED
    BY <2>1, <2>2
<1> QED
  BY <1>2, <1>3, <1>4, <1>5, <1>6, <1>7, <1>8, <1>9, <1>10, <1>11, <1>12, <1>13, <1>14
  DEF Next, KernelStep

LEMMA Above == ASSUME NEW c \in Int, NEW n \in Int, n >= 1, c >= n + 1 PROVE c >= 2
OBVIOUS

LEMMA NextDrift ==
    ASSUME BooksInv, BooksInv', Balanced, Balanced', DriftInv, Next,
           Count' >= Count \/ Count <= 1
    PROVE  DriftInv'
<1> DEFINE P == ClosedFrames
<1>1. TypeOK /\ Shape /\ AllProper /\ Untouched /\ mode = "run"
  BY OnlyRunning DEF BooksInv, IInv
<1>2. Count \in Int /\ Count' \in Int /\ interrupts_semaphore' \in Int
  <2>1. TypeOK'
    BY DEF BooksInv, IInv
  <2>2. interrupts_semaphore' \in Int
    BY <2>1 DEF TypeOK
  <2> QED
    BY <2>2 DEF Balanced
<1>3. \A f : f \in P <=> f \in Frame /\ Closed(f)
  BY DEF ClosedFrames
<1>4. \A f \in P : f.at \notin Passive
  BY <1>3 DEF Closed, Passive, Window
<1>5. \A g \in Frame : g.at = "heap" /\ g.op = "new" => g \in P
  BY <1>3 DEF Closed
<1>6. P' = P
  BY DEF ClosedFrames
<1> HIDE DEF P
<1>7. \A s \in Sites(P)' : s \in Sites(P) \/ (s = Here /\ Onward /\ Top' \in P)
  BY <1>1, <1>4, <1>5, SitesNext
<1> SUFFICES ASSUME mode' = "run", NEW s \in Sites(P)', s # Here' \/ eflags_if'
             PROVE  Count' >= 2
  BY <1>6 DEF DriftInv, P
<1>8. Here \in Sites(P) <=> Top \in P
  BY <1>1, HereIs
<1>9. s \in Sites(P) /\ (s # Here \/ eflags_if) => Count' >= 2
  BY <1>1, <1>2 DEF DriftInv, P
<1>10. CASE s # Here
  BY <1>7, <1>9, <1>10
<1>11. CASE s = Here
  <2>1. CASE TimerInterrupt
    <3>1. Top' \notin P /\ eflags_if
      BY <1>1, <1>3, <2>1, Pushed DEF At, Closed, Window, TimerInterrupt
    <3> QED
      BY <1>7, <1>9, <3>1
  <2>2. CASE Iret
    <3>1. Sites(P)' = Sites(P) /\ Top \notin P
      BY <1>1, <1>4, <2>2, Popped, SitesPopped DEF Passive
    <3> QED
      BY <1>8, <1>11, <3>1
  <2>3. CASE SwapStacks /\ SwapsTo(Top.esp)
    <3>1. SetTop(frame'[cpu]) /\ under' = under /\ frame'[cpu].at = "resume"
      BY <2>3 DEF SwapsTo, SetTop
    <3>2. frame'[cpu] \notin P
      BY <1>4, <3>1 DEF Passive
    <3>3. Sites(P)' = Sites(P) \ {Here}
      BY <1>1, <3>1, <3>2, SitesLost
    <3> QED
      BY <1>11, <3>3
  <2>4. CASE HeapDone /\ Top.op = "new"
    <3>1. Top \in P /\ Here' = Here /\ eflags_if' = eflags_if
      BY <1>1, <1>5, <2>4, TopTypes, HeapSteps DEF HeapDone, gateVars, Here, Depth, Makes
    <3> QED
      BY <1>8, <1>9, <1>11, <3>1
  <2>5. CASE Onward /\ ~(HeapDone /\ Top.op = "new")
    <3>1. Here' = Here /\ eflags_if'
      BY <1>11, <2>5 DEF Onward, Here, Depth
    <3>2. Top' \in P
      BY <1>1, <1>11, <2>5, SitesLost DEF Onward
    <3>3. CASE PopInts
      <4>1. interrupts_semaphore' >= 1
        BY <3>1, <3>3 DEF PopInts, pop_ints, EnabledBy
      <4>2. Owed(Top') >= 1
        <5>1. Proper(Top) /\ Top.at = "pop" /\ Top'.op = Top.op /\ Top'.at \in {"lock", "heap_lock"}
          BY <1>1, <3>3, ProperIs, LockSteps DEF Passes
        <5> QED
          BY <5>1 DEF Proper, Owed
      <4>3. Count' >= interrupts_semaphore' + 1
        BY <4>2 DEF Balanced
      <4> QED
        BY <1>2, <4>1, <4>3, Above
    <3>4. CASE ~PopInts
      <4>1. Closed(Top) /\ eflags_if' = eflags_if
        BY <1>1, <1>3, <2>5, <3>2, <3>4, ClosedSteps
      <4>2. Top \in P
        BY <1>1, <1>3, <4>1, TopTypes
      <4> QED
        BY <1>8, <1>9, <1>11, <3>1, <4>1, <4>2
    <3> QED
      BY <3>3, <3>4
  <2> QED
    BY <1>1, <2>1, <2>2, <2>3, <2>4, <2>5, NextSteps, StillOnward
<1> QED
  BY <1>10, <1>11

LEMMA InitDrift == Init => DriftInv
<1> SUFFICES ASSUME Init PROVE DriftInv
  OBVIOUS
<1>1. Sites(ClosedFrames) = {}
  <2>1. \A f \in ClosedFrames : f.at \notin Passive
    BY DEF ClosedFrames, Closed, Passive, Window
  <2> QED
    BY <2>1, InitSites DEF ClosedFrames
<1> QED
  BY <1>1 DEF DriftInv

LEMMA SameDrift ==
    ASSUME BooksInv, Balanced, Balanced', DriftInv, UNCHANGED vars
    PROVE  DriftInv' /\ Count' = Count
<1>1. Still /\ UNCHANGED <<mode, eflags_if, interrupts_semaphore>>
  BY DEF vars, Still, gateVars
<1>2. Sites(ClosedFrames)' = Sites(ClosedFrames) /\ Sites(Debts(1))' = Sites(Debts(1))
      /\ Sites(Debts(2))' = Sites(Debts(2)) /\ Suspended' = Suspended /\ Here' = Here
  BY <1>1, SitesStill DEF Still, Suspended, Here, Depth
<1>3. Count' = Count
  BY <1>1, <1>2 DEF Balanced, Tally
<1> QED
  BY <1>1, <1>2, <1>3 DEF DriftInv

LEMMA ContentionIs == ASSUME BooksInv, DriftInv PROVE ContentionNeedsDrift
<1> SUFFICES ASSUME mode = "run", Top.at = "lock", lock = Locked PROVE Count >= 2
  BY DEF ContentionNeedsDrift, Is
<1>1. TypeOK /\ LockInv /\ cpu \in Tasks
  BY DEF BooksInv, IInv, TypeOK
<1>2. PICK i \in 1..Len(under[cpu]) : Holding(under[cpu][i])
  BY <1>1 DEF LockInv, Holding
<1> DEFINE s == <<cpu, Depth(cpu) - i>>
<1>3. Len(under[cpu]) \in Nat /\ Depth(cpu) = Len(under[cpu]) + 1
  BY <1>1, Stacks DEF Depth
<1>4. Depth(cpu) - i \in Spots(cpu) /\ Depth(cpu) - i # Depth(cpu)
      /\ Depth(cpu) - (Depth(cpu) - i) = i /\ Depth(cpu) - i \in Nat \ {0}
  BY <1>3 DEF Spots
<1>5. FrameAt(cpu, Depth(cpu) - i) = under[cpu][i] /\ FrameAt(cpu, Depth(cpu) - i) \in Frame
  BY <1>1, <1>4, Stacks DEF FrameAt
<1>6. s \in Sites(ClosedFrames) /\ s # Here
  BY <1>1, <1>2, <1>4, <1>5 DEF Sites, ClosedFrames, Closed, Holding, Here, Window
<1> QED
  BY <1>6 DEF DriftInv

LEMMA DriftKept ==
    ASSUME BooksInv, BooksInv', Balanced, Balanced', DriftInv, [Next]_vars, [~FaultKill]_vars
    PROVE  DriftInv'
<1>1. CASE UNCHANGED vars
  BY <1>1, SameDrift
<1>2. CASE Next /\ ~(UNCHANGED vars) /\ mode' = "run"
  <2>1. ~FaultKill /\ ~FaultPanic
    BY <1>2 DEF FaultPanic
  <2>2. Count' >= Count
    BY <2>1, StepBooked
  <2> QED
    BY <1>2, <2>2, NextDrift
<1>3. CASE mode' # "run"
  BY <1>3 DEF DriftInv
<1> QED
  BY <1>1, <1>2, <1>3

(* yield finds sched.lock taken only with the count raised, as long as no
   exception kills: a task that is inside when a tick preempts it was let in
   with the gate left open, and what opened it has not gone away since. *)
THEOREM ContentionDrifts == Spec /\ [][~FaultKill]_vars => []ContentionNeedsDrift
<1>1. Init => DriftInv
  BY InitDrift
<1>2. BooksInv /\ BooksInv' /\ Balanced /\ Balanced' /\ DriftInv /\ [Next]_vars
          /\ [~FaultKill]_vars => DriftInv'
  BY DriftKept
<1>3. BooksInv /\ DriftInv => ContentionNeedsDrift
  BY ContentionIs
<1> QED
  BY <1>1, <1>2, <1>3, BooksInductive, PTL DEF Spec

(* Before the first switch to idle the count is still low. *)
Low == current # Idle /\ Count <= 1
Rests == current # Idle /\ current' = Idle

LEMMA InitLow == ASSUME Init, BooksInv, Balanced PROVE DriftInv /\ Low
<1>1. current # Idle
  BY TasksAssumption DEF Init
<1>2. Count <= 1
  BY InitCount
<1> QED
  BY <1>1, <1>2, InitDrift DEF Low

LEMMA LowKept ==
    ASSUME BooksInv, BooksInv', Balanced, Balanced', DriftInv, Low, [Next]_vars, [~Rests]_vars
    PROVE  DriftInv' /\ Low'
<1>1. CASE UNCHANGED vars
  <2>1. current' = current
    BY <1>1 DEF vars
  <2> QED
    BY <1>1, <2>1, SameDrift DEF Low
<1>2. CASE Next /\ ~(UNCHANGED vars)
  <2>1. current' # Idle
    BY <1>2 DEF Low, Rests
  <2>2. Count' <= 1
    BY <2>1, StepBooked DEF Low
  <2> QED
    BY <1>2, <2>1, <2>2, NextDrift DEF Low
<1> QED
  BY <1>1, <1>2

(* Until the first switch to idle whoever comes to sched.lock finds it free,
   so that the spin of spinlock::lock is never taken for it, whatever else
   the tasks, the ticks and the exceptions do. *)
THEOREM LockFoundFree ==
    Spec /\ [][~(current # Idle /\ current' = Idle)]_vars =>
        [](ContentionNeedsDrift /\ ~(Is("lock") /\ lock = Locked))
<1>1. Init /\ BooksInv /\ Balanced => DriftInv /\ Low
  BY InitLow
<1>2. BooksInv /\ BooksInv' /\ Balanced /\ Balanced' /\ DriftInv /\ Low /\ [Next]_vars
          /\ [~Rests]_vars => DriftInv' /\ Low'
  BY LowKept
<1>3. BooksInv /\ Balanced /\ DriftInv /\ Low => ContentionNeedsDrift /\ ~(Is("lock") /\ lock = Locked)
  <2> SUFFICES ASSUME BooksInv, Balanced, DriftInv, Low
               PROVE  ContentionNeedsDrift /\ ~(Is("lock") /\ lock = Locked)
    OBVIOUS
  <2>1. ContentionNeedsDrift
    BY ContentionIs
  <2>2. ~(Count >= 2)
    BY DEF Low, Balanced
  <2> QED
    BY <2>1, <2>2 DEF ContentionNeedsDrift
<1>4. Spec /\ [][~Rests]_vars => [](ContentionNeedsDrift /\ ~(Is("lock") /\ lock = Locked))
  BY <1>1, <1>2, <1>3, BooksInductive, PTL DEF Spec
<1> QED
  BY <1>4 DEF Rests

LEMMA LowCalm == ASSUME BooksInv, Balanced, DriftInv, Low, Next PROVE Calm
<1> SUFFICES ASSUME TimerInterrupt, Top.at \in Window PROVE FALSE
  BY DEF Calm
<1>1. TypeOK /\ mode = "run"
  BY OnlyRunning DEF BooksInv, IInv
<1>2. Here \in Sites(ClosedFrames)
  BY <1>1, HereIs, TopTypes DEF ClosedFrames, Closed
<1>3. eflags_if
  BY DEF TimerInterrupt
<1>4. Count >= 2 /\ Count <= 1 /\ Count \in Int
  BY <1>1, <1>2, <1>3 DEF DriftInv, Low, Balanced
<1> QED
  BY <1>4

(* Until the first switch to idle no tick comes between a choice and its
   exchange of the stacks, not even with the lock already released, whatever
   the tasks call and kill, whatever flags a new stack starts with and
   however deep the ticks nest: what the theorems on calm steps ask for can
   fail only after that. *)
THEOREM CalmUntilIdle ==
    Spec /\ [][~(current # Idle /\ current' = Idle)]_vars => [][Calm]_vars
<1>1. Init /\ BooksInv /\ Balanced => DriftInv /\ Low
  BY InitLow
<1>2. BooksInv /\ BooksInv' /\ Balanced /\ Balanced' /\ DriftInv /\ Low /\ [Next]_vars
          /\ [~Rests]_vars => DriftInv' /\ Low'
  BY LowKept
<1>3. BooksInv /\ Balanced /\ DriftInv /\ Low /\ [Next]_vars => [Calm]_vars
  BY LowCalm
<1>4. Spec /\ [][~Rests]_vars => [][Calm]_vars
  BY <1>1, <1>2, <1>3, BooksInductive, PTL DEF Spec
<1> QED
  BY <1>4 DEF Rests
-----------------------------------------------------------------------------
(* Tasks that do not kill themselves. *)

(* How a kill begins, and how it becomes that of the current task. *)
LEMMA KillsBegin ==
    ASSUME TypeOK, Shape, AllProper, Next, Onward
    PROVE  /\ Top'.op = "kill" =>
                \/ Top.op = "kill" /\ Top'.arg = Top.arg
                \/ Top.at = "run" /\ KillTask /\ Top'.arg \in created \ {Kernel, current}
                \/ KillOwnId /\ Top'.arg = current /\ current # Kernel
           /\ Top'.op = "exit" =>
                \/ Top.op = "exit" \/ KillMe \/ FaultKill
                \/ Top.at = "unlist" /\ Top.op = "kill" /\ Top.arg = current
<1> USE DEF Passes, Returns, Starts
<1>1. CASE TaskCall
  <2>1. CASE Sleep \/ Yield \/ Dump \/ NewTask \/ UseHeap
    BY <2>1, CallSteps DEF Yield, Dump
  <2>2. CASE KillMe \/ FaultKill \/ KillOwnId
    BY <2>2, CallSteps DEF KillMe, KillOwnId
  <2>3. CASE KillTask
    BY <1>1, <2>3, CallSteps DEF KillTask
  <2>4. CASE KillKernel \/ FaultPanic
    BY <2>4, CallSteps, SitesStill
  <2> QED
    BY <1>1, <2>1, <2>2, <2>3, <2>4 DEF TaskCall
<1>2. CASE Tick \/ UndoCount \/ ExitInterrupt
  BY <1>2, InterruptSteps
<1>3. CASE PopInts \/ LockSched \/ LockHeap \/ Leave \/ PushInts
  BY <1>3, LockSteps
<1>4. CASE HeapDone
  <2>1. CASE Top.op = "new" /\ Makes(Top.arg)
    <3>1. Top' = Moved("lock")
      BY <2>1 DEF Makes, Top, TypeOK
    <3> QED
      BY <2>1, <3>1, MovedFields
  <2>2. CASE ~(Top.op = "new" /\ Makes(Top.arg))
    BY <1>4, <2>2, HeapSteps
  <2> QED
    BY <2>1, <2>2
<1>5. CASE LinkTask \/ UnlistOther \/ SelectNext
  BY <1>5, ListSteps DEF Switches
<1>6. CASE UnlistCurrent
  <2>1. CASE Still
    BY <2>1, SitesStill
  <2>2. CASE ~Still
    <3>1. Top'.op = "exit" /\ Top.at = "unlist" /\ (Top.op = "exit" \/ Top.arg = current)
      BY <1>6, <2>2, ListSteps
    <3>2. Top.op \in {"kill", "exit"}
      BY <3>1, ProperIs DEF Proper
    <3> QED
      BY <3>1, <3>2
  <2> QED
    BY <2>1, <2>2
<1>7. CASE ReleaseToSwitch \/ LoadEsp \/ Resume
  BY <1>7, SwitchSteps
<1>8. CASE SwapStacks
  <2>1. Still
    BY <1>8, SwitchSteps DEF SwapsTo, Onward
  <2> QED
    BY <2>1, SitesStill
<1>9. ~Iret /\ ~TimerInterrupt
  <2>1. Depth(cpu)' = Depth(cpu) /\ Depth(cpu) \in Nat
    BY Stacks DEF Onward, Depth, TypeOK
  <2> QED
    BY <2>1, Popped, Pushed
<1> QED
  BY <1>1, <1>2, <1>3, <1>4, <1>5, <1>6, <1>7, <1>8, <1>9 DEF Next, KernelStep

Exits == {f \in Frame : f.op = "exit"}
KillsOf(t) == {f \in Frame : f.op = "kill" /\ f.arg = t}

(* Nobody is leaving for good, nobody is about to be told to by itself, and
   neither the current task nor idle is one that was freed. *)
Survives ==
    /\ Sites(Exits) = {}
    /\ \A t \in Tasks : \A s \in Sites(KillsOf(t)) : s[1] # t
    /\ current \notin freed
    /\ Idle \notin freed /\ Sites(KillFrames(Idle)) = {}

LEMMA FreedKept == ASSUME TypeOK, Next, ~HeapDone PROVE freed' = freed
<1>1. TaskCall => freed' = freed
  BY Zenon DEF TaskCall, Sleep, Yield, Dump, NewTask, KillMe, KillTask, KillOwnId, KillKernel,
               UseHeap, FaultKill, FaultPanic, Call, taskVars
<1>2. KernelStep \/ TimerInterrupt => freed' = freed
  BY DEF KernelStep, Tick, UndoCount, ExitInterrupt, Iret, TimerInterrupt, PopInts, LockSched,
         LockHeap, Leave, PushInts, LinkTask, UnlistCurrent, UnlistOther, SelectNext,
         ReleaseToSwitch, LoadEsp, SwapStacks, Resume, taskVars
<1> QED
  BY <1>1, <1>2 DEF Next

LEMMA InitSurvives == Init => Survives
<1> SUFFICES ASSUME Init PROVE Survives
  OBVIOUS
<1>1. TypeOK
  BY InitType
<1>2. \A t \in Tasks : frame[t].op = "none"
  BY DEF Init, FreshFrame, At
<1>3. \A t \in Tasks : Depth(t) = 1 /\ Spots(t) = {1}
  <2>1. \A t \in Tasks : Len(under[t]) = 0
    BY EmptySeq DEF Init
  <2> QED
    BY <2>1 DEF Spots, Depth
<1>4. \A t \in Tasks : \A k \in Spots(t) : FrameAt(t, k).op = "none"
  BY <1>2, <1>3 DEF FrameAt
<1>5. /\ Sites(Exits) = {} /\ \A t \in Tasks : Sites(KillsOf(t)) = {}
      /\ Sites(KillFrames(Idle)) = {}
  BY <1>4 DEF Sites, Exits, KillsOf, KillFrames
<1>6. freed = {}
  BY DEF Init
<1> QED
  BY <1>5, <1>6 DEF Survives

(* A kill is not that of the task it is made on. *)
LEMMA OthersKill ==
    ASSUME TypeOK, Shape, Survives, Switching, Top.op = "kill", Top.at \notin Window
    PROVE  Top.arg \in Tasks /\ Top.arg # current /\ cpu = current
<1>1. Top.arg \in Tasks /\ Top \in Frame
  BY TopShape, TopTypes DEF Wellformed
<1>2. Here \in Sites(KillsOf(Top.arg)) /\ Here[1] = cpu
  BY <1>1, HereIs DEF KillsOf
<1>3. cpu = current
  BY DEF Switching, Chosen
<1> QED
  BY <1>1, <1>2, <1>3 DEF Survives

LEMMA NextSurvives ==
    ASSUME TypeOK, Shape, AllProper, BirthInv, Switching, Survives, Next, NoSuicide
    PROVE  Survives'
<1>1. Proper(Top) /\ Wellformed(Top) /\ Top \in Frame /\ Chosen
  BY ProperIs, TopShape, TopTypes DEF Switching
<1>2. Top.op # "exit"
  <2>1. Top \notin Exits
    BY HereIs DEF Survives
  <2> QED
    BY <1>1, <2>1 DEF Exits
<1>3. TimerInterrupt => Top'.op = "none"
  BY Pushed DEF At
<1>4. Iret => Top.op = "none"
  BY <1>1, Popped DEF Proper
<1>5. \A flag \in BOOLEAN : FreshFrame(flag).op = "none"
  BY DEF FreshFrame, At
<1>6. Moved("lock").op = Top.op
  BY MovedFields
<1>7. \A to : Top.at = "swap" /\ SwapsTo(to) => frame'[cpu].op \notin {"exit", "kill"}
  BY <1>1, <1>2 DEF SwapsTo, Wellformed
<1>8. Sites(Exits)' = {}
  <2> DEFINE P == Exits
  <2>1. \A f \in P : f.op = "exit"
    BY DEF Exits
  <2>2. Onward /\ Top' \in P => Top \in P
    <3> SUFFICES ASSUME Onward, Top'.op = "exit" PROVE FALSE
      BY <2>1
    <3>1. Top.at = "unlist" /\ Top.op = "kill" /\ Top.arg = current
      BY <1>2, KillsBegin DEF NoSuicide
    <3> QED
      BY <3>1, OthersKill DEF Window
  <2> HIDE DEF P
  <2>3. Sites(P)' \subseteq Sites(P)
    BY <1>3, <1>4, <1>5, <1>6, <1>7, <2>1, <2>2, SitesFewer
  <2> QED
    BY <2>3 DEF P, Survives
<1>9. ASSUME NEW t \in Tasks, NEW s \in Sites(KillsOf(t))' PROVE s[1] # t
  <2> DEFINE P == KillsOf(t)
  <2>1. \A f \in P : f.op = "kill" /\ f.arg = t
    BY DEF KillsOf
  <2>2. CASE Onward /\ Top' \in P /\ Top \notin P
    <3>1. Top' .op = "kill" /\ Top'.arg = t
      BY <2>1, <2>2
    <3>2. Top.at = "run" /\ t # current
      BY <1>1, <2>2, <3>1, KillsBegin DEF NoSuicide, KillsOf
    <3>3. t # cpu
      BY <1>1, <3>2 DEF Chosen, Window
    <3>4. Sites(P)' = Sites(P) \cup {Here} /\ Here[1] = cpu
      <4> HIDE DEF P
      <4> QED
        BY <2>2, SitesGained, HereIs DEF Onward
    <3> QED
      BY <3>3, <3>4 DEF Survives
  <2>3. CASE ~(Onward /\ Top' \in P /\ Top \notin P)
    <3> HIDE DEF P
    <3>1. Sites(P)' \subseteq Sites(P)
      BY <1>3, <1>4, <1>5, <1>6, <1>7, <2>1, <2>3, SitesFewer
    <3> QED
      BY <3>1 DEF P, Survives
  <2> QED
    BY <2>2, <2>3
<1>10. Idle \notin freed' /\ Sites(KillFrames(Idle))' = {}
  <2>1. Sites(KillFrames(Idle))' = {}
    BY KillSites, TasksAssumption DEF Survives, BirthInv, ListSound
  <2>2. Top \notin KillFrames(Idle)
    BY HereIs DEF Survives
  <2>3. CASE HeapDone
    <3>1. Top.at = "heap" /\ (Top.op = "kill" => Top.arg # Idle)
      BY <1>1, <2>2, <2>3, HeapSteps DEF KillFrames
    <3>2. freed' = freed \/ (Top.op = "kill" /\ freed' = freed \cup {Top.arg})
      BY <1>2, <2>3, HeapSteps DEF Makes
    <3> QED
      BY <2>1, <3>1, <3>2 DEF Survives
  <2>4. CASE ~HeapDone
    <3>1. freed' = freed
      BY <2>4, FreedKept
    <3> QED
      BY <2>1, <3>1 DEF Survives
  <2> QED
    BY <2>3, <2>4
<1>11. current' \notin freed'
  <2>1. CASE HeapDone
    <3>1. Top.at = "heap" /\ ~SelectNext
      BY <2>1, HeapSteps, ListSteps
    <3>2. current' = current
      BY <3>1, OthersKept
    <3>3. CASE Top.op = "kill"
      BY <2>1, <3>1, <3>2, <3>3, HeapSteps, OthersKill DEF Window, Survives
    <3>4. CASE Top.op # "kill"
      BY <1>2, <2>1, <3>2, <3>4, HeapSteps DEF Makes, Survives
    <3> QED
      BY <3>3, <3>4
  <2>2. CASE SelectNext
    <3>1. current' = current \/ current' \in Range(tasks)' \cup {Idle}
      BY <2>2, SelectChooses
    <3>2. Range(tasks)' = Range(tasks)
      BY <2>2, RotatedIs, ListSteps DEF TypeOK, Ring
    <3>3. freed' = freed
      BY <2>2 DEF SelectNext
    <3> QED
      BY <3>1, <3>2, <3>3 DEF Survives, BirthInv, ListSound
  <2>3. CASE ~HeapDone /\ ~SelectNext
    BY <2>3, FreedKept, OthersKept DEF Survives
  <2> QED
    BY <2>1, <2>2, <2>3
<1> QED
  BY <1>8, <1>9, <1>10, <1>11 DEF Survives

ChosenInv == CalmInv /\ (mode = "run" => Survives)

LEMMA ChosenIs ==
    ASSUME ChosenInv
    PROVE  /\ TypeOK /\ Shape /\ BirthInv /\ ListSound /\ SleepInv /\ AllProper
           /\ mode = "run" => Switching /\ Survives
  BY CalmIs DEF ChosenInv

LEMMA NextChosenInv ==
    ASSUME ChosenInv, [Next]_vars, [Calm /\ NoSuicide]_vars
    PROVE  ChosenInv'
<1>1. CalmInv'
  BY NextCalm DEF ChosenInv
<1>2. CASE UNCHANGED vars
  <2>1. Still /\ UNCHANGED <<mode, current, freed>>
    BY <1>2 DEF vars, Still, taskVars
  <2>2. /\ Sites(Exits)' = Sites(Exits) /\ Sites(KillFrames(Idle))' = Sites(KillFrames(Idle))
        /\ \A t \in Tasks : Sites(KillsOf(t))' = Sites(KillsOf(t))
    <3>1. /\ Exits' = Exits /\ KillFrames(Idle)' = KillFrames(Idle)
          /\ \A t : KillsOf(t)' = KillsOf(t)
      BY DEF Exits, KillFrames, KillsOf, Frame
    <3> QED
      BY <2>1, <3>1, SitesStill
  <2> QED
    BY <1>1, <2>1, <2>2 DEF ChosenInv, Survives
<1>3. CASE ~(UNCHANGED vars)
  <2>1. Next /\ NoSuicide
    BY <1>3
  <2>2. TypeOK /\ Shape /\ AllProper /\ BirthInv /\ Switching /\ Survives
    BY <2>1, OnlyRunning, ChosenIs
  <2>3. Survives'
    BY <2>1, <2>2, NextSurvives
  <2> QED
    BY <1>1, <2>3 DEF ChosenInv
<1> QED
  BY <1>2, <1>3

LEMMA ChosenInductive == Spec /\ [][Calm /\ NoSuicide]_vars => []ChosenInv
<1>1. Init => ChosenInv
  BY InitCalm, InitSurvives DEF ChosenInv
<1>2. ChosenInv /\ [Next]_vars /\ [Calm /\ NoSuicide]_vars => ChosenInv'
  BY NextChosenInv
<1> QED
  BY <1>1, <1>2, PTL DEF Spec

(* As long as the steps are calm and no task kills itself, no structure that
   was freed is in the list or in hand, however tasks kill one another,
   wherever the ticks preempt the one that kills, and through every switch to
   idle and back. *)
THEOREM NothingDangles == Spec /\ [][Calm /\ NoSuicide]_vars => []NoDangling
<1>1. ChosenInv => NoDangling
  BY ChosenIs DEF ListSound, Survives, NoDangling
<1> QED
  BY <1>1, ChosenInductive, PTL
-----------------------------------------------------------------------------
(* The scheduler's promise. *)

Asleep == {t \in Tasks : sleep[t] > 0}

LEMMA InitPromise == Init => Promise!Init
<1> SUFFICES ASSUME Init PROVE Promise!Init
  OBVIOUS
<1>1. TypeOK /\ ListSound
  BY InitType, InitBirth DEF BirthInv
<1>2. Range(tasks) \subseteq Tasks \ {Idle}
  BY <1>1, ListedAre DEF ListSound
<1>3. current \in Range(tasks)
  <2>1. \E i \in DOMAIN tasks : tasks[i] = current
    BY StartedAssumption DEF Init
  <2> QED
    BY <2>1 DEF Range
<1>4. {t \in Tasks : sleep[t] > 0} = {} /\ due = [t \in Tasks |-> 0]
  BY DEF Init
<1> QED
  BY <1>2, <1>3, <1>4 DEF Promise!Init

(* sleep(ms) dozes. *)
LEMMA SleepDozes ==
    ASSUME TypeOK, Switching, Sleep
    PROVE  \E n \in {SleepTicks(ms) : ms \in Requests} : Promise!Doze(n)
<1>1. PICK ms \in Requests : /\ sleep' = [sleep EXCEPT ![current] = @ + SleepTicks(ms)]
                            /\ due' = [due EXCEPT ![current] = SleepTicks(ms)]
  BY DEF Sleep
<1>2. SleepTicks(ms) \in Nat /\ SleepTicks(ms) > 0
  BY TimeAssumption
<1>3. current \in Tasks /\ current # Idle /\ sleep \in [Tasks -> Nat]
  <2>1. Top.at = "run" /\ "sleep" \in Calls[cpu]
    BY DEF Sleep, InCall, Is
  <2>2. cpu = current
    BY <2>1 DEF Switching, Chosen, Window
  <2> QED
    BY <2>1, <2>2, IdleAssumption DEF TypeOK
<1>4. tasks' = tasks /\ current' = current
  BY DEF Sleep, taskVars
<1>5. {t \in Tasks : sleep'[t] > 0} = {t \in Tasks : sleep[t] > 0} \cup {current}
  <2> DEFINE ticks == SleepTicks(ms)
  <2>1. ticks \in Nat /\ ticks > 0 /\ sleep' = [sleep EXCEPT ![current] = @ + ticks]
    BY <1>1, <1>2
  <2> HIDE DEF ticks
  <2>2. \A t \in Tasks : sleep'[t] = IF t = current THEN sleep[t] + ticks ELSE sleep[t]
    BY <1>3, <2>1
  <2> QED
    BY <1>3, <2>1, <2>2
<1> QED
  BY <1>1, <1>3, <1>4, <1>5 DEF Promise!Doze

(* select_next runs a listed task whose time has come, or rests while all of
   them sleep, or changes nothing. *)
LEMMA SelectDispatches ==
    ASSUME TypeOK, ListSound, SleepInv, SelectNext
    PROVE  (\E t \in Tasks : Promise!Dispatch(t)) \/ Promise!Rest \/ UNCHANGED Promise!vars
<1>1. tasks' = Ring /\ Range(Ring) = Range(tasks) /\ due' = due /\ Range(tasks) \subseteq Tasks
  BY RotatedIs, ListedAre DEF TypeOK, Ring, SelectNext
<1>2. ASSUME NEW t \in Tasks
      PROVE  sleep[t] \in Nat /\ Charged[t] \in Nat /\ (Charged[t] > 0 <=> sleep[t] > 0)
  <2>1. sleep[t] \in Nat /\ Charged[t] \in Nat /\ SleptBy(t) \in Nat
    BY ChargedIs, SelectTypes
  <2>2. \/ Charged[t] = sleep[t] - SleptBy(t) /\ sleep[t] > SleptBy(t)
        \/ Charged[t] = sleep[t]
    BY ChargedIs
  <2> QED
    BY <2>1, <2>2
<1>3. \A t \in Tasks : sleep[t] > 0 /\ sleep'[t] = 0 => due[t] = 0
  BY SelectSleep
<1>4. Charged \in [Tasks -> Nat]
  BY SelectTypes
<1>5. CASE \E i \in ReadyAt : sleep' = [Charged EXCEPT ![Ring[i]] = 0] /\ current' = Ring[i]
  <2>1. PICK i \in ReadyAt : sleep' = [Charged EXCEPT ![Ring[i]] = 0] /\ current' = Ring[i]
    BY <1>5
  <2>2. Ring[i] \in Range(Ring)
    BY DEF ReadyAt, Range
  <2>3. PICK next \in Tasks : next = Ring[i]
    BY <1>1, <2>2
  <2>4. next \in Range(tasks) /\ current' = next /\ sleep' = [Charged EXCEPT ![next] = 0]
    BY <1>1, <2>1, <2>2, <2>3
  <2>5. sleep'[next] = 0 /\ \A t \in Tasks : t # next => sleep'[t] = Charged[t]
    BY <1>4, <2>4
  <2>6. {t \in Tasks : sleep'[t] > 0} = {t \in Tasks : sleep[t] > 0} \ {next}
    BY <1>2, <2>5
  <2>7. next \notin {t \in Tasks : sleep[t] > 0} \/ due[next] = 0
    BY <1>3, <2>5
  <2>8. Promise!Dispatch(next)
    BY <1>1, <2>4, <2>6, <2>7 DEF Promise!Dispatch, Promise!Runnable
  <2> QED
    BY <2>8
<1>6. CASE sleep' = Charged /\ current' = current
  <2>1. {t \in Tasks : sleep'[t] > 0} = {t \in Tasks : sleep[t] > 0}
    BY <1>2, <1>6
  <2>2. Range(tasks)' = Range(tasks)
    BY <1>1
  <2> QED
    BY <1>1, <1>6, <2>1, <2>2 DEF Promise!vars
<1>7. CASE ReadyAt = {} /\ sleep' = Charged /\ current' = Idle
  <2>1. ASSUME NEW t \in Range(tasks) PROVE t \in Tasks /\ sleep[t] > 0
    <3>1. PICK i \in DOMAIN Ring : Ring[i] = t
      BY <1>1 DEF Range
    <3>2. t \in Tasks /\ ~(sleep[t] <= Slept[t])
      BY <1>1, <1>7, <3>1 DEF ReadyAt, Ready
    <3> QED
      BY <1>2, <3>2, ChargedIs
  <2>2. {t \in Tasks : sleep'[t] > 0} = {t \in Tasks : sleep[t] > 0}
    BY <1>2, <1>7
  <2>3. Range(tasks)' = Range(tasks)
    BY <1>1
  <2> QED
    BY <1>1, <1>7, <2>1, <2>2, <2>3 DEF Promise!Rest
<1> QED
  BY <1>5, <1>6, <1>7, ListSteps

LEMMA NextPromise ==
    ASSUME ChosenInv, [Next]_vars
    PROVE  Promise!Next \/ UNCHANGED Promise!vars
<1>1. ASSUME UNCHANGED <<tasks, current, sleep, due>> PROVE UNCHANGED Promise!vars
  BY <1>1 DEF Promise!vars
<1>2. CASE UNCHANGED vars
  BY <1>1, <1>2 DEF vars, taskVars, timeVars
<1>3. CASE Next
  <2>2. TypeOK /\ Shape /\ AllProper /\ BirthInv /\ Switching /\ Survives /\ ListSound /\ SleepInv
    BY <1>3, OnlyRunning, ChosenIs
  <2>3. CASE Sleep
    BY <2>2, <2>3, SleepDozes DEF Promise!Next
  <2>4. CASE TaskCall /\ ~Sleep
    <3>1. UNCHANGED <<tasks, current, sleep, due>>
      BY <2>4, Zenon DEF TaskCall, Yield, Dump, NewTask, KillMe, KillTask, KillOwnId, KillKernel,
                         UseHeap, FaultKill, FaultPanic, Call, taskVars, timeVars
    <3> QED
      BY <1>1, <3>1
  <2>5. CASE Tick
    <3>1. UNCHANGED <<tasks, current, sleep>>
      BY <2>5 DEF Tick, taskVars
    <3>2. due' = [t \in Tasks |-> IF due[t] = 0 THEN 0 ELSE due[t] - 1]
      BY <2>5 DEF Tick
    <3>3. Promise!PassTime
      BY <3>1, <3>2 DEF Promise!PassTime
    <3> QED
      BY <3>3 DEF Promise!Next
  <2>6. CASE LinkTask
    <3>1. PICK t \in Tasks : t = Top.arg
      BY <2>2, <2>6, ListSteps, TopShape DEF Wellformed
    <3>2. Top \in NewFrames(t)
      BY <2>2, <2>6, <3>1, ListSteps, TopShape, TopTypes DEF Wellformed, NewFrames
    <3>3. t \notin Range(tasks) \cup {Idle}
      BY <2>2, <3>2, HereIs DEF BirthInv, Unborn
    <3>4. tasks' = Append(tasks, t) /\ Range(Append(tasks, t)) = Range(tasks) \cup {t}
      <4>1. tasks' = Append(tasks, t)
        BY <2>2, <2>6, <3>1, ListSteps
      <4>2. tasks \in Seq(Tasks)
        BY <2>2 DEF TypeOK
      <4> QED
        BY <4>1, <4>2, AppendIs
    <3>5. UNCHANGED <<current, sleep, due>>
      BY <2>6 DEF LinkTask, timeVars
    <3>6. Promise!Spawn(t)
      BY <3>3, <3>4, <3>5 DEF Promise!Spawn
    <3> QED
      BY <3>6 DEF Promise!Next
  <2>7. CASE UnlistCurrent
    <3>1. Top.at = "unlist" /\ Proper(Top) /\ Top \in Frame
      BY <2>2, <2>7, ListSteps, ProperIs, TopTypes
    <3>2. Top.op # "exit"
      BY <2>2, <3>1, HereIs DEF Survives, Exits
    <3>3. Top.op = "kill" /\ Top.arg = current
      BY <2>2, <2>7, <3>1, <3>2, ListSteps DEF Proper
    <3> QED
      BY <2>2, <3>1, <3>3, OthersKill DEF Window
  <2>8. CASE UnlistOther
    <3>1. PICK t \in Tasks : t = Top.arg
      BY <2>2, <2>8, ListSteps, TopShape DEF Wellformed
    <3>2. t # current /\ tasks' = Without(tasks, t) /\ UNCHANGED <<current, sleep, due>>
      BY <2>2, <2>8, <3>1, ListSteps DEF UnlistOther, timeVars
    <3>3. Range(Without(tasks, t)) = Range(tasks) \ {t}
      <4>1. tasks \in Seq(Tasks) /\ IsInjective(tasks)
        BY <2>2 DEF TypeOK, ListSound
      <4> QED
        BY <4>1, WithoutIs
    <3>4. Range(tasks)' = Range(tasks) \ {t}
      BY <3>2, <3>3
    <3>5. CASE t \in Range(tasks)
      <4>1. Promise!Retire(t)
        BY <3>2, <3>4, <3>5 DEF Promise!Retire
      <4> QED
        BY <4>1 DEF Promise!Next
    <3>6. CASE t \notin Range(tasks)
      BY <3>2, <3>4, <3>6 DEF Promise!vars
    <3> QED
      BY <3>5, <3>6
  <2>9. CASE SelectNext
    BY <2>2, <2>9, SelectDispatches DEF Promise!Next
  <2>10. CASE (KernelStep \/ TimerInterrupt) /\ ~Tick /\ ~LinkTask /\ ~UnlistCurrent /\ ~UnlistOther
              /\ ~SelectNext
    <3>1. UNCHANGED <<tasks, current, sleep, due>>
      BY <2>10 DEF KernelStep, UndoCount, ExitInterrupt, Iret, TimerInterrupt, PopInts, LockSched, LockHeap,
            HeapDone, Leave, PushInts, ReleaseToSwitch, LoadEsp, SwapStacks, Resume, taskVars, timeVars
    <3> QED
      BY <1>1, <3>1
  <2> QED
    BY <1>3, <2>3, <2>4, <2>5, <2>6, <2>7, <2>8, <2>9, <2>10 DEF Next
<1> QED
  BY <1>2, <1>3

(* The scheduler keeps SchedulerSpec's promise as long as the steps are calm
   and no task kills itself: stacks, locks, interrupts, the charging of the
   sleepers and a count that idle has raised hide nothing but one task in
   hand, run when its time has come, and idle, run while all the others
   sleep. *)
THEOREM PromiseKept == Spec /\ [][Calm /\ NoSuicide]_vars => KeepsPromise
<1>1. Init => Promise!Init
  BY InitPromise
<1>2. ChosenInv /\ [Next]_vars => [Promise!Next]_(Promise!vars)
  BY NextPromise
<1> QED
  BY <1>1, <1>2, ChosenInductive, PTL DEF Spec, KeepsPromise, Promise!Spec
-----------------------------------------------------------------------------
(* Systems whose every step is calm, or steady. *)

(* No exception is raised that kills, and one of the tasks that the system
   starts with, which nobody can kill, never sleeps. *)
Awake(awake) ==
    /\ \A t \in Tasks : "fault" \in Calls[t] => Faults \cap KillVectors = {}
    /\ awake \in Range(Started) /\ "sleep" \notin Calls[awake]
    /\ awake = Kernel \/ \A t \in Tasks : Calls[t] \cap {"kill", "exit"} = {}

(* Besides, no tick comes inside a handler, and new stacks hold no stale IF. *)
Orderly(awake) == Awake(awake) /\ MaxDepth = 1 /\ StaleFlags \subseteq {FALSE}

(* The frames that would take that task away. *)
Threats(t) ==
    {f \in Frame :
        \/ f.op = "kill" /\ f.arg = t
        \/ t # Kernel /\ f.op \in {"kill", "exit"}}

AwakeInv(awake) ==
    awake \in Range(tasks) /\ sleep[awake] = 0 /\ Sites(Threats(awake)) = {}

LEMMA InitAwake ==
    ASSUME NEW awake \in Tasks, Awake(awake), Init PROVE AwakeInv(awake)
<1>1. awake \in Range(tasks) /\ sleep[awake] = 0
  BY DEF Awake, Init
<1>2. \A t \in Tasks : frame[t].op = "none"
  BY DEF Init, FreshFrame, At
<1>3. \A t \in Tasks : Depth(t) = 1 /\ Spots(t) = {1}
  <2>1. \A t \in Tasks : Len(under[t]) = 0
    BY EmptySeq DEF Init
  <2> QED
    BY <2>1 DEF Spots, Depth
<1>4. \A t \in Tasks : \A k \in Spots(t) : FrameAt(t, k).op = "none"
  BY <1>2, <1>3 DEF FrameAt
<1>5. Sites(Threats(awake)) = {}
  BY <1>4 DEF Sites, Threats
<1> QED
  BY <1>1, <1>5 DEF AwakeInv

(* The calls that Calls leaves out are not made. *)
LEMMA AwakeCalls ==
    ASSUME NEW awake \in Tasks, Awake(awake), TypeOK
    PROVE  /\ ~FaultKill
           /\ awake # Kernel => ~KillTask /\ ~KillOwnId /\ ~KillMe
           /\ Sleep => cpu # awake
<1>1. cpu \in Tasks
  BY DEF TypeOK
<1>2. \A call : InCall(call) => call \in Calls[cpu]
  BY DEF InCall
<1>3. \A op, args : (Call("kill", op, args) => InCall("kill")) /\ (Call("exit", op, args) => InCall("exit"))
  BY Zenon DEF Call
<1>4. awake # Kernel => ~InCall("kill") /\ ~InCall("exit")
  BY <1>1, <1>2 DEF Awake
<1>5. ~FaultKill
  BY <1>1, <1>2 DEF FaultKill, Awake
<1>6. Sleep => cpu # awake
  BY <1>1, <1>2 DEF Sleep, Awake
<1> QED
  BY <1>3, <1>4, <1>5, <1>6, Zenon DEF KillTask, KillOwnId, KillMe

(* Somebody is always ready, so idle is not chosen. *)
LEMMA NeverRests ==
    ASSUME NEW awake \in Tasks, TypeOK, Shape, ListSound, AwakeInv(awake), Next
    PROVE  ~Rests
<1>1. CASE SelectNext
  <2>1. Range(Ring) = Range(tasks) /\ Idle \notin Range(tasks)
    BY RotatedIs DEF TypeOK, Ring, ListSound
  <2>2. PICK i \in DOMAIN Ring : Ring[i] = awake
    BY <2>1 DEF AwakeInv, Range
  <2>3. i \in ReadyAt
    BY <2>2, ChargedIs DEF ReadyAt, Ready, AwakeInv
  <2>4. \E j \in ReadyAt : current' = Ring[j]
    BY <1>1, <2>3, ListSteps
  <2>5. \A j \in ReadyAt : Ring[j] \in Range(Ring)
    BY DEF ReadyAt, Range
  <2> QED
    BY <2>1, <2>4, <2>5 DEF Rests
<1>2. CASE ~SelectNext
  <2>1. current' = current
    BY <1>2, OthersKept
  <2> QED
    BY <2>1 DEF Rests
<1> QED
  BY <1>1, <1>2

LEMMA NextThreats ==
    ASSUME NEW awake \in Tasks, Awake(awake), TypeOK, Shape, AllProper, AwakeInv(awake), Next
    PROVE  Sites(Threats(awake))' = {}
<1> DEFINE P == Threats(awake)
<1>1. TypeOK /\ Shape /\ AllProper
  OBVIOUS
<1>2. \A f \in P : f.op \in {"kill", "exit"}
  BY DEF Threats
<1>3. Proper(Top) /\ Wellformed(Top) /\ Top \in Frame
  BY <1>1, ProperIs, TopShape, TopTypes
<1>4. Top \notin P
  BY <1>1, HereIs DEF AwakeInv
<1>5. Onward => Top' \notin P
  <2> SUFFICES ASSUME Onward, Top' \in P PROVE FALSE
    OBVIOUS
  <2>1. CASE awake = Kernel
    <3>1. Top'.op = "kill" /\ Top'.arg = Kernel
      BY <2>1 DEF Threats
    <3>2. Top.op = "kill" /\ Top.arg = Kernel
      BY <1>1, <3>1, KillsBegin
    <3> QED
      BY <1>3, <1>4, <2>1, <3>2 DEF Threats
  <2>2. CASE awake # Kernel
    <3>1. Top.op \in {"kill", "exit"}
      BY <1>1, <1>2, <2>2, KillsBegin, AwakeCalls
    <3> QED
      BY <1>3, <1>4, <2>2, <3>1 DEF Threats
  <2> QED
    BY <2>1, <2>2
<1>6. TimerInterrupt => Top' \notin P
  <2>1. TimerInterrupt => Top'.op = "none"
    BY <1>1, Pushed DEF At
  <2> QED
    BY <1>2, <2>1
<1>7. \A flag \in BOOLEAN : FreshFrame(flag) \notin P
  BY <1>2 DEF FreshFrame, At
<1>8. HeapDone /\ Top.at = "heap" /\ Top.op = "new" /\ Moved("lock") \in P => Top \in P
  BY <1>1, <1>2, MovedFields
<1>9. \A to : Top.at = "swap" /\ SwapsTo(to) => frame'[cpu] \notin P
  <2>1. \A to : Top.at = "swap" /\ SwapsTo(to) => frame'[cpu].op # "kill" /\ frame'[cpu].op = Top.op
    BY <1>3 DEF SwapsTo, Wellformed
  <2>2. awake # Kernel => Top.op # "exit"
    BY <1>3, <1>4 DEF Threats
  <2> QED
    BY <2>1, <2>2 DEF Threats
<1> HIDE DEF P
<1>10. Sites(P)' \subseteq Sites(P)
  BY <1>1, <1>4, <1>5, <1>6, <1>7, <1>8, <1>9, SitesFewer
<1> QED
  BY <1>10 DEF AwakeInv, P

LEMMA NextAwake ==
    ASSUME NEW awake \in Tasks, Awake(awake), CalmInv, AwakeInv(awake), Next
    PROVE  AwakeInv(awake)'
<1>1. TypeOK /\ Shape /\ AllProper /\ ListSound /\ mode = "run" /\ Chosen
  BY OnlyRunning, CalmIs DEF Switching
<1>2. tasks \in Seq(Tasks) /\ IsInjective(tasks) /\ awake \in Range(tasks) /\ sleep[awake] = 0
  BY <1>1 DEF TypeOK, ListSound, AwakeInv
<1>3. awake \in Range(tasks)'
  <2>1. CASE LinkTask
    <3>1. tasks' = Append(tasks, Top.arg) /\ Top.arg \in Tasks
      BY <1>1, <2>1, ListSteps, TopShape DEF Wellformed
    <3>2. Range(Append(tasks, Top.arg)) = Range(tasks) \cup {Top.arg}
      BY <1>2, <3>1, AppendIs
    <3> QED
      BY <1>2, <3>1, <3>2
  <2>2. CASE SelectNext
    <3>1. tasks' = Ring /\ Range(Ring) = Range(tasks)
      BY <1>1, <1>2, <2>2, ListSteps, RotatedIs DEF Ring
    <3> QED
      BY <1>2, <3>1
  <2>3. CASE UnlistCurrent \/ UnlistOther
    <3>1. Top.at = "unlist" /\ Proper(Top) /\ Wellformed(Top) /\ Top \in Frame
      BY <1>1, <2>3, ListSteps, ProperIs, TopShape, TopTypes
    <3>2. Top \notin Threats(awake)
      BY <1>1, HereIs DEF AwakeInv
    <3>3. awake = Kernel /\ ~(Top.op = "kill" /\ Top.arg = awake)
      BY <3>1, <3>2 DEF Threats, Proper
    <3>4. tasks' = tasks \/ \E t : t # awake /\ tasks' = Without(tasks, t)
      <4>1. CASE UnlistCurrent
        BY <1>1, <3>3, <4>1, ListSteps
      <4>2. CASE UnlistOther
        BY <1>1, <3>3, <4>2, ListSteps
      <4> QED
        BY <2>3, <4>1, <4>2
    <3>5. \A t : Range(Without(tasks, t)) = Range(tasks) \ {t}
      BY <1>2, WithoutIs
    <3> QED
      BY <1>2, <3>4, <3>5
  <2>4. CASE TaskCall
    <3>1. tasks' = tasks
      BY <2>4, Zenon DEF TaskCall, Sleep, Yield, Dump, NewTask, KillMe, KillTask, KillOwnId, KillKernel,
                         UseHeap, FaultKill, FaultPanic, Call, taskVars
    <3> QED
      BY <1>2, <3>1
  <2>5. CASE (KernelStep \/ TimerInterrupt) /\ ~LinkTask /\ ~SelectNext /\ ~UnlistCurrent /\ ~UnlistOther
    <3>1. tasks' = tasks
      BY <2>5 DEF KernelStep, Tick, UndoCount, ExitInterrupt, Iret, TimerInterrupt, PopInts, LockSched,
         LockHeap, HeapDone, Leave, PushInts, ReleaseToSwitch, LoadEsp, SwapStacks, Resume, taskVars
    <3> QED
      BY <1>2, <3>1
  <2> QED
    BY <2>1, <2>2, <2>3, <2>4, <2>5 DEF Next
<1>4. sleep'[awake] = 0
  <2>1. CASE Sleep
    <3>1. current # awake
      BY <1>1, <2>1, AwakeCalls, CallSteps DEF TaskCall, Chosen, Window
    <3>2. PICK ms \in Requests : sleep' = [sleep EXCEPT ![current] = @ + SleepTicks(ms)]
      BY <2>1 DEF Sleep
    <3> QED
      BY <1>1, <1>2, <3>1, <3>2 DEF TypeOK
  <2>2. CASE SelectNext
    <3>1. Charged[awake] = 0 /\ Charged \in [Tasks -> Nat]
      BY <1>1, <1>2, ChargedIs, SelectTypes
    <3>2. sleep' = Charged \/ \E t : sleep' = [Charged EXCEPT ![t] = 0]
      BY <1>1, <2>2, ListSteps
    <3> QED
      BY <3>1, <3>2
  <2>3. CASE TaskCall /\ ~Sleep
    <3>1. sleep' = sleep
      BY <2>3, Zenon DEF TaskCall, Yield, Dump, NewTask, KillMe, KillTask, KillOwnId, KillKernel,
                         UseHeap, FaultKill, FaultPanic, Call, timeVars
    <3> QED
      BY <1>2, <3>1
  <2>4. CASE (KernelStep \/ TimerInterrupt) /\ ~SelectNext
    <3>1. sleep' = sleep
      BY <2>4 DEF KernelStep, Tick, UndoCount, ExitInterrupt, Iret, TimerInterrupt, PopInts, LockSched,
         LockHeap, HeapDone, LinkTask, UnlistCurrent, UnlistOther, Leave, PushInts, ReleaseToSwitch,
         LoadEsp, SwapStacks, Resume, timeVars
    <3> QED
      BY <1>2, <3>1
  <2> QED
    BY <2>1, <2>2, <2>3, <2>4 DEF Next
<1> QED
  BY <1>1, <1>3, <1>4, NextThreats DEF AwakeInv

(* Both go together: to stay calm somebody must be awake, and as long as the
   steps are calm that one stays so. *)
WakefulInv(awake) == CalmInv /\ AwakeInv(awake) /\ DriftInv /\ Low

LEMMA NextWakeful ==
    ASSUME NEW awake \in Tasks, Awake(awake), WakefulInv(awake), BooksInv, BooksInv', Balanced, Balanced',
           [Next]_vars
    PROVE  WakefulInv(awake)' /\ [Calm /\ ~Rests /\ ~FaultKill]_vars
<1>1. TypeOK /\ Shape /\ ListSound /\ CalmInv /\ AwakeInv(awake) /\ DriftInv /\ Low
  BY CalmIs DEF WakefulInv
<1>2. CASE UNCHANGED vars
  <2>1. CalmInv'
    BY <1>1, <1>2, NextCalm
  <2>2. DriftInv' /\ Low'
    BY <1>1, <1>2, LowKept
  <2>3. AwakeInv(awake)'
    <3>1. Still /\ tasks' = tasks /\ sleep' = sleep
      BY <1>2 DEF vars, Still, taskVars, timeVars
    <3>2. Threats(awake)' = Threats(awake)
      BY DEF Threats, Frame
    <3> QED
      BY <1>1, <3>1, <3>2, SitesStill DEF AwakeInv
  <2> QED
    BY <1>2, <2>1, <2>2, <2>3 DEF WakefulInv
<1>3. CASE Next
  <2>1. Calm /\ ~Rests /\ ~FaultKill
    BY <1>1, <1>3, LowCalm, NeverRests, AwakeCalls
  <2>2. CalmInv' /\ AwakeInv(awake)'
    BY <1>1, <1>3, <2>1, NextCalm, NextAwake
  <2>3. DriftInv' /\ Low'
    BY <1>1, <1>3, <2>1, LowKept
  <2> QED
    BY <2>1, <2>2, <2>3 DEF WakefulInv
<1> QED
  BY <1>2, <1>3

LEMMA AwakeSteps ==
    ASSUME NEW awake \in Tasks, Awake(awake)
    PROVE  Spec => [][Calm /\ ~Rests /\ ~FaultKill]_vars
<1>1. Init /\ BooksInv /\ Balanced => WakefulInv(awake)
  BY InitCalm, InitAwake, InitLow DEF WakefulInv
<1>2. WakefulInv(awake) /\ BooksInv /\ BooksInv' /\ Balanced /\ Balanced' /\ [Next]_vars =>
          WakefulInv(awake)' /\ [Calm /\ ~Rests /\ ~FaultKill]_vars
  BY NextWakeful
<1> QED
  BY <1>1, <1>2, BooksInductive, PTL DEF Spec

(* In a system that keeps a task awake, of any tasks and calls, the promise
   is kept and nothing dangles if its tasks call no kill_me, nor kill_task on
   themselves: the hypotheses of the theorems above are met by the constants
   alone, whatever flags new stacks start with and however deep ticks nest. *)
THEOREM AwakePromise ==
    ASSUME NEW awake \in Tasks, Awake(awake), \A t \in Tasks : "exit" \notin Calls[t]
    PROVE  Spec => KeepsPromise /\ [](NoDangling /\ Switchable)
<1>1. Spec => [][Calm /\ ~Rests /\ ~FaultKill]_vars
  BY AwakeSteps
<1>2. Spec => []TypeOK
  BY TypeCorrect
<1>3. TypeOK => ~KillMe /\ ~KillOwnId
  <2>1. cpu \in Tasks => ~InCall("exit")
    BY DEF InCall
  <2>2. \A op, args : Call("exit", op, args) => InCall("exit")
    BY Zenon DEF Call
  <2> QED
    BY <2>1, <2>2, Zenon DEF KillMe, KillOwnId, TypeOK
<1>4. TypeOK /\ [Calm /\ ~Rests /\ ~FaultKill]_vars => [Calm /\ NoSuicide]_vars /\ [Calm]_vars
  BY <1>3 DEF NoSuicide
<1>5. Spec => [][Calm /\ NoSuicide]_vars /\ [][Calm]_vars
  BY <1>1, <1>2, <1>4, PTL
<1> QED
  BY <1>5, PromiseKept, NothingDangles, AlwaysSwitchable, PTL

FlagsLow == \A t \in Tasks : t # cpu /\ frame[t].at = "resume" => ~frame[t].fl

LEMMA InitFlags ==
    ASSUME NEW awake \in Tasks, Orderly(awake), Init PROVE FlagsLow
<1>1. ASSUME NEW t \in Tasks, frame[t].at = "resume" PROVE ~frame[t].fl
  <2>1. frame[t] # At("run")
    BY <1>1 DEF At
  <2>2. PICK flag \in StaleFlags : frame[t] = FreshFrame(flag)
    BY <2>1 DEF Init
  <2>3. flag = FALSE
    BY DEF Orderly
  <2> QED
    BY <2>2, <2>3 DEF FreshFrame, At
<1> QED
  BY <1>1 DEF FlagsLow

LEMMA NextFlags ==
    ASSUME NEW awake \in Tasks, Orderly(awake), SteadyInv, FlagsLow, Next
    PROVE  FlagsLow'
<1>1. TypeOK /\ Shape /\ AllProper /\ mode = "run" /\ Gate /\ Fresh
  BY OnlyRunning, SteadyIs
<1>2. CASE ~SwapStacks /\ ~(HeapDone /\ Top.op = "new")
  BY <1>1, <1>2, OthersKept DEF FlagsLow
<1>3. CASE HeapDone /\ Top.op = "new"
  <2>1. PICK new \in Tasks : new = Top.arg /\ Makes(new) /\ new # cpu
    BY <1>1, <1>3, HeapSteps DEF Fresh
  <2>2. PICK flag \in StaleFlags :
           frame' = [frame EXCEPT ![new] = FreshFrame(flag), ![cpu] = Moved("lock")]
    BY <2>1 DEF Makes
  <2>3. cpu' = cpu /\ cpu \in Tasks /\ frame \in [Tasks -> Frame] /\ flag = FALSE
    BY <1>1, <2>1 DEF Makes, TypeOK, Orderly
  <2>4. frame'[new] = FreshFrame(FALSE) /\ \A t \in Tasks : t # cpu /\ t # new => frame'[t] = frame[t]
    BY <2>1, <2>2, <2>3
  <2>5. ~FreshFrame(FALSE).fl
    BY DEF FreshFrame, At
  <2> QED
    BY <1>1, <2>3, <2>4, <2>5 DEF FlagsLow
<1>4. CASE SwapStacks
  <2>1. CASE Still
    BY <1>1, <2>1 DEF Still, FlagsLow
  <2>2. CASE SwapsTo(Top.esp)
    <3>1. Top.at = "swap" /\ ~eflags_if
      BY <1>1, <1>4, SwitchSteps, ProperIs DEF Gate, Proper
    <3>2. ~frame'[cpu].fl /\ \A t \in Tasks : t # cpu => frame'[t] = frame[t]
      BY <1>1, <2>2, <3>1 DEF SwapsTo, TypeOK
    <3> QED
      BY <1>1, <3>2 DEF FlagsLow
  <2> QED
    BY <1>1, <1>4, <2>1, <2>2, SwitchSteps
<1> QED
  BY <1>2, <1>3, <1>4

LEMMA OrderlySteps ==
    ASSUME NEW awake \in Tasks, Orderly(awake), SteadyInv, FlagsLow, Next, ~Rests, ~FaultKill
    PROVE  Steady
<1>1. TypeOK /\ Shape /\ cpu \in Tasks
  BY SteadyIs DEF TypeOK
<1>2. ~(TimerInterrupt /\ Top.irq)
  <2>1. TimerInterrupt => Len(under[cpu]) < 1
    BY DEF TimerInterrupt, Orderly
  <2>2. Top.irq => Len(under[cpu]) > 0
    BY <1>1, TopShape
  <2>3. Len(under[cpu]) \in Nat
    BY <1>1, Stacks
  <2> QED
    BY <2>1, <2>2, <2>3
<1>3. ~(cpu' # cpu /\ frame[cpu'].fl)
  <2>1. CASE SwapStacks
    BY <1>1, <2>1, SwitchSteps DEF SwapsTo, Still, FlagsLow
  <2>2. CASE ~SwapStacks
    <3>1. HeapDone /\ Top.op = "new" => cpu' = cpu
      BY <1>1, HeapSteps DEF Makes
    <3> QED
      BY <1>1, <2>2, <3>1, OthersKept
  <2> QED
    BY <2>1, <2>2
<1> QED
  BY <1>2, <1>3 DEF Steady, Rests

LEMMA OrderlyStep ==
    ASSUME NEW awake \in Tasks, Orderly(awake), SteadyInv, FlagsLow, [Next]_vars,
           [Calm /\ ~Rests /\ ~FaultKill]_vars
    PROVE  SteadyInv' /\ FlagsLow' /\ [Steady]_vars
<1>1. CASE UNCHANGED vars
  BY <1>1, NextSteady DEF FlagsLow, vars
<1>2. CASE Next /\ ~(UNCHANGED vars)
  <2>1. Steady
    BY <1>2, OrderlySteps
  <2> QED
    BY <1>2, <2>1, NextSteady, NextFlags
<1> QED
  BY <1>1, <1>2

(* In an orderly system, of any tasks and calls, no step upsets the gate. *)
THEOREM OrderlyIsSteady ==
    ASSUME NEW awake \in Tasks, Orderly(awake) PROVE Spec => [][Steady]_vars
<1>1. Init => SteadyInv /\ FlagsLow
  BY InitSteady, InitFlags
<1>2. SteadyInv /\ FlagsLow /\ [Next]_vars /\ [Calm /\ ~Rests /\ ~FaultKill]_vars =>
          (SteadyInv /\ FlagsLow)' /\ [Steady]_vars
  BY OrderlyStep
<1>3. Spec => [][Calm /\ ~Rests /\ ~FaultKill]_vars
  BY AwakeSteps DEF Orderly
<1> QED
  BY <1>1, <1>2, <1>3, PTL DEF Spec

(* In an orderly system the count is regular and no processor spins deaf but
   behind the shell. *)
THEOREM OrderlyGate ==
    ASSUME NEW awake \in Tasks, Orderly(awake)
    PROVE  Spec => [](RegularCount /\ DeafSpinOnlyBehindShell)
<1>1. Spec => [][Steady]_vars
  BY OrderlyIsSteady
<1> QED
  BY <1>1, CountRegular, DeafOnlyBehindShell, PTL
=============================================================================
