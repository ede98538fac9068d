------------------------ MODULE SchedulerListProofs -------------------------
(***************************************************************************)
(* Theorems about Scheduler that hold however the gate drifts: the heap's   *)
(* lock excludes, the run list is sound and linked, and nobody is woken     *)
(* early.                                                                   *)
(*                                                                          *)
(* A frame is found by the stack it is on and its height above the bottom:  *)
(* an interrupt and its iret leave every other frame where it was.          *)
(***************************************************************************)
EXTENDS SchedulerProofs, RunList, FiniteSetTheorems

Depth(t) == Len(under[t]) + 1
Spots(t) == 1..Depth(t)
FrameAt(t, k) == IF k = Depth(t) THEN frame[t] ELSE under[t][Depth(t) - k]

(* Where the frames of P are. *)
Sites(P) == {s \in Tasks \X (Nat \ {0}) : s[2] \in Spots(s[1]) /\ FrameAt(s[1], s[2]) \in P}

(* The spot of the frame in hand. *)
Here == <<cpu, Depth(cpu)>>
-----------------------------------------------------------------------------
(* What each step does to the frame in hand. *)

Onward == SetTop(Top') /\ under' = under /\ cpu' = cpu
Still  == UNCHANGED <<frame, under, cpu>>

(* A call of the task begins... *)
Starts(place, op, arg) ==
    Onward /\ Top'.at = place /\ Top'.op = op /\ Top'.arg = arg /\ ~Top'.irq

(* ...goes on... *)
Passes(place) ==
    /\ Onward /\ Top'.at = place
    /\ Top'.op = Top.op /\ Top'.arg = Top.arg /\ Top'.irq = Top.irq
    /\ Top'.old = Top.old /\ Top'.esp = Top.esp

(* ...and is over. *)
Returns ==
    /\ Onward /\ Top'.op = "none" /\ Top'.irq = Top.irq
    /\ Top'.at = IF Top.irq THEN "undo" ELSE "run"

LEMMA OnwardIs ==
    ASSUME TypeOK, NEW f, SetTop(f), under' = under, cpu' = cpu
    PROVE  Onward /\ Top' = f
<1>1. frame'[cpu] = f
  BY DEF SetTop, TypeOK
<1>2. Top' = f
  BY <1>1 DEF Top
<1> QED
  BY <1>2 DEF Onward

LEMMA PassesIs ==
    ASSUME TypeOK, NEW place, Goto(place), under' = under, cpu' = cpu
    PROVE  Passes(place)
<1>1. Onward /\ Top' = Moved(place)
  BY OnwardIs DEF Goto
<1>2. Moved(place).old = Top.old /\ Moved(place).esp = Top.esp /\ Moved(place).irq = Top.irq
  BY TopTypes DEF Moved, Frame
<1> QED
  BY <1>1, <1>2, MovedFields DEF Passes

LEMMA StartsIs ==
    ASSUME TypeOK, NEW place, NEW op, NEW arg, Enter(place, op, arg), under' = under, cpu' = cpu
    PROVE  Starts(place, op, arg)
<1>1. Onward /\ Top' = Entry(place, op, arg)
  BY OnwardIs DEF Enter
<1> QED
  BY <1>1, EntryFields, EntryIrq DEF Starts

LEMMA ReturnsIs ==
    ASSUME TypeOK, SetTop(BackFrom(Top)), under' = under, cpu' = cpu
    PROVE  Returns
<1>1. Onward /\ Top' = BackFrom(Top)
  BY OnwardIs
<1>2. Top.irq \in BOOLEAN
  BY TopTypes DEF Frame
<1>3. CASE Top.irq
  BY <1>1, <1>3 DEF Returns, BackFrom, At
<1>4. CASE ~Top.irq
  BY <1>1, <1>2, <1>4 DEF Returns, BackFrom, At
<1> QED
  BY <1>3, <1>4

(* The calls of a task. *)
LEMMA CallSteps ==
    ASSUME TypeOK
    PROVE  /\ TaskCall => mode = "run" /\ Top.at = "run"
           /\ \A call, op, args : Call(call, op, args) =>
                 \E t \in args : Starts("pop", op, t)
           /\ Sleep => Starts("pop", "yield", NoTask)
           /\ NewTask => \E t \in Tasks \ created : created' = created \cup {t} /\ Starts("pop", "new", t)
           /\ UseHeap => Starts("heap_lock", "heap", NoTask)
           /\ FaultKill => Starts("pop", "exit", NoTask)
           /\ KillKernel \/ FaultPanic => Still /\ mode' = "panic"
<1>1. TaskCall => mode = "run" /\ Top.at = "run"
  BY DEF TaskCall, Sleep, Yield, Dump, NewTask, KillMe, KillTask, KillOwnId, KillKernel, UseHeap,
         FaultKill, FaultPanic, Call, InCall, Is
<1>2. \A call, op, args : Call(call, op, args) => \E t \in args : Starts("pop", op, t)
  BY StartsIs DEF Call
<1>3. Sleep => Starts("pop", "yield", NoTask)
  BY StartsIs DEF Sleep
<1>4. NewTask => \E t \in Tasks \ created : created' = created \cup {t} /\ Starts("pop", "new", t)
  BY StartsIs DEF NewTask
<1>5. UseHeap => Starts("heap_lock", "heap", NoTask)
  BY StartsIs DEF UseHeap
<1>6. FaultKill => Starts("pop", "exit", NoTask)
  BY StartsIs DEF FaultKill
<1>7. KillKernel \/ FaultPanic => Still /\ mode' = "panic"
  BY DEF KillKernel, FaultPanic, Still
<1> QED
  BY <1>1, <1>2, <1>3, <1>4, <1>5, <1>6, <1>7

(* The interrupt. *)
LEMMA InterruptSteps ==
    ASSUME TypeOK
    PROVE  /\ Tick => /\ Top.at = "tick" /\ Onward /\ Top'.irq = Top.irq /\ Top'.arg = Top.arg
                      /\ \/ Top'.at = "pop" /\ Top'.op = "yield"
                            /\ interrupts_semaphore' = interrupts_semaphore + 1
                         \/ Top'.at = "exit" /\ Top'.op = Top.op
                            /\ interrupts_semaphore' = interrupts_semaphore
           /\ UndoCount => Top.at = "undo" /\ Passes("exit")
           /\ ExitInterrupt => Top.at = "exit" /\ Passes("iret")
<1>1. ASSUME Tick
      PROVE  /\ Top.at = "tick" /\ Onward /\ Top'.irq = Top.irq /\ Top'.arg = Top.arg
             /\ \/ Top'.at = "pop" /\ Top'.op = "yield"
                   /\ interrupts_semaphore' = interrupts_semaphore + 1
                \/ Top'.at = "exit" /\ Top'.op = Top.op
                   /\ interrupts_semaphore' = interrupts_semaphore
  <2>1. Top.at = "tick" /\ under' = under /\ cpu' = cpu
    BY <1>1 DEF Tick, Is
  <2>2. CASE phase' = 0
    <3> DEFINE f == [Top EXCEPT !.at = "pop", !.op = "yield"]
    <3>1. SetTop(f) /\ interrupts_semaphore' = interrupts_semaphore + 1
      BY <1>1, <2>2 DEF Tick
    <3>2. f.at = "pop" /\ f.op = "yield" /\ f.irq = Top.irq /\ f.arg = Top.arg
      BY TopTypes DEF Frame
    <3> HIDE DEF f
    <3> QED
      BY <2>1, <3>1, <3>2, OnwardIs
  <2>3. CASE phase' # 0
    <3>1. Goto("exit") /\ interrupts_semaphore' = interrupts_semaphore
      BY <1>1, <2>3 DEF Tick
    <3> QED
      BY <2>1, <3>1, PassesIs DEF Passes
  <2> QED
    BY <2>2, <2>3
<1>2. UndoCount => Top.at = "undo" /\ Passes("exit")
  BY PassesIs DEF UndoCount, Is
<1>3. ExitInterrupt => Top.at = "exit" /\ Passes("iret")
  BY PassesIs DEF ExitInterrupt, Is
<1> QED
  BY <1>1, <1>2, <1>3

(* The way in and the way out. *)
LEMMA LockSteps ==
    ASSUME TypeOK
    PROVE  /\ PopInts => Top.at = "pop" /\ Passes(IF Top.op = "new" THEN "heap_lock" ELSE "lock")
           /\ LockSched => Top.at = "lock" /\ Passes(UnderLock(Top.op))
           /\ LockHeap => Top.at = "heap_lock" /\ Passes("heap")
           /\ Leave => Top.at = "leave" /\ Passes("push")
           /\ PushInts => Top.at = "push" /\ Returns
  BY PassesIs, ReturnsIs DEF PopInts, LockSched, LockHeap, Leave, PushInts, Is

(* alloc makes the stack of a new task: the one step that touches another's. *)
Makes(t) ==
    /\ under' = under /\ cpu' = cpu
    /\ \E flag \in StaleFlags :
          frame' = [frame EXCEPT ![t] = FreshFrame(flag), ![cpu] = Moved("lock")]
    /\ esp' = [esp EXCEPT ![t] = t]
    /\ UNCHANGED <<freed, since>>

LEMMA HeapSteps ==
    ASSUME TypeOK, Shape, HeapDone
    PROVE  /\ Top.at = "heap" /\ kheap_lock' = Unlocked
           /\ \/ /\ Top.op = "heap"
                 /\ Onward /\ Top'.at = "run" /\ Top'.op = "none" /\ ~Top'.irq
                 /\ UNCHANGED <<freed, since, esp>>
              \/ Top.op = "new" /\ Top.arg \in Tasks /\ Makes(Top.arg)
              \/ /\ Top.op = "kill" /\ Top.arg \in Tasks
                 /\ Passes("leave") /\ freed' = freed \cup {Top.arg}
                 /\ UNCHANGED <<since, esp>>
              \/ /\ Top.op = "exit"
                 /\ Onward /\ Top'.at = "unlock" /\ Top'.op = "exit" /\ Top'.arg = current
                 /\ Top'.irq = Top.irq
                 /\ freed' = freed \cup {current} /\ since' = [since EXCEPT ![current] = 0]
                 /\ UNCHANGED esp
<1>1. Top.at = "heap" /\ kheap_lock' = Unlocked /\ under' = under /\ cpu' = cpu
  BY DEF HeapDone, Is, Release
<1>2. Top.op \in {"new", "kill"} => Top.arg \in Tasks
  BY TopShape DEF Wellformed
<1>3. CASE Top.op = "heap"
  <2>1. SetTop(At("run")) /\ UNCHANGED <<freed, since, esp>>
    BY <1>3 DEF HeapDone
  <2>2. Onward /\ Top' = At("run")
    BY <1>1, <2>1, OnwardIs
  <2> QED
    BY <1>1, <1>3, <2>1, <2>2 DEF At
<1>4. CASE Top.op = "new"
  BY <1>1, <1>2, <1>4 DEF HeapDone, Makes
<1>5. CASE Top.op = "kill"
  BY <1>1, <1>2, <1>5, PassesIs DEF HeapDone
<1>6. CASE Top.op = "exit"
  <2> DEFINE f == [Top EXCEPT !.at = "unlock", !.arg = current]
  <2>1. SetTop(f) /\ freed' = freed \cup {current} /\ since' = [since EXCEPT ![current] = 0] /\ esp' = esp
    BY <1>6 DEF HeapDone
  <2>2. f.at = "unlock" /\ f.op = Top.op /\ f.arg = current /\ f.irq = Top.irq
    BY TopTypes DEF Frame
  <2> HIDE DEF f
  <2>3. Onward /\ Top' = f
    BY <1>1, <2>1, OnwardIs
  <2> QED
    BY <1>1, <1>6, <2>1, <2>2, <2>3
<1> QED
  BY <1>1, <1>3, <1>4, <1>5, <1>6 DEF HeapDone

(* Under sched.lock. *)
Switches(op) ==
    /\ Onward /\ Top'.at = "unlock" /\ Top'.op = op /\ Top'.irq = Top.irq
    /\ Top'.old = current /\ Top'.arg = current'

LEMMA ListSteps ==
    ASSUME TypeOK
    PROVE  /\ LinkTask => Top.at = "link" /\ Passes("leave") /\ tasks' = Append(tasks, Top.arg)
           /\ UnlistCurrent =>
                /\ Top.at = "unlist" /\ (Top.op = "exit" \/ Top.arg = current)
                /\ \/ current = Kernel /\ Still /\ mode' = "panic" /\ tasks' = tasks
                   \/ /\ current # Kernel /\ tasks' = Without(tasks, current)
                      /\ Onward /\ Top'.at = "heap_lock" /\ Top'.op = "exit"
                      /\ Top'.irq = Top.irq /\ Top'.arg = Top.arg
           /\ UnlistOther =>
                /\ Top.at = "unlist" /\ Top.op = "kill" /\ Top.arg # current
                /\ tasks' = Without(tasks, Top.arg)
                /\ Passes(IF Top.arg \in Range(tasks) THEN "heap_lock" ELSE "leave")
           /\ SelectNext =>
                /\ Top.at = "select" /\ tasks' = Ring
                /\ \/ \E i \in ReadyAt :
                        /\ \A k \in ReadyAt : i <= k
                        /\ sleep' = [Charged EXCEPT ![Ring[i]] = 0]
                        /\ current' = Ring[i]
                        /\ \/ Ring[i] = current /\ since' = Timed /\ Passes("leave")
                           \/ /\ Ring[i] # current /\ since' = [Timed EXCEPT ![Ring[i]] = 0]
                              /\ Switches("yield")
                   \/ /\ ReadyAt = {} /\ sleep' = Charged
                      /\ \/ current' = current /\ since' = Timed /\ Passes("leave")
                         \/ /\ current # Idle /\ current' = Idle /\ since' = [Timed EXCEPT ![Idle] = 0]
                            /\ Switches("idle")
<1>1. LinkTask => Top.at = "link" /\ Passes("leave") /\ tasks' = Append(tasks, Top.arg)
  BY PassesIs DEF LinkTask, Is
<1>2. ASSUME UnlistCurrent
      PROVE  /\ Top.at = "unlist" /\ (Top.op = "exit" \/ Top.arg = current)
             /\ \/ current = Kernel /\ Still /\ mode' = "panic" /\ tasks' = tasks
                \/ /\ current # Kernel /\ tasks' = Without(tasks, current)
                   /\ Onward /\ Top'.at = "heap_lock" /\ Top'.op = "exit"
                   /\ Top'.irq = Top.irq /\ Top'.arg = Top.arg
  <2> DEFINE f == [Top EXCEPT !.at = "heap_lock", !.op = "exit"]
  <2>1. Top.at = "unlist" /\ (Top.op = "exit" \/ Top.arg = current) /\ under' = under /\ cpu' = cpu
    BY <1>2 DEF UnlistCurrent, Is
  <2>2. current = Kernel => Still /\ mode' = "panic" /\ tasks' = tasks
    BY <1>2, <2>1 DEF UnlistCurrent, Still
  <2>3. f.at = "heap_lock" /\ f.op = "exit" /\ f.irq = Top.irq /\ f.arg = Top.arg
    BY TopTypes DEF Frame
  <2>4. current # Kernel => SetTop(f) /\ tasks' = Without(tasks, current)
    BY <1>2 DEF UnlistCurrent
  <2> HIDE DEF f
  <2>5. current # Kernel => Onward /\ Top' = f
    BY <2>1, <2>4, OnwardIs
  <2> QED
    BY <2>1, <2>2, <2>3, <2>4, <2>5
<1>3. UnlistOther =>
        /\ Top.at = "unlist" /\ Top.op = "kill" /\ Top.arg # current
        /\ tasks' = Without(tasks, Top.arg)
        /\ Passes(IF Top.arg \in Range(tasks) THEN "heap_lock" ELSE "leave")
  BY PassesIs DEF UnlistOther, Is
<1>4. ASSUME NEW next \in Tasks, NEW op \in Ops, SwitchTo(next, op), under' = under, cpu' = cpu
      PROVE  Switches(op) /\ current' = next /\ since' = [Timed EXCEPT ![next] = 0]
  <2> DEFINE f == [Top EXCEPT !.at = "unlock", !.op = op, !.old = current, !.arg = next]
  <2>1. SetTop(f) /\ current' = next /\ since' = [Timed EXCEPT ![next] = 0]
    BY <1>4 DEF SwitchTo
  <2>2. f.at = "unlock" /\ f.op = op /\ f.irq = Top.irq /\ f.old = current /\ f.arg = next
    BY TopTypes DEF Frame
  <2> HIDE DEF f
  <2>3. Onward /\ Top' = f
    BY <1>4, <2>1, OnwardIs
  <2> QED
    BY <2>1, <2>2, <2>3 DEF Switches
<1>5. ASSUME Stay, under' = under, cpu' = cpu
      PROVE  Passes("leave") /\ current' = current /\ since' = Timed
  BY <1>5, PassesIs DEF Stay
<1>6. ASSUME SelectNext
      PROVE  /\ Top.at = "select" /\ tasks' = Ring
             /\ \/ \E i \in ReadyAt :
                     /\ \A k \in ReadyAt : i <= k
                     /\ sleep' = [Charged EXCEPT ![Ring[i]] = 0]
                     /\ current' = Ring[i]
                     /\ \/ Ring[i] = current /\ since' = Timed /\ Passes("leave")
                        \/ /\ Ring[i] # current /\ since' = [Timed EXCEPT ![Ring[i]] = 0]
                           /\ Switches("yield")
                \/ /\ ReadyAt = {} /\ sleep' = Charged
                   /\ \/ current' = current /\ since' = Timed /\ Passes("leave")
                      \/ /\ current # Idle /\ current' = Idle /\ since' = [Timed EXCEPT ![Idle] = 0]
                         /\ Switches("idle")
  <2>1. Top.at = "select" /\ tasks' = Ring /\ under' = under /\ cpu' = cpu
    BY <1>6 DEF SelectNext, Is
  <2>2. CASE \E i \in ReadyAt :
               /\ \A k \in ReadyAt : i <= k
               /\ sleep' = [Charged EXCEPT ![Ring[i]] = 0]
               /\ IF Ring[i] = current THEN Stay ELSE SwitchTo(Ring[i], "yield")
    <3>1. PICK i \in ReadyAt :
               /\ \A k \in ReadyAt : i <= k
               /\ sleep' = [Charged EXCEPT ![Ring[i]] = 0]
               /\ IF Ring[i] = current THEN Stay ELSE SwitchTo(Ring[i], "yield")
      BY <2>2
    <3>2. Ring[i] \in Tasks /\ "yield" \in Ops
      BY SelectTypes DEF Ops
    <3>3. CASE Ring[i] = current
      BY <1>5, <2>1, <3>1, <3>3
    <3>4. CASE Ring[i] # current
      <4>1. Switches("yield") /\ current' = Ring[i] /\ since' = [Timed EXCEPT ![Ring[i]] = 0]
        BY <1>4, <2>1, <3>1, <3>2, <3>4
      <4> QED
        BY <2>1, <3>1, <3>4, <4>1
    <3> QED
      BY <3>3, <3>4
  <2>3. CASE /\ ReadyAt = {}
             /\ sleep' = Charged
             /\ IF current # Idle /\ sleep[current] > 0 THEN SwitchTo(Idle, "idle") ELSE Stay
    <3>1. Idle \in Tasks /\ "idle" \in Ops
      BY TasksAssumption DEF Ops
    <3>2. CASE current # Idle /\ sleep[current] > 0
      BY <1>4, <2>1, <2>3, <3>1, <3>2
    <3>3. CASE ~(current # Idle /\ sleep[current] > 0)
      BY <1>5, <2>1, <2>3, <3>3
    <3> QED
      BY <3>2, <3>3
  <2> QED
    BY <1>6, <2>1, <2>2, <2>3 DEF SelectNext
<1> QED
  BY <1>1, <1>2, <1>3, <1>6

(* The switch. *)
SwapsTo(to) ==
    /\ to \in Tasks /\ frame[to].at = "resume" /\ to # cpu
    /\ under' = under /\ cpu' = to
    /\ frame' = [frame EXCEPT ![cpu] = frame'[cpu]]
    /\ frame'[cpu].at = "resume" /\ frame'[cpu].irq = Top.irq /\ frame'[cpu].op = Top.op
    /\ frame'[cpu].fl = eflags_if
    /\ esp' = SavedEsp(to) /\ eflags_if' = frame[to].fl /\ mode' = mode

LEMMA SwitchSteps ==
    ASSUME TypeOK
    PROVE  /\ ReleaseToSwitch => Top.at = "unlock" /\ Passes("load")
           /\ LoadEsp => /\ Top.at = "load" /\ Onward /\ Top'.at = "swap" /\ Top'.esp = esp[Top.arg]
                         /\ Top'.op = Top.op /\ Top'.irq = Top.irq
                         /\ Top'.arg = Top.arg /\ Top'.old = Top.old
           /\ SwapStacks => /\ Top.at = "swap"
                            /\ \/ SwapsTo(Top.esp)
                               \/ Still /\ mode' = "wild" /\ UNCHANGED <<esp, eflags_if>>
                                  /\ ~(Top.esp \in Tasks /\ frame[Top.esp].at = "resume")
           /\ Resume => /\ Top.at = "resume"
                        /\ \/ /\ Top.op = "idle"
                              /\ Onward /\ Top'.at = "leave" /\ Top'.op = "idle" /\ Top'.irq = Top.irq
                           \/ Top.op # "idle" /\ Returns
<1>1. ReleaseToSwitch => Top.at = "unlock" /\ Passes("load")
  BY PassesIs DEF ReleaseToSwitch, Is
<1>2. ASSUME LoadEsp
      PROVE  /\ Top.at = "load" /\ Onward /\ Top'.at = "swap" /\ Top'.esp = esp[Top.arg]
             /\ Top'.op = Top.op /\ Top'.irq = Top.irq
             /\ Top'.arg = Top.arg /\ Top'.old = Top.old
  <2> DEFINE f == [Top EXCEPT !.at = "swap", !.esp = esp[Top.arg]]
  <2>1. Top.at = "load" /\ SetTop(f) /\ under' = under /\ cpu' = cpu
    BY <1>2 DEF LoadEsp, Is
  <2>2. /\ f.at = "swap" /\ f.esp = esp[Top.arg] /\ f.op = Top.op /\ f.irq = Top.irq
        /\ f.arg = Top.arg /\ f.old = Top.old
    BY TopTypes DEF Frame
  <2> HIDE DEF f
  <2>3. Onward /\ Top' = f
    BY <2>1, OnwardIs
  <2> QED
    BY <2>1, <2>2, <2>3
<1>3. ASSUME SwapStacks
      PROVE  /\ Top.at = "swap"
             /\ \/ SwapsTo(Top.esp)
                \/ Still /\ mode' = "wild" /\ UNCHANGED <<esp, eflags_if>>
                   /\ ~(Top.esp \in Tasks /\ frame[Top.esp].at = "resume")
  <2>1. Top.at = "swap" /\ under' = under
    BY <1>3 DEF SwapStacks, Is
  <2>2. CASE Top.esp \in Tasks /\ frame[Top.esp].at = "resume"
    <3> DEFINE f == [At("resume") EXCEPT !.irq = Top.irq, !.op = Top.op, !.fl = eflags_if]
    <3>1. /\ cpu' = Top.esp /\ eflags_if' = frame[Top.esp].fl /\ SetTop(f)
          /\ esp' = SavedEsp(Top.esp) /\ mode' = mode
      BY <1>3, <2>2 DEF SwapStacks
    <3>2. f.at = "resume" /\ f.irq = Top.irq /\ f.op = Top.op /\ f.fl = eflags_if
      BY DEF At
    <3> HIDE DEF f
    <3>3. frame'[cpu] = f /\ frame' = [frame EXCEPT ![cpu] = frame'[cpu]]
      BY <3>1 DEF SetTop, TypeOK
    <3>4. Top.esp # cpu
      BY <2>1, <2>2 DEF Top
    <3> QED
      BY <2>1, <2>2, <3>1, <3>2, <3>3, <3>4 DEF SwapsTo
  <2>3. CASE ~(Top.esp \in Tasks /\ frame[Top.esp].at = "resume")
    BY <1>3, <2>1, <2>3 DEF SwapStacks, Still
  <2> QED
    BY <2>2, <2>3
<1>4. ASSUME Resume
      PROVE  /\ Top.at = "resume"
             /\ \/ /\ Top.op = "idle"
                   /\ Onward /\ Top'.at = "leave" /\ Top'.op = "idle" /\ Top'.irq = Top.irq
                \/ Top.op # "idle" /\ Returns
  <2>1. Top.at = "resume" /\ under' = under /\ cpu' = cpu
    BY <1>4 DEF Resume, Is
  <2>2. CASE Top.op = "idle"
    <3> DEFINE f == [Top EXCEPT !.at = "leave", !.fl = TRUE]
    <3>1. SetTop(f)
      BY <1>4, <2>2 DEF Resume
    <3>2. f.at = "leave" /\ f.op = Top.op /\ f.irq = Top.irq
      BY TopTypes DEF Frame
    <3> HIDE DEF f
    <3>3. Onward /\ Top' = f
      BY <2>1, <3>1, OnwardIs
    <3> QED
      BY <2>1, <2>2, <3>2, <3>3
  <2>3. CASE Top.op # "idle"
    BY <1>4, <2>1, <2>3, ReturnsIs DEF Resume
  <2> QED
    BY <2>2, <2>3
<1> QED
  BY <1>1, <1>2, <1>3, <1>4
-----------------------------------------------------------------------------
(* Where the frames are after a step. *)

LEMMA Stacks ==
    ASSUME TypeOK
    PROVE  \A t \in Tasks : /\ under[t] \in Seq(Frame) /\ Len(under[t]) \in Nat
                            /\ Depth(t) \in Nat \ {0} /\ Depth(t) \in Spots(t)
                            /\ \A k \in Spots(t) : k \in Nat \ {0} /\ FrameAt(t, k) \in Frame
                            /\ FrameAt(t, Depth(t)) = frame[t]
<1> SUFFICES ASSUME NEW t \in Tasks
             PROVE  /\ under[t] \in Seq(Frame) /\ Len(under[t]) \in Nat
                    /\ Depth(t) \in Nat \ {0} /\ Depth(t) \in Spots(t)
                    /\ \A k \in Spots(t) : k \in Nat \ {0} /\ FrameAt(t, k) \in Frame
                    /\ FrameAt(t, Depth(t)) = frame[t]
  OBVIOUS
<1>1. under[t] \in Seq(Frame) /\ frame[t] \in Frame
  BY DEF TypeOK
<1>2. Len(under[t]) \in Nat
  BY <1>1, LenProperties
<1>3. Depth(t) \in Nat \ {0} /\ Depth(t) \in Spots(t)
  BY <1>2 DEF Depth, Spots
<1>4. FrameAt(t, Depth(t)) = frame[t]
  BY DEF FrameAt
<1>5. ASSUME NEW k \in Spots(t) PROVE k \in Nat \ {0} /\ FrameAt(t, k) \in Frame
  <2>1. k \in Nat \ {0} /\ k <= Depth(t)
    BY <1>3 DEF Spots
  <2>2. CASE k = Depth(t)
    BY <1>1, <1>4, <2>1, <2>2
  <2>3. CASE k # Depth(t)
    <3>1. Depth(t) - k \in 1..Len(under[t])
      BY <1>2, <2>1, <2>3 DEF Depth
    <3>2. under[t][Depth(t) - k] \in Frame
      BY <1>1, <3>1, ElementOfSeq
    <3> QED
      BY <2>1, <2>3, <3>2 DEF FrameAt
  <2> QED
    BY <2>2, <2>3
<1> QED
  BY <1>1, <1>2, <1>3, <1>4, <1>5

LEMMA HereIs ==
    ASSUME TypeOK, NEW P
    PROVE  /\ Here \in Tasks \X (Nat \ {0})
           /\ Here[1] = cpu /\ Here[2] = Depth(cpu)
           /\ Here \in Sites(P) <=> Top \in P
  BY Stacks DEF Here, Sites, Top, TypeOK

(* A site is a spot on the stack of a task. *)
LEMMA SiteIs ==
    ASSUME TypeOK, NEW P, NEW s \in Sites(P)
    PROVE  /\ s \in Tasks \X (Nat \ {0}) /\ s[1] \in Tasks /\ s = <<s[1], s[2]>>
           /\ s[2] \in Spots(s[1]) /\ FrameAt(s[1], s[2]) \in P
  BY DEF Sites

(* Only the top frames change: those of the stacks in T. *)
LEMMA SitesSet ==
    ASSUME TypeOK, NEW P, NEW T, under' = under,
           \A t \in Tasks \ T : frame'[t] = frame[t],
           \A t \in T : t \in Tasks /\ (frame'[t] \in P <=> frame[t] \in P)
    PROVE  Sites(P)' = Sites(P)
<1>1. \A t \in Tasks : Depth(t)' = Depth(t) /\ Spots(t)' = Spots(t)
  BY DEF Depth, Spots
<1>2. \A t \in Tasks : \A k : FrameAt(t, k)' \in P <=> FrameAt(t, k) \in P
  BY <1>1 DEF FrameAt
<1> QED
  BY <1>1, <1>2 DEF Sites

(* A step of the frame in hand, that stays in P or out of it... *)
LEMMA SitesKept ==
    ASSUME TypeOK, NEW P, NEW f, SetTop(f), under' = under, f \in P <=> Top \in P
    PROVE  Sites(P)' = Sites(P)
<1>1. \A t \in Tasks : frame'[t] = IF t = cpu THEN f ELSE frame[t]
  BY DEF SetTop, TypeOK
<1>2. cpu \in Tasks /\ Top = frame[cpu]
  BY DEF TypeOK, Top
<1> QED
  BY <1>1, <1>2, SitesSet

(* ...comes into P... *)
LEMMA SitesGained ==
    ASSUME TypeOK, NEW P, NEW f, SetTop(f), under' = under, f \in P
    PROVE  Sites(P)' = Sites(P) \cup {Here}
<1>1. \A t \in Tasks : frame'[t] = IF t = cpu THEN f ELSE frame[t]
  BY DEF SetTop, TypeOK
<1>2. \A t \in Tasks : Depth(t)' = Depth(t) /\ Spots(t)' = Spots(t)
  BY DEF Depth, Spots
<1>3. \A t \in Tasks : \A k : FrameAt(t, k)' = IF <<t, k>> = Here THEN f ELSE FrameAt(t, k)
  BY <1>1, <1>2 DEF FrameAt, Here
<1>4. Here \in Tasks \X (Nat \ {0}) /\ Here[2] \in Spots(Here[1])
  BY Stacks DEF Here, TypeOK
<1>5. \A s \in Tasks \X (Nat \ {0}) : s \in Sites(P)' <=> s \in Sites(P) \cup {Here}
  BY <1>2, <1>3, <1>4 DEF Sites
<1> QED
  BY <1>4, <1>5 DEF Sites

(* ...or leaves it. *)
LEMMA SitesLost ==
    ASSUME TypeOK, NEW P, NEW f, SetTop(f), under' = under, f \notin P
    PROVE  Sites(P)' = Sites(P) \ {Here}
<1>1. \A t \in Tasks : frame'[t] = IF t = cpu THEN f ELSE frame[t]
  BY DEF SetTop, TypeOK
<1>2. \A t \in Tasks : Depth(t)' = Depth(t) /\ Spots(t)' = Spots(t)
  BY DEF Depth, Spots
<1>3. \A t \in Tasks : \A k : FrameAt(t, k)' = IF <<t, k>> = Here THEN f ELSE FrameAt(t, k)
  BY <1>1, <1>2 DEF FrameAt, Here
<1>5. \A s \in Tasks \X (Nat \ {0}) : s \in Sites(P)' <=> s \in Sites(P) \ {Here}
  BY <1>2, <1>3 DEF Sites
<1> QED
  BY <1>5 DEF Sites

(* An interrupt comes above everything that was there. *)
LEMMA Pushed ==
    ASSUME TypeOK, TimerInterrupt
    PROVE  /\ cpu' = cpu /\ Top' = [At("tick") EXCEPT !.irq = TRUE]
           /\ \A t \in Tasks : t # cpu => Depth(t)' = Depth(t) /\ \A k : FrameAt(t, k)' = FrameAt(t, k)
           /\ Depth(cpu)' = Depth(cpu) + 1
           /\ \A k \in Spots(cpu) : FrameAt(cpu, k)' = FrameAt(cpu, k)
           /\ FrameAt(cpu, Depth(cpu))' = Top'
<1> DEFINE f == [At("tick") EXCEPT !.irq = TRUE]
           s == <<Top>> \o under[cpu]
<1>1. /\ \A t \in Tasks : frame'[t] = IF t = cpu THEN f ELSE frame[t]
      /\ \A t \in Tasks : under'[t] = IF t = cpu THEN s ELSE under[t]
      /\ cpu' = cpu /\ cpu \in Tasks
  BY DEF TimerInterrupt, SetTop, TypeOK
<1>2. Top' = f
  BY <1>1 DEF Top
<1>3. \A t \in Tasks : t # cpu => Depth(t)' = Depth(t) /\ \A k : FrameAt(t, k)' = FrameAt(t, k)
  BY <1>1 DEF Depth, FrameAt
<1>4. /\ under[cpu] \in Seq(Frame) /\ Len(under[cpu]) \in Nat /\ Depth(cpu) = Len(under[cpu]) + 1
      /\ Len(s) = Len(under[cpu]) + 1 /\ s[1] = Top
      /\ \A i \in 1..Len(under[cpu]) : s[i + 1] = under[cpu][i]
  <2>1. under[cpu] \in Seq(Frame) /\ <<Top>> \in Seq(Frame) /\ Len(<<Top>>) = 1
    BY TopTypes DEF TypeOK
  <2>2. Len(under[cpu]) \in Nat
    BY <2>1, LenProperties
  <2> QED
    BY <2>1, <2>2, ConcatProperties, LenProperties DEF Depth
<1> HIDE DEF s, f
<1>5. Depth(cpu)' = Depth(cpu) + 1
  BY <1>1, <1>4 DEF Depth
<1>6. FrameAt(cpu, Depth(cpu))' = Top'
  BY DEF FrameAt, Top
<1>7. ASSUME NEW k \in Spots(cpu) PROVE FrameAt(cpu, k)' = FrameAt(cpu, k)
  <2>1. k \in Nat \ {0} /\ k <= Depth(cpu)
    BY <1>4 DEF Spots
  <2>2. FrameAt(cpu, k)' = s[Depth(cpu) + 1 - k]
    BY <1>1, <1>4, <1>5, <2>1 DEF FrameAt
  <2>3. CASE k = Depth(cpu)
    <3>1. Depth(cpu) + 1 - k = 1
      BY <1>4, <2>3
    <3> QED
      BY <1>4, <2>2, <2>3, <3>1 DEF FrameAt, Top
  <2>4. CASE k # Depth(cpu)
    <3>1. Depth(cpu) - k \in 1..Len(under[cpu]) /\ Depth(cpu) + 1 - k = (Depth(cpu) - k) + 1
      BY <1>4, <2>1, <2>4
    <3>2. s[(Depth(cpu) - k) + 1] = under[cpu][Depth(cpu) - k]
      BY <1>4, <3>1
    <3> QED
      BY <2>2, <2>4, <3>1, <3>2 DEF FrameAt
  <2> QED
    BY <2>3, <2>4
<1> QED
  BY <1>1, <1>2, <1>3, <1>5, <1>6, <1>7 DEF f

LEMMA SitesPushed ==
    ASSUME TypeOK, NEW P, TimerInterrupt, Top' \notin P
    PROVE  Sites(P)' = Sites(P)
<1>1. ASSUME NEW s \in Tasks \X (Nat \ {0}) PROVE s \in Sites(P)' <=> s \in Sites(P)
  <2>1. s[1] \in Tasks /\ s[2] \in Nat \ {0}
    OBVIOUS
  <2>2. CASE s[1] # cpu
    BY <2>1, <2>2, Pushed DEF Sites, Spots
  <2>3. CASE s[1] = cpu
    <3>1. Depth(cpu) \in Nat \ {0}
      BY <2>1, <2>3, Stacks
    <3>2. Spots(cpu)' = Spots(cpu) \cup {Depth(cpu) + 1} /\ Depth(cpu) + 1 \notin Spots(cpu)
      BY <3>1, Pushed DEF Spots
    <3>3. CASE s[2] = Depth(cpu) + 1
      <4>1. s[1] = cpu' /\ s[2] = Depth(cpu)'
        BY <2>3, <3>3, Pushed
      <4>2. s \notin Sites(P)'
        BY <4>1, Pushed DEF Sites
      <4> QED
        BY <2>3, <3>2, <3>3, <4>2 DEF Sites
    <3>4. CASE s[2] # Depth(cpu) + 1
      BY <2>3, <3>2, <3>4, Pushed DEF Sites
    <3> QED
      BY <3>3, <3>4
  <2> QED
    BY <2>2, <2>3
<1> QED
  BY <1>1 DEF Sites

(* An iret takes the top frame away, and nothing else. *)
LEMMA Popped ==
    ASSUME TypeOK, Shape, Iret
    PROVE  /\ cpu' = cpu /\ Top.irq /\ Top.at = "iret"
           /\ Top' = under[cpu][1] /\ 1 \in 1..Len(under[cpu])
           /\ \A t \in Tasks : t # cpu => Depth(t)' = Depth(t) /\ \A k : FrameAt(t, k)' = FrameAt(t, k)
           /\ Depth(cpu)' = Depth(cpu) - 1
           /\ \A k \in Spots(cpu) : k # Depth(cpu) => FrameAt(cpu, k)' = FrameAt(cpu, k)
           /\ Top' = FrameAt(cpu, Depth(cpu) - 1)
<1> DEFINE u == under[cpu]
<1>1. /\ \A t \in Tasks : frame'[t] = IF t = cpu THEN Head(u) ELSE frame[t]
      /\ \A t \in Tasks : under'[t] = IF t = cpu THEN Tail(u) ELSE under[t]
      /\ cpu' = cpu /\ cpu \in Tasks /\ Top.at = "iret"
  BY DEF Iret, SetTop, TypeOK, Is
<1>2. Top.irq /\ Len(u) > 0
  BY <1>1, TopShape DEF Wellformed
<1>3. u \in Seq(Frame) /\ Len(u) \in Nat /\ u # << >> /\ Depth(cpu) = Len(u) + 1
  BY <1>1, <1>2, Stacks, EmptySeq DEF Depth
<1>4. Head(u) = u[1] /\ Len(Tail(u)) = Len(u) - 1 /\ \A i \in 1..(Len(u) - 1) : Tail(u)[i] = u[i + 1]
  BY <1>3, HeadTailProperties
<1>5. Top' = u[1] /\ 1 \in 1..Len(u)
  BY <1>1, <1>2, <1>3, <1>4 DEF Top
<1>6. \A t \in Tasks : t # cpu => Depth(t)' = Depth(t) /\ \A k : FrameAt(t, k)' = FrameAt(t, k)
  BY <1>1 DEF Depth, FrameAt
<1>7. Depth(cpu)' = Depth(cpu) - 1
  <2>1. Depth(cpu)' = Len(Tail(u)) + 1
    BY <1>1 DEF Depth
  <2> QED
    BY <1>3, <1>4, <2>1
<1>8. Top' = FrameAt(cpu, Depth(cpu) - 1)
  <2>1. Depth(cpu) - (Depth(cpu) - 1) = 1 /\ Depth(cpu) - 1 # Depth(cpu)
    BY <1>3
  <2> QED
    BY <1>5, <2>1 DEF FrameAt
<1>9. ASSUME NEW k \in Spots(cpu), k # Depth(cpu) PROVE FrameAt(cpu, k)' = FrameAt(cpu, k)
  <2>1. k \in Nat \ {0} /\ k < Depth(cpu)
    BY <1>3, <1>9 DEF Spots
  <2>2. CASE k = Depth(cpu) - 1
    <3>1. FrameAt(cpu, k)' = Top'
      BY <1>1, <1>7, <2>2 DEF FrameAt, Top
    <3> QED
      BY <1>8, <2>2, <3>1
  <2>3. CASE k # Depth(cpu) - 1
    <3>1. Depth(cpu) - 1 - k \in 1..(Len(u) - 1) /\ (Depth(cpu) - 1 - k) + 1 = Depth(cpu) - k
      BY <1>3, <2>1, <2>3
    <3>2. FrameAt(cpu, k)' = Tail(u)[Depth(cpu) - 1 - k]
      BY <1>1, <1>7, <2>3 DEF FrameAt
    <3>3. Tail(u)[Depth(cpu) - 1 - k] = u[Depth(cpu) - k]
      BY <1>4, <3>1
    <3> QED
      BY <1>9, <3>2, <3>3 DEF FrameAt
  <2> QED
    BY <2>2, <2>3
<1> QED
  BY <1>1, <1>2, <1>5, <1>6, <1>7, <1>8, <1>9

LEMMA SitesPopped ==
    ASSUME TypeOK, Shape, NEW P, Iret, Top \notin P
    PROVE  Sites(P)' = Sites(P)
<1>1. ASSUME NEW s \in Tasks \X (Nat \ {0}) PROVE s \in Sites(P)' <=> s \in Sites(P)
  <2>1. s[1] \in Tasks /\ s[2] \in Nat \ {0}
    OBVIOUS
  <2>2. CASE s[1] # cpu
    BY <2>1, <2>2, Popped DEF Sites, Spots
  <2>3. CASE s[1] = cpu
    <3>1. Depth(cpu) \in Nat \ {0} /\ FrameAt(cpu, Depth(cpu)) = Top
      BY <2>1, <2>3, Stacks DEF Top
    <3>2. Spots(cpu) = Spots(cpu)' \cup {Depth(cpu)} /\ Depth(cpu) \notin Spots(cpu)'
      BY <3>1, Popped DEF Spots
    <3>3. CASE s[2] = Depth(cpu)
      BY <2>3, <3>1, <3>2, <3>3, Popped DEF Sites
    <3>4. CASE s[2] # Depth(cpu)
      BY <2>3, <3>2, <3>4, Popped DEF Sites
    <3> QED
      BY <3>3, <3>4
  <2> QED
    BY <2>2, <2>3
<1> QED
  BY <1>1 DEF Sites
-----------------------------------------------------------------------------
(* Every step, by what it does to the stacks. *)
LEMMA NextSteps ==
    ASSUME TypeOK, Shape, Next
    PROVE  \/ Still \/ Onward \/ TimerInterrupt \/ Iret
           \/ HeapDone /\ Top.at = "heap" /\ Top.op = "new" /\ Top.arg \in Tasks /\ Makes(Top.arg)
           \/ SwapStacks /\ Top.at = "swap" /\ SwapsTo(Top.esp)
<1>1. ASSUME TaskCall PROVE Still \/ Onward
  BY <1>1, CallSteps
  DEF TaskCall, Yield, Dump, KillMe, KillTask, KillOwnId, Starts
<1>2. ASSUME Tick \/ UndoCount \/ ExitInterrupt PROVE Onward
  BY <1>2, InterruptSteps DEF Passes
<1>3. ASSUME PopInts \/ LockSched \/ LockHeap \/ Leave \/ PushInts PROVE Onward
  BY <1>3, LockSteps DEF Passes, Returns
<1>4. ASSUME HeapDone
      PROVE  \/ Onward
             \/ HeapDone /\ Top.at = "heap" /\ Top.op = "new" /\ Top.arg \in Tasks /\ Makes(Top.arg)
  BY <1>4, HeapSteps DEF Passes
<1>5. ASSUME LinkTask \/ UnlistCurrent \/ UnlistOther \/ SelectNext PROVE Still \/ Onward
  BY <1>5, ListSteps DEF Passes, Switches
<1>6. ASSUME ReleaseToSwitch \/ LoadEsp \/ Resume PROVE Onward
  BY <1>6, SwitchSteps DEF Passes, Returns
<1>7. ASSUME SwapStacks PROVE Still \/ (SwapStacks /\ Top.at = "swap" /\ SwapsTo(Top.esp))
  BY <1>7, SwitchSteps
<1> QED
  BY <1>1, <1>2, <1>3, <1>4, <1>5, <1>6, <1>7 DEF Next, KernelStep

(* Places where a frame is not on its way through a call. *)
Passive == {"run", "tick", "iret", "resume"}

LEMMA SitesStill ==
    ASSUME NEW P, Still PROVE Sites(P)' = Sites(P) /\ Top' = Top
<1>1. Depth(cpu)' = Depth(cpu) /\ \A t \in Tasks : Spots(t)' = Spots(t) /\ Depth(t)' = Depth(t)
  BY DEF Still, Depth, Spots
<1>2. \A t \in Tasks : \A k : FrameAt(t, k)' = FrameAt(t, k)
  BY <1>1 DEF Still, FrameAt
<1> QED
  BY <1>1, <1>2 DEF Sites, Still, Top

(* A frame comes into P only in the hands of the processor. *)
LEMMA SitesNext ==
    ASSUME TypeOK, Shape, Next, NEW P, \A f \in P : f.at \notin Passive,
           \A f \in P : f.op = "new" /\ f.at = "lock" =>
              \A g \in Frame : g.at = "heap" /\ g.op = "new" /\ g.arg = f.arg => g \in P
    PROVE  \A s \in Sites(P)' : s \in Sites(P) \/ (s = Here /\ Onward /\ Top' \in P)
<1>1. CASE Still
  BY <1>1, SitesStill
<1>2. CASE Onward
  <2>1. CASE Top' \in P
    BY <1>2, <2>1, SitesGained DEF Onward
  <2>2. CASE Top' \notin P
    BY <1>2, <2>2, SitesLost DEF Onward
  <2> QED
    BY <2>1, <2>2
<1>3. CASE TimerInterrupt
  <2>1. Top' \notin P
    BY <1>3, Pushed DEF At, Passive
  <2> QED
    BY <1>3, <2>1, SitesPushed
<1>4. CASE Iret
  <2>1. Top \notin P
    BY <1>4, Popped DEF Passive
  <2> QED
    BY <1>4, <2>1, SitesPopped
<1>5. CASE HeapDone /\ Top.at = "heap" /\ Top.op = "new" /\ Top.arg \in Tasks /\ Makes(Top.arg)
  <2>1. PICK flag \in StaleFlags :
           frame' = [frame EXCEPT ![Top.arg] = FreshFrame(flag), ![cpu] = Moved("lock")]
    BY <1>5 DEF Makes
  <2>2. FreshFrame(flag).at = "resume" /\ FreshFrame(flag) \notin P
    BY DEF FreshFrame, At, Passive
  <2>3. Moved("lock") \in P => Top \in P
    <3>1. Moved("lock").op = "new" /\ Moved("lock").at = "lock" /\ Moved("lock").arg = Top.arg
      BY <1>5, MovedFields
    <3> QED
      BY <1>5, <3>1, TopTypes
  <2>4. \A t \in Tasks : frame'[t] \in P => frame[t] \in P
    BY <1>5, <2>1, <2>2, <2>3 DEF TypeOK, Top
  <2>5. under' = under
    BY <1>5 DEF Makes
  <2>6. \A t \in Tasks : Depth(t)' = Depth(t) /\ Spots(t)' = Spots(t)
    BY <2>5 DEF Depth, Spots
  <2>7. \A t \in Tasks : \A k : FrameAt(t, k)' \in P => FrameAt(t, k) \in P
    BY <2>4, <2>5, <2>6 DEF FrameAt
  <2> QED
    BY <2>6, <2>7 DEF Sites
<1>6. CASE SwapStacks /\ Top.at = "swap" /\ SwapsTo(Top.esp)
  <2>1. SetTop(frame'[cpu]) /\ under' = under /\ frame'[cpu] \notin P
    BY <1>6 DEF SwapsTo, SetTop, Passive
  <2>2. Sites(P)' = Sites(P) \ {Here}
    BY <2>1, SitesLost
  <2> QED
    BY <2>2
<1> QED
  BY <1>1, <1>2, <1>3, <1>4, <1>5, <1>6, NextSteps
-----------------------------------------------------------------------------
(* The heap's lock. *)

InHeap == {f \in Frame : f.at = "heap"}

KheapInv ==
    /\ kheap_lock = Unlocked => Sites(InHeap) = {}
    /\ kheap_lock = Locked => \E s : Sites(InHeap) = {s}

LEMMA InitKheap == Init => KheapInv
<1> SUFFICES ASSUME Init PROVE KheapInv
  OBVIOUS
<1>1. TypeOK
  BY InitType
<1>2. \A t \in Tasks : frame[t].at # "heap"
  BY DEF Init, FreshFrame, At
<1>3. \A t \in Tasks : Spots(t) = {1} /\ Depth(t) = 1
  <2>1. \A t \in Tasks : Len(under[t]) = 0
    BY EmptySeq DEF Init
  <2> QED
    BY <2>1 DEF Spots, Depth
<1>4. \A t \in Tasks : \A k \in Spots(t) : FrameAt(t, k).at # "heap"
  BY <1>2, <1>3 DEF FrameAt
<1>5. Sites(InHeap) = {}
  BY <1>4 DEF Sites, InHeap
<1> QED
  BY <1>5 DEF Init, KheapInv, Locked, Unlocked

LEMMA KheapSame ==
    ASSUME KheapInv, Sites(InHeap)' = Sites(InHeap), kheap_lock' = kheap_lock PROVE KheapInv'
  BY DEF KheapInv

(* Of the calls' own steps, two concern the lock. *)
LEMMA NextKheap == ASSUME TypeOK, Shape, KheapInv, [Next]_vars PROVE KheapInv'
<1> USE DEF lockVars
<1>1. ASSUME NEW f, SetTop(f), under' = under, Top.at # "heap", f.at # "heap" PROVE Sites(InHeap)' = Sites(InHeap)
  BY <1>1, SitesKept DEF InHeap
<1>2. ASSUME Onward, Top.at # "heap", Top'.at # "heap" PROVE Sites(InHeap)' = Sites(InHeap)
  BY <1>1, <1>2 DEF Onward
<1>3. ASSUME TaskCall PROVE KheapInv'
  <2>1. kheap_lock' = kheap_lock
    <3>1. KillKernel => kheap_lock' = kheap_lock
      BY Zenon DEF KillKernel
    <3> QED
      BY <1>3, <3>1 DEF TaskCall, Sleep, Yield, Dump, NewTask, KillMe, KillTask, KillOwnId,
                        UseHeap, FaultKill, FaultPanic, Call
  <2>2. Still \/ (Onward /\ Top'.at \in {"pop", "heap_lock"})
    BY <1>3, CallSteps DEF TaskCall, Yield, Dump, KillMe, KillTask, KillOwnId, Starts
  <2> QED
    BY <1>2, <1>3, <2>1, <2>2, CallSteps, SitesStill, KheapSame
<1>4. ASSUME TimerInterrupt PROVE KheapInv'
  <2>1. Top' \notin InHeap
    BY <1>4, Pushed DEF At, InHeap
  <2> QED
    BY <1>4, <2>1, SitesPushed, KheapSame DEF TimerInterrupt
<1>5. ASSUME Iret PROVE KheapInv'
  <2>1. Top \notin InHeap
    BY <1>5, Popped DEF InHeap
  <2> QED
    BY <1>5, <2>1, SitesPopped, KheapSame DEF Iret
<1>6. ASSUME Tick \/ UndoCount \/ ExitInterrupt PROVE KheapInv'
  <2>1. kheap_lock' = kheap_lock
    BY <1>6 DEF Tick, UndoCount, ExitInterrupt
  <2>2. Onward /\ Top.at # "heap" /\ Top'.at # "heap"
    BY <1>6, InterruptSteps DEF Passes
  <2> QED
    BY <1>2, <2>1, <2>2, KheapSame
<1>7. ASSUME PopInts \/ LockSched \/ Leave \/ PushInts PROVE KheapInv'
  <2>1. kheap_lock' = kheap_lock
    BY <1>7 DEF PopInts, LockSched, Leave, PushInts
  <2>2. Onward /\ Top.at # "heap" /\ Top'.at # "heap"
    BY <1>7, LockSteps DEF Passes, Returns, UnderLock
  <2> QED
    BY <1>2, <2>1, <2>2, KheapSame
<1>8. ASSUME LockHeap PROVE KheapInv'
  <2>1. kheap_lock = Unlocked /\ kheap_lock' = Locked
    BY <1>8 DEF LockHeap, Lock
  <2>2. Onward /\ Top'.at = "heap"
    BY <1>8, LockSteps DEF Passes
  <2>3. Top' \in InHeap
    <3>1. Top' \in Frame
      BY <1>8, LockStepType, TopTypes DEF TypeOK, Top
    <3> QED
      BY <2>2, <3>1 DEF InHeap
  <2>4. Sites(InHeap)' = {Here}
    BY <2>1, <2>2, <2>3, SitesGained DEF Onward, KheapInv
  <2>5. \E s : Sites(InHeap)' = {s}
    BY <2>4
  <2> QED
    BY <2>1, <2>5 DEF KheapInv, Locked, Unlocked
<1>9. ASSUME HeapDone PROVE KheapInv'
  <2>1. Top.at = "heap" /\ kheap_lock' = Unlocked
    BY <1>9, HeapSteps
  <2>2. Top \in InHeap /\ Here \in Sites(InHeap)
    BY <2>1, TopTypes, HereIs DEF InHeap
  <2>3. Sites(InHeap) = {Here}
    BY <2>2 DEF KheapInv, TypeOK, Unlocked, Locked
  <2>4. /\ under' = under /\ Top'.at # "heap" /\ cpu' = cpu
        /\ \A t \in Tasks : frame'[t] = frame[t] \/ frame'[t].at # "heap"
    <3>1. CASE Onward /\ Top'.at # "heap"
      BY <3>1 DEF Onward, SetTop, TypeOK
    <3>2. CASE Top.op = "new" /\ Makes(Top.arg)
      <4>1. PICK flag \in StaleFlags :
               frame' = [frame EXCEPT ![Top.arg] = FreshFrame(flag), ![cpu] = Moved("lock")]
        BY <3>2 DEF Makes
      <4>2. FreshFrame(flag).at = "resume" /\ Moved("lock").at = "lock"
        BY MovedFields DEF FreshFrame, At
      <4>3. cpu' = cpu /\ under' = under
        BY <3>2 DEF Makes
      <4>4. frame'[cpu] = Moved("lock")
        BY <4>1 DEF TypeOK
      <4> QED
        BY <4>1, <4>2, <4>3, <4>4 DEF TypeOK, Top
    <3> QED
      BY <1>9, <3>1, <3>2, HeapSteps DEF Passes
  <2>5. \A t \in Tasks : Depth(t)' = Depth(t) /\ Spots(t)' = Spots(t)
    BY <2>4 DEF Depth, Spots
  <2>6. \A t \in Tasks : \A k : FrameAt(t, k)' \in InHeap => FrameAt(t, k) \in InHeap
    BY <2>4, <2>5 DEF FrameAt, InHeap
  <2>7. Sites(InHeap)' \subseteq Sites(InHeap)
    BY <2>5, <2>6 DEF Sites
  <2>8. Here \notin Sites(InHeap)'
    <3>1. PICK t \in Tasks : t = cpu
      BY DEF TypeOK
    <3>2. PICK k : k = Depth(t)
      OBVIOUS
    <3>3. Here = <<t, k>> /\ cpu' = t /\ Depth(t)' = k
      BY <2>4, <2>5, <3>1, <3>2 DEF Here
    <3>4. FrameAt(t, k)' = Top'
      BY <3>3 DEF FrameAt, Top
    <3>5. FrameAt(t, k)' \notin InHeap
      BY <2>4, <3>4 DEF InHeap
    <3> QED
      BY <3>3, <3>5 DEF Sites
  <2> QED
    BY <2>1, <2>3, <2>7, <2>8 DEF KheapInv, Locked, Unlocked
<1>10. ASSUME LinkTask \/ UnlistCurrent \/ UnlistOther \/ SelectNext PROVE KheapInv'
  <2>1. kheap_lock' = kheap_lock
    BY <1>10 DEF LinkTask, UnlistCurrent, UnlistOther, SelectNext
  <2>2. Still \/ (Onward /\ Top.at # "heap" /\ Top'.at # "heap")
    BY <1>10, ListSteps DEF Passes, Switches
  <2> QED
    BY <1>2, <2>1, <2>2, SitesStill, KheapSame
<1>11. ASSUME ReleaseToSwitch \/ LoadEsp \/ Resume PROVE KheapInv'
  <2>1. kheap_lock' = kheap_lock
    BY <1>11 DEF ReleaseToSwitch, LoadEsp, Resume
  <2>2. Onward /\ Top.at # "heap" /\ Top'.at # "heap"
    BY <1>11, SwitchSteps DEF Passes, Returns
  <2> QED
    BY <1>2, <2>1, <2>2, KheapSame
<1>12. ASSUME SwapStacks PROVE KheapInv'
  <2>1. kheap_lock' = kheap_lock
    BY <1>12 DEF SwapStacks
  <2>2. CASE Still
    BY <2>1, <2>2, SitesStill, KheapSame
  <2>3. CASE Top.at = "swap" /\ SwapsTo(Top.esp)
    <3>1. SetTop(frame'[cpu]) /\ under' = under /\ frame'[cpu].at # "heap" /\ Top.at # "heap"
      BY <2>3 DEF SwapsTo, SetTop
    <3> QED
      BY <1>1, <2>1, <3>1, KheapSame
  <2> QED
    BY <1>12, <2>2, <2>3, SwitchSteps
<1>13. CASE UNCHANGED vars
  BY <1>13, SitesStill, KheapSame DEF vars, Still
<1> QED
  BY <1>3, <1>4, <1>5, <1>6, <1>7, <1>8, <1>9, <1>10, <1>11, <1>12, <1>13 DEF Next, KernelStep

(* A spot counts from the bottom of the stack, StackOf from its top. *)
LEMMA StackIs ==
    ASSUME TypeOK, NEW t \in Tasks
    PROVE  /\ DOMAIN StackOf(t) = Spots(t)
           /\ \A i \in Spots(t) : /\ Depth(t) + 1 - i \in Spots(t)
                                  /\ StackOf(t)[i] = FrameAt(t, Depth(t) + 1 - i)
<1>1. under[t] \in Seq(Frame) /\ <<frame[t]>> \in Seq(Frame) /\ Len(<<frame[t]>>) = 1
  BY DEF TypeOK
<1>2. Len(under[t]) \in Nat /\ Depth(t) = Len(under[t]) + 1
  BY <1>1, LenProperties DEF Depth
<1>3. /\ DOMAIN StackOf(t) = 1..(Len(under[t]) + 1)
      /\ StackOf(t)[1] = frame[t]
      /\ \A i \in 1..Len(under[t]) : StackOf(t)[i + 1] = under[t][i]
  BY <1>1, <1>2, ConcatProperties, LenProperties DEF StackOf
<1>4. ASSUME NEW i \in Spots(t)
      PROVE  Depth(t) + 1 - i \in Spots(t) /\ StackOf(t)[i] = FrameAt(t, Depth(t) + 1 - i)
  <2>1. i \in Nat \ {0} /\ i <= Depth(t) /\ Depth(t) + 1 - i \in Spots(t)
    BY <1>2 DEF Spots
  <2>2. CASE i = 1
    <3>1. Depth(t) + 1 - i = Depth(t)
      BY <1>2, <2>2
    <3> QED
      BY <1>3, <2>1, <2>2, <3>1 DEF FrameAt
  <2>3. CASE i # 1
    <3>1. /\ i - 1 \in 1..Len(under[t]) /\ (i - 1) + 1 = i
          /\ Depth(t) + 1 - i # Depth(t) /\ Depth(t) - (Depth(t) + 1 - i) = i - 1
      BY <1>2, <2>1, <2>3
    <3>2. StackOf(t)[i] = under[t][i - 1]
      BY <1>3, <3>1
    <3> QED
      BY <2>1, <3>1, <3>2 DEF FrameAt
  <2> QED
    BY <2>2, <2>3
<1> QED
  BY <1>2, <1>3, <1>4 DEF Spots

LEMMA KheapInvExcludes == ASSUME TypeOK, KheapInv PROVE KheapExclusion
<1> DEFINE Inside(t) == {i \in DOMAIN StackOf(t) : StackOf(t)[i].at = "heap"}
           inside == UNION {{t} \X Inside(t) : t \in Tasks}
<1>1. ASSUME NEW t \in Tasks, NEW i \in Inside(t)
      PROVE  i \in Spots(t) /\ <<t, Depth(t) + 1 - i>> \in Sites(InHeap)
  <2>1. i \in Spots(t) /\ Depth(t) + 1 - i \in Spots(t) /\ FrameAt(t, Depth(t) + 1 - i).at = "heap"
    BY StackIs
  <2>2. FrameAt(t, Depth(t) + 1 - i) \in Frame /\ Depth(t) + 1 - i \in Nat \ {0}
    BY <2>1, Stacks
  <2> QED
    BY <2>1, <2>2 DEF Sites, InHeap
<1>2. CASE kheap_lock = Unlocked
  <2>1. \A t \in Tasks : Inside(t) = {}
    BY <1>1, <1>2 DEF KheapInv
  <2>2. inside = {}
    BY <2>1
  <2> QED
    BY <1>2, <2>2, FS_EmptySet DEF KheapExclusion, Unlocked
<1>3. CASE kheap_lock = Locked
  <2>1. PICK s : Sites(InHeap) = {s}
    BY <1>3 DEF KheapInv
  <2>2. s \in Sites(InHeap)
    BY <2>1
  <2>3. /\ s[1] \in Tasks /\ s = <<s[1], s[2]>> /\ s[2] \in Spots(s[1])
        /\ FrameAt(s[1], s[2]).at = "heap"
    BY <2>2, SiteIs DEF InHeap
  <2> DEFINE t == s[1]
             i == Depth(t) + 1 - s[2]
  <2>4. Depth(t) \in Nat \ {0} /\ s[2] \in Nat \ {0} /\ s[2] <= Depth(t)
    BY <2>3, Stacks DEF Spots
  <2>5. i \in Spots(t) /\ Depth(t) + 1 - i = s[2]
    BY <2>4 DEF Spots
  <2>6. i \in Inside(t)
    BY <2>3, <2>5, StackIs
  <2>7. \A r \in Tasks : \A j \in Inside(r) : r = t /\ j = i
    <3> SUFFICES ASSUME NEW r \in Tasks, NEW j \in Inside(r) PROVE r = t /\ j = i
      OBVIOUS
    <3>1. j \in Spots(r) /\ <<r, Depth(r) + 1 - j>> = s
      BY <1>1, <2>1
    <3>2. r = t /\ Depth(t) + 1 - j = s[2] /\ j \in Nat
      BY <2>4, <3>1 DEF Spots
    <3> QED
      BY <2>4, <3>2
  <2>8. inside = {<<t, i>>}
    BY <2>3, <2>6, <2>7
  <2>9. Cardinality(inside) = 1
    BY <2>8, FS_Singleton
  <2> QED
    BY <1>3, <2>9 DEF KheapExclusion, Locked
<1> QED
  BY <1>2, <1>3 DEF TypeOK

(* mem.kheap.lock excludes: at most one frame of one stack is inside alloc or
   free, and the lock is set exactly while one is, although every task that
   creates, kills or allocates takes it, the shell with interrupts on. *)
THEOREM HeapLockExcludes == Spec => []KheapExclusion
<1>1. Init => TypeOK /\ Shape /\ KheapInv
  BY InitType, InitShape, InitKheap
<1>2. TypeOK /\ Shape /\ KheapInv /\ [Next]_vars => (TypeOK /\ Shape /\ KheapInv)'
  BY NextType, NextShape, NextKheap
<1>3. TypeOK /\ Shape /\ KheapInv => KheapExclusion
  BY KheapInvExcludes
<1> QED
  BY <1>1, <1>2, <1>3, PTL DEF Spec
-----------------------------------------------------------------------------
(* The time of the sleepers. *)

(* What t has slept since the last time it was charged or run. *)
SleptBy(t) == IF t = current THEN 0 ELSE since[t]

(* A sleep still to be charged covers the ticks still to pass. *)
SleepInv == \A t \in Tasks : due[t] = 0 \/ due[t] + SleptBy(t) <= sleep[t]

LEMMA InitSleep == Init => SleepInv
  BY DEF Init, SleepInv

LEMMA ChargedIs ==
    ASSUME TypeOK, NEW t \in Tasks
    PROVE  /\ Slept[t] = SleptBy(t) /\ SleptBy(t) \in Nat /\ sleep[t] \in Nat
           /\ \/ Charged[t] = sleep[t] - SleptBy(t) /\ Timed[t] = 0 /\ sleep[t] > SleptBy(t)
              \/ Charged[t] = sleep[t] /\ Timed[t] = SleptBy(t)
<1>1. since[t] \in Nat /\ sleep[t] \in Nat
  BY Bounds DEF TypeOK
<1>2. Slept[t] = SleptBy(t) /\ SleptBy(t) \in Nat
  BY <1>1 DEF Slept, SleptBy, TypeOK
<1>3. Ring \in Seq(Tasks)
  BY SelectTypes
<1>4. t \in Passed => sleep[t] > SleptBy(t)
  <2>1. \A j \in DOMAIN Ring : ~(j < j)
    BY <1>3
  <2>2. \A j \in DOMAIN Ring : (\A k \in ReadyAt : j < k) => j \notin ReadyAt
    BY <2>1
  <2>3. t \in Passed => ~(sleep[t] <= Slept[t])
    BY <2>2 DEF Passed, ReadyAt, Ready
  <2> QED
    BY <1>1, <1>2, <2>3
<1> QED
  BY <1>1, <1>2, <1>4 DEF Charged, Timed

(* select_next clears the sleep of a task that may run, and of no other. *)
LEMMA SelectSleep ==
    ASSUME TypeOK, SleepInv, SelectNext
    PROVE  SleepInv' /\ \A t \in Tasks : sleep[t] > 0 /\ sleep'[t] = 0 => due[t] = 0
<1>1. due' = due /\ \A t \in Tasks : due[t] \in Nat
  BY DEF SelectNext, TypeOK
<1>2. Charged \in [Tasks -> Nat] /\ Timed \in [Tasks -> 0..SinceCap]
  BY SelectTypes
<1>3. \A t \in Tasks : due[t] = 0 \/ due[t] + SleptBy(t) <= sleep[t]
  BY DEF SleepInv
<1>4. ASSUME NEW t \in Tasks
      PROVE  /\ due[t] = 0 \/ due[t] + Timed[t] <= Charged[t]
             /\ sleep[t] > 0 => Charged[t] > 0
             /\ t = current => Timed[t] = 0
             /\ sleep[t] <= SleptBy(t) => due[t] = 0
  BY <1>1, <1>3, ChargedIs DEF SleptBy
<1>5. CASE \E i \in ReadyAt :
                /\ sleep' = [Charged EXCEPT ![Ring[i]] = 0]
                /\ current' = Ring[i]
                /\ \/ Ring[i] = current /\ since' = Timed
                   \/ Ring[i] # current /\ since' = [Timed EXCEPT ![Ring[i]] = 0]
  <2>1. PICK i \in ReadyAt : /\ sleep' = [Charged EXCEPT ![Ring[i]] = 0]
                             /\ current' = Ring[i]
                             /\ \/ Ring[i] = current /\ since' = Timed
                                \/ Ring[i] # current /\ since' = [Timed EXCEPT ![Ring[i]] = 0]
    BY <1>5
  <2>2. Ring[i] \in Tasks /\ sleep[Ring[i]] <= Slept[Ring[i]]
    BY SelectTypes DEF ReadyAt, Ready
  <2>3. due[Ring[i]] = 0
    BY <1>4, <2>2, ChargedIs
  <2>4. ASSUME NEW t \in Tasks
        PROVE  /\ due[t] = 0 \/ due[t] + SleptBy(t)' <= sleep'[t]
               /\ sleep[t] > 0 /\ sleep'[t] = 0 => due[t] = 0
    <3>1. CASE t = Ring[i]
      BY <2>3, <3>1
    <3>2. CASE t # Ring[i]
      <4>1. sleep'[t] = Charged[t] /\ since'[t] = Timed[t] /\ SleptBy(t)' = Timed[t]
        BY <1>2, <2>1, <3>2 DEF SleptBy
      <4> QED
        BY <1>1, <1>4, <4>1
    <3> QED
      BY <3>1, <3>2
  <2> QED
    BY <1>1, <2>4 DEF SleepInv
<1>6. CASE /\ sleep' = Charged
           /\ \/ current' = current /\ since' = Timed
              \/ current' = Idle /\ since' = [Timed EXCEPT ![Idle] = 0]
  <2>1. ASSUME NEW t \in Tasks PROVE due[t] = 0 \/ due[t] + SleptBy(t)' <= sleep'[t]
    <3>1. SleptBy(t)' = 0 \/ SleptBy(t)' = Timed[t]
      BY <1>2, <1>6 DEF SleptBy
    <3> QED
      BY <1>1, <1>2, <1>4, <1>6, <3>1, Bounds
  <2> QED
    BY <1>1, <1>4, <1>6, <2>1 DEF SleepInv
<1> QED
  BY <1>5, <1>6, ListSteps

LEMMA NextSleep ==
    ASSUME TypeOK, Shape, SleepInv, [Next]_vars
    PROVE  SleepInv' /\ \A t \in Tasks : sleep[t] > 0 /\ sleep'[t] = 0 => due[t] = 0
<1> USE DEF timeVars
<1>1. ASSUME NEW t \in Tasks
      PROVE  due[t] \in Nat /\ sleep[t] \in Nat /\ SleptBy(t) \in Nat /\ since[t] \in 0..SinceCap
  BY ChargedIs DEF TypeOK
<1>2. ASSUME UNCHANGED <<sleep, due, since, current>>
      PROVE  SleepInv' /\ \A t \in Tasks : sleep[t] > 0 /\ sleep'[t] = 0 => due[t] = 0
  BY <1>2 DEF SleepInv, SleptBy
<1>3. CASE Sleep
  <2>1. PICK ms \in Requests :
           /\ sleep' = [sleep EXCEPT ![current] = @ + SleepTicks(ms)]
           /\ due' = [due EXCEPT ![current] = SleepTicks(ms)]
    BY <1>3 DEF Sleep
  <2>2. SleepTicks(ms) \in Nat /\ since' = since /\ current' = current
    BY <1>3, SleepTicksType DEF Sleep
  <2>3. ASSUME NEW t \in Tasks
        PROVE  /\ due'[t] = 0 \/ due'[t] + SleptBy(t)' <= sleep'[t]
               /\ sleep[t] > 0 /\ sleep'[t] = 0 => due[t] = 0
    <3>1. SleptBy(t)' = SleptBy(t)
      BY <2>2 DEF SleptBy
    <3>2. CASE t = current
      <4>1. sleep'[t] = sleep[t] + SleepTicks(ms) /\ due'[t] = SleepTicks(ms) /\ SleptBy(t) = 0
        BY <2>1, <3>2 DEF TypeOK, SleptBy
      <4> QED
        BY <1>1, <2>2, <3>1, <4>1
    <3>3. CASE t # current
      <4>1. sleep'[t] = sleep[t] /\ due'[t] = due[t]
        BY <2>1, <3>3 DEF TypeOK
      <4> QED
        BY <3>1, <4>1 DEF SleepInv
    <3> QED
      BY <3>2, <3>3
  <2> QED
    BY <2>3 DEF SleepInv
<1>4. CASE Tick
  <2>1. /\ since' = [t \in Tasks |-> Cap(since[t] + 1)]
        /\ due' = [t \in Tasks |-> IF due[t] = 0 THEN 0 ELSE due[t] - 1]
        /\ sleep' = sleep /\ current' = current
    BY <1>4 DEF Tick
  <2>2. ASSUME NEW t \in Tasks PROVE due'[t] = 0 \/ due'[t] + SleptBy(t)' <= sleep'[t]
    <3>1. since'[t] = Cap(since[t] + 1) /\ since'[t] <= since[t] + 1 /\ since'[t] \in Int
      BY <1>1, <2>1, Bounds DEF Cap
    <3>2. SleptBy(t)' <= SleptBy(t) + 1 /\ SleptBy(t)' \in Int
      BY <1>1, <2>1, <3>1 DEF SleptBy
    <3>3. due'[t] = IF due[t] = 0 THEN 0 ELSE due[t] - 1
      BY <2>1
    <3>4. due[t] = 0 \/ due[t] + SleptBy(t) <= sleep[t]
      BY DEF SleepInv
    <3> QED
      BY <1>1, <2>1, <3>2, <3>3, <3>4
  <2> QED
    BY <2>1, <2>2 DEF SleepInv
<1>5. CASE SelectNext
  BY <1>5, SelectSleep
<1>6. CASE HeapDone
  <2>1. sleep' = sleep /\ due' = due /\ current' = current
    BY <1>6 DEF HeapDone
  <2>2. since' = since \/ since' = [since EXCEPT ![current] = 0]
    BY <1>6 DEF HeapDone
  <2>3. \A t \in Tasks : SleptBy(t)' = SleptBy(t)
    BY <2>1, <2>2 DEF SleptBy, TypeOK
  <2> QED
    BY <2>1, <2>3 DEF SleepInv
<1>7. CASE TimerInterrupt \/ UNCHANGED vars
  BY <1>2, <1>7 DEF TimerInterrupt, vars
<1>8. CASE TaskCall /\ ~Sleep
  <2>1. KillKernel => UNCHANGED <<sleep, due, since, current>>
    BY Zenon DEF KillKernel, timeVars
  <2>2. UNCHANGED <<sleep, due, since, current>>
    BY <1>8, <2>1 DEF TaskCall, Yield, Dump, NewTask, KillMe, KillTask, KillOwnId, UseHeap,
                      FaultKill, FaultPanic, Call
  <2> QED
    BY <1>2, <2>2
<1>9. CASE KernelStep /\ ~Tick /\ ~SelectNext /\ ~HeapDone
  <2>1. UNCHANGED <<sleep, due, since, current>>
    BY <1>9 DEF KernelStep, UndoCount, ExitInterrupt, Iret, PopInts, LockSched, LockHeap, LinkTask,
                UnlistCurrent, UnlistOther, ReleaseToSwitch, LoadEsp, SwapStacks, Resume, Leave,
                PushInts
  <2> QED
    BY <1>2, <2>1
<1> QED
  BY <1>3, <1>4, <1>5, <1>6, <1>7, <1>8, <1>9 DEF Next

(* Nobody is woken early: select_next clears a sleep only when all the ticks
   that were asked for have passed, for any slice, requests and interleaving
   of the tick with sleep() and yield(). *)
THEOREM NobodyWokenEarly == Spec => NoEarlyWake
<1>1. Init => TypeOK /\ Shape /\ SleepInv
  BY InitType, InitShape, InitSleep
<1>2. TypeOK /\ Shape /\ SleepInv /\ [Next]_vars => (TypeOK /\ Shape /\ SleepInv)'
  BY NextType, NextShape, NextSleep
<1>3. TypeOK /\ Shape /\ SleepInv /\ [Next]_vars
        => [\A t \in Tasks : sleep[t] > 0 /\ sleep'[t] = 0 => due[t] = 0]_vars
  BY NextSleep
<1> QED
  BY <1>1, <1>2, <1>3, PTL DEF Spec, NoEarlyWake
-----------------------------------------------------------------------------
(* What the list operations do to the list's members. *)

LEMMA ListIs ==
    ASSUME NEW S, NEW list \in Seq(S)
    PROVE  /\ Len(list) \in Nat /\ DOMAIN list = 1..Len(list)
           /\ \A x : x \in Range(list) <=> \E i \in 1..Len(list) : list[i] = x
           /\ IsInjective(list) <=> \A i, j \in 1..Len(list) : list[i] = list[j] => i = j
  BY LenProperties DEF Range, IsInjective

(* A list of two or more, turned, element by element. *)
LEMMA RotatedAt ==
    ASSUME NEW S, NEW list \in Seq(S), ~(Len(list) < 2)
    PROVE  LET n == Len(list)
               r == Rotated(list)
           IN  /\ n \in Nat /\ n >= 2 /\ r \in Seq(S) /\ Len(r) = n
               /\ \A i \in 1..(n - 1) : r[i] = list[i + 1]
               /\ r[n] = list[1]
<1> DEFINE n == Len(list)
           r == Rotated(list)
<1>1. n \in Nat /\ n >= 2 /\ list # << >>
  BY LenProperties, EmptySeq
<1>2. /\ Head(list) = list[1] /\ Head(list) \in S /\ Tail(list) \in Seq(S)
      /\ Len(Tail(list)) = n - 1 /\ \A i \in 1..(n - 1) : Tail(list)[i] = list[i + 1]
  BY <1>1, HeadTailProperties
<1>3. <<Head(list)>> \in Seq(S) /\ Len(<<Head(list)>>) = 1 /\ <<Head(list)>>[1] = list[1]
  BY <1>2
<1> DEFINE a == Tail(list)
           b == <<Head(list)>>
<1>4. r = a \o b
  BY DEF Rotated
<1> HIDE DEF a, b, r
<1>41. a \in Seq(S) /\ b \in Seq(S) /\ Len(a) = n - 1 /\ Len(b) = 1 /\ b[1] = list[1]
  BY <1>2, <1>3 DEF a, b
<1>42. /\ r \in Seq(S) /\ Len(r) = Len(a) + Len(b)
       /\ \A i \in 1..(Len(a) + Len(b)) : r[i] = IF i <= Len(a) THEN a[i] ELSE b[i - Len(a)]
  BY <1>4, <1>41, ConcatProperties
<1>5. r \in Seq(S) /\ Len(r) = n
  BY <1>1, <1>41, <1>42
<1>6. \A i \in 1..(n - 1) : r[i] = list[i + 1]
  <2>1. \A i \in 1..(n - 1) : r[i] = a[i]
    BY <1>1, <1>41, <1>42
  <2> QED
    BY <1>2, <2>1 DEF a
<1>7. r[n] = list[1]
  <2>1. n \in 1..(Len(a) + Len(b)) /\ ~(n <= Len(a)) /\ n - Len(a) = 1
    BY <1>1, <1>41
  <2> QED
    BY <1>41, <1>42, <2>1
<1> QED
  BY <1>1, <1>5, <1>6, <1>7 DEF r

LEMMA RotatedIs ==
    ASSUME NEW S, NEW list \in Seq(S)
    PROVE  /\ Range(Rotated(list)) = Range(list)
           /\ IsInjective(list) => IsInjective(Rotated(list))
<1>1. CASE Len(list) < 2
  BY <1>1 DEF Rotated
<1>2. CASE ~(Len(list) < 2)
  <2> DEFINE n == Len(list)
             r == Rotated(list)
  <2>1. n \in Nat /\ n >= 2
    BY <1>2, RotatedAt
  <2>5. r \in Seq(S) /\ Len(r) = n
    BY <1>2, RotatedAt
  <2>6. \A i \in 1..(n - 1) : r[i] = list[i + 1]
    BY <1>2, RotatedAt
  <2>7. r[n] = list[1]
    BY <1>2, RotatedAt
  <2> HIDE DEF r
  <2>8. \A i \in 1..n : list[i] = IF i = 1 THEN r[n] ELSE r[i - 1]
    <3> SUFFICES ASSUME NEW i \in 1..n, i # 1 PROVE list[i] = r[i - 1]
      BY <2>7
    <3>1. i - 1 \in 1..(n - 1) /\ (i - 1) + 1 = i
      BY <2>1
    <3> QED
      BY <2>6, <3>1
  <2>9. Range(r) = Range(list)
    <3>1. ASSUME NEW x \in Range(r) PROVE x \in Range(list)
      <4>1. PICK i \in 1..n : r[i] = x
        BY <2>5, ListIs
      <4>2. CASE i = n
        BY <2>1, <2>7, <4>1, <4>2, ListIs
      <4>3. CASE i # n
        <5>1. i \in 1..(n - 1) /\ i + 1 \in 1..n
          BY <2>1, <4>3
        <5> QED
          BY <2>6, <4>1, <5>1, ListIs
      <4> QED
        BY <4>2, <4>3
    <3>2. ASSUME NEW x \in Range(list) PROVE x \in Range(r)
      <4>1. PICK i \in 1..n : list[i] = x
        BY ListIs
      <4>2. CASE i = 1
        BY <2>1, <2>5, <2>7, <4>1, <4>2, ListIs
      <4>3. CASE i # 1
        <5>1. i - 1 \in 1..n /\ r[i - 1] = x
          BY <2>1, <2>8, <4>1, <4>3
        <5> QED
          BY <2>5, <5>1, ListIs
      <4> QED
        BY <4>2, <4>3
    <3> QED
      BY <3>1, <3>2
  <2>10. ASSUME IsInjective(list) PROVE IsInjective(r)
    <3>1. \A i, j \in 1..n : list[i] = list[j] => i = j
      BY <2>10, ListIs
    <3> DEFINE g(i) == IF i = n THEN 1 ELSE i + 1
    <3>2. \A i \in 1..n : g(i) \in 1..n /\ r[i] = list[g(i)]
      BY <2>1, <2>6, <2>7
    <3>3. \A i, j \in 1..n : g(i) = g(j) => i = j
      BY <2>1
    <3> HIDE DEF g
    <3>4. \A i, j \in 1..n : r[i] = r[j] => i = j
      BY <3>1, <3>2, <3>3
    <3> QED
      BY <2>5, <3>4, ListIs
  <2> QED
    BY <2>9, <2>10 DEF r
<1> QED
  BY <1>1, <1>2

LEMMA AppendIs ==
    ASSUME NEW S, NEW list \in Seq(S), NEW t \in S
    PROVE  /\ Range(Append(list, t)) = Range(list) \cup {t}
           /\ IsInjective(list) /\ t \notin Range(list) => IsInjective(Append(list, t))
<1> DEFINE n == Len(list)
           a == Append(list, t)
<1>1. n \in Nat /\ a \in Seq(S) /\ Len(a) = n + 1 /\ a[n + 1] = t /\ \A i \in 1..n : a[i] = list[i]
  BY AppendProperties, LenProperties
<1> HIDE DEF a
<1>2. Range(a) = Range(list) \cup {t}
  <2>1. \A x : x \in Range(a) <=> \E i \in 1..(n + 1) : a[i] = x
    BY <1>1, ListIs
  <2>2. \A x : x \in Range(list) <=> \E i \in 1..n : list[i] = x
    BY ListIs
  <2>3. \A i \in 1..(n + 1) : i \in 1..n \/ i = n + 1
    BY <1>1
  <2>4. 1..n \subseteq 1..(n + 1) /\ n + 1 \in 1..(n + 1)
    BY <1>1
  <2> QED
    BY <1>1, <2>1, <2>2, <2>3, <2>4
<1>3. ASSUME IsInjective(list), t \notin Range(list) PROVE IsInjective(a)
  <2>1. \A i, j \in 1..n : list[i] = list[j] => i = j
    BY <1>3, ListIs
  <2>2. \A i \in 1..n : list[i] # t
    BY <1>3, ListIs
  <2>3. \A i \in 1..(n + 1) : i \in 1..n \/ i = n + 1
    BY <1>1
  <2>4. \A i, j \in 1..(n + 1) : a[i] = a[j] => i = j
    BY <1>1, <2>1, <2>2, <2>3
  <2> QED
    BY <1>1, <2>4, ListIs
<1> QED
  BY <1>2, <1>3 DEF a

(* A list without the node of one of its tasks, element by element. *)
LEMMA WithoutAt ==
    ASSUME NEW S, NEW list \in Seq(S), NEW t \in Range(list)
    PROVE  \E k \in 1..Len(list) :
              LET w == Without(list, t)
              IN  /\ list[k] = t /\ w \in Seq(S) /\ Len(w) = Len(list) - 1
                  /\ \A i \in 1..(Len(list) - 1) : w[i] = IF i < k THEN list[i] ELSE list[i + 1]
<1> DEFINE n == Len(list)
           k == CHOOSE j \in DOMAIN list : list[j] = t
           a == SubSeq(list, 1, k - 1)
           b == SubSeq(list, k + 1, n)
           w == Without(list, t)
<1>1. n \in Nat /\ DOMAIN list = 1..n
  BY ListIs
<1>2. k \in 1..n /\ list[k] = t
  BY <1>1 DEF Range
<1>3. w = a \o b
  BY DEF Without
<1> HIDE DEF k, w
<1>4. \A i \in 1..n : list[i] \in S
  BY ElementOfSeq
<1>5. a \in Seq(S) /\ Len(a) = k - 1 /\ \A i \in 1..(k - 1) : a[i] = list[i]
  BY <1>1, <1>2, <1>4, SubSeqProperties
<1>6. b \in Seq(S) /\ Len(b) = n - k /\ \A i \in 1..(n - k) : b[i] = list[k + i]
  <2>1. /\ b \in Seq(S) /\ Len(b) = IF k + 1 <= n THEN n - (k + 1) + 1 ELSE 0
        /\ \A i \in 1..(n - (k + 1) + 1) : b[i] = list[(k + 1) + i - 1]
    BY <1>1, <1>2, <1>4, SubSeqProperties
  <2>2. n - (k + 1) + 1 = n - k /\ \A i \in 1..(n - k) : (k + 1) + i - 1 = k + i
    BY <1>1, <1>2
  <2>3. Len(b) = n - k
    <3>1. k \in Nat /\ n \in Nat /\ k <= n
      BY <1>1, <1>2
    <3>2. Len(b) = IF k + 1 <= n THEN n - (k + 1) + 1 ELSE 0
      BY <2>1
    <3> HIDE DEF b, n
    <3> QED
      BY <3>1, <3>2
  <2> QED
    BY <2>1, <2>2, <2>3
<1> HIDE DEF a, b
<1>61. /\ w \in Seq(S) /\ Len(w) = Len(a) + Len(b)
       /\ \A i \in 1..(Len(a) + Len(b)) : w[i] = IF i <= Len(a) THEN a[i] ELSE b[i - Len(a)]
  BY <1>3, <1>5, <1>6, ConcatProperties
<1>7. w \in Seq(S) /\ Len(w) = n - 1
  BY <1>1, <1>2, <1>5, <1>6, <1>61
<1>8. \A i \in 1..(n - 1) : w[i] = IF i < k THEN a[i] ELSE b[i - (k - 1)]
  <2>1. Len(a) = k - 1 /\ Len(b) = n - k /\ k \in Nat /\ n \in Nat /\ 1 <= k /\ k <= n
    BY <1>1, <1>2, <1>5, <1>6
  <2> HIDE DEF n
  <2> SUFFICES ASSUME NEW i \in 1..(n - 1)
               PROVE  w[i] = IF i < k THEN a[i] ELSE b[i - (k - 1)]
    OBVIOUS
  <2>2. i \in 1..(Len(a) + Len(b)) /\ (i <= Len(a) <=> i < k) /\ i - Len(a) = i - (k - 1)
    BY <2>1
  <2> QED
    BY <1>61, <2>2
<1>9. \A i \in 1..(n - 1) : w[i] = IF i < k THEN list[i] ELSE list[i + 1]
  <2> SUFFICES ASSUME NEW i \in 1..(n - 1) PROVE w[i] = IF i < k THEN list[i] ELSE list[i + 1]
    OBVIOUS
  <2>1. CASE i < k
    BY <1>1, <1>2, <1>5, <1>8, <2>1
  <2>2. CASE ~(i < k)
    <3>1. i - (k - 1) \in 1..(n - k) /\ k + (i - (k - 1)) = i + 1
      BY <1>1, <1>2, <2>2
    <3> QED
      BY <1>1, <1>2, <1>6, <1>8, <2>2, <3>1
  <2> QED
    BY <2>1, <2>2
<1> QED
  BY <1>2, <1>7, <1>9 DEF w

LEMMA WithoutIs ==
    ASSUME NEW S, NEW list \in Seq(S), NEW t, IsInjective(list)
    PROVE  Range(Without(list, t)) = Range(list) \ {t} /\ IsInjective(Without(list, t))
<1>1. CASE t \notin Range(list)
  BY <1>1 DEF Without
<1>2. CASE t \in Range(list)
  <2> DEFINE n == Len(list)
             w == Without(list, t)
  <2>0. n \in Nat
    BY ListIs
  <2>1. PICK k \in 1..n :
           /\ list[k] = t /\ w \in Seq(S) /\ Len(w) = n - 1
           /\ \A i \in 1..(n - 1) : w[i] = IF i < k THEN list[i] ELSE list[i + 1]
    BY <1>2, WithoutAt
  <2>2. k \in 1..n /\ list[k] = t
    BY <2>1
  <2>7. w \in Seq(S) /\ Len(w) = n - 1
    BY <2>1
  <2> DEFINE g(i) == IF i < k THEN i ELSE i + 1
  <2> HIDE DEF w
  <2>9. \A i \in 1..(n - 1) : g(i) \in 1..n /\ g(i) # k /\ w[i] = list[g(i)]
    BY <2>0, <2>1
  <2>10. \A i, j \in 1..(n - 1) : g(i) = g(j) => i = j
    BY <2>0, <2>2
  <2>11. \A j \in 1..n : j # k => \E i \in 1..(n - 1) : g(i) = j
    <3> SUFFICES ASSUME NEW j \in 1..n, j # k PROVE \E i \in 1..(n - 1) : g(i) = j
      OBVIOUS
    <3>1. CASE j < k
      BY <2>0, <2>2, <3>1
    <3>2. CASE j > k
      <4>1. j - 1 \in 1..(n - 1) /\ g(j - 1) = j
        BY <2>0, <2>2, <3>2
      <4> QED
        BY <4>1
    <3> QED
      BY <2>0, <2>2, <3>1, <3>2
  <2> HIDE DEF g
  <2>12. \A i, j \in 1..n : list[i] = list[j] => i = j
    BY ListIs
  <2>13. \A x : x \in Range(list) <=> \E j \in 1..n : list[j] = x
    BY ListIs
  <2>14. \A x : x \in Range(w) <=> \E i \in 1..(n - 1) : w[i] = x
    BY <2>7, ListIs
  <2>15. \A x : x \in Range(w) => x \in Range(list) /\ x # t
    BY <2>2, <2>9, <2>12, <2>13, <2>14
  <2>16. \A x : x \in Range(list) /\ x # t => x \in Range(w)
    <3> SUFFICES ASSUME NEW x, x \in Range(list), x # t PROVE x \in Range(w)
      OBVIOUS
    <3>1. PICK j \in 1..n : list[j] = x
      BY <2>13
    <3>2. PICK i \in 1..(n - 1) : g(i) = j
      BY <2>2, <2>11, <3>1
    <3> QED
      BY <2>9, <2>14, <3>1, <3>2
  <2>17. Range(w) = Range(list) \ {t}
    BY <2>15, <2>16
  <2>18. \A i, j \in 1..(n - 1) : w[i] = w[j] => i = j
    BY <2>9, <2>10, <2>12
  <2>19. IsInjective(w)
    BY <2>7, <2>18, ListIs
  <2> QED
    BY <2>17, <2>19 DEF w
<1> QED
  BY <1>1, <1>2
-----------------------------------------------------------------------------
(* The run list, and the frames that are about to change it. *)

(* new_task of t, up to the link of its node... *)
NewFrames(t) ==
    {f \in Frame : f.op = "new" /\ f.arg = t /\ f.at \in {"pop", "heap_lock", "heap", "lock", "link"}}

(* ...and kill_task of t, from its entry and from the unlink on... *)
Condemned(t) ==
    {f \in Frame : f.op = "kill" /\ f.arg = t /\ f.at \in {"pop", "lock", "unlist", "heap_lock", "heap"}}
KillFrames(t) == {f \in Frame : f.op = "kill" /\ f.arg = t /\ f.at \in {"heap_lock", "heap"}}

(* ...and that of the current task. *)
ExitFrames == {f \in Frame : f.op = "exit" /\ f.at \in {"heap_lock", "heap"}}

ListSound == IsInjective(tasks) /\ Idle \notin Range(tasks) /\ Range(tasks) \cap freed = {}
ListCreated == Range(tasks) \cup freed \cup {current, Idle} \subseteq created
OneBirth == \A t \in Tasks : \A r, s \in Sites(NewFrames(t)) : r = s
Unborn == \A t \in Tasks : Sites(NewFrames(t)) # {} =>
             t \in created \ (Range(tasks) \cup freed \cup {current, Idle})
KillsListed == \A t \in Tasks : Sites(KillFrames(t)) # {} =>
                 t \notin Range(tasks) /\ Sites(NewFrames(t)) = {}
CondemnedCreated == \A t \in Tasks : Sites(Condemned(t)) # {} => t \in created
ExitListed == Sites(ExitFrames) # {} => current \notin Range(tasks)

BirthInv == ListSound /\ ListCreated /\ OneBirth /\ Unborn /\ KillsListed /\ CondemnedCreated /\ ExitListed

(* The frames of the calls of the initial state. *)
LEMMA InitSites ==
    ASSUME Init, NEW P, \A f \in P : f.at \notin Passive
    PROVE  Sites(P) = {}
<1>1. \A t \in Tasks : frame[t].at \in Passive
  BY DEF Init, FreshFrame, At, Passive
<1>2. \A t \in Tasks : Depth(t) = 1 /\ Spots(t) = {1}
  <2>1. \A t \in Tasks : Len(under[t]) = 0
    BY EmptySeq DEF Init
  <2> QED
    BY <2>1 DEF Spots, Depth
<1>3. \A t \in Tasks : \A k \in Spots(t) : FrameAt(t, k) \notin P
  BY <1>1, <1>2 DEF FrameAt
<1> QED
  BY <1>3 DEF Sites

LEMMA InitBirth == Init => BirthInv
<1> SUFFICES ASSUME Init PROVE BirthInv
  OBVIOUS
<1>1. /\ \A t \in Tasks : Sites(NewFrames(t)) = {} /\ Sites(KillFrames(t)) = {} /\ Sites(Condemned(t)) = {}
      /\ Sites(ExitFrames) = {}
  BY InitSites DEF NewFrames, KillFrames, Condemned, ExitFrames, Passive
<1>2. Started \in Seq(Tasks \ {Idle}) /\ IsInjective(Started) /\ tasks = Started
  BY StartedAssumption DEF Init
<1>3. Range(Started) \subseteq Tasks \ {Idle}
  BY <1>2, ElementOfSeq, ListIs
<1>4. ListSound /\ ListCreated
  BY <1>2, <1>3, TasksAssumption DEF Init, ListSound, ListCreated
<1> QED
  BY <1>1, <1>4 DEF BirthInv, OneBirth, Unborn, KillsListed, CondemnedCreated, ExitListed

(* How a frame gets to a place on the way in, or under the lock. *)
Inward == {"pop", "lock", "heap_lock", "heap", "link", "unlist"}

Carries == Top'.op = Top.op /\ Top'.arg = Top.arg

Enters ==
    \/ Top'.at = "pop" /\ Top'.op \in {"yield", "dump", "exit"}
    \/ Top'.op = "heap"
    \/ Top'.at = "pop" /\ Top'.op = "kill" /\ Top'.arg \in created \cup {current}
    \/ NewTask /\ Top'.op = "new" /\ Top'.arg \in created' \ created
    \/ Carries /\ Top'.at = Top.at
    \/ Carries /\ Top.at = "pop" /\ Top'.at = IF Top.op = "new" THEN "heap_lock" ELSE "lock"
    \/ Carries /\ Top.at = "lock" /\ Top'.at = UnderLock(Top.op)
    \/ Carries /\ Top.at = "heap_lock" /\ Top'.at = "heap"
    \/ HeapDone /\ Carries /\ Top.op = "new" /\ Top'.at = "lock"
    \/ /\ UnlistCurrent /\ Top'.op = "exit" /\ Top'.at = "heap_lock"
       /\ tasks' = Without(tasks, current)
    \/ /\ UnlistOther /\ Carries /\ Top.op = "kill" /\ Top'.at = "heap_lock"
       /\ Top.arg \in Range(tasks) /\ tasks' = Without(tasks, Top.arg)

LEMMA EntersIs ==
    ASSUME TypeOK, Shape, Next, Onward, Top'.at \in Inward
    PROVE  Enters
<1>1. CASE TaskCall
  <2>1. CASE \/ Sleep \/ Yield \/ Dump \/ KillMe \/ FaultKill
    BY <2>1, CallSteps DEF Yield, Dump, KillMe, Starts, Enters
  <2>2. CASE NewTask
    BY <2>2, CallSteps DEF Starts, Enters
  <2>3. CASE KillTask \/ KillOwnId
    BY <2>3, CallSteps DEF KillTask, KillOwnId, Starts, Enters
  <2>4. CASE UseHeap
    BY <2>4, CallSteps DEF Starts, Enters
  <2>5. CASE KillKernel \/ FaultPanic
    BY <2>5, CallSteps, SitesStill DEF Enters, Carries
  <2> QED
    BY <1>1, <2>1, <2>2, <2>3, <2>4, <2>5 DEF TaskCall
<1>2. CASE Tick
  BY <1>2, InterruptSteps DEF Enters, Inward
<1>3. CASE UndoCount \/ ExitInterrupt
  BY <1>3, InterruptSteps DEF Passes, Inward
<1>4. CASE PopInts
  BY <1>4, LockSteps DEF Passes, Enters, Carries
<1>5. CASE LockSched
  BY <1>5, LockSteps DEF Passes, Enters, Carries
<1>6. CASE LockHeap
  BY <1>6, LockSteps DEF Passes, Enters, Carries
<1>7. CASE Leave \/ PushInts
  BY <1>7, LockSteps DEF Passes, Returns, Inward
<1>8. CASE HeapDone
  <2>1. CASE Top.op = "new" /\ Makes(Top.arg)
    <3>1. PICK flag \in StaleFlags :
             frame' = [frame EXCEPT ![Top.arg] = FreshFrame(flag), ![cpu] = Moved("lock")]
      BY <2>1 DEF Makes
    <3>2. Top' = Moved("lock")
      BY <3>1, <2>1 DEF Makes, Top, TypeOK
    <3> QED
      BY <1>8, <2>1, <3>2, MovedFields DEF Enters, Carries
  <2>2. CASE ~(Top.op = "new" /\ Makes(Top.arg))
    BY <1>8, <2>2, HeapSteps DEF Passes, Inward
  <2> QED
    BY <2>1, <2>2
<1>9. CASE UnlistCurrent
  <2>1. CASE Still
    BY <2>1, SitesStill DEF Enters, Carries
  <2>2. CASE ~Still
    BY <1>9, <2>2, ListSteps DEF Enters
  <2> QED
    BY <2>1, <2>2
<1>10. CASE UnlistOther
  <2>1. /\ Top.op = "kill" /\ tasks' = Without(tasks, Top.arg)
        /\ Passes(IF Top.arg \in Range(tasks) THEN "heap_lock" ELSE "leave")
    BY <1>10, ListSteps
  <2>2. Top.arg \in Range(tasks)
    BY <2>1 DEF Passes, Inward
  <2> QED
    BY <1>10, <2>1, <2>2 DEF Passes, Enters, Carries
<1>11. CASE LinkTask
  BY <1>11, ListSteps DEF Passes, Inward
<1>12. CASE SelectNext
  BY <1>12, ListSteps DEF Passes, Switches, Inward
<1>13. CASE ReleaseToSwitch \/ LoadEsp \/ Resume
  BY <1>13, SwitchSteps DEF Passes, Returns, Inward
<1>14. CASE SwapStacks
  <2>1. Still
    BY <1>14, SwitchSteps DEF SwapsTo, Onward
  <2> QED
    BY <2>1, SitesStill DEF Enters, Carries
<1>15. CASE TimerInterrupt
  BY <1>15, Pushed DEF At, Inward
<1>16. ~Iret
  <2>1. Iret => Depth(cpu)' = Depth(cpu) - 1 /\ Depth(cpu) \in Nat
    BY Popped, Stacks DEF TypeOK
  <2>2. Depth(cpu)' = Depth(cpu)
    BY DEF Onward, Depth
  <2> QED
    BY <2>1, <2>2
<1> QED
  BY <1>1, <1>2, <1>3, <1>4, <1>5, <1>6, <1>7, <1>8, <1>9, <1>10, <1>11, <1>12, <1>13, <1>14,
     <1>15, <1>16 DEF Next, KernelStep

(* A frame of new_task of t comes from new_task of t, or t has no name yet... *)
LEMMA NewSites ==
    ASSUME TypeOK, Shape, Next, NEW t \in Tasks
    PROVE  \/ Sites(NewFrames(t))' \subseteq Sites(NewFrames(t))
           \/ /\ NewTask /\ t \in created' \ created
              /\ Sites(NewFrames(t))' \subseteq Sites(NewFrames(t)) \cup {Here}
<1> DEFINE P == NewFrames(t)
<1>1. \A s \in Sites(P)' : s \in Sites(P) \/ (s = Here /\ Onward /\ Top' \in P)
  BY SitesNext DEF NewFrames, Passive
<1>2. ASSUME Onward, Top' \in P, Top \notin P PROVE NewTask /\ t \in created' \ created
  <2>1. Top'.op = "new" /\ Top'.arg = t /\ Top'.at \in Inward /\ Top \in Frame /\ Enters
    BY <1>2, EntersIs, TopTypes DEF NewFrames, Inward
  <2>2. ~(Carries /\ Top.at \in {"pop", "heap_lock", "heap", "lock", "link"})
    BY <1>2, <2>1 DEF NewFrames, Carries
  <2>3. HeapDone => Top.at = "heap"
    BY HeapSteps
  <2> QED
    BY <1>2, <2>1, <2>2, <2>3 DEF Enters, NewFrames, Carries
<1> QED
  BY <1>1, <1>2, HereIs

(* ...one that is to kill t, once t has one... *)
LEMMA CondemnedSites ==
    ASSUME TypeOK, Shape, Next, NEW t \in Tasks
    PROVE  Sites(Condemned(t))' \subseteq Sites(Condemned(t)) \/ t \in created \cup {current}
<1> DEFINE P == Condemned(t)
<1>1. \A s \in Sites(P)' : s \in Sites(P) \/ (s = Here /\ Onward /\ Top' \in P)
  BY SitesNext DEF Condemned, Passive
<1>2. ASSUME Onward, Top' \in P, Top \notin P PROVE t \in created \cup {current}
  <2>1. Top'.op = "kill" /\ Top'.arg = t /\ Top'.at \in Inward /\ Top \in Frame /\ Enters
    BY <1>2, EntersIs, TopTypes DEF Condemned, Inward
  <2>2. ~(Carries /\ Top.at \in {"pop", "lock", "unlist", "heap_lock", "heap"})
    BY <1>2, <2>1 DEF Condemned, Carries
  <2>3. UnlistOther => Top.at = "unlist"
    BY ListSteps
  <2> QED
    BY <1>2, <2>1, <2>2, <2>3 DEF Enters, Condemned, Carries
<1> QED
  BY <1>1, <1>2, HereIs

(* ...and one that kills t or the current task, from its unlink. *)
LEMMA KillSites ==
    ASSUME TypeOK, Shape, Next, NEW t \in Tasks
    PROVE  \/ Sites(KillFrames(t))' \subseteq Sites(KillFrames(t))
           \/ t \in Range(tasks) /\ UnlistOther /\ tasks' = Without(tasks, t)
<1> DEFINE P == KillFrames(t)
<1>1. \A s \in Sites(P)' : s \in Sites(P) \/ (s = Here /\ Onward /\ Top' \in P)
  BY SitesNext DEF KillFrames, Passive
<1>2. ASSUME Onward, Top' \in P, Top \notin P
      PROVE  t \in Range(tasks) /\ UnlistOther /\ tasks' = Without(tasks, t)
  <2>1. Top'.op = "kill" /\ Top'.arg = t /\ Top'.at \in {"heap_lock", "heap"} /\ Top \in Frame /\ Enters
    BY <1>2, EntersIs, TopTypes DEF KillFrames, Inward
  <2>2. ~(Carries /\ Top.at \in {"heap_lock", "heap"})
    BY <1>2, <2>1 DEF KillFrames, Carries
  <2> QED
    BY <1>2, <2>1, <2>2 DEF Enters, KillFrames, Carries, UnderLock
<1> QED
  BY <1>1, <1>2, HereIs

LEMMA ExitSites ==
    ASSUME TypeOK, Shape, Next
    PROVE  \/ Sites(ExitFrames)' \subseteq Sites(ExitFrames)
           \/ UnlistCurrent /\ tasks' = Without(tasks, current)
<1> DEFINE P == ExitFrames
<1>1. \A s \in Sites(P)' : s \in Sites(P) \/ (s = Here /\ Onward /\ Top' \in P)
  BY SitesNext DEF ExitFrames, Passive
<1>2. ASSUME Onward, Top' \in P, Top \notin P PROVE UnlistCurrent /\ tasks' = Without(tasks, current)
  <2>1. Top'.op = "exit" /\ Top'.at \in {"heap_lock", "heap"} /\ Top \in Frame /\ Enters
    BY <1>2, EntersIs, TopTypes DEF ExitFrames, Inward
  <2>2. ~(Carries /\ Top.at \in {"heap_lock", "heap"})
    BY <1>2, <2>1 DEF ExitFrames, Carries
  <2> QED
    BY <1>2, <2>1, <2>2 DEF Enters, ExitFrames, Carries, UnderLock
<1> QED
  BY <1>1, <1>2, HereIs

(* Whoever is at work on the list is alone in the lock's section. *)
LEMMA QuietSites ==
    ASSUME TypeOK, LockInv, Top.at \in {"select", "link", "unlist"},
           NEW P, \A f \in P : Holding(f) /\ f.at \notin {"select", "link", "unlist"}
    PROVE  Sites(P) = {}
<1>1. \A t \in Tasks : NoneHolds(under[t]) /\ (t # cpu => ~Holding(frame[t]))
  BY Quiet, PlaceFacts
<1>2. ASSUME NEW s \in Sites(P) PROVE FALSE
  <2> DEFINE t == s[1]
             k == s[2]
  <2>1. t \in Tasks /\ k \in Spots(t) /\ FrameAt(t, k) \in P
    BY SiteIs
  <2>2. Depth(t) = Len(under[t]) + 1 /\ Len(under[t]) \in Nat /\ k \in Nat \ {0} /\ k <= Depth(t)
    BY <2>1, Stacks DEF Depth, Spots
  <2>3. CASE k = Depth(t)
    BY <1>1, <2>1, <2>3 DEF FrameAt, Top
  <2>4. CASE k # Depth(t)
    <3>1. Depth(t) - k \in 1..Len(under[t])
      BY <2>2, <2>4
    <3> QED
      BY <1>1, <2>1, <2>4, <3>1 DEF FrameAt, NoneHolds
  <2> QED
    BY <2>3, <2>4
<1> QED
  BY <1>2

LEMMA KillsHold ==
    /\ \A t : \A f \in KillFrames(t) : Holding(f) /\ f.at \notin {"select", "link", "unlist"}
    /\ \A f \in ExitFrames : Holding(f) /\ f.at \notin {"select", "link", "unlist"}
  BY DEF KillFrames, ExitFrames, Holding

(* Steps that leave the list, its tasks and the current one alone. *)
LEMMA BirthKept ==
    ASSUME TypeOK, Shape, BirthInv, Next, UNCHANGED <<tasks, created, freed, current>>
    PROVE  BirthInv'
<1>1. ListSound' /\ ListCreated'
  BY DEF BirthInv, ListSound, ListCreated
<1>2. \A t \in Tasks : Sites(NewFrames(t))' \subseteq Sites(NewFrames(t))
  BY NewSites
<1>3. ~UnlistOther \/ \A t \in Tasks : t \in Range(tasks) => tasks' # Without(tasks, t)
  <2>1. IsInjective(tasks) /\ tasks \in Seq(Tasks)
    BY DEF BirthInv, ListSound, TypeOK
  <2> QED
    BY <2>1, WithoutIs
<1>4. \A t \in Tasks : Sites(KillFrames(t))' \subseteq Sites(KillFrames(t))
  BY <1>3, KillSites
<1>5. KillsListed'
  BY <1>2, <1>4 DEF BirthInv, KillsListed
<1>6. CondemnedCreated'
  BY CondemnedSites DEF BirthInv, CondemnedCreated, ListCreated
<1>7. ExitListed'
  <2>1. CASE Sites(ExitFrames)' \subseteq Sites(ExitFrames)
    BY <2>1 DEF BirthInv, ExitListed
  <2>2. CASE tasks' = Without(tasks, current)
    <3>1. tasks \in Seq(Tasks) /\ IsInjective(tasks) /\ current' = current
      BY DEF TypeOK, BirthInv, ListSound
    <3>2. current \notin Range(Without(tasks, current))
      BY <3>1, WithoutIs
    <3>3. current \notin Range(tasks)
      <4>1. Without(tasks, current) = tasks
        BY <2>2, Zenon
      <4> QED
        BY <3>2, <4>1
    <3> QED
      BY <3>3 DEF ExitListed
  <2> QED
    BY <2>1, <2>2, ExitSites
<1> QED
  BY <1>1, <1>2, <1>5, <1>6, <1>7 DEF BirthInv, OneBirth, Unborn

(* Steps that do not start a call do not start a birth either. *)
LEMMA BirthsFewer ==
    ASSUME TypeOK, Shape, Next, ~NewTask
    PROVE  \A t \in Tasks : Sites(NewFrames(t))' \subseteq Sites(NewFrames(t))
  BY NewSites

(* Two steps cannot be the same. *)
LEMMA PlacesDiffer ==
    ASSUME TypeOK
    PROVE  /\ NewTask => ~UnlistOther /\ ~UnlistCurrent
           /\ LinkTask \/ SelectNext \/ HeapDone => ~NewTask /\ ~UnlistOther /\ ~UnlistCurrent
           /\ UnlistOther => ~NewTask /\ ~UnlistCurrent
           /\ UnlistCurrent => ~NewTask /\ ~UnlistOther
<1>1. NewTask => Top.at = "run"
  BY DEF NewTask, InCall, Is
<1>2. /\ LinkTask => Top.at = "link"
      /\ SelectNext => Top.at = "select"
      /\ HeapDone => Top.at = "heap"
      /\ UnlistOther => Top.at = "unlist"
      /\ UnlistCurrent => Top.at = "unlist"
  BY DEF LinkTask, SelectNext, HeapDone, UnlistOther, UnlistCurrent, Is
<1>3. UnlistOther => ~UnlistCurrent
  BY DEF UnlistOther, UnlistCurrent
<1> QED
  BY <1>1, <1>2, <1>3

LEMMA NewBirth ==
    ASSUME TypeOK, Shape, BirthInv, Next, NewTask
    PROVE  BirthInv'
<1>1. PICK n \in Tasks \ created : created' = created \cup {n}
  BY CallSteps
<1>2. UNCHANGED <<tasks, freed, current>>
  BY DEF NewTask
<1>3. ListSound' /\ ListCreated'
  BY <1>1, <1>2 DEF BirthInv, ListSound, ListCreated
<1>4. /\ \A t \in Tasks : t # n => Sites(NewFrames(t))' \subseteq Sites(NewFrames(t))
      /\ Sites(NewFrames(n)) = {}
      /\ Sites(NewFrames(n))' \subseteq {Here}
  BY <1>1, NewSites DEF BirthInv, Unborn
<1>5. OneBirth'
  BY <1>4 DEF BirthInv, OneBirth
<1>6. Unborn'
  BY <1>1, <1>2, <1>4 DEF BirthInv, Unborn, ListCreated
<1>7. \A t \in Tasks : Sites(KillFrames(t))' \subseteq Sites(KillFrames(t))
  BY KillSites, PlacesDiffer
<1>8. Sites(KillFrames(n))' = {}
  <2>1. Sites(Condemned(n)) = {}
    BY <1>1 DEF BirthInv, CondemnedCreated
  <2>2. KillFrames(n) \subseteq Condemned(n)
    BY DEF KillFrames, Condemned
  <2> QED
    BY <1>7, <2>1, <2>2 DEF Sites
<1>9. KillsListed'
  BY <1>2, <1>4, <1>7, <1>8 DEF BirthInv, KillsListed
<1>10. CondemnedCreated'
  BY <1>1, CondemnedSites DEF BirthInv, CondemnedCreated, ListCreated
<1>11. ExitListed'
  BY <1>2, ExitSites, PlacesDiffer DEF BirthInv, ExitListed
<1> QED
  BY <1>3, <1>5, <1>6, <1>9, <1>10, <1>11 DEF BirthInv

LEMMA LinkBirth ==
    ASSUME TypeOK, Shape, LockInv, BirthInv, Next, LinkTask
    PROVE  BirthInv'
<1>0. PICK n \in Tasks : n = Top.arg
  BY TopShape DEF LinkTask, Is, Wellformed
<1>1. /\ Top.at = "link" /\ Top.op = "new" /\ n = Top.arg /\ Passes("leave")
      /\ tasks' = Append(tasks, n) /\ UNCHANGED <<created, freed, current>>
  BY <1>0, TopShape, ListSteps DEF LinkTask, Wellformed
<1>2. Top \in NewFrames(n)
  BY <1>1, TopTypes DEF NewFrames
<1>3. Here \in Sites(NewFrames(n))
  BY <1>2, HereIs
<1>4. n \in created /\ n \notin Range(tasks) /\ n \notin freed /\ n # Idle /\ n # current
  BY <1>1, <1>3 DEF BirthInv, Unborn
<1>5. Range(tasks') = Range(tasks) \cup {n} /\ IsInjective(tasks')
  BY <1>1, <1>4, AppendIs DEF TypeOK, BirthInv, ListSound
<1>6. ListSound' /\ ListCreated'
  BY <1>1, <1>4, <1>5 DEF BirthInv, ListSound, ListCreated
<1>7. \A t \in Tasks : Sites(NewFrames(t))' \subseteq Sites(NewFrames(t))
  BY BirthsFewer, PlacesDiffer
<1>8. Sites(NewFrames(n))' = {}
  <2>1. Top' \notin NewFrames(n)
    BY <1>1 DEF Passes, NewFrames
  <2>2. Sites(NewFrames(n))' = Sites(NewFrames(n)) \ {Here}
    BY <1>1, <2>1, SitesLost DEF Passes, Onward
  <2> QED
    BY <1>1, <1>3, <2>2 DEF BirthInv, OneBirth
<1>9. OneBirth' /\ Unborn'
  <2>1. OneBirth'
    BY <1>7 DEF BirthInv, OneBirth
  <2>2. ASSUME NEW t \in Tasks, Sites(NewFrames(t))' # {}
        PROVE  t \in created' \ (Range(tasks') \cup freed' \cup {current', Idle})
    <3>1. t # n /\ Sites(NewFrames(t)) # {}
      BY <1>7, <1>8, <2>2
    <3>2. t \in created \ (Range(tasks) \cup freed \cup {current, Idle})
      BY <3>1 DEF BirthInv, Unborn
    <3> QED
      BY <1>1, <1>5, <3>1, <3>2
  <2> QED
    BY <2>1, <2>2 DEF Unborn
<1>10. /\ \A t \in Tasks : Sites(KillFrames(t))' = {}
       /\ Sites(ExitFrames)' = {}
  <2>1. Sites(ExitFrames) = {} /\ \A t \in Tasks : Sites(KillFrames(t)) = {}
    BY <1>1, QuietSites, KillsHold
  <2> QED
    BY <2>1, KillSites, ExitSites, PlacesDiffer
<1>11. CondemnedCreated'
  BY <1>1, CondemnedSites DEF BirthInv, CondemnedCreated, ListCreated
<1> QED
  BY <1>6, <1>9, <1>10, <1>11 DEF BirthInv, KillsListed, ExitListed

LEMMA UnlistBirth ==
    ASSUME TypeOK, Shape, LockInv, BirthInv, Next, UnlistCurrent \/ UnlistOther
    PROVE  BirthInv'
<1>1. PICK v : tasks' = tasks \/ tasks' = Without(tasks, v)
  BY ListSteps
<1>2. UNCHANGED <<created, freed, current>> /\ Top.at = "unlist"
  BY ListSteps DEF UnlistCurrent, UnlistOther
<1>3. tasks \in Seq(Tasks) /\ IsInjective(tasks)
  BY DEF TypeOK, BirthInv, ListSound
<1>4. Range(tasks') \subseteq Range(tasks) /\ IsInjective(tasks')
  BY <1>1, <1>3, WithoutIs
<1>5. ListSound' /\ ListCreated'
  BY <1>2, <1>4 DEF BirthInv, ListSound, ListCreated
<1>6. \A t \in Tasks : Sites(NewFrames(t))' \subseteq Sites(NewFrames(t))
  BY BirthsFewer, PlacesDiffer
<1>7. OneBirth' /\ Unborn'
  BY <1>2, <1>4, <1>6 DEF BirthInv, OneBirth, Unborn
<1>8. Sites(ExitFrames) = {} /\ \A t \in Tasks : Sites(KillFrames(t)) = {}
  BY <1>2, QuietSites, KillsHold
<1>9. KillsListed'
  <2> SUFFICES ASSUME NEW t \in Tasks, Sites(KillFrames(t))' # {}
               PROVE  t \notin Range(tasks') /\ Sites(NewFrames(t))' = {}
    BY DEF KillsListed
  <2>1. t \in Range(tasks) /\ tasks' = Without(tasks, t)
    BY <1>8, KillSites
  <2>2. t \notin Range(tasks')
    BY <1>3, <2>1, WithoutIs
  <2> QED
    BY <1>6, <2>1, <2>2 DEF BirthInv, Unborn
<1>10. ExitListed'
  <2> SUFFICES ASSUME Sites(ExitFrames)' # {} PROVE current' \notin Range(tasks')
    BY DEF ExitListed
  <2>1. tasks' = Without(tasks, current)
    BY <1>8, ExitSites
  <2> QED
    BY <1>2, <1>3, <2>1, WithoutIs
<1>11. CondemnedCreated'
  BY <1>2, CondemnedSites DEF BirthInv, CondemnedCreated, ListCreated
<1> QED
  BY <1>5, <1>7, <1>9, <1>10, <1>11 DEF BirthInv

LEMMA SelectBirth ==
    ASSUME TypeOK, Shape, LockInv, BirthInv, Next, SelectNext
    PROVE  BirthInv'
<1>1. Top.at = "select" /\ tasks' = Ring /\ UNCHANGED <<created, freed>>
  BY ListSteps DEF SelectNext
<1>2. Range(tasks') = Range(tasks) /\ IsInjective(tasks')
  BY <1>1, RotatedIs DEF Ring, TypeOK, BirthInv, ListSound
<1>3. current' \in Range(tasks) \cup {current, Idle}
  <2>1. \A i \in ReadyAt : Ring[i] \in Range(Ring)
    BY DEF ReadyAt, Range
  <2> QED
    BY <1>1, <1>2, <2>1, ListSteps
<1>4. ListSound' /\ ListCreated'
  BY <1>1, <1>2, <1>3 DEF BirthInv, ListSound, ListCreated
<1>5. \A t \in Tasks : Sites(NewFrames(t))' \subseteq Sites(NewFrames(t))
  BY BirthsFewer, PlacesDiffer
<1>6. OneBirth' /\ Unborn'
  BY <1>1, <1>2, <1>3, <1>5 DEF BirthInv, OneBirth, Unborn
<1>7. /\ \A t \in Tasks : Sites(KillFrames(t))' = {}
      /\ Sites(ExitFrames)' = {}
  <2>1. Sites(ExitFrames) = {} /\ \A t \in Tasks : Sites(KillFrames(t)) = {}
    BY <1>1, QuietSites, KillsHold
  <2> QED
    BY <2>1, KillSites, ExitSites, PlacesDiffer
<1>8. CondemnedCreated'
  BY <1>1, CondemnedSites DEF BirthInv, CondemnedCreated, ListCreated
<1> QED
  BY <1>4, <1>6, <1>7, <1>8 DEF BirthInv, KillsListed, ExitListed

LEMMA HeapBirth ==
    ASSUME TypeOK, Shape, BirthInv, Next, HeapDone
    PROVE  BirthInv'
<1>1. UNCHANGED <<tasks, created, current>> /\ Top.at = "heap"
  BY HeapSteps DEF HeapDone
<1>2. \A t \in Tasks : Sites(NewFrames(t))' \subseteq Sites(NewFrames(t))
  BY BirthsFewer, PlacesDiffer
<1>3. /\ \A t \in Tasks : Sites(KillFrames(t))' \subseteq Sites(KillFrames(t))
      /\ Sites(ExitFrames)' \subseteq Sites(ExitFrames)
  BY KillSites, ExitSites, PlacesDiffer
<1>4. CASE freed' = freed
  BY <1>1, <1>4, BirthKept
<1>5. ASSUME NEW t \in Tasks, freed' = freed \cup {t}, t \in created, t \notin Range(tasks),
             Sites(NewFrames(t)) = {}
      PROVE  BirthInv'
  <2>1. ListSound' /\ ListCreated'
    BY <1>1, <1>5 DEF BirthInv, ListSound, ListCreated
  <2>2. OneBirth' /\ Unborn'
    BY <1>1, <1>2, <1>5 DEF BirthInv, OneBirth, Unborn
  <2>3. KillsListed' /\ ExitListed'
    BY <1>1, <1>2, <1>3 DEF BirthInv, KillsListed, ExitListed
  <2>4. CondemnedCreated'
    BY <1>1, CondemnedSites DEF BirthInv, CondemnedCreated, ListCreated
  <2> QED
    BY <2>1, <2>2, <2>3, <2>4 DEF BirthInv
<1>6. CASE Top.op = "kill" /\ Top.arg \in Tasks /\ freed' = freed \cup {Top.arg}
  <2>1. Top \in KillFrames(Top.arg) /\ Top \in Condemned(Top.arg)
    BY <1>1, <1>6, TopTypes DEF KillFrames, Condemned
  <2>2. Sites(KillFrames(Top.arg)) # {} /\ Sites(Condemned(Top.arg)) # {}
    BY <2>1, HereIs
  <2> QED
    BY <1>5, <1>6, <2>2 DEF BirthInv, KillsListed, CondemnedCreated
<1>7. CASE Top.op = "exit" /\ freed' = freed \cup {current}
  <2>1. Top \in ExitFrames
    BY <1>1, <1>7, TopTypes DEF ExitFrames
  <2>2. Sites(ExitFrames) # {}
    BY <2>1, HereIs
  <2>3. current \in Tasks /\ current \in created /\ current \notin Range(tasks)
    BY <2>2 DEF BirthInv, ExitListed, ListCreated, TypeOK
  <2>4. Sites(NewFrames(current)) = {}
    BY <2>3 DEF BirthInv, Unborn
  <2> QED
    BY <1>5, <1>7, <2>3, <2>4
<1> QED
  BY <1>4, <1>6, <1>7, HeapSteps DEF Makes

LEMMA NextBirth ==
    ASSUME TypeOK, Shape, LockInv, BirthInv, [Next]_vars
    PROVE  BirthInv'
<1> USE DEF taskVars
<1>1. CASE NewTask
  BY <1>1, NewBirth DEF Next, TaskCall
<1>2. CASE LinkTask
  BY <1>2, LinkBirth DEF Next, KernelStep
<1>3. CASE UnlistCurrent \/ UnlistOther
  BY <1>3, UnlistBirth DEF Next, KernelStep
<1>4. CASE SelectNext
  BY <1>4, SelectBirth DEF Next, KernelStep
<1>5. CASE HeapDone
  BY <1>5, HeapBirth DEF Next, KernelStep
<1>6. CASE TaskCall /\ ~NewTask
  <2>1. KillKernel => UNCHANGED <<tasks, created, freed, current>>
    BY Zenon DEF KillKernel, taskVars
  <2>2. UNCHANGED <<tasks, created, freed, current>>
    BY <1>6, <2>1 DEF TaskCall, Sleep, Yield, Dump, KillMe, KillTask, KillOwnId, UseHeap,
                      FaultKill, FaultPanic, Call
  <2> QED
    BY <1>6, <2>2, BirthKept DEF Next
<1>7. CASE /\ KernelStep
           /\ ~LinkTask /\ ~UnlistCurrent /\ ~UnlistOther /\ ~SelectNext /\ ~HeapDone
  <2>1. UNCHANGED <<tasks, created, freed, current>>
    BY <1>7 DEF KernelStep, Tick, UndoCount, ExitInterrupt, Iret, PopInts, LockSched, LockHeap,
                ReleaseToSwitch, LoadEsp, SwapStacks, Resume, Leave, PushInts
  <2> QED
    BY <1>7, <2>1, BirthKept DEF Next
<1>8. CASE TimerInterrupt
  BY <1>8, BirthKept DEF Next, TimerInterrupt
<1>9. CASE UNCHANGED vars
  <2>1. Still /\ UNCHANGED <<tasks, created, freed, current>>
    BY <1>9 DEF vars, Still
  <2> QED
    BY <2>1, SitesStill DEF BirthInv, ListSound, ListCreated, OneBirth, Unborn, KillsListed,
                            CondemnedCreated, ExitListed
<1> QED
  BY <1>1, <1>2, <1>3, <1>4, <1>5, <1>6, <1>7, <1>8, <1>9 DEF Next

ListInv == IInv /\ BirthInv

LEMMA ListInductive == Spec => []ListInv
<1>1. Init => ListInv
  BY InitType, InitShape, InitLock, InitBirth DEF ListInv, IInv
<1>2. ListInv /\ [Next]_vars => ListInv'
  BY NextType, NextShape, NextLock, NextBirth DEF ListInv, IInv
<1> QED
  BY <1>1, <1>2, PTL DEF Spec

(* The run list names each task once, never idle, and only tasks whose
   structure is still allocated, whoever creates and kills whom and wherever
   the ticks fall: also when the task in hand was killed by itself, the part
   of NoDangling that fails. *)
THEOREM RunListSound == Spec => []ListSound
<1>1. ListInv => ListSound
  BY DEF ListInv, BirthInv
<1> QED
  BY <1>1, ListInductive, PTL

(* A task that new_task is still making is in nobody's hands: it is not
   listed, not current and not freed, one call makes it, and no kill_task has
   found it. *)
THEOREM BirthsApart == Spec => [](OneBirth /\ Unborn /\ KillsListed)
<1>1. ListInv => OneBirth /\ Unborn /\ KillsListed
  BY DEF ListInv, BirthInv
<1> QED
  BY <1>1, ListInductive, PTL
-----------------------------------------------------------------------------
(* The pointers under the run list: what ListProofs shows of any list, with
   the tasks as its nodes and the scheduler's head as its root. *)

Links == INSTANCE ListProofs WITH Nodes <- Tasks, Root <- "tasks"

(* RunList and ListProofs instantiate the same operations. *)
LEMMA SameBuilt == ASSUME NEW list PROVE Run!Built(list) = Links!Built(list)
  BY DEF Links!Built, Run!Built, Links!Listed, Run!Listed, Links!push, Run!push,
         Links!push_back, Run!push_back, Links!init_head, Run!init_head, Links!Raw, Run!Raw,
         Links!Ends, Run!Ends, Links!SetNext, Run!SetNext, Links!SetPrev, Run!SetPrev

LEMMA SameRotate == ASSUME NEW R PROVE Run!rotate(R) = Links!rotate(R)
  BY DEF Links!rotate, Run!rotate, Links!empty, Run!empty, Links!singular, Run!singular,
         Links!turn, Run!turn, Links!SetNext, Run!SetNext, Links!SetPrev, Run!SetPrev

LEMMA SameWalk == ASSUME NEW R, NEW t, NEW n PROVE Run!Walk(R, t, n) = Links!Walk(R, t, n)
  BY DEF Links!Walk, Run!Walk, Links!del, Run!del, Links!SetNext, Run!SetNext,
         Links!SetPrev, Run!SetPrev

LEMMA SameRepresents ==
    ASSUME NEW R, NEW list, Links!Represents(R, list) PROVE Run!Represents(R, list)
  BY Zenon DEF Links!Represents, Run!Represents

(* What RunListLinked says of a list. *)
BuiltRight(list) == Run!Represents(Run!Built(list), list)
TurnedRight(list) == Run!Represents(Run!rotate(Run!Built(list)), Rotated(list))
KilledRight(list, t) ==
    LET n    == Len(list)
        walk == Run!Walk(Run!Built(list), t, n)
    IN  /\ \A k \in 1..n : walk[k - 1].it = list[k]
        /\ walk[n].it = "tasks"
        /\ Run!Represents(walk[n].ring, Without(list, t))

LEMMA InjectiveApart ==
    ASSUME NEW list \in Seq(Tasks), IsInjective(list)
    PROVE  Links!Apart(list)
<1>1. \A i, j \in 1..Len(list) : list[i] = list[j] => i = j
  BY ListIs
<1> QED
  BY <1>1 DEF Links!Apart

LEMMA ListBuilt ==
    ASSUME NEW list \in Seq(Tasks), IsInjective(list)
    PROVE  BuiltRight(list)
<1>1. Links!Represents(Links!Built(list), list)
  BY HeadAssumption, InjectiveApart, Links!BuiltRepresents
<1>2. Run!Built(list) = Links!Built(list)
  BY SameBuilt
<1> DEFINE R == Links!Built(list)
<1> HIDE DEF R
<1>3. Run!Represents(R, list)
  BY <1>1, SameRepresents DEF R
<1> QED
  BY <1>2, <1>3, Zenon DEF BuiltRight, R

LEMMA ListTurned ==
    ASSUME NEW list \in Seq(Tasks), IsInjective(list)
    PROVE  TurnedRight(list)
<1> DEFINE r == Rotated(list)
<1>1. r \in Seq(Tasks) /\ IF Len(list) < 2 THEN r = list ELSE Links!Moved(r, list)
  <2>1. CASE Len(list) < 2
    BY <2>1 DEF Rotated
  <2>2. CASE ~(Len(list) < 2)
    <3> DEFINE n == Len(list)
    <3>1. n \in Nat /\ r \in Seq(Tasks) /\ Len(r) = n
      BY <2>2, RotatedAt
    <3>2. (\A i \in 1..(n - 1) : r[i] = list[i + 1]) /\ r[n] = list[1]
      BY <2>2, RotatedAt
    <3> HIDE DEF r
    <3>3. \A k \in 1..n : r[k] = IF k = n THEN list[1] ELSE list[k + 1]
      BY <3>1, <3>2
    <3> QED
      BY <2>2, <3>1, <3>3 DEF Links!Moved
  <2> QED
    BY <2>1, <2>2
<1> DEFINE R == Links!Built(list)
<1> HIDE DEF r
<1>2. Links!Represents(Links!rotate(Links!Built(list)), r)
  BY <1>1, HeadAssumption, InjectiveApart, Links!RotatedRepresents
<1> HIDE DEF R
<1>3. Run!rotate(R) = Links!rotate(R) /\ Run!Built(list) = R
  BY SameRotate, SameBuilt DEF R
<1> DEFINE Q == Links!rotate(R)
<1> HIDE DEF Q
<1>4. Run!Represents(Q, r)
  BY <1>2, SameRepresents DEF Q, R
<1> QED
  BY <1>3, <1>4, Zenon DEF TurnedRight, Q, r

LEMMA ListKilled ==
    ASSUME NEW list \in Seq(Tasks), IsInjective(list), NEW t \in Range(list)
    PROVE  KilledRight(list, t)
<1> DEFINE n == Len(list)
           w == Without(list, t)
<1>1. PICK p \in 1..n :
         /\ list[p] = t /\ w \in Seq(Tasks) /\ Len(w) = n - 1
         /\ \A i \in 1..(n - 1) : w[i] = IF i < p THEN list[i] ELSE list[i + 1]
  BY WithoutAt
<1> HIDE DEF w
<1>2. Links!Dropped(w, list, p)
  BY <1>1 DEF Links!Dropped
<1> DEFINE walk == Links!Walk(Links!Built(list), list[p], n)
<1>3. /\ \A k \in 1..n : walk[k - 1].it = list[k]
      /\ walk[n].it = "tasks"
      /\ Links!Represents(walk[n].ring, w)
  BY <1>1, <1>2, HeadAssumption, InjectiveApart, Links!WalkUnlinks
<1> DEFINE R == Links!Built(list)
<1> HIDE DEF R
<1>4. Run!Walk(R, t, n) = Links!Walk(R, t, n) /\ Run!Built(list) = R
  BY SameWalk, SameBuilt DEF R
<1>5. walk = Run!Walk(Run!Built(list), t, n)
  BY <1>1, <1>4 DEF R
<1> HIDE DEF walk
<1>6. Run!Represents(walk[n].ring, w)
  BY <1>3, SameRepresents
<1> QED
  BY <1>3, <1>5, <1>6, Zenon DEF KilledRight, w

(* The pointers of list.cpp are the run list, whoever is created, killed or
   put at the end and wherever the ticks fall: the pushes and select_next's
   rotation link the tasks both ways round, and kill_task's walk, which frees
   a node and then reads its next, comes by every task once, ends at the head
   and leaves the list without that task, whichever it is. *)
THEOREM RunListIsLinked == Spec => []RunListLinked
<1>1. ListInv => RunListLinked
  <2> SUFFICES ASSUME ListInv PROVE RunListLinked
    OBVIOUS
  <2>1. tasks \in Seq(Tasks) /\ IsInjective(tasks) /\ DOMAIN tasks = 1..Len(tasks)
    BY ListIs DEF ListInv, IInv, TypeOK, BirthInv, ListSound
  <2>2. BuiltRight(tasks) /\ TurnedRight(tasks)
    BY <2>1, ListBuilt, ListTurned
  <2>3. \A t \in Range(tasks) : KilledRight(tasks, t)
    BY <2>1, ListKilled
  <2> QED
    BY <2>1, <2>2, <2>3, Zenon DEF RunListLinked, BuiltRight, TurnedRight, KilledRight
<1> QED
  BY <1>1, ListInductive, PTL
=============================================================================
