----------------------------- MODULE Scheduler ------------------------------
(***************************************************************************)
(* The round-robin scheduler of scheduler.cpp on one processor, with the    *)
(* timer interrupt that preempts it and the counting of push_ints/pop_ints  *)
(* that is meant to keep the two apart.                                     *)
(*                                                                          *)
(* Every task has a stack of frames.  frame[t] is the top one and under[t]  *)
(* the suspended ones below it, innermost first: an interrupt pushes a      *)
(* frame on the stack in use, iret pops it.  A frame's "at" is the place in *)
(* the kernel's code it has reached; one action takes it from one place to  *)
(* the next, and between two actions an interrupt may come if eflags_if.    *)
(* "cpu" is the task whose stack the esp register points into, which is not *)
(* always "current": perform_context_switch sets current first.             *)
(***************************************************************************)
EXTENDS Interrupts, Spinlock, Sequences, FiniteSetsExt

CONSTANTS
    Tasks,          \* every task that may ever exist
    Kernel,         \* the task made from the boot stack, id 0
    Idle,           \* the task that runs busy_loop, never in the run list
    NoTask,         \* NULL
    Nowhere,        \* a saved esp that no longer marks the top of a stack
    Started,        \* the run list of the initial states, Kernel among it
    Calls,          \* Calls[t]: the kernel entries task t may make
    Requests,       \* arguments of sleep(), in ms
    Faults,         \* the exceptions a task may raise, by vector
    TimeSlice,      \* TIME_SLICE, in ticks
    MsInterval,     \* MS_INTERVAL, ms per tick
    StaleFlags,     \* what a new stack's unwritten flags word may hold in IF
    SinceCap,       \* bound of the model: ticks counted since a switch
    MaxDepth        \* bound of the model: interrupt frames on one stack

Ops == {"none", "yield", "idle", "new", "kill", "exit", "dump", "heap"}

Places == {"run", "tick", "pop", "lock", "select", "link", "unlist",
           "heap_lock", "heap", "unlock", "load", "swap", "resume",
           "leave", "push", "undo", "exit", "iret"}

SleepTicks(ms) == LET ticks == ms \div MsInterval
                  IN  IF ticks > TimeSlice THEN ticks ELSE TimeSlice

ASSUME TasksAssumption ==
    /\ {Kernel, Idle} \subseteq Tasks /\ Kernel # Idle
    /\ NoTask \notin Tasks /\ Nowhere \notin Tasks
ASSUME StartedAssumption ==
    /\ Started \in Seq(Tasks \ {Idle}) /\ IsInjective(Started)
    /\ \E i \in DOMAIN Started : Started[i] = Kernel
ASSUME TimeAssumption ==
    /\ {TimeSlice, MsInterval, SinceCap, MaxDepth} \subseteq Nat \ {0}
    /\ Requests \subseteq Nat
    /\ \A ms \in Requests : SleepTicks(ms) \in 1..SinceCap
(* Idle runs busy_loop, which calls nothing (asm_misc.s:111). *)
ASSUME IdleAssumption == Calls[Idle] = {}
ASSUME ChoiceAssumption ==
    /\ StaleFlags \subseteq BOOLEAN
    /\ Faults \subseteq 0..31

VARIABLES
    mode,           \* "run", "panic" (cli; while (1)) or "wild" (bad esp)
    cpu,            \* whose stack esp is in
    lock,           \* sched.lock
    kheap_lock,     \* mem.kheap.lock
    current,        \* sched.current
    tasks,          \* sched.tasks, head first
    created,        \* tasks that exist or that new_task was called for
    freed,          \* tasks whose structure was given back to the heap
    frame, under,   \* the stacks
    esp,            \* esp[t]: whose stack top the saved t->esp marks
    sleep,          \* t->sleep
    since,          \* timer.ticks - t->last_switched, up to SinceCap
    phase,          \* timer.ticks % TIME_SLICE
    due             \* history: ticks that must pass before t may wake

taskVars == <<tasks, created, freed>>
timeVars == <<sleep, since, phase, due>>
lockVars == <<lock, kheap_lock>>
vars == <<gateVars, lockVars, taskVars, timeVars,
          mode, cpu, current, frame, under, esp>>
-----------------------------------------------------------------------------
(* Frames *)

Frame == [irq : BOOLEAN, op : Ops, at : Places, old : Tasks \cup {NoTask},
          arg : Tasks \cup {NoTask}, esp : Tasks \cup {Nowhere}, fl : BOOLEAN]

At(place) == [irq |-> FALSE, op |-> "none", at |-> place, old |-> NoTask,
              arg |-> NoTask, esp |-> Nowhere, fl |-> TRUE]

(* What task::init leaves on a new stack: its memset clears bytes below the
   frame that the first popad and popf read, so IF is whatever was there. *)
FreshFrame(flag) == [At("resume") EXCEPT !.fl = flag]

Top == frame[cpu]
Is(place) == mode = "run" /\ Top.at = place
SetTop(f) == frame' = [frame EXCEPT ![cpu] = f]

(* The top frame goes on to another place of the code it is in... *)
Moved(place) == [Top EXCEPT !.at = place]
Goto(place)  == SetTop(Moved(place))

(* ...or calls into the kernel. *)
Entry(place, op, arg) == [At(place) EXCEPT !.op = op, !.arg = arg]
Enter(place, op, arg) == SetTop(Entry(place, op, arg))

(* Mutant of BackFrom: a handler that yield returns to leaves its count. *)
BackToExit(f) == IF f.irq THEN [At("exit") EXCEPT !.irq = TRUE] ELSE At("run")

(* Back from yield, new_task, kill_task or dump to the code that called it. *)
BackFrom(f) == IF f.irq THEN [At("undo") EXCEPT !.irq = TRUE] ELSE At("run")

InCall(call) == Is("run") /\ call \in Calls[cpu]

(* Mutants of Rotated: the list is not turned; the first node is dropped. *)
NotRotated(list) == list
RotatedLosingHead(list) == IF Len(list) < 2 THEN list ELSE Tail(list)

(* rotate(): the first element becomes the last. *)
Rotated(list) == IF Len(list) < 2 THEN list ELSE Tail(list) \o <<Head(list)>>

(* Mutant of Without: the node after t's is unlinked. *)
WithoutNext(list, t) ==
    IF t \notin Range(list) THEN list
    ELSE LET i == CHOOSE j \in DOMAIN list : list[j] = t
         IN  SubSeq(list, 1, i) \o SubSeq(list, i + 2, Len(list))

(* del() of t's node, if it is in the list. *)
Without(list, t) ==
    IF t \notin Range(list) THEN list
    ELSE LET i == CHOOSE j \in DOMAIN list : list[j] = t
         IN  SubSeq(list, 1, i - 1) \o SubSeq(list, i + 1, Len(list))

Cap(n) == IF n > SinceCap THEN SinceCap ELSE n

(* Mutant of Ready: a task is woken a tick early. *)
ReadyEarly(t, slept) == sleep[t] <= slept[t] + 1

Ready(t, slept) == sleep[t] <= slept[t]

Init ==
    /\ mode = "run" /\ cpu = Kernel /\ current = Kernel
    /\ eflags_if = TRUE /\ interrupts_semaphore = 1
    /\ lock = Unlocked /\ kheap_lock = Unlocked
    /\ tasks = Started
    /\ created = {Kernel, Idle} \cup Range(Started)
    /\ freed = {}
    /\ frame \in [Tasks -> {At("run")} \cup {FreshFrame(flag) : flag \in StaleFlags}]
    /\ \A t \in Tasks : frame[t] = At("run") <=> t \notin created \ {Kernel}
    /\ under = [t \in Tasks |-> << >>]
    /\ esp = [t \in Tasks |-> IF t \in created \ {Kernel} THEN t ELSE Nowhere]
    /\ sleep = [t \in Tasks |-> 0] /\ due = [t \in Tasks |-> 0]
    /\ since = [t \in Tasks |-> 0] /\ phase = 0
-----------------------------------------------------------------------------
(* What a task calls.  Each call starts at "pop", its pop_ints.  *)

(* sleep(ms): the request is added before yield has closed the gate. *)
Sleep ==
    /\ InCall("sleep")
    /\ \E ms \in Requests :
          /\ sleep' = [sleep EXCEPT ![current] = @ + SleepTicks(ms)]
          /\ due' = [due EXCEPT ![current] = SleepTicks(ms)]
    /\ Enter("pop", "yield", NoTask)
    /\ UNCHANGED <<gateVars, lockVars, taskVars, since, phase,
                   mode, cpu, current, under, esp>>

Call(call, op, args) ==
    /\ InCall(call)
    /\ \E t \in args : Enter("pop", op, t)
    /\ UNCHANGED <<gateVars, lockVars, taskVars, timeVars,
                   mode, cpu, current, under, esp>>

Yield   == Call("yield", "yield", {NoTask})
Dump    == Call("dump", "dump", {NoTask})

NewTask ==
    /\ InCall("new")
    /\ \E t \in Tasks \ created : /\ created' = created \cup {t}
                                  /\ Enter("pop", "new", t)
    /\ UNCHANGED <<gateVars, lockVars, tasks, freed, timeVars,
                   mode, cpu, current, under, esp>>

(* The function a task was started with returns into kill_me. *)
KillMe  == Call("exit", "exit", {NoTask})

(* kill_task refuses id 0 before anything else; an id that names no listed
   task, Idle's or one already killed, goes through to the end. *)
KillTask    == Call("kill", "kill", created \ {Kernel, current})
KillOwnId   == current # Kernel /\ Call("exit", "kill", {current})
KillKernel  ==
    /\ InCall("kill kernel")
    /\ mode' = "panic" /\ eflags_if' = FALSE
    /\ UNCHANGED <<interrupts_semaphore, lockVars, taskVars, timeVars,
                   cpu, current, frame, under, esp>>

(* The shell's "mem alloc" and "mem free": the heap's lock, the gate open. *)
UseHeap ==
    /\ InCall("heap")
    /\ Enter("heap_lock", "heap", NoTask)
    /\ UNCHANGED <<gateVars, lockVars, taskVars, timeVars,
                   mode, cpu, current, under, esp>>

(* The handlers of the exceptions that do not return: kill_me for most,
   PANIC for nmi, double fault and the vectors nobody registered. *)
PanicVectors == {2, 8, 9, 15, 18} \cup 21..31
KillVectors  == {0, 4, 5, 6, 7, 13, 14, 16, 17, 19, 20}

(* The stub's pop_ints comes on top of the one in kill_current_task. *)
FaultKill ==
    /\ InCall("fault") /\ Faults \cap KillVectors # {}
    /\ pop_ints
    /\ Enter("pop", "exit", NoTask)
    /\ UNCHANGED <<lockVars, taskVars, timeVars, mode, cpu, current, under, esp>>

FaultPanic ==
    /\ InCall("fault") /\ Faults \cap PanicVectors # {}
    /\ mode' = "panic" /\ eflags_if' = FALSE
    /\ interrupts_semaphore' = interrupts_semaphore - 1
    /\ UNCHANGED <<lockVars, taskVars, timeVars, cpu, current, frame, under, esp>>
-----------------------------------------------------------------------------
(* The timer interrupt *)

(* An interrupt gate clears IF and the stub calls pop_ints at once, so the
   handler starts with the gate as pop_ints leaves it. *)
TimerInterrupt ==
    /\ mode = "run" /\ eflags_if /\ Len(under[cpu]) < MaxDepth
    /\ pop_ints
    /\ under' = [under EXCEPT ![cpu] = <<Top>> \o @]
    /\ SetTop([At("tick") EXCEPT !.irq = TRUE])
    /\ UNCHANGED <<lockVars, taskVars, timeVars, mode, cpu, current, esp>>

(* timer_handler: at the end of a slice it raises the count, for the
   push_ints that the stub will not reach if yield switches, and yields. *)
Tick ==
    /\ Is("tick")
    /\ phase' = (phase + 1) % TimeSlice
    /\ since' = [t \in Tasks |-> Cap(since[t] + 1)]
    /\ due' = [t \in Tasks |-> IF due[t] = 0 THEN 0 ELSE due[t] - 1]
    /\ IF phase' = 0
       THEN /\ interrupts_semaphore' = interrupts_semaphore + 1
            /\ SetTop([Top EXCEPT !.at = "pop", !.op = "yield"])
       ELSE /\ Goto("exit")
            /\ UNCHANGED interrupts_semaphore
    /\ UNCHANGED <<eflags_if, lockVars, taskVars, sleep,
                   mode, cpu, current, under, esp>>

(* Mutant of UndoCount: timer_handler does not lower what it raised. *)
UndoForgotten ==
    /\ Is("undo")
    /\ Goto("exit")
    /\ UNCHANGED <<gateVars, lockVars, taskVars, timeVars,
                   mode, cpu, current, under, esp>>

(* yield has returned to timer_handler. *)
UndoCount ==
    /\ Is("undo")
    /\ interrupts_semaphore' = interrupts_semaphore - 1
    /\ Goto("exit")
    /\ UNCHANGED <<eflags_if, lockVars, taskVars, timeVars,
                   mode, cpu, current, under, esp>>

ExitInterrupt ==
    /\ Is("exit")
    /\ push_ints
    /\ Goto("iret")
    /\ UNCHANGED <<lockVars, taskVars, timeVars, mode, cpu, current, under, esp>>

(* iret restores the flags of the code that was interrupted: IF was set. *)
Iret ==
    /\ Is("iret")
    /\ eflags_if' = TRUE
    /\ SetTop(Head(under[cpu]))
    /\ under' = [under EXCEPT ![cpu] = Tail(@)]
    /\ UNCHANGED <<interrupts_semaphore, lockVars, taskVars, timeVars,
                   mode, cpu, current, esp>>
-----------------------------------------------------------------------------
(* The way in: pop_ints, then the locks.  new_task takes the heap's lock
   first and the scheduler's after; kill_task the other way round. *)

(* Mutant of PopInts: new_task leaves the gate open. *)
PopIntsNotInNew ==
    /\ Is("pop")
    /\ IF Top.op = "new" THEN UNCHANGED gateVars ELSE pop_ints
    /\ Goto(IF Top.op = "new" THEN "heap_lock" ELSE "lock")
    /\ UNCHANGED <<lockVars, taskVars, timeVars, mode, cpu, current, under, esp>>

PopInts ==
    /\ Is("pop")
    /\ pop_ints
    /\ Goto(IF Top.op = "new" THEN "heap_lock" ELSE "lock")
    /\ UNCHANGED <<lockVars, taskVars, timeVars, mode, cpu, current, under, esp>>

UnderLock(op) == CASE op = "yield" -> "select"
                   [] op = "new"   -> "link"
                   [] op = "dump"  -> "leave"
                   [] OTHER        -> "unlist"

LockSched ==
    /\ Is("lock")
    /\ Lock(lock)
    /\ Goto(UnderLock(Top.op))
    /\ UNCHANGED <<gateVars, kheap_lock, taskVars, timeVars,
                   mode, cpu, current, under, esp>>

LockHeap ==
    /\ Is("heap_lock")
    /\ Lock(kheap_lock)
    /\ Goto("heap")
    /\ UNCHANGED <<gateVars, lock, taskVars, timeVars,
                   mode, cpu, current, under, esp>>

(* alloc or free, to the release at its end: the shell's, new_task's two
   (structure and stack, one critical section here) with task::init, or the
   free of a killed task, after which kill_current_task switches "from NULL". *)
HeapDone ==
    /\ Is("heap")
    /\ Release(kheap_lock)
    /\ \/ /\ Top.op = "heap"
          /\ SetTop(At("run"))
          /\ UNCHANGED <<freed, since, esp>>
       \/ /\ Top.op = "new"
          /\ esp' = [esp EXCEPT ![Top.arg] = Top.arg]
          /\ \E flag \in StaleFlags :
               frame' = [frame EXCEPT ![Top.arg] = FreshFrame(flag),
                                      ![cpu] = Moved("lock")]
          /\ UNCHANGED <<freed, since>>
       \/ /\ Top.op = "kill"
          /\ freed' = freed \cup {Top.arg}
          /\ Goto("leave")
          /\ UNCHANGED <<since, esp>>
       \/ /\ Top.op = "exit"
          /\ freed' = freed \cup {current}
          /\ since' = [since EXCEPT ![current] = 0]
          /\ SetTop([Top EXCEPT !.at = "unlock", !.arg = current])
          /\ UNCHANGED esp
    /\ UNCHANGED <<gateVars, lock, tasks, created, sleep, phase, due,
                   mode, cpu, current, under>>
-----------------------------------------------------------------------------
(* Under sched.lock *)

LinkTask ==
    /\ Is("link")
    /\ tasks' = Append(tasks, Top.arg)
    /\ Goto("leave")
    /\ UNCHANGED <<gateVars, lockVars, created, freed, timeVars,
                   mode, cpu, current, under, esp>>

(* kill_task of the current task, and kill_me: id 0 panics, here with the
   lock held; any other is unlinked and then freed. *)
UnlistCurrent ==
    /\ Is("unlist")
    /\ Top.op = "exit" \/ Top.arg = current
    /\ IF current = Kernel
       THEN /\ mode' = "panic" /\ eflags_if' = FALSE
            /\ UNCHANGED <<tasks, frame>>
       ELSE /\ tasks' = Without(tasks, current)
            /\ SetTop([Top EXCEPT !.at = "heap_lock", !.op = "exit"])
            /\ UNCHANGED <<mode, eflags_if>>
    /\ UNCHANGED <<interrupts_semaphore, lockVars, created, freed, timeVars,
                   cpu, current, under, esp>>

UnlistOther ==
    /\ Is("unlist")
    /\ Top.op = "kill" /\ Top.arg # current
    /\ tasks' = Without(tasks, Top.arg)
    /\ Goto(IF Top.arg \in Range(tasks) THEN "heap_lock" ELSE "leave")
    /\ UNCHANGED <<gateVars, lockVars, created, freed, timeVars,
                   mode, cpu, current, under, esp>>

(* select_next turns the list, then walks it to the first task that may run;
   the sleepers it passes are charged what they have slept.  yield has just
   set old->last_switched. *)
Ring    == Rotated(tasks)

(* Mutant of Slept: yield does not stamp the task it switches from. *)
SleptUnstamped == since

Slept   == [since EXCEPT ![current] = 0]
ReadyAt == {i \in DOMAIN Ring : Ready(Ring[i], Slept)}
Passed  == {Ring[i] : i \in {j \in DOMAIN Ring : \A k \in ReadyAt : j < k}}

(* Mutants of Charged: every task pays for its sleep; nobody does. *)
ChargedAll  == [t \in Tasks |-> sleep[t] - Slept[t]]
ChargedNone == sleep

Charged == [t \in Tasks |-> IF t \in Passed THEN sleep[t] - Slept[t] ELSE sleep[t]]
Timed   == [t \in Tasks |-> IF t \in Passed THEN 0 ELSE Slept[t]]

(* perform_context_switch before its lock.release. *)
SwitchTo(next, op) ==
    /\ since' = [Timed EXCEPT ![next] = 0]
    /\ current' = next
    /\ SetTop([Top EXCEPT !.at = "unlock", !.op = op, !.old = current, !.arg = next])

Stay == since' = Timed /\ Goto("leave") /\ UNCHANGED current

(* yield, from select_next on.  With no task ready, one that has just gone
   to sleep hands over to idle, by the branch that comes back to "leave"; any
   other switch comes back to yield's caller. *)
SelectNext ==
    /\ Is("select")
    /\ tasks' = Ring
    /\ \/ \E i \in ReadyAt :
            /\ \A k \in ReadyAt : i <= k
            /\ sleep' = [Charged EXCEPT ![Ring[i]] = 0]
            /\ IF Ring[i] = current THEN Stay ELSE SwitchTo(Ring[i], "yield")
       \/ /\ ReadyAt = {}
          /\ sleep' = Charged
          /\ IF current # Idle /\ sleep[current] > 0 THEN SwitchTo(Idle, "idle")
                                                     ELSE Stay
    /\ UNCHANGED <<gateVars, lockVars, created, freed, phase, due,
                   mode, cpu, under, esp>>
-----------------------------------------------------------------------------
(* perform_context_switch from its lock.release, and context_switch *)

(* Mutant of ReleaseToSwitch: the lock goes with the task that is left. *)
SwitchHoldingLock ==
    /\ Is("unlock")
    /\ Goto("load")
    /\ UNCHANGED <<gateVars, lockVars, taskVars, timeVars,
                   mode, cpu, current, under, esp>>

ReleaseToSwitch ==
    /\ Is("unlock")
    /\ Release(lock)
    /\ Goto("load")
    /\ UNCHANGED <<gateVars, kheap_lock, taskVars, timeVars,
                   mode, cpu, current, under, esp>>

(* The arguments of context_switch: next->esp is read here. *)
LoadEsp ==
    /\ Is("load")
    /\ SetTop([Top EXCEPT !.at = "swap", !.esp = esp[Top.arg]])
    /\ UNCHANGED <<gateVars, lockVars, taskVars, timeVars,
                   mode, cpu, current, under, esp>>

(* Mutant of SavedEsp: the old esp is written where current now points. *)
SavedInCurrent(to) == [t \in Tasks |-> IF t = current THEN cpu
                                       ELSE IF esp[t] = to THEN Nowhere
                                       ELSE esp[t]]

(* The old stack's top goes where the first argument points; from then on no
   saved esp marks the top of the stack that is resumed. *)
SavedEsp(to) == [t \in Tasks |-> IF t = Top.old THEN cpu
                                 ELSE IF esp[t] = to THEN Nowhere
                                 ELSE esp[t]]

(* pushf, pushad, the exchange of stacks, popad, popf.  Popping a stack at a
   place that is not its top runs whatever lies there: "wild". *)
SwapStacks ==
    /\ Is("swap")
    /\ LET to == Top.esp
       IN  IF to \in Tasks /\ frame[to].at = "resume"
           THEN /\ cpu' = to
                /\ eflags_if' = frame[to].fl
                /\ SetTop([At("resume") EXCEPT !.irq = Top.irq, !.op = Top.op,
                                               !.fl = eflags_if])
                /\ esp' = SavedEsp(to)
                /\ UNCHANGED mode
           ELSE /\ mode' = "wild"
                /\ UNCHANGED <<cpu, eflags_if, frame, esp>>
    /\ UNCHANGED <<interrupts_semaphore, lockVars, taskVars, timeVars,
                   current, under>>

(* The push_ints of context_switch, on the stack that was resumed. *)
Resume ==
    /\ Is("resume")
    /\ push_ints
    /\ SetTop(IF Top.op = "idle" THEN [Top EXCEPT !.at = "leave", !.fl = TRUE]
                                   ELSE BackFrom(Top))
    /\ UNCHANGED <<lockVars, taskVars, timeVars, mode, cpu, current, under, esp>>
-----------------------------------------------------------------------------
(* The way out: "leave:" in yield, the ends of new_task, kill_task and dump. *)

Leave ==
    /\ Is("leave")
    /\ Release(lock)
    /\ Goto("push")
    /\ UNCHANGED <<gateVars, kheap_lock, taskVars, timeVars,
                   mode, cpu, current, under, esp>>

PushInts ==
    /\ Is("push")
    /\ push_ints
    /\ SetTop(BackFrom(Top))
    /\ UNCHANGED <<lockVars, taskVars, timeVars, mode, cpu, current, under, esp>>

TaskCall == \/ Sleep \/ Yield \/ Dump \/ NewTask \/ KillMe \/ KillTask
            \/ KillOwnId \/ KillKernel \/ UseHeap \/ FaultKill \/ FaultPanic

KernelStep == \/ Tick \/ UndoCount \/ ExitInterrupt \/ Iret
              \/ PopInts \/ LockSched \/ LockHeap \/ HeapDone
              \/ LinkTask \/ UnlistCurrent \/ UnlistOther \/ SelectNext
              \/ ReleaseToSwitch \/ LoadEsp \/ SwapStacks \/ Resume
              \/ Leave \/ PushInts

Next == TaskCall \/ KernelStep \/ TimerInterrupt

Spec == Init /\ [][Next]_vars

(* The processor keeps executing, and the interrupt line stays raised until
   the gate opens: a tick is taken if the gate opens again and again. *)
FairSpec == Spec /\ WF_vars(KernelStep) /\ SF_vars(TimerInterrupt)
-----------------------------------------------------------------------------
(* Properties *)

StackOf(t) == <<frame[t]>> \o under[t]

(* Every variable has its type: the states of the kernel's structures. *)
TypeOK ==
    /\ mode \in {"run", "panic", "wild"}
    /\ eflags_if \in BOOLEAN /\ interrupts_semaphore \in Int
    /\ lock \in {Unlocked, Locked} /\ kheap_lock \in {Unlocked, Locked}
    /\ cpu \in Tasks /\ current \in Tasks
    /\ tasks \in Seq(Tasks) /\ created \subseteq Tasks /\ freed \subseteq Tasks
    /\ frame \in [Tasks -> Frame] /\ under \in [Tasks -> Seq(Frame)]
    /\ esp \in [Tasks -> Tasks \cup {Nowhere}]
    /\ sleep \in [Tasks -> Nat] /\ since \in [Tasks -> 0..SinceCap]
    /\ phase \in 0..(TimeSlice - 1) /\ due \in [Tasks -> Nat]

(* The frames that are between sched.lock.lock() and the release of that
   same section.  "leave" after the idle branch is not one: the lock was
   released before the switch, and yield releases it again. *)
Holding(f) ==
    \/ f.at \in {"select", "link", "unlist", "unlock"}
    \/ f.at = "leave" /\ f.op # "idle"
    \/ f.at \in {"heap_lock", "heap"} /\ f.op \in {"kill", "exit"}

Holders(t) == {i \in DOMAIN StackOf(t) : Holding(StackOf(t)[i])}

(* sched.lock is set exactly while one frame is in its critical section, and
   that frame is on the stack in use: no switch happens with the lock held,
   and the second release of the idle branch never opens a section that
   somebody else is in (scheduler.cpp:174-184). *)
LockExclusion ==
    /\ \A t \in Tasks \ {cpu} : Holders(t) = {}
    /\ lock = Locked => \E i \in Holders(cpu) : Holders(cpu) = {i}
    /\ lock = Unlocked => Holders(cpu) = {}

(* mem.kheap.lock is set exactly while one frame of one task, running or
   suspended, is inside alloc or free. *)
KheapExclusion ==
    LET Inside(t) == {i \in DOMAIN StackOf(t) : StackOf(t)[i].at = "heap"}
        inside == UNION {{t} \X Inside(t) : t \in Tasks}
    IN  Cardinality(inside) = kheap_lock

(* Code that is not in the kernel runs with the regular count and with
   interrupts on (interrupt_handlers.cpp:111-113). *)
RegularCount == Is("run") => interrupts_semaphore = 1 /\ eflags_if

(* esp is in the stack of current, but for the moment of a switch, and every
   other task that may be chosen can be resumed at the top of its own stack. *)
Switchable ==
    mode = "run" =>
      /\ Top.at \notin {"unlock", "load", "swap"} => cpu = current
      /\ \A t \in (Range(tasks) \cup {Idle}) \ {cpu} :
            esp[t] = t /\ frame[t].at = "resume"

(* The run list names each task once, only tasks whose structure is still
   allocated, and the task in hand or about to be is one of those. *)
NoDangling ==
    /\ IsInjective(tasks) /\ Idle \notin Range(tasks)
    /\ Range(tasks) \cap freed = {}
    /\ lock = Unlocked /\ mode = "run" => current \notin freed

(* The push_ints a frame still owes, and the frames that owe at least n. *)
Owed(f) == IF f.at \in {"run", "pop", "undo", "iret"} \/ f.op = "heap" THEN 0
           ELSE IF f.op = "idle" /\ f.at \notin {"leave", "push"} THEN 2 ELSE 1

Owing(n) ==
    LET In(t) == {i \in DOMAIN StackOf(t) : Owed(StackOf(t)[i]) >= n}
    IN  UNION {{t} \X In(t) : t \in Tasks}

Suspended == {t \in Tasks \ {cpu} : frame[t].at = "resume"}

(* What the counter is made of: itself and every push that a stack still
   owes, less the one that the switch to a suspended stack hands over. *)
Count == interrupts_semaphore + Cardinality(Owing(1)) + Cardinality(Owing(2))
            - Cardinality(Suspended)

(* The pushes and pops of all stacks together stay paired, however they are
   interleaved, except at two places: the idle branch of yield gains one
   (scheduler.cpp:174-175), an exception handler that kills loses one. *)
CountMovesOnlyBy ==
    [][/\ Count' > Count => Count' = Count + 1 /\ SelectNext /\ current' = Idle
       /\ Count' < Count => Count' = Count - 1 /\ (FaultKill \/ FaultPanic)]_vars

(* A processor that spins with interrupts off spins for ever.  It can only
   be on the heap's lock, and only when the shell's own alloc or free, made
   with interrupts on, was preempted inside (interpreter.cpp:200, 210). *)
DeafSpinOnlyBehindShell ==
    ~eflags_if /\ mode = "run" =>
      /\ ~(Top.at = "lock" /\ lock = Locked)
      /\ Top.at = "heap_lock" /\ kheap_lock = Locked =>
            \E t \in Tasks \ {cpu} : \E i \in DOMAIN StackOf(t) :
                StackOf(t)[i].at = "heap" /\ StackOf(t)[i].op = "heap"

(* yield can only find sched.lock taken after the idle branch has raised the
   counter: by then more is counted than the one that the kernel began with. *)
ContentionNeedsDrift ==
    Is("lock") /\ lock = Locked => Count >= 2

(* select_next clears a sleep only after all the ticks asked for. *)
NoEarlyWake ==
    [][\A t \in Tasks : sleep[t] > 0 /\ sleep'[t] = 0 => due[t] = 0]_vars

(* A task that is killed is switched out: once the kill is over, the current
   task is another (scheduler.cpp:250). *)
KilledIsSwitchedOut == lock = Unlocked => current \notin freed

(* The scheduler keeps SchedulerSpec's promise. *)
Promise == INSTANCE SchedulerSpec WITH
    running   <- current,
    listed    <- Range(tasks),
    asleep    <- {t \in Tasks : sleep[t] > 0},
    remaining <- due,
    Ticks     <- {SleepTicks(ms) : ms \in Requests}

(* Every step of the kernel is a step of SchedulerSpec or changes nothing it
   speaks of: no task is run that was killed or is before its time, and idle
   is run only while every listed task sleeps. *)
KeepsPromise == Promise!Spec

(* A task that may run gets the processor, however the others yield, sleep
   and preempt: rotate() brings every task to the head of the list. *)
EveryTaskServed == Promise!Served

(* sleep(ms) ends. *)
EverySleepEnds == Promise!Woken
=============================================================================
