--------------------------- MODULE SchedulerProofs --------------------------
(***************************************************************************)
(* Theorems about Scheduler, for any tasks, calls, depth of interrupts and  *)
(* count of the semaphore: the types, and the exclusion that sched.lock     *)
(* gives.  LockExclusion alone is not inductive: it does not say what the   *)
(* frames that interrupted the holder can be doing.                         *)
(***************************************************************************)
EXTENDS Scheduler, SequenceTheorems, TLAPS

(* What the place, the call and the operands of a frame have to do with one
   another. *)
Wellformed(f) ==
    /\ f.at \in {"tick", "undo", "exit", "iret"} => f.irq
    /\ f.op = "idle" => f.at \in {"unlock", "load", "swap", "resume", "leave", "push"}
    /\ f.at = "select" => f.op = "yield"
    /\ f.at = "link" => f.op = "new"
    /\ f.op \in {"new", "kill"} => f.arg \in Tasks
    /\ f.at \in {"unlock", "load", "swap"} => f.op \in {"yield", "idle", "exit"}
    /\ f.at \in {"unlock", "load"} => f.arg \in Tasks

(* An interrupt frame lies above the code it interrupted. *)
Shape ==
    \A t \in Tasks :
        /\ Wellformed(frame[t])
        /\ frame[t].irq => Len(under[t]) > 0
        /\ \A i \in 1..Len(under[t]) :
              /\ Wellformed(under[t][i])
              /\ under[t][i].irq => i < Len(under[t])

(* The frames an interrupt that finds the lock taken can be: on its way to
   the lock, spinning on it, or leaving because the slice has not ended. *)
Waiting(f) ==
    \/ f.at \in {"tick", "exit", "iret"}
    \/ f.at \in {"pop", "lock"} /\ f.op # "new"

NoneHolds(s) == \A i \in 1..Len(s) : ~Holding(s[i])

LockInv ==
    /\ \A t \in Tasks : t # cpu => ~Holding(frame[t]) /\ NoneHolds(under[t])
    /\ lock = Unlocked => ~Holding(Top) /\ NoneHolds(under[cpu])
    /\ lock = Locked =>
         \/ Holding(Top) /\ NoneHolds(under[cpu])
         \/ /\ Waiting(Top)
            /\ \E i \in 1..Len(under[cpu]) :
                 /\ Holding(under[cpu][i])
                 /\ \A j \in 1..Len(under[cpu]) :
                      /\ j < i => Waiting(under[cpu][j])
                      /\ j > i => ~Holding(under[cpu][j])

IInv == TypeOK /\ Shape /\ LockInv
-----------------------------------------------------------------------------
(* The helpers on lists and frames keep their types. *)

LEMMA RotatedType ==
    ASSUME NEW S, NEW list \in Seq(S) PROVE Rotated(list) \in Seq(S)
  BY DEF Rotated

LEMMA WithoutType ==
    ASSUME NEW S, NEW list \in Seq(S), NEW t PROVE Without(list, t) \in Seq(S)
<1>1. CASE t \notin Range(list)
  BY <1>1 DEF Without
<1>2. CASE t \in Range(list)
  <2> DEFINE i == CHOOSE j \in DOMAIN list : list[j] = t
  <2>1. i \in 1..Len(list)
    BY <1>2 DEF Range
  <2>2. SubSeq(list, 1, i - 1) \in Seq(S) /\ SubSeq(list, i + 1, Len(list)) \in Seq(S)
    <3>1. /\ \A j \in 1..(i - 1) : list[j] \in S
          /\ \A j \in (i + 1)..Len(list) : list[j] \in S
      <4> HIDE DEF i
      <4> QED
        BY <2>1, ElementOfSeq
    <3> HIDE DEF i
    <3> QED
      BY <2>1, <3>1, SubSeqProperties
  <2> QED
    BY <1>2, <2>2 DEF Without
<1> QED
  BY <1>1, <1>2

LEMMA AtType ==
    ASSUME NEW place \in Places
    PROVE  /\ At(place) \in Frame
           /\ At(place).irq = FALSE /\ At(place).op = "none" /\ At(place).at = place
  BY TasksAssumption DEF At, Frame, Ops

LEMMA FrameFields ==
    ASSUME NEW f \in Frame
    PROVE  /\ \A p \in Places : [f EXCEPT !.at = p] \in Frame
           /\ \A op \in Ops : [f EXCEPT !.op = op] \in Frame
           /\ \A arg \in Tasks \cup {NoTask} : [f EXCEPT !.arg = arg] \in Frame
           /\ \A irq \in BOOLEAN : [f EXCEPT !.irq = irq] \in Frame
           /\ \A fl \in BOOLEAN : [f EXCEPT !.fl = fl] \in Frame
           /\ \A old \in Tasks \cup {NoTask} : [f EXCEPT !.old = old] \in Frame
           /\ \A to \in Tasks \cup {Nowhere} : [f EXCEPT !.esp = to] \in Frame
  BY DEF Frame

LEMMA Bounds ==
    /\ TimeSlice \in Nat \ {0} /\ SinceCap \in Nat \ {0} /\ MaxDepth \in Nat \ {0}
    /\ \A n \in Nat : n % TimeSlice \in 0..(TimeSlice - 1)
    /\ \A n \in Nat : Cap(n) \in 0..SinceCap
<1>1. TimeSlice \in Nat \ {0} /\ SinceCap \in Nat \ {0} /\ MaxDepth \in Nat \ {0}
  BY TimeAssumption
<1> QED
  BY <1>1 DEF Cap

LEMMA SleepTicksType == \A ms \in Requests : SleepTicks(ms) \in Nat
  BY TimeAssumption DEF SleepTicks
-----------------------------------------------------------------------------
(* Types *)

LEMMA InitType == Init => TypeOK
<1> SUFFICES ASSUME Init PROVE TypeOK
  OBVIOUS
<1>1. At("run") \in Frame /\ \A flag \in StaleFlags : FreshFrame(flag) \in Frame
  BY AtType, ChoiceAssumption DEF FreshFrame, Places, Frame
<1>2. frame \in [Tasks -> Frame]
  BY <1>1 DEF Init
<1>3. tasks \in Seq(Tasks) /\ created \subseteq Tasks
  BY StartedAssumption, TasksAssumption DEF Init, Range
<1> QED
  BY <1>2, <1>3, TasksAssumption, TimeAssumption
  DEF Init, TypeOK, Unlocked, Locked

(* What the calls and the kernel's steps put on top of a stack is a frame. *)
LEMMA TopTypes ==
    ASSUME TypeOK
    PROVE  /\ Top \in Frame
           /\ \A place \in Places : Moved(place) \in Frame
           /\ BackFrom(Top) \in Frame
<1>1. Top \in Frame
  BY DEF TypeOK, Top
<1>2. BackFrom(Top) \in Frame
  <2>1. At("undo") \in Frame /\ At("run") \in Frame
    BY AtType DEF Places
  <2>2. [At("undo") EXCEPT !.irq = TRUE] \in Frame
    <3>1. \A f \in Frame : [f EXCEPT !.irq = TRUE] \in Frame
      BY DEF Frame
    <3> QED
      BY <2>1, <3>1
  <2> QED
    BY <2>1, <2>2 DEF BackFrom
<1> QED
  BY <1>1, <1>2 DEF Moved, Frame

LEMMA EntryType ==
    ASSUME NEW place \in Places, NEW op \in Ops, NEW arg \in Tasks \cup {NoTask}
    PROVE  Entry(place, op, arg) \in Frame
<1>1. At(place) \in Frame
  BY AtType
<1>2. [At(place) EXCEPT !.op = op] \in Frame
  BY <1>1 DEF Frame
<1> QED
  BY <1>2 DEF Entry, Frame

LEMMA SetTopType ==
    ASSUME TypeOK, NEW f \in Frame, SetTop(f) PROVE frame' \in [Tasks -> Frame]
  BY DEF TypeOK, SetTop

LEMMA CallType == ASSUME TypeOK PROVE TaskCall => TypeOK'
<1> USE DEF Enter
<1>1. /\ \A op \in Ops, t \in Tasks \cup {NoTask} : Entry("pop", op, t) \in Frame
      /\ Entry("heap_lock", "heap", NoTask) \in Frame
  BY EntryType DEF Places, Ops
<1>2. ASSUME Sleep PROVE TypeOK'
  <2>1. frame' \in [Tasks -> Frame]
    BY <1>1, <1>2, SetTopType DEF Sleep, Ops
  <2>2. sleep' \in [Tasks -> Nat] /\ due' \in [Tasks -> Nat]
    BY <1>2, SleepTicksType DEF Sleep, TypeOK
  <2> QED
    BY <1>2, <2>1, <2>2 DEF Sleep, TypeOK, gateVars, lockVars, taskVars
<1>3. ASSUME NEW call, NEW op \in Ops, NEW args \in SUBSET (Tasks \cup {NoTask}),
             Call(call, op, args)
      PROVE  TypeOK'
  <2>1. frame' \in [Tasks -> Frame]
    BY <1>1, <1>3, SetTopType DEF Call
  <2> QED
    BY <1>3, <2>1 DEF Call, TypeOK, gateVars, lockVars, taskVars, timeVars
<1>4. ASSUME NewTask PROVE TypeOK'
  <2>1. frame' \in [Tasks -> Frame]
    BY <1>1, <1>4, SetTopType DEF NewTask, Ops
  <2> QED
    BY <1>4, <2>1 DEF NewTask, TypeOK, gateVars, lockVars, timeVars
<1>5. ASSUME KillKernel PROVE TypeOK'
  BY <1>5 DEF KillKernel, TypeOK, lockVars, taskVars, timeVars
<1>6. ASSUME FaultPanic PROVE TypeOK'
  <2>1. interrupts_semaphore' \in Int
    BY <1>6 DEF FaultPanic, TypeOK
  <2> QED
    BY <1>6, <2>1 DEF FaultPanic, TypeOK, lockVars, taskVars, timeVars
<1>7. ASSUME UseHeap PROVE TypeOK'
  <2>1. frame' \in [Tasks -> Frame]
    BY <1>1, <1>7, SetTopType DEF UseHeap
  <2> QED
    BY <1>7, <2>1 DEF UseHeap, TypeOK, gateVars, lockVars, taskVars, timeVars
<1>8. ASSUME FaultKill PROVE TypeOK'
  <2>1. frame' \in [Tasks -> Frame]
    BY <1>1, <1>8, SetTopType DEF FaultKill, Ops
  <2> QED
    BY <1>8, <2>1
    DEF FaultKill, pop_ints, EnabledBy, TypeOK, lockVars, taskVars, timeVars
<1>9. ASSUME Yield \/ Dump \/ KillMe \/ KillTask \/ KillOwnId PROVE TypeOK'
  BY <1>3, <1>9 DEF Yield, Dump, KillMe, KillTask, KillOwnId, TypeOK, Ops
<1> QED
  BY <1>2, <1>4, <1>5, <1>6, <1>7, <1>8, <1>9 DEF TaskCall

LEMMA InterruptType == ASSUME TypeOK, Shape PROVE
    TimerInterrupt \/ Tick \/ UndoCount \/ ExitInterrupt \/ Iret => TypeOK'
<1> USE DEF lockVars, taskVars, timeVars
<1>1. ASSUME TimerInterrupt PROVE TypeOK'
  <2>1. [At("tick") EXCEPT !.irq = TRUE] \in Frame
    BY AtType, FrameFields DEF Places
  <2>2. frame' \in [Tasks -> Frame]
    BY <1>1, <2>1, SetTopType DEF TimerInterrupt
  <2>3. <<Top>> \o under[cpu] \in Seq(Frame)
    BY TopTypes, ConcatProperties DEF TypeOK
  <2>4. under' \in [Tasks -> Seq(Frame)]
    BY <1>1, <2>3 DEF TimerInterrupt, TypeOK
  <2> QED
    BY <1>1, <2>2, <2>4 DEF TimerInterrupt, pop_ints, EnabledBy, TypeOK
<1>2. ASSUME Tick PROVE TypeOK'
  <2>1. frame' \in [Tasks -> Frame]
    <3>1. [Top EXCEPT !.at = "pop", !.op = "yield"] \in Frame
      BY TopTypes, FrameFields DEF Places, Ops
    <3>2. Moved("exit") \in Frame
      BY TopTypes DEF Places
    <3> QED
      BY <1>2, <3>1, <3>2, SetTopType DEF Tick, Goto
  <2>2. phase' \in 0..(TimeSlice - 1)
    <3>1. phase + 1 \in Nat
      BY Bounds DEF TypeOK
    <3> QED
      BY <1>2, <3>1, Bounds DEF Tick
  <2>3. since' \in [Tasks -> 0..SinceCap] /\ due' \in [Tasks -> Nat]
    <3>0. since \in [Tasks -> 0..SinceCap] /\ due \in [Tasks -> Nat]
      BY DEF TypeOK
    <3>1. \A t \in Tasks : since[t] + 1 \in Nat
      BY <3>0
    <3>2. \A t \in Tasks : (IF due[t] = 0 THEN 0 ELSE due[t] - 1) \in Nat
      BY <3>0
    <3> QED
      BY <1>2, <3>1, <3>2, Bounds DEF Tick
  <2>4. interrupts_semaphore' \in Int
    BY <1>2 DEF Tick, TypeOK
  <2> QED
    BY <1>2, <2>1, <2>2, <2>3, <2>4 DEF Tick, TypeOK
<1>3. ASSUME UndoCount PROVE TypeOK'
  <2>1. frame' \in [Tasks -> Frame]
    BY <1>3, TopTypes, SetTopType DEF UndoCount, Goto, Places
  <2> QED
    BY <1>3, <2>1 DEF UndoCount, TypeOK
<1>4. ASSUME ExitInterrupt PROVE TypeOK'
  <2>1. frame' \in [Tasks -> Frame]
    BY <1>4, TopTypes, SetTopType DEF ExitInterrupt, Goto, Places
  <2> QED
    BY <1>4, <2>1 DEF ExitInterrupt, push_ints, EnabledBy, TypeOK
<1>5. ASSUME Iret PROVE TypeOK'
  <2>1. under[cpu] \in Seq(Frame) /\ under[cpu] # << >>
    BY <1>5, EmptySeq DEF Iret, Is, Top, TypeOK, Shape, Wellformed
  <2>2. Head(under[cpu]) \in Frame /\ Tail(under[cpu]) \in Seq(Frame)
    BY <2>1, HeadTailProperties
  <2>3. frame' \in [Tasks -> Frame] /\ under' \in [Tasks -> Seq(Frame)]
    BY <1>5, <2>2, SetTopType DEF Iret, TypeOK
  <2> QED
    BY <1>5, <2>3 DEF Iret, TypeOK
<1> QED
  BY <1>1, <1>2, <1>3, <1>4, <1>5

LEMMA LockStepType == ASSUME TypeOK, Shape PROVE
    PopInts \/ LockSched \/ LockHeap \/ HeapDone \/ Leave \/ PushInts => TypeOK'
<1> USE DEF lockVars, taskVars, timeVars
<1>1. ASSUME PopInts PROVE TypeOK'
  <2>1. frame' \in [Tasks -> Frame]
    BY <1>1, TopTypes, SetTopType DEF PopInts, Goto, Places
  <2> QED
    BY <1>1, <2>1 DEF PopInts, pop_ints, EnabledBy, TypeOK
<1>2. ASSUME LockSched PROVE TypeOK'
  <2>1. UnderLock(Top.op) \in Places
    BY DEF UnderLock, Places
  <2>2. frame' \in [Tasks -> Frame]
    BY <1>2, <2>1, TopTypes, SetTopType DEF LockSched, Goto
  <2> QED
    BY <1>2, <2>2 DEF LockSched, Lock, TypeOK, gateVars
<1>3. ASSUME LockHeap PROVE TypeOK'
  <2>1. frame' \in [Tasks -> Frame]
    BY <1>3, TopTypes, SetTopType DEF LockHeap, Goto, Places
  <2> QED
    BY <1>3, <2>1 DEF LockHeap, Lock, TypeOK, gateVars
<1>4. ASSUME HeapDone PROVE TypeOK'
  <2>1. CASE Top.op = "heap"
    <3>1. frame' \in [Tasks -> Frame]
      BY <1>4, <2>1, AtType, SetTopType DEF HeapDone, Places
    <3> QED
      BY <1>4, <2>1, <3>1 DEF HeapDone, Release, TypeOK, gateVars
  <2>2. CASE Top.op = "new"
    <3>1. Top.arg \in Tasks
      BY <2>2 DEF Shape, Wellformed, TypeOK, Top
    <3>2. \A flag \in StaleFlags : FreshFrame(flag) \in Frame
      BY AtType, ChoiceAssumption DEF FreshFrame, Places, Frame
    <3>3. Moved("lock") \in Frame
      BY TopTypes DEF Places
    <3>4. frame' \in [Tasks -> Frame]
      <4>1. PICK flag \in StaleFlags :
              frame' = [frame EXCEPT ![Top.arg] = FreshFrame(flag),
                                     ![cpu] = Moved("lock")]
        BY <1>4, <2>2 DEF HeapDone
      <4>2. FreshFrame(flag) \in Frame
        BY <3>2
      <4> QED
        BY <4>1, <4>2, <3>3 DEF TypeOK
    <3> QED
      BY <1>4, <2>2, <3>1, <3>4 DEF HeapDone, Release, TypeOK, gateVars
  <2>3. CASE Top.op = "kill"
    <3>1. Top.arg \in Tasks
      BY <2>3 DEF Shape, Wellformed, TypeOK, Top
    <3>2. frame' \in [Tasks -> Frame]
      BY <1>4, <2>3, TopTypes, SetTopType DEF HeapDone, Goto, Places
    <3> QED
      BY <1>4, <2>3, <3>1, <3>2 DEF HeapDone, Release, TypeOK, gateVars
  <2>4. CASE Top.op = "exit"
    <3>1. [Top EXCEPT !.at = "unlock", !.arg = current] \in Frame
      BY TopTypes DEF Frame, Places, TypeOK
    <3>2. frame' \in [Tasks -> Frame]
      BY <1>4, <2>4, <3>1, SetTopType DEF HeapDone
    <3>3. since' \in [Tasks -> 0..SinceCap]
      <4>1. since' = [since EXCEPT ![current] = 0]
        BY <1>4, <2>4 DEF HeapDone
      <4>2. 0 \in 0..SinceCap
        BY Bounds
      <4> QED
        BY <4>1, <4>2 DEF TypeOK
    <3> QED
      BY <1>4, <2>4, <3>2, <3>3 DEF HeapDone, Release, TypeOK, gateVars
  <2> QED
    BY <1>4, <2>1, <2>2, <2>3, <2>4 DEF HeapDone
<1>5. ASSUME Leave PROVE TypeOK'
  <2>1. frame' \in [Tasks -> Frame]
    BY <1>5, TopTypes, SetTopType DEF Leave, Goto, Places
  <2> QED
    BY <1>5, <2>1 DEF Leave, Release, TypeOK, gateVars
<1>6. ASSUME PushInts PROVE TypeOK'
  <2>1. frame' \in [Tasks -> Frame]
    BY <1>6, TopTypes, SetTopType DEF PushInts
  <2> QED
    BY <1>6, <2>1 DEF PushInts, push_ints, EnabledBy, TypeOK
<1> QED
  BY <1>1, <1>2, <1>3, <1>4, <1>5, <1>6

LEMMA SelectTypes ==
    ASSUME TypeOK
    PROVE  /\ Ring \in Seq(Tasks) /\ \A i \in ReadyAt : Ring[i] \in Tasks
           /\ Charged \in [Tasks -> Nat] /\ Timed \in [Tasks -> 0..SinceCap]
<1>1. Ring \in Seq(Tasks)
  BY RotatedType DEF Ring, TypeOK
<1>2. \A i \in ReadyAt : Ring[i] \in Tasks
  BY <1>1, ElementOfSeq DEF ReadyAt
<1>3. Slept \in [Tasks -> 0..SinceCap] /\ sleep \in [Tasks -> Nat]
  <2>1. since \in [Tasks -> 0..SinceCap] /\ sleep \in [Tasks -> Nat]
    BY DEF TypeOK
  <2>2. 0 \in 0..SinceCap
    BY Bounds
  <2> QED
    BY <2>1, <2>2 DEF Slept
<1>4. \A t \in Passed : ~(sleep[t] <= Slept[t])
  <2>1. \A j \in DOMAIN Ring : ~(j < j)
    BY <1>1
  <2>2. \A j \in DOMAIN Ring : (\A k \in ReadyAt : j < k) => j \notin ReadyAt
    BY <2>1
  <2> QED
    BY <2>2 DEF Passed, ReadyAt, Ready
<1>5. Charged \in [Tasks -> Nat]
  <2>1. \A t \in Passed \cap Tasks : sleep[t] - Slept[t] \in Nat
    BY <1>3, <1>4, Bounds
  <2> QED
    BY <1>3, <2>1 DEF Charged
<1>6. Timed \in [Tasks -> 0..SinceCap]
  BY <1>3, Bounds DEF Timed
<1> QED
  BY <1>1, <1>2, <1>5, <1>6

LEMMA ListType == ASSUME TypeOK, Shape PROVE
    LinkTask \/ UnlistCurrent \/ UnlistOther \/ SelectNext => TypeOK'
<1> USE DEF lockVars, gateVars, timeVars
<1>1. ASSUME LinkTask PROVE TypeOK'
  <2>1. Top.arg \in Tasks
    BY <1>1 DEF LinkTask, Is, Top, TypeOK, Shape, Wellformed
  <2>2. tasks' \in Seq(Tasks)
    BY <1>1, <2>1 DEF LinkTask, TypeOK
  <2>3. frame' \in [Tasks -> Frame]
    BY <1>1, TopTypes, SetTopType DEF LinkTask, Goto, Places
  <2> QED
    BY <1>1, <2>2, <2>3 DEF LinkTask, TypeOK
<1>2. ASSUME UnlistCurrent PROVE TypeOK'
  <2>1. [Top EXCEPT !.at = "heap_lock", !.op = "exit"] \in Frame
    BY TopTypes, FrameFields DEF Places, Ops
  <2>2. frame' \in [Tasks -> Frame]
    BY <1>2, <2>1, SetTopType DEF UnlistCurrent, TypeOK
  <2>3. tasks' \in Seq(Tasks)
    BY <1>2, WithoutType DEF UnlistCurrent, TypeOK
  <2> QED
    BY <1>2, <2>2, <2>3 DEF UnlistCurrent, TypeOK
<1>3. ASSUME UnlistOther PROVE TypeOK'
  <2>1. frame' \in [Tasks -> Frame]
    BY <1>3, TopTypes, SetTopType DEF UnlistOther, Goto, Places
  <2>2. tasks' \in Seq(Tasks)
    BY <1>3, WithoutType DEF UnlistOther, TypeOK
  <2> QED
    BY <1>3, <2>1, <2>2 DEF UnlistOther, TypeOK
<1>4. ASSUME SelectNext PROVE TypeOK'
  <2>1. ASSUME NEW next \in Tasks, NEW op \in Ops, SwitchTo(next, op)
        PROVE  frame' \in [Tasks -> Frame] /\ since' \in [Tasks -> 0..SinceCap]
                 /\ current' \in Tasks
    <3>1. [Top EXCEPT !.at = "unlock", !.op = op, !.old = current, !.arg = next] \in Frame
      BY TopTypes, FrameFields DEF Places, TypeOK
    <3>2. frame' \in [Tasks -> Frame]
      BY <2>1, <3>1, SetTopType DEF SwitchTo
    <3> QED
      BY <2>1, <3>2, SelectTypes, Bounds DEF SwitchTo
  <2>2. ASSUME Stay
        PROVE  frame' \in [Tasks -> Frame] /\ since' \in [Tasks -> 0..SinceCap]
                 /\ current' \in Tasks
    <3>1. frame' \in [Tasks -> Frame]
      BY <2>2, TopTypes, SetTopType DEF Stay, Goto, Places
    <3> QED
      BY <2>2, <3>1, SelectTypes DEF Stay, TypeOK
  <2>3. /\ frame' \in [Tasks -> Frame] /\ since' \in [Tasks -> 0..SinceCap]
        /\ current' \in Tasks
    BY <1>4, <2>1, <2>2, SelectTypes, TasksAssumption DEF SelectNext, Ops
  <2>4. tasks' \in Seq(Tasks) /\ sleep' \in [Tasks -> Nat]
    BY <1>4, SelectTypes DEF SelectNext
  <2> QED
    BY <1>4, <2>3, <2>4 DEF SelectNext, TypeOK
<1> QED
  BY <1>1, <1>2, <1>3, <1>4

LEMMA SwitchType == ASSUME TypeOK, Shape PROVE
    ReleaseToSwitch \/ LoadEsp \/ SwapStacks \/ Resume => TypeOK'
<1> USE DEF lockVars, taskVars, timeVars
<1>1. ASSUME ReleaseToSwitch PROVE TypeOK'
  <2>1. frame' \in [Tasks -> Frame]
    BY <1>1, TopTypes, SetTopType DEF ReleaseToSwitch, Goto, Places
  <2> QED
    BY <1>1, <2>1 DEF ReleaseToSwitch, Release, TypeOK, gateVars
<1>2. ASSUME LoadEsp PROVE TypeOK'
  <2>1. Top.arg \in Tasks
    BY <1>2 DEF LoadEsp, Is, Top, TypeOK, Shape, Wellformed
  <2>2. [Top EXCEPT !.at = "swap", !.esp = esp[Top.arg]] \in Frame
    BY <2>1, TopTypes, FrameFields DEF Places, TypeOK
  <2>3. frame' \in [Tasks -> Frame]
    BY <1>2, <2>2, SetTopType DEF LoadEsp
  <2> QED
    BY <1>2, <2>3 DEF LoadEsp, TypeOK, gateVars
<1>3. ASSUME SwapStacks PROVE TypeOK'
  <2>1. CASE Top.esp \in Tasks /\ frame[Top.esp].at = "resume"
    <3>1. Top.irq \in BOOLEAN /\ Top.op \in Ops /\ eflags_if \in BOOLEAN
      BY TopTypes DEF Frame, TypeOK
    <3>2. At("resume") \in Frame
      BY AtType DEF Places
    <3>3. [At("resume") EXCEPT !.irq = Top.irq, !.op = Top.op, !.fl = eflags_if] \in Frame
      BY <3>1, <3>2, FrameFields
    <3>4. frame' \in [Tasks -> Frame]
      BY <1>3, <2>1, <3>3, SetTopType DEF SwapStacks
    <3>5. frame[Top.esp].fl \in BOOLEAN
      BY <2>1 DEF TypeOK, Frame
    <3>6. esp' \in [Tasks -> Tasks \cup {Nowhere}]
      BY <1>3, <2>1 DEF SwapStacks, SavedEsp, TypeOK
    <3> QED
      BY <1>3, <2>1, <3>4, <3>5, <3>6 DEF SwapStacks, TypeOK
  <2>2. CASE ~(Top.esp \in Tasks /\ frame[Top.esp].at = "resume")
    BY <1>3, <2>2 DEF SwapStacks, TypeOK
  <2> QED
    BY <2>1, <2>2
<1>4. ASSUME Resume PROVE TypeOK'
  <2>1. [Top EXCEPT !.at = "leave", !.fl = TRUE] \in Frame
    BY TopTypes, FrameFields DEF Places
  <2>2. frame' \in [Tasks -> Frame]
    BY <1>4, <2>1, TopTypes, SetTopType DEF Resume
  <2> QED
    BY <1>4, <2>2 DEF Resume, push_ints, EnabledBy, TypeOK
<1> QED
  BY <1>1, <1>2, <1>3, <1>4

LEMMA NextType == ASSUME TypeOK, Shape, [Next]_vars PROVE TypeOK'
<1>1. CASE Next
  BY <1>1, CallType, InterruptType, LockStepType, ListType, SwitchType
  DEF Next, KernelStep
<1>2. CASE UNCHANGED vars
  BY <1>2 DEF vars, gateVars, lockVars, taskVars, timeVars, TypeOK
<1> QED
  BY <1>1, <1>2
-----------------------------------------------------------------------------
(* Shape *)

LEMMA InitShape == Init => Shape
<1> SUFFICES ASSUME Init PROVE Shape
  OBVIOUS
<1>1. \A flag \in StaleFlags : /\ FreshFrame(flag).irq = FALSE
                               /\ FreshFrame(flag).op = "none"
                               /\ FreshFrame(flag).at = "resume"
  BY DEF FreshFrame, At
<1>2. At("run").irq = FALSE /\ At("run").op = "none" /\ At("run").at = "run"
  BY DEF At
<1>3. \A t \in Tasks : frame[t].irq = FALSE /\ frame[t].op = "none"
                         /\ frame[t].at \in {"run", "resume"}
  BY <1>1, <1>2 DEF Init
<1>4. \A t \in Tasks : Len(under[t]) = 0
  BY DEF Init
<1> QED
  BY <1>3, <1>4 DEF Shape, Wellformed

(* A step that only replaces the top frame keeps the shape. *)
LEMMA ShapeOfTop ==
    ASSUME TypeOK, Shape, NEW f, SetTop(f), under' = under,
           Wellformed(f), f.irq => Top.irq
    PROVE  Shape'
<1>1. \A t \in Tasks : frame'[t] = IF t = cpu THEN f ELSE frame[t]
  BY DEF SetTop, TypeOK
<1>2. \A t \in Tasks : Wellformed(frame'[t]) /\ (frame'[t].irq => Len(under[t]) > 0)
  BY <1>1 DEF Shape, Top
<1> QED
  BY <1>2 DEF Shape, Wellformed

LEMMA MovedFields ==
    ASSUME TypeOK, NEW place
    PROVE  /\ Moved(place).at = place /\ Moved(place).op = Top.op
           /\ Moved(place).arg = Top.arg
  BY TopTypes DEF Moved, Frame

LEMMA MovedIrq == ASSUME TypeOK, NEW place PROVE Moved(place).irq <=> Top.irq
  BY TopTypes DEF Moved, Frame

LEMMA EntryFields ==
    ASSUME NEW place, NEW op, NEW arg
    PROVE  /\ Entry(place, op, arg).at = place /\ Entry(place, op, arg).op = op
           /\ Entry(place, op, arg).arg = arg
  BY DEF Entry, At

LEMMA EntryIrq ==
    ASSUME NEW place, NEW op, NEW arg PROVE ~Entry(place, op, arg).irq
  BY DEF Entry, At

LEMMA CallShape == ASSUME TypeOK, Shape PROVE TaskCall => Shape'
<1>1. ASSUME NEW op \in Ops \ {"idle"}, NEW arg, op \in {"new", "kill"} => arg \in Tasks,
             Enter("pop", op, arg), under' = under
      PROVE  Shape'
  <2>1. Wellformed(Entry("pop", op, arg)) /\ ~Entry("pop", op, arg).irq
    BY <1>1, EntryFields, EntryIrq DEF Wellformed
  <2> QED
    BY <1>1, <2>1, ShapeOfTop DEF Enter
<1>2. ASSUME UseHeap PROVE Shape'
  <2>1. /\ Wellformed(Entry("heap_lock", "heap", NoTask))
        /\ ~Entry("heap_lock", "heap", NoTask).irq
    BY EntryFields, EntryIrq DEF Wellformed
  <2> QED
    BY <1>2, <2>1, ShapeOfTop DEF UseHeap, Enter
<1>3. ASSUME KillKernel \/ FaultPanic PROVE Shape'
  <2>1. frame' = frame /\ under' = under
    BY <1>3 DEF KillKernel, FaultPanic
  <2> QED
    BY <2>1 DEF Shape
<1>4. ASSUME Sleep \/ FaultKill PROVE Shape'
  BY <1>1, <1>4 DEF Sleep, FaultKill, Ops
<1>5. ASSUME NEW call, NEW op \in Ops \ {"idle"}, NEW args, Call(call, op, args),
             op \in {"new", "kill"} => args \subseteq Tasks
      PROVE  Shape'
  <2>1. PICK t \in args : Enter("pop", op, t)
    BY <1>5 DEF Call
  <2> QED
    BY <1>1, <1>5, <2>1 DEF Call
<1>6. {"yield", "dump", "exit", "kill"} \subseteq Ops \ {"idle"}
  BY DEF Ops
<1>7. ASSUME Yield \/ Dump \/ KillMe PROVE Shape'
  BY <1>5, <1>6, <1>7 DEF Yield, Dump, KillMe
<1>8. ASSUME KillTask \/ KillOwnId PROVE Shape'
  <2>1. created \ {Kernel, current} \subseteq Tasks /\ {current} \subseteq Tasks
    BY DEF TypeOK
  <2> QED
    BY <1>5, <1>6, <1>8, <2>1 DEF KillTask, KillOwnId
<1>9. ASSUME NewTask PROVE Shape'
  <2>1. PICK t \in Tasks \ created : Enter("pop", "new", t)
    BY <1>9 DEF NewTask
  <2> QED
    BY <1>1, <1>9, <2>1 DEF NewTask, Ops
<1> QED
  BY <1>2, <1>3, <1>4, <1>7, <1>8, <1>9 DEF TaskCall

(* A step to another place of the same call. *)
LEMMA ShapeOfGoto ==
    ASSUME TypeOK, Shape, NEW place, Goto(place), under' = under,
           Wellformed(Moved(place))
    PROVE  Shape'
  BY ShapeOfTop, MovedIrq DEF Goto

LEMMA TopShape == ASSUME TypeOK, Shape PROVE Wellformed(Top) /\ (Top.irq => Len(under[cpu]) > 0)
  BY DEF Shape, TypeOK, Top

LEMMA BackFromShape == ASSUME TypeOK, Shape, SetTop(BackFrom(Top)), under' = under PROVE Shape'
<1>1. Wellformed(At("run")) /\ ~At("run").irq
  BY DEF At, Wellformed
<1>2. Wellformed([At("undo") EXCEPT !.irq = TRUE])
  BY DEF At, Wellformed
<1>3. Wellformed(BackFrom(Top)) /\ (BackFrom(Top).irq => Top.irq)
  BY <1>1, <1>2 DEF BackFrom
<1> QED
  BY <1>3, ShapeOfTop

(* An interrupt frame may go to its last two places. *)
LEMMA ExitShape ==
    ASSUME TypeOK, Shape, Top.at \in {"tick", "undo", "exit", "iret"}
    PROVE  Wellformed(Moved("exit")) /\ Wellformed(Moved("iret"))
<1>1. Top.irq /\ Top.op # "idle" /\ (Top.op \in {"new", "kill"} => Top.arg \in Tasks)
  BY TopShape DEF Wellformed
<1>2. Moved("exit").irq /\ Moved("iret").irq
  BY <1>1, MovedIrq
<1> QED
  BY <1>1, <1>2, MovedFields DEF Wellformed

LEMMA InterruptShape == ASSUME TypeOK, Shape PROVE
    TimerInterrupt \/ Tick \/ UndoCount \/ ExitInterrupt \/ Iret => Shape'
<1>1. ASSUME TimerInterrupt PROVE Shape'
  <2> DEFINE f == [At("tick") EXCEPT !.irq = TRUE]
             s == <<Top>> \o under[cpu]
  <2>1. /\ \A t \in Tasks : frame'[t] = IF t = cpu THEN f ELSE frame[t]
        /\ \A t \in Tasks : under'[t] = IF t = cpu THEN s ELSE under[t]
    BY <1>1 DEF TimerInterrupt, SetTop, TypeOK
  <2>2. Wellformed(f)
    BY DEF At, Wellformed
  <2>3. /\ under[cpu] \in Seq(Frame) /\ Len(under[cpu]) \in Nat
        /\ Len(s) = Len(under[cpu]) + 1
        /\ \A i \in 1..Len(s) : s[i] = IF i = 1 THEN Top ELSE under[cpu][i - 1]
    <3>1. under[cpu] \in Seq(Frame) /\ <<Top>> \in Seq(Frame) /\ Len(<<Top>>) = 1
      BY TopTypes DEF TypeOK
    <3>2. Len(under[cpu]) \in Nat
      BY <3>1, LenProperties
    <3> QED
      BY <3>1, <3>2, ConcatProperties
  <2>4. cpu \in Tasks
    BY DEF TypeOK
  <2> HIDE DEF f, s
  <2>5. \A i \in 1..Len(s) : Wellformed(s[i]) /\ (s[i].irq => i < Len(s))
    <3> SUFFICES ASSUME NEW i \in 1..Len(s)
                 PROVE  Wellformed(s[i]) /\ (s[i].irq => i < Len(s))
      OBVIOUS
    <3>1. CASE i = 1
      BY <2>3, <3>1, TopShape
    <3>2. CASE i # 1
      <4>1. i - 1 \in 1..Len(under[cpu]) /\ s[i] = under[cpu][i - 1]
        BY <2>3, <3>2
      <4>2. /\ Wellformed(under[cpu][i - 1])
            /\ under[cpu][i - 1].irq => i - 1 < Len(under[cpu])
        BY <2>4, <4>1 DEF Shape
      <4> QED
        BY <2>3, <4>1, <4>2
    <3> QED
      BY <3>1, <3>2
  <2>6. Len(s) > 0
    BY <2>3
  <2>7. \A t \in Tasks : /\ Wellformed(frame'[t])
                         /\ frame'[t].irq => Len(under'[t]) > 0
    BY <2>1, <2>2, <2>6 DEF Shape
  <2>8. \A t \in Tasks : \A i \in 1..Len(under'[t]) :
           Wellformed(under'[t][i]) /\ (under'[t][i].irq => i < Len(under'[t]))
    BY <2>1, <2>5 DEF Shape
  <2> QED
    BY <2>7, <2>8 DEF Shape, Wellformed
<1>2. ASSUME Tick PROVE Shape'
  <2>1. CASE phase' = 0
    <3> DEFINE f == [Top EXCEPT !.at = "pop", !.op = "yield"]
    <3>1. f.at = "pop" /\ f.op = "yield"
      BY TopTypes DEF Frame
    <3>2. f.irq => Top.irq
      BY TopTypes DEF Frame
    <3>3. SetTop(f) /\ under' = under
      BY <1>2, <2>1 DEF Tick
    <3> HIDE DEF f
    <3>4. Wellformed(f)
      BY <3>1 DEF Wellformed
    <3> QED
      BY <3>2, <3>3, <3>4, ShapeOfTop
  <2>2. CASE phase' # 0
    <3>1. Wellformed(Moved("exit"))
      BY <1>2, ExitShape DEF Tick, Is
    <3> QED
      BY <1>2, <2>2, <3>1, ShapeOfGoto DEF Tick
  <2> QED
    BY <2>1, <2>2
<1>3. ASSUME UndoCount PROVE Shape'
  BY <1>3, ExitShape, ShapeOfGoto DEF UndoCount, Is
<1>4. ASSUME ExitInterrupt PROVE Shape'
  BY <1>4, ExitShape, ShapeOfGoto DEF ExitInterrupt, Is
<1>5. ASSUME Iret PROVE Shape'
  <2> DEFINE u == under[cpu]
  <2>1. cpu \in Tasks /\ u \in Seq(Frame)
    BY DEF TypeOK
  <2>2. Len(u) > 0
    BY <1>5, TopShape DEF Iret, Is, Wellformed
  <2>3. /\ Len(u) \in Nat /\ Head(u) = u[1] /\ Len(Tail(u)) = Len(u) - 1
        /\ \A i \in 1..Len(Tail(u)) : Tail(u)[i] = u[i + 1]
    <3>1. u # << >>
      BY <2>2, EmptySeq
    <3> QED
      BY <2>1, <3>1, LenProperties, HeadTailProperties DEF u
  <2>4. /\ \A t \in Tasks : frame'[t] = IF t = cpu THEN Head(u) ELSE frame[t]
        /\ \A t \in Tasks : under'[t] = IF t = cpu THEN Tail(u) ELSE under[t]
    BY <1>5 DEF Iret, SetTop, TypeOK
  <2>5. \A i \in 1..Len(u) : Wellformed(u[i]) /\ (u[i].irq => i < Len(u))
    BY <2>1 DEF Shape
  <2> HIDE DEF u
  <2>6. Wellformed(Head(u)) /\ (Head(u).irq => Len(Tail(u)) > 0)
    BY <2>2, <2>3, <2>5
  <2>7. \A i \in 1..Len(Tail(u)) :
           Wellformed(Tail(u)[i]) /\ (Tail(u)[i].irq => i < Len(Tail(u)))
    <3> SUFFICES ASSUME NEW i \in 1..Len(Tail(u))
                 PROVE  Wellformed(Tail(u)[i]) /\ (Tail(u)[i].irq => i < Len(Tail(u)))
      OBVIOUS
    <3>1. i + 1 \in 1..Len(u) /\ Tail(u)[i] = u[i + 1]
      BY <2>3
    <3>2. Wellformed(u[i + 1]) /\ (u[i + 1].irq => i + 1 < Len(u))
      BY <2>5, <3>1
    <3> QED
      BY <2>3, <3>1, <3>2
  <2>8. \A t \in Tasks : /\ Wellformed(frame'[t])
                         /\ frame'[t].irq => Len(under'[t]) > 0
    BY <2>4, <2>6 DEF Shape
  <2>9. \A t \in Tasks : \A i \in 1..Len(under'[t]) :
           Wellformed(under'[t][i]) /\ (under'[t][i].irq => i < Len(under'[t]))
    BY <2>4, <2>7 DEF Shape
  <2> QED
    BY <2>8, <2>9 DEF Shape, Wellformed
<1> QED
  BY <1>1, <1>2, <1>3, <1>4, <1>5

(* The places inside a call that ask nothing more of a frame that has left
   "pop" by the ordinary way in. *)
LEMMA PlainShape ==
    ASSUME TypeOK, Shape, Top.op # "idle",
           NEW place \in {"lock", "heap_lock", "heap", "unlist", "leave", "push"}
    PROVE  Wellformed(Moved(place))
  BY TopShape, MovedFields DEF Wellformed

LEMMA LockStepShape == ASSUME TypeOK, Shape PROVE
    PopInts \/ LockSched \/ LockHeap \/ HeapDone \/ Leave \/ PushInts => Shape'
<1>0. Top.at \in {"pop", "lock", "heap_lock", "heap", "unlist", "link"} => Top.op # "idle"
  BY TopShape DEF Wellformed
<1>1. ASSUME PopInts PROVE Shape'
  BY <1>0, <1>1, PlainShape, ShapeOfGoto DEF PopInts, Is
<1>2. ASSUME LockSched PROVE Shape'
  <2>1. Top.op # "idle" /\ Goto(UnderLock(Top.op)) /\ under' = under
    BY <1>0, <1>2 DEF LockSched, Is
  <2>2. Wellformed(Moved(UnderLock(Top.op)))
    BY <2>1, TopShape, MovedFields DEF Wellformed, UnderLock
  <2> QED
    BY <2>1, <2>2, ShapeOfGoto
<1>3. ASSUME LockHeap PROVE Shape'
  BY <1>0, <1>3, PlainShape, ShapeOfGoto DEF LockHeap, Is
<1>4. ASSUME HeapDone PROVE Shape'
  <2>0. under' = under /\ Top.op # "idle"
    BY <1>0, <1>4 DEF HeapDone, Is
  <2>1. CASE Top.op = "heap"
    <3>1. Wellformed(At("run")) /\ ~At("run").irq
      BY DEF At, Wellformed
    <3> QED
      BY <1>4, <2>0, <2>1, <3>1, ShapeOfTop DEF HeapDone
  <2>2. CASE Top.op = "new"
    <3>1. PICK flag \in StaleFlags :
            frame' = [frame EXCEPT ![Top.arg] = FreshFrame(flag), ![cpu] = Moved("lock")]
      BY <1>4, <2>2 DEF HeapDone
    <3>2. Wellformed(FreshFrame(flag)) /\ ~FreshFrame(flag).irq
      BY DEF FreshFrame, At, Wellformed
    <3>3. Wellformed(Moved("lock")) /\ (Moved("lock").irq => Len(under[cpu]) > 0)
      BY <2>0, PlainShape, MovedIrq, TopShape
    <3>4. \A t \in Tasks : frame'[t] = IF t = cpu THEN Moved("lock")
                                       ELSE IF t = Top.arg THEN FreshFrame(flag)
                                       ELSE frame[t]
      BY <3>1 DEF TypeOK
    <3>5. \A t \in Tasks : Wellformed(frame'[t]) /\ (frame'[t].irq => Len(under[t]) > 0)
      BY <3>2, <3>3, <3>4 DEF Shape
    <3> QED
      BY <2>0, <3>5 DEF Shape, Wellformed
  <2>3. CASE Top.op = "kill"
    BY <1>4, <2>0, <2>3, PlainShape, ShapeOfGoto DEF HeapDone
  <2>4. CASE Top.op = "exit"
    <3> DEFINE f == [Top EXCEPT !.at = "unlock", !.arg = current]
    <3>1. f.at = "unlock" /\ f.op = "exit" /\ f.arg \in Tasks
      BY <2>4, TopTypes DEF Frame, TypeOK
    <3>2. f.irq => Top.irq
      BY TopTypes DEF Frame
    <3>3. SetTop(f)
      BY <1>4, <2>4 DEF HeapDone
    <3> HIDE DEF f
    <3>4. Wellformed(f)
      BY <3>1 DEF Wellformed
    <3> QED
      BY <2>0, <3>2, <3>3, <3>4, ShapeOfTop
  <2> QED
    BY <1>4, <2>1, <2>2, <2>3, <2>4 DEF HeapDone
<1>5. ASSUME Leave PROVE Shape'
  <2>1. Wellformed(Moved("push"))
    BY <1>5, TopShape, MovedFields DEF Leave, Is, Wellformed
  <2> QED
    BY <1>5, <2>1, ShapeOfGoto DEF Leave
<1>6. ASSUME PushInts PROVE Shape'
  BY <1>6, BackFromShape DEF PushInts
<1> QED
  BY <1>1, <1>2, <1>3, <1>4, <1>5, <1>6

LEMMA ListShape == ASSUME TypeOK, Shape PROVE
    LinkTask \/ UnlistCurrent \/ UnlistOther \/ SelectNext => Shape'
<1>0. Top.at \in {"select", "unlist", "link"} => Top.op # "idle"
  BY TopShape DEF Wellformed
<1>1. ASSUME LinkTask PROVE Shape'
  BY <1>0, <1>1, PlainShape, ShapeOfGoto DEF LinkTask, Is
<1>2. ASSUME UnlistCurrent PROVE Shape'
  <2>1. CASE current = Kernel
    <3>1. frame' = frame /\ under' = under
      BY <1>2, <2>1 DEF UnlistCurrent
    <3> QED
      BY <3>1 DEF Shape
  <2>2. CASE current # Kernel
    <3> DEFINE f == [Top EXCEPT !.at = "heap_lock", !.op = "exit"]
    <3>1. f.at = "heap_lock" /\ f.op = "exit"
      BY TopTypes DEF Frame
    <3>2. f.irq => Top.irq
      BY TopTypes DEF Frame
    <3>3. SetTop(f) /\ under' = under
      BY <1>2, <2>2 DEF UnlistCurrent
    <3> HIDE DEF f
    <3>4. Wellformed(f)
      BY <3>1 DEF Wellformed
    <3> QED
      BY <3>2, <3>3, <3>4, ShapeOfTop
  <2> QED
    BY <2>1, <2>2
<1>3. ASSUME UnlistOther PROVE Shape'
  BY <1>0, <1>3, PlainShape, ShapeOfGoto DEF UnlistOther, Is
<1>4. ASSUME SelectNext PROVE Shape'
  <2>0. under' = under /\ Top.op # "idle"
    BY <1>0, <1>4 DEF SelectNext, Is
  <2>1. ASSUME NEW next \in Tasks, NEW op \in {"yield", "idle"}, SwitchTo(next, op)
        PROVE  Shape'
    <3> DEFINE f == [Top EXCEPT !.at = "unlock", !.op = op, !.old = current, !.arg = next]
    <3>1. f.at = "unlock" /\ f.op = op /\ f.arg = next
      BY TopTypes DEF Frame
    <3>2. f.irq => Top.irq
      BY TopTypes DEF Frame
    <3>3. SetTop(f)
      BY <2>1 DEF SwitchTo
    <3> HIDE DEF f
    <3>4. Wellformed(f)
      BY <3>1 DEF Wellformed
    <3> QED
      BY <2>0, <3>2, <3>3, <3>4, ShapeOfTop
  <2>2. ASSUME Stay PROVE Shape'
    BY <2>0, <2>2, PlainShape, ShapeOfGoto DEF Stay
  <2> QED
    BY <1>4, <2>1, <2>2, SelectTypes, TasksAssumption DEF SelectNext
<1> QED
  BY <1>1, <1>2, <1>3, <1>4

LEMMA SwitchShape == ASSUME TypeOK, Shape PROVE
    ReleaseToSwitch \/ LoadEsp \/ SwapStacks \/ Resume => Shape'
<1>1. ASSUME ReleaseToSwitch PROVE Shape'
  <2>1. Top.op \in {"yield", "idle", "exit"} /\ Top.arg \in Tasks
    BY <1>1, TopShape DEF ReleaseToSwitch, Is, Wellformed
  <2>2. Wellformed(Moved("load"))
    BY <2>1, MovedFields DEF Wellformed
  <2> QED
    BY <1>1, <2>2, ShapeOfGoto DEF ReleaseToSwitch
<1>2. ASSUME LoadEsp PROVE Shape'
  <2> DEFINE f == [Top EXCEPT !.at = "swap", !.esp = esp[Top.arg]]
  <2>1. Top.op \in {"yield", "idle", "exit"}
    BY <1>2, TopShape DEF LoadEsp, Is, Wellformed
  <2>2. f.at = "swap" /\ f.op = Top.op /\ f.arg = Top.arg
    BY TopTypes DEF Frame
  <2>3. f.irq => Top.irq
    BY TopTypes DEF Frame
  <2>4. SetTop(f) /\ under' = under
    BY <1>2 DEF LoadEsp
  <2> HIDE DEF f
  <2>5. Wellformed(f)
    BY <2>1, <2>2 DEF Wellformed
  <2> QED
    BY <2>3, <2>4, <2>5, ShapeOfTop
<1>3. ASSUME SwapStacks PROVE Shape'
  <2>1. CASE Top.esp \in Tasks /\ frame[Top.esp].at = "resume"
    <3> DEFINE f == [At("resume") EXCEPT !.irq = Top.irq, !.op = Top.op,
                                         !.fl = eflags_if]
    <3>1. Top.op \in {"yield", "idle", "exit"}
      BY <1>3, TopShape DEF SwapStacks, Is, Wellformed
    <3>2. f.at = "resume" /\ f.op = Top.op
      BY DEF At
    <3>3. f.irq => Top.irq
      BY DEF At
    <3>4. SetTop(f) /\ under' = under
      BY <1>3, <2>1 DEF SwapStacks
    <3> HIDE DEF f
    <3>5. Wellformed(f)
      BY <3>1, <3>2 DEF Wellformed
    <3> QED
      BY <3>3, <3>4, <3>5, ShapeOfTop
  <2>2. CASE ~(Top.esp \in Tasks /\ frame[Top.esp].at = "resume")
    <3>1. frame' = frame /\ under' = under
      BY <1>3, <2>2 DEF SwapStacks
    <3> QED
      BY <3>1 DEF Shape
  <2> QED
    BY <2>1, <2>2
<1>4. ASSUME Resume PROVE Shape'
  <2>1. CASE Top.op = "idle"
    <3> DEFINE f == [Top EXCEPT !.at = "leave", !.fl = TRUE]
    <3>1. f.at = "leave" /\ f.op = "idle"
      BY <2>1, TopTypes DEF Frame
    <3>2. f.irq => Top.irq
      BY TopTypes DEF Frame
    <3>3. SetTop(f) /\ under' = under
      BY <1>4, <2>1 DEF Resume
    <3> HIDE DEF f
    <3>4. Wellformed(f)
      BY <3>1 DEF Wellformed
    <3> QED
      BY <3>2, <3>3, <3>4, ShapeOfTop
  <2>2. CASE Top.op # "idle"
    BY <1>4, <2>2, BackFromShape DEF Resume
  <2> QED
    BY <2>1, <2>2
<1> QED
  BY <1>1, <1>2, <1>3, <1>4

LEMMA NextShape == ASSUME TypeOK, Shape, [Next]_vars PROVE Shape'
<1>1. CASE Next
  BY <1>1, CallShape, InterruptShape, LockStepShape, ListShape, SwitchShape
  DEF Next, KernelStep
<1>2. CASE UNCHANGED vars
  BY <1>2 DEF vars, Shape, Wellformed
<1> QED
  BY <1>1, <1>2
-----------------------------------------------------------------------------
(* The lock *)

LEMMA InitLock == Init => LockInv
<1> SUFFICES ASSUME Init PROVE LockInv
  OBVIOUS
<1>1. \A t \in Tasks : frame[t].at \in {"run", "resume"}
  BY DEF Init, FreshFrame, At
<1>2. \A t \in Tasks : ~Holding(frame[t])
  BY <1>1 DEF Holding
<1>3. \A t \in Tasks : NoneHolds(under[t])
  BY DEF Init, NoneHolds
<1>4. cpu \in Tasks /\ lock = Unlocked
  BY TasksAssumption DEF Init
<1> QED
  BY <1>2, <1>3, <1>4 DEF LockInv, Top, Unlocked, Locked

(* A step of the top frame that neither takes nor releases the lock. *)
LEMMA LockKept ==
    ASSUME TypeOK, LockInv, NEW f, SetTop(f), under' = under, cpu' = cpu, lock' = lock,
           Holding(f) <=> Holding(Top), Waiting(Top) => Waiting(f)
    PROVE  LockInv'
<1>1. \A t \in Tasks : frame'[t] = IF t = cpu THEN f ELSE frame[t]
  BY DEF SetTop, TypeOK
<1>2. Top' = f
  BY <1>1 DEF Top, TypeOK
<1>3. \A t \in Tasks : t # cpu => ~Holding(frame'[t])
  BY <1>1 DEF LockInv
<1> QED
  BY <1>2, <1>3 DEF LockInv

LEMMA LockTaken ==
    ASSUME TypeOK, LockInv, NEW f, SetTop(f), under' = under, cpu' = cpu,
           Lock(lock), Holding(f)
    PROVE  LockInv'
<1>1. \A t \in Tasks : frame'[t] = IF t = cpu THEN f ELSE frame[t]
  BY DEF SetTop, TypeOK
<1>2. Top' = f
  BY <1>1 DEF Top, TypeOK
<1>3. \A t \in Tasks : t # cpu => ~Holding(frame'[t])
  BY <1>1 DEF LockInv
<1> QED
  BY <1>2, <1>3 DEF LockInv, Lock, Locked, Unlocked

(* Nobody is in the section when the top frame neither holds nor waits, and
   only that frame is when it holds. *)
LEMMA Quiet ==
    ASSUME TypeOK, LockInv, ~Waiting(Top)
    PROVE  /\ \A t \in Tasks : NoneHolds(under[t]) /\ (t # cpu => ~Holding(frame[t]))
           /\ ~Holding(Top) => lock = Unlocked
<1>1. lock \in {Unlocked, Locked}
  BY DEF TypeOK
<1> QED
  BY <1>1 DEF LockInv

LEMMA LockFree ==
    ASSUME TypeOK, lock' = Unlocked, cpu' \in Tasks,
           \A t \in Tasks : ~Holding(frame'[t]) /\ NoneHolds(under'[t])
    PROVE  LockInv'
  BY DEF LockInv, Top, Unlocked, Locked

LEMMA LockReleased ==
    ASSUME TypeOK, LockInv, NEW f, SetTop(f), under' = under, cpu' = cpu,
           lock' = Unlocked, ~Waiting(Top), ~Holding(f)
    PROVE  LockInv'
<1>1. \A t \in Tasks : frame'[t] = IF t = cpu THEN f ELSE frame[t]
  BY DEF SetTop, TypeOK
<1>2. \A t \in Tasks : ~Holding(frame'[t]) /\ NoneHolds(under[t])
  BY <1>1, Quiet
<1> QED
  BY <1>2, LockFree DEF TypeOK

(* What the place of a frame says about it. *)
LEMMA PlaceFacts ==
    ASSUME NEW f
    PROVE  /\ f.at \in {"run", "tick", "pop", "lock", "load", "swap", "resume",
                        "push", "undo", "exit", "iret"} => ~Holding(f)
           /\ f.at \in {"select", "link", "unlist", "unlock"} => Holding(f)
           /\ f.at \in {"tick", "exit", "iret"} => Waiting(f)
           /\ f.at \notin {"tick", "exit", "iret", "pop", "lock"} => ~Waiting(f)
  BY DEF Holding, Waiting

LEMMA LockSame ==
    ASSUME LockInv, UNCHANGED <<frame, under, cpu, lock>> PROVE LockInv'
<1>1. Top' = Top
  BY DEF Top
<1> QED
  BY <1>1 DEF LockInv

LEMMA CallLock == ASSUME TypeOK, Shape, LockInv PROVE TaskCall => LockInv'
<1>0. ASSUME NEW f, SetTop(f), Top.at = "run", under' = under, cpu' = cpu, lock' = lock,
             ~Holding(f)
      PROVE  LockInv'
  <2>1. ~Holding(Top) /\ ~Waiting(Top)
    BY <1>0, PlaceFacts
  <2> QED
    BY <1>0, <2>1, LockKept
<1>1. ASSUME NEW call, NEW op, NEW args, Call(call, op, args) PROVE LockInv'
  <2>1. PICK t \in args : SetTop(Entry("pop", op, t))
    BY <1>1 DEF Call, Enter
  <2>2. Top.at = "run" /\ under' = under /\ cpu' = cpu /\ lock' = lock
    BY <1>1 DEF Call, InCall, Is, lockVars
  <2>3. ~Holding(Entry("pop", op, t))
    BY EntryFields, PlaceFacts
  <2> QED
    BY <1>0, <2>1, <2>2, <2>3
<1>2. ASSUME Sleep \/ FaultKill \/ UseHeap PROVE LockInv'
  <2>1. Top.at = "run" /\ under' = under /\ cpu' = cpu /\ lock' = lock
    BY <1>2 DEF Sleep, FaultKill, UseHeap, InCall, Is, lockVars
  <2>2. \/ SetTop(Entry("pop", "yield", NoTask)) \/ SetTop(Entry("pop", "exit", NoTask))
        \/ SetTop(Entry("heap_lock", "heap", NoTask))
    BY <1>2 DEF Sleep, FaultKill, UseHeap, Enter
  <2>3. /\ ~Holding(Entry("pop", "yield", NoTask)) /\ ~Holding(Entry("pop", "exit", NoTask))
        /\ ~Holding(Entry("heap_lock", "heap", NoTask))
    BY EntryFields DEF Holding
  <2> QED
    BY <1>0, <2>1, <2>2, <2>3
<1>3. ASSUME NewTask PROVE LockInv'
  <2>1. PICK t \in Tasks \ created : SetTop(Entry("pop", "new", t))
    BY <1>3 DEF NewTask, Enter
  <2>2. Top.at = "run" /\ under' = under /\ cpu' = cpu /\ lock' = lock
    BY <1>3 DEF NewTask, InCall, Is, lockVars
  <2>3. ~Holding(Entry("pop", "new", t))
    BY EntryFields, PlaceFacts
  <2> QED
    BY <1>0, <2>1, <2>2, <2>3
<1>4. ASSUME KillKernel \/ FaultPanic PROVE LockInv'
  BY <1>4, LockSame DEF KillKernel, FaultPanic, lockVars
<1>5. ASSUME Yield \/ Dump \/ KillMe \/ KillTask \/ KillOwnId PROVE LockInv'
  BY <1>1, <1>5 DEF Yield, Dump, KillMe, KillTask, KillOwnId
<1> QED
  BY <1>2, <1>3, <1>4, <1>5 DEF TaskCall

(* The frame of the interrupted code goes under the handler's. *)
LEMMA PushLock == ASSUME TypeOK, LockInv, TimerInterrupt PROVE LockInv'
<1> DEFINE f == [At("tick") EXCEPT !.irq = TRUE]
           u == under[cpu]
           s == <<Top>> \o u
<1>1. /\ \A t \in Tasks : frame'[t] = IF t = cpu THEN f ELSE frame[t]
      /\ \A t \in Tasks : under'[t] = IF t = cpu THEN s ELSE under[t]
      /\ cpu' = cpu /\ lock' = lock /\ cpu \in Tasks
  BY DEF TimerInterrupt, SetTop, TypeOK, lockVars
<1>2. f.at = "tick"
  BY DEF At
<1>3. /\ Len(u) \in Nat /\ Len(s) = Len(u) + 1
      /\ \A i \in 1..Len(s) : s[i] = IF i = 1 THEN Top ELSE u[i - 1]
  <2>1. u \in Seq(Frame) /\ <<Top>> \in Seq(Frame) /\ Len(<<Top>>) = 1
    BY TopTypes DEF TypeOK
  <2>2. Len(u) \in Nat
    BY <2>1, LenProperties
  <2> QED
    BY <2>1, <2>2, ConcatProperties
<1> HIDE DEF f, s, u
<1>4. Top' = f /\ under'[cpu] = s
  BY <1>1 DEF Top
<1>5. ~Holding(f) /\ Waiting(f)
  BY <1>2, PlaceFacts
<1>6. \A t \in Tasks : t # cpu' => ~Holding(frame'[t]) /\ NoneHolds(under'[t])
  BY <1>1 DEF LockInv
<1>7. lock' = Unlocked => ~Holding(Top') /\ NoneHolds(under'[cpu'])
  <2> SUFFICES ASSUME lock = Unlocked PROVE NoneHolds(s)
    BY <1>1, <1>4, <1>5
  <2>1. ~Holding(Top) /\ NoneHolds(u)
    BY DEF LockInv, u
  <2>2. \A i \in 1..Len(s) : i = 1 \/ i - 1 \in 1..Len(u)
    BY <1>3
  <2> QED
    BY <1>3, <2>1, <2>2 DEF NoneHolds
<1>8. ASSUME lock = Locked
      PROVE  \E i \in 1..Len(s) :
                /\ Holding(s[i])
                /\ \A j \in 1..Len(s) : /\ j < i => Waiting(s[j])
                                        /\ j > i => ~Holding(s[j])
  <2>0. \A j \in 1..Len(s) : j > 1 => j - 1 \in 1..Len(u) /\ s[j] = u[j - 1]
    BY <1>3
  <2>1. CASE Holding(Top) /\ NoneHolds(u)
    <3>1. \A j \in 1..Len(s) : j > 1 => ~Holding(s[j])
      BY <2>0, <2>1 DEF NoneHolds
    <3>2. 1 \in 1..Len(s) /\ s[1] = Top /\ \A j \in 1..Len(s) : ~(j < 1)
      BY <1>3
    <3> QED
      BY <2>1, <3>1, <3>2
  <2>2. CASE /\ Waiting(Top)
             /\ \E i \in 1..Len(u) :
                  /\ Holding(u[i])
                  /\ \A j \in 1..Len(u) : /\ j < i => Waiting(u[j])
                                          /\ j > i => ~Holding(u[j])
    <3>1. PICK i \in 1..Len(u) :
                  /\ Holding(u[i])
                  /\ \A j \in 1..Len(u) : /\ j < i => Waiting(u[j])
                                          /\ j > i => ~Holding(u[j])
      BY <2>2
    <3>2. i + 1 \in 1..Len(s) /\ s[i + 1] = u[i] /\ s[1] = Top
      BY <1>3
    <3>3. \A j \in 1..Len(s) : /\ j < i + 1 => Waiting(s[j])
                               /\ j > i + 1 => ~Holding(s[j])
      <4> SUFFICES ASSUME NEW j \in 1..Len(s)
                   PROVE  /\ j < i + 1 => Waiting(s[j])
                          /\ j > i + 1 => ~Holding(s[j])
        OBVIOUS
      <4>1. CASE j = 1
        BY <2>2, <3>2, <4>1
      <4>2. CASE j > 1
        <5>1. j - 1 \in 1..Len(u) /\ s[j] = u[j - 1]
          BY <2>0, <4>2
        <5>2. (j < i + 1 => j - 1 < i) /\ (j > i + 1 => j - 1 > i)
          BY <1>3
        <5> QED
          BY <3>1, <5>1, <5>2
      <4>3. j = 1 \/ j > 1
        BY <1>3
      <4> QED
        BY <4>1, <4>2, <4>3
    <3> QED
      BY <3>1, <3>2, <3>3
  <2> QED
    BY <1>8, <2>1, <2>2 DEF LockInv, u
<1> QED
  BY <1>1, <1>4, <1>5, <1>6, <1>7, <1>8 DEF LockInv

(* iret uncovers a frame that waits, or the holder itself. *)
LEMMA PopLock == ASSUME TypeOK, Shape, LockInv, Iret PROVE LockInv'
<1> DEFINE u == under[cpu]
           s == Tail(u)
<1>1. /\ \A t \in Tasks : frame'[t] = IF t = cpu THEN Head(u) ELSE frame[t]
      /\ \A t \in Tasks : under'[t] = IF t = cpu THEN s ELSE under[t]
      /\ cpu' = cpu /\ lock' = lock /\ cpu \in Tasks
  BY DEF Iret, SetTop, TypeOK, lockVars
<1>2. u \in Seq(Frame) /\ Len(u) > 0
  BY TopShape DEF Iret, Is, Wellformed, TypeOK
<1>3. /\ Len(u) \in Nat /\ Head(u) = u[1] /\ Len(s) = Len(u) - 1
      /\ \A i \in 1..Len(s) : s[i] = u[i + 1]
  <2>1. u # << >>
    BY <1>2, EmptySeq
  <2> QED
    BY <1>2, <2>1, LenProperties, HeadTailProperties DEF u
<1>4. ~Holding(Top) /\ Waiting(Top)
  BY PlaceFacts DEF Iret, Is
<1> HIDE DEF s, u
<1>5. Top' = u[1] /\ under'[cpu'] = s
  BY <1>1, <1>3 DEF Top
<1>6. \A t \in Tasks : t # cpu' => ~Holding(frame'[t]) /\ NoneHolds(under'[t])
  BY <1>1 DEF LockInv
<1>7. 1 \in 1..Len(u) /\ \A i \in 1..Len(s) : i + 1 \in 1..Len(u) /\ s[i] = u[i + 1]
  BY <1>2, <1>3
<1>8. ASSUME lock = Unlocked PROVE ~Holding(u[1]) /\ NoneHolds(s)
  <2>1. NoneHolds(u)
    BY <1>8 DEF LockInv, u
  <2> QED
    BY <1>7, <2>1 DEF NoneHolds
<1>9. ASSUME lock = Locked
      PROVE  \/ Holding(u[1]) /\ NoneHolds(s)
             \/ /\ Waiting(u[1])
                /\ \E i \in 1..Len(s) :
                     /\ Holding(s[i])
                     /\ \A j \in 1..Len(s) : /\ j < i => Waiting(s[j])
                                             /\ j > i => ~Holding(s[j])
  <2>1. PICK i \in 1..Len(u) :
          /\ Holding(u[i])
          /\ \A j \in 1..Len(u) : /\ j < i => Waiting(u[j])
                                  /\ j > i => ~Holding(u[j])
    BY <1>4, <1>9 DEF LockInv, u
  <2>2. CASE i = 1
    <3>1. \A j \in 1..Len(s) : j + 1 > i
      BY <1>3, <2>2
    <3>2. NoneHolds(s)
      BY <1>7, <2>1, <3>1 DEF NoneHolds
    <3> QED
      BY <2>1, <2>2, <3>2
  <2>3. CASE i > 1
    <3>1. i - 1 \in 1..Len(s) /\ s[i - 1] = u[i]
      BY <1>3, <2>3
    <3>2. Waiting(u[1])
      BY <1>7, <2>1, <2>3
    <3>3. \A j \in 1..Len(s) : /\ j < i - 1 => j + 1 < i
                               /\ j > i - 1 => j + 1 > i
      BY <1>3
    <3>4. \A j \in 1..Len(s) : /\ j < i - 1 => Waiting(s[j])
                               /\ j > i - 1 => ~Holding(s[j])
      BY <1>7, <2>1, <3>3
    <3> QED
      BY <2>1, <3>1, <3>2, <3>4
  <2>4. i = 1 \/ i > 1
    BY <1>3
  <2> QED
    BY <2>2, <2>3, <2>4
<1> QED
  BY <1>1, <1>5, <1>6, <1>8, <1>9 DEF LockInv

LEMMA InterruptLock == ASSUME TypeOK, Shape, LockInv PROVE
    Tick \/ UndoCount \/ ExitInterrupt => LockInv'
<1>1. ASSUME Tick PROVE LockInv'
  <2>0. /\ ~Holding(Top) /\ under' = under /\ cpu' = cpu /\ lock' = lock
    BY <1>1, PlaceFacts DEF Tick, Is, lockVars
  <2>1. CASE phase' = 0
    <3> DEFINE f == [Top EXCEPT !.at = "pop", !.op = "yield"]
    <3>1. f.at = "pop" /\ f.op = "yield" /\ SetTop(f)
      BY <1>1, <2>1, TopTypes DEF Frame, Tick
    <3> HIDE DEF f
    <3>2. ~Holding(f) /\ Waiting(f)
      BY <3>1 DEF Holding, Waiting
    <3> QED
      BY <2>0, <3>1, <3>2, LockKept
  <2>2. CASE phase' # 0
    <3>1. ~Holding(Moved("exit")) /\ Waiting(Moved("exit"))
      BY MovedFields, PlaceFacts
    <3>2. SetTop(Moved("exit"))
      BY <1>1, <2>2 DEF Tick, Goto
    <3> QED
      BY <2>0, <3>1, <3>2, LockKept
  <2> QED
    BY <2>1, <2>2
<1>2. ASSUME UndoCount \/ ExitInterrupt PROVE LockInv'
  <2>0. ~Holding(Top) /\ under' = under /\ cpu' = cpu /\ lock' = lock
    BY <1>2, PlaceFacts DEF UndoCount, ExitInterrupt, Is, lockVars
  <2>1. \A place \in {"exit", "iret"} : ~Holding(Moved(place)) /\ Waiting(Moved(place))
    BY MovedFields, PlaceFacts
  <2>2. SetTop(Moved("exit")) \/ SetTop(Moved("iret"))
    BY <1>2 DEF UndoCount, ExitInterrupt, Goto
  <2> QED
    BY <2>0, <2>1, <2>2, LockKept
<1> QED
  BY <1>1, <1>2

LEMMA LockStepLock == ASSUME TypeOK, Shape, LockInv PROVE
    PopInts \/ LockSched \/ LockHeap \/ HeapDone \/ Leave \/ PushInts => LockInv'
<1>1. ASSUME PopInts PROVE LockInv'
  <2>0. /\ ~Holding(Top) /\ Top.at = "pop" /\ under' = under /\ cpu' = cpu /\ lock' = lock
    BY <1>1, PlaceFacts DEF PopInts, Is, lockVars
  <2>1. CASE Top.op = "new"
    <3>1. SetTop(Moved("heap_lock"))
      BY <1>1, <2>1 DEF PopInts, Goto
    <3>2. ~Holding(Moved("heap_lock")) /\ ~Waiting(Top)
      BY <2>0, <2>1, MovedFields DEF Holding, Waiting
    <3> QED
      BY <2>0, <3>1, <3>2, LockKept
  <2>2. CASE Top.op # "new"
    <3>1. SetTop(Moved("lock"))
      BY <1>1, <2>2 DEF PopInts, Goto
    <3>2. ~Holding(Moved("lock")) /\ Waiting(Moved("lock"))
      BY <2>2, MovedFields DEF Holding, Waiting
    <3> QED
      BY <2>0, <3>1, <3>2, LockKept
  <2> QED
    BY <2>1, <2>2
<1>2. ASSUME LockSched PROVE LockInv'
  <2>0. /\ Top.at = "lock" /\ under' = under /\ cpu' = cpu /\ Lock(lock)
        /\ SetTop(Moved(UnderLock(Top.op)))
    BY <1>2 DEF LockSched, Is, Goto
  <2>1. Top.op # "idle"
    BY <2>0, TopShape DEF Wellformed
  <2>2. Holding(Moved(UnderLock(Top.op)))
    BY <2>1, MovedFields DEF Holding, UnderLock
  <2> QED
    BY <2>0, <2>2, LockTaken
<1>3. ASSUME LockHeap PROVE LockInv'
  <2>0. /\ Top.at = "heap_lock" /\ under' = under /\ cpu' = cpu /\ lock' = lock
        /\ SetTop(Moved("heap"))
    BY <1>3 DEF LockHeap, Is, Goto
  <2>1. (Holding(Moved("heap")) <=> Holding(Top)) /\ ~Waiting(Top)
    BY <2>0, MovedFields DEF Holding, Waiting
  <2> QED
    BY <2>0, <2>1, LockKept
<1>4. ASSUME HeapDone PROVE LockInv'
  <2>0. /\ Top.at = "heap" /\ under' = under /\ cpu' = cpu /\ lock' = lock
        /\ ~Waiting(Top)
    BY <1>4, PlaceFacts DEF HeapDone, Is
  <2>1. CASE Top.op = "heap"
    <3>1. SetTop(At("run"))
      BY <1>4, <2>1 DEF HeapDone
    <3>2. At("run").at = "run"
      BY DEF At
    <3>3. ~Holding(At("run")) /\ ~Holding(Top)
      BY <2>0, <2>1, <3>2 DEF Holding
    <3> QED
      BY <2>0, <3>1, <3>3, LockKept
  <2>2. CASE Top.op = "new"
    <3>1. PICK flag \in StaleFlags :
            frame' = [frame EXCEPT ![Top.arg] = FreshFrame(flag), ![cpu] = Moved("lock")]
      BY <1>4, <2>2 DEF HeapDone
    <3>2. FreshFrame(flag).at = "resume" /\ Moved("lock").at = "lock"
      BY MovedFields DEF FreshFrame, At
    <3>3. ~Holding(FreshFrame(flag)) /\ ~Holding(Moved("lock")) /\ ~Holding(Top)
      BY <2>0, <2>2, <3>2, PlaceFacts DEF Holding
    <3>4. \A t \in Tasks : frame'[t] = IF t = cpu THEN Moved("lock")
                                       ELSE IF t = Top.arg THEN FreshFrame(flag)
                                       ELSE frame[t]
      BY <3>1 DEF TypeOK
    <3>5. \A t \in Tasks : ~Holding(frame'[t]) /\ NoneHolds(under'[t])
      BY <2>0, <3>3, <3>4, Quiet
    <3> QED
      BY <2>0, <3>3, <3>5, Quiet, LockFree DEF TypeOK
  <2>3. CASE Top.op = "kill"
    <3>1. SetTop(Moved("leave"))
      BY <1>4, <2>3 DEF HeapDone, Goto
    <3>2. Holding(Moved("leave")) /\ Holding(Top)
      BY <2>0, <2>3, MovedFields DEF Holding
    <3> QED
      BY <2>0, <3>1, <3>2, LockKept
  <2>4. CASE Top.op = "exit"
    <3> DEFINE f == [Top EXCEPT !.at = "unlock", !.arg = current]
    <3>1. SetTop(f) /\ f.at = "unlock"
      BY <1>4, <2>4, TopTypes DEF HeapDone, Frame
    <3> HIDE DEF f
    <3>2. Holding(f) /\ Holding(Top)
      BY <2>0, <2>4, <3>1 DEF Holding
    <3> QED
      BY <2>0, <3>1, <3>2, LockKept
  <2> QED
    BY <1>4, <2>1, <2>2, <2>3, <2>4 DEF HeapDone
<1>5. ASSUME Leave PROVE LockInv'
  <2>0. /\ Top.at = "leave" /\ under' = under /\ cpu' = cpu /\ lock' = Unlocked
        /\ SetTop(Moved("push"))
    BY <1>5 DEF Leave, Is, Release, Goto
  <2>1. ~Waiting(Top) /\ ~Holding(Moved("push"))
    BY <2>0, MovedFields, PlaceFacts
  <2> QED
    BY <2>0, <2>1, LockReleased
<1>6. ASSUME PushInts PROVE LockInv'
  <2>0. /\ Top.at = "push" /\ under' = under /\ cpu' = cpu /\ lock' = lock
        /\ SetTop(BackFrom(Top))
    BY <1>6 DEF PushInts, Is, lockVars
  <2>1. BackFrom(Top).at \in {"undo", "run"}
    BY DEF BackFrom, At
  <2>2. ~Waiting(Top) /\ ~Holding(Top) /\ ~Holding(BackFrom(Top))
    BY <2>0, <2>1, PlaceFacts
  <2> QED
    BY <2>0, <2>2, LockKept
<1> QED
  BY <1>1, <1>2, <1>3, <1>4, <1>5, <1>6

LEMMA ListLock == ASSUME TypeOK, Shape, LockInv PROVE
    LinkTask \/ UnlistCurrent \/ UnlistOther \/ SelectNext => LockInv'
<1>0. ASSUME NEW f, SetTop(f), Holding(f), Top.at \in {"link", "unlist", "select"},
             under' = under, cpu' = cpu, lock' = lock
      PROVE  LockInv'
  <2>1. Holding(Top) /\ ~Waiting(Top)
    BY <1>0, PlaceFacts
  <2> QED
    BY <1>0, <2>1, LockKept
<1>1. Top.at \in {"link", "unlist", "select"} => Top.op # "idle"
  BY TopShape DEF Wellformed
<1>2. ASSUME LinkTask PROVE LockInv'
  <2>1. /\ Top.at = "link" /\ under' = under /\ cpu' = cpu /\ lock' = lock
        /\ SetTop(Moved("leave"))
    BY <1>2 DEF LinkTask, Is, Goto, lockVars
  <2>2. Holding(Moved("leave"))
    BY <1>1, <2>1, MovedFields DEF Holding
  <2> QED
    BY <1>0, <2>1, <2>2
<1>3. ASSUME UnlistCurrent PROVE LockInv'
  <2>1. Top.at = "unlist" /\ under' = under /\ cpu' = cpu /\ lock' = lock
    BY <1>3 DEF UnlistCurrent, Is, lockVars
  <2>2. CASE current = Kernel
    <3>1. frame' = frame
      BY <1>3, <2>2 DEF UnlistCurrent
    <3> QED
      BY <2>1, <3>1, LockSame
  <2>3. CASE current # Kernel
    <3> DEFINE f == [Top EXCEPT !.at = "heap_lock", !.op = "exit"]
    <3>1. f.at = "heap_lock" /\ f.op = "exit" /\ SetTop(f)
      BY <1>3, <2>3, TopTypes DEF Frame, UnlistCurrent
    <3> HIDE DEF f
    <3>2. Holding(f)
      BY <3>1 DEF Holding
    <3> QED
      BY <1>0, <2>1, <3>1, <3>2
  <2> QED
    BY <2>2, <2>3
<1>4. ASSUME UnlistOther PROVE LockInv'
  <2>1. /\ Top.at = "unlist" /\ Top.op = "kill"
        /\ under' = under /\ cpu' = cpu /\ lock' = lock
        /\ SetTop(Moved("heap_lock")) \/ SetTop(Moved("leave"))
    BY <1>4 DEF UnlistOther, Is, Goto, lockVars
  <2>2. Holding(Moved("heap_lock")) /\ Holding(Moved("leave"))
    BY <2>1, MovedFields DEF Holding
  <2> QED
    BY <1>0, <2>1, <2>2
<1>5. ASSUME SelectNext PROVE LockInv'
  <2>1. Top.at = "select" /\ under' = under /\ cpu' = cpu /\ lock' = lock
    BY <1>5 DEF SelectNext, Is, lockVars
  <2>2. ASSUME NEW next, NEW op, SwitchTo(next, op) PROVE LockInv'
    <3> DEFINE f == [Top EXCEPT !.at = "unlock", !.op = op, !.old = current, !.arg = next]
    <3>1. f.at = "unlock" /\ SetTop(f)
      BY <2>2, TopTypes DEF Frame, SwitchTo
    <3> HIDE DEF f
    <3>2. Holding(f)
      BY <3>1, PlaceFacts
    <3> QED
      BY <1>0, <2>1, <3>1, <3>2
  <2>3. ASSUME Stay PROVE LockInv'
    <3>1. SetTop(Moved("leave"))
      BY <2>3 DEF Stay, Goto
    <3>2. Holding(Moved("leave"))
      BY <1>1, <2>1, MovedFields DEF Holding
    <3> QED
      BY <1>0, <2>1, <3>1, <3>2
  <2> QED
    BY <1>5, <2>2, <2>3 DEF SelectNext
<1> QED
  BY <1>2, <1>3, <1>4, <1>5

(* The stacks are exchanged with the lock released: nobody is in the section. *)
LEMMA SwitchLock == ASSUME TypeOK, Shape, LockInv PROVE
    ReleaseToSwitch \/ LoadEsp \/ SwapStacks \/ Resume => LockInv'
<1>1. ASSUME ReleaseToSwitch PROVE LockInv'
  <2>1. /\ Top.at = "unlock" /\ under' = under /\ cpu' = cpu /\ lock' = Unlocked
        /\ SetTop(Moved("load"))
    BY <1>1 DEF ReleaseToSwitch, Is, Release, Goto
  <2>2. ~Waiting(Top) /\ ~Holding(Moved("load"))
    BY <2>1, MovedFields, PlaceFacts
  <2> QED
    BY <2>1, <2>2, LockReleased
<1>2. ASSUME LoadEsp PROVE LockInv'
  <2> DEFINE f == [Top EXCEPT !.at = "swap", !.esp = esp[Top.arg]]
  <2>1. Top.at = "load" /\ under' = under /\ cpu' = cpu /\ lock' = lock
    BY <1>2 DEF LoadEsp, Is, lockVars
  <2>2. f.at = "swap" /\ SetTop(f)
    BY <1>2, TopTypes DEF Frame, LoadEsp
  <2> HIDE DEF f
  <2>3. ~Holding(f) /\ ~Holding(Top) /\ ~Waiting(Top)
    BY <2>1, <2>2, PlaceFacts
  <2> QED
    BY <2>1, <2>2, <2>3, LockKept
<1>3. ASSUME SwapStacks PROVE LockInv'
  <2>1. Top.at = "swap" /\ under' = under /\ lock' = lock
    BY <1>3 DEF SwapStacks, Is, lockVars
  <2>2. ~Waiting(Top) /\ ~Holding(Top)
    BY <2>1, PlaceFacts
  <2>3. /\ lock' = Unlocked
        /\ \A t \in Tasks : ~Holding(frame[t]) /\ NoneHolds(under'[t])
    BY <2>1, <2>2, Quiet DEF Top
  <2>4. CASE Top.esp \in Tasks /\ frame[Top.esp].at = "resume"
    <3> DEFINE f == [At("resume") EXCEPT !.irq = Top.irq, !.op = Top.op,
                                         !.fl = eflags_if]
    <3>1. f.at = "resume" /\ SetTop(f) /\ cpu' \in Tasks
      BY <1>3, <2>4 DEF At, SwapStacks
    <3> HIDE DEF f
    <3>2. \A t \in Tasks : frame'[t] = IF t = cpu THEN f ELSE frame[t]
      BY <3>1 DEF SetTop, TypeOK
    <3>3. ~Holding(f)
      BY <3>1, PlaceFacts
    <3>4. \A t \in Tasks : ~Holding(frame'[t])
      BY <2>3, <3>2, <3>3
    <3> QED
      BY <2>3, <3>1, <3>4, LockFree
  <2>5. CASE ~(Top.esp \in Tasks /\ frame[Top.esp].at = "resume")
    <3>1. frame' = frame /\ cpu' = cpu
      BY <1>3, <2>5 DEF SwapStacks
    <3> QED
      BY <2>1, <3>1, LockSame
  <2> QED
    BY <2>4, <2>5
<1>4. ASSUME Resume PROVE LockInv'
  <2>1. Top.at = "resume" /\ under' = under /\ cpu' = cpu /\ lock' = lock
    BY <1>4 DEF Resume, Is, lockVars
  <2>2. ~Holding(Top) /\ ~Waiting(Top)
    BY <2>1, PlaceFacts
  <2>3. CASE Top.op = "idle"
    <3> DEFINE f == [Top EXCEPT !.at = "leave", !.fl = TRUE]
    <3>1. f.at = "leave" /\ f.op = "idle" /\ SetTop(f)
      BY <1>4, <2>3, TopTypes DEF Frame, Resume
    <3> HIDE DEF f
    <3>2. ~Holding(f)
      BY <3>1 DEF Holding
    <3> QED
      BY <2>1, <2>2, <3>1, <3>2, LockKept
  <2>4. CASE Top.op # "idle"
    <3>1. SetTop(BackFrom(Top))
      BY <1>4, <2>4 DEF Resume
    <3>2. BackFrom(Top).at \in {"undo", "run"}
      BY DEF BackFrom, At
    <3>3. ~Holding(BackFrom(Top))
      BY <3>2, PlaceFacts
    <3> QED
      BY <2>1, <2>2, <3>1, <3>3, LockKept
  <2> QED
    BY <2>3, <2>4
<1> QED
  BY <1>1, <1>2, <1>3, <1>4

LEMMA NextLock == ASSUME TypeOK, Shape, LockInv, [Next]_vars PROVE LockInv'
<1>1. CASE Next
  BY <1>1, CallLock, PushLock, PopLock, InterruptLock, LockStepLock, ListLock, SwitchLock
  DEF Next, KernelStep
<1>2. CASE UNCHANGED vars
  BY <1>2, LockSame DEF vars, lockVars
<1> QED
  BY <1>1, <1>2

LEMMA LockInvExcludes == ASSUME TypeOK, LockInv PROVE LockExclusion
<1>1. \A t \in Tasks : /\ under[t] \in Seq(Frame) /\ Len(under[t]) \in Nat
                       /\ DOMAIN StackOf(t) = 1..(Len(under[t]) + 1)
                       /\ StackOf(t)[1] = frame[t]
                       /\ \A i \in 1..Len(under[t]) : StackOf(t)[i + 1] = under[t][i]
  <2> SUFFICES ASSUME NEW t \in Tasks
               PROVE  /\ under[t] \in Seq(Frame) /\ Len(under[t]) \in Nat
                      /\ DOMAIN StackOf(t) = 1..(Len(under[t]) + 1)
                      /\ StackOf(t)[1] = frame[t]
                      /\ \A i \in 1..Len(under[t]) : StackOf(t)[i + 1] = under[t][i]
    OBVIOUS
  <2>1. under[t] \in Seq(Frame) /\ <<frame[t]>> \in Seq(Frame) /\ Len(<<frame[t]>>) = 1
    BY DEF TypeOK
  <2>2. Len(under[t]) \in Nat
    BY <2>1, LenProperties
  <2> QED
    BY <2>1, <2>2, ConcatProperties, LenProperties DEF StackOf
<1>2. \A t \in Tasks : \A i \in DOMAIN StackOf(t) :
         i = 1 \/ (i - 1 \in 1..Len(under[t]) /\ StackOf(t)[i] = under[t][i - 1])
  BY <1>1
<1>3. \A t \in Tasks : ~Holding(frame[t]) /\ NoneHolds(under[t]) => Holders(t) = {}
  BY <1>1, <1>2 DEF Holders, NoneHolds
<1>4. cpu \in Tasks /\ Top = frame[cpu]
  BY DEF TypeOK, Top
<1>5. \A t \in Tasks \ {cpu} : Holders(t) = {}
  BY <1>3 DEF LockInv
<1>6. lock = Unlocked => Holders(cpu) = {}
  BY <1>3, <1>4 DEF LockInv
<1>7. ASSUME lock = Locked PROVE \E i \in Holders(cpu) : Holders(cpu) = {i}
  <2>1. CASE Holding(Top) /\ NoneHolds(under[cpu])
    <3>1. 1 \in Holders(cpu)
      BY <1>1, <1>4, <2>1 DEF Holders
    <3>2. \A i \in Holders(cpu) : i = 1
      BY <1>2, <1>4, <2>1 DEF Holders, NoneHolds
    <3> QED
      BY <3>1, <3>2
  <2>2. CASE /\ Waiting(Top)
             /\ \E i \in 1..Len(under[cpu]) :
                  /\ Holding(under[cpu][i])
                  /\ \A j \in 1..Len(under[cpu]) :
                       /\ j < i => Waiting(under[cpu][j])
                       /\ j > i => ~Holding(under[cpu][j])
    <3>1. PICK i \in 1..Len(under[cpu]) :
                  /\ Holding(under[cpu][i])
                  /\ \A j \in 1..Len(under[cpu]) :
                       /\ j < i => Waiting(under[cpu][j])
                       /\ j > i => ~Holding(under[cpu][j])
      BY <2>2
    <3>2. \A f : Waiting(f) => ~Holding(f)
      BY DEF Waiting, Holding
    <3>3. i + 1 \in Holders(cpu)
      BY <1>1, <1>4, <3>1 DEF Holders
    <3>4. \A j \in 1..Len(under[cpu]) : Holding(under[cpu][j]) => j = i
      BY <1>1, <1>4, <3>1, <3>2
    <3>5. \A k \in Holders(cpu) : k = i + 1
      <4> SUFFICES ASSUME NEW k \in Holders(cpu) PROVE k = i + 1
        OBVIOUS
      <4>1. k \in DOMAIN StackOf(cpu) /\ Holding(StackOf(cpu)[k])
        BY DEF Holders
      <4>2. k # 1
        BY <1>1, <1>4, <2>2, <3>2, <4>1
      <4>3. k - 1 \in 1..Len(under[cpu]) /\ Holding(under[cpu][k - 1])
        BY <1>2, <1>4, <4>1, <4>2
      <4>4. k - 1 = i
        BY <3>4, <4>3
      <4> QED
        BY <1>1, <1>4, <4>1, <4>4
    <3> QED
      BY <3>3, <3>5
  <2> QED
    BY <1>7, <2>1, <2>2 DEF LockInv
<1> QED
  BY <1>5, <1>6, <1>7 DEF LockExclusion
-----------------------------------------------------------------------------
(* Every behaviour of Spec keeps IInv. *)
LEMMA Inductive == Spec => []IInv
<1>1. Init => IInv
  BY InitType, InitShape, InitLock DEF IInv
<1>2. IInv /\ [Next]_vars => IInv'
  BY NextType, NextShape, NextLock DEF IInv
<1> QED
  BY <1>1, <1>2, PTL DEF Spec

(* The structures of the kernel keep their types under every interleaving of
   calls, interrupts, kills and faults: no tick makes a sleep negative, and
   no list or stack holds anything but tasks and frames. *)
THEOREM TypeCorrect == Spec => []TypeOK
<1>1. IInv => TypeOK
  BY DEF IInv
<1> QED
  BY <1>1, Inductive, PTL

(* sched.lock excludes: however deep interrupts nest, however far the count
   of push_ints and pop_ints has drifted, and even with IF left as it was on
   a new stack, at most one frame of one stack is in the lock's section, and
   no switch leaves a stack inside it. *)
THEOREM MutualExclusion == Spec => []LockExclusion
<1>1. IInv => LockExclusion
  BY LockInvExcludes DEF IInv
<1> QED
  BY <1>1, Inductive, PTL
=============================================================================
