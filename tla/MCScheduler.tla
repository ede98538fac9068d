---------------------------- MODULE MCScheduler -----------------------------
(***************************************************************************)
(* Small instances of Scheduler for TLC: what each task does, per run.      *)
(***************************************************************************)
EXTENDS RunList

CONSTANTS t1, t2

NoCalls == [t \in Tasks |-> {}]

(* Preemption, creation and killing, with tasks that never sleep. *)
PreemptCalls == [NoCalls EXCEPT ![Kernel] = {"new", "yield", "heap"},
                                ![t1] = {"kill", "dump", "heap"},
                                ![t2] = {"kill", "yield"}]

(* The shell that polls its keyboard with sleep(1), as tread_line does, and
   one task that sleeps too: the idle branch is taken again and again.  Ticks
   may come inside interrupt handlers; tasks may die by themselves. *)
DriftCalls == [NoCalls EXCEPT ![Kernel] = {"sleep", "new"},
                              ![t1] = {"exit", "fault", "kill kernel"}]
(* Two sleepers and a task that never sleeps, so that idle is never needed. *)
SleepCalls == [NoCalls EXCEPT ![Kernel] = {"sleep"},
                              ![t1] = {"yield"},
                              ![t2] = {"sleep"}]

(* The system as it boots: the shell, which polls its keyboard, and idle. *)
ShellCalls == [NoCalls EXCEPT ![Kernel] = {"sleep"}]

(* Tasks that only give up the processor before their slice ends. *)
YieldCalls == [t \in Tasks |-> IF t = Idle THEN {} ELSE {"yield"}]

KernelAlone == <<Kernel>>
WithT1 == <<Kernel, t1>>
AllStarted == <<Kernel, t1, t2>>
=============================================================================
