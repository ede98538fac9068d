SPECIFICATION Spec
CONSTANTS
    Kernel = Kernel
    Idle = Idle
    t1 = t1
    t2 = t2
    NoTask = NoTask
    Nowhere = Nowhere
    Tasks = {Kernel, Idle, t1, t2}
    Started <- KernelAlone
    Calls <- PreemptCalls
    Requests = {}
    Faults = {}
    TimeSlice = 2
    MsInterval = 2
    StaleFlags = {FALSE}
    SinceCap = 1
    MaxDepth = 1
    MaxSem = 3
INVARIANTS
    TypeOK
    LockExclusion
    KheapExclusion
    RegularCount
    Switchable
    NoDangling
    RunListLinked
    DeafSpinOnlyBehindShell
PROPERTIES
    KeepsPromise
    CountMovesOnlyBy
CHECK_DEADLOCK FALSE
