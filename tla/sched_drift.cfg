SPECIFICATION Spec
CONSTANTS
    Kernel = Kernel
    Idle = Idle
    t1 = t1
    t2 = t2
    NoTask = NoTask
    Nowhere = Nowhere
    Tasks = {Kernel, Idle, t1}
    Started <- KernelAlone
    Calls <- DriftCalls
    Requests = {1}
    Faults = {8, 14}
    TimeSlice = 2
    MsInterval = 2
    StaleFlags = {FALSE}
    SinceCap = 2
    MaxDepth = 2
    MaxSem = 2
INVARIANTS
    LockExclusion
    ContentionNeedsDrift
PROPERTIES
    CountMovesOnlyBy
CHECK_DEADLOCK FALSE
