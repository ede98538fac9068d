SPECIFICATION Spec
CONSTANTS
    Kernel = Kernel
    Idle = Idle
    t1 = t1
    t2 = t2
    NoTask = NoTask
    Nowhere = Nowhere
    Tasks = {Kernel, Idle, t1}
    Started <- WithT1
    Calls <- YieldCalls
    Requests = {}
    Faults = {}
    TimeSlice = 2
    MsInterval = 2
    StaleFlags = {FALSE}
    SinceCap = 1
    MaxDepth = 2
    MaxSem = 3
INVARIANT
    RegularCount
CHECK_DEADLOCK FALSE
