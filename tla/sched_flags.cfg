SPECIFICATION Spec
CONSTANTS
    Kernel = Kernel
    Idle = Idle
    t1 = t1
    t2 = t2
    NoTask = NoTask
    Nowhere = Nowhere
    Tasks = {Kernel, Idle, t1}
    Started <- WithT1
    Calls <- NoCalls
    Requests = {}
    Faults = {}
    TimeSlice = 2
    MsInterval = 2
    StaleFlags = {TRUE}
    SinceCap = 1
    MaxDepth = 1
    MaxSem = 3
INVARIANT
    RegularCount
CHECK_DEADLOCK FALSE
