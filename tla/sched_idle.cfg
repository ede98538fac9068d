SPECIFICATION Spec
CONSTANTS
    Kernel = Kernel
    Idle = Idle
    t1 = t1
    t2 = t2
    NoTask = NoTask
    Nowhere = Nowhere
    Tasks = {Kernel, Idle}
    Started <- KernelAlone
    Calls <- ShellCalls
    Requests = {1}
    Faults = {}
    TimeSlice = 2
    MsInterval = 2
    StaleFlags = {FALSE}
    SinceCap = 2
    MaxDepth = 1
    MaxSem = 3
INVARIANT
    RegularCount
CHECK_DEADLOCK FALSE
