SPECIFICATION FairSpec
CONSTANTS
    Kernel = Kernel
    Idle = Idle
    t1 = t1
    t2 = t2
    NoTask = NoTask
    Nowhere = Nowhere
    Tasks = {Kernel, Idle, t1, t2}
    Started <- AllStarted
    Calls <- SleepCalls
    Requests = {1, 6}
    Faults = {}
    TimeSlice = 2
    MsInterval = 2
    StaleFlags = {FALSE}
    SinceCap = 3
    MaxDepth = 1
    MaxSem = 3
INVARIANTS
    RegularCount
PROPERTIES
    NoEarlyWake
    KeepsPromise
    EveryTaskServed
    EverySleepEnds
