SPECIFICATION FairSpec
CONSTANTS
    Memories = {64, 127}
    BootReserve = 2
    TablePages = 8
    Sizes = {1, 3, 5, 9, 17}
INVARIANTS
    TypeOK
    Partition
    Merged
    FullMeansFull
PROPERTIES
    CallsEnd
    KeepsPromise
CHECK_DEADLOCK FALSE
