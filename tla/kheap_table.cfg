SPECIFICATION Spec
CONSTANTS
    Memories = {127}
    BootReserve = 2
    TablePages = 8
    Sizes = {1, 3, 5, 9, 17}
INVARIANT
    CanExpand
CHECK_DEADLOCK FALSE
