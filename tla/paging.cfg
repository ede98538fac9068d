SPECIFICATION Spec
CONSTANTS
    Kernel = Kernel
    s1 = s1
    s2 = s2
    Spaces = {Kernel, s1, s2}
    BootTable = BootTable
    a = a
    b = b
    c = c
    Tables = {BootTable, a, b, c}
    None = None
    NFrames = 5
    WordBits = 3
    NDirs = 2
    TableLen = 2
    KernelPages = 1
    Requested = {2}
    TlbSize = 1
SYMMETRY Symmetry
INVARIANTS
    TypeOK
    Isolated
    Accounted
    PanicMeansFull
    ProcessorAgrees
PROPERTIES
    CloneCovers
CHECK_DEADLOCK FALSE
