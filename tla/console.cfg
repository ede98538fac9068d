SPECIFICATION Spec
CONSTANTS
    Keys <- MCKeys
    kbdus <- MCKbdus
    uppercase <- MCUppercase
    Modifiers = {"ctrl", "shift"}
    NUL = NUL
    BS = BS
    Size = 3
    VGA_WIDTH = 3
    VGA_HEIGHT = 2
    MaxLineLen = 5
    CursorCell = CursorCell
    NoCode = NoCode
    ZeroCode <- MCZero
    Handlers = {1, 2}
    MaxTyped = 4
    MaxTorn = 2
    MaxPrinted = 1
INVARIANTS
    TypeOK
    ModifiersTrue
    LineOnScreen
    ScreenTrue
PROPERTIES
    KeyQueueKept
    EveryKeyRead
CHECK_DEADLOCK FALSE
