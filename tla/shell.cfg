SPECIFICATION Spec
CONSTANTS
    Word = 128
    HexDigits = 2
    PAGESIZE = 4
    MaxLineLen = 20
    NUL = NUL
    Scribbles <- MCScribbles
    Counts = {0, 3, 9}
    Leads <- MCLeads
INVARIANTS
    TypeOK
    CallIsMeant
    WordsFound
    ArgumentsFit
