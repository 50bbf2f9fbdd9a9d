CONSTANTS
    ReadSize = 10
    WriteSize = 6
    MinFree = 3
    AtEnd = 1
    MaxLine = 4
    Lines = TRUE
SPECIFICATION Spec
INVARIANTS
    StallIsNarrow
    ReadHasRoom
    IInv
PROPERTIES
    NoNewReadAfterClose
    ClosingEnds
    ImplementsOutbox
