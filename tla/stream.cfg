CONSTANTS
    Size = 3
    Names = 7
    MaxN = 6
SPECIFICATION Spec
INVARIANTS
    IInv
    Excluded
    Corrected
PROPERTIES
    PilotNotBlocked
    
    ImplementsFeed
