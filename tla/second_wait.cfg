CONSTANTS
    Size = 2
    Names = 5
    MaxN = 4
SPECIFICATION Spec
PROPERTY
    FullAfterSecondWait
