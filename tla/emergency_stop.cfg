CONSTANTS
    Unit = 4
    Excess = 1
    Hold = 2
    MinSpin = 1
    P = 1
    I = 1
    D = 1
    CI = 0
    IMax = 2
    DMax = 2
    DCap = 1
    MaxSpeed = 3
    MaxDemand = 2
    MaxAssist = 0
    RcValues = {0, 1, 3}
    Tilts = {1, 2}
SPECIFICATION Spec
INVARIANT
    LandsGently
