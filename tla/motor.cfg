CONSTANTS
    Thrusts = {0, 1}
    Room = 2
    PipeRoom = 2
    ShutdownExit = TRUE
SPECIFICATION Spec
INVARIANTS
    IInv
    FactorComesFirst
    StandbyFollows
PROPERTIES
    NotLeftToDeadPilot
    CrashStopsMotors
    SleepReachesMotors
