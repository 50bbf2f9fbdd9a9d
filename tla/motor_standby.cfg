CONSTANTS
    Thrusts = {0, 1}
    Room = 1
    PipeRoom = 2
    ShutdownExit = FALSE
SPECIFICATION Spec
INVARIANT
    StandbyStops
