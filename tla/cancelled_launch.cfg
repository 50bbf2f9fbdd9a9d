CONSTANTS
    Modes = {"mission"}
    Joysticks = {FALSE, TRUE}
    PingHost = FALSE
    ShutdownExit = FALSE
    MaxSignals = 0
    MaxFlights = 1
SPECIFICATION Spec
PROPERTY
    CancelledIsNotLaunched
