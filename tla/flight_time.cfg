CONSTANTS
    Modes = {"manual"}
    Joysticks = {FALSE}
    PingHost = FALSE
    ShutdownExit = FALSE
    MaxSignals = 1
    MaxFlights = 1
SPECIFICATION Spec
PROPERTY
    FileTouchedOnlyByFlight
