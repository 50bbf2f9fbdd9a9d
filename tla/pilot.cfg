CONSTANTS
    Modes = {"manual", "mission"}
    Joysticks = {TRUE, FALSE}
    PingHost = TRUE
    ShutdownExit = TRUE
    MaxSignals = 2
    MaxFlights = 1
SPECIFICATION Spec
INVARIANTS
    PreFlyNeverFlies
    FliesFromLaunchPose
    AltitudeKnownInPrefly
    TickGoesOn
    ExitScheduled
    IInv
PROPERTIES
    SilentAfterShutdown
    ShutdownTerminates
    PrelaunchEnds
    EmergencyIsBounded
    LoiterEnds
    ImplementsCommands
