CONSTANTS
    Events = {1, 2, 3}
    Tick = 2
    Period = 2
    MaxTime = 4
    MaxEvents = 4
SPECIFICATION Spec
INVARIANTS
    IInv
    Sorted
    TickIsUnique
    TickWithinPeriod
PROPERTIES
    TickNotRevived
    PassEnds
    ImplementsAgenda
