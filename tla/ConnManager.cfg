SPECIFICATION Spec
CONSTANTS
    IDs = {c1, c2}
    Dialed = {d1, d2}
    MaxConns = 2
    Backlog = 1
    None = None
INVARIANTS
    ClosedForCause
    CrashNeedsRace
    ManagerLeavesNoneOpen
PROPERTIES
    DisconnectIsNoticed
    ImplementsOffers
CHECK_DEADLOCK FALSE
