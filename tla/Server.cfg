SPECIFICATION Spec
CONSTANTS
    IDs = {c1, c2}
    Backlog = 1
    None = None
    MaxRuns = 2
INVARIANTS
    GracefulStopIsComplete
    ReuseNeedsRestart
PROPERTIES
    StopReturns
    HandlersEnd
CHECK_DEADLOCK FALSE
