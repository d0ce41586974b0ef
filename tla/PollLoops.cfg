SPECIFICATION PollSpec
CONSTANTS
    NonEventCQs = {c1, c2}
    MaxBatchSize = 2
    SpinCount = 2
    CQDepth = 4
    MaxEvents = 2
    PollErrors = TRUE
    NotifyErrors = TRUE
    LateArrivals = FALSE
INVARIANTS
    NoLostWakeup
    WorkIsAnnounced
PROPERTIES
    CompletionsAreDelivered
    CancelledWaiterExits
    LoopEnds
