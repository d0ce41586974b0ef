SPECIFICATION FairSpec
CONSTANTS
    Callers = {c1, c2}
    Poller = poller
    Nobody = nobody
    Size <- MixedSizes
    HeaderSize = 1
    BufferSize = 6
    SendThreshold = 5
    BufferCount = 2
    OthersMax = 1
    EnableAggregate = TRUE
    Failures = {"notConnected", "postError", "wcError"}
INVARIANTS
    BatchFits
    AcceptedOnce
PROPERTIES
    AcceptedIsPosted
    CallsReturn
CHECK_DEADLOCK FALSE
