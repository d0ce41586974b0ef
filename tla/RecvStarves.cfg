SPECIFICATION Spec
CONSTANTS
    Conns <- Alone
    RecvCQ <- AloneQueue
    CQOf <- AloneQueue
    Poller = Poller
    None = None
    Buffers = {b1, b2, b3}
    QueueDepth = 1
    RecvDepth = 1
    Batches <- MCBatches
    MaxBatches <- AloneBatches
    PostErrors = FALSE
INVARIANTS
    PipelineKeptFull
CHECK_DEADLOCK FALSE
