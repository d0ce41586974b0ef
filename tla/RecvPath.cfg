SPECIFICATION FairSpec
CONSTANTS
    Conns <- MCConns
    RecvCQ <- OwnQueue
    CQOf <- OwnQueue
    Poller = Poller
    None = None
    Buffers = {b1, b2, b3}
    QueueDepth = 2
    RecvDepth = 1
    Batches <- MCBatches
    MaxBatches <- OneBusyPeer
    PostErrors = TRUE
INVARIANTS
    CompletionIsKnown
    OneReceiver
    InOrder
    PipelineFull
PROPERTIES
    CompletionsAreHandled
CHECK_DEADLOCK FALSE
