SPECIFICATION FairSpec
CONSTANTS
    Conns <- MCConns
    SendCQ <- OwnQueue
    CQOf <- OwnQueue
    Buffers = {b1, b2}
    Senders = {s1, s2}
    None = None
    MaxWRID = 2
    PostErrors = TRUE
INVARIANTS
    OneUser
PROPERTIES
    BufferComesBack
    ImplementsLoan
CHECK_DEADLOCK FALSE
