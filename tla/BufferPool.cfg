SPECIFICATION PoolSpec
CONSTANTS
    Buffers = {b1, b2}
    Users = {u1, u2, u3}
    None = none
    DeregErrors = TRUE
INVARIANTS
    OneOwner
    NothingKept
    CallsEndWell
CHECK_DEADLOCK FALSE
