SPECIFICATION Spec
CONSTANTS
    Dials = {d1}
    Strangers = {s1}
    None = None
INVARIANTS
    NothingDangles
    KeptOnlyWithQP
PROPERTIES
    DialReturns
    DialedIsServed
CHECK_DEADLOCK FALSE
