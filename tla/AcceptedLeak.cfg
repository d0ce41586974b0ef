SPECIFICATION Spec
CONSTANTS
    Dials = {d1}
    Strangers = {s1}
    None = None
INVARIANTS
    AcceptedIsFreed
CHECK_DEADLOCK FALSE
