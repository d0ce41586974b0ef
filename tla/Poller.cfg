SPECIFICATION FairSpec
CONSTANTS
    CQs = {c1, c2, c3}
    Channel = {c1, c2}
    MaxAdds = 2
    Races <- StoodRaces
INVARIANTS
    OneWaiterEach
    NoDescriptorLeak
PROPERTIES
    CloseReturns
    CancelReachesAll
CHECK_DEADLOCK FALSE
