SPECIFICATION Spec
CONSTANTS
    MaxSize = 3
    AckLen = 2
    Payloads = {m1, m2}
    Ack = Ack
    Zero = Zero
    None = None
    Failed = Failed
INVARIANTS
    EchoIsTheMessage
    ReceiverIsReady
PROPERTIES
    RoundTripEnds
CHECK_DEADLOCK FALSE
