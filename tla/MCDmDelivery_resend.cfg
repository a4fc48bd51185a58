\* Two messages, so that a failed one can be sent again; two attempts, every ACK heard once.
SPECIFICATION Spec
CONSTANTS
    Msgs = {m1, m2}
    NoMsg = NoMsg
    MaxAttempts = 2
    MaxHeard = 1
    MaxCrashes = 0
    MaxDbFaults = 0
SYMMETRY Symmetry
CONSTRAINT ResendsOnly
PROPERTIES RecordKept
CHECK_DEADLOCK FALSE
