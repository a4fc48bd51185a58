\* One message, one status write that fails.
SPECIFICATION Spec
CONSTANTS
    Msgs = {m1}
    NoMsg = NoMsg
    MaxAttempts = 2
    MaxHeard = 0
    MaxCrashes = 0
    MaxDbFaults = 1
PROPERTIES SentIsRecorded
CHECK_DEADLOCK FALSE
