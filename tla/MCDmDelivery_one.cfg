\* One message, the three attempts of the code, an ACK heard up to twice, one restart,
\* and a status write that fails.
SPECIFICATION FairSpec
CONSTANTS
    Msgs = {m1}
    NoMsg = NoMsg
    MaxAttempts = 3
    MaxHeard = 2
    MaxCrashes = 1
    MaxDbFaults = 1
INVARIANTS TypeOK FailedNotAcked CodesHeldOnce PendingRowHasSend LatestAckIsClaimed
PROPERTIES RecordKept DeleteStopsRetries ImplementsStatus EveryDmDecided
CHECK_DEADLOCK FALSE
