SPECIFICATION Spec
CONSTANTS
    Jobs = {1, 2, 3}
    Poll = 1
    Timeout = 3
    Lease = 3
    RetryStep = 2
    RetryCap = 1
    MaxAttempts = 2
    AuditDelay = 1
    MaxStops = 1
INVARIANTS
    TypeOK
PROPERTIES
    NothingClaimedAfterStop
    StopEndsLoop
    EveryJobIsServed
