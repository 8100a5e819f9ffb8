SPECIFICATION Spec
CONSTANTS
    k1 = k1
    Keys = {k1}
    IncidentIds <- MCIncidentIds
    JobIds <- MCJobIds
    MessageIds = {m1}
    WorkerIds = {w1}
    Lease = 1
    RetryStep = 1
    RetryCap = 2
    MaxAttempts = 2
    EventTimes <- MCEventTimes
    AuditDelay = 1
    MaxTime = 2
INVARIANTS
    TypeOK
    FenceRejectsStaleClaims
    ClosedIncidentHasNoRunningJob
    OneSnapshotPerCompletion
PROPERTIES
    ClosedStaysClosed
    LeaseIsExclusive
    ClosedJobStaysClosed
