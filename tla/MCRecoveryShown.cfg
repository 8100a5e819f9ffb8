SPECIFICATION FairSpec
CONSTANTS
    alert = alert
    again = again
    recovery = recovery
    garbled = garbled
    Keys <- MCKeys
    MillisPerSecond = 2
    IncidentIds <- MCIncidentIds
    JobIds <- JobIdsOfARetryEachSecond
    MessageIds = {m1, m2}
    WorkerIds = {host}
    Lease = 3
    RetryStep = 1
    RetryCap = 2
    MaxAttempts = 3
    MaxTime = 2
    FaultKinds = {"rca", "gateway crash"}
    MaxFaults = 2
    Deliveries = {alert, recovery, garbled}
    Payload <- AndGarbled
    HasNotifier = TRUE
    Workers = {v, w}
    Host <- OneHost
    Timeout = 3
    AuditDelay = 1
    Outcomes = {"COMPLETED", "AWAITING_AUDIT_EVENT"}
INVARIANTS
    RecoveryIsShown
PROPERTIES
    RecoveryReachesCards
CHECK_DEADLOCK FALSE
