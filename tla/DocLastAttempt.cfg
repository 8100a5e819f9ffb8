SPECIFICATION Spec
CONSTANTS
    alert = alert
    again = again
    recovery = recovery
    garbled = garbled
    Keys <- MCKeys
    MillisPerSecond = 2
    IncidentIds <- MCIncidentIds
    JobIds <- MCJobIds
    MessageIds = {m1, m2}
    WorkerIds = {host}
    Lease = 1
    RetryStep = 1
    RetryCap = 2
    MaxAttempts = 3
    MaxTime = 2
    FaultKinds = {"rca"}
    MaxFaults = 1
    Deliveries = {alert}
    Payload <- SingleAlert
    HasNotifier = TRUE
    Workers = {w}
    Host <- OneHost
    Timeout = 3
    AuditDelay = 1
    Outcomes = {"COMPLETED", "AWAITING_AUDIT_EVENT"}
INVARIANTS
    LastAttemptClosesJob
SYMMETRY Interchangeable
CHECK_DEADLOCK FALSE
