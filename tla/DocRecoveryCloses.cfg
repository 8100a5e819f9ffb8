SPECIFICATION Spec
CONSTANTS
    alert = alert
    again = again
    recovery = recovery
    garbled = garbled
    Keys <- MCKeys
    MillisPerSecond = 2
    IncidentIds <- MCIncidentIds
    JobIds <- MCJobIds
    MessageIds = {m1, m2}
    WorkerIds = {host}
    Lease = 1
    RetryStep = 1
    RetryCap = 2
    MaxAttempts = 3
    MaxTime = 2
    FaultKinds = {}
    MaxFaults = 0
    Deliveries = {alert, again, recovery}
    Payload <- LateAlert
    HasNotifier = TRUE
    Workers = {w}
    Host <- OneHost
    Timeout = 3
    AuditDelay = 1
    Outcomes = {"COMPLETED", "AWAITING_AUDIT_EVENT"}
PROPERTIES
    RecoveryClosesActiveIncident
SYMMETRY Interchangeable
CHECK_DEADLOCK FALSE
