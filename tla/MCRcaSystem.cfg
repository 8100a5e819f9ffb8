SPECIFICATION Spec
CONSTANTS
    alert = alert
    again = again
    recovery = recovery
    garbled = garbled
    Keys <- MCKeys
    MillisPerSecond = 2
    IncidentIds <- MCIncidentIds
    JobIds <- MCJobIds
    MessageIds = {m1, m2}
    WorkerIds = {host}
    Lease = 1
    RetryStep = 1
    RetryCap = 2
    MaxAttempts = 3
    MaxTime = 2
    FaultKinds = {"db", "feishu", "rca", "worker crash", "gateway crash"}
    MaxFaults = 1
    Deliveries = {alert, again, recovery}
    Payload <- DuplicatedAlert
    HasNotifier = TRUE
    Workers = {v, w}
    Host <- OneHost
    Timeout = 2
    AuditDelay = 1
    Outcomes = {"COMPLETED", "AWAITING_AUDIT_EVENT"}
INVARIANTS
    TypeOK
    OneOpenJobPerIncident
    OneInvestigatorPerIncident
    ActiveIncidentIsFoundAgain
    CompletedCardShowsCompletion
PROPERTIES
    RecoveryIsNotOverwritten
    ImplementsLifecycle
SYMMETRY InterchangeableDeliveries
CHECK_DEADLOCK FALSE
