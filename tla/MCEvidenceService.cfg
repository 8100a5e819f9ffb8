SPECIFICATION Spec
CONSTANTS
    Configs <- MCConfigs
    RegistryFiles <- MCRegistryFiles
    IncidentFiles <- MCIncidentFiles
    Incidents <- MCIncidents
    EvidenceWindow = 2
    Int32Bound = 8
INVARIANTS
    TypeOK
    OnlyReviewedValuesAreSent
    LoadedBindingsAreRouted
    WorkerIsConfigured
    LogsAreOfTheWindow
    AnswerFollowsIds
