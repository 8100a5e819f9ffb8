SPECIFICATION Spec
CONSTANTS
    e1 = e1
    e2 = e2
    ecs = ecs
    Runs = {r1, r2}
    Configs <- MCConfigs
    RelationTypes = {"runs_on", "Runs-On"}
    SafeTypes = {"runs_on"}
    EndpointIds = {e1, e2}
    EcsIds = {ecs}
    KeepAlive = 1
    MaxTime = 1
INVARIANTS
    TypeOK
    LiveRelationHasLiveEntity
    AppliedPlanIsStored
PROPERTIES
    ExpiryTouchesOneRelation
SYMMETRY Interchangeable
