-------------------------- MODULE EntitySyncProofs --------------------------
(* Proofs about EntitySync, for all configurations and numbers of runs.      *)
EXTENDS EntitySync, TLAPS

\* The plan a process works on, and how much of it is written.
PlanOf(r) == Plan(run[r].options, run[r].config, run[r].observed)

Pending(r) ==
    /\ run[r].entities \subseteq PlanOf(r).entities
    /\ run[r].relations \subseteq PlanOf(r).relations
    /\ PlanOf(r).entities \subseteq entities \cup run[r].entities
    /\ PlanOf(r).relations \subseteq relations \cup run[r].relations
    /\ run[r].options.expire # Blank => ExpirationAllowed(run[r].config, run[r].options.expire)

Done(r) == PlanOf(r).entities \subseteq entities /\ PlanOf(r).relations \subseteq relations

Progress(r) ==
    /\ run[r].pc = "put" => Pending(r)
    /\ run[r].pc = "applied" => Done(r)

HasEntity(rec, es) == \E e \in es : e.id = rec.src /\ e.observed = rec.observed
UpdatesHaveEntities == \A rec \in relations : rec.method = "Update" => HasEntity(rec, entities)

IInv == TypeOK /\ UpdatesHaveEntities /\ \A r \in Runs : Progress(r)

-----------------------------------------------------------------------------
\* Plans.

LEMMA EndpointsOfConfig ==
    ASSUME NEW c \in Configs, LoadConfig(c), NEW e \in c.endpoints
    PROVE  /\ e.id \in EndpointIds /\ e.ecs \in EcsIds
           /\ c.relation.type # Blank => c.relation.type \in SafeTypes
<1>1. e \in Endpoint
  BY SyncAssumption DEF SyncAssumption, Config
<1>2. Plannable(e, c.relation)
  BY DEF LoadConfig
<1> QED BY <1>1, <1>2 DEF Plannable, Identified, Endpoint

LEMMA PlanIsTyped ==
    ASSUME NEW c \in Configs, LoadConfig(c), NEW o \in Options, NEW at \in Times,
           o.expire # Blank => ExpirationAllowed(c, o.expire)
    PROVE  /\ Plan(o, c, at).entities \subseteq EntityRecord
           /\ Plan(o, c, at).relations \subseteq RelationRecord
<1>1. ASSUME NEW e \in c.endpoints PROVE Entity(e, at) \in EntityRecord
  BY EndpointsOfConfig DEF Entity, EntityRecord
<1>2. ASSUME NEW e \in c.endpoints, NEW type \in SafeTypes, NEW method \in {"Update", "Expire"}
      PROVE  Relation(e, type, method, at) \in RelationRecord
  BY EndpointsOfConfig DEF Relation, RelationRecord
<1>3. CASE o.expire # Blank
  BY <1>2, <1>3 DEF Plan, BuildRelationExpirationPlan, ExpirationAllowed, OneEndpoint
<1>4. CASE o.expire = Blank
  <2>1. Plan(o, c, at) = BuildPlan(c, at)
    BY <1>4 DEF Plan
  <2>2. BuildPlan(c, at).entities \subseteq EntityRecord
    BY <1>1 DEF BuildPlan
  <2>3. BuildPlan(c, at).relations \subseteq RelationRecord
    BY <1>2, EndpointsOfConfig DEF BuildPlan
  <2> QED BY <2>1, <2>2, <2>3
<1> QED BY <1>3, <1>4

\* A plan never updates a relation without the entity it starts at.
LEMMA PlanPairsRelations ==
    ASSUME NEW o, NEW c, NEW at, NEW rec \in Plan(o, c, at).relations, rec.method = "Update"
    PROVE  HasEntity(rec, Plan(o, c, at).entities)
<1>1. CASE o.expire # Blank
  <2>1. PICK e \in c.endpoints : rec = Relation(e, o.expire, "Expire", at)
    BY <1>1 DEF Plan, BuildRelationExpirationPlan
  <2> QED BY <2>1 DEF Relation
<1>2. CASE o.expire = Blank
  <2>1. PICK e \in c.endpoints : rec = Relation(e, c.relation.type, "Update", at)
    BY <1>2 DEF Plan, BuildPlan
  <2>2. Entity(e, at) \in Plan(o, c, at).entities
    BY <1>2 DEF Plan, BuildPlan
  <2> QED BY <2>1, <2>2 DEF Relation, Entity, HasEntity
<1> QED BY <1>1, <1>2

LEMMA ExpirationPlanIsOneRelation ==
    ASSUME NEW o, NEW c, NEW at, o.expire # Blank, ExpirationAllowed(c, o.expire)
    PROVE  /\ Plan(o, c, at).entities = {}
           /\ \A rec \in Plan(o, c, at).relations :
                 /\ rec.type = o.expire /\ rec.method = "Expire"
                 /\ c.endpoints = {e \in c.endpoints : e.id = rec.src /\ e.ecs = rec.dest}
<1>1. Plan(o, c, at).entities = {}
  BY DEF Plan, BuildRelationExpirationPlan
<1>2. PICK e \in c.endpoints : c.endpoints = {e}
  BY DEF ExpirationAllowed, OneEndpoint
<1>3. ASSUME NEW rec \in Plan(o, c, at).relations
      PROVE  rec = Relation(e, o.expire, "Expire", at)
  BY <1>2 DEF Plan, BuildRelationExpirationPlan
<1> QED BY <1>1, <1>2, <1>3 DEF Relation

-----------------------------------------------------------------------------
\* The invariant.

LEMMA InitIInv == Init => IInv
<1> SUFFICES ASSUME Init PROVE IInv
  OBVIOUS
<1>1. TypeOK
  BY SyncAssumption DEF Init, TypeOK, Ended, Ends, Times, SyncAssumption
<1>2. UpdatesHaveEntities
  BY DEF Init, UpdatesHaveEntities
<1>3. \A r \in Runs : Progress(r)
  BY DEF Init, Progress
<1> QED BY <1>1, <1>2, <1>3 DEF IInv

\* What is written stays written, so a step of one process takes nothing away
\* from another.
LEMMA OthersKeep ==
    ASSUME IInv, NEW r \in Runs, NEW new, run' = [run EXCEPT ![r] = new],
           entities \subseteq entities', relations \subseteq relations',
           NEW s \in Runs, s # r
    PROVE  Progress(s)'
<1>1. run'[s] = run[s]
  BY DEF IInv, TypeOK
<1> QED BY <1>1 DEF IInv, Progress, Pending, Done, PlanOf

LEMMA ProcessIsTyped ==
    ASSUME IInv, NEW r \in Runs, Writes(r)
    PROVE  run[r] \in Writing
BY DEF IInv, TypeOK, Writes, Ended, Ends, Applied

LEMMA ExitKeeps ==
    ASSUME IInv, NEW r \in Runs, NEW end \in Ends, Exits(r, end), UNCHANGED <<now, config>>,
           entities \subseteq entities', relations \subseteq relations',
           entities' \subseteq EntityRecord, relations' \subseteq RelationRecord,
           UpdatesHaveEntities'
    PROVE  IInv'
<1>1. run'[r] = [pc |-> end]
  BY DEF IInv, TypeOK, Exits
<1>2. TypeOK'
  BY DEF IInv, TypeOK, Exits, Ended
<1>3. Progress(r)'
  <2>1. run'[r].pc = end
    BY <1>1
  <2>2. end # "put" /\ end # "applied"
    BY DEF Ends
  <2> QED BY <2>1, <2>2 DEF Progress
<1>4. ASSUME NEW s \in Runs, s # r PROVE Progress(s)'
  BY <1>4, OthersKeep DEF Exits
<1> QED BY <1>2, <1>3, <1>4 DEF IInv

LEMMA ApplyKeeps ==
    ASSUME IInv, NEW r \in Runs, NEW o \in Options, Apply(r, o)
    PROVE  IInv'
<1> DEFINE plan == Plan(o, config, now)
           new == [pc |-> "put", options |-> o, config |-> config, observed |-> now,
                   entities |-> plan.entities, relations |-> plan.relations]
<1>1. run' = [run EXCEPT ![r] = new] /\ UNCHANGED <<now, config, entities, relations>>
  BY DEF Apply
<1>2. PlanAllowed(o) /\ config \in Configs /\ now \in Times
  BY DEF Apply, IInv, TypeOK
<1>3. plan.entities \subseteq EntityRecord /\ plan.relations \subseteq RelationRecord
  BY <1>2, PlanIsTyped DEF PlanAllowed
<1>4. new \in Writing
  BY <1>2, <1>3 DEF Writing
<1>5. TypeOK'
  BY <1>1, <1>4 DEF IInv, TypeOK
<1>6. UpdatesHaveEntities'
  BY <1>1 DEF IInv, UpdatesHaveEntities, HasEntity
<1>7. Progress(r)'
  <2>1. run'[r] = new
    BY <1>1 DEF IInv, TypeOK
  <2>2. new.pc = "put" /\ new.options = o /\ new.config = config /\ new.observed = now
          /\ new.entities = plan.entities /\ new.relations = plan.relations
    OBVIOUS
  <2>3. o.expire # Blank => ExpirationAllowed(config, o.expire)
    BY <1>2 DEF PlanAllowed
  <2> HIDE DEF new
  <2> QED BY <2>1, <2>2, <2>3 DEF Progress, Pending, PlanOf
<1>8. ASSUME NEW s \in Runs, s # r PROVE Progress(s)'
  BY <1>1, <1>8, OthersKeep
<1> QED BY <1>5, <1>6, <1>7, <1>8 DEF IInv

LEMMA PutEntitiesKeeps ==
    ASSUME IInv, NEW r \in Runs, PutEntities(r)
    PROVE  IInv'
<1>1. run[r] \in Writing /\ Pending(r) /\ run[r].pc = "put"
  BY ProcessIsTyped DEF PutEntities, IInv, Progress, Writes
<1>2. entities \subseteq entities' /\ entities' \subseteq EntityRecord
        /\ UNCHANGED <<now, config, relations>>
  BY <1>1 DEF PutEntities, IInv, TypeOK, Writing
<1>3. UpdatesHaveEntities'
  BY <1>2 DEF IInv, UpdatesHaveEntities, HasEntity
<1>4. CASE Exits(r, "failed")
  BY <1>2, <1>3, <1>4, ExitKeeps DEF Ends, IInv, TypeOK
<1>5. CASE /\ entities' = entities \cup run[r].entities
           /\ run' = [run EXCEPT ![r].entities = {}]
  <2> DEFINE new == [run[r] EXCEPT !.entities = {}]
  <2>1. run' = [run EXCEPT ![r] = new] /\ run'[r] = new
    BY <1>5 DEF IInv, TypeOK
  <2>2. new \in Writing /\ new.pc = "put" /\ new.options = run[r].options
          /\ new.config = run[r].config /\ new.observed = run[r].observed
          /\ new.entities = {} /\ new.relations = run[r].relations
    BY <1>1 DEF Writing
  <2> HIDE DEF new
  <2>3. TypeOK'
    BY <1>2, <2>1, <2>2 DEF IInv, TypeOK
  <2>4. Progress(r)'
    BY <1>1, <1>2, <1>5, <2>1, <2>2 DEF Progress, Pending, PlanOf
  <2>5. ASSUME NEW s \in Runs, s # r PROVE Progress(s)'
    BY <1>2, <2>1, <2>5, OthersKeep
  <2> QED BY <1>3, <2>3, <2>4, <2>5 DEF IInv
<1> QED BY <1>4, <1>5 DEF PutEntities

\* The step that matters: the entities of the plan are in the store.
LEMMA PutRelationsKeeps ==
    ASSUME IInv, NEW r \in Runs, PutRelations(r)
    PROVE  IInv'
<1>1. run[r] \in Writing /\ Pending(r) /\ run[r].pc = "put" /\ run[r].entities = {}
  BY ProcessIsTyped DEF PutRelations, IInv, Progress, Writes
<1>2. relations \subseteq relations' /\ relations' \subseteq relations \cup run[r].relations
        /\ relations' \subseteq RelationRecord /\ UNCHANGED <<now, config, entities>>
  BY <1>1 DEF PutRelations, IInv, TypeOK, Writing
<1>3. UpdatesHaveEntities'
  <2> SUFFICES ASSUME NEW rec \in relations', rec.method = "Update"
               PROVE  HasEntity(rec, entities)
    BY <1>2 DEF UpdatesHaveEntities
  <2>1. CASE rec \in relations
    BY <2>1 DEF IInv, UpdatesHaveEntities
  <2>2. CASE rec \in run[r].relations
    <3>1. HasEntity(rec, PlanOf(r).entities)
      BY <1>1, <2>2, PlanPairsRelations DEF Pending, PlanOf
    <3> QED BY <1>1, <3>1 DEF Pending, HasEntity
  <2> QED BY <1>2, <2>1, <2>2
<1>4. CASE Exits(r, "failed")
  BY <1>2, <1>3, <1>4, ExitKeeps DEF Ends, IInv, TypeOK
<1>5. CASE /\ relations' = relations \cup run[r].relations
           /\ run' = [run EXCEPT ![r].relations = {}]
  <2> DEFINE new == [run[r] EXCEPT !.relations = {}]
  <2>1. run' = [run EXCEPT ![r] = new] /\ run'[r] = new
    BY <1>5 DEF IInv, TypeOK
  <2>2. new \in Writing /\ new.pc = "put" /\ new.options = run[r].options
          /\ new.config = run[r].config /\ new.observed = run[r].observed
          /\ new.entities = run[r].entities /\ new.relations = {}
    BY <1>1 DEF Writing
  <2> HIDE DEF new
  <2>3. TypeOK'
    BY <1>2, <2>1, <2>2 DEF IInv, TypeOK
  <2>4. Progress(r)'
    BY <1>1, <1>2, <1>5, <2>1, <2>2 DEF Progress, Pending, PlanOf
  <2>5. ASSUME NEW s \in Runs, s # r PROVE Progress(s)'
    BY <1>2, <2>1, <2>5, OthersKeep
  <2> QED BY <1>3, <2>3, <2>4, <2>5 DEF IInv
<1> QED BY <1>4, <1>5 DEF PutRelations

LEMMA ReportKeeps ==
    ASSUME IInv, NEW r \in Runs, ReportApplied(r)
    PROVE  IInv'
<1> DEFINE new == [pc |-> "applied", options |-> run[r].options, config |-> run[r].config,
                   observed |-> run[r].observed]
<1>1. run[r] \in Writing /\ Pending(r) /\ run[r].entities = {} /\ run[r].relations = {}
  BY ProcessIsTyped DEF ReportApplied, IInv, Progress, Writes
<1>2. run' = [run EXCEPT ![r] = new] /\ run'[r] = new
        /\ UNCHANGED <<now, config, entities, relations>>
  BY DEF ReportApplied, IInv, TypeOK
<1>3. new \in Applied
  BY <1>1 DEF Writing, Applied
<1>4. TypeOK'
  BY <1>2, <1>3 DEF IInv, TypeOK
<1>5. UpdatesHaveEntities'
  BY <1>2 DEF IInv, UpdatesHaveEntities, HasEntity
<1>6. Progress(r)'
  BY <1>1, <1>2 DEF Progress, Pending, Done, PlanOf
<1>7. ASSUME NEW s \in Runs, s # r PROVE Progress(s)'
  BY <1>2, <1>7, OthersKeep
<1> QED BY <1>4, <1>5, <1>6, <1>7 DEF IInv

LEMMA NextIInv == IInv /\ [Next]_vars => IInv'
<1> SUFFICES ASSUME IInv, [Next]_vars PROVE IInv'
  OBVIOUS
<1>1. ASSUME NEW r \in Runs, NEW end \in Ends, Exits(r, end),
             UNCHANGED <<now, config, entities, relations>>
      PROVE  IInv'
  <2>1. UpdatesHaveEntities'
    BY <1>1 DEF IInv, UpdatesHaveEntities, HasEntity
  <2> QED BY <1>1, <2>1, ExitKeeps DEF IInv, TypeOK
<1>2. ASSUME NEW r \in Runs, NEW o \in Options,
             Refuse(r, o) \/ Inspect(r, o) \/ DryRun(r, o)
      PROVE  IInv'
  BY <1>1, <1>2 DEF Refuse, Inspect, DryRun, Ends
<1>3. ASSUME NEW r \in Runs, Killed(r) PROVE IInv'
  BY <1>1, <1>3 DEF Killed, Ends
<1>4. ASSUME UNCHANGED <<entities, relations, run>>, config' \in Configs, now' \in Times
      PROVE  IInv'
  BY <1>4 DEF IInv, TypeOK, UpdatesHaveEntities, HasEntity, Progress, Pending, Done, PlanOf
<1>5. CASE EditConfig
  BY <1>4, <1>5 DEF EditConfig, IInv, TypeOK
<1>6. CASE Tick
  <2>1. now' \in Times
    BY <1>6, SyncAssumption DEF Tick, IInv, TypeOK, Times, SyncAssumption
  <2> QED BY <1>4, <1>6, <2>1 DEF Tick, IInv, TypeOK
<1>7. CASE UNCHANGED vars
  BY <1>4, <1>7 DEF vars, IInv, TypeOK
<1> QED BY <1>2, <1>3, <1>5, <1>6, <1>7, ApplyKeeps, PutEntitiesKeeps, PutRelationsKeeps,
           ReportKeeps DEF Next

\* The invariant the results below follow from.
THEOREM InductiveInvariant == Spec => []IInv
<1> QED BY InitIInv, NextIInv, PTL DEF Spec

\* The logstores hold well-formed records of safe relation types only.
THEOREM TypeCorrect == Spec => []TypeOK
<1>1. IInv => TypeOK
  BY DEF IInv
<1> QED BY <1>1, InductiveInvariant, PTL

\* At no time does a relation live whose endpoint does not.
THEOREM TopologyIsGrounded == Spec => []LiveRelationHasLiveEntity
<1>1. IInv => LiveRelationHasLiveEntity
  BY DEF IInv, UpdatesHaveEntities, HasEntity, LiveRelationHasLiveEntity, LiveRelation, LiveEntity
<1> QED BY <1>1, InductiveInvariant, PTL

\* A run that reports success has written all of its plan.
THEOREM AppliedIsComplete == Spec => []AppliedPlanIsStored
<1>1. IInv => AppliedPlanIsStored
  BY DEF IInv, Progress, Done, PlanOf, AppliedPlanIsStored
<1> QED BY <1>1, InductiveInvariant, PTL

\* An expiry writes nothing but the expiry of the relation it was given.
THEOREM ExpiryIsNarrow == Spec => ExpiryTouchesOneRelation
<1>1. ASSUME IInv, [Next]_vars, NEW r \in Runs,
             Writes(r), run'[r] # run[r], run[r].options.expire # Blank
      PROVE  /\ entities' = entities
             /\ \A rec \in relations' \ relations :
                   /\ rec.type = run[r].options.expire
                   /\ rec.method = "Expire"
                   /\ run[r].config.endpoints =
                          {e \in run[r].config.endpoints : e.id = rec.src /\ e.ecs = rec.dest}
  <2>1. Pending(r)
    BY <1>1 DEF IInv, Progress, Writes
  <2>2. /\ PlanOf(r).entities = {}
        /\ \A rec \in PlanOf(r).relations :
              /\ rec.type = run[r].options.expire /\ rec.method = "Expire"
              /\ run[r].config.endpoints =
                     {e \in run[r].config.endpoints : e.id = rec.src /\ e.ecs = rec.dest}
    BY <1>1, <2>1, ExpirationPlanIsOneRelation DEF Pending, PlanOf
  <2>3. run[r].entities = {} /\ run[r].relations \subseteq PlanOf(r).relations
    BY <2>1, <2>2 DEF Pending
  <2>4. \A s \in Runs : \A new : s # r => run' # [run EXCEPT ![s] = new]
    BY <1>1 DEF IInv, TypeOK
  <2>5. CASE \E s \in Runs : PutEntities(s)
    <3>1. PICK s \in Runs : PutEntities(s)
      BY <2>5
    <3>2. run' = [run EXCEPT ![s] = [run[s] EXCEPT !.entities = {}]] \/ Exits(s, "failed")
      BY <3>1 DEF PutEntities
    <3>3. s = r
      BY <2>4, <3>2 DEF Exits
    <3> QED BY <2>3, <3>1, <3>3 DEF PutEntities
  <2>6. CASE \E s \in Runs : PutRelations(s)
    <3>1. PICK s \in Runs : PutRelations(s)
      BY <2>6
    <3>2. run' = [run EXCEPT ![s] = [run[s] EXCEPT !.relations = {}]] \/ Exits(s, "failed")
      BY <3>1 DEF PutRelations
    <3>3. s = r
      BY <2>4, <3>2 DEF Exits
    <3>4. entities' = entities /\ relations' \ relations \subseteq run[r].relations
      BY <3>1, <3>3 DEF PutRelations
    <3> QED BY <2>2, <2>3, <3>4
  <2>7. CASE UNCHANGED <<entities, relations>>
    BY <2>7
  <2> QED BY <1>1, <2>5, <2>6, <2>7
      DEF Next, vars, EditConfig, Tick, Refuse, Inspect, DryRun, Apply, ReportApplied, Killed
<1>2. IInv /\ [Next]_vars =>
        [\A r \in Runs :
          (Writes(r) /\ run'[r] # run[r] /\ run[r].options.expire # Blank) =>
              /\ entities' = entities
              /\ \A rec \in relations' \ relations :
                     /\ rec.type = run[r].options.expire
                     /\ rec.method = "Expire"
                     /\ run[r].config.endpoints =
                            {e \in run[r].config.endpoints : e.id = rec.src /\ e.ecs = rec.dest}
        ]_vars
  BY <1>1
<1> QED BY <1>2, InductiveInvariant, PTL DEF Spec, ExpiryTouchesOneRelation

=============================================================================
