----------------------------- MODULE EntitySync -----------------------------
(***************************************************************************)
(* The administrator's tool sre-sync (cmd/sre-sync, internal/modelsync):   *)
(* it reads a configuration file, makes a plan of entity and relation      *)
(* records, and with --apply writes it to two logstores of the cloud, one  *)
(* PutLogs call each.  Any call can fail, with or without effect, and the  *)
(* tool can be killed between two.  Several administrators can run it.     *)
(*                                                                         *)
(* A logstore is the set of records written to it: what EntityStore makes  *)
(* of them depends on their observed time, not on their order or number.   *)
(***************************************************************************)
EXTENDS Integers

CONSTANTS Runs,         \* processes
          Configs,      \* configuration files an administrator writes
          RelationTypes,
          SafeTypes,    \* isSafeRelationType
          EndpointIds,
          EcsIds,
          KeepAlive,    \* keepAliveSeconds
          MaxTime       \* bound of the clock

Blank == ""
Ecs == "acs.ecs.instance"

Times == 0..MaxTime
Endpoint == [id : EndpointIds \cup {Blank}, service : {Blank, "named"}, ecs : EcsIds \cup {Blank}]
RelationConfig == [type : RelationTypes \cup {Blank}, destination : {Blank, Ecs, "other"}]

\* located: the file names a safe workspace, a region and a role.
Config == [located : BOOLEAN, relation : RelationConfig, endpoints : SUBSET Endpoint]

ASSUME SyncAssumption ==
    /\ Configs \subseteq Config
    /\ SafeTypes \subseteq RelationTypes
    /\ Blank \notin RelationTypes \cup EndpointIds \cup EcsIds
    /\ KeepAlive \in Nat
    /\ MaxTime \in Nat

\* The flags of an invocation.
Options == [apply : BOOLEAN, inspectSchema : BOOLEAN, inspectRelation : BOOLEAN,
            expire : RelationTypes \cup {Blank}]

EntityRecord == [id : EndpointIds, ecs : EcsIds, observed : Times]
RelationRecord == [src : EndpointIds, dest : EcsIds, type : SafeTypes,
                   method : {"Update", "Expire"}, observed : Times]

VARIABLES now, config,
          entities,  \* ${workspace}__entity
          relations, \* ${workspace}__topo
          run        \* each process

vars == <<now, config, entities, relations, run>>

\* A process that is writing has the part of its plan that is not written yet;
\* one that reported success remembers what it was asked.
Ends == {"idle", "refused", "inspected", "dry run", "failed"}
Ended == [pc : Ends]
Writing == [pc : {"put"}, options : Options, config : Configs, observed : Times,
            entities : SUBSET EntityRecord, relations : SUBSET RelationRecord]
Applied == [pc : {"applied"}, options : Options, config : Configs, observed : Times]

TypeOK ==
    /\ now \in Times
    /\ config \in Configs
    /\ entities \subseteq EntityRecord
    /\ relations \subseteq RelationRecord
    /\ run \in [Runs -> Ended \cup Writing \cup Applied]

Init ==
    /\ now = 0
    /\ config \in Configs
    /\ entities = {}
    /\ relations = {}
    /\ run = [r \in Runs |-> [pc |-> "idle"]]

-----------------------------------------------------------------------------
\* Plans.

Identified(e) == e.id # Blank /\ e.ecs # Blank

\* The destination of a relation is looked at only when the relation is on.
DestinationAllowed(rel) == rel.destination \in {Blank, Ecs}
Plannable(e, rel) ==
    /\ Identified(e)
    /\ e.service # Blank
    /\ rel.type # Blank => rel.type \in SafeTypes /\ DestinationAllowed(rel)

\* The id of an entity is a digest of its endpoint_id alone.
Entity(e, at) == [id |-> e.id, ecs |-> e.ecs, observed |-> at]
Relation(e, type, method, at) ==
    [src |-> e.id, dest |-> e.ecs, type |-> type, method |-> method, observed |-> at]

BuildPlan(c, at) ==
    [entities |-> {Entity(e, at) : e \in c.endpoints},
     relations |-> IF c.relation.type = Blank THEN {}
                   ELSE {Relation(e, c.relation.type, "Update", at) : e \in c.endpoints}]

OneEndpoint(c) == \E e \in c.endpoints : c.endpoints = {e}

ExpirationAllowedForAnyType(c, type) == OneEndpoint(c)

ExpirationAllowed(c, type) == type \in SafeTypes /\ OneEndpoint(c)

ExpirationPlanWithEntity(c, type, at) ==
    [entities |-> {Entity(e, at) : e \in c.endpoints},
     relations |-> {Relation(e, type, "Expire", at) : e \in c.endpoints}]

BuildRelationExpirationPlan(c, type, at) ==
    [entities |-> {},
     relations |-> {Relation(e, type, "Expire", at) : e \in c.endpoints}]

LoadConfig(c) ==
    /\ c.located
    /\ c.endpoints # {}
    /\ \A e \in c.endpoints : Plannable(e, c.relation)

\* Flags that exclude each other.
Inspects(o) == o.inspectSchema \/ o.inspectRelation
FlagsAllowed(o) ==
    /\ ~(o.inspectSchema /\ o.inspectRelation)
    /\ ~(o.apply /\ Inspects(o))
    /\ o.expire # Blank => ~Inspects(o)

InspectionAllowed(o) ==
    /\ FlagsAllowed(o) /\ Inspects(o)
    /\ LoadConfig(config)
PlanAllowed(o) ==
    /\ FlagsAllowed(o) /\ ~Inspects(o)
    /\ LoadConfig(config)
    /\ o.expire # Blank => ExpirationAllowed(config, o.expire)

Plan(o, c, at) ==
    IF o.expire # Blank THEN BuildRelationExpirationPlan(c, o.expire, at) ELSE BuildPlan(c, at)

-----------------------------------------------------------------------------
\* The tool.

Writes(r) == run[r].pc = "put"
Exits(r, end) == run' = [run EXCEPT ![r] = [pc |-> end]]

Refuse(r, o) ==
    /\ ~Writes(r)
    /\ ~PlanAllowed(o) /\ ~InspectionAllowed(o)
    /\ Exits(r, "refused")
    /\ UNCHANGED <<now, config, entities, relations>>

\* An inspection only reads.  One of a relation queries the relation its
\* configuration would write.
RelationRequest(c) == OneEndpoint(c) /\ BuildPlan(c, now).relations # {}

Inspect(r, o) ==
    /\ ~Writes(r)
    /\ InspectionAllowed(o)
    /\ \/ Exits(r, "failed")
       \/ /\ o.inspectRelation => RelationRequest(config)
          /\ Exits(r, "inspected")
    /\ UNCHANGED <<now, config, entities, relations>>

DryRun(r, o) ==
    /\ ~Writes(r)
    /\ PlanAllowed(o) /\ ~o.apply
    /\ Exits(r, "dry run")
    /\ UNCHANGED <<now, config, entities, relations>>

\* Both groups of records are built before the first of them is written.
Apply(r, o) ==
    /\ ~Writes(r)
    /\ PlanAllowed(o) /\ o.apply
    /\ run' = [run EXCEPT ![r] =
          [pc |-> "put", options |-> o, config |-> config, observed |-> now,
           entities |-> Plan(o, config, now).entities,
           relations |-> Plan(o, config, now).relations]]
    /\ UNCHANGED <<now, config, entities, relations>>

PutEntitiesIgnoringErrors(r) ==
    /\ Writes(r) /\ run[r].entities # {}
    /\ entities' \in {entities, entities \cup run[r].entities}
    /\ run' = [run EXCEPT ![r].entities = {}]
    /\ UNCHANGED <<now, config, relations>>

\* The first write of Upsert.  When it fails, the second is not tried.
PutEntities(r) ==
    /\ Writes(r) /\ run[r].entities # {}
    /\ \/ /\ entities' = entities \cup run[r].entities
          /\ run' = [run EXCEPT ![r].entities = {}]
       \/ /\ entities' \in {entities, entities \cup run[r].entities}
          /\ Exits(r, "failed")
    /\ UNCHANGED <<now, config, relations>>

PutRelationsFirst(r) ==
    /\ Writes(r) /\ run[r].relations # {}
    /\ \/ /\ relations' = relations \cup run[r].relations
          /\ run' = [run EXCEPT ![r].relations = {}]
       \/ /\ relations' \in {relations, relations \cup run[r].relations}
          /\ Exits(r, "failed")
    /\ UNCHANGED <<now, config, entities>>

PutRelations(r) ==
    /\ Writes(r) /\ run[r].entities = {} /\ run[r].relations # {}
    /\ \/ /\ relations' = relations \cup run[r].relations
          /\ run' = [run EXCEPT ![r].relations = {}]
       \/ /\ relations' \in {relations, relations \cup run[r].relations}
          /\ Exits(r, "failed")
    /\ UNCHANGED <<now, config, entities>>

ReportApplied(r) ==
    /\ Writes(r) /\ run[r].entities = {} /\ run[r].relations = {}
    /\ run' = [run EXCEPT ![r] =
          [pc |-> "applied", options |-> run[r].options, config |-> run[r].config,
           observed |-> run[r].observed]]
    /\ UNCHANGED <<now, config, entities, relations>>

Killed(r) ==
    /\ Writes(r)
    /\ Exits(r, "failed")
    /\ UNCHANGED <<now, config, entities, relations>>

EditConfig ==
    /\ config' \in Configs
    /\ UNCHANGED <<now, entities, relations, run>>

Tick ==
    /\ now < MaxTime
    /\ now' = now + 1
    /\ UNCHANGED <<config, entities, relations, run>>

Next ==
    \/ EditConfig
    \/ Tick
    \/ \E r \in Runs, o \in Options :
          \/ Refuse(r, o)
          \/ Inspect(r, o)
          \/ DryRun(r, o)
          \/ Apply(r, o)
    \/ \E r \in Runs :
          \/ PutEntities(r)
          \/ PutRelations(r)
          \/ ReportApplied(r)
          \/ Killed(r)

Spec == Init /\ [][Next]_vars

-----------------------------------------------------------------------------
\* What EntityStore makes of the records.

IsRelation(x, rec) == x.src = rec.src /\ x.dest = rec.dest /\ x.type = rec.type

\* A record counts until its keep-alive ends, a relation also until an expiry.
LiveEntity(id, at) == \E e \in entities : e.id = id /\ at <= e.observed + KeepAlive
LiveRelation(rec, at) ==
    /\ rec.method = "Update"
    /\ at <= rec.observed + KeepAlive
    /\ ~\E x \in relations :
           IsRelation(x, rec) /\ x.method = "Expire" /\ x.observed >= rec.observed

-----------------------------------------------------------------------------
\* Properties.

\* The topology an investigation reads never leads from an endpoint the store
\* does not know: wherever a sync fails or is killed, and whatever other runs do
\* in between, a relation is written only after the entity it starts at, and it
\* does not outlive it.
LiveRelationHasLiveEntity ==
    \A rec \in relations, at \in 0..(MaxTime + KeepAlive) :
        LiveRelation(rec, at) => LiveEntity(rec.src, at)

\* A run that reports "applied" has written the whole plan of the configuration
\* it loaded, although the file may have changed since.
AppliedPlanIsStored ==
    \A r \in Runs :
        run[r].pc = "applied" =>
            LET plan == Plan(run[r].options, run[r].config, run[r].observed) IN
            plan.entities \subseteq entities /\ plan.relations \subseteq relations

\* An expiry never refreshes or alters entity data, and of the relations it ends
\* only those of the type it was given, of the one endpoint it was given.
ExpiryTouchesOneRelation ==
    [][\A r \in Runs :
          (Writes(r) /\ run'[r] # run[r] /\ run[r].options.expire # Blank) =>
              /\ entities' = entities
              /\ \A rec \in relations' \ relations :
                     /\ rec.type = run[r].options.expire
                     /\ rec.method = "Expire"
                     /\ run[r].config.endpoints =
                            {e \in run[r].config.endpoints : e.id = rec.src /\ e.ecs = rec.dest}
      ]_vars

=============================================================================
