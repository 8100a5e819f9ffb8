--------------------------- MODULE EvidenceService ---------------------------
(***************************************************************************)
(* The evidence service of a process, sre-worker or sre-evidence: what it  *)
(* loads at start (config.Load, LoadRegistry, LoadIncidentBindings), and   *)
(* how it answers for one class of evidence: the incident's own selectors, *)
(* the bindings of the class by id, a fixed request for each, the list of  *)
(* the operations that the client may call, and the cloud.                 *)
(*                                                                         *)
(* The files are edited while processes run and between two reads of one   *)
(* start, so each read finds any file.  Processes share nothing else, so   *)
(* there is one at a time.                                                 *)
(***************************************************************************)
EXTENDS Integers, Sequences, Functions

CONSTANTS Configs,        \* what sre.yaml may hold
          RegistryFiles,  \* what the file of evidence bindings may hold
          IncidentFiles,  \* what the file of incident bindings may hold
          Incidents,      \* table incidents: key and alert time of each row
          EvidenceWindow, \* incidentEvidenceWindow
          Int32Bound      \* 2^31, scaled

ASSUME ServiceAssumption ==
    /\ EvidenceWindow \in Nat \ {0}
    /\ Int32Bound \in Nat \ {0}
    /\ EvidenceWindow <= Int32Bound
    /\ \A i \in DOMAIN Incidents : Incidents[i].alert \in Nat

\* Where a value stands is written into it as "of".
ASSUME SourceAssumption ==
    /\ \A c \in Configs : \A v \in {c.workspace, c.region, c.project, c.logstore} : v.of = "config"
    /\ \A file \in IncidentFiles :
          \A n \in DOMAIN file :
             \A f \in DOMAIN file[n].selectors : file[n].selectors[f].of = file[n].key

\* Ids are strings in the code; what matters is that they are totally ordered.
ASSUME IdAssumption ==
    \A file \in RegistryFiles : \A n \in DOMAIN file : file[n].id \in Int

VARIABLES process, \* the process and what it has loaded
          query,   \* the call of Context, Metrics, Logs or Changes
          calls    \* the requests that this call has sent to the cloud

vars == <<process, query, calls>>

\* A value that may become part of a request: whose it is (the key of an incident
\* binding, or the configuration), what it is, and whether it has none but the
\* characters of safeSelector, or for a workspace entityStoreWorkspacePattern.
Missing == [of |-> "config", field |-> "empty", safe |-> FALSE]
Given(value) == value # Missing

-----------------------------------------------------------------------------
\* Loading.

Classes == {"context", "metrics", "logs", "changes"}

allowedSelectors ==
    {"endpoint_id", "probe_task_id", "instance_id", "account_id", "region_id",
     "security_group_id", "resource_id", "host"}

allowedTemplates ==
    [provider \in {"umodel", "synthetic_probe", "cloudmonitor", "sls", "actiontrail"} |->
        CASE provider = "umodel" -> {"endpoint_context", "endpoint_topology"}
          [] provider = "synthetic_probe" -> {"availability"}
          [] provider = "cloudmonitor" -> {"ecs_normal_state"}
          [] provider = "sls" -> {"nginx_access", "nginx_error"}
          [] provider = "actiontrail" -> {"security_group_change"}]

ValidBindingOfKnownNames(b) ==
    /\ ~b.malformed
    /\ b.class \in Classes
    /\ b.provider \in DOMAIN allowedTemplates
    /\ DOMAIN b.mapping # {}
    /\ DOMAIN b.mapping \cup Range(b.mapping) \subseteq allowedSelectors

\* validateBinding.  malformed: it names a URL, credentials or a command, lacks
\* a required name, or its console link has two lines.
ValidBinding(b) ==
    /\ ~b.malformed
    /\ b.class \in Classes
    /\ b.provider \in DOMAIN allowedTemplates
    /\ b.template \in allowedTemplates[b.provider]
    /\ DOMAIN b.mapping # {}
    /\ DOMAIN b.mapping \cup Range(b.mapping) \subseteq allowedSelectors

ValidRegistry(file) ==
    /\ file # <<>>
    /\ \A n \in DOMAIN file : ValidBinding(file[n])
    /\ IsInjective([n \in DOMAIN file |-> file[n].id])

\* ValidateIncidentBindings.  blank: a part of the key, a name or a value is.
ValidIncidentBindings(file) ==
    /\ file # <<>>
    /\ \A n \in DOMAIN file : ~file[n].blank /\ DOMAIN file[n].selectors # {}
    /\ IsInjective([n \in DOMAIN file |-> file[n].key])

ValidConfigWithoutLogs(c) ==
    /\ c.required
    /\ c.enabled => Given(c.workspace) /\ Given(c.region) /\ c.paths /\ c.polls

\* config.Load.  required: state_db and max_turns; project and logstore are those
\* of SLS; paths: those of the two binding files; polls: poll_seconds is positive.
\* A name may have any characters, it must only be there.
ValidConfig(c) ==
    /\ c.required
    /\ c.enabled =>
          /\ Given(c.workspace) /\ Given(c.region) /\ Given(c.project) /\ Given(c.logstore)
          /\ c.paths /\ c.polls

\* The worker alone asks for worker.enabled and validateWorkerConfig.
MayRun(kind, c) == ValidConfig(c) /\ (kind = "worker" => c.enabled /\ c.feishu)

Exited == [pc |-> "exited"]
NoQuery == [pc |-> "none"]

Init ==
    /\ process = Exited
    /\ query = NoQuery
    /\ calls = {}

LoadConfig ==
    /\ process = Exited
    /\ \E kind \in {"worker", "command"}, c \in Configs :
          /\ MayRun(kind, c)
          /\ process' = [pc |-> "registry", kind |-> kind, config |-> c]
    /\ UNCHANGED <<query, calls>>

\* The client, which needs a region, comes before the registry.
LoadRegistry ==
    /\ process.pc = "registry"
    /\ Given(process.config.region) /\ process.config.paths
    /\ \E file \in RegistryFiles :
          /\ ValidRegistry(file)
          /\ process' = [pc |-> "incidents", kind |-> process.kind, config |-> process.config,
                         registry |-> file]
    /\ UNCHANGED <<query, calls>>

LoadIncidentBindings ==
    /\ process.pc = "incidents"
    /\ \E file \in IncidentFiles :
          /\ ValidIncidentBindings(file)
          /\ process' = [pc |-> "serving", kind |-> process.kind, config |-> process.config,
                         registry |-> process.registry, incidents |-> file]
    /\ UNCHANGED <<query, calls>>

\* A file that is not valid or cannot be read, a command that is done, a kill.
Exit ==
    /\ process # Exited
    /\ process' = Exited
    /\ query' = NoQuery
    /\ calls' = {}

-----------------------------------------------------------------------------
\* The incident and the bindings of the class.

BindingsFor(class) == {b \in Range(process.registry) : b.class = class}

IsNextInTheFile(b) ==
    \E n \in DOMAIN process.registry :
        /\ process.registry[n] = b /\ b \in query.rest
        /\ \A m \in 1..(n - 1) : process.registry[m] \notin query.rest

\* BindingsFor sorts by id: what is left of the class is served in this order.
IsNext(b) == b \in query.rest /\ \A other \in query.rest : b.id <= other.id

\* ResolveIncident: the selectors come from the reviewed file, by the key of
\* the incident, the window from its alert.
ResolveIncident(i) ==
    {entry \in Range(process.incidents) : entry.key = Incidents[i].key}

Window(i) == [from |-> Incidents[i].alert - EvidenceWindow, to |-> Incidents[i].alert]

\* An incident that is not in the table, or whose key is not in the file, is
\* refused.
Ask ==
    /\ process.pc = "serving" /\ query.pc # "asking"
    /\ \/ \E class \in Classes, i \in DOMAIN Incidents :
             \E entry \in ResolveIncident(i) :
                query' = [pc |-> "asking", class |-> class, incident |-> i,
                          selectors |-> entry.selectors, rest |-> BindingsFor(class),
                          evidence |-> <<>>, change |-> FALSE]
       \/ query' = [pc |-> "unknown"]
    /\ calls' = {}
    /\ UNCHANGED process

\* resolveSelectors: every field of the mapping is needed.
Selects(b) == Range(b.mapping) \subseteq DOMAIN query.selectors
Selected(b) == [s \in DOMAIN b.mapping |-> query.selectors[b.mapping[s]]]

-----------------------------------------------------------------------------
\* Requests.  Each operator is the set of the one request that is built, or {}
\* where the code returns an error instead.

Int32OfHalfTheWidth(t) == ((t + Int32Bound \div 2) % Int32Bound) - Int32Bound \div 2

\* int32(t.Unix())
Int32(t) == ((t + Int32Bound) % (2 * Int32Bound)) - Int32Bound

\* endpoint: the host of each of the SDK's clients is made of the configured
\* region; places: what else of the request does not say what is looked for.
Request(service, operation, c, places, subject, window) ==
    {[service |-> service, operation |-> operation, endpoint |-> c.region, places |-> places,
      subject |-> subject, from |-> window.from, to |-> window.to]}

EntityStoreRequest(c, sel, window) ==
    IF Given(c.workspace) /\ "endpoint_id" \in DOMAIN sel
    THEN Request("cms", "GetEntityStoreData", c, {c.workspace}, {sel["endpoint_id"]}, window)
    ELSE {}

\* The selectors decide between the instance and the probe task, not the template.
MetricSubject(sel) ==
    IF "instance_id" \in DOMAIN sel THEN {sel["instance_id"]}
    ELSE IF "probe_task_id" \in DOMAIN sel THEN {sel["probe_task_id"]} ELSE {}

MetricsRequest(c, sel, window) ==
    LET region == IF "region_id" \in DOMAIN sel THEN sel["region_id"] ELSE c.region IN
    IF region.safe /\ MetricSubject(sel) # {}
    THEN Request("cms", "DescribeMetricList", c, {region}, MetricSubject(sel), window)
    ELSE {}

NginxLogsRequest(c, sel, window) ==
    IF {"endpoint_id", "instance_id"} \subseteq DOMAIN sel /\ Given(c.project) /\ Given(c.logstore)
    THEN Request("sls", "GetLogs", c, {c.project, c.logstore},
                 {sel["endpoint_id"], sel["instance_id"]},
                 [from |-> Int32(window.from), to |-> Int32(window.to)])
    ELSE {}

ActionTrailRequest(c, sel, window) ==
    IF "security_group_id" \in DOMAIN sel
    THEN Request("actiontrail", "LookupEvents", c, {}, {sel["security_group_id"]}, window)
    ELSE {}

Implemented ==
    {"endpoint_context", "endpoint_topology", "availability", "ecs_normal_state",
     "nginx_access", "nginx_error", "security_group_change"}

Route(template, c, sel, window) ==
    CASE template \in {"endpoint_context", "endpoint_topology"} -> EntityStoreRequest(c, sel, window)
      [] template \in {"availability", "ecs_normal_state"} -> MetricsRequest(c, sel, window)
      [] template \in {"nginx_access", "nginx_error"} -> NginxLogsRequest(c, sel, window)
      [] template = "security_group_change" -> ActionTrailRequest(c, sel, window)

BuiltFromAnyValue(b) ==
    IF Selects(b)
    THEN Route(b.template, process.config, Selected(b), Window(query.incident))
    ELSE {}

\* AliyunProvider.Resolve looks at every selected value first, used or not.
Built(b) ==
    IF Selects(b) /\ \A s \in DOMAIN b.mapping : Selected(b)[s].safe
    THEN Route(b.template, process.config, Selected(b), Window(query.incident))
    ELSE {}

\* The keys of the map of providers.
providers == {"umodel", "synthetic_probe", "cloudmonitor", "sls", "actiontrail"}

allowedActions ==
    [service \in {"cms", "sls", "actiontrail"} |->
        CASE service = "cms" -> {"GetEntityStoreData", "DescribeMetricList"}
          [] service = "sls" -> {"GetLogs"}
          [] service = "actiontrail" -> {"LookupEvents"}]

Routed(b) ==
    /\ b.provider \in providers
    /\ b.template \in Implemented
    /\ \A r \in Built(b) :
          r.service \in DOMAIN allowedActions /\ r.operation \in allowedActions[r.service]

\* buildEntityStoreDataRequest and callSLS: the client's own look at a request.
Sendable(r) ==
    /\ r.operation = "GetEntityStoreData" => r.from < r.to /\ \A v \in r.places : v.safe
    /\ r.operation = "GetLogs" => \A v \in r.places : Given(v)

-----------------------------------------------------------------------------
\* The cloud.

\* What callRPC returns is the SDK's envelope, not the body alone.
Envelope(events) == [statusCode |-> 200, body |-> [Events |-> events]]

\* resolveChanges decodes the answer with Events at the top.
Events(answer) == IF "Events" \in DOMAIN answer THEN answer.Events ELSE <<>>

Reports(r, events) == r.operation = "LookupEvents" /\ events # <<>>

EvidenceOfClass(b, r, events) ==
    IF r.operation = "LookupEvents"
    THEN [n \in DOMAIN Events(Envelope(events)) |-> [binding |-> b.id, type |-> "change"]]
    ELSE <<[binding |-> b.id, type |-> b.class]>>

Evidence(b, r, events) ==
    IF r.operation = "LookupEvents"
    THEN [n \in DOMAIN Events(Envelope(events)) |-> [binding |-> b.id, type |-> "change"]]
    ELSE <<[binding |-> b.id, type |->
              CASE r.operation = "GetEntityStoreData" -> "context"
                [] r.operation = "DescribeMetricList" -> "metric"
                [] r.operation = "GetLogs" -> "log"]>>

Answer ==
    /\ query.pc = "asking" /\ query.rest = {}
    /\ query' = [query EXCEPT !.pc = "answered"]
    /\ UNCHANGED <<process, calls>>

\* No call to the cloud: a selector is missing or not safe, the builder or the
\* client lacks a parameter, or (unroutable) one of the lists has no such entry.
Refuse ==
    /\ query.pc = "asking"
    /\ \E b \in query.rest :
          LET listed == Selects(b) => Routed(b) IN
          /\ IsNext(b)
          /\ listed => \A r \in Built(b) : ~Sendable(r)
          /\ query' = [query EXCEPT !.pc = IF listed THEN "refused" ELSE "unroutable"]
    /\ UNCHANGED <<process, calls>>

\* The cloud answers, or fails, and with it the whole call.
Call ==
    /\ query.pc = "asking"
    /\ \E b \in query.rest :
          /\ IsNext(b)
          /\ Routed(b)
          /\ \E r \in Built(b), events \in {<<>>, <<"change">>} :
                /\ Sendable(r)
                /\ calls' = calls \cup {r}
                /\ \/ query' = [query EXCEPT !.pc = "failed"]
                   \/ query' = [query EXCEPT !.rest = @ \ {b},
                                             !.evidence = @ \o Evidence(b, r, events),
                                             !.change = @ \/ Reports(r, events)]
    /\ UNCHANGED process

Next ==
    \/ LoadConfig
    \/ LoadRegistry
    \/ LoadIncidentBindings
    \/ Exit
    \/ Ask
    \/ Answer
    \/ Refuse
    \/ Call

Spec == Init /\ [][Next]_vars

-----------------------------------------------------------------------------
\* Properties.

Read(files) == UNION {{file[n] : n \in DOMAIN file} : file \in files}
Fields(entry) == {entry.selectors[f] : f \in DOMAIN entry.selectors}
Values ==
    (UNION {Fields(entry) : entry \in Read(IncidentFiles)})
        \cup UNION {{c.workspace, c.region, c.project, c.logstore} : c \in Configs}

Requests == [service : DOMAIN allowedActions, operation : UNION Range(allowedActions),
             endpoint : Values, places : SUBSET Values, subject : SUBSET Values,
             from : Int, to : Int]
Items == [binding : {b.id : b \in Read(RegistryFiles)},
          type : {"context", "metric", "log", "change"}]

TypeOK ==
    /\ process = Exited \/
          /\ process.pc \in {"registry", "incidents", "serving"}
          /\ process.kind \in {"worker", "command"}
          /\ process.config \in Configs
    /\ process.pc \in {"incidents", "serving"} => process.registry \in RegistryFiles
    /\ process.pc = "serving" => process.incidents \in IncidentFiles
    /\ query.pc \in {"asking", "answered", "unroutable", "refused", "failed"} =>
          /\ query.class \in Classes /\ query.incident \in DOMAIN Incidents
          /\ query.rest \subseteq Read(RegistryFiles)
          /\ query.evidence \in Seq(Items)
    /\ calls \subseteq Requests

\* What reaches the cloud is one of the listed read operations, about the
\* incident that was asked for and nothing else: every value in it stands in the
\* incident's own reviewed binding or in the configuration.  Of the values of a
\* binding none has an unsafe character, whatever a binding maps to what; of
\* those of the configuration this holds for the workspace and for the region as
\* a parameter.  The project, the logstore, and the region as a part of every
\* endpoint are sent as the administrator wrote them.
OnlyReviewedValuesAreSent ==
    \A r \in calls :
        /\ r.service \in DOMAIN allowedActions /\ r.operation \in allowedActions[r.service]
        /\ \A v \in r.subject \cup r.places \cup {r.endpoint} :
              v.of \in {Incidents[query.incident].key, "config"}
        /\ \A v \in r.subject \cup r.places : (v.of # "config" \/ r.service = "cms") => v.safe
        /\ r.endpoint.of = "config"

\* The three lists agree (templates of the registry, routes of the provider,
\* operations of the client): what the first lets in, the others serve.
LoadedBindingsAreRouted == query.pc # "unroutable"

Needs(b) ==
    CASE b.template \in {"endpoint_context", "endpoint_topology"} -> {{"endpoint_id"}}
      [] b.template \in {"availability", "ecs_normal_state"} -> {{"instance_id"}, {"probe_task_id"}}
      [] b.template \in {"nginx_access", "nginx_error"} -> {{"endpoint_id", "instance_id"}}
      [] b.template = "security_group_change" -> {{"security_group_id"}}

Fits(b, selectors) ==
    /\ \E needs \in Needs(b) : needs \subseteq DOMAIN b.mapping
    /\ \A f \in Range(b.mapping) : f \in DOMAIN selectors /\ selectors[f].safe

\* A worker that started lacks nothing but what a reviewer of the two binding
\* files can see: where the mapping covers the template and the incident the
\* mapping, with safe values, no request is refused for want of a parameter.
WorkerIsConfigured ==
    (process.pc = "serving" /\ process.kind = "worker" /\ query.pc = "refused") =>
        \/ \E b \in query.rest : IsNext(b) /\ ~Fits(b, query.selectors)
        \/ ~process.config.workspace.safe \/ ~process.config.region.safe

\* Logs are asked for the half hour before the alert, as long as its second
\* fits into 32 bits.
LogsAreOfTheWindow ==
    \A r \in calls :
        (r.operation = "GetLogs" /\ Incidents[query.incident].alert < Int32Bound) =>
            [from |-> r.from, to |-> r.to] = Window(query.incident)

\* Whatever order the file has, an answer lists its evidence by the id of the
\* binding, and no binding of the class is left out but for want of changes.
AnswerFollowsIds ==
    query.pc = "answered" =>
        /\ \A m, n \in DOMAIN query.evidence :
              m < n => query.evidence[m].binding <= query.evidence[n].binding
        /\ \A b \in Range(process.registry) :
              (b.class = query.class /\ b.template # "security_group_change") =>
                  \E n \in DOMAIN query.evidence : query.evidence[n].binding = b.id

\* aliyun_test.go:31: an event that the cloud reports is change evidence.
ReportedChangeIsEvidence ==
    (query.pc = "answered" /\ query.change) =>
        \E n \in DOMAIN query.evidence : query.evidence[n].type = "change"

=============================================================================
