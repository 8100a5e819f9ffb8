----------------------- MODULE EvidenceServiceProofs -----------------------
(* Proofs about EvidenceService, for any files, incidents and answers of the *)
(* cloud.                                                                    *)
EXTENDS EvidenceService, TLAPS

QueryFields == {"pc", "class", "incident", "selectors", "rest", "evidence", "change"}

\* What a process has loaded is valid and comes from the files.
ProcessInv ==
    /\ process.pc \in {"registry", "incidents", "serving"} => process.config \in Configs
    /\ process.pc \in {"incidents", "serving"} => ValidRegistry(process.registry)
    /\ process.pc = "serving" => process.incidents \in IncidentFiles

\* What is left to answer are bindings of the registry, and the selectors are
\* those of the incident that was asked for.
QueryInv ==
    query.pc \in {"asking", "answered", "refused", "failed"} =>
        /\ query = [f \in QueryFields |-> query[f]]
        /\ process.pc = "serving"
        /\ query.rest \subseteq Range(process.registry)
        /\ query.incident \in DOMAIN Incidents
        /\ \A f \in DOMAIN query.selectors :
              query.selectors[f].of = Incidents[query.incident].key

CallsInv == calls # {} => query.pc \in {"asking", "answered", "refused", "failed"}

ServiceInv ==
    /\ ProcessInv
    /\ QueryInv
    /\ CallsInv
    /\ LoadedBindingsAreRouted
    /\ OnlyReviewedValuesAreSent
    /\ LogsAreOfTheWindow

-----------------------------------------------------------------------------
\* Requests.

\* Whatever is built is one of the operations that the client lets pass.
LEMMA BuiltIsAllowed ==
    ASSUME NEW b, NEW r \in Built(b), b.template \in Implemented
    PROVE  r.service \in DOMAIN allowedActions /\ r.operation \in allowedActions[r.service]
<1>1. /\ allowedActions["cms"] = {"GetEntityStoreData", "DescribeMetricList"}
      /\ allowedActions["sls"] = {"GetLogs"}
      /\ allowedActions["actiontrail"] = {"LookupEvents"}
      /\ DOMAIN allowedActions = {"cms", "sls", "actiontrail"}
  BY DEF allowedActions
<1>2. \/ r.service = "cms" /\ r.operation \in {"GetEntityStoreData", "DescribeMetricList"}
      \/ r.service = "sls" /\ r.operation = "GetLogs"
      \/ r.service = "actiontrail" /\ r.operation = "LookupEvents"
  BY DEF Built, Route, Implemented, EntityStoreRequest, MetricsRequest, NginxLogsRequest,
         ActionTrailRequest, Request
<1> QED BY <1>1, <1>2

\* What the registry lets in has a provider, a route and an operation.
LEMMA ValidIsRouted ==
    ASSUME NEW b, ValidBinding(b)
    PROVE  Routed(b)
<1>1. b.provider \in providers /\ b.template \in Implemented
  BY DEF ValidBinding, allowedTemplates, providers, Implemented
<1> QED BY <1>1, BuiltIsAllowed DEF Routed

\* A second within 32 bits is itself.
LEMMA Int32IsExact ==
    ASSUME NEW t \in Int, -Int32Bound <= t, t < Int32Bound
    PROVE  Int32(t) = t
<1>1. /\ Int32Bound \in Nat /\ Int32Bound > 0
  BY ServiceAssumption DEF ServiceAssumption
<1>2. t + Int32Bound \in 0..(2 * Int32Bound - 1) /\ 2 * Int32Bound \in Nat /\ 2 * Int32Bound > 0
  BY <1>1
<1>3. \A n \in Nat : \A x \in 0..(n - 1) : x % n = x
  OBVIOUS
<1>4. (t + Int32Bound) % (2 * Int32Bound) = t + Int32Bound
  BY <1>2, <1>3
<1> QED BY <1>1, <1>4 DEF Int32

\* What OnlyReviewedValuesAreSent says of the values of one request.
Reviewed(r) ==
    /\ \A v \in r.subject \cup r.places \cup {r.endpoint} :
          v.of \in {Incidents[query.incident].key, "config"}
    /\ \A v \in r.subject \cup r.places : (v.of # "config" \/ r.service = "cms") => v.safe
    /\ r.endpoint.of = "config"

\* What is built for the incident that was asked for holds safe values of it and
\* values of the configuration, once the client has looked at it too.
LEMMA BuiltIsReviewed ==
    ASSUME ServiceInv, query.pc = "asking",
           NEW b, b.template \in Implemented, NEW r \in Built(b), Sendable(r)
    PROVE  Reviewed(r)
<1> DEFINE c == process.config
           sel == Selected(b)
           w == Window(query.incident)
           Own(v) == v.safe /\ v.of = Incidents[query.incident].key
           Known(v, service) == v.of = "config" /\ (service = "cms" => v.safe)
<1>1. \A v \in {c.workspace, c.region, c.project, c.logstore} : v.of = "config"
  <2>1. c \in Configs
    BY DEF ServiceInv, ProcessInv, QueryInv
  <2> QED BY <2>1, SourceAssumption DEF SourceAssumption
<1>2. r \in Route(b.template, c, sel, w) /\ Selects(b) /\ \A s \in DOMAIN b.mapping : sel[s].safe
  BY DEF Built
<1>3. DOMAIN sel = DOMAIN b.mapping
  BY DEF Selected
<1>4. \A s \in DOMAIN sel : Own(sel[s])
  <2> SUFFICES ASSUME NEW s \in DOMAIN b.mapping PROVE Own(sel[s])
    BY <1>3
  <2>1. sel[s] = query.selectors[b.mapping[s]]
    BY DEF Selected
  <2>2. b.mapping[s] \in DOMAIN query.selectors
    BY <1>2 DEF Selects, Range
  <2>3. query.selectors[b.mapping[s]].of = Incidents[query.incident].key
    BY <2>2 DEF ServiceInv, QueryInv
  <2> QED BY <1>2, <2>1, <2>3
<1> HIDE DEF sel, c, w
<1>5. ASSUME NEW service, NEW operation, NEW places, NEW subject, NEW window,
             r \in Request(service, operation, c, places, subject, window),
             \A v \in subject : Own(v),
             \A v \in places : Own(v) \/ Known(v, service)
      PROVE  Reviewed(r)
  <2>1. r.service = service /\ r.places = places /\ r.subject = subject /\ r.endpoint = c.region
    BY <1>5 DEF Request
  <2> QED BY <1>1, <1>5, <2>1 DEF Reviewed
<1>6. CASE r \in EntityStoreRequest(c, sel, w)
  <2>1. /\ r \in Request("cms", "GetEntityStoreData", c, {c.workspace}, {sel["endpoint_id"]}, w)
        /\ "endpoint_id" \in DOMAIN sel
    BY <1>6 DEF EntityStoreRequest
  <2>2. r.operation = "GetEntityStoreData" /\ r.places = {c.workspace}
    BY <2>1 DEF Request
  <2>3. Known(c.workspace, "cms")
    BY <1>1, <2>2 DEF Sendable
  <2> HIDE DEF Own, Known
  <2> QED BY <1>4, <1>5, <2>1, <2>3
<1>7. CASE r \in MetricsRequest(c, sel, w)
  <2> DEFINE region == IF "region_id" \in DOMAIN sel THEN sel["region_id"] ELSE c.region
  <2>1. /\ r \in Request("cms", "DescribeMetricList", c, {region}, MetricSubject(sel), w)
        /\ region.safe
    BY <1>7 DEF MetricsRequest
  <2>2. Own(region) \/ Known(region, "cms")
    BY <1>1, <1>4, <2>1
  <2>3. \A v \in MetricSubject(sel) : Own(v)
    BY <1>4 DEF MetricSubject
  <2> HIDE DEF region, Own, Known
  <2> QED BY <1>5, <2>1, <2>2, <2>3
<1>8. CASE r \in NginxLogsRequest(c, sel, w)
  <2>1. PICK window :
           r \in Request("sls", "GetLogs", c, {c.project, c.logstore},
                         {sel["endpoint_id"], sel["instance_id"]}, window)
    BY <1>8 DEF NginxLogsRequest
  <2>2. {"endpoint_id", "instance_id"} \subseteq DOMAIN sel
    BY <1>8 DEF NginxLogsRequest
  <2>3. Known(c.project, "sls") /\ Known(c.logstore, "sls")
    BY <1>1
  <2> HIDE DEF Own, Known
  <2> QED BY <1>4, <1>5, <2>1, <2>2, <2>3
<1>9. CASE r \in ActionTrailRequest(c, sel, w)
  <2>1. /\ r \in Request("actiontrail", "LookupEvents", c, {}, {sel["security_group_id"]}, w)
        /\ "security_group_id" \in DOMAIN sel
    BY <1>9 DEF ActionTrailRequest
  <2> HIDE DEF Own, Known
  <2> QED BY <1>4, <1>5, <2>1
<1>10. \/ r \in EntityStoreRequest(c, sel, w) \/ r \in MetricsRequest(c, sel, w)
       \/ r \in NginxLogsRequest(c, sel, w) \/ r \in ActionTrailRequest(c, sel, w)
  BY <1>2 DEF Route, Implemented
<1> QED BY <1>6, <1>7, <1>8, <1>9, <1>10

\* Logs are asked for the window of the incident.
LEMMA LogsBuiltAreOfTheWindow ==
    ASSUME ServiceInv, query.pc = "asking",
           NEW b, b.template \in Implemented, NEW r \in Built(b), r.operation = "GetLogs",
           Incidents[query.incident].alert < Int32Bound
    PROVE  [from |-> r.from, to |-> r.to] = Window(query.incident)
<1> DEFINE w == Window(query.incident)
<1>1. r \in NginxLogsRequest(process.config, Selected(b), w)
  BY DEF Built, Route, Implemented, EntityStoreRequest, MetricsRequest, ActionTrailRequest, Request
<1>2. r.from = Int32(w.from) /\ r.to = Int32(w.to)
  BY <1>1 DEF NginxLogsRequest, Request
<1>3. /\ Incidents[query.incident].alert \in Nat
      /\ EvidenceWindow \in Nat /\ Int32Bound \in Nat /\ EvidenceWindow <= Int32Bound
  BY ServiceAssumption DEF ServiceAssumption, ServiceInv, QueryInv
<1>4. w.from = Incidents[query.incident].alert - EvidenceWindow /\ w.to = Incidents[query.incident].alert
  BY DEF Window
<1>5. Int32(w.from) = w.from /\ Int32(w.to) = w.to
  BY <1>3, <1>4, Int32IsExact
<1>6. r.from = w.from /\ r.to = w.to
  BY <1>2, <1>5
<1>7. w = [from |-> w.from, to |-> w.to]
  BY DEF Window
<1> QED BY <1>6, <1>7

-----------------------------------------------------------------------------
\* The invariant.

LEMMA InitServiceInv == Init => ServiceInv
BY DEF Init, Exited, NoQuery, ServiceInv, ProcessInv, QueryInv, CallsInv, LoadedBindingsAreRouted,
       OnlyReviewedValuesAreSent, LogsAreOfTheWindow

\* Starting and ending: there is no query.
LEMMA LoadKeeps ==
    ASSUME ServiceInv, LoadConfig \/ LoadRegistry \/ LoadIncidentBindings \/ Exit
    PROVE  ServiceInv'
<1>1. ProcessInv'
  BY DEF ServiceInv, ProcessInv, LoadConfig, LoadRegistry, LoadIncidentBindings, Exit, Exited
<1>2. CASE Exit
  BY <1>1, <1>2
  DEF Exit, NoQuery, ServiceInv, QueryInv, CallsInv, LoadedBindingsAreRouted,
      OnlyReviewedValuesAreSent, LogsAreOfTheWindow
<1>3. CASE LoadConfig \/ LoadRegistry \/ LoadIncidentBindings
  <2>1. process.pc # "serving" /\ UNCHANGED <<query, calls>>
    BY <1>3 DEF LoadConfig, LoadRegistry, LoadIncidentBindings, Exited
  <2>2. query.pc \notin {"asking", "answered", "refused", "failed"} /\ calls = {}
    BY <2>1 DEF ServiceInv, QueryInv, CallsInv
  <2> QED
    BY <1>1, <2>1, <2>2
    DEF ServiceInv, QueryInv, CallsInv, LoadedBindingsAreRouted, OnlyReviewedValuesAreSent,
        LogsAreOfTheWindow
<1> QED BY <1>2, <1>3

LEMMA AskKeeps ==
    ASSUME ServiceInv, Ask
    PROVE  ServiceInv'
<1>1. calls' = {} /\ UNCHANGED process /\ process.pc = "serving"
  BY DEF Ask
<1>2. ProcessInv'
  BY <1>1 DEF ServiceInv, ProcessInv
<1>3. OnlyReviewedValuesAreSent' /\ LogsAreOfTheWindow' /\ CallsInv'
  BY <1>1 DEF OnlyReviewedValuesAreSent, LogsAreOfTheWindow, CallsInv
<1>4. CASE query' = [pc |-> "unknown"]
  BY <1>2, <1>3, <1>4 DEF ServiceInv, QueryInv, LoadedBindingsAreRouted
<1>5. ASSUME NEW class \in Classes, NEW i \in DOMAIN Incidents, NEW entry \in ResolveIncident(i),
             query' = [pc |-> "asking", class |-> class, incident |-> i,
                       selectors |-> entry.selectors, rest |-> BindingsFor(class),
                       evidence |-> <<>>, change |-> FALSE]
      PROVE  ServiceInv'
  <2>1. /\ query'.pc = "asking" /\ query'.incident = i
        /\ query'.selectors = entry.selectors /\ query'.rest = BindingsFor(class)
    BY <1>5
  <2>2. query' = [f \in QueryFields |-> query'[f]]
    BY <1>5 DEF QueryFields
  <2>3. query'.rest \subseteq Range(process'.registry)
    BY <1>1, <2>1 DEF BindingsFor
  <2>4. \A f \in DOMAIN entry.selectors : entry.selectors[f].of = Incidents[i].key
    <3>1. PICK n \in DOMAIN process.incidents : entry = process.incidents[n]
      BY DEF ResolveIncident, Range
    <3>2. process.incidents \in IncidentFiles
      BY <1>1 DEF ServiceInv, ProcessInv
    <3>3. \A f \in DOMAIN entry.selectors : entry.selectors[f].of = entry.key
      BY <3>1, <3>2, SourceAssumption DEF SourceAssumption
    <3> QED BY <3>3 DEF ResolveIncident
  <2>5. QueryInv'
    BY <1>1, <2>1, <2>2, <2>3, <2>4 DEF QueryInv
  <2> QED BY <1>2, <1>3, <2>1, <2>5 DEF ServiceInv, LoadedBindingsAreRouted
<1> QED BY <1>4, <1>5 DEF Ask

\* A step within a query keeps all of it but what it names.
LEMMA WithinQuery ==
    ASSUME ServiceInv, query.pc = "asking",
           UNCHANGED process,
           query' = [f \in QueryFields |-> query'[f]],
           query'.pc \in {"asking", "answered", "refused", "failed"},
           query'.rest \subseteq query.rest,
           query'.incident = query.incident, query'.selectors = query.selectors,
           calls' = calls \/ \E b \in query.rest : \E r \in Built(b) :
                                Sendable(r) /\ calls' = calls \cup {r}
    PROVE  ServiceInv'
<1>1. ProcessInv' /\ QueryInv' /\ CallsInv' /\ LoadedBindingsAreRouted'
  BY DEF ServiceInv, ProcessInv, QueryInv, CallsInv, LoadedBindingsAreRouted
<1>2. CASE calls' = calls
  BY <1>1, <1>2 DEF ServiceInv, OnlyReviewedValuesAreSent, LogsAreOfTheWindow, Window
<1>3. ASSUME NEW b \in query.rest, NEW r \in Built(b), Sendable(r), calls' = calls \cup {r}
      PROVE  ServiceInv'
  <2>1. ValidBinding(b)
    BY DEF ServiceInv, QueryInv, ProcessInv, ValidRegistry, Range
  <2>2. /\ b.template \in Implemented
        /\ r.service \in DOMAIN allowedActions /\ r.operation \in allowedActions[r.service]
    BY <2>1, ValidIsRouted DEF Routed
  <2>3. Reviewed(r)
    BY <1>3, <2>2, BuiltIsReviewed
  <2>4. OnlyReviewedValuesAreSent'
    BY <1>3, <2>2, <2>3 DEF ServiceInv, OnlyReviewedValuesAreSent, Reviewed
  <2>5. (r.operation = "GetLogs" /\ Incidents[query.incident].alert < Int32Bound) =>
           [from |-> r.from, to |-> r.to] = Window(query.incident)
    BY <2>2, LogsBuiltAreOfTheWindow
  <2>6. LogsAreOfTheWindow'
    BY <1>3, <2>5 DEF ServiceInv, LogsAreOfTheWindow, Window
  <2> QED BY <1>1, <2>4, <2>6 DEF ServiceInv
<1> QED BY <1>2, <1>3

LEMMA AnswerKeeps ==
    ASSUME ServiceInv, Answer \/ Refuse \/ Call
    PROVE  ServiceInv'
<1>1. query.pc = "asking" /\ UNCHANGED process
  BY DEF Answer, Refuse, Call
<1>2. query = [f \in QueryFields |-> query[f]]
  BY <1>1 DEF ServiceInv, QueryInv
<1>3. CASE Answer
  BY <1>1, <1>2, <1>3, WithinQuery DEF Answer, QueryFields
<1>4. CASE Refuse
  <2>1. PICK b \in query.rest :
           /\ query' = [query EXCEPT !.pc = IF Selects(b) => Routed(b) THEN "refused" ELSE "unroutable"]
    BY <1>4 DEF Refuse
  <2>2. Routed(b)
    BY <1>1, ValidIsRouted DEF ServiceInv, QueryInv, ProcessInv, ValidRegistry, Range
  <2>3. query' = [query EXCEPT !.pc = "refused"] /\ UNCHANGED calls
    BY <1>4, <2>1, <2>2 DEF Refuse
  <2> QED BY <1>1, <1>2, <2>3, WithinQuery DEF QueryFields
<1>5. CASE Call
  <2>1. PICK b \in query.rest : \E r \in Built(b), events \in {<<>>, <<"change">>} :
           /\ Sendable(r) /\ calls' = calls \cup {r}
           /\ \/ query' = [query EXCEPT !.pc = "failed"]
              \/ query' = [query EXCEPT !.rest = @ \ {b},
                                        !.evidence = @ \o Evidence(b, r, events),
                                        !.change = @ \/ Reports(r, events)]
    BY <1>5 DEF Call
  <2>2. PICK r \in Built(b) : \E events \in {<<>>, <<"change">>} :
           /\ Sendable(r) /\ calls' = calls \cup {r}
           /\ \/ query' = [query EXCEPT !.pc = "failed"]
              \/ query' = [query EXCEPT !.rest = @ \ {b},
                                        !.evidence = @ \o Evidence(b, r, events),
                                        !.change = @ \/ Reports(r, events)]
    BY <2>1
  <2>3. CASE query' = [query EXCEPT !.pc = "failed"]
    BY <1>1, <1>2, <2>2, <2>3, WithinQuery DEF QueryFields
  <2>4. ASSUME NEW evidence, NEW change,
               query' = [query EXCEPT !.rest = query.rest \ {b}, !.evidence = evidence,
                                      !.change = change]
        PROVE  ServiceInv'
    <3>1. /\ query'.pc = "asking" /\ query'.rest = query.rest \ {b}
          /\ query'.incident = query.incident /\ query'.selectors = query.selectors
          /\ query' = [f \in QueryFields |-> query'[f]]
      BY <1>1, <1>2, <2>4 DEF QueryFields
    <3> QED BY <1>1, <2>2, <3>1, WithinQuery
  <2> QED BY <2>2, <2>3, <2>4
<1> QED BY <1>3, <1>4, <1>5

LEMMA NextServiceInv == ServiceInv /\ [Next]_vars => ServiceInv'
<1> SUFFICES ASSUME ServiceInv, [Next]_vars PROVE ServiceInv'
  OBVIOUS
<1>1. CASE UNCHANGED vars
  BY <1>1
  DEF vars, ServiceInv, ProcessInv, QueryInv, CallsInv, LoadedBindingsAreRouted,
      OnlyReviewedValuesAreSent, LogsAreOfTheWindow, Window
<1> QED BY <1>1, LoadKeeps, AskKeeps, AnswerKeeps DEF Next

\* The invariant the results about requests follow from.
THEOREM ServiceInvariant == Spec => []ServiceInv
<1> QED BY InitServiceInv, NextServiceInv, PTL DEF Spec

\* However the files are written and edited, what reaches the cloud is a listed
\* read operation on safe values of the incident's own binding, sent to where the
\* configuration says; the workspace and the region of a metric are safe as well,
\* the project, the logstore and the region of the endpoint need not be.
THEOREM RequestsAreReviewed == Spec => []OnlyReviewedValuesAreSent
<1>1. ServiceInv => OnlyReviewedValuesAreSent
  BY DEF ServiceInv
<1> QED BY <1>1, ServiceInvariant, PTL

\* No binding that was loaded lacks a provider, a route or an operation.
THEOREM EveryLoadedBindingIsRouted == Spec => []LoadedBindingsAreRouted
<1>1. ServiceInv => LoadedBindingsAreRouted
  BY DEF ServiceInv
<1> QED BY <1>1, ServiceInvariant, PTL

\* Logs are asked for the right time as long as the alert fits into 32 bits.
THEOREM LogWindowIsExact == Spec => []LogsAreOfTheWindow
<1>1. ServiceInv => LogsAreOfTheWindow
  BY DEF ServiceInv
<1> QED BY <1>1, ServiceInvariant, PTL

-----------------------------------------------------------------------------
(* Types, the order of an answer, and what a worker lacks.                   *)

Named == {"asking", "answered", "refused", "failed"}

SelectorsInv ==
    query.pc \in Named =>
        \A f \in DOMAIN query.selectors : query.selectors[f] \in Values

\* What is left of the class comes after what was answered, and whatever is
\* not left was answered.
AnswerInv ==
    query.pc \in {"asking", "answered"} =>
        /\ \A m, n \in DOMAIN query.evidence :
              m < n => query.evidence[m].binding <= query.evidence[n].binding
        /\ \A n \in DOMAIN query.evidence : \A b \in query.rest :
              query.evidence[n].binding <= b.id
        /\ \A b \in Range(process.registry) :
              (b.class = query.class /\ b.template # "security_group_change") =>
                  \/ b \in query.rest
                  \/ \E n \in DOMAIN query.evidence : query.evidence[n].binding = b.id
        /\ query.pc = "answered" => query.rest = {}

\* A process runs with a configuration it may run with.
KindInv ==
    process.pc \in {"registry", "incidents", "serving"} => MayRun(process.kind, process.config)

AnsweringInv == TypeOK /\ SelectorsInv /\ AnswerInv /\ KindInv /\ WorkerIsConfigured

LEMMA WindowType ==
    ASSUME NEW i \in DOMAIN Incidents
    PROVE  /\ Window(i).from \in Int /\ Window(i).to \in Int
           /\ Window(i).from < Window(i).to
           /\ Int32(Window(i).from) \in Int /\ Int32(Window(i).to) \in Int
<1>1. Incidents[i].alert \in Nat /\ EvidenceWindow \in Nat \ {0} /\ Int32Bound \in Nat \ {0}
  BY ServiceAssumption DEF ServiceAssumption
<1>2. Window(i).from = Incidents[i].alert - EvidenceWindow /\ Window(i).to = Incidents[i].alert
  BY DEF Window
<1>3. Window(i).from \in Int /\ Window(i).to \in Int /\ Window(i).from < Window(i).to
  BY <1>1, <1>2
<1>4. ASSUME NEW t \in Int
      PROVE  Int32(t) \in Int
  <2>1. t + Int32Bound \in Int /\ 2 * Int32Bound \in Int /\ 2 * Int32Bound > 0
    BY <1>1
  <2>2. (t + Int32Bound) % (2 * Int32Bound) \in Int
    BY <2>1
  <2> QED BY <1>1, <2>2 DEF Int32
<1> QED BY <1>3, <1>4

LEMMA LoadedIsRead ==
    ASSUME TypeOK, process.pc = "serving", NEW b \in Range(process.registry)
    PROVE  b \in Read(RegistryFiles) /\ b.id \in Int
<1>1. process.registry \in RegistryFiles
  BY DEF TypeOK
<1> QED BY <1>1, IdAssumption DEF Read, Range

\* A request that is built is typed.
LEMMA BuiltIsTyped ==
    ASSUME ServiceInv, TypeOK, SelectorsInv, query.pc = "asking",
           NEW b, b.template \in Implemented, NEW r \in Built(b)
    PROVE  r \in Requests
<1> DEFINE c == process.config
           sel == Selected(b)
           w == Window(query.incident)
<1>1. /\ c.workspace \in Values /\ c.region \in Values
      /\ c.project \in Values /\ c.logstore \in Values
  <2>1. c \in Configs
    BY DEF ServiceInv, ProcessInv, QueryInv
  <2> QED BY <2>1 DEF Values
<1>2. r \in Route(b.template, c, sel, w) /\ Selects(b)
  BY DEF Built
<1>3. \A s \in DOMAIN sel : sel[s] \in Values
  <2>1. DOMAIN sel = DOMAIN b.mapping
    BY DEF Selected
  <2> SUFFICES ASSUME NEW s \in DOMAIN b.mapping PROVE sel[s] \in Values
    BY <2>1
  <2>2. sel[s] = query.selectors[b.mapping[s]] /\ b.mapping[s] \in DOMAIN query.selectors
    BY <1>2 DEF Selected, Selects, Range
  <2> QED BY <2>2 DEF SelectorsInv, Named
<1>4. /\ w.from \in Int /\ w.to \in Int
      /\ Int32(w.from) \in Int /\ Int32(w.to) \in Int
  BY WindowType DEF ServiceInv, QueryInv
<1>5. \A service \in {"cms", "sls", "actiontrail"} : service \in DOMAIN allowedActions
  BY DEF allowedActions
<1>6. /\ {"GetEntityStoreData", "DescribeMetricList", "GetLogs", "LookupEvents"}
            \subseteq UNION Range(allowedActions)
  <2>1. /\ allowedActions["cms"] = {"GetEntityStoreData", "DescribeMetricList"}
        /\ allowedActions["sls"] = {"GetLogs"}
        /\ allowedActions["actiontrail"] = {"LookupEvents"}
    BY DEF allowedActions
  <2>2. \A service \in {"cms", "sls", "actiontrail"} : allowedActions[service] \in Range(allowedActions)
    BY <1>5 DEF Range
  <2> QED BY <2>1, <2>2
<1> HIDE DEF sel, c, w
<1>7. ASSUME NEW service \in {"cms", "sls", "actiontrail"},
             NEW operation \in {"GetEntityStoreData", "DescribeMetricList", "GetLogs", "LookupEvents"},
             NEW places \in SUBSET Values, NEW subject \in SUBSET Values,
             NEW window, window.from \in Int, window.to \in Int,
             r \in Request(service, operation, c, places, subject, window)
      PROVE  r \in Requests
  BY <1>1, <1>5, <1>6, <1>7 DEF Request, Requests
<1>8. CASE r \in EntityStoreRequest(c, sel, w)
  <2>1. /\ r \in Request("cms", "GetEntityStoreData", c, {c.workspace}, {sel["endpoint_id"]}, w)
        /\ "endpoint_id" \in DOMAIN sel
    BY <1>8 DEF EntityStoreRequest
  <2> QED BY <1>1, <1>3, <1>4, <1>7, <2>1
<1>9. CASE r \in MetricsRequest(c, sel, w)
  <2> DEFINE region == IF "region_id" \in DOMAIN sel THEN sel["region_id"] ELSE c.region
  <2>1. r \in Request("cms", "DescribeMetricList", c, {region}, MetricSubject(sel), w)
    BY <1>9 DEF MetricsRequest
  <2>2. region \in Values /\ MetricSubject(sel) \in SUBSET Values
    BY <1>1, <1>3 DEF MetricSubject
  <2> HIDE DEF region
  <2> QED BY <1>4, <1>7, <2>1, <2>2
<1>10. CASE r \in NginxLogsRequest(c, sel, w)
  <2> DEFINE logs == [from |-> Int32(w.from), to |-> Int32(w.to)]
             subject == {sel["endpoint_id"], sel["instance_id"]}
  <2>1. /\ r \in Request("sls", "GetLogs", c, {c.project, c.logstore}, subject, logs)
        /\ {"endpoint_id", "instance_id"} \subseteq DOMAIN sel
    BY <1>10 DEF NginxLogsRequest
  <2>2. subject \in SUBSET Values /\ logs.from \in Int /\ logs.to \in Int
    BY <1>3, <1>4, <2>1
  <2> HIDE DEF logs, subject
  <2> QED BY <1>1, <1>7, <2>1, <2>2
<1>11. CASE r \in ActionTrailRequest(c, sel, w)
  <2>1. /\ r \in Request("actiontrail", "LookupEvents", c, {}, {sel["security_group_id"]}, w)
        /\ "security_group_id" \in DOMAIN sel
    BY <1>11 DEF ActionTrailRequest
  <2> QED BY <1>1, <1>3, <1>4, <1>7, <2>1
<1> QED BY <1>2, <1>8, <1>9, <1>10, <1>11 DEF Route, Implemented

\* The evidence of a binding bears its id, and there is some unless it asks for
\* changes.
LEMMA EvidenceOfBinding ==
    ASSUME NEW b \in Read(RegistryFiles), b.template \in Implemented, NEW r \in Built(b),
           NEW events
    PROVE  /\ Evidence(b, r, events) \in Seq(Items)
           /\ \A n \in DOMAIN Evidence(b, r, events) : Evidence(b, r, events)[n].binding = b.id
           /\ b.template # "security_group_change" => Len(Evidence(b, r, events)) = 1
<1>1. r \in Route(b.template, process.config, Selected(b), Window(query.incident))
  BY DEF Built
<1>2. /\ r.operation \in {"GetEntityStoreData", "DescribeMetricList", "GetLogs", "LookupEvents"}
      /\ b.template # "security_group_change" => r.operation # "LookupEvents"
  BY <1>1 DEF Route, Implemented, EntityStoreRequest, MetricsRequest, NginxLogsRequest,
              ActionTrailRequest, Request
<1>3. \A type \in {"context", "metric", "log", "change"} :
         /\ [binding |-> b.id, type |-> type] \in Items
         /\ [binding |-> b.id, type |-> type].binding = b.id
  BY DEF Items
<1>4. CASE r.operation = "LookupEvents"
  <2>1. Evidence(b, r, events) = <<>>
    <3>1. "Events" \notin DOMAIN Envelope(events)
      BY DEF Envelope
    <3>2. Events(Envelope(events)) = <<>>
      BY <3>1 DEF Events
    <3>3. Evidence(b, r, events) = [n \in DOMAIN <<>> |-> [binding |-> b.id, type |-> "change"]]
      BY <1>4, <3>2 DEF Evidence
    <3> QED BY <3>3
  <2> QED BY <1>2, <1>4, <2>1
<1>5. CASE r.operation # "LookupEvents"
  <2>1. PICK item \in Items : Evidence(b, r, events) = <<item>> /\ item.binding = b.id
    BY <1>2, <1>3, <1>5 DEF Evidence
  <2> QED BY <2>1
<1> QED BY <1>4, <1>5

\* Every step of a call that goes on, and what it answers for the next binding.
LEMMA AnswerSteps ==
    ASSUME ServiceInv, TypeOK, Answer \/ Refuse \/ Call
    PROVE  /\ query.pc = "asking" /\ UNCHANGED process
           /\ query'.class = query.class /\ query'.incident = query.incident
           /\ query'.selectors = query.selectors
           /\ \/ query'.pc = "answered" /\ query.rest = {}
                 /\ query'.rest = query.rest /\ query'.evidence = query.evidence
                 /\ calls' = calls
              \/ Refuse /\ query'.pc = "refused"
                 /\ query'.rest = query.rest /\ query'.evidence = query.evidence
                 /\ calls' = calls
              \/ \E b \in query.rest : \E r \in Built(b), events \in {<<>>, <<"change">>} :
                    /\ IsNext(b)
                    /\ calls' = calls \cup {r}
                    /\ \/ /\ query'.pc = "failed" /\ query'.rest = query.rest
                          /\ query'.evidence = query.evidence
                       \/ /\ query'.pc = "asking" /\ query'.rest = query.rest \ {b}
                          /\ query'.evidence = query.evidence \o Evidence(b, r, events)
<1>1. query.pc = "asking" /\ UNCHANGED process
  BY DEF Answer, Refuse, Call
<1>2. query = [f \in QueryFields |-> query[f]]
  BY <1>1 DEF ServiceInv, QueryInv
<1>3. CASE Answer
  BY <1>1, <1>2, <1>3 DEF Answer, QueryFields
<1>4. CASE Refuse
  <2>1. PICK b \in query.rest :
           query' = [query EXCEPT !.pc = IF Selects(b) => Routed(b) THEN "refused" ELSE "unroutable"]
    BY <1>4 DEF Refuse
  <2>2. Routed(b)
    BY <1>1, ValidIsRouted DEF ServiceInv, QueryInv, ProcessInv, ValidRegistry, Range
  <2>3. query' = [query EXCEPT !.pc = "refused"] /\ UNCHANGED calls
    BY <1>4, <2>1, <2>2 DEF Refuse
  <2> QED BY <1>1, <1>2, <1>4, <2>3 DEF QueryFields
<1>5. CASE Call
  <2> DEFINE Asks(b, r, events) ==
               /\ IsNext(b) /\ calls' = calls \cup {r}
               /\ \/ query' = [query EXCEPT !.pc = "failed"]
                  \/ \E change : query' = [query EXCEPT !.rest = query.rest \ {b},
                                            !.evidence = query.evidence \o Evidence(b, r, events),
                                            !.change = change]
  <2>0. PICK b \in query.rest : \E r \in Built(b), events \in {<<>>, <<"change">>} : Asks(b, r, events)
    BY <1>5 DEF Call
  <2>1. PICK r \in Built(b), events \in {<<>>, <<"change">>} : Asks(b, r, events)
    BY <2>0
  <2>2. CASE query' = [query EXCEPT !.pc = "failed"]
    BY <1>1, <1>2, <2>1, <2>2 DEF QueryFields
  <2>3. ASSUME NEW change,
               query' = [query EXCEPT !.rest = query.rest \ {b},
                                      !.evidence = query.evidence \o Evidence(b, r, events),
                                      !.change = change]
        PROVE  /\ query'.pc = "asking" /\ query'.rest = query.rest \ {b}
               /\ query'.evidence = query.evidence \o Evidence(b, r, events)
               /\ query'.class = query.class /\ query'.incident = query.incident
               /\ query'.selectors = query.selectors
    <3> DEFINE evidence == query.evidence \o Evidence(b, r, events)
    <3>1. query' = [query EXCEPT !.rest = query.rest \ {b}, !.evidence = evidence,
                                 !.change = change]
      BY <2>3
    <3>2. /\ query'.pc = "asking" /\ query'.rest = query.rest \ {b}
          /\ query'.evidence = evidence
          /\ query'.class = query.class /\ query'.incident = query.incident
          /\ query'.selectors = query.selectors
      <4> HIDE DEF evidence
      <4> QED BY <1>1, <1>2, <3>1 DEF QueryFields
    <3> QED BY <3>2
  <2>4. IsNext(b) /\ calls' = calls \cup {r}
    BY <2>1
  <2>5. CASE \E change : query' = [query EXCEPT !.rest = query.rest \ {b},
                                  !.evidence = query.evidence \o Evidence(b, r, events),
                                  !.change = change]
    <3>1. /\ query'.pc = "asking" /\ query'.rest = query.rest \ {b}
          /\ query'.evidence = query.evidence \o Evidence(b, r, events)
          /\ query'.class = query.class /\ query'.incident = query.incident
          /\ query'.selectors = query.selectors
      BY <2>3, <2>5
    <3> QED BY <1>1, <2>4, <3>1
  <2> QED BY <2>1, <2>2, <2>5
<1> QED BY <1>3, <1>4, <1>5

\* A worker has what its requests need, where the two binding files fit.
LEMMA FittingIsSent ==
    ASSUME ServiceInv, KindInv, query.pc = "asking", process.kind = "worker",
           process.config.workspace.safe, process.config.region.safe,
           NEW b \in query.rest, Fits(b, query.selectors)
    PROVE  \E r \in Built(b) : Sendable(r)
<1> DEFINE c == process.config
           sel == Selected(b)
           w == Window(query.incident)
<1>1. b.template \in Implemented
  <2>1. ValidBinding(b)
    BY DEF ServiceInv, QueryInv, ProcessInv, ValidRegistry, Range
  <2> QED BY <2>1, ValidIsRouted DEF Routed
<1>2. Given(c.workspace) /\ Given(c.project) /\ Given(c.logstore)
  <2>1. process.pc = "serving"
    BY DEF ServiceInv, QueryInv
  <2> QED BY <2>1 DEF KindInv, MayRun, ValidConfig
<1>3. /\ DOMAIN sel = DOMAIN b.mapping
      /\ \A s \in DOMAIN sel : sel[s].safe
      /\ Built(b) = Route(b.template, c, sel, w)
  <2>1. \A s \in DOMAIN b.mapping : /\ b.mapping[s] \in Range(b.mapping)
                                    /\ sel[s] = query.selectors[b.mapping[s]]
    BY DEF Range, Selected
  <2>2. Selects(b) /\ \A s \in DOMAIN b.mapping : sel[s].safe
    BY <2>1 DEF Fits, Selects
  <2> QED BY <2>2 DEF Built, Selected
<1>4. w.from < w.to
  BY WindowType DEF ServiceInv, QueryInv
<1>5. \E needs \in Needs(b) : needs \subseteq DOMAIN sel
  BY <1>3 DEF Fits
<1> HIDE DEF c, sel, w
<1>6. CASE b.template \in {"endpoint_context", "endpoint_topology"}
  <2>1. "endpoint_id" \in DOMAIN sel
    BY <1>5, <1>6 DEF Needs
  <2>2. Built(b) = Request("cms", "GetEntityStoreData", c, {c.workspace}, {sel["endpoint_id"]}, w)
    BY <1>2, <1>3, <1>6, <2>1 DEF Route, EntityStoreRequest
  <2>3. c.workspace.safe
    BY DEF c
  <2> QED BY <1>4, <2>2, <2>3 DEF Request, Sendable
<1>7. CASE b.template \in {"availability", "ecs_normal_state"}
  <2> DEFINE region == IF "region_id" \in DOMAIN sel THEN sel["region_id"] ELSE c.region
  <2>1. "instance_id" \in DOMAIN sel \/ "probe_task_id" \in DOMAIN sel
    BY <1>5, <1>7 DEF Needs
  <2>2. region.safe /\ MetricSubject(sel) # {}
    BY <1>3, <2>1 DEF MetricSubject, c
  <2>3. Built(b) = Request("cms", "DescribeMetricList", c, {region}, MetricSubject(sel), w)
    BY <1>3, <1>7, <2>2 DEF Route, MetricsRequest
  <2> QED BY <2>3 DEF Request, Sendable
<1>8. CASE b.template \in {"nginx_access", "nginx_error"}
  <2>1. {"endpoint_id", "instance_id"} \subseteq DOMAIN sel
    BY <1>5, <1>8 DEF Needs
  <2>2. Built(b) = NginxLogsRequest(c, sel, w)
    BY <1>3, <1>8 DEF Route
  <2>3. \E window : Built(b) = Request("sls", "GetLogs", c, {c.project, c.logstore},
                                    {sel["endpoint_id"], sel["instance_id"]}, window)
    BY <1>2, <2>1, <2>2 DEF NginxLogsRequest
  <2> QED BY <1>2, <2>3 DEF Request, Sendable
<1>9. CASE b.template = "security_group_change"
  <2>1. "security_group_id" \in DOMAIN sel
    BY <1>5, <1>9 DEF Needs
  <2>2. Built(b) = ActionTrailRequest(c, sel, w)
    BY <1>3, <1>9 DEF Route
  <2>3. Built(b) = Request("actiontrail", "LookupEvents", c, {}, {sel["security_group_id"]}, w)
    BY <2>1, <2>2 DEF ActionTrailRequest
  <2> QED BY <2>3 DEF Request, Sendable
<1> QED BY <1>1, <1>6, <1>7, <1>8, <1>9 DEF Implemented

LEMMA InitAnsweringInv == Init => AnsweringInv
BY DEF Init, Exited, NoQuery, AnsweringInv, TypeOK, SelectorsInv, AnswerInv, KindInv,
       WorkerIsConfigured, Named

\* Starting and ending.
LEMMA LoadKeepsAnswering ==
    ASSUME ServiceInv, AnsweringInv, LoadConfig \/ LoadRegistry \/ LoadIncidentBindings \/ Exit
    PROVE  AnsweringInv'
<1>1. CASE Exit
  BY <1>1
  DEF Exit, Exited, NoQuery, AnsweringInv, TypeOK, SelectorsInv, AnswerInv, KindInv,
      WorkerIsConfigured, Named
<1>2. CASE LoadConfig \/ LoadRegistry \/ LoadIncidentBindings
  <2>1. process.pc # "serving" /\ UNCHANGED <<query, calls>>
    BY <1>2 DEF LoadConfig, LoadRegistry, LoadIncidentBindings, Exited
  <2>2. query.pc \notin Named \cup {"unroutable"}
    BY <2>1 DEF ServiceInv, QueryInv, LoadedBindingsAreRouted, Named
  <2>3. SelectorsInv' /\ AnswerInv' /\ WorkerIsConfigured'
    BY <2>1, <2>2 DEF SelectorsInv, AnswerInv, WorkerIsConfigured, Named
  <2>4. KindInv'
    BY <1>2 DEF AnsweringInv, KindInv, LoadConfig, LoadRegistry, LoadIncidentBindings
  <2>5. TypeOK'
    BY <1>2, <2>1, <2>2
    DEF AnsweringInv, TypeOK, Named, LoadConfig, LoadRegistry, LoadIncidentBindings, Exited
  <2> QED BY <2>3, <2>4, <2>5 DEF AnsweringInv
<1> QED BY <1>1, <1>2

LEMMA AskKeepsAnswering ==
    ASSUME ServiceInv, AnsweringInv, Ask
    PROVE  AnsweringInv'
<1>1. calls' = {} /\ UNCHANGED process /\ process.pc = "serving" /\ process # Exited
  BY DEF Ask, Exited
<1>2. KindInv'
  BY <1>1 DEF AnsweringInv, KindInv
<1>3. CASE query' = [pc |-> "unknown"]
  BY <1>1, <1>2, <1>3
  DEF AnsweringInv, TypeOK, SelectorsInv, AnswerInv, WorkerIsConfigured, Named
<1>4. ASSUME NEW class \in Classes, NEW i \in DOMAIN Incidents, NEW entry \in ResolveIncident(i),
             query' = [pc |-> "asking", class |-> class, incident |-> i,
                       selectors |-> entry.selectors, rest |-> BindingsFor(class),
                       evidence |-> <<>>, change |-> FALSE]
      PROVE  AnsweringInv'
  <2>1. /\ query'.pc = "asking" /\ query'.class = class /\ query'.incident = i
        /\ query'.selectors = entry.selectors /\ query'.rest = BindingsFor(class)
        /\ query'.evidence = <<>>
    BY <1>4
  <2>2. SelectorsInv'
    <3>1. entry \in Read(IncidentFiles)
      <4>1. process.incidents \in IncidentFiles
        BY <1>1 DEF AnsweringInv, TypeOK
      <4> QED BY <4>1 DEF ResolveIncident, Range, Read
    <3>2. \A f \in DOMAIN entry.selectors : entry.selectors[f] \in Values
      BY <3>1 DEF Values, Fields
    <3> QED BY <2>1, <3>2 DEF SelectorsInv
  <2>3. AnswerInv'
    <3>1. DOMAIN query'.evidence = {}
      BY <2>1
    <3>2. \A b \in Range(process'.registry) : b.class = class => b \in query'.rest
      BY <1>1, <2>1 DEF BindingsFor
    <3> QED BY <2>1, <3>1, <3>2 DEF AnswerInv
  <2>4. TypeOK'
    <3>1. query'.rest \subseteq Read(RegistryFiles)
      BY <1>1, <2>1, LoadedIsRead DEF AnsweringInv, BindingsFor
    <3>2. query'.evidence \in Seq(Items)
      BY <2>1
    <3> QED BY <1>1, <2>1, <3>1, <3>2 DEF AnsweringInv, TypeOK
  <2> QED BY <1>2, <2>1, <2>2, <2>3, <2>4 DEF AnsweringInv, WorkerIsConfigured
<1> QED BY <1>3, <1>4 DEF Ask

LEMMA WithinQueryAnswering ==
    ASSUME ServiceInv, AnsweringInv, Answer \/ Refuse \/ Call
    PROVE  AnsweringInv'
<1>0. TypeOK
  BY DEF AnsweringInv
<1>1. /\ query.pc = "asking" /\ UNCHANGED process /\ process.pc = "serving"
      /\ query'.class = query.class /\ query'.incident = query.incident
      /\ query'.selectors = query.selectors
      /\ process # Exited
  BY <1>0, AnswerSteps DEF ServiceInv, QueryInv, Exited
<1>2. KindInv' /\ SelectorsInv'
  BY <1>1 DEF AnsweringInv, KindInv, SelectorsInv, Named
<1>3. \A b \in query.rest :
         b \in Read(RegistryFiles) /\ b.id \in Int /\ b.template \in Implemented
  <2> SUFFICES ASSUME NEW b \in query.rest
               PROVE  b \in Read(RegistryFiles) /\ b.id \in Int /\ b.template \in Implemented
    OBVIOUS
  <2>1. b \in Range(process.registry) /\ ValidBinding(b)
    BY <1>1 DEF ServiceInv, QueryInv, ProcessInv, ValidRegistry, Range
  <2> QED BY <1>0, <1>1, <2>1, LoadedIsRead, ValidIsRouted DEF Routed
<1>4. /\ query.class \in Classes /\ query.incident \in DOMAIN Incidents
      /\ query.rest \subseteq Read(RegistryFiles)
      /\ query.evidence \in Seq(Items) /\ calls \subseteq Requests
  BY <1>0, <1>1 DEF TypeOK
<1>5. ASSUME query'.rest \subseteq query.rest, query'.evidence \in Seq(Items),
             calls' = calls \/ \E b \in query.rest : \E r \in Built(b) : calls' = calls \cup {r}
      PROVE  TypeOK'
  <2>1. calls' \subseteq Requests
    BY <1>0, <1>1, <1>3, <1>4, <1>5, BuiltIsTyped DEF AnsweringInv
  <2>2. query'.rest \subseteq Read(RegistryFiles)
    BY <1>4, <1>5
  <2> QED BY <1>0, <1>1, <1>4, <1>5, <2>1, <2>2 DEF TypeOK
<1>6. CASE /\ query'.pc = "answered" /\ query.rest = {}
           /\ query'.rest = query.rest /\ query'.evidence = query.evidence
           /\ calls' = calls
  <2>1. AnswerInv' /\ WorkerIsConfigured'
    BY <1>1, <1>6 DEF AnsweringInv, AnswerInv, WorkerIsConfigured
  <2> QED BY <1>2, <1>4, <1>5, <1>6, <2>1 DEF AnsweringInv
<1>7. CASE /\ Refuse /\ query'.pc = "refused"
           /\ query'.rest = query.rest /\ query'.evidence = query.evidence
           /\ calls' = calls
  <2>1. PICK b \in query.rest : IsNext(b) /\ ((Selects(b) => Routed(b)) => \A r \in Built(b) : ~Sendable(r))
    BY <1>7 DEF Refuse
  <2>2. Routed(b)
    BY <1>1, ValidIsRouted DEF ServiceInv, QueryInv, ProcessInv, ValidRegistry, Range
  <2>3. process.kind = "worker" => \/ ~Fits(b, query.selectors)
                                   \/ ~process.config.workspace.safe
                                   \/ ~process.config.region.safe
    BY <1>1, <2>1, <2>2, FittingIsSent DEF AnsweringInv
  <2>4. WorkerIsConfigured'
    <3>1. IsNext(b)'
      BY <1>7, <2>1 DEF IsNext
    <3> QED BY <1>1, <1>7, <2>1, <2>3, <3>1 DEF WorkerIsConfigured
  <2>5. AnswerInv'
    BY <1>7 DEF AnswerInv
  <2> QED BY <1>2, <1>4, <1>5, <1>7, <2>4, <2>5 DEF AnsweringInv
<1>8. ASSUME NEW b \in query.rest, NEW r \in Built(b), NEW events \in {<<>>, <<"change">>},
             IsNext(b), calls' = calls \cup {r},
             \/ /\ query'.pc = "failed" /\ query'.rest = query.rest
                /\ query'.evidence = query.evidence
             \/ /\ query'.pc = "asking" /\ query'.rest = query.rest \ {b}
                /\ query'.evidence = query.evidence \o Evidence(b, r, events)
      PROVE  AnsweringInv'
  <2>1. WorkerIsConfigured'
    BY <1>8 DEF WorkerIsConfigured
  <2>2. CASE query'.pc = "failed" /\ query'.rest = query.rest /\ query'.evidence = query.evidence
    <3>1. AnswerInv'
      BY <2>2 DEF AnswerInv
    <3>2. TypeOK'
      BY <1>4, <1>5, <1>8, <2>2
    <3> QED BY <1>2, <2>1, <3>1, <3>2 DEF AnsweringInv
  <2>3. CASE /\ query'.pc = "asking" /\ query'.rest = query.rest \ {b}
             /\ query'.evidence = query.evidence \o Evidence(b, r, events)
    <3> DEFINE old == query.evidence
               new == Evidence(b, r, events)
    <3>1. /\ new \in Seq(Items) /\ old \in Seq(Items)
          /\ \A n \in DOMAIN new : new[n].binding = b.id
          /\ b.template # "security_group_change" => Len(new) = 1
      BY <1>3, <1>4, EvidenceOfBinding
    <3>2. /\ \A m, n \in DOMAIN old : m < n => old[m].binding <= old[n].binding
          /\ \A n \in DOMAIN old : \A o \in query.rest : old[n].binding <= o.id
          /\ \A o \in Range(process.registry) :
                (o.class = query.class /\ o.template # "security_group_change") =>
                    o \in query.rest \/ \E n \in DOMAIN old : old[n].binding = o.id
      BY <1>1 DEF AnsweringInv, AnswerInv
    <3>3. \A o \in query.rest : b.id <= o.id
      BY <1>8 DEF IsNext
    <3> HIDE DEF old, new
    <3>4. /\ old \o new \in Seq(Items) /\ DOMAIN (old \o new) = 1..Len(old) + Len(new)
          /\ \A n \in DOMAIN (old \o new) :
                \/ n \in DOMAIN old /\ (old \o new)[n] = old[n]
                \/ /\ n > Len(old)
                   /\ n - Len(old) \in DOMAIN new
                   /\ (old \o new)[n] = new[n - Len(old)]
      BY <3>1
    <3>5. \A n \in DOMAIN old : n \in DOMAIN (old \o new) /\ (old \o new)[n] = old[n] /\ n <= Len(old)
      BY <3>1
    <3>6. query'.evidence = old \o new
      BY <2>3 DEF old, new
    <3>7. AnswerInv'
      <4>1. ASSUME NEW m \in DOMAIN (old \o new), NEW n \in DOMAIN (old \o new), m < n
            PROVE  (old \o new)[m].binding <= (old \o new)[n].binding
        <5>1. CASE n \in DOMAIN old /\ (old \o new)[n] = old[n]
          <6>1. m \in DOMAIN old
            BY <3>1, <3>4, <4>1, <5>1
          <6> QED BY <3>2, <3>5, <4>1, <5>1, <6>1
        <5>2. CASE n - Len(old) \in DOMAIN new /\ (old \o new)[n] = new[n - Len(old)]
          <6>1. (old \o new)[n].binding = b.id
            BY <3>1, <5>2
          <6>2. (old \o new)[m].binding <= b.id
            BY <1>3, <1>8, <3>1, <3>2, <3>4
          <6> QED BY <6>1, <6>2
        <5> QED BY <3>4, <5>1, <5>2
      <4>2. ASSUME NEW n \in DOMAIN (old \o new), NEW o \in query.rest
            PROVE  (old \o new)[n].binding <= o.id
        BY <3>1, <3>2, <3>3, <3>4
      <4>3. ASSUME NEW o \in Range(process.registry), o.class = query.class,
                   o.template # "security_group_change"
            PROVE  \/ o \in query'.rest
                   \/ \E n \in DOMAIN (old \o new) : (old \o new)[n].binding = o.id
        <5>1. CASE o = b
          <6>1. /\ Len(old) + 1 \in DOMAIN (old \o new)
                /\ (old \o new)[Len(old) + 1] = new[1]
                /\ 1 \in DOMAIN new
            BY <3>1, <4>3, <5>1
          <6> QED BY <3>1, <5>1, <6>1
        <5>2. CASE o \in query.rest /\ o # b
          BY <2>3, <5>2
        <5>3. CASE \E n \in DOMAIN old : old[n].binding = o.id
          BY <3>5, <5>3
        <5> QED BY <3>2, <4>3, <5>1, <5>2, <5>3
      <4> QED BY <1>1, <2>3, <3>6, <4>1, <4>2, <4>3 DEF AnswerInv
    <3>8. TypeOK'
      BY <1>5, <1>8, <2>3, <3>4, <3>6
    <3> QED BY <1>2, <2>1, <3>7, <3>8 DEF AnsweringInv
  <2> QED BY <1>8, <2>2, <2>3
<1> QED BY <1>0, <1>6, <1>7, <1>8, AnswerSteps

LEMMA NextAnsweringInv == ServiceInv /\ AnsweringInv /\ [Next]_vars => AnsweringInv'
<1> SUFFICES ASSUME ServiceInv, AnsweringInv, [Next]_vars PROVE AnsweringInv'
  OBVIOUS
<1>1. CASE UNCHANGED vars
  BY <1>1
  DEF vars, AnsweringInv, TypeOK, SelectorsInv, AnswerInv, KindInv, WorkerIsConfigured, IsNext
<1> QED BY <1>1, LoadKeepsAnswering, AskKeepsAnswering, WithinQueryAnswering DEF Next

\* The invariant the results about answers follow from.
THEOREM AnsweringInvariant == Spec => []AnsweringInv
<1> QED BY InitAnsweringInv, NextAnsweringInv, ServiceInvariant, PTL DEF Spec

\* Every state of the service is well formed, the requests it sends too.
THEOREM TypeCorrect == Spec => []TypeOK
<1>1. AnsweringInv => TypeOK
  BY DEF AnsweringInv
<1> QED BY <1>1, AnsweringInvariant, PTL

\* An answer lists its evidence by the id of the binding and leaves none out.
THEOREM AnswersFollowIds == Spec => []AnswerFollowsIds
<1>1. AnsweringInv => AnswerFollowsIds
  BY DEF AnsweringInv, AnswerInv, AnswerFollowsIds
<1> QED BY <1>1, AnsweringInvariant, PTL

\* A worker that started lacks nothing that its two binding files do not show.
THEOREM WorkersAreConfigured == Spec => []WorkerIsConfigured
<1>1. AnsweringInv => WorkerIsConfigured
  BY DEF AnsweringInv
<1> QED BY <1>1, AnsweringInvariant, PTL

-----------------------------------------------------------------------------
(* What becomes of the changes that the cloud reports.                       *)

\* Nothing in what was gathered so far is change evidence.
NoChangeFound ==
    query.pc \in Named =>
        \A n \in DOMAIN query.evidence : query.evidence[n].type # "change"

\* resolveChanges looks for Events beside the body it should look into.
LEMMA EvidenceIsNoChange ==
    ASSUME NEW b, b.template \in Implemented, NEW r \in Built(b), NEW events
    PROVE  /\ Evidence(b, r, events) \in Seq([binding : {b.id}, type : {"context", "metric", "log"}])
           /\ r.operation = "LookupEvents" => Evidence(b, r, events) = <<>>
<1>1. r.operation \in {"GetEntityStoreData", "DescribeMetricList", "GetLogs", "LookupEvents"}
  BY DEF Built, Route, Implemented, EntityStoreRequest, MetricsRequest, NginxLogsRequest,
         ActionTrailRequest, Request
<1>2. CASE r.operation = "LookupEvents"
  <2>1. Events(Envelope(events)) = <<>>
    BY DEF Events, Envelope
  <2>2. Evidence(b, r, events) = [n \in DOMAIN <<>> |-> [binding |-> b.id, type |-> "change"]]
    BY <1>2, <2>1 DEF Evidence
  <2>3. Evidence(b, r, events) = <<>>
    BY <2>2
  <2> QED BY <1>2, <2>3
<1>3. CASE r.operation # "LookupEvents"
  <2>1. PICK type \in {"context", "metric", "log"} :
           Evidence(b, r, events) = <<[binding |-> b.id, type |-> type]>>
    BY <1>1, <1>3 DEF Evidence
  <2> QED BY <1>3, <2>1
<1> QED BY <1>2, <1>3

LEMMA NextNoChange ==
    ASSUME ServiceInv, TypeOK, NoChangeFound, [Next]_vars
    PROVE  NoChangeFound'
<1>1. CASE LoadConfig \/ LoadRegistry \/ LoadIncidentBindings \/ Exit \/ UNCHANGED vars
  BY <1>1
  DEF NoChangeFound, Named, NoQuery, LoadConfig, LoadRegistry, LoadIncidentBindings, Exit, vars
<1>2. CASE Ask
  BY <1>2 DEF Ask, NoChangeFound, Named
<1>3. CASE Answer \/ Refuse \/ Call
  <2>1. query.pc = "asking" /\ query.evidence \in Seq(Items) /\ UNCHANGED process
    BY <1>3, AnswerSteps DEF TypeOK
  <2>2. CASE query'.evidence = query.evidence
    BY <2>1, <2>2 DEF NoChangeFound, Named
  <2>3. ASSUME NEW b \in query.rest, NEW r \in Built(b), NEW events,
               query'.evidence = query.evidence \o Evidence(b, r, events)
        PROVE  NoChangeFound'
    <3>1. b.template \in Implemented
      BY <2>1, ValidIsRouted DEF ServiceInv, QueryInv, ProcessInv, ValidRegistry, Range, Routed
    <3> DEFINE old == query.evidence
               new == Evidence(b, r, events)
               Plain == [binding : {b.id}, type : {"context", "metric", "log"}]
    <3>2. new \in Seq(Plain)
      BY <3>1, EvidenceIsNoChange
    <3>3. \A n \in DOMAIN old : old[n].type # "change"
      BY <2>1 DEF NoChangeFound, Named
    <3>4. \A n \in DOMAIN new : new[n].type # "change"
      <4>1. \A item \in Plain : item.type # "change"
        OBVIOUS
      <4> HIDE DEF new, Plain
      <4> QED BY <3>2, <4>1
    <3>5. \A n \in DOMAIN (old \o new) :
             \/ n \in DOMAIN old /\ (old \o new)[n] = old[n]
             \/ n - Len(old) \in DOMAIN new /\ (old \o new)[n] = new[n - Len(old)]
      <4>1. old \in Seq(Items) /\ new \in Seq(Plain)
        BY <2>1, <3>2
      <4> HIDE DEF old, new, Plain
      <4> QED BY <4>1
    <3>6. query'.evidence = old \o new
      BY <2>3
    <3> HIDE DEF old, new
    <3> QED BY <3>3, <3>4, <3>5, <3>6 DEF NoChangeFound
  <2> QED BY <1>3, <2>2, <2>3, AnswerSteps
<1> QED BY <1>1, <1>2, <1>3 DEF Next

\* Whatever ActionTrail reports, for whichever files and incidents: no answer ever
\* holds change evidence.  ReportedChangeIsEvidence, which aliyun_test.go:31 says of
\* resolveChanges, fails for every change that is reported and not for some.
THEOREM NoChangeIsEverFound == Spec => []NoChangeFound
<1>1. Init => NoChangeFound
  BY DEF Init, NoQuery, NoChangeFound, Named
<1>2. ServiceInv /\ TypeOK /\ NoChangeFound /\ [Next]_vars => NoChangeFound'
  BY NextNoChange
<1> QED BY <1>1, <1>2, ServiceInvariant, TypeCorrect, PTL DEF Spec

=============================================================================
