------------------------- MODULE MCEvidenceService -------------------------
(* An instance of EvidenceService for TLC.                                   *)
EXTENDS EvidenceService, TLC

Value(of, field, safe) == [of |-> of, field |-> field, safe |-> safe]
Unsafe(of, field) == Value(of, field, FALSE)
Configured(field) == Value("config", field, TRUE)

\* Configurations: complete, and each with something wrong or left out.
Complete == [required |-> TRUE, enabled |-> TRUE, workspace |-> Configured("workspace"),
             region |-> Configured("region"), project |-> Configured("project"),
             logstore |-> Configured("logstore"), paths |-> TRUE, polls |-> TRUE, feishu |-> TRUE]
Manual == [Complete EXCEPT !.enabled = FALSE]

MCConfigs ==
    {Complete, [Complete EXCEPT !.project = Missing], [Complete EXCEPT !.logstore = Missing],
     [Complete EXCEPT !.workspace = Unsafe("config", "workspace")],
     [Complete EXCEPT !.region = Unsafe("config", "region")],
     [Complete EXCEPT !.project = Unsafe("config", "project"),
                      !.logstore = Unsafe("config", "logstore")],
     [Manual EXCEPT !.project = Missing], [Manual EXCEPT !.workspace = Missing],
     [Manual EXCEPT !.region = Missing]}

Binding(id, class, provider, template, mapping) ==
    [id |-> id, class |-> class, provider |-> provider, template |-> template,
     mapping |-> mapping, malformed |-> FALSE]
Same(names) == [name \in names |-> name]

Context == Binding(1, "context", "umodel", "endpoint_context", Same({"endpoint_id"}))
Topology == Binding(2, "context", "umodel", "endpoint_topology", Same({"endpoint_id"}))
Probe == Binding(3, "metrics", "synthetic_probe", "availability", Same({"probe_task_id"}))
Cpu == Binding(4, "metrics", "cloudmonitor", "ecs_normal_state", Same({"instance_id", "region_id"}))
Access == Binding(5, "logs", "sls", "nginx_access", Same({"endpoint_id", "instance_id"}))
Change == Binding(6, "changes", "actiontrail", "security_group_change",
                  Same({"security_group_id", "region_id"}))

\* Reviewed badly: a mapping that does not cover its template, one that takes
\* another field, a class that is not its template's, an id used twice, a
\* template of another provider, one that is not known, a selector that is not.
Uncovered == [Access EXCEPT !.mapping = Same({"endpoint_id"})]
Crossed == [Context EXCEPT !.mapping = "endpoint_id" :> "host"]
OtherClass == [Context EXCEPT !.id = 7, !.class = "logs"]
Twice == [Topology EXCEPT !.id = 1]
OtherProvider == [Access EXCEPT !.template = "ecs_normal_state"]
Unknown == [Access EXCEPT !.template = "error_rate"]
Free == [Context EXCEPT !.mapping = "query" :> "endpoint_id"]
Smuggling == [Context EXCEPT !.malformed = TRUE]

MCBindings == {Context, Topology, Probe, Cpu, Access, Change, Uncovered, Crossed, OtherClass,
               Twice, OtherProvider, Unknown, Free, Smuggling}
MCRegistryFiles == {<<>>} \cup {<<a>> : a \in MCBindings}
                       \cup {<<a, b>> : a, b \in MCBindings}

Entry(key, selectors) == [key |-> key, selectors |-> selectors, blank |-> FALSE]
All(key) == [f \in allowedSelectors |-> Value(key, f, TRUE)]
Some(key, names) == [f \in names |-> Value(key, f, TRUE)]

MCIncidentFiles ==
    {<<>>, <<Entry("k1", All("k1")), Entry("k2", All("k2"))>>,
     <<Entry("k1", Some("k1", {"endpoint_id", "region_id"})), Entry("k2", All("k2"))>>,
     <<Entry("k1", [All("k1") EXCEPT !["endpoint_id"] = Unsafe("k1", "endpoint_id")])>>,
     <<Entry("k1", [All("k1") EXCEPT !["region_id"] = Unsafe("k1", "region_id")])>>,
     <<Entry("k1", All("k1")), Entry("k1", Some("k1", {"host"}))>>,
     <<[Entry("k1", All("k1")) EXCEPT !.blank = TRUE]>>}

\* An alert in the last half hour before 32 bits are full, one within, one after.
MCIncidents == [i \in {"i1", "i2", "i3"} |->
                   [key |-> IF i = "i1" THEN "k1" ELSE "k2",
                    alert |-> CASE i = "i1" -> 5 [] i = "i2" -> 7 [] i = "i3" -> 9]]

=============================================================================
