---------------------------- MODULE MCEntitySync ----------------------------
(* An instance of EntitySync for TLC.                                        *)
EXTENDS EntitySync, TLC

CONSTANTS e1, e2, ecs

WithoutRelation == [type |-> Blank, destination |-> "other"]
RunsOn == [type |-> "runs_on", destination |-> Blank]

Named(e) == [id |-> e, service |-> "named", ecs |-> ecs]
File(relation, endpoints) ==
    [located |-> TRUE, relation |-> relation, endpoints |-> endpoints]

\* Entities alone; one and two endpoints with their relation; and a file that
\* is refused because one of its endpoints has no ECS.
MCConfigs ==
    {File(WithoutRelation, {Named(e1)}),
     File(RunsOn, {Named(e1)}),
     File(RunsOn, {Named(e1), Named(e2)}),
     File(RunsOn, {Named(e1), [Named(e2) EXCEPT !.ecs = Blank]})}

Interchangeable == Permutations(Runs)

=============================================================================
