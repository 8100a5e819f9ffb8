---------------------------- MODULE MCRcaSystem ----------------------------
(* Instances of RcaSystem for TLC.                                           *)
EXTENDS RcaSystem, TLC

CONSTANTS alert, again, recovery, garbled

MCIncidentIds == 1..2
MCJobIds == 1..2

\* One for the alert and one for each audit retry until the clock ends.
JobIdsOfARetryEachSecond == 1..4

\* The second of an event is carried by its time or, where that is missing, by
\* its timestamp.
Body(status, time, timestamp) ==
    [token |-> TRUE, body |-> TRUE, alert |-> TRUE, status |-> status, workspace |-> "ws",
     ruleId |-> "rule", entity |-> "ecs", alertEntity |-> "", time |-> time,
     timestamp |-> timestamp]

MCKeys == {"ws:rule:ecs"}

Occurred(at) == Body(AlertOccurred, at * MillisPerSecond + 1, 0)
Recovered(at) == [Body(AlertRecovered, MissingTime, at * MillisPerSecond + 1) EXCEPT
                     !.entity = "", !.alertEntity = "ecs"]

\* An alert and its recovery.
AlertAndRecovery == alert :> Occurred(0) @@ recovery :> Recovered(0)

\* A recovery that cannot be read because of the layout of its time, although it
\* has a timestamp.
AndGarbled == AlertAndRecovery @@ garbled :> [Recovered(0) EXCEPT !.time = UnknownLayout]

\* The alert is also delivered twice, in any order with the recovery.
DuplicatedAlert == AlertAndRecovery @@ again :> Occurred(0)

\* An older occurrence arrives late, with the recovery after both.
LateAlert == alert :> Occurred(1) @@ again :> Occurred(0) @@ recovery :> Recovered(1)

SingleAlert == alert :> Occurred(0)

Interchangeable == Permutations(Workers) \cup Permutations(MessageIds)

\* The two deliveries of DuplicatedAlert are the same event.
InterchangeableDeliveries == Interchangeable \cup Permutations({alert, again})

\* One host runs every worker process.
OneHost == [w \in Workers |-> CHOOSE h \in WorkerIds : TRUE]

=============================================================================
