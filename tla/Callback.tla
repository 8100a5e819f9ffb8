------------------------------ MODULE Callback ------------------------------
(***************************************************************************)
(* What the gateway makes of the body of a CloudMonitor callback           *)
(* (ParseCloudMonitorEvent of internal/inbound), and of the event in it    *)
(* when it goes to the repository (NewIncident, Unix).                     *)
(*                                                                         *)
(* A payload is a record: token, whether the query has the right one; body *)
(* and alert, whether it is short enough, JSON, and of type ALERT; status, *)
(* in capitals; the names, "" when they are missing; time, -1 when it is   *)
(* missing and -2 when its layout is neither of the two known ones;        *)
(* timestamp, 0 when it is missing.  Times are in milliseconds.            *)
(***************************************************************************)
EXTENDS Integers, Sequences

CONSTANT MillisPerSecond

ASSUME CallbackAssumption == MillisPerSecond \in Nat \ {0}

AlertOccurred == "OCCURRED"
AlertRecovered == "RECOVERED"

MissingTime == -1
UnknownLayout == -2

\* The time of the alert is the one with a zone; the other one is used only
\* where that is missing, not where it cannot be parsed.
EventTime(p) ==
    IF p.time # MissingTime THEN p.time
    ELSE IF p.timestamp > 0 THEN p.timestamp ELSE UnknownLayout

ResourceID(p) == IF p.entity # "" THEN p.entity ELSE p.alertEntity

\* NewIncident joins the names with colons, whatever is in them.
IncidentKey(p) == p.workspace \o ":" \o p.ruleId \o ":" \o ResourceID(p)

Accepted(p) ==
    /\ p.token
    /\ p.body /\ p.alert
    /\ p.status \in {AlertOccurred, AlertRecovered}
    /\ p.workspace # "" /\ p.ruleId # "" /\ ResourceID(p) # ""
    /\ EventTime(p) >= 0

\* The repository keeps whole seconds.
Unix(millis) == millis \div MillisPerSecond

\* Where the code returns an error instead, the transition is none of the two.
Parsed(p) ==
    IF Accepted(p)
    THEN [transition |-> p.status, key |-> IncidentKey(p), at |-> Unix(EventTime(p))]
    ELSE [transition |-> "none", key |-> "", at |-> 0]

=============================================================================
