------------------------------ MODULE Gateway ------------------------------
(***************************************************************************)
(* The CloudMonitor ingress of internal/httpapi/server.go.  Every delivery *)
(* of a callback is an HTTP request served by its own goroutine, so the    *)
(* handler of each request advances one repository or Feishu call at a     *)
(* time, interleaved with the other requests and with the workers.         *)
(***************************************************************************)
EXTENDS Environment, Callback

CONSTANTS Deliveries,  \* deliveries of callbacks
          Payload,     \* what each delivers
          HasNotifier  \* Feishu is configured in the gateway

Event == [d \in Deliveries |-> Parsed(Payload[d])]

ASSUME GatewayAssumption ==
    /\ \A d \in Deliveries :
          Accepted(Payload[d]) => Event[d].key \in Keys /\ EventTime(Payload[d]) \in Int
    /\ HasNotifier \in BOOLEAN

VARIABLE request \* where the handler of each delivery is

RequestTypeOK ==
    request \in [Deliveries ->
        [pc : {"arriving", "lookup", "accepted", "refused", "error"}]
        \cup [pc : {"enqueue"}, incident : IncidentIds]
        \cup [pc : {"notify"}, card : MessageIds]]

RequestInit == request = [d \in Deliveries |-> [pc |-> "arriving"]]

At(d, pc) == request[d].pc = pc
GoesTo(d, step) == request' = [request EXCEPT ![d] = step]
Answers(d, status) == GoesTo(d, [pc |-> status])

\* 401 or 400, before anything is done.
RefuseCallback(d) ==
    /\ At(d, "arriving")
    /\ ~Accepted(Payload[d])
    /\ Answers(d, "refused")
    /\ UNCHANGED <<storeVars, environmentVars>>

\* CreateOrGetIncident: its INSERT ...
InsertOccurred(d) ==
    /\ At(d, "arriving")
    /\ Event[d].transition = AlertOccurred
    /\ \/ \E i \in IncidentIds :
             /\ InsertIncident(i, Event[d].key, Event[d].at)
             /\ GoesTo(d, [pc |-> "enqueue", incident |-> i])
             /\ UNCHANGED faults
       \/ /\ IF KeyIsActive(Event[d].key) THEN UNCHANGED faults ELSE Strikes("db")
          /\ Answers(d, "lookup")
          /\ UNCHANGED storeVars
    /\ UNCHANGED <<now, cards>>

\* ... and the SELECT after any error of it: a second statement, so that the
\* active row may be gone by then.
LookUpActive(d) ==
    /\ At(d, "lookup")
    /\ \/ KeyIsActive(Event[d].key) /\ Answers(d, "accepted") /\ UNCHANGED faults
       \/ ~KeyIsActive(Event[d].key) /\ Answers(d, "error") /\ UNCHANGED faults
       \/ Strikes("db") /\ Answers(d, "error")
    /\ UNCHANGED <<storeVars, now, cards>>

\* The job of a new incident is a separate statement again.
EnqueueOccurred(d) ==
    /\ At(d, "enqueue")
    /\ \/ /\ \E j \in JobIds : Enqueue(j, request[d].incident, Event[d].at)
          /\ Answers(d, "accepted")
          /\ UNCHANGED faults
       \/ /\ Strikes("db")
          /\ Answers(d, "error")
          /\ UNCHANGED storeVars
    /\ UNCHANGED <<now, cards>>

NotifyNextWithoutCard(i) ==
    IF HasNotifier THEN [pc |-> "notify", card |-> incidents[i].card] ELSE [pc |-> "accepted"]

\* The card comes with the row Recover returns.
NotifyNext(i) ==
    IF HasNotifier /\ incidents[i].card # NoCard
    THEN [pc |-> "notify", card |-> incidents[i].card]
    ELSE [pc |-> "accepted"]

RecoverOccurredNotifyingOnce(d) ==
    /\ At(d, "arriving")
    /\ Event[d].transition = AlertRecovered
    /\ \/ \E i \in IncidentIds :
             /\ Recover(Event[d].key, Event[d].at, i)
             /\ GoesTo(d, NotifyNext(i))
             /\ UNCHANGED faults
       \/ /\ \E i \in IncidentIds :
                /\ IsRecoverTarget(i, Event[d].key, Event[d].at)
                /\ incidents[i].state = "RECOVERED"
          /\ Answers(d, "accepted")
          /\ UNCHANGED <<storeVars, faults>>
       \/ /\ NotNewer(Event[d].key, Event[d].at) = {}
          /\ Answers(d, "accepted")
          /\ UNCHANGED <<storeVars, faults>>
       \/ /\ Strikes("db")
          /\ Answers(d, "error")
          /\ UNCHANGED storeVars
    /\ UNCHANGED <<now, cards>>

RecoverOccurred(d) ==
    /\ At(d, "arriving")
    /\ Event[d].transition = AlertRecovered
    /\ \/ \E i \in IncidentIds :
             /\ Recover(Event[d].key, Event[d].at, i)
             /\ GoesTo(d, NotifyNext(i))
             /\ UNCHANGED faults
       \/ \E i \in IncidentIds :
             /\ IsRecoverTarget(i, Event[d].key, Event[d].at)
             /\ incidents[i].state = "RECOVERED"
             /\ GoesTo(d, NotifyNext(i))
             /\ UNCHANGED <<storeVars, faults>>
       \/ /\ NotNewer(Event[d].key, Event[d].at) = {}
          /\ Answers(d, "accepted")
          /\ UNCHANGED <<storeVars, faults>>
       \/ /\ Strikes("db")
          /\ Answers(d, "error")
          /\ UNCHANGED storeVars
    /\ UNCHANGED <<now, cards>>

\* The card is updated after the transaction, outside any fence.
NotifyRecovered(d) ==
    /\ At(d, "notify")
    /\ \/ /\ UpdateIncidentCard(request[d].card, "RECOVERED")
          /\ Answers(d, "accepted")
          /\ UNCHANGED faults
       \/ /\ Strikes("feishu")
          /\ PerhapsUpdated(request[d].card, "RECOVERED")
          /\ Answers(d, "error")
    /\ UNCHANGED <<storeVars, now>>

\* CloudMonitor delivers a callback again that was not answered with 2xx.
Redeliver(d) ==
    /\ At(d, "error")
    /\ Answers(d, "arriving")
    /\ UNCHANGED <<storeVars, environmentVars>>

\* Every request in flight loses its connection; nothing else is in memory.
GatewayCrash ==
    /\ \E d \in Deliveries : request[d].pc \in {"lookup", "enqueue", "notify"}
    /\ Strikes("gateway crash")
    /\ request' = [d \in Deliveries |->
                      IF request[d].pc \in {"lookup", "enqueue", "notify"}
                      THEN [pc |-> "error"] ELSE request[d]]
    /\ UNCHANGED <<storeVars, now, cards>>

\* The calls of the handler of one delivery.
RequestStep(d) ==
    \/ RefuseCallback(d)
    \/ InsertOccurred(d)
    \/ LookUpActive(d)
    \/ EnqueueOccurred(d)
    \/ RecoverOccurred(d)
    \/ NotifyRecovered(d)

GatewayNext ==
    \/ \E d \in Deliveries : RequestStep(d) \/ Redeliver(d)
    \/ GatewayCrash

=============================================================================
