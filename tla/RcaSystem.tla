----------------------------- MODULE RcaSystem -----------------------------
(***************************************************************************)
(* The running system: the gateway's requests, the worker processes, the   *)
(* store they share and the Feishu cards they both write.                  *)
(***************************************************************************)
EXTENDS Gateway, Worker

vars == <<storeVars, environmentVars, request, worker>>

TypeOK ==
    /\ StoreTypeOK
    /\ EnvironmentTypeOK
    /\ RequestTypeOK
    /\ WorkerTypeOK

Init == StoreInit /\ EnvironmentInit /\ RequestInit /\ WorkerInit

Tick ==
    /\ now < MaxTime
    /\ now' = now + 1
    /\ UNCHANGED <<storeVars, cards, faults, request, worker>>

Next ==
    \/ Tick
    \/ GatewayNext /\ UNCHANGED worker
    \/ WorkerNext /\ UNCHANGED request

Spec == Init /\ [][Next]_vars

\* Every goroutine and every worker goes on, CloudMonitor delivers again what
\* was not accepted, and the clock goes to its bound.  Which outcome a call has
\* is nobody's duty: faults end because there are at most MaxFaults.
Fairness ==
    /\ WF_vars(Tick)
    /\ \A d \in Deliveries :
          /\ WF_vars(RequestStep(d) /\ UNCHANGED worker)
          /\ WF_vars(Redeliver(d) /\ UNCHANGED worker)
    /\ \A w \in Workers : WF_vars(RunOneStep(w) /\ UNCHANGED request)

FairSpec == Spec /\ Fairness

-----------------------------------------------------------------------------
\* Safety.

OpenJobs(i) == {j \in JobIds : jobs[j].status \in OpenStatuses /\ jobs[j].incident = i}

\* An incident never has two jobs to run, so no two workers can hold fences
\* for it at the same time: every path that queues a job either creates the
\* incident or closes the job it came from in the same transaction.
OneOpenJobPerIncident ==
    \A i \in IncidentIds : \A j, k \in OpenJobs(i) : j = k

\* Two processes never hold a valid claim on the same incident, although the
\* processes of one host share a worker_id and a claim can outlive its lease
\* in the memory of a slow process.
OneInvestigatorPerIncident ==
    \A v, w \in Workers :
        /\ v # w
        /\ worker[v] # Idle /\ CheckActiveClaim(worker[v].claim)
        /\ worker[w] # Idle /\ CheckActiveClaim(worker[w].claim)
        => worker[v].claim.incident # worker[w].claim.incident

\* An active incident has an open job that ClaimNext finds again by a known time:
\* when the lease ends that a dead worker held, when the longest back-off or the
\* delay of an audit retry is over, or at the time of the alert.  The exceptions
\* are an incident whose first job a request is about to queue, and one that never
\* had a job because that statement failed: the callback that is delivered again
\* then finds the incident, takes itself for a duplicate, and queues nothing.
\* To be found is not to be worked on: an attempt that finds the incident
\* INVESTIGATING returns at once (LastAttemptClosesJob, below).
NeverQueued(i) == \A j \in JobIds : jobs[j] # AbsentJob => jobs[j].incident # i

IsFoundAgain(i) ==
    \E j \in OpenJobs(i) :
        \E t \in {now + Lease, now + RetryCap, now + AuditDelay, incidents[i].alertAt} :
            Claimable(j, t)

ActiveIncidentIsFoundAgain ==
    \A i \in IncidentIds :
        Active(i) =>
            \/ IsFoundAgain(i)
            \/ \E d \in Deliveries : At(d, "enqueue") /\ request[d].incident = i
            \/ NeverQueued(i) /\ faults > 0

\* A completed incident's card shows the completed investigation: no update of
\* an earlier attempt, of another worker or of a failure lands on the card
\* between the last PATCH and the transaction that completes the incident.
CompletedCardShowsCompletion ==
    \A i \in IncidentIds :
        incidents[i].state = "COMPLETED" => cards[incidents[i].card].shows = "COMPLETED"

\* A recovery that was answered with 2xx reaches the card even when a worker was
\* creating it at that moment, and no card was recorded yet: when no request or
\* worker is left that could still do it, every card of a recovered incident
\* says so.  (Only while Feishu and the store answer, workers live, no attempt
\* loses its lease, and the incident's alert came once: where another occurrence of the key, no newer than
\* the recovery, is recorded after the gateway died between recovering the incident
\* and telling its card, the redelivered recovery ends the incident of that
\* occurrence, and the first card is never told.)
Settled(i) ==
    /\ \A d \in Deliveries : Event[d].transition = AlertRecovered => At(d, "accepted")
    /\ \A w \in Workers : worker[w] = Idle \/ worker[w].claim.incident # i

ShowsRecovery(i) ==
    \A m \in MessageIds :
        (cards[m] # AbsentCard /\ cards[m].incident = i) => cards[m].shows = "RECOVERED"

RecoveryIsShown ==
    \A i \in IncidentIds :
        (incidents[i].state = "RECOVERED" /\ Settled(i)) => ShowsRecovery(i)

-----------------------------------------------------------------------------
\* Action properties.

\* A stale worker never writes over a recovery: once an incident is RECOVERED,
\* whatever card of it changes, changes to the recovery.
RecoveryIsNotOverwritten ==
    [][\A m \in MessageIds :
          (/\ cards[m] # AbsentCard
           /\ incidents[cards[m].incident].state = "RECOVERED"
           /\ cards'[m] # cards[m]) => cards'[m].shows = "RECOVERED"]_vars

\* The system goes through the states of an incident as the abstract
\* specification allows: it never completes or parks an incident it did not
\* mark INVESTIGATING before, and never has two active incidents of a key.
L == INSTANCE Lifecycle WITH
        Incidents <- IncidentIds,
        state <- [i \in IncidentIds |-> incidents[i].state],
        key <- [i \in IncidentIds |->
                   IF incidents[i] = AbsentIncident THEN "" ELSE incidents[i].key]

ImplementsLifecycle == L!Spec

-----------------------------------------------------------------------------
\* Liveness, of FairSpec.

\* A recovery that was recorded reaches every card of its incident in the end
\* and stays there, although the gateway may die before it tells Feishu, and a
\* worker may make another card meanwhile.  (Under the conditions of
\* RecoveryIsShown.)
RecoveryReachesCards ==
    \A i \in IncidentIds : incidents[i].state = "RECOVERED" ~> []ShowsRecovery(i)

-----------------------------------------------------------------------------
\* What documents and tests say and the code does not do.

\* "job error after bounded retries -> FAILED": when the third attempt of a
\* job is over, the job is closed.  (RunOne returns without touching the job of
\* a retry that finds the incident INVESTIGATING already.)
WorkedOn(j) == \E w \in Workers : worker[w] # Idle /\ worker[w].claim.job = j

LastAttemptClosesJob ==
    \A j \in JobIds :
        (jobs[j] # AbsentJob /\ jobs[j].attempt >= MaxAttempts /\ ~WorkedOn(j)) =>
            jobs[j].status \in ClosedStatuses

\* At most three attempts, for a job whose incident no attempt has marked yet:
\* an attempt that ends with its context cannot record that it failed.
AttemptsAreBounded ==
    \A j \in JobIds :
        (jobs[j].status = "RUNNING" /\ incidents[jobs[j].incident].state = "RECEIVED") =>
            jobs[j].attempt <= MaxAttempts

\* "any active state + RECOVERED callback -> RECOVERED": a recovery that was
\* carried out leaves no incident of its key active that is not newer.
RecoveryClosesActiveIncident ==
    [][\A d \in Deliveries :
          (/\ At(d, "arriving")
           /\ Event[d].transition = AlertRecovered
           /\ request'[d].pc \in {"accepted", "notify"}) =>
               \A i \in IncidentIds :
                   (/\ incidents'[i].state \in ActiveStates
                    /\ incidents'[i].key = Event[d].key) =>
                       incidents'[i].alertAt > Event[d].at]_vars

=============================================================================
