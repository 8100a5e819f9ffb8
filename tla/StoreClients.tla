---------------------------- MODULE StoreClients ----------------------------
(***************************************************************************)
(* The repository under arbitrary callers: any operation of the Repository *)
(* interface, at any time, with any arguments, including the claim of a    *)
(* worker that stalled long ago.  What holds here holds whatever order the *)
(* gateway and the workers call in.                                        *)
(***************************************************************************)
EXTENDS Store

CONSTANTS EventTimes, \* timestamps of callbacks
          AuditDelay, \* distance of an audit retry
          MaxTime     \* bound: the clock stops here

ASSUME ClientsAssumption ==
    /\ EventTimes \subseteq Nat
    /\ AuditDelay \in Nat
    /\ MaxTime \in Nat

VARIABLES now,   \* the host's clock, which every process reads
          claims \* history: every claim ClaimNext ever handed out

vars == <<incidents, jobs, snapshots, now, claims>>

TypeOK ==
    /\ StoreTypeOK
    /\ now \in Nat
    /\ claims \in SUBSET Claim

Init == StoreInit /\ now = 0 /\ claims = {}

Tick ==
    /\ now < MaxTime
    /\ now' = now + 1
    /\ UNCHANGED <<incidents, jobs, snapshots, claims>>

\* Only a call on behalf of an existing incident is made: ids come from
\* CreateOrGetIncident or from a claim.
Exists(i) == incidents[i] # AbsentIncident

Ingress ==
    \/ \E i \in IncidentIds, k \in Keys, at \in EventTimes : InsertIncident(i, k, at)
    \/ \E j \in JobIds, i \in IncidentIds, at \in EventTimes : Exists(i) /\ Enqueue(j, i, at)
    \/ \E k \in Keys, at \in EventTimes, i \in IncidentIds : Recover(k, at, i)

\* t is read before the transaction begins, so it may be behind the clock.
Take(w, t, j) ==
    /\ ClaimNext(w, t, j)
    /\ claims' = claims \cup {ClaimFor(w, t, j)}
    /\ UNCHANGED now

\* A retry reads the clock again, after the claim did.
RetryTimes(c) == {t \in 0..now : t + Lease >= c.leaseUntil}

\* The worker counts the delay of an audit retry from the time of its claim.
AuditTimes == {t + AuditDelay : t \in 0..now}

UseClaim(c) ==
    \/ MarkInvestigatingForClaim(c)
    \/ \E m \in MessageIds : SetFeishuMessageIDForClaim(c, m)
    \/ CompleteJob(c)
    \/ CompleteJobAndIncident(c)
    \/ \E j \in JobIds, at \in AuditTimes : CompleteJobAndScheduleAuditRetry(c, j, at)
    \/ \E at \in RetryTimes(c) : RetryOrFailJob(c, at)

UseIncident(i) ==
    /\ Exists(i)
    /\ \/ \E m \in MessageIds : SetFeishuMessageID(i, m)
       \/ Complete(i)
       \/ Fail(i)
       \/ \E j \in JobIds, at \in AuditTimes : ScheduleAuditRetry(i, j, at)
       \/ CancelJobsForIncident(i)

Next ==
    \/ Tick
    \/ Ingress /\ UNCHANGED <<now, claims>>
    \/ \E w \in WorkerIds, t \in 0..now, j \in JobIds : Take(w, t, j)
    \/ (\E c \in claims : UseClaim(c)) /\ UNCHANGED <<now, claims>>
    \/ (\E i \in IncidentIds : UseIncident(i)) /\ UNCHANGED <<now, claims>>

Spec == Init /\ [][Next]_vars

-----------------------------------------------------------------------------
\* Safety.

\* The fence of a job recognises its newest claim and no other: a worker whose
\* lease ran out can never write through a claim that a later attempt replaced,
\* even though the statements compare neither the attempt nor the clock, and
\* all processes of a host share one worker_id.
FenceRejectsStaleClaims ==
    \A c \in claims : HoldsClaim(c) => c.attempt = jobs[c.job].attempt

\* No work goes on for a closed incident: every transaction that closes one
\* also ends all the claims on it, whichever job they are on.  (A job queued
\* after the closing stays QUEUED; ClaimNext never picks it.)
ClosedIncidentHasNoRunningJob ==
    \A j \in JobIds :
        jobs[j].status = "RUNNING" => incidents[jobs[j].incident].state \in ActiveStates

\* An RCA result is stored once, with the transition to COMPLETED and never
\* without it: retries, duplicate jobs and stale claims do not add a second.
OneSnapshotPerCompletion ==
    \A i \in IncidentIds :
        /\ snapshots[i] <= 1
        /\ incidents[i].state = "COMPLETED" => snapshots[i] = 1
        /\ incidents[i].state \in ActiveStates \cup {"FAILED", "ABSENT"} => snapshots[i] = 0

-----------------------------------------------------------------------------
\* Action properties.

\* A closed incident is never reopened and never completed twice; only a
\* recovery still moves it, and nothing moves it after that.
ClosedStaysClosed ==
    [][\A i \in IncidentIds :
          /\ incidents[i].state = "RECOVERED" => incidents'[i].state = "RECOVERED"
          /\ incidents[i].state \in TerminalStates =>
                incidents'[i].state \in {incidents[i].state, "RECOVERED"}]_vars

\* A running job changes hands only after its lease has run out, and its new
\* lease ends later than the old one.
LeaseIsExclusive ==
    [][\A j \in JobIds :
          (/\ jobs[j].status = "RUNNING"
           /\ jobs'[j].status = "RUNNING"
           /\ jobs'[j] # jobs[j]) => /\ jobs[j].leaseUntil <= now
                                     /\ jobs[j].leaseUntil < jobs'[j].leaseUntil]_vars

\* A job that was closed is never queued or claimed again.
ClosedJobStaysClosed ==
    [][\A j \in JobIds :
          jobs[j].status \in ClosedStatuses => jobs'[j] = jobs[j]]_vars

=============================================================================
