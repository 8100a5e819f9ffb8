------------------------------- MODULE Store -------------------------------
(***************************************************************************)
(* The SQLite repository of internal/store/sqlite.go: the two tables the   *)
(* gateway and the workers share, and every statement or transaction that  *)
(* reads or changes them.  SQLite serialises writers, so one statement     *)
(* outside a transaction, or one transaction, is one step.                 *)
(*                                                                         *)
(* The module declares operations only; StoreClients drives them with      *)
(* arbitrary callers and RcaSystem with the gateway and the workers.  An   *)
(* operation is enabled exactly when the code commits a change: where the  *)
(* code returns an error instead, the caller tests the same guard.         *)
(*                                                                         *)
(* A definition named after another with a word more (HoldsClaimIgnoring-  *)
(* Lease) is a slip one could make in that code.  Nothing uses it: it is   *)
(* put in place of the right one to see that a property notices.           *)
(***************************************************************************)
EXTENDS Integers

CONSTANTS Keys,        \* incident keys, workspace:rule:resource
          IncidentIds, \* row ids; ordered, because Recover breaks ties by id
          JobIds,      \* row ids; ordered, because ClaimNext breaks ties by id
          MessageIds,  \* ids Feishu gives to cards
          WorkerIds,   \* values of jobs.worker_id, one per host
          Lease,       \* JobLeaseDuration
          RetryStep,   \* seconds of back-off per attempt
          RetryCap,    \* longest back-off
          MaxAttempts  \* the maxAttempts the worker passes

\* Ids are totally ordered strings in the code; numbers stand for that order.
ASSUME StoreAssumption ==
    /\ IncidentIds \subseteq Nat
    /\ JobIds \subseteq Nat
    /\ Lease \in Nat \ {0}
    /\ RetryStep \in Nat \ {0}
    /\ RetryCap \in Nat \ {0}
    /\ MaxAttempts \in Nat \ {0}

VARIABLES incidents, \* table incidents, by id
          jobs,      \* table jobs, by id
          snapshots  \* rows of evidence_snapshots, counted by incident

storeVars == <<incidents, jobs, snapshots>>

ActiveStates == {"RECEIVED", "INVESTIGATING", "AWAITING_AUDIT_EVENT"}
TerminalStates == {"COMPLETED", "FAILED", "RECOVERED"}
OpenStatuses == {"QUEUED", "RUNNING"}
ClosedStatuses == {"COMPLETED", "CANCELLED", "FAILED"}
NoCard == ""
NoWorker == ""

\* The columns some property or guard depends on; created_at, updated_at and
\* the parts of the key are written and never read back by the repository.
Incident == [key : Keys, state : ActiveStates \cup TerminalStates,
             alertAt : Nat, card : MessageIds \cup {NoCard}]
Job == [incident : IncidentIds, status : OpenStatuses \cup ClosedStatuses,
        worker : WorkerIds \cup {NoWorker}, attempt : Nat,
        runAfter : Nat, leaseUntil : Nat]
AbsentIncident == [state |-> "ABSENT"]
AbsentJob == [status |-> "ABSENT"]

\* The copy of a job row that ClaimNext hands to a worker.
Claim == [job : JobIds, incident : IncidentIds, worker : WorkerIds,
          attempt : Nat \ {0}, leaseUntil : Nat]

StoreTypeOK ==
    /\ incidents \in [IncidentIds -> Incident \cup {AbsentIncident}]
    /\ jobs \in [JobIds -> Job \cup {AbsentJob}]
    /\ snapshots \in [IncidentIds -> Nat]

StoreInit ==
    /\ incidents = [i \in IncidentIds |-> AbsentIncident]
    /\ jobs = [j \in JobIds |-> AbsentJob]
    /\ snapshots = [i \in IncidentIds |-> 0]

-----------------------------------------------------------------------------
\* The WHERE clauses the statements share.

Active(i) == incidents[i].state \in ActiveStates

\* UNIQUE INDEX incidents_active_key: a key has at most one active row.
KeyIsActive(k) == \E i \in IncidentIds : Active(i) /\ incidents[i].key = k

HoldsClaimIgnoringLease(c) ==
    /\ jobs[c.job].status = "RUNNING"
    /\ jobs[c.job].incident = c.incident
    /\ jobs[c.job].worker = c.worker

\* The fence of every *ForClaim statement.  Neither the attempt nor the clock
\* is compared, so the pair (worker, leaseUntil) alone must identify the claim.
HoldsClaim(c) ==
    /\ jobs[c.job].status = "RUNNING"
    /\ jobs[c.job].incident = c.incident
    /\ jobs[c.job].worker = c.worker
    /\ jobs[c.job].leaseUntil = c.leaseUntil

CheckActiveClaim(c) == HoldsClaim(c) /\ Active(c.incident)

\* SET status = ?, worker_id = '', lease_until = 0
Released(job, status) ==
    [job EXCEPT !.status = status, !.worker = NoWorker, !.leaseUntil = 0]

CancelOpenJobsQueuedOnly(table, i, keep) ==
    [j \in JobIds |->
        IF table[j].status = "QUEUED" /\ table[j].incident = i /\ j \notin keep
        THEN Released(table[j], "CANCELLED")
        ELSE table[j]]

CancelOpenJobsOfAnyStatus(table, i, keep) ==
    [j \in JobIds |->
        IF table[j] # AbsentJob /\ table[j].incident = i /\ j \notin keep
        THEN Released(table[j], "CANCELLED")
        ELSE table[j]]

\* The incident's QUEUED and RUNNING jobs are cancelled, those in keep excepted.
CancelOpenJobs(table, i, keep) ==
    [j \in JobIds |->
        IF table[j].status \in OpenStatuses /\ table[j].incident = i /\ j \notin keep
        THEN Released(table[j], "CANCELLED")
        ELSE table[j]]

SetState(i, state) == incidents' = [incidents EXCEPT ![i].state = state]

NewJob(i, at) ==
    [incident |-> i, status |-> "QUEUED", worker |-> NoWorker,
     attempt |-> 0, runAfter |-> at, leaseUntil |-> 0]

-----------------------------------------------------------------------------
\* Operations of the gateway.

InsertIncidentWithoutIndex(i, k, at) ==
    /\ incidents[i] = AbsentIncident
    /\ incidents' = [incidents EXCEPT ![i] =
                        [key |-> k, state |-> "RECEIVED", alertAt |-> at, card |-> NoCard]]
    /\ UNCHANGED <<jobs, snapshots>>

\* CreateOrGetIncident, the INSERT: it fails on the unique index.
InsertIncident(i, k, at) ==
    /\ incidents[i] = AbsentIncident
    /\ ~KeyIsActive(k)
    /\ incidents' = [incidents EXCEPT ![i] =
                        [key |-> k, state |-> "RECEIVED", alertAt |-> at, card |-> NoCard]]
    /\ UNCHANGED <<jobs, snapshots>>

Enqueue(j, i, at) ==
    /\ jobs[j] = AbsentJob
    /\ jobs' = [jobs EXCEPT ![j] = NewJob(i, at)]
    /\ UNCHANGED <<incidents, snapshots>>

\* ORDER BY alert_at DESC, id DESC LIMIT 1 over the rows of the key, in any
\* state, that are not newer than the recovery.
NotNewer(k, at) ==
    {i \in IncidentIds : /\ incidents[i] # AbsentIncident
                         /\ incidents[i].key = k
                         /\ incidents[i].alertAt <= at}
IsRecoverTarget(i, k, at) ==
    /\ i \in NotNewer(k, at)
    /\ \A o \in NotNewer(k, at) :
          \/ incidents[o].alertAt < incidents[i].alertAt
          \/ incidents[o].alertAt = incidents[i].alertAt /\ o <= i

\* Recover, when it changes anything: a target already RECOVERED, or none at
\* all, commits nothing.
Recover(k, at, i) ==
    /\ IsRecoverTarget(i, k, at)
    /\ incidents[i].state # "RECOVERED"
    /\ SetState(i, "RECOVERED")
    /\ jobs' = CancelOpenJobs(jobs, i, {})
    /\ UNCHANGED snapshots

-----------------------------------------------------------------------------
\* Operations of the workers.

ClaimableDuringLease(j, t) ==
    /\ jobs[j].status \in OpenStatuses
    /\ Active(jobs[j].incident)
    /\ jobs[j].runAfter <= t

ClaimableWhenQueued(j, t) ==
    /\ jobs[j].status = "QUEUED" /\ jobs[j].runAfter <= t
    /\ Active(jobs[j].incident)

Claimable(j, t) ==
    /\ jobs[j].status \in OpenStatuses
    /\ Active(jobs[j].incident)
    /\ \/ jobs[j].status = "QUEUED" /\ jobs[j].runAfter <= t
       \/ jobs[j].status = "RUNNING" /\ jobs[j].leaseUntil <= t

\* ORDER BY jobs.run_after, jobs.id LIMIT 1
IsNextJob(j, t) ==
    /\ Claimable(j, t)
    /\ \A o \in JobIds : Claimable(o, t) =>
          \/ jobs[j].runAfter < jobs[o].runAfter
          \/ jobs[j].runAfter = jobs[o].runAfter /\ j <= o

ClaimForRowAsRead(w, t, j) ==
    [job |-> j, incident |-> jobs[j].incident, worker |-> w,
     attempt |-> jobs[j].attempt, leaseUntil |-> t + Lease]

ClaimFor(w, t, j) ==
    [job |-> j, incident |-> jobs[j].incident, worker |-> w,
     attempt |-> jobs[j].attempt + 1, leaseUntil |-> t + Lease]

\* t is the caller's reading of the clock.
ClaimNext(w, t, j) ==
    /\ IsNextJob(j, t)
    /\ jobs' = [jobs EXCEPT ![j].status = "RUNNING", ![j].worker = w,
                            ![j].attempt = @ + 1, ![j].leaseUntil = t + Lease]
    /\ UNCHANGED <<incidents, snapshots>>

\* The UPDATE of MarkInvestigatingForClaim.  It leaves out INVESTIGATING, and
\* the code reports every row it does not match as inactive or lease lost.
CanMarkInvestigating(c) ==
    /\ HoldsClaim(c)
    /\ incidents[c.incident].state \in {"RECEIVED", "AWAITING_AUDIT_EVENT"}

MarkInvestigatingForClaim(c) ==
    /\ CanMarkInvestigating(c)
    /\ SetState(c.incident, "INVESTIGATING")
    /\ UNCHANGED <<jobs, snapshots>>

CanSetCardForClaim(c) == CheckActiveClaim(c) /\ incidents[c.incident].card = NoCard

SetFeishuMessageIDForClaim(c, m) ==
    /\ CanSetCardForClaim(c)
    /\ incidents' = [incidents EXCEPT ![c.incident].card = m]
    /\ UNCHANGED <<jobs, snapshots>>

SetFeishuMessageID(i, m) ==
    /\ incidents[i] # AbsentIncident
    /\ incidents[i].card = NoCard
    /\ incidents' = [incidents EXCEPT ![i].card = m]
    /\ UNCHANGED <<jobs, snapshots>>

AddSnapshot(i) == snapshots' = [snapshots EXCEPT ![i] = @ + 1]

CompleteJobAndIncident(c) ==
    /\ CheckActiveClaim(c)
    /\ SetState(c.incident, "COMPLETED")
    /\ AddSnapshot(c.incident)
    /\ jobs' = CancelOpenJobs([jobs EXCEPT ![c.job] = Released(@, "COMPLETED")],
                              c.incident, {c.job})

CompleteJobAndScheduleAuditRetryKeepingJob(c, j, retryAt) ==
    /\ CheckActiveClaim(c)
    /\ jobs[j] = AbsentJob
    /\ SetState(c.incident, "AWAITING_AUDIT_EVENT")
    /\ jobs' = [jobs EXCEPT ![j] = NewJob(c.incident, retryAt)]
    /\ UNCHANGED snapshots

\* The audit retry is a new row, so its attempts count from 0 again.
CompleteJobAndScheduleAuditRetry(c, j, retryAt) ==
    /\ CheckActiveClaim(c)
    /\ jobs[j] = AbsentJob
    /\ SetState(c.incident, "AWAITING_AUDIT_EVENT")
    /\ jobs' = [jobs EXCEPT ![c.job] = Released(@, "COMPLETED"),
                            ![j] = NewJob(c.incident, retryAt)]
    /\ UNCHANGED snapshots

RetryDelayFromZero(attempt) ==
    IF (attempt - 1) * RetryStep > RetryCap THEN RetryCap ELSE (attempt - 1) * RetryStep

RetryDelay(attempt) ==
    IF attempt * RetryStep > RetryCap THEN RetryCap ELSE attempt * RetryStep

\* RetryOrFailJob below the limit: back to the queue.
RetryJob(c, at) ==
    /\ c.attempt < MaxAttempts
    /\ CheckActiveClaim(c)
    /\ jobs' = [jobs EXCEPT ![c.job] = [Released(@, "QUEUED") EXCEPT
                                            !.runAfter = at + RetryDelay(c.attempt)]]
    /\ UNCHANGED <<incidents, snapshots>>

FailJobLeavingIncident(c) ==
    /\ c.attempt >= MaxAttempts
    /\ CheckActiveClaim(c)
    /\ jobs' = [jobs EXCEPT ![c.job] = Released(@, "FAILED")]
    /\ UNCHANGED <<incidents, snapshots>>

\* RetryOrFailJob at the limit: the job and its incident fail together.
FailJob(c) ==
    /\ c.attempt >= MaxAttempts
    /\ CheckActiveClaim(c)
    /\ SetState(c.incident, "FAILED")
    /\ jobs' = CancelOpenJobs([jobs EXCEPT ![c.job] = Released(@, "FAILED")],
                              c.incident, {c.job})
    /\ UNCHANGED snapshots

RetryOrFailJob(c, at) == RetryJob(c, at) \/ FailJob(c)

-----------------------------------------------------------------------------
\* Operations the interface offers and neither binary calls.

CompleteInAnyState(i) ==
    /\ SetState(i, "COMPLETED")
    /\ AddSnapshot(i)
    /\ jobs' = CancelOpenJobs(jobs, i, {})

Complete(i) ==
    /\ Active(i)
    /\ SetState(i, "COMPLETED")
    /\ AddSnapshot(i)
    /\ jobs' = CancelOpenJobs(jobs, i, {})

Fail(i) ==
    /\ Active(i)
    /\ SetState(i, "FAILED")
    /\ jobs' = CancelOpenJobs(jobs, i, {})
    /\ UNCHANGED snapshots

ScheduleAuditRetryInAnyState(i, j, retryAt) ==
    /\ jobs[j] = AbsentJob
    /\ SetState(i, "AWAITING_AUDIT_EVENT")
    /\ jobs' = [jobs EXCEPT ![j] = NewJob(i, retryAt)]
    /\ UNCHANGED snapshots

ScheduleAuditRetry(i, j, retryAt) ==
    /\ Active(i)
    /\ jobs[j] = AbsentJob
    /\ SetState(i, "AWAITING_AUDIT_EVENT")
    /\ jobs' = [jobs EXCEPT ![j] = NewJob(i, retryAt)]
    /\ UNCHANGED snapshots

CompleteJob(c) ==
    /\ CheckActiveClaim(c)
    /\ jobs' = [jobs EXCEPT ![c.job] = Released(@, "COMPLETED")]
    /\ UNCHANGED <<incidents, snapshots>>

CancelJobsForIncident(i) ==
    /\ jobs' = CancelOpenJobs(jobs, i, {})
    /\ UNCHANGED <<incidents, snapshots>>

=============================================================================
