---------------------------- MODULE StoreLemmas ----------------------------
(***************************************************************************)
(* What the operations of the repository do to its tables, whoever calls   *)
(* them: the lemmas about Store that the proofs about StoreClients and     *)
(* about RcaSystem share.  An ...Effect lemma says everything a caller may *)
(* know after the operation: the tables are well formed, which rows it     *)
(* changed, and how.                                                       *)
(***************************************************************************)
EXTENDS Store, TLAPS

JobTable == [JobIds -> Job \cup {AbsentJob}]
IncidentTable == [IncidentIds -> Incident \cup {AbsentIncident}]

-----------------------------------------------------------------------------
(* What the helpers of the store return.                                   *)

\* A released job is a job with the given status and nothing else changed but
\* its claim.
LEMMA ReleasedJob ==
    ASSUME NEW job \in Job, NEW s \in OpenStatuses \cup ClosedStatuses
    PROVE  /\ Released(job, s) \in Job
           /\ Released(job, s).status = s
           /\ Released(job, s).incident = job.incident
           /\ Released(job, s).attempt = job.attempt
           /\ Released(job, s).runAfter = job.runAfter
  BY DEF Released, Job, NoWorker

\* A row with a status of a job is a job.
LEMMA StatusMakesJob ==
    ASSUME NEW table \in JobTable, NEW j \in JobIds,
           table[j].status \in OpenStatuses \cup ClosedStatuses
    PROVE  table[j] \in Job
  BY DEF JobTable, AbsentJob, OpenStatuses, ClosedStatuses

\* Cancelling the open jobs of an incident yields a table again; it changes
\* only open jobs of that incident, and leaves none but those kept.
LEMMA CancelledJobs ==
    ASSUME NEW table \in JobTable, NEW i \in IncidentIds, NEW keep
    PROVE  /\ CancelOpenJobs(table, i, keep) \in JobTable
           /\ \A j \in JobIds :
                 \/ CancelOpenJobs(table, i, keep)[j] = table[j]
                 \/ /\ table[j] \in Job
                    /\ table[j].status \in OpenStatuses
                    /\ table[j].incident = i
                    /\ j \notin keep
                    /\ CancelOpenJobs(table, i, keep)[j] = Released(table[j], "CANCELLED")
           /\ \A j \in JobIds :
                 /\ CancelOpenJobs(table, i, keep)[j].status \in OpenStatuses
                 /\ j \notin keep
                 => CancelOpenJobs(table, i, keep)[j].incident # i
  <1> DEFINE new == CancelOpenJobs(table, i, keep)
  <1>1. ASSUME NEW j \in JobIds,
               table[j].status \in OpenStatuses, table[j].incident = i, j \notin keep
        PROVE  /\ new[j] = Released(table[j], "CANCELLED")
               /\ table[j] \in Job
               /\ new[j] \in Job
               /\ new[j].status = "CANCELLED"
    <2>1. table[j] \in Job
      BY <1>1, StatusMakesJob
    <2>2. new[j] = Released(table[j], "CANCELLED")
      BY <1>1 DEF CancelOpenJobs
    <2> QED
      BY <2>1, <2>2, ReleasedJob DEF ClosedStatuses
  <1>2. ASSUME NEW j \in JobIds,
               ~(table[j].status \in OpenStatuses /\ table[j].incident = i /\ j \notin keep)
        PROVE  new[j] = table[j]
    BY <1>2 DEF CancelOpenJobs
  <1>3. new \in JobTable
    <2>1. \A j \in JobIds : new[j] \in Job \cup {AbsentJob}
      BY <1>1, <1>2 DEF JobTable
    <2> QED
      BY <2>1 DEF JobTable, CancelOpenJobs
  <1> HIDE DEF new
  <1>4. \A j \in JobIds :
           \/ new[j] = table[j]
           \/ /\ table[j] \in Job
              /\ table[j].status \in OpenStatuses
              /\ table[j].incident = i
              /\ j \notin keep
              /\ new[j] = Released(table[j], "CANCELLED")
    BY <1>1, <1>2
  <1>5. \A j \in JobIds : new[j].status \in OpenStatuses /\ j \notin keep => new[j].incident # i
    BY <1>1, <1>2 DEF OpenStatuses
  <1> QED
    BY <1>3, <1>4, <1>5 DEF new

LEMMA RetryDelayIsABackOff ==
    ASSUME NEW a \in Nat \ {0}
    PROVE  RetryDelay(a) \in Nat \ {0} /\ RetryDelay(a) <= RetryCap
  BY StoreAssumption DEF RetryDelay

LEMMA NewJobType ==
    ASSUME NEW i \in IncidentIds, NEW at \in Nat
    PROVE  /\ NewJob(i, at) \in Job
           /\ NewJob(i, at).status = "QUEUED"
           /\ NewJob(i, at).incident = i
           /\ NewJob(i, at).runAfter = at
  BY DEF NewJob, Job, OpenStatuses, NoWorker

LEMMA ActiveIsIncident ==
    ASSUME incidents \in IncidentTable, NEW i \in IncidentIds,
           incidents[i].state \in ActiveStates \cup TerminalStates
    PROVE  incidents[i] \in Incident
  BY DEF IncidentTable, AbsentIncident, ActiveStates, TerminalStates

LEMMA AddSnapshotType ==
    ASSUME snapshots \in [IncidentIds -> Nat], NEW i \in IncidentIds, AddSnapshot(i)
    PROVE  snapshots' \in [IncidentIds -> Nat]
  BY DEF AddSnapshot

\* What a claim that passes the fence says about the tables.
LEMMA HeldClaim ==
    ASSUME StoreTypeOK, NEW c \in Claim, HoldsClaim(c)
    PROVE  /\ c.job \in JobIds
           /\ c.incident \in IncidentIds
           /\ c.attempt \in Nat \ {0}
           /\ jobs[c.job] \in Job
           /\ jobs[c.job].status = "RUNNING"
           /\ jobs[c.job].incident = c.incident
  <1>1. c.job \in JobIds /\ c.incident \in IncidentIds /\ c.attempt \in Nat \ {0}
    BY DEF Claim
  <1>2. jobs[c.job] \in Job
    BY <1>1 DEF StoreTypeOK, HoldsClaim, AbsentJob
  <1> QED
    BY <1>1, <1>2 DEF HoldsClaim

LEMMA ReleaseType ==
    ASSUME jobs \in JobTable, NEW j \in JobIds, jobs[j] \in Job,
           NEW s \in OpenStatuses \cup ClosedStatuses
    PROVE  /\ [jobs EXCEPT ![j] = Released(@, s)] \in JobTable
           /\ [jobs EXCEPT ![j] = Released(@, s)][j] = Released(jobs[j], s)
           /\ \A o \in JobIds : o # j => [jobs EXCEPT ![j] = Released(@, s)][o] = jobs[o]
  BY ReleasedJob DEF JobTable

-----------------------------------------------------------------------------
(* How one operation can change one row.                                   *)

Untouched(j) == jobs'[j] = jobs[j]

Queued(j) == jobs[j] = AbsentJob /\ jobs'[j].status = "QUEUED"

Ended(j) ==
    /\ jobs[j].status \in OpenStatuses
    /\ jobs'[j] \in Job
    /\ jobs'[j].status \in ClosedStatuses
    /\ jobs'[j].incident = jobs[j].incident

\* The jobs of incident i are ended, all the open ones, and no other changes.
EndsJobsOf(i) ==
    /\ \A j \in JobIds : Untouched(j) \/ (Ended(j) /\ jobs[j].incident = i)
    /\ \A j \in JobIds : jobs'[j].status \in OpenStatuses => jobs'[j].incident # i

OthersUntouched(S) == \A o \in JobIds \ S : Untouched(o)

\* The row of incident i gets a state and keeps the rest, like all other rows.
StateBecomes(i, s) ==
    /\ incidents[i] \in Incident
    /\ incidents'[i] \in Incident
    /\ incidents'[i].state = s
    /\ incidents'[i].key = incidents[i].key
    /\ incidents'[i].alertAt = incidents[i].alertAt
    /\ incidents'[i].card = incidents[i].card
    /\ \A o \in IncidentIds \ {i} : incidents'[o] = incidents[o]

CardBecomes(i, m) ==
    /\ incidents[i] \in Incident
    /\ incidents[i].card = NoCard
    /\ incidents'[i] \in Incident
    /\ incidents'[i].state = incidents[i].state
    /\ incidents'[i].key = incidents[i].key
    /\ incidents'[i].alertAt = incidents[i].alertAt
    /\ incidents'[i].card = m
    /\ \A o \in IncidentIds \ {i} : incidents'[o] = incidents[o]

-----------------------------------------------------------------------------
(* What each operation does.                                               *)

LEMMA StoreTables ==
    ASSUME StoreTypeOK
    PROVE  /\ jobs \in JobTable
           /\ incidents \in IncidentTable
           /\ snapshots \in [IncidentIds -> Nat]
  BY DEF StoreTypeOK, JobTable, IncidentTable

LEMMA TablesAreTyped ==
    ASSUME jobs' \in JobTable, incidents' \in IncidentTable,
           snapshots' \in [IncidentIds -> Nat]
    PROVE  StoreTypeOK'
  BY DEF StoreTypeOK, JobTable, IncidentTable

LEMMA SetStateEffect ==
    ASSUME incidents \in IncidentTable, NEW i \in IncidentIds, incidents[i] \in Incident,
           NEW s \in ActiveStates \cup TerminalStates, SetState(i, s)
    PROVE  incidents' \in IncidentTable /\ StateBecomes(i, s)
  <1> DEFINE row == [incidents[i] EXCEPT !.state = s]
  <1>1. /\ row \in Incident
        /\ row.state = s
        /\ row.key = incidents[i].key
        /\ row.alertAt = incidents[i].alertAt
        /\ row.card = incidents[i].card
    BY DEF Incident
  <1>2. incidents' = [incidents EXCEPT ![i] = row]
    BY DEF SetState
  <1> HIDE DEF row
  <1>3. incidents'[i] = row /\ \A o \in IncidentIds \ {i} : incidents'[o] = incidents[o]
    BY <1>2 DEF IncidentTable
  <1> QED
    BY <1>1, <1>2, <1>3 DEF IncidentTable, StateBecomes

LEMMA SetCardEffect ==
    ASSUME StoreTypeOK, NEW i \in IncidentIds, incidents[i] \in Incident,
           incidents[i].card = NoCard, NEW m \in MessageIds,
           incidents' = [incidents EXCEPT ![i].card = m], UNCHANGED <<jobs, snapshots>>
    PROVE  StoreTypeOK' /\ CardBecomes(i, m)
  <1> DEFINE row == [incidents[i] EXCEPT !.card = m]
  <1>0. incidents \in IncidentTable
    BY StoreTables
  <1>1. /\ row \in Incident
        /\ row.state = incidents[i].state
        /\ row.key = incidents[i].key
        /\ row.alertAt = incidents[i].alertAt
        /\ row.card = m
    BY DEF Incident
  <1>2. incidents' = [incidents EXCEPT ![i] = row]
    OBVIOUS
  <1> HIDE DEF row
  <1>3. incidents'[i] = row /\ \A o \in IncidentIds \ {i} : incidents'[o] = incidents[o]
    BY <1>0, <1>2 DEF IncidentTable
  <1>4. CardBecomes(i, m)
    BY <1>1, <1>3 DEF CardBecomes
  <1>5. incidents' \in IncidentTable
    BY <1>0, <1>1, <1>2 DEF IncidentTable
  <1> QED
    BY <1>4, <1>5, StoreTables, TablesAreTyped

\* Cancelling the jobs of an incident, all of them ...
LEMMA CancelEffect ==
    ASSUME jobs \in JobTable, NEW i \in IncidentIds, jobs' = CancelOpenJobs(jobs, i, {})
    PROVE  jobs' \in JobTable /\ EndsJobsOf(i)
  <1>1. ASSUME NEW j \in JobIds
        PROVE  Untouched(j) \/ (Ended(j) /\ jobs[j].incident = i)
    <2>1. CASE jobs'[j] = jobs[j]
      BY <2>1 DEF Untouched
    <2>2. CASE /\ jobs[j] \in Job
               /\ jobs[j].status \in OpenStatuses
               /\ jobs[j].incident = i
               /\ jobs'[j] = Released(jobs[j], "CANCELLED")
      BY <2>2, ReleasedJob DEF Ended, ClosedStatuses
    <2> QED
      BY <2>1, <2>2, CancelledJobs
  <1>2. \A j \in JobIds : jobs'[j].status \in OpenStatuses => jobs'[j].incident # i
    BY CancelledJobs
  <1>3. jobs' \in JobTable
    BY CancelledJobs
  <1> QED
    BY <1>1, <1>2, <1>3 DEF EndsJobsOf

\* ... or all but the claimed one, which is closed in the same transaction.
LEMMA FinishEffect ==
    ASSUME StoreTypeOK, NEW c \in Claim, HoldsClaim(c), NEW s \in ClosedStatuses,
           jobs' = CancelOpenJobs([jobs EXCEPT ![c.job] = Released(@, s)], c.incident, {c.job})
    PROVE  jobs' \in JobTable /\ EndsJobsOf(c.incident)
  <1> DEFINE table == [jobs EXCEPT ![c.job] = Released(@, s)]
  <1>0. jobs \in JobTable
    BY StoreTables
  <1>1. /\ c.job \in JobIds
        /\ c.incident \in IncidentIds
        /\ jobs[c.job] \in Job
        /\ jobs[c.job].status = "RUNNING"
        /\ jobs[c.job].incident = c.incident
    BY HeldClaim
  <1>2. /\ table \in JobTable
        /\ table[c.job] = Released(jobs[c.job], s)
        /\ \A o \in JobIds : o # c.job => table[o] = jobs[o]
    BY <1>0, <1>1, ReleaseType
  <1>3. /\ table[c.job] \in Job
        /\ table[c.job].status \in ClosedStatuses
        /\ table[c.job].incident = jobs[c.job].incident
    BY <1>1, <1>2, ReleasedJob
  <1> HIDE DEF table
  <1>4. /\ jobs' \in JobTable
        /\ \A j \in JobIds :
              \/ jobs'[j] = table[j]
              \/ /\ table[j] \in Job
                 /\ table[j].status \in OpenStatuses
                 /\ table[j].incident = c.incident
                 /\ j \notin {c.job}
                 /\ jobs'[j] = Released(table[j], "CANCELLED")
        /\ \A j \in JobIds :
              jobs'[j].status \in OpenStatuses /\ j \notin {c.job}
              => jobs'[j].incident # c.incident
    <2> DEFINE keep == {c.job}
               new == CancelOpenJobs(table, c.incident, keep)
    <2>1. jobs' = new
      BY DEF table
    <2> HIDE DEF keep
    <2>2. /\ new \in JobTable
          /\ \A j \in JobIds :
                \/ new[j] = table[j]
                \/ /\ table[j] \in Job
                   /\ table[j].status \in OpenStatuses
                   /\ table[j].incident = c.incident
                   /\ j \notin keep
                   /\ new[j] = Released(table[j], "CANCELLED")
          /\ \A j \in JobIds :
                new[j].status \in OpenStatuses /\ j \notin keep => new[j].incident # c.incident
      BY <1>1, <1>2, CancelledJobs
    <2> HIDE DEF new
    <2> QED
      BY <2>1, <2>2 DEF keep
  <1>5. jobs'[c.job] = table[c.job]
    BY <1>1, <1>4
  <1>6. Ended(c.job)
    BY <1>1, <1>3, <1>5 DEF Ended, OpenStatuses
  <1>7. ASSUME NEW j \in JobIds, j # c.job
        PROVE  Untouched(j) \/ (Ended(j) /\ jobs[j].incident = c.incident)
    <2>1. CASE jobs'[j] = table[j]
      BY <1>2, <1>7, <2>1 DEF Untouched
    <2>2. CASE /\ table[j] \in Job
               /\ table[j].status \in OpenStatuses
               /\ table[j].incident = c.incident
               /\ jobs'[j] = Released(table[j], "CANCELLED")
      BY <1>2, <1>7, <2>2, ReleasedJob DEF Ended, ClosedStatuses
    <2> QED
      BY <1>4, <2>1, <2>2
  <1>8. \A j \in JobIds : jobs'[j].status \in OpenStatuses => jobs'[j].incident # c.incident
    BY <1>3, <1>4, <1>5 DEF OpenStatuses, ClosedStatuses
  <1> QED
    BY <1>1, <1>4, <1>6, <1>7, <1>8 DEF EndsJobsOf

LEMMA InsertEffect ==
    ASSUME StoreTypeOK, NEW i \in IncidentIds, NEW k \in Keys, NEW at \in Nat,
           InsertIncident(i, k, at)
    PROVE  /\ StoreTypeOK'
           /\ incidents[i] = AbsentIncident
           /\ ~KeyIsActive(k)
           /\ incidents'[i] \in Incident
           /\ incidents'[i].state = "RECEIVED"
           /\ incidents'[i].key = k
           /\ incidents'[i].alertAt = at
           /\ incidents'[i].card = NoCard
           /\ \A o \in IncidentIds \ {i} : incidents'[o] = incidents[o]
           /\ UNCHANGED <<jobs, snapshots>>
  <1> DEFINE row == [key |-> k, state |-> "RECEIVED", alertAt |-> at, card |-> NoCard]
  <1>1. /\ row \in Incident
        /\ row.state = "RECEIVED" /\ row.key = k /\ row.alertAt = at /\ row.card = NoCard
    BY DEF Incident, ActiveStates
  <1>2. incidents' = [incidents EXCEPT ![i] = row]
    BY DEF InsertIncident
  <1> HIDE DEF row
  <1>3. /\ incidents' \in IncidentTable
        /\ incidents'[i] = row
        /\ \A o \in IncidentIds \ {i} : incidents'[o] = incidents[o]
    BY <1>1, <1>2, StoreTables DEF IncidentTable
  <1>4. incidents[i] = AbsentIncident /\ ~KeyIsActive(k) /\ UNCHANGED <<jobs, snapshots>>
    BY DEF InsertIncident
  <1>5. StoreTypeOK'
    BY <1>3, <1>4, StoreTables, TablesAreTyped
  <1> QED
    BY <1>1, <1>3, <1>4, <1>5

LEMMA EnqueueEffect ==
    ASSUME StoreTypeOK, NEW j \in JobIds, NEW i \in IncidentIds, NEW at \in Nat,
           Enqueue(j, i, at)
    PROVE  /\ StoreTypeOK'
           /\ jobs[j] = AbsentJob
           /\ jobs'[j] \in Job
           /\ jobs'[j].status = "QUEUED"
           /\ jobs'[j].incident = i
           /\ jobs'[j].runAfter = at
           /\ OthersUntouched({j})
           /\ UNCHANGED <<incidents, snapshots>>
  <1> DEFINE row == NewJob(i, at)
  <1>1. row \in Job /\ row.status = "QUEUED" /\ row.incident = i /\ row.runAfter = at
    BY NewJobType
  <1>2. /\ jobs[j] = AbsentJob
        /\ jobs' = [jobs EXCEPT ![j] = row]
        /\ UNCHANGED <<incidents, snapshots>>
    BY DEF Enqueue
  <1> HIDE DEF row
  <1>3. jobs' \in JobTable /\ jobs'[j] = row /\ OthersUntouched({j})
    BY <1>1, <1>2, StoreTables DEF JobTable, OthersUntouched, Untouched
  <1> QED
    BY <1>1, <1>2, <1>3, StoreTables, TablesAreTyped

\* A recovery ends one incident, which was not recovered, and with it all its open
\* jobs, and touches no other row (Recover, one transaction).
LEMMA RecoverEffect ==
    ASSUME StoreTypeOK, NEW i \in IncidentIds, NEW k, NEW at, Recover(k, at, i)
    PROVE  /\ StoreTypeOK'
           /\ incidents[i].state # "RECOVERED"
           /\ StateBecomes(i, "RECOVERED")
           /\ EndsJobsOf(i)
           /\ UNCHANGED snapshots
  <1>1. incidents[i] \in Incident
    BY StoreTables DEF Recover, IsRecoverTarget, NotNewer, IncidentTable
  <1>2. incidents' \in IncidentTable /\ StateBecomes(i, "RECOVERED")
    BY <1>1, StoreTables, SetStateEffect DEF Recover, TerminalStates
  <1>3. jobs' \in JobTable /\ EndsJobsOf(i)
    BY StoreTables, CancelEffect DEF Recover
  <1> QED
    BY <1>2, <1>3, StoreTables, TablesAreTyped DEF Recover

\* ClaimNext takes a job that is due, of an active incident: one that is queued, or
\* one whose lease has run out.  It makes it RUNNING for the asking host, with one
\* attempt more and a lease from now, and touches no other row.
LEMMA ClaimEffect ==
    ASSUME StoreTypeOK, NEW w \in WorkerIds, NEW t \in Nat, NEW j \in JobIds, ClaimNext(w, t, j)
    PROVE  /\ StoreTypeOK'
           /\ jobs[j] \in Job
           /\ Active(jobs[j].incident)
           /\ \/ jobs[j].status = "QUEUED" /\ jobs[j].runAfter <= t
              \/ jobs[j].status = "RUNNING" /\ jobs[j].leaseUntil <= t
           /\ jobs'[j] \in Job
           /\ jobs'[j].status = "RUNNING"
           /\ jobs'[j].incident = jobs[j].incident
           /\ jobs'[j].worker = w
           /\ jobs'[j].attempt = jobs[j].attempt + 1
           /\ jobs'[j].leaseUntil = t + Lease
           /\ OthersUntouched({j})
           /\ UNCHANGED <<incidents, snapshots>>
           /\ ClaimFor(w, t, j) \in Claim
  <1>0. Lease \in Nat /\ t + Lease \in Nat
    BY StoreAssumption
  <1>1. /\ jobs[j].status \in OpenStatuses
        /\ Active(jobs[j].incident)
        /\ \/ jobs[j].status = "QUEUED" /\ jobs[j].runAfter <= t
           \/ jobs[j].status = "RUNNING" /\ jobs[j].leaseUntil <= t
    BY DEF ClaimNext, IsNextJob, Claimable
  <1>2. jobs \in JobTable /\ jobs[j] \in Job /\ jobs[j].attempt + 1 \in Nat
    BY <1>1, StatusMakesJob DEF StoreTypeOK, JobTable, Job
  <1> DEFINE row == [jobs[j] EXCEPT !.status = "RUNNING", !.worker = w,
                                    !.attempt = jobs[j].attempt + 1,
                                    !.leaseUntil = t + Lease]
  <1>3. /\ row \in Job
        /\ row.status = "RUNNING"
        /\ row.incident = jobs[j].incident
        /\ row.worker = w
        /\ row.attempt = jobs[j].attempt + 1
        /\ row.leaseUntil = t + Lease
    BY <1>0, <1>2 DEF Job, OpenStatuses
  <1>4. jobs' = [jobs EXCEPT ![j] = row]
    BY <1>2 DEF ClaimNext, JobTable
  <1>5. jobs'[j] = row /\ \A o \in JobIds \ {j} : jobs'[o] = jobs[o]
    BY <1>2, <1>4 DEF JobTable
  <1>6. StoreTypeOK' /\ UNCHANGED <<incidents, snapshots>>
    BY <1>3, <1>4 DEF StoreTypeOK, ClaimNext
  <1>7. ClaimFor(w, t, j) \in Claim
    BY <1>0, <1>2 DEF ClaimFor, Claim, Job
  <1> QED
    BY <1>1, <1>2, <1>3, <1>5, <1>6, <1>7 DEF OthersUntouched, Untouched

\* A claim that passes the fence, on an active incident: the rows it is about.
LEMMA ActiveClaim ==
    ASSUME StoreTypeOK, NEW c \in Claim, CheckActiveClaim(c)
    PROVE  /\ c.job \in JobIds
           /\ c.incident \in IncidentIds
           /\ c.attempt \in Nat \ {0}
           /\ c.leaseUntil \in Nat
           /\ HoldsClaim(c)
           /\ Active(c.incident)
           /\ jobs[c.job] \in Job
           /\ jobs[c.job].status = "RUNNING"
           /\ jobs[c.job].incident = c.incident
           /\ jobs[c.job].worker = c.worker
           /\ jobs[c.job].leaseUntil = c.leaseUntil
           /\ incidents[c.incident] \in Incident
  <1>1. HoldsClaim(c) /\ Active(c.incident)
    BY DEF CheckActiveClaim
  <1>2. c.leaseUntil \in Nat
    BY DEF Claim
  <1> QED
    BY <1>1, <1>2, HeldClaim, ActiveIsIncident, StoreTables DEF Active, HoldsClaim

LEMMA MarkEffect ==
    ASSUME StoreTypeOK, NEW c \in Claim, MarkInvestigatingForClaim(c)
    PROVE  /\ StoreTypeOK'
           /\ CheckActiveClaim(c)
           /\ incidents[c.incident].state \in {"RECEIVED", "AWAITING_AUDIT_EVENT"}
           /\ StateBecomes(c.incident, "INVESTIGATING")
           /\ UNCHANGED <<jobs, snapshots>>
  <1>1. CheckActiveClaim(c)
    BY DEF MarkInvestigatingForClaim, CanMarkInvestigating, CheckActiveClaim, Active, ActiveStates
  <1>2. incidents' \in IncidentTable /\ StateBecomes(c.incident, "INVESTIGATING")
    BY <1>1, ActiveClaim, StoreTables, SetStateEffect DEF MarkInvestigatingForClaim, ActiveStates
  <1> QED
    BY <1>1, <1>2, StoreTables, TablesAreTyped
    DEF MarkInvestigatingForClaim, CanMarkInvestigating

LEMMA SaveCardEffect ==
    ASSUME StoreTypeOK, NEW c \in Claim, NEW m \in MessageIds, SetFeishuMessageIDForClaim(c, m)
    PROVE  /\ StoreTypeOK'
           /\ CheckActiveClaim(c)
           /\ CardBecomes(c.incident, m)
           /\ UNCHANGED <<jobs, snapshots>>
  BY ActiveClaim, SetCardEffect DEF SetFeishuMessageIDForClaim, CanSetCardForClaim

LEMMA AdoptCardEffect ==
    ASSUME StoreTypeOK, NEW i \in IncidentIds, NEW m \in MessageIds, SetFeishuMessageID(i, m)
    PROVE  /\ StoreTypeOK'
           /\ CardBecomes(i, m)
           /\ UNCHANGED <<jobs, snapshots>>
  BY StoreTables, SetCardEffect DEF SetFeishuMessageID, IncidentTable

LEMMA CompleteEffect ==
    ASSUME StoreTypeOK, NEW c \in Claim, CompleteJobAndIncident(c)
    PROVE  /\ StoreTypeOK'
           /\ CheckActiveClaim(c)
           /\ StateBecomes(c.incident, "COMPLETED")
           /\ EndsJobsOf(c.incident)
           /\ AddSnapshot(c.incident)
  <1>1. CheckActiveClaim(c) /\ AddSnapshot(c.incident)
    BY DEF CompleteJobAndIncident
  <1>2. incidents' \in IncidentTable /\ StateBecomes(c.incident, "COMPLETED")
    BY <1>1, ActiveClaim, StoreTables, SetStateEffect DEF CompleteJobAndIncident, TerminalStates
  <1>3. jobs' \in JobTable /\ EndsJobsOf(c.incident)
    BY <1>1, ActiveClaim, FinishEffect DEF CompleteJobAndIncident, ClosedStatuses
  <1>4. snapshots' \in [IncidentIds -> Nat]
    BY <1>1, ActiveClaim, StoreTables, AddSnapshotType
  <1> QED
    BY <1>1, <1>2, <1>3, <1>4, TablesAreTyped

LEMMA FailEffect ==
    ASSUME StoreTypeOK, NEW c \in Claim, FailJob(c)
    PROVE  /\ StoreTypeOK'
           /\ CheckActiveClaim(c)
           /\ StateBecomes(c.incident, "FAILED")
           /\ EndsJobsOf(c.incident)
           /\ UNCHANGED snapshots
  <1>1. CheckActiveClaim(c) /\ UNCHANGED snapshots
    BY DEF FailJob
  <1>2. incidents' \in IncidentTable /\ StateBecomes(c.incident, "FAILED")
    BY <1>1, ActiveClaim, StoreTables, SetStateEffect DEF FailJob, TerminalStates
  <1>3. jobs' \in JobTable /\ EndsJobsOf(c.incident)
    BY <1>1, ActiveClaim, FinishEffect DEF FailJob, ClosedStatuses
  <1> QED
    BY <1>1, <1>2, <1>3, StoreTables, TablesAreTyped

LEMMA AuditRetryEffect ==
    ASSUME StoreTypeOK, NEW c \in Claim, NEW j \in JobIds, NEW at \in Nat,
           CompleteJobAndScheduleAuditRetry(c, j, at)
    PROVE  /\ StoreTypeOK'
           /\ CheckActiveClaim(c)
           /\ StateBecomes(c.incident, "AWAITING_AUDIT_EVENT")
           /\ jobs[j] = AbsentJob
           /\ jobs'[j] \in Job
           /\ jobs'[j].status = "QUEUED"
           /\ jobs'[j].incident = c.incident
           /\ jobs'[j].runAfter = at
           /\ Ended(c.job)
           /\ OthersUntouched({j, c.job})
           /\ UNCHANGED snapshots
  <1>1. CheckActiveClaim(c) /\ jobs[j] = AbsentJob /\ UNCHANGED snapshots
    BY DEF CompleteJobAndScheduleAuditRetry
  <1>2. incidents' \in IncidentTable /\ StateBecomes(c.incident, "AWAITING_AUDIT_EVENT")
    BY <1>1, ActiveClaim, StoreTables, SetStateEffect
    DEF CompleteJobAndScheduleAuditRetry, ActiveStates
  <1> DEFINE done == Released(jobs[c.job], "COMPLETED")
             row == NewJob(c.incident, at)
  <1>3. done \in Job /\ done.status = "COMPLETED" /\ done.incident = jobs[c.job].incident
    BY <1>1, ActiveClaim, ReleasedJob DEF ClosedStatuses
  <1>4. row \in Job /\ row.status = "QUEUED" /\ row.incident = c.incident /\ row.runAfter = at
    BY <1>1, ActiveClaim, NewJobType
  <1>5. jobs' = [jobs EXCEPT ![c.job] = done, ![j] = row]
    BY DEF CompleteJobAndScheduleAuditRetry
  <1>6. c.job \in JobIds /\ c.job # j /\ jobs \in JobTable /\ jobs[c.job].status = "RUNNING"
    BY <1>1, ActiveClaim, StoreTables DEF AbsentJob
  <1> HIDE DEF done, row
  <1>7. /\ jobs' \in JobTable
        /\ jobs'[j] = row
        /\ jobs'[c.job] = done
        /\ \A o \in JobIds \ {j, c.job} : jobs'[o] = jobs[o]
    BY <1>3, <1>4, <1>5, <1>6 DEF JobTable
  <1>8. Ended(c.job)
    BY <1>3, <1>6, <1>7 DEF Ended, OpenStatuses, ClosedStatuses
  <1> QED
    BY <1>1, <1>2, <1>4, <1>7, <1>8, StoreTables, TablesAreTyped DEF OthersUntouched, Untouched

LEMMA RetryEffect ==
    ASSUME StoreTypeOK, NEW c \in Claim, NEW at \in Nat, RetryJob(c, at)
    PROVE  /\ StoreTypeOK'
           /\ CheckActiveClaim(c)
           /\ jobs'[c.job] \in Job
           /\ jobs'[c.job].status = "QUEUED"
           /\ jobs'[c.job].incident = c.incident
           /\ jobs'[c.job].runAfter > at
           /\ jobs'[c.job].runAfter <= at + RetryCap
           /\ OthersUntouched({c.job})
           /\ UNCHANGED <<incidents, snapshots>>
  <1> DEFINE later == at + RetryDelay(c.attempt)
             row == [Released(jobs[c.job], "QUEUED") EXCEPT !.runAfter = later]
  <1>1. CheckActiveClaim(c) /\ UNCHANGED <<incidents, snapshots>>
    BY DEF RetryJob
  <1>2. later \in Nat /\ later > at /\ later <= at + RetryCap
    BY <1>1, ActiveClaim, RetryDelayIsABackOff, StoreAssumption
  <1>3. jobs' = [jobs EXCEPT ![c.job] = row]
    BY DEF RetryJob
  <1>4. /\ Released(jobs[c.job], "QUEUED") \in Job
        /\ Released(jobs[c.job], "QUEUED").status = "QUEUED"
        /\ Released(jobs[c.job], "QUEUED").incident = c.incident
    BY <1>1, ActiveClaim, ReleasedJob DEF OpenStatuses
  <1> HIDE DEF later
  <1>5. /\ row \in Job
        /\ row.status = "QUEUED"
        /\ row.incident = c.incident
        /\ row.runAfter = later
    BY <1>2, <1>4 DEF Job
  <1> HIDE DEF row
  <1>6. /\ jobs' \in JobTable
        /\ jobs'[c.job] = row
        /\ \A o \in JobIds \ {c.job} : jobs'[o] = jobs[o]
    BY <1>1, <1>3, <1>5, ActiveClaim, StoreTables DEF JobTable
  <1> QED
    BY <1>1, <1>2, <1>5, <1>6, StoreTables, TablesAreTyped DEF OthersUntouched, Untouched

=============================================================================
