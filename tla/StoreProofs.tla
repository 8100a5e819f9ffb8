---------------------------- MODULE StoreProofs ----------------------------
(***************************************************************************)
(* Proofs about the repository under arbitrary callers, for every number   *)
(* of keys, incidents, jobs and workers, every lease and every back-off.   *)
(* The lemma StepMoves says how one step can change one row; every safety  *)
(* theorem follows from it without looking at the operations.              *)
(***************************************************************************)
EXTENDS StoreClients, StoreLemmas

\* The claims ever handed out, seen from the jobs they are on: what makes
\* FenceRejectsStaleClaims inductive.  A running job's lease is the latest of
\* its claims, and only its newest claim has that lease; a queued job can only
\* be claimed at a time that gives it a later lease than all its old claims.
ClaimIsBehindJob(c) ==
    /\ jobs[c.job] \in Job
    /\ jobs[c.job].incident = c.incident
    /\ jobs[c.job].status = "RUNNING" =>
          /\ c.leaseUntil <= jobs[c.job].leaseUntil
          /\ c.leaseUntil = jobs[c.job].leaseUntil => c.attempt = jobs[c.job].attempt
    /\ jobs[c.job].status = "QUEUED" => c.leaseUntil < jobs[c.job].runAfter + Lease

ClaimInv == TypeOK /\ \A c \in claims : ClaimIsBehindJob(c)

-----------------------------------------------------------------------------
(* How one step can change one job, and one incident.                      *)

Requeued(j) ==
    /\ jobs[j].status = "RUNNING"
    /\ jobs'[j] \in Job
    /\ jobs'[j].status = "QUEUED"
    /\ jobs'[j].incident = jobs[j].incident
    /\ jobs[j].leaseUntil < jobs'[j].runAfter + Lease

JobMove(j) == Untouched(j) \/ Queued(j) \/ Requeued(j) \/ Ended(j)

NoRunningJobOf(i) == \A j \in JobIds : jobs[j].status = "RUNNING" => jobs[j].incident # i

Kept(i) == incidents'[i].state = incidents[i].state /\ snapshots'[i] = snapshots[i]

Received(i) ==
    /\ incidents[i] = AbsentIncident
    /\ incidents'[i].state = "RECEIVED"
    /\ snapshots'[i] = snapshots[i]

Advanced(i) ==
    /\ Active(i)
    /\ incidents'[i].state \in ActiveStates
    /\ snapshots'[i] = snapshots[i]

Closed(i) ==
    /\ NoRunningJobOf(i)'
    /\ incidents[i] \in Incident
    /\ \/ Active(i) /\ incidents'[i].state = "COMPLETED" /\ snapshots'[i] = snapshots[i] + 1
       \/ Active(i) /\ incidents'[i].state = "FAILED" /\ snapshots'[i] = snapshots[i]
       \/ incidents'[i].state = "RECOVERED" /\ snapshots'[i] = snapshots[i]

IncidentMove(i) == Kept(i) \/ Received(i) \/ Advanced(i) \/ Closed(i)

RowsMove ==
    /\ \A j \in JobIds : JobMove(j)
    /\ \A i \in IncidentIds : IncidentMove(i)

\* A transaction that closes an incident ends its open jobs, leaves the others
\* alone, and no job of the incident goes on running.
LEMMA EndingMoves ==
    ASSUME NEW i \in IncidentIds, EndsJobsOf(i)
    PROVE  (\A j \in JobIds : JobMove(j)) /\ NoRunningJobOf(i)'
  BY DEF EndsJobsOf, JobMove, NoRunningJobOf, OpenStatuses

LEMMA OneJobMoves ==
    ASSUME NEW j \in JobIds, JobMove(j), OthersUntouched({j})
    PROVE  \A o \in JobIds : JobMove(o)
  BY DEF OthersUntouched, JobMove

\* A step that leaves a table alone keeps every row of it.
LEMMA NoJobMoves ==
    ASSUME UNCHANGED jobs
    PROVE  \A j \in JobIds : JobMove(j)
  BY DEF JobMove, Untouched

LEMMA KeptAll ==
    ASSUME UNCHANGED <<incidents, snapshots>>
    PROVE  \A i \in IncidentIds : IncidentMove(i)
  BY DEF IncidentMove, Kept

LEMMA AddSnapshotEffect ==
    ASSUME snapshots \in [IncidentIds -> Nat], NEW i \in IncidentIds, AddSnapshot(i)
    PROVE  /\ snapshots'[i] = snapshots[i] + 1
           /\ \A o \in IncidentIds : o # i => snapshots'[o] = snapshots[o]
  BY DEF AddSnapshot

\* A change of state moves one incident and keeps the others.
LEMMA StateMoves ==
    ASSUME StoreTypeOK, NEW i \in IncidentIds, NEW s, StateBecomes(i, s),
           \/ Active(i) /\ s \in ActiveStates /\ UNCHANGED snapshots
           \/ Active(i) /\ s = "COMPLETED" /\ AddSnapshot(i) /\ NoRunningJobOf(i)'
           \/ Active(i) /\ s = "FAILED" /\ UNCHANGED snapshots /\ NoRunningJobOf(i)'
           \/ s = "RECOVERED" /\ UNCHANGED snapshots /\ NoRunningJobOf(i)'
    PROVE  \A o \in IncidentIds : IncidentMove(o)
  <1>1. /\ incidents[i] \in Incident
        /\ incidents'[i].state = s
        /\ \A o \in IncidentIds : o # i => incidents'[o] = incidents[o]
    BY DEF StateBecomes
  <1>2. \A o \in IncidentIds : o # i => snapshots'[o] = snapshots[o]
    BY StoreTables, AddSnapshotEffect
  <1>3. IncidentMove(i)
    <2>1. AddSnapshot(i) => snapshots'[i] = snapshots[i] + 1
      BY StoreTables, AddSnapshotEffect
    <2> QED
      BY <1>1, <2>1 DEF IncidentMove, Advanced, Closed
  <1> QED
    BY <1>1, <1>2, <1>3 DEF IncidentMove, Kept

\* Giving a row its card leaves its state.
LEMMA CardMoves ==
    ASSUME NEW i \in IncidentIds, NEW m, CardBecomes(i, m), UNCHANGED snapshots
    PROVE  \A o \in IncidentIds : IncidentMove(o)
  BY DEF CardBecomes, IncidentMove, Kept

-----------------------------------------------------------------------------
(* Every operation keeps the types and makes such moves only.              *)

LEMMA IngressMoves ==
    ASSUME TypeOK, Ingress
    PROVE  StoreTypeOK' /\ RowsMove
  <1>0. StoreTypeOK /\ EventTimes \subseteq Nat
    BY ClientsAssumption DEF TypeOK
  <1>1. ASSUME NEW i \in IncidentIds, NEW k \in Keys, NEW at \in EventTimes,
               InsertIncident(i, k, at)
        PROVE  StoreTypeOK' /\ RowsMove
    <2>1. at \in Nat
      BY <1>0
    <2>2. /\ StoreTypeOK'
          /\ incidents[i] = AbsentIncident
          /\ incidents'[i].state = "RECEIVED"
          /\ \A o \in IncidentIds \ {i} : incidents'[o] = incidents[o]
          /\ UNCHANGED <<jobs, snapshots>>
      BY <1>0, <1>1, <2>1, InsertEffect
    <2>3. \A o \in IncidentIds : IncidentMove(o)
      BY <2>2 DEF IncidentMove, Kept, Received
    <2> QED
      BY <2>2, <2>3, NoJobMoves DEF RowsMove
  <1>2. ASSUME NEW j \in JobIds, NEW i \in IncidentIds, NEW at \in EventTimes,
               Enqueue(j, i, at)
        PROVE  StoreTypeOK' /\ RowsMove
    <2>1. at \in Nat
      BY <1>0
    <2>2. /\ StoreTypeOK'
          /\ jobs[j] = AbsentJob
          /\ jobs'[j].status = "QUEUED"
          /\ OthersUntouched({j})
          /\ UNCHANGED <<incidents, snapshots>>
      BY <1>0, <1>2, <2>1, EnqueueEffect
    <2>3. \A o \in JobIds : JobMove(o)
      BY <2>2, OneJobMoves DEF JobMove, Queued
    <2> QED
      BY <2>2, <2>3, KeptAll DEF RowsMove
  <1>3. ASSUME NEW k \in Keys, NEW at \in EventTimes, NEW i \in IncidentIds,
               Recover(k, at, i)
        PROVE  StoreTypeOK' /\ RowsMove
    <2>1. /\ StoreTypeOK'
          /\ StateBecomes(i, "RECOVERED")
          /\ EndsJobsOf(i)
          /\ UNCHANGED snapshots
      BY <1>0, <1>3, RecoverEffect
    <2> QED
      BY <1>0, <2>1, EndingMoves, StateMoves DEF RowsMove
  <1> QED
    BY <1>1, <1>2, <1>3 DEF Ingress

LEMMA UseClaimMoves ==
    ASSUME TypeOK, NEW c \in claims, UseClaim(c)
    PROVE  StoreTypeOK' /\ RowsMove
  <1>0. StoreTypeOK /\ c \in Claim /\ now \in Nat
    BY DEF TypeOK
  <1>1. CASE MarkInvestigatingForClaim(c)
    <2>1. /\ StoreTypeOK'
          /\ CheckActiveClaim(c)
          /\ StateBecomes(c.incident, "INVESTIGATING")
          /\ UNCHANGED <<jobs, snapshots>>
      BY <1>0, <1>1, MarkEffect
    <2>2. \A o \in IncidentIds : IncidentMove(o)
      BY <1>0, <2>1, ActiveClaim, StateMoves DEF ActiveStates
    <2> QED
      BY <2>1, <2>2, NoJobMoves DEF RowsMove
  <1>2. ASSUME NEW m \in MessageIds, SetFeishuMessageIDForClaim(c, m)
        PROVE  StoreTypeOK' /\ RowsMove
    <2>1. /\ StoreTypeOK'
          /\ CheckActiveClaim(c)
          /\ CardBecomes(c.incident, m)
          /\ UNCHANGED <<jobs, snapshots>>
      BY <1>0, <1>2, SaveCardEffect
    <2>2. \A o \in IncidentIds : IncidentMove(o)
      BY <1>0, <2>1, ActiveClaim, CardMoves
    <2> QED
      BY <2>1, <2>2, NoJobMoves DEF RowsMove
  <1>3. CASE CompleteJob(c)
    <2>1. CheckActiveClaim(c) /\ UNCHANGED <<incidents, snapshots>>
      BY <1>3 DEF CompleteJob
    <2>2. /\ jobs[c.job] \in Job
          /\ jobs[c.job].status = "RUNNING"
          /\ c.job \in JobIds
      BY <1>0, <2>1, ActiveClaim
    <2>3. /\ jobs' \in JobTable
          /\ jobs'[c.job] = Released(jobs[c.job], "COMPLETED")
          /\ OthersUntouched({c.job})
      BY <1>0, <1>3, <2>2, StoreTables, ReleaseType
      DEF CompleteJob, ClosedStatuses, OthersUntouched, Untouched
    <2>4. JobMove(c.job)
      BY <2>2, <2>3, ReleasedJob DEF JobMove, Ended, OpenStatuses, ClosedStatuses
    <2>5. StoreTypeOK'
      BY <1>0, <2>1, <2>3, StoreTables, TablesAreTyped
    <2> QED
      BY <2>1, <2>2, <2>3, <2>4, <2>5, OneJobMoves, KeptAll DEF RowsMove
  <1>4. CASE CompleteJobAndIncident(c)
    <2>1. /\ StoreTypeOK'
          /\ CheckActiveClaim(c)
          /\ StateBecomes(c.incident, "COMPLETED")
          /\ EndsJobsOf(c.incident)
          /\ AddSnapshot(c.incident)
      BY <1>0, <1>4, CompleteEffect
    <2>2. c.incident \in IncidentIds /\ Active(c.incident)
      BY <1>0, <2>1, ActiveClaim
    <2> QED
      BY <1>0, <2>1, <2>2, EndingMoves, StateMoves DEF RowsMove
  <1>5. ASSUME NEW j \in JobIds, NEW at \in AuditTimes, CompleteJobAndScheduleAuditRetry(c, j, at)
        PROVE  StoreTypeOK' /\ RowsMove
    <2>1. at \in Nat
      BY <1>0, ClientsAssumption DEF AuditTimes
    <2>2. /\ StoreTypeOK'
          /\ CheckActiveClaim(c)
          /\ StateBecomes(c.incident, "AWAITING_AUDIT_EVENT")
          /\ jobs[j] = AbsentJob
          /\ jobs'[j].status = "QUEUED"
          /\ Ended(c.job)
          /\ OthersUntouched({j, c.job})
          /\ UNCHANGED snapshots
      BY <1>0, <1>5, <2>1, AuditRetryEffect
    <2>3. \A o \in JobIds : JobMove(o)
      BY <2>2 DEF OthersUntouched, JobMove, Queued
    <2>4. \A o \in IncidentIds : IncidentMove(o)
      BY <1>0, <2>2, ActiveClaim, StateMoves DEF ActiveStates
    <2> QED
      BY <2>2, <2>3, <2>4 DEF RowsMove
  <1>6. ASSUME NEW at \in RetryTimes(c), RetryJob(c, at)
        PROVE  StoreTypeOK' /\ RowsMove
    <2>1. at \in Nat /\ c.leaseUntil <= at + Lease /\ Lease \in Nat
      BY <1>0, StoreAssumption DEF RetryTimes
    <2>2. /\ StoreTypeOK'
          /\ CheckActiveClaim(c)
          /\ jobs'[c.job] \in Job
          /\ jobs'[c.job].status = "QUEUED"
          /\ jobs'[c.job].incident = c.incident
          /\ jobs'[c.job].runAfter > at
          /\ OthersUntouched({c.job})
          /\ UNCHANGED <<incidents, snapshots>>
      BY <1>0, <1>6, <2>1, RetryEffect
    <2>3. /\ c.job \in JobIds
          /\ c.leaseUntil \in Nat
          /\ jobs[c.job].status = "RUNNING"
          /\ jobs[c.job].incident = c.incident
          /\ jobs[c.job].leaseUntil = c.leaseUntil
          /\ jobs'[c.job].runAfter \in Nat
      BY <1>0, <2>2, ActiveClaim DEF Job
    <2>4. jobs[c.job].leaseUntil < jobs'[c.job].runAfter + Lease
      BY <2>1, <2>2, <2>3
    <2>5. JobMove(c.job)
      BY <2>2, <2>3, <2>4 DEF JobMove, Requeued
    <2> QED
      BY <2>2, <2>3, <2>5, OneJobMoves, KeptAll DEF RowsMove
  <1>7. CASE FailJob(c)
    <2>1. /\ StoreTypeOK'
          /\ CheckActiveClaim(c)
          /\ StateBecomes(c.incident, "FAILED")
          /\ EndsJobsOf(c.incident)
          /\ UNCHANGED snapshots
      BY <1>0, <1>7, FailEffect
    <2>2. c.incident \in IncidentIds /\ Active(c.incident)
      BY <1>0, <2>1, ActiveClaim
    <2> QED
      BY <1>0, <2>1, <2>2, EndingMoves, StateMoves DEF RowsMove
  <1> QED
    BY <1>1, <1>2, <1>3, <1>4, <1>5, <1>6, <1>7 DEF UseClaim, RetryOrFailJob

LEMMA UseIncidentMoves ==
    ASSUME TypeOK, NEW i \in IncidentIds, UseIncident(i)
    PROVE  StoreTypeOK' /\ RowsMove
  <1>0. StoreTypeOK /\ incidents[i] \in Incident /\ now \in Nat
    BY DEF TypeOK, StoreTypeOK, UseIncident, Exists
  <1>1. ASSUME NEW m \in MessageIds, SetFeishuMessageID(i, m)
        PROVE  StoreTypeOK' /\ RowsMove
    <2>1. StoreTypeOK' /\ CardBecomes(i, m) /\ UNCHANGED <<jobs, snapshots>>
      BY <1>0, <1>1, AdoptCardEffect
    <2> QED
      BY <2>1, NoJobMoves, CardMoves DEF RowsMove
  <1>2. CASE Complete(i)
    <2>1. incidents' \in IncidentTable /\ StateBecomes(i, "COMPLETED")
      BY <1>0, <1>2, StoreTables, SetStateEffect DEF Complete, TerminalStates
    <2>2. jobs' \in JobTable /\ EndsJobsOf(i)
      BY <1>0, <1>2, StoreTables, CancelEffect DEF Complete
    <2>3. Active(i) /\ AddSnapshot(i) /\ snapshots' \in [IncidentIds -> Nat]
      BY <1>0, <1>2, StoreTables, AddSnapshotType DEF Complete
    <2> QED
      BY <1>0, <2>1, <2>2, <2>3, TablesAreTyped, EndingMoves, StateMoves DEF RowsMove
  <1>3. CASE Fail(i)
    <2>1. incidents' \in IncidentTable /\ StateBecomes(i, "FAILED")
      BY <1>0, <1>3, StoreTables, SetStateEffect DEF Fail, TerminalStates
    <2>2. jobs' \in JobTable /\ EndsJobsOf(i)
      BY <1>0, <1>3, StoreTables, CancelEffect DEF Fail
    <2>3. Active(i) /\ UNCHANGED snapshots
      BY <1>3 DEF Fail
    <2> QED
      BY <1>0, <2>1, <2>2, <2>3, StoreTables, TablesAreTyped, EndingMoves, StateMoves
      DEF RowsMove
  <1>4. ASSUME NEW j \in JobIds, NEW at \in AuditTimes, ScheduleAuditRetry(i, j, at)
        PROVE  StoreTypeOK' /\ RowsMove
    <2>1. incidents' \in IncidentTable /\ StateBecomes(i, "AWAITING_AUDIT_EVENT")
      BY <1>0, <1>4, StoreTables, SetStateEffect DEF ScheduleAuditRetry, ActiveStates
    <2>2. NewJob(i, at) \in Job
      BY <1>0, NewJobType, ClientsAssumption DEF AuditTimes
    <2>3. /\ jobs' \in JobTable
          /\ jobs[j] = AbsentJob
          /\ jobs'[j].status = "QUEUED"
          /\ OthersUntouched({j})
      BY <1>0, <1>4, <2>2, StoreTables
      DEF ScheduleAuditRetry, JobTable, NewJob, OthersUntouched, Untouched
    <2>4. \A o \in JobIds : JobMove(o)
      BY <2>3, OneJobMoves DEF JobMove, Queued
    <2>5. \A o \in IncidentIds : IncidentMove(o)
      BY <1>0, <1>4, <2>1, StateMoves DEF ScheduleAuditRetry, ActiveStates
    <2> QED
      BY <1>0, <1>4, <2>1, <2>3, <2>4, <2>5, StoreTables, TablesAreTyped
      DEF ScheduleAuditRetry, RowsMove
  <1>5. CASE CancelJobsForIncident(i)
    <2>1. jobs' \in JobTable /\ EndsJobsOf(i) /\ UNCHANGED <<incidents, snapshots>>
      BY <1>0, <1>5, StoreTables, CancelEffect DEF CancelJobsForIncident
    <2> QED
      BY <1>0, <2>1, StoreTables, TablesAreTyped, EndingMoves, KeptAll DEF RowsMove
  <1> QED
    BY <1>1, <1>2, <1>3, <1>4, <1>5 DEF UseIncident

\* A claim, as ClaimEffect says.
LEMMA TakeEffect ==
    ASSUME TypeOK, NEW w \in WorkerIds, NEW t \in 0..now, NEW j \in JobIds, Take(w, t, j)
    PROVE  /\ StoreTypeOK'
           /\ jobs[j] \in Job
           /\ Active(jobs[j].incident)
           /\ \/ jobs[j].status = "QUEUED" /\ jobs[j].runAfter <= t
              \/ jobs[j].status = "RUNNING" /\ jobs[j].leaseUntil <= t
           /\ jobs'[j] \in Job
           /\ jobs'[j].status = "RUNNING"
           /\ jobs'[j].incident = jobs[j].incident
           /\ jobs'[j].worker = w
           /\ jobs'[j].attempt = jobs[j].attempt + 1
           /\ jobs'[j].leaseUntil = t + Lease
           /\ \A o \in JobIds \ {j} : jobs'[o] = jobs[o]
           /\ ClaimFor(w, t, j) \in Claim
  BY ClaimEffect DEF TypeOK, Take, OthersUntouched, Untouched

\* A step is a claim, or leaves the claims alone and makes such moves only.
LEMMA StepMoves ==
    ASSUME TypeOK, [Next]_vars
    PROVE  \/ \E w \in WorkerIds, t \in 0..now, j \in JobIds : Take(w, t, j)
           \/ claims' = claims /\ StoreTypeOK' /\ RowsMove
  <1>1. CASE Tick \/ UNCHANGED vars
    BY <1>1, KeptAll, NoJobMoves DEF Tick, vars, TypeOK, StoreTypeOK, RowsMove
  <1>2. CASE Ingress /\ UNCHANGED <<now, claims>>
    BY <1>2, IngressMoves
  <1>3. CASE (\E c \in claims : UseClaim(c)) /\ UNCHANGED <<now, claims>>
    BY <1>3, UseClaimMoves
  <1>4. CASE (\E i \in IncidentIds : UseIncident(i)) /\ UNCHANGED <<now, claims>>
    BY <1>4, UseIncidentMoves
  <1> QED
    BY <1>1, <1>2, <1>3, <1>4 DEF Next

-----------------------------------------------------------------------------
(* Type correctness.                                                       *)

\* The tables hold rows of the declared columns, and every claim ever handed
\* out is a well-formed copy of a row, whatever the callers do.
THEOREM TypeCorrect == Spec => []TypeOK
  <1>1. Init => TypeOK
    BY DEF Init, StoreInit, TypeOK, StoreTypeOK
  <1>2. TypeOK /\ [Next]_vars => TypeOK'
    <2> SUFFICES ASSUME TypeOK, [Next]_vars
                 PROVE  TypeOK'
      OBVIOUS
    <2>1. now' \in Nat
      BY DEF Next, Tick, Take, vars, TypeOK
    <2>2. ASSUME NEW w \in WorkerIds, NEW t \in 0..now, NEW j \in JobIds, Take(w, t, j)
          PROVE  TypeOK'
      BY <2>2, TakeEffect DEF Take, TypeOK
    <2>3. CASE claims' = claims /\ StoreTypeOK'
      BY <2>1, <2>3 DEF TypeOK
    <2> QED
      BY <2>2, <2>3, StepMoves
  <1> QED
    BY <1>1, <1>2, PTL DEF Spec

-----------------------------------------------------------------------------
(* The fence.                                                              *)

LEMMA ClaimInvInit == Init => ClaimInv
  BY DEF Init, StoreInit, ClaimInv, TypeOK, StoreTypeOK

\* No move but a claim lets a claim catch up with its job.
LEMMA MoveKeepsClaimBehind ==
    ASSUME TypeOK, NEW c \in claims, ClaimIsBehindJob(c), JobMove(c.job)
    PROVE  ClaimIsBehindJob(c)'
  <1>1. c \in Claim /\ c.leaseUntil \in Nat
    BY DEF TypeOK, Claim
  <1>2. CASE Untouched(c.job)
    BY <1>2 DEF Untouched, ClaimIsBehindJob
  <1>3. CASE Queued(c.job)
    BY <1>3 DEF Queued, ClaimIsBehindJob, Job, AbsentJob
  <1>4. CASE Requeued(c.job)
    <2>1. jobs[c.job].leaseUntil \in Nat /\ jobs'[c.job].runAfter \in Nat /\ Lease \in Nat
      BY <1>4, StoreAssumption DEF Requeued, ClaimIsBehindJob, Job
    <2> QED
      BY <1>1, <1>4, <2>1 DEF Requeued, ClaimIsBehindJob
  <1>5. CASE Ended(c.job)
    BY <1>5 DEF Ended, ClaimIsBehindJob, ClosedStatuses
  <1> QED
    BY <1>2, <1>3, <1>4, <1>5 DEF JobMove

\* A claim of the job leaves all its earlier claims behind.
LEMMA TakeKeepsClaimsBehind ==
    ASSUME ClaimInv, NEW w \in WorkerIds, NEW t \in 0..now, NEW j \in JobIds, Take(w, t, j)
    PROVE  \A c \in claims' : ClaimIsBehindJob(c)'
  <1>0. TypeOK /\ StoreTypeOK' /\ t \in Nat /\ Lease \in Nat
    BY StoreAssumption, TakeEffect DEF ClaimInv, TypeOK
  <1>1. /\ jobs[j] \in Job
        /\ \/ jobs[j].status = "QUEUED" /\ jobs[j].runAfter <= t
           \/ jobs[j].status = "RUNNING" /\ jobs[j].leaseUntil <= t
        /\ jobs'[j].status = "RUNNING"
        /\ jobs'[j].incident = jobs[j].incident
        /\ jobs'[j].attempt = jobs[j].attempt + 1
        /\ jobs'[j].leaseUntil = t + Lease
        /\ \A o \in JobIds \ {j} : jobs'[o] = jobs[o]
        /\ ClaimFor(w, t, j) \in Claim
    BY <1>0, TakeEffect
  <1>2. jobs'[j] \in Job
    BY <1>0, <1>1, StatusMakesJob DEF StoreTypeOK, JobTable, OpenStatuses
  <1>3. ASSUME NEW c \in claims
        PROVE  ClaimIsBehindJob(c)'
    <2>1. c \in Claim /\ c.job \in JobIds /\ c.leaseUntil \in Nat /\ ClaimIsBehindJob(c)
      BY DEF ClaimInv, TypeOK, Claim
    <2>2. CASE c.job # j
      BY <1>1, <2>1, <2>2 DEF ClaimIsBehindJob
    <2>3. CASE c.job = j
      <3>1. jobs[j].leaseUntil \in Nat /\ jobs[j].runAfter \in Nat /\ Lease > 0
        BY <1>1, StoreAssumption DEF Job
      <3>2. c.leaseUntil < t + Lease
        BY <1>0, <1>1, <2>1, <2>3, <3>1 DEF ClaimIsBehindJob
      <3> QED
        BY <1>0, <1>1, <1>2, <2>1, <2>3, <3>2 DEF ClaimIsBehindJob
    <2> QED
      BY <2>2, <2>3
  <1>4. ASSUME NEW c, c = ClaimFor(w, t, j)
        PROVE  ClaimIsBehindJob(c)'
    <2>1. /\ c.job = j
          /\ c.incident = jobs[j].incident
          /\ c.attempt = jobs[j].attempt + 1
          /\ c.leaseUntil = t + Lease
      BY <1>4 DEF ClaimFor
    <2> QED
      BY <1>0, <1>1, <1>2, <2>1 DEF ClaimIsBehindJob
  <1>5. claims' = claims \cup {ClaimFor(w, t, j)}
    BY DEF Take
  <1> QED
    BY <1>3, <1>4, <1>5

LEMMA ClaimInvStep == ClaimInv /\ [Next]_vars /\ TypeOK' => ClaimInv'
  <1> SUFFICES ASSUME ClaimInv, [Next]_vars, TypeOK'
               PROVE  \A c \in claims' : ClaimIsBehindJob(c)'
    BY DEF ClaimInv
  <1>1. CASE \E w \in WorkerIds, t \in 0..now, j \in JobIds : Take(w, t, j)
    BY <1>1, TakeKeepsClaimsBehind
  <1>2. CASE claims' = claims /\ RowsMove
    <2> SUFFICES ASSUME NEW c \in claims
                 PROVE  ClaimIsBehindJob(c)'
      BY <1>2
    <2>1. c.job \in JobIds
      BY DEF ClaimInv, TypeOK, Claim
    <2> QED
      BY <1>2, <2>1, MoveKeepsClaimBehind DEF ClaimInv, RowsMove
  <1> QED
    BY <1>1, <1>2, StepMoves DEF ClaimInv

\* A claim passes the fence of the *ForClaim statements only while it is the
\* newest claim of its job: sqlite.go compares neither the attempt nor the
\* clock, and needs neither, however many workers share a worker_id.
THEOREM FenceIsSound == Spec => []FenceRejectsStaleClaims
  <1>1. ClaimInv => FenceRejectsStaleClaims
    BY DEF ClaimInv, ClaimIsBehindJob, FenceRejectsStaleClaims, HoldsClaim
  <1>2. Spec => []TypeOK
    BY TypeCorrect
  <1> QED
    BY <1>1, <1>2, ClaimInvInit, ClaimInvStep, PTL DEF Spec

-----------------------------------------------------------------------------
(* Jobs.                                                                   *)

\* A running job is handed to another worker only when its lease has run out,
\* and then with a later lease (the WHERE clause of ClaimNext).
THEOREM LeasesAreExclusive == Spec => LeaseIsExclusive
  <1>1. TypeOK /\ [Next]_vars =>
          [\A j \in JobIds :
             (/\ jobs[j].status = "RUNNING"
              /\ jobs'[j].status = "RUNNING"
              /\ jobs'[j] # jobs[j]) => /\ jobs[j].leaseUntil <= now
                                        /\ jobs[j].leaseUntil < jobs'[j].leaseUntil]_vars
    <2> SUFFICES ASSUME TypeOK, [Next]_vars,
                        NEW o \in JobIds, jobs[o].status = "RUNNING",
                        jobs'[o].status = "RUNNING", jobs'[o] # jobs[o]
                 PROVE  jobs[o].leaseUntil <= now /\ jobs[o].leaseUntil < jobs'[o].leaseUntil
      OBVIOUS
    <2>1. ASSUME NEW w \in WorkerIds, NEW t \in 0..now, NEW j \in JobIds, Take(w, t, j)
          PROVE  jobs[o].leaseUntil <= now /\ jobs[o].leaseUntil < jobs'[o].leaseUntil
      <3>1. /\ jobs[j] \in Job
            /\ \/ jobs[j].status = "QUEUED"
               \/ jobs[j].status = "RUNNING" /\ jobs[j].leaseUntil <= t
            /\ jobs'[j].leaseUntil = t + Lease
            /\ \A p \in JobIds \ {j} : jobs'[p] = jobs[p]
        BY <2>1, TakeEffect
      <3>2. o = j
        BY <3>1
      <3>3. /\ jobs[o].leaseUntil \in Nat /\ t \in Nat /\ now \in Nat /\ t <= now
            /\ Lease \in Nat /\ Lease > 0
        BY <3>1, <3>2, StoreAssumption DEF TypeOK, Job
      <3> QED
        BY <3>1, <3>2, <3>3
    <2>2. CASE RowsMove
      BY <2>2 DEF RowsMove, JobMove, Untouched, Queued, Requeued, Ended, AbsentJob, ClosedStatuses
    <2> QED
      BY <2>1, <2>2, StepMoves
  <1>2. Spec => []TypeOK
    BY TypeCorrect
  <1> QED
    BY <1>1, <1>2, PTL DEF Spec, LeaseIsExclusive

\* A job that is COMPLETED, CANCELLED or FAILED keeps its row for good.
THEOREM ClosedJobsStayClosed == Spec => ClosedJobStaysClosed
  <1>1. TypeOK /\ [Next]_vars =>
          [\A j \in JobIds : jobs[j].status \in ClosedStatuses => jobs'[j] = jobs[j]]_vars
    <2> SUFFICES ASSUME TypeOK, [Next]_vars,
                        NEW o \in JobIds, jobs[o].status \in ClosedStatuses
                 PROVE  jobs'[o] = jobs[o]
      OBVIOUS
    <2>1. ASSUME NEW w \in WorkerIds, NEW t \in 0..now, NEW j \in JobIds, Take(w, t, j)
          PROVE  jobs'[o] = jobs[o]
      <3>1. /\ jobs[j].status \in {"QUEUED", "RUNNING"}
            /\ \A p \in JobIds \ {j} : jobs'[p] = jobs[p]
        BY <2>1, TakeEffect
      <3> QED
        BY <3>1 DEF ClosedStatuses
    <2>2. CASE RowsMove
      BY <2>2 DEF RowsMove, JobMove, Untouched, Queued, Requeued, Ended, AbsentJob, OpenStatuses,
                  ClosedStatuses
    <2> QED
      BY <2>1, <2>2, StepMoves
  <1>2. Spec => []TypeOK
    BY TypeCorrect
  <1> QED
    BY <1>1, <1>2, PTL DEF Spec, ClosedJobStaysClosed

-----------------------------------------------------------------------------
(* Incidents.                                                              *)

LEMMA TakeKeepsIncidents ==
    ASSUME NEW w, NEW t, NEW j, Take(w, t, j)
    PROVE  \A i \in IncidentIds : IncidentMove(i)
  BY KeptAll DEF Take, ClaimNext

\* A step moves an incident only along the edges of its life cycle, and then
\* stores a snapshot exactly when it completes it.
LEMMA IncidentStep ==
    ASSUME TypeOK, [Next]_vars, NEW i \in IncidentIds
    PROVE  IncidentMove(i)
  BY StepMoves, TakeKeepsIncidents DEF RowsMove

LEMMA IncidentShape ==
    ASSUME TypeOK, NEW i \in IncidentIds
    PROVE  /\ snapshots[i] \in Nat
           /\ incidents[i].state \in ActiveStates \cup TerminalStates \cup {"ABSENT"}
           /\ incidents[i] = AbsentIncident <=> incidents[i].state = "ABSENT"
           /\ incidents[i] \in Incident => incidents[i].state # "ABSENT"
  BY DEF TypeOK, StoreTypeOK, Incident, AbsentIncident, ActiveStates, TerminalStates

\* COMPLETED and FAILED move to RECOVERED at most, RECOVERED never moves,
\* whichever worker writes late.
THEOREM ClosedIncidentsStayClosed == Spec => ClosedStaysClosed
  <1>1. TypeOK /\ [Next]_vars =>
          [\A i \in IncidentIds :
             /\ incidents[i].state = "RECOVERED" => incidents'[i].state = "RECOVERED"
             /\ incidents[i].state \in TerminalStates =>
                   incidents'[i].state \in {incidents[i].state, "RECOVERED"}]_vars
    <2> SUFFICES ASSUME TypeOK, [Next]_vars, NEW i \in IncidentIds,
                        incidents[i].state \in TerminalStates
                 PROVE  /\ incidents'[i].state \in {incidents[i].state, "RECOVERED"}
                        /\ incidents[i].state = "RECOVERED" => incidents'[i].state = "RECOVERED"
      BY DEF TerminalStates
    <2> QED
      BY IncidentStep
      DEF IncidentMove, Kept, Received, Advanced, Closed, Active, AbsentIncident,
          ActiveStates, TerminalStates
  <1>2. Spec => []TypeOK
    BY TypeCorrect
  <1> QED
    BY <1>1, <1>2, PTL DEF Spec, ClosedStaysClosed

\* The RCA result is stored once: with the step to COMPLETED and no other.
THEOREM SnapshotsMatchCompletions == Spec => []OneSnapshotPerCompletion
  <1>1. Init => OneSnapshotPerCompletion
    BY DEF Init, StoreInit, OneSnapshotPerCompletion, AbsentIncident
  <1>2. OneSnapshotPerCompletion /\ TypeOK /\ [Next]_vars => OneSnapshotPerCompletion'
    <2> SUFFICES ASSUME OneSnapshotPerCompletion, TypeOK, [Next]_vars, NEW i \in IncidentIds
                 PROVE  /\ snapshots'[i] <= 1
                        /\ incidents'[i].state = "COMPLETED" => snapshots'[i] = 1
                        /\ incidents'[i].state \in ActiveStates \cup {"FAILED", "ABSENT"}
                             => snapshots'[i] = 0
      BY DEF OneSnapshotPerCompletion
    <2>1. /\ snapshots[i] <= 1
          /\ incidents[i].state = "COMPLETED" => snapshots[i] = 1
          /\ incidents[i].state \in ActiveStates \cup {"FAILED", "ABSENT"} => snapshots[i] = 0
      BY DEF OneSnapshotPerCompletion
    <2>2. snapshots[i] \in Nat
      BY IncidentShape
    <2>3. CASE Kept(i)
      BY <2>1, <2>3 DEF Kept
    <2>4. CASE Received(i)
      BY <2>1, <2>4 DEF Received, AbsentIncident, ActiveStates
    <2>5. CASE Advanced(i)
      BY <2>1, <2>5 DEF Advanced, Active, ActiveStates
    <2>6. CASE Closed(i)
      BY <2>1, <2>2, <2>6 DEF Closed, Active, ActiveStates
    <2> QED
      BY <2>3, <2>4, <2>5, <2>6, IncidentStep DEF IncidentMove
  <1>3. Spec => []TypeOK
    BY TypeCorrect
  <1> QED
    BY <1>1, <1>2, <1>3, PTL DEF Spec

\* A running job's incident is active: what ends an incident ends its claims,
\* so no worker still holds one that passes the fence.
THEOREM NoWorkOnClosedIncidents == Spec => []ClosedIncidentHasNoRunningJob
  <1>1. Init => ClosedIncidentHasNoRunningJob
    BY DEF Init, StoreInit, ClosedIncidentHasNoRunningJob, AbsentJob
  <1>2. ClosedIncidentHasNoRunningJob /\ TypeOK /\ TypeOK' /\ [Next]_vars
          => ClosedIncidentHasNoRunningJob'
    <2> SUFFICES ASSUME ClosedIncidentHasNoRunningJob, TypeOK, TypeOK', [Next]_vars,
                        NEW j \in JobIds, jobs'[j].status = "RUNNING"
                 PROVE  incidents'[jobs'[j].incident].state \in ActiveStates
      BY DEF ClosedIncidentHasNoRunningJob
    <2>1. jobs'[j] \in Job /\ jobs'[j].incident \in IncidentIds
      BY DEF TypeOK, StoreTypeOK, Job, AbsentJob
    <2>2. incidents[jobs'[j].incident].state \in ActiveStates
      <3>1. CASE jobs'[j] = jobs[j]
        BY <3>1 DEF ClosedIncidentHasNoRunningJob
      <3>2. ASSUME NEW w \in WorkerIds, NEW t \in 0..now, NEW o \in JobIds, Take(w, t, o),
                   jobs'[j] # jobs[j]
            PROVE  incidents[jobs'[j].incident].state \in ActiveStates
        BY <3>2, TakeEffect DEF Active
      <3>3. CASE RowsMove
        BY <3>1, <3>3 DEF RowsMove, JobMove, Untouched, Queued, Requeued, Ended, ClosedStatuses
      <3> QED
        BY <3>1, <3>2, <3>3, StepMoves
    <2>3. PICK i \in IncidentIds : i = jobs'[j].incident
      BY <2>1
    <2>4. IncidentMove(i) /\ ~ Closed(i)
      BY <2>3, IncidentStep DEF Closed, NoRunningJobOf
    <2> QED
      BY <2>2, <2>3, <2>4 DEF IncidentMove, Kept, Received, Advanced, ActiveStates
  <1>3. Spec => []TypeOK
    BY TypeCorrect
  <1> QED
    BY <1>1, <1>2, <1>3, PTL DEF Spec

=============================================================================
