------------------------------- MODULE Worker -------------------------------
(***************************************************************************)
(* RunOne of internal/worker/worker.go, in every sre-worker process: claim *)
(* a job, create or find the card, collect evidence, run the model, close  *)
(* the job.  Each repository or Feishu call is a step of its own; between  *)
(* two of them anything else may happen, and what the worker remembers of  *)
(* the incident is a copy.                                                 *)
(*                                                                         *)
(* The context of a RunOne lives Timeout seconds from the claim on         *)
(* (cmd/sre-worker/main.go).  A call that starts later fails, and so does  *)
(* the call that should have recorded the failure.                         *)
(***************************************************************************)
EXTENDS Environment

CONSTANTS Workers,    \* sre-worker processes
          Host,       \* the worker_id of each process: "sre-worker-" + hostname
          Timeout,    \* worker.timeout_seconds
          AuditDelay, \* auditDelay
          Outcomes    \* what a successful model run can ask for

ASSUME WorkerAssumption ==
    /\ Host \in [Workers -> WorkerIds]
    /\ Timeout \in Nat \ {0}
    /\ AuditDelay \in Nat
    /\ Outcomes \subseteq {"COMPLETED", "AWAITING_AUDIT_EVENT"}

VARIABLE worker \* the local variables of each process

\* at: the clock as RunOne read it; state, card: the incident copy, whose state
\* RunOne overwrites with the state it is about to reach, and whose card is the
\* id a creation returned until it is saved.
Idle == [pc |-> "idle"]
Steps == {"read", "check", "create", "save", "reread", "settle", "adopt", "announce",
          "mark", "card investigating", "gather", "run", "card outcome", "commit",
          "card failed", "retry"}
Busy == [pc : Steps, claim : Claim, at : Nat,
         state : States \cup {"UNREAD"}, card : MessageIds \cup {NoCard}]

WorkerTypeOK == worker \in [Workers -> {Idle} \cup Busy]
WorkerInit == worker = [w \in Workers |-> Idle]

In(w, pc) == worker[w].pc = pc
Moves(w, pc) == worker' = [worker EXCEPT ![w].pc = pc]
MovesWith(w, pc, state, card) ==
    worker' = [worker EXCEPT ![w] = [@ EXCEPT !.pc = pc, !.state = state, !.card = card]]
Returns(w) == worker' = [worker EXCEPT ![w] = Idle]

ContextDone(w) == now >= worker[w].at + Timeout
Works(w) == ~ContextDone(w) /\ UNCHANGED faults
Breaks(w, kind) == IF ContextDone(w) THEN UNCHANGED faults ELSE Strikes(kind)

\* fail shows the failure on the card of a last attempt, then retries or fails
\* the job; persistenceFailure only does the latter.
FailStep(w) ==
    IF worker[w].claim.attempt >= MaxAttempts /\ worker[w].card # NoCard
    THEN "card failed" ELSE "retry"

-----------------------------------------------------------------------------

\* A ClaimNext that finds nothing or fails ends RunOne without a trace.
ClaimJob(w) ==
    /\ In(w, "idle")
    /\ \E j \in JobIds :
          /\ ClaimNext(Host[w], now, j)
          /\ worker' = [worker EXCEPT ![w] =
                [pc |-> "read", claim |-> ClaimFor(Host[w], now, j), at |-> now,
                 state |-> "UNREAD", card |-> NoCard]]
    /\ UNCHANGED environmentVars

ReadIncident(w) ==
    LET row == incidents[worker[w].claim.incident] IN
    /\ In(w, "read")
    /\ \/ Works(w) /\ MovesWith(w, IF row.card = NoCard THEN "check" ELSE "mark", row.state, row.card)
       \/ Breaks(w, "db") /\ Moves(w, "retry")
    /\ UNCHANGED <<storeVars, now, cards>>

CheckBeforeCreate(w) ==
    /\ In(w, "check")
    /\ \/ Works(w) /\ CheckActiveClaim(worker[w].claim) /\ Moves(w, "create")
       \/ Works(w) /\ ~CheckActiveClaim(worker[w].claim) /\ Returns(w)
       \/ Breaks(w, "db") /\ Moves(w, "retry")
    /\ UNCHANGED <<storeVars, now, cards>>

\* The card is made outside any transaction; when its answer is lost, it exists
\* and the worker does not know its id.
CreateCard(w) ==
    LET i == worker[w].claim.incident
        create(m) == CreateIncidentCard(m, i, worker[w].state)
    IN
    /\ In(w, "create")
    /\ \/ \E m \in MessageIds :
             Works(w) /\ create(m) /\ MovesWith(w, "save", worker[w].state, m)
       \/ /\ Breaks(w, "feishu")
          /\ \/ UNCHANGED cards
             \/ ~ContextDone(w) /\ \E m \in MessageIds : create(m)
          /\ Moves(w, FailStep(w))
    /\ UNCHANGED <<storeVars, now>>

SaveCardGivingUp(w) ==
    LET c == worker[w].claim IN
    /\ In(w, "save")
    /\ \/ /\ Works(w)
          /\ SetFeishuMessageIDForClaim(c, worker[w].card)
          /\ Moves(w, "reread")
       \/ Works(w) /\ ~CanSetCardForClaim(c) /\ Returns(w) /\ UNCHANGED storeVars
       \/ Breaks(w, "db") /\ Moves(w, "retry") /\ UNCHANGED storeVars
    /\ UNCHANGED <<now, cards>>

SaveCard(w) ==
    LET c == worker[w].claim IN
    /\ In(w, "save")
    /\ \/ /\ Works(w)
          /\ SetFeishuMessageIDForClaim(c, worker[w].card)
          /\ Moves(w, "reread")
       \/ Works(w) /\ ~CanSetCardForClaim(c) /\ Moves(w, "settle") /\ UNCHANGED storeVars
       \/ Breaks(w, "db") /\ Moves(w, "retry") /\ UNCHANGED storeVars
    /\ UNCHANGED <<now, cards>>

RereadIncident(w) ==
    LET row == incidents[worker[w].claim.incident] IN
    /\ In(w, "reread")
    /\ \/ /\ Works(w)
          /\ MovesWith(w, IF row.state = "RECOVERED" THEN "announce" ELSE "mark",
                       row.state, row.card)
       \/ Breaks(w, "db") /\ Moves(w, "retry")
    /\ UNCHANGED <<storeVars, now, cards>>

\* finishRecoveredCardCreate: the claim was lost while the card was made.
SettleLostCard(w) ==
    LET row == incidents[worker[w].claim.incident] IN
    /\ In(w, "settle")
    /\ \/ Works(w) /\ row.state = "RECOVERED" /\ Moves(w, "adopt")
       \/ Works(w) /\ row.state # "RECOVERED" /\ Returns(w)
       \/ Breaks(w, "db") /\ Returns(w)
    /\ UNCHANGED <<storeVars, now, cards>>

\* The read between saving and announcing returns what was just saved: both
\* the state RECOVERED and a card that is set are final.
AdoptLostCard(w) ==
    LET i == worker[w].claim.incident IN
    /\ In(w, "adopt")
    /\ \/ /\ Works(w)
          /\ SetFeishuMessageID(i, worker[w].card)
          /\ Moves(w, "announce")
       \/ Works(w) /\ incidents[i].card # NoCard /\ Returns(w) /\ UNCHANGED storeVars
       \/ Breaks(w, "db") /\ Returns(w) /\ UNCHANGED storeVars
    /\ UNCHANGED <<now, cards>>

\* The one card update of the worker that passes no fence.
AnnounceRecovery(w) ==
    /\ In(w, "announce")
    /\ \/ Works(w) /\ UpdateIncidentCard(worker[w].card, "RECOVERED")
       \/ ~ContextDone(w) /\ Strikes("feishu") /\ PerhapsUpdated(worker[w].card, "RECOVERED")
       \/ ContextDone(w) /\ UNCHANGED <<faults, cards>>
    /\ Returns(w)
    /\ UNCHANGED <<storeVars, now>>

MarkInvestigating(w) ==
    LET c == worker[w].claim IN
    /\ In(w, "mark")
    /\ \/ /\ Works(w)
          /\ MarkInvestigatingForClaim(c)
          /\ MovesWith(w, "card investigating", "INVESTIGATING", worker[w].card)
       \/ Works(w) /\ ~CanMarkInvestigating(c) /\ Returns(w) /\ UNCHANGED storeVars
       \/ Breaks(w, "db") /\ Moves(w, "retry") /\ UNCHANGED storeVars
    /\ UNCHANGED <<now, cards>>

UpdateCardUnfenced(w, state, next, onError) ==
    /\ \/ Works(w) /\ UpdateIncidentCard(worker[w].card, state) /\ Moves(w, next)
       \/ ~ContextDone(w) /\ Strikes("feishu") /\ UNCHANGED cards /\ Moves(w, onError)
    /\ UNCHANGED <<storeVars, now>>

\* updateCard: UpdateActiveClaimCard holds the write lock of the store around
\* the PATCH, so no transaction comes between its check and the new card.
UpdateCard(w, state, next, onError) ==
    LET active == CheckActiveClaim(worker[w].claim) IN
    /\ \/ Works(w) /\ active /\ UpdateIncidentCard(worker[w].card, state) /\ Moves(w, next)
       \/ Works(w) /\ ~active /\ UNCHANGED cards /\ Returns(w)
       \/ /\ ~ContextDone(w)
          /\ Strikes("db") \/ Strikes("feishu")
          /\ IF active THEN PerhapsUpdated(worker[w].card, state) ELSE UNCHANGED cards
          /\ Moves(w, onError)
       \/ ContextDone(w) /\ UNCHANGED <<cards, faults>> /\ Moves(w, onError)
    /\ UNCHANGED <<storeVars, now>>

ShowInvestigating(w) ==
    /\ In(w, "card investigating")
    /\ UpdateCard(w, "INVESTIGATING", "gather", FailStep(w))

\* Four evidence queries, and StoreEvidence for what they found.
GatherEvidence(w) ==
    /\ In(w, "gather")
    /\ \/ Works(w) /\ Moves(w, "run")
       \/ Breaks(w, "rca") /\ Moves(w, FailStep(w))
       \/ Breaks(w, "db") /\ Moves(w, "retry")
    /\ UNCHANGED <<storeVars, now, cards>>

\* The model run and the validation of its result.
RunModel(w) ==
    /\ In(w, "run")
    /\ \/ \E outcome \in Outcomes :
             Works(w) /\ MovesWith(w, "card outcome", outcome, worker[w].card)
       \/ Breaks(w, "rca") /\ Moves(w, FailStep(w))
    /\ UNCHANGED <<storeVars, now, cards>>

ShowOutcomeIgnoringErrors(w) ==
    /\ In(w, "card outcome")
    /\ UpdateCard(w, worker[w].state, "commit", "commit")

ShowOutcome(w) ==
    /\ In(w, "card outcome")
    /\ UpdateCard(w, worker[w].state, "commit", FailStep(w))

CommitOutcome(w) ==
    LET c == worker[w].claim IN
    /\ In(w, "commit")
    /\ \/ /\ Works(w)
          /\ worker[w].state = "COMPLETED"
          /\ CompleteJobAndIncident(c)
          /\ Returns(w)
       \/ /\ Works(w)
          /\ worker[w].state = "AWAITING_AUDIT_EVENT"
          /\ \E j \in JobIds : CompleteJobAndScheduleAuditRetry(c, j, worker[w].at + AuditDelay)
          /\ Returns(w)
       \/ Works(w) /\ ~CheckActiveClaim(c) /\ Returns(w) /\ UNCHANGED storeVars
       \/ Breaks(w, "db") /\ Moves(w, "retry") /\ UNCHANGED storeVars
    /\ UNCHANGED <<now, cards>>

ShowFailure(w) ==
    /\ In(w, "card failed")
    /\ UpdateCard(w, "FAILED", "retry", "retry")

RetryOrFail(w) ==
    LET c == worker[w].claim IN
    /\ In(w, "retry")
    /\ \/ Works(w) /\ RetryOrFailJob(c, now)
       \/ Works(w) /\ ~CheckActiveClaim(c) /\ UNCHANGED storeVars
       \/ Breaks(w, "db") /\ UNCHANGED storeVars
    /\ Returns(w)
    /\ UNCHANGED <<now, cards>>

\* The process dies between two calls and systemd starts it again.
WorkerCrash(w) ==
    /\ ~In(w, "idle")
    /\ Strikes("worker crash")
    /\ Returns(w)
    /\ UNCHANGED <<storeVars, now, cards>>

\* The calls of RunOne, each with its outcomes.
RunOneStep(w) ==
    \/ ClaimJob(w)
    \/ ReadIncident(w)
    \/ CheckBeforeCreate(w)
    \/ CreateCard(w)
    \/ SaveCard(w)
    \/ RereadIncident(w)
    \/ SettleLostCard(w)
    \/ AdoptLostCard(w)
    \/ AnnounceRecovery(w)
    \/ MarkInvestigating(w)
    \/ ShowInvestigating(w)
    \/ GatherEvidence(w)
    \/ RunModel(w)
    \/ ShowOutcome(w)
    \/ CommitOutcome(w)
    \/ ShowFailure(w)
    \/ RetryOrFail(w)

WorkerNext == \E w \in Workers : RunOneStep(w) \/ WorkerCrash(w)

=============================================================================
