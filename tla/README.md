# Verification of umodel-sre-rca

TLA+ modules that model the alert-to-RCA system of this repository, TLC runs
that check them on small instances, and TLAPS proofs of what matters most for
every instance. File names below are relative to the repository.

## The system

A cloud monitor posts callbacks; the **gateway** turns an occurrence into an
incident with a job and a recovery into the end of the incident. **Workers**
poll for jobs, show the investigation on a Feishu **card**, collect
**evidence**, let a **model** conclude, and close the incident. Gateway and
workers are separate processes of one host that share a SQLite **repository**
and nothing else; both write the cards. A command line tool writes the
customer's own entities into the cloud's **entity store**.

| Part | Source | State it keeps | Operations |
|---|---|---|---|
| Repository | `internal/store/sqlite.go`, `internal/domain` | tables `incidents`, `jobs`, `evidence_snapshots`, `evidence_records` | one statement or one transaction each: `CreateOrGetIncident`, `Enqueue`, `Recover`, `ClaimNext`, the `*ForClaim` operations, `RetryOrFailJob`, ... |
| Gateway | `internal/httpapi/server.go`, `internal/inbound` | none but the requests in flight | the CloudMonitor route, the capture route |
| Worker | `internal/worker/worker.go`, `cmd/sre-worker` | the local variables of `RunOne`; ticker and stop signal of the loop | `RunOne`, repeated by `runLoop` with a fresh timeout |
| Cards | `internal/feishu/client.go` | the chat (external) | create, update |
| Evidence | `internal/evidence`, `internal/provider`, `internal/runtime`, `cmd/sre-evidence` | the files loaded at start | four evidence classes resolved through reviewed bindings into read requests to the cloud |
| Model run | `internal/cc/runner.go` | a process group, its output buffers, a deadline | run, cancel, parse, validate |
| Entity sync | `internal/modelsync`, `cmd/sre-sync` | the entity store (external) | plan, upsert, expire a relation |
| Configuration | `internal/config` | none | load, validate |

### What is hard

*Interleaving.* The gateway's requests, the workers and Feishu run at the same
time; the repository serialises single statements, not handlers. Between any
two calls of `RunOne` a recovery may close the incident, the lease may run out,
another process may claim the job. What keeps order is the *fence*: statements
made for a claim match the job row on `status`, `worker_id` and `lease_until`.
All workers of a host share one `worker_id`, and no statement compares the
attempt or the clock, so everything rests on `lease_until` being different for
every claim of a job.

*Failure.* A worker or the gateway dies between two calls; a repository call
fails (there is no busy timeout, and `UpdateActiveClaimCard` holds the write
lock during an HTTP call); a Feishu call fails with or without effect; the
context of an attempt runs out and takes the call that should record the
failure with it.

*Order.* Callbacks are delivered again, twice, or out of order.

*Time.* Attempts have a deadline, jobs a lease, a back-off and a `run_after`
that decides who is next; the loop has a ticker that drops ticks and a stop
signal; the subprocess has a deadline of its own, and descendants that need not
know of it.

*Files.* A process reads three files at start, one after the other, while an
administrator edits them. What one package accepts, two others must know.

### What correct means

* Repository: a stale claim writes nothing; a running job changes hands only
  after its lease; a closed incident is never reopened, has no running job, and
  has exactly the result it was completed with.
* Gateway and workers together: one investigator per incident, every active
  incident has a job that is found again, the card of a completed incident shows the completion,
  a recovery is shown and never overwritten, and incidents go through the
  documented life cycle.
* Worker loop: a loop that is told to stop claims nothing more and ends; no job
  starves.
* Evidence: only listed reads with reviewed values of the incident itself reach
  the cloud; what is loaded can be served; answers are ordered and complete.
* Model run: it ends whatever the subprocess does, leaves nobody behind when it
  cancels, and takes a result only from output it has read whole; a conclusion
  that is accepted cites evidence that was collected for its incident.
* Entity sync: a relation is never written before its entity, an expiry touches
  nothing but its relation, and a repeated sync repairs a broken one.

## Modules

| Module | Models | Kind |
|---|---|---|
| `Store` | the repository: one operator per operation, guard = when the code commits a change | operations |
| `StoreClients` | any operation, any time, any order, any old claim | specification on `Store` |
| `Environment` | clock, Feishu chat, faults | operations on `Store` |
| `Callback` | what the gateway makes of the body of a callback: accepted or refused, key, second | algorithm |
| `Gateway` | the CloudMonitor route; a request is a small state machine, one step per repository or Feishu call | component |
| `Worker` | `RunOne`; a process is a small state machine, one step per call, every error path | component |
| `RcaSystem` | gateway, workers, store and cards together, with fairness; safety and liveness, and the claims of the docs | composition |
| `Lifecycle` | the states of an incident and one active incident per key, with nothing of the implementation | abstract specification |
| `StoreLemmas` | what each operation of `Store` does to the tables, whoever calls it | proofs |
| `StoreProofs` | types and safety of `StoreClients` | proofs |
| `RcaSystemProofs` | types and safety of `RcaSystem`, and that it implements `Lifecycle` and `StoreClients` | proofs |
| `EntitySync` | `sre-sync`: options, configuration, plans, the two writes of `Upsert` and what the entity store makes of them | component |
| `Investigation` | what `RunOne` does between `INVESTIGATING` and the outcome: evidence service, evidence table, model run, validation | component |
| `Polling` | `runLoop` and `runOnce` with ticker, stop signal, kill, restart and the order of the queue | component |
| `EvidenceService` | a process that loads its files and serves evidence: registry, incident bindings, requests, allowlists, answers | component |
| `OutputBuffer` | `boundedBuffer` of the model run: what any writer may do to it | abstract specification |
| `ModelRun` | `Runner.Run` over `OutputBuffer`: process group, pipe, `os/exec`'s goroutines, deadline and `WaitDelay` | component |
| `EntitySyncProofs`, `InvestigationProofs`, `EvidenceServiceProofs`, `ModelRunProofs` (with `OutputBuffer`), `PollingProofs` | properties of these | proofs |
| `MCStoreClients`, `MCRcaSystem`, `MCEntitySync`, `MCInvestigation`, `MCEvidenceService`, `MCModelRun` | instances for TLC (`Polling` needs none) | model checking |

State and code: `incidents[i]` and `jobs[j]` are rows, with the columns a guard
or a property depends on; an absent row is a record of its own. `snapshots[i]`
counts the rows of `evidence_snapshots`. `worker[w].pc` is the next call of
`RunOne`, the other fields its local variables: the claim is the `domain.Job`
copy, `state` and `card` the `domain.Incident` copy. `request[d].pc` is the
next call of the handler of delivery `d`. Ids are numbers because two
statements order by them; a fresh id is any unused one.

One operation is one step because SQLite serialises writers and the pool has
one connection. `CreateOrGetIncident` is the exception: its INSERT and the
SELECT after a failed INSERT are two statements outside a transaction, and two
steps here. `UpdateActiveClaimCard` is one step although it spans an HTTP call,
because it holds the write lock from its UPDATE to the end of the PATCH.

`EntitySync` keeps the two logstores as sets of records, because the entity
store goes by `__last_observed_time__` and not by the order of arrival;
`run[r]` is a process of the tool with the part of its plan that is still to be
written. `LiveEntity` and `LiveRelation` say how the entity store reads the
records (keep-alive, expiry); they are external to this repository. A
configuration is a set of endpoints, so a file that lists the very same
endpoint twice is not told from one that lists it once.

`Investigation` refines three steps of `Worker` (`GatherEvidence`, `RunModel`
and the steps after it) in one respect, evidence, and leaves out the claim; it
is not composed with `Worker` yet. `attempt[a]` holds the locals of `RunOne`:
`shown` is `evidenceItems`, `next` the position of `collectEvidence` and
`resolve` in the registry, `cites` the `EvidenceIDs` of the result; `answers` is
the history of `shown`, binding by binding, which the code does not keep: an
audit log that answered without an event is thereby told from one that failed.
`records` is the table `evidence_records`. A document that does not fit into the output
buffer is cut and cannot be decoded; that the buffer cuts correctly is the
subject of `OutputBuffer`.

`Callback` has a payload as a record of what the parser looks at; `Gateway` is
given payloads (`Payload`), and `Event` is what it makes of them. A callback
that is refused would be refused again, so its redelivery is left out.

`Polling` has no clock. Where the code compares a time with the clock, the
model keeps what is left of it (`wait`, `lease`, `left`, `timer`), so that time
need not be bounded and liveness can be asked; `order` keeps the order of those
`run_after` that have passed, which is all the code looks at then. Steps of the
loop and of the database take no time next to a poll interval (`Urgent`);
attempts take any time up to their deadline. The incident is one bit of the
job, `marked`: an attempt on a marked incident returns and leaves the job.

`EvidenceService` is one process, worker or command, because processes share
only files. `process.pc` is the file it reads next; each file is any of the
constant's, so an edit between two reads is included. A value carries where it
stands (`of`) and whether it has only the characters of a selector (`safe`). A
request is its service, operation, endpoint (the configured region), places
(workspace, region parameter, project and logstore), the values that say what is
looked for, and its window; the wording of the query is left out.
`OnlyReviewedValuesAreSent` claims of all of these that they stand in the
incident's own binding or in the configuration, and of a part that they are
safe: the values of a binding, the workspace and the region parameter, which the
code checks. Project, logstore and the region of the endpoint are only checked
for being there, and are sent whatever characters the administrator wrote. Seconds are scaled:
`Int32Bound` stands for 2^31.

`ModelRun` extends `OutputBuffer`: `Copy` is `Write` of a piece of the pipe, and
what `os/exec` does between the end of the leader and the return of `Run` is
four steps (`WaitForLeader`, `StopWatch`, `EndOfOutput` or `DelayEnds`,
`Return`) that race with `watchCtx` (`Cancel`). Processes fork, leave the group,
close the output and end as they like.

## Runs

Constants not listed are in the `.cfg`. One key is enough: keys meet only in
the unique index and in `Recover`, which both look at one key. Two incidents
allow one after a closed one and two of a key; two jobs allow an audit retry and
two open jobs of one incident. Lease 1 and clock 0..2 let a lease run out twice
while an attempt goes on. Ids, workers and messages are symmetric where the
code does not order them.

| Run | Instance | Question and answer |
|---|---|---|
| `store` | 2 incidents, 2 jobs, 1 worker id, clock 0..2 | Does the repository keep its promises under any callers? Yes, all seven properties. |
| `system` | 2 workers of one host, an alert delivered twice and its recovery, one fault of Feishu, the model, the repository, a worker or the gateway | One investigator, one open job, for every active incident that ever had a job one that is found again (after a lease, a back-off, an audit delay or at the time of the alert), truthful card of a completion, no update over a recovery, the life cycle? Yes. |
| `recovery_shown` | an alert, its recovery, and a recovery that cannot be parsed; Feishu always answers; two faults among a failing model run and a dying gateway; lease 3, so that no attempt loses its claim to another worker | Does every recovery that was accepted reach the card, and stay? Yes, now (`RecoveryIsShown`) and in the end (`RecoveryReachesCards`). |
| `doc_last_attempt` | one worker, one alert | "job error after bounded retries -> FAILED"? No: a retry finds the incident INVESTIGATING, takes that for inactive and returns, for ever. |
| `doc_attempts` | attempts that run into their timeout | At most three attempts? No: the failure is recorded with the context that ran out. |
| `doc_recovery_closes` | a late older alert | "any active state + RECOVERED -> RECOVERED"? No: a closed incident with a later alert time hides the active one. |
| `doc_change_evidence` | as `evidence_service` | "gets the changes of security groups"? No: events are looked for at the top of an answer that has them in its body, and none is ever found. |
| `entity_sync` | two runs of the tool, one and two endpoints, with and without a relation, a refused file, keep-alive 1, clock 0..1 | Does every live relation start at a live entity, is a reported success complete, does an expiry touch its relation only? Yes. |
| `investigation` | two attempts on two incidents, one of which lacks a selector; a context whose answer changes, a log, an audit log that may be empty | Did every binding answer the attempt of a recorded result, audit logs included, and was the model shown all of it? Does a result cite only what was shown, and can its citations be opened? Yes. |
| `evidence_service` | 9 configurations (among them project, logstore, workspace and region missing or with unsafe characters), registries of up to 2 of 14 bindings (6 good, 8 not), 7 files of incident bindings, 3 incidents, alerts before and after 32 bits are full | Is every request a listed one with values of the incident's own binding and of the configuration, safe where the code checks them? Is every binding that loads routed? Has a worker that started all it needs? Is the log window right as long as its end fits? Are answers ordered and complete? Yes. |
| `model_run` | a leader and two descendants, limit 2, output up to 4 | Does Run end? Is a result of the whole output? Does a cancelled group die? Is the buffer the beginning of the output and the report true? Yes. |
| `polling` | 3 jobs, poll 1, timeout 3, lease 3, one stop or kill | Does a stopped loop claim nothing and end? Is every job that can be claimed claimed? Yes, with the limits below. |

More was found that a reader of the documents would not expect; these are not
runs, because each happens in a few obvious steps:

* one card per incident: a worker that dies between creating the card and
  saving its id makes the next attempt create another;
* a notification repeated after its incident was closed opens a second incident
  (the unique index covers active ones only);
* a PATCH that fails while the worker announces a recovery is never tried again;
* a gateway that dies between `Recover` and the PATCH leaves a card that is never
  told, if another occurrence of the key, no newer than the recovery, opens an
  incident before the recovery is delivered again: the redelivery ends that one;
* a recovery older than an occurrence within the same second closes it;
* descendants of the subprocess are killed only where the deadline is noticed
  while `Run` waits for the leader; and one that holds the output open makes a
  run fail although the leader printed a whole document;
* a callback with a timestamp is refused where its time has an unknown layout;
* a mapping that does not cover its template, or a value with other characters
  than a selector may have, loads without complaint and fails every attempt on
  the incident; a probe binding whose mapping holds `instance_id` asks for the
  CPU of that instance; a class is not tied to its templates;
* after `ecs_entity_id` of an endpoint is edited, no expiry can name the old
  relation;
* an incident can await its audit event for ever, each retry being a new job.

`ActiveIncidentIsFoundAgain` says that work is found, not that it is done. The
four times are those the code lets a job wait: `Lease` after a claim, `RetryCap`
at most after a failure, `AuditDelay` after the claim that scheduled an audit
retry, the alert's own time for a first job. It exempts an incident that never
had a job because a fault struck: the incident and its job are two statements
(`server.go:115`, `:120`), although the design
(`docs/superpowers/specs/2026-07-20-umodel-sre-rca-mvp-design.md:183`) asks for
one transaction, and when the second fails the callback that is delivered again
is merged, accepted, and queues nothing. And an attempt on an incident that it
finds INVESTIGATING returns at once (`doc_last_attempt`), so an incident may be
found for ever without being worked on.

`EveryJobIsServed` says where `ClaimNext`'s order starves nobody, and its two
limits were found with TLC. A job whose incident is INVESTIGATING is reclaimed
whenever its lease ends, for ever, and comes before all later ones; with as many
such jobs as there are polls in a lease (2 of 3 jobs, lease 2), the third is
never claimed. And an attempt that stalls until its deadline before it marks the
incident is reclaimed at once where the timeout is not shorter than the lease,
as with the defaults (300 seconds each), so one job that always stalls keeps all
others waiting; the premise `<>[]~Stalled` excludes it.

The runs of `RcaSystem` do not check deadlock, because the clock ends at
`MaxTime` and every process then waits; nor do `investigation`, where every
attempt ends, and `model_run`, where the run returns and the processes end. The
other bounds are `MaxFaults`, the number of deliveries, and the sizes of the id
sets. For `entity_sync`, two runs are enough because a property fails through
one run and what another did before; the clock lets one sync be older than
another by the whole keep-alive. For `model_run`, an output of 4 with a limit of
2 ends before, at and after the limit, with a piece after a cut one, and two
descendants allow one in the group and one outside. For `evidence_service`, two
bindings allow an order, a duplicate, and a failure after an answer; two keys,
and files that hold one or both of them, allow a missing and a foreign entry.
For `polling`, three jobs allow two marked ones and one that waits behind them,
lease 3 is the shortest in which there are more polls than marked jobs, and one
stop or kill (`MaxStops`) is enough because a process that starts remembers
nothing.

Every property of a passing run is also shown to be able to fail: next to an
operation stands a form of it with a plausible slip (`HoldsClaimIgnoringLease`,
`ShowOutcomeIgnoringErrors`, ...), and with that form in its place TLC finds
the property violated.

### Fairness

All other properties are safety properties; three runs assume fairness.

* `RcaSystem!Fairness` (`recovery_shown`): goroutines of requests and workers
  are scheduled, CloudMonitor delivers again what was not answered with 2xx, the
  clock goes on. It is weak fairness of a handler's next step, not of one of its
  outcomes; faults end because there are at most `MaxFaults`.
* `Polling!Fairness`: the loop takes its steps (`runLoop` never waits for
  anything but the ticker, the stop signal and the attempt, and the attempt has
  a deadline), returns when it can, the clock goes on, and a process that ended
  is started again, by systemd (`Restart=on-failure` in
  `deploy/worker/sre-worker.service`) or, after a stop, by whoever stopped it.
  No attempt need ever succeed, fail or record anything. Between the stop signal
  and a tick that are both ready `select` chooses; that it does not choose ticks
  for ever follows from the ticker, which is slower than the loop: weak fairness
  suffices.
* `ModelRun!RunFairness`: timers run out, goroutines are scheduled. Nothing is
  assumed of the subprocesses, nor that the pipe is ever read to its end.

No run with a temporal property that needs fairness uses symmetry.

## Proofs

Every safety property of a passing run is a theorem for all values of the
constants; where a theorem needs more than the model's assumptions, as for
`RecoveryIsShown`, its statement says so.

`StoreLemmas` says of each operation of the repository which rows it changes and
how (`...Effect`); both `StoreProofs` and `RcaSystemProofs` rest on it and look
at no operation again.

`StoreProofs` proves every property of the run `store`, from `StoreAssumption`
and `ClientsAssumption`: ids are numbers, lease, back-off step and cap, and the
limit of attempts are positive.

* `TypeCorrect`: the type invariant is inductive by itself.
* `FenceIsSound`: `FenceRejectsStaleClaims` is not inductive: it says nothing
  of a claim whose job is queued. `ClaimInv` adds what is: a running job's
  lease is at least that of each of its claims, and equal only for its newest;
  a queued job's `run_after` is so late that its next lease ends after all old
  ones. The step that needs an argument is the retry: the back-off is positive
  (`RetryDelayIsABackOff`) and the clock is read again after the claim, so
  `run_after + Lease` exceeds the lease that is given up. The proof assumes a
  clock that does not step back between the claim and the retry
  (`RetryTimes`), as the code does.
* `JobMoves` and `IncidentMoves`, proved once for every operation
  (`IngressMoves`, `UseClaimMoves`, `UseIncidentMoves`), say how one step can
  change one row; `LeasesAreExclusive`, `ClosedJobsStayClosed`,
  `ClosedIncidentsStayClosed`, `SnapshotsMatchCompletions` and
  `NoWorkOnClosedIncidents` follow from them.

`RcaSystemProofs` proves every safety property of the runs `system` and
`recovery_shown`, for any number of deliveries, workers, hosts, incidents, jobs
and cards, any timeout and lease, and any faults, from the assumptions of the
composed modules. `NoCard` is not a message, and the second of a callback that
is accepted is a number: the two assumptions that the proofs asked for and the
model had left unsaid.
None of the properties is inductive; what they lack is in six invariants:

* `LocalInv`: types, and that what a handler remembers fits what it is of. `RunOne`
  holds a copy of the incident across many calls, and the handler of a recovery
  the id of a card: the card a worker remembers is one of its incident, and is
  the row's from `SaveCard` on; whoever announces a recovery has a card of a
  recovered incident. `RecoveryStays` follows: the fence of every other write asks
  for an active incident, and the card that is written is of that incident and
  no other.
* `JobInv`: a request about to queue the job of its incident is the only one and
  finds no job, open or closed. This is what `OneOpenJob` needs where incident
  and job are two statements, and `WorkHasAJob` where the second is lost.
* `ClaimInv`: the claims in the memories of workers are behind their jobs as in
  `StoreProofs`, and no two on a job have the same lease. The second part is
  the one that matters: the workers of a host share an id, so `lease_until`
  alone separates their claims. `OneInvestigatorAtATime` follows with
  `OneOpenJob`.
* `TimeInv`: a running job's lease ends within a lease from now, a queued job is
  due within the longest back-off or the audit delay, or at the time of its
  incident's alert, which no statement changes; a request about to queue a job
  has that time. A job moves in no other way (`JobMoves`), and an audit retry
  counts from a claim that is past (`ClaimInv`). With `WorkHasAJob` (an active
  incident has an open job but for the two exceptions) it gives
  `WorkIsNotForgotten`, that `ClaimNext` finds the job again.
* `FencedInv`: a worker that still passes the fence between `MarkInvestigating`
  and its commit has an incident that is `INVESTIGATING`, and before the commit
  the card shows the outcome. `CompletionIsShown` follows, and so does
  `LifecycleIsImplemented`: only such a worker completes or parks an incident.
* `RecoveryInv`, for `RecoveryReachesTheCard` only: while an attempt is at work
  nobody else is claimed for its incident (`AloneInv`); a card is its incident's,
  or a worker is on the way to saving it (`CardInv`); a recovered incident's card
  shows it, or a worker is about to announce it, or a request that is in flight
  or will be delivered again is going to find this incident (`TellInv`).

A step of the system is looked at twice: once for the types, and once to say of
which kind it is (`StepKinds`): what it does to the one job and the one incident
it is about, which cards it may write, and that it leaves all others alone. The
invariants after `LocalInv` and the refinement are proved from the kinds
(`WorkerKind`, `RequestKind`, `Waits`), a dozen cases instead of every action
with all its outcomes.

`LifecycleIsImplemented` maps the states and keys of the rows to `Lifecycle`; a
step of a kind that moves an incident is the step of that name, any other a
stutter. The two facts it needs are that a recovered incident is never moved,
and that an accepted occurrence of an active key inserts nothing.

`RecoveryReachesTheCard` is conditional, as the run is: Feishu and the store
answer and workers live (`OnlyMildFaults`: the model run and the gateway may
still fail), Feishu is configured in the gateway, the lease is not shorter than
the timeout, and every attempt ends before its context does (`[]OnTime`, a
premise on the behaviour; `RecoveryIsShownInTime` replaces it by a clock that
ends before the first timeout, which is what `MCRecoveryShown.cfg` has). A last
premise was found by the proof: if the gateway may die, the alert of a key must
come once (`OneOccurrenceOfAKey`). Without it `WillTell` is not kept, and TLC
shows why on two occurrences: the one behaviour in the list above in which the
redelivered recovery finds another incident. All premises hold in
`recovery_shown`, so the theorem is not empty.

Two theorems say what comes after. `SettledStays`, without any of these
premises: a recovered incident that no worker is at work on, when every recovery
was accepted, is left alone for good. With `RecoveryReachesTheCard` this gives
`RecoveryIsShownForEver`, the half of `RecoveryReachesCards` that is safety;
that incidents do settle is the other half and stays with TLC.

`AbandonedIsNotResumed` and `AbandonedIsLost` are the general form of what the
run `doc_last_attempt` shows on one worker: an incident that is INVESTIGATING
and has no fenced worker between `MarkInvestigating` and its commit is never
investigated again. `InvestigatorWasThere` carries them: nobody comes to those
steps but through `MarkInvestigating`, which asks for another state, and a claim
that the fence refused once it always refuses (`FenceWasHeld`). Only a recovery
moves such an incident, or an attempt that breaks with no attempts left and
outside these steps. TLC agreed on the instance of `system` beforehand.

`RepositoryIsUsedAsSpecified` is the refinement between the two specifications
of the repository's callers: what `StoreProofs` proves of any callers is of use
only if the gateway and the workers are such callers. `StoreClients` keeps every
claim ever handed out, and the system forgets a claim when its worker returns,
so the system is watched by a history (`WatchedSpec`): `claims` grows by the
claims at work after each step. Its next value is a function of the rest, so it
prevents no step. Then

* `SameOperations`: the operations of `Store` mean the same in both;
* `StartIsTake`: a worker that starts is a caller that takes a claim now;
* `RequestCalls` and `WorkerCalls`: any other statement is one of `Ingress`,
  `UseClaim` or `UseIncident`, with a claim in the history (`UsesItsClaim`) and a
  time that `StoreClients` allows: an audit retry counts from the worker's claim
  and a back-off from a clock read after it (`ClaimInv`);
* `StepIsACall`: every step is a call, a tick, or nothing to the repository.

The theorems of `StoreProofs` then hold of the whole system; they are cited, not
proved again (`SystemFencesStaleClaims`, `SystemKeepsIncidentsClosed`,
`SystemKeepsJobsClosed`, `SystemRespectsLeases`, `SystemStoresOneResult`,
`SystemEndsWorkWithIncidents`). The proof corrected `StoreClients`: it let an
audit retry be due only after the time of the call, while the worker counts from
the time of its claim (`AuditTimes`).

`EntitySyncProofs`: besides types, the invariant says what a run that writes
still owes: its plan is the one of the options and configuration it loaded, and
each record of it is stored or still to be written, entities first. From this
follow `TopologyIsGrounded` (every relation has an entity of the same time),
`AppliedIsComplete` and, for one step, `ExpiryIsNarrow`.

`InvestigationProofs`: the invariant (`Progress`) adds up what an attempt has
established: every binding before `next` has an answer among `answers`, and what
is shown is the union of the answers (`ShowsAnswers`); from the run of the model
on, all evidence shown is stored; from the conclusion on, the citations
are among it. Rows are replaced but never deleted, so other attempts keep it
(`OthersKeep`).

`EvidenceServiceProofs`, for all files, from `ServiceAssumption`,
`SourceAssumption` (a value says where it stands) and `IdAssumption` (ids are
integers, for strings in their order): the invariant says that what
is loaded is valid, that a call's selectors are those of its incident's own
entry, and that every request sent so far was reviewed (`RequestsAreReviewed`).
`BuiltIsReviewed` goes through the templates; the facts that carry it are that
the provider looks at every selected value before it builds anything, that the
client looks at the workspace and `MetricsRequest` at the region, and that the
entry was found by the incident's key. Nothing is claimed of the characters of
project, logstore and endpoint (see above). `EveryLoadedBindingIsRouted`
compares the three allowlists (`ValidIsRouted`); `LogWindowIsExact` rests on
`Int32IsExact`: the conversion is the identity below the bound, and the window
is not longer than it. A second invariant (`AnsweringInv`) is about the rest of a
query: what is left of the class comes after what was answered, and a binding
that is not left was answered (`AnswersFollowIds`); a process serves with a
configuration its kind may run with (`WorkersAreConfigured`). It needs the first
one, because only a loaded binding is known to have a template that is
implemented. `NoChangeIsEverFound` is the general form of `doc_change_evidence`:
`Events` are looked for beside the body that holds them, so no answer, for
whichever files, incidents and reports of the cloud, ever has change evidence.

`ModelRunProofs` first proves `OutputBuffer` for every limit and output: its two
properties and the types are inductive together, since as long as there is room
the buffer is the whole output (`FullOrWhole`). Then, for any set of processes:
the invariant adds to the types that an output that was read to its end has no
holder left and none can come (`copier = "eof"`), that a killed group stays
empty because a process is born into the group of its parent, and what `Run` has
waited for so far (`RunInvariant`). From it follow `ResultsAreWhole` and
`GroupsAreKilled`. `RunImplementsBuffer` shows that every step of `ModelRun` is
a write of `OutputBuffer` or leaves it alone, so that `BufferIsBeginning` and
`ReportIsTruthful` hold of every run.

`PollingProofs`, for any finite set of jobs and any intervals. `StopEndsClaims` is
proved for one step, from the types of the jobs and of the loop (`JobsInv`): the
job a stopped loop could claim is excluded by the context that is done with the
stop signal; the attempt in flight may still end its job, and time lets a lease
shrink and never grow. `TypeCorrect` says more than types: the queue lists every
job that is due, each once. What makes it inductive is `Lists(order, Due)`, with
`JobsInv`, `AttemptInv` (how much time an attempt has left) and `TickerInv`. The
section *The queue* proves what inserting, removing and appending do to such a
list. When time passes, the jobs that fall due at once are appended in the
order of their ids: `Clock` picks that order among the lists of those jobs
(`ById`), so that no sorting operator is left to reason about, and
`PollingAssumption` has the job ids in a finite set of numbers, which the rows
of a table are. That such an order exists is not proved, being induction over
data; were there none, `Clock` could not step, and TLC shows that it does.

Only model-checked: all liveness (`RecoveryReachesCards`, `StopEndsLoop`,
`EveryJobIsServed`, `RunEnds`), which is out of the prover's reach, and the four
violations, each a behaviour TLC exhibits. `Callback` and `Environment` have no
properties of their own; the theorems about `RcaSystem` use of a payload only
what `Gateway` assumes.

## Not modelled, and the plan

Not modelled: capturing callbacks (a file under a fresh name), rendering of
cards and texts, the wording of queries and of the prompt, the summaries of
answers, the expansion of environment variables and defaults in `sre.yaml`,
command lines, credentials and the construction of SDK clients, composition of
the processes at start, the graceful shutdown of the gateway beyond the loss of
the requests in flight, scripts and declarative files. The list of components
and of the hazards, each with the properties about it or the reason there is
none, is in `PROJECT.json`.

Next, in this order:

1. *Composition of `Investigation` and `Worker`*: the steps `GatherEvidence` and
   `RunModel` of `Worker` as the steps of `Investigation`, and a snapshot that
   cites evidence, so that `CitedEvidenceOpens` speaks of the rows of
   `evidence_snapshots`.
2. *A PATCH in the network*: a request whose client gave up and that reaches
   Feishu later; which card properties survive.
3. *Shutdown of the gateway*: `serveGateway` with its ten seconds and the
   handlers' write timeout, and which requests end with an answer.
