------------------------------ MODULE Polling ------------------------------
(***************************************************************************)
(* The polling loop of cmd/sre-worker/main.go over the queue of jobs of    *)
(* internal/store/sqlite.go: the ticker with its channel of one, the stop  *)
(* signal, the context of each attempt, and ClaimNext, which serves the    *)
(* jobs by run_after whatever became of their earlier attempts.            *)
(*                                                                         *)
(* Time has no bound here: what the code compares with the clock is kept   *)
(* as what is left of it, and the order of the run_after values that have  *)
(* passed as a sequence.  The clock waits for the loop, whose own steps    *)
(* take no time next to a poll interval; attempts take time.               *)
(***************************************************************************)
EXTENDS Naturals, SequencesExt

CONSTANTS Jobs,        \* job ids
          Poll,        \* worker.poll_seconds
          Timeout,     \* worker.timeout_seconds
          Lease,       \* JobLeaseDuration
          RetryStep,   \* seconds of back-off per attempt
          RetryCap,    \* longest back-off
          MaxAttempts, \* the maxAttempts the worker passes
          AuditDelay,  \* auditDelay
          MaxStops     \* bound: how often the process is told to stop

\* Ids are ordered strings in the code; numbers stand for that order.
ASSUME PollingAssumption ==
    /\ Jobs \subseteq Nat /\ IsFiniteSet(Jobs)
    /\ {Poll, Timeout, Lease, RetryStep, RetryCap, MaxAttempts, AuditDelay} \subseteq Nat \ {0}
    /\ MaxStops \in Nat

VARIABLES job,   \* table jobs, with the state of the incident as far as it matters
          order, \* open jobs whose run_after has passed, earliest first
          loop,  \* runLoop and the attempt it runs
          timer, \* seconds to the next tick of the ticker
          tick,  \* the ticker's channel holds a tick
          stop,  \* the process was told to stop: the context of the loop is done
          stops  \* how often that happened

vars == <<job, order, loop, timer, tick, stop, stops>>

Larger(m, n) == IF m > n THEN m ELSE n
Waits == 0 .. Larger(RetryCap, AuditDelay)

\* wait: seconds to run_after; lease: seconds to lease_until; marked: the
\* incident is INVESTIGATING.  Attempts past the limit are all alike.
Open == [status : {"queued", "running"}, wait : Waits, lease : 0 .. Lease,
         attempt : 0 .. MaxAttempts, marked : BOOLEAN]
Absent == [status |-> "absent"]
Closed == [status |-> "closed"]

\* left: seconds to the deadline of the attempt; on its job the attempt has
\* still to mark the incident, found it marked by an earlier one, or marked it.
Attempt == [pc : {"opening", "inactive", "investigating"}, job : Jobs, left : 0 .. Timeout]
Loop == Attempt \cup [pc : {"poll", "select", "returned"}]

TypeOK ==
    /\ job \in [Jobs -> Open \cup {Absent, Closed}]
    /\ order \in Seq(Jobs)
    /\ IsInjective(order)
    /\ ToSet(order) = {j \in Jobs : job[j] \notin {Absent, Closed} /\ job[j].wait = 0}
    /\ loop \in Loop
    /\ timer \in 1 .. Poll
    /\ tick \in BOOLEAN
    /\ stop \in BOOLEAN
    /\ stops \in 0 .. MaxStops

Goes(pc) == loop' = [pc |-> pc]
Attempting == loop.pc \in {"opening", "inactive", "investigating"}
IsOpen(j) == job[j].status \in {"queued", "running"}

\* runLoop calls runOnce before it waits for the first tick.
Init ==
    /\ job = [j \in Jobs |-> Absent]
    /\ order = <<>>
    /\ loop = [pc |-> "poll"]
    /\ timer = Poll
    /\ tick = FALSE
    /\ stop = FALSE
    /\ stops = 0

-----------------------------------------------------------------------------
\* The gateway.

NewJob(wait) == [status |-> "queued", wait |-> wait, lease |-> 0, attempt |-> 0, marked |-> FALSE]

\* run_after of a new job is the time of its alert, which may be older than that
\* of jobs that wait already.
Enqueue(j) ==
    /\ job[j] = Absent
    /\ job' = [job EXCEPT ![j] = NewJob(0)]
    /\ \E at \in 1 .. Len(order) + 1 : order' = InsertAt(order, at, j)
    /\ UNCHANGED <<loop, timer, tick, stop, stops>>

Unqueues(j) ==
    IF j \in ToSet(order)
    THEN \E n \in DOMAIN order : order[n] = j /\ order' = RemoveAt(order, n)
    ELSE UNCHANGED order

Closes(j) ==
    /\ job' = [job EXCEPT ![j] = Closed]
    /\ Unqueues(j)

Recover(j) ==
    /\ IsOpen(j)
    /\ Closes(j)
    /\ UNCHANGED <<loop, timer, tick, stop, stops>>

-----------------------------------------------------------------------------
\* runLoop and runOnce.

ClaimableDuringLease(j) == IsOpen(j) /\ job[j].wait = 0

Claimable(j) ==
    /\ IsOpen(j)
    /\ job[j].wait = 0
    /\ job[j].status = "running" => job[j].lease = 0

\* ClaimNext: the earliest run_after, not the longest since the last attempt.
ClaimNext ==
    \E j \in Jobs, n \in DOMAIN order :
        LET attempt == IF job[j].attempt = MaxAttempts THEN MaxAttempts ELSE job[j].attempt + 1
        IN
        /\ order[n] = j
        /\ Claimable(j)
        /\ \A o \in 1 .. n - 1 : ~Claimable(order[o])
        /\ job' = [job EXCEPT ![j] = [@ EXCEPT !.status = "running", !.lease = Lease,
                                               !.attempt = attempt]]
        /\ loop' = [pc |-> IF job[j].marked THEN "inactive" ELSE "opening",
                    job |-> j, left |-> Timeout]

RunOnceDetached ==
    /\ loop.pc = "poll"
    /\ \/ ClaimNext
       \/ (\A j \in Jobs : ~Claimable(j)) /\ Goes("select") /\ UNCHANGED job
    /\ UNCHANGED <<order, timer, tick, stop, stops>>

\* The context of the attempt is a child of the loop's: when that is done, the
\* first call of RunOne fails and claims nothing.
RunOnce ==
    /\ loop.pc = "poll"
    /\ \/ ~stop /\ ClaimNext
       \/ /\ stop \/ \A j \in Jobs : ~Claimable(j)
          /\ Goes("select")
          /\ UNCHANGED job
    /\ UNCHANGED <<order, timer, tick, stop, stops>>

\* When a tick and the stop signal are both there, select takes either.
TakeTick ==
    /\ loop.pc = "select"
    /\ tick
    /\ tick' = FALSE
    /\ Goes("poll")
    /\ UNCHANGED <<job, order, timer, stop, stops>>

ReturnFromSelect ==
    /\ loop.pc = "select"
    /\ stop
    /\ Goes("poll")
    /\ UNCHANGED <<job, order, timer, tick, stop, stops>>

Return ==
    /\ loop.pc = "select"
    /\ stop
    /\ Goes("returned")
    /\ UNCHANGED <<job, order, timer, tick, stop, stops>>

-----------------------------------------------------------------------------
\* The attempt: RunOne as far as the queue can tell.  A recovery closes the job
\* of a running attempt, whose writes then match no row.

Live == Attempting /\ ~stop /\ loop.left > 0
OnOpenJob(pc) == Live /\ loop.pc \in pc /\ IsOpen(loop.job)

MarkInvestigating ==
    /\ OnOpenJob({"opening"})
    /\ job' = [job EXCEPT ![loop.job].marked = TRUE]
    /\ loop' = [loop EXCEPT !.pc = "investigating"]
    /\ UNCHANGED <<order, timer, tick, stop, stops>>

RetryDelayWithoutCap(attempt) == attempt * RetryStep

RetryDelay(attempt) ==
    IF attempt * RetryStep > RetryCap THEN RetryCap ELSE attempt * RetryStep

RetryOrFailJob ==
    LET j == loop.job IN
    /\ OnOpenJob({"opening", "investigating"})
    /\ IF job[j].attempt < MaxAttempts
       THEN /\ job' = [job EXCEPT ![j] = [@ EXCEPT !.status = "queued", !.lease = 0,
                                                   !.wait = RetryDelay(job[j].attempt)]]
            /\ Unqueues(j)
       ELSE Closes(j)
    /\ Goes("select")
    /\ UNCHANGED <<timer, tick, stop, stops>>

Complete ==
    /\ OnOpenJob({"investigating"})
    /\ Closes(loop.job)
    /\ Goes("select")
    /\ UNCHANGED <<timer, tick, stop, stops>>

\* The audit retry is a new job of an incident that can be marked again.
ScheduleAuditRetry ==
    /\ OnOpenJob({"investigating"})
    /\ \E new \in Jobs :
          /\ job[new] = Absent
          /\ job' = [job EXCEPT ![loop.job] = Closed, ![new] = NewJob(AuditDelay)]
    /\ Unqueues(loop.job)
    /\ Goes("select")
    /\ UNCHANGED <<timer, tick, stop, stops>>

\* RunOne returns and leaves the job as it is: the incident was marked before, a
\* recovery closed it, or the context is done and nothing more can be recorded.
LeaveJob ==
    /\ Attempting
    /\ \/ loop.pc = "inactive"
       \/ ~IsOpen(loop.job)
       \/ stop
       \/ loop.left = 0
    /\ Goes("select")
    /\ UNCHANGED <<job, order, timer, tick, stop, stops>>

-----------------------------------------------------------------------------
\* The process and the clock.

Signal ==
    /\ stops < MaxStops
    /\ ~stop /\ loop.pc # "returned"
    /\ stop' = TRUE
    /\ stops' = stops + 1
    /\ UNCHANGED <<job, order, loop, timer, tick>>

Killed ==
    /\ stops < MaxStops
    /\ loop.pc # "returned"
    /\ Goes("returned")
    /\ stops' = stops + 1
    /\ UNCHANGED <<job, order, timer, tick, stop>>

Start ==
    /\ loop.pc = "returned"
    /\ Goes("poll")
    /\ timer' = Poll
    /\ tick' = FALSE
    /\ stop' = FALSE
    /\ UNCHANGED <<job, order, stops>>

Urgent ==
    \/ loop.pc = "poll"
    \/ loop.pc = "select" /\ (tick \/ stop)
    \/ Attempting /\ (stop \/ loop.left = 0 \/ loop.pc = "inactive")

Less(n) == IF n = 0 THEN 0 ELSE n - 1
FallsDue(j) == IsOpen(j) /\ job[j].wait = 1

\* Jobs of one run_after are served by id.
ById(jobs) == \A m, n \in DOMAIN jobs : m < n => jobs[m] < jobs[n]

\* A tick that finds the channel full is dropped.
Clock ==
    /\ ~Urgent
    /\ job' = [j \in Jobs |->
                  IF IsOpen(j)
                  THEN [job[j] EXCEPT !.wait = Less(@), !.lease = Less(@)]
                  ELSE job[j]]
    /\ \E due \in SetToSeqs({j \in Jobs : FallsDue(j)}) : ById(due) /\ order' = order \o due
    /\ loop' = IF Attempting THEN [loop EXCEPT !.left = @ - 1] ELSE loop
    /\ timer' = IF timer = 1 THEN Poll ELSE timer - 1
    /\ tick' = (tick \/ timer = 1)
    /\ UNCHANGED <<stop, stops>>

AttemptStep ==
    \/ MarkInvestigating
    \/ RetryOrFailJob
    \/ Complete
    \/ ScheduleAuditRetry

LoopStep == RunOnce \/ TakeTick \/ LeaveJob

Next ==
    \/ \E j \in Jobs : Enqueue(j) \/ Recover(j)
    \/ AttemptStep
    \/ LoopStep
    \/ Return
    \/ Signal
    \/ Killed
    \/ Start
    \/ Clock

\* The loop does what it can do, the clock goes on, and somebody starts a
\* process that ended.  No attempt need ever succeed or fail.
Fairness ==
    /\ WF_vars(LoopStep)
    /\ WF_vars(Return)
    /\ WF_vars(Start)
    /\ WF_vars(Clock)

Spec == Init /\ [][Next]_vars /\ Fairness

-----------------------------------------------------------------------------
\* Safety.

\* No attempt starts after the process was told to stop, although the loop may
\* take another tick then.
NothingClaimedAfterStop ==
    [][stop => \A j \in Jobs :
          (job'[j].status = "running") =>
              job[j].status = "running" /\ job'[j].lease <= job[j].lease]_vars

-----------------------------------------------------------------------------
\* Liveness.

\* A process that is told to stop ends, whatever its attempt is doing and
\* however full the ticker's channel is.
StopEndsLoop == stop ~> loop.pc = "returned"

\* An attempt that is stalled before it marks its incident, until its deadline.
\* When a lease is not longer than a timeout, the same job is next again.
Stalled == loop.pc = "opening" /\ loop.left = 0

\* No job starves: one that can be claimed is claimed or closed, although jobs
\* whose incident is marked are claimed again whenever their lease ends and
\* come first for ever.  (As long as there are fewer jobs than polls in a lease,
\* and attempts stop stalling.)
EveryJobIsServed ==
    <>[]~Stalled => \A j \in Jobs : Claimable(j) ~> ~Claimable(j)

=============================================================================
