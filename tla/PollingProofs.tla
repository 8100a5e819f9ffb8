--------------------------- MODULE PollingProofs ---------------------------
(* Proofs about Polling, for any jobs and any intervals.                     *)
EXTENDS Polling, FiniteSetTheorems, SequenceTheorems, TLAPS

Rows == Open \cup {Absent, Closed}

\* The jobs, and what the loop knows of the one it attempts.
JobsInv == job \in [Jobs -> Rows] /\ loop \in Loop

\* What a step may do to a job once the process was told to stop.
RunsOnly(j) ==
    job'[j].status = "running" => job[j].status = "running" /\ job'[j].lease <= job[j].lease

LEMMA RowFacts ==
    ASSUME NEW row \in Rows
    PROVE  /\ row.status \in {"queued", "running"} => row \in Open
           /\ row \in Open => /\ row.status \in {"queued", "running"}
                              /\ row.wait \in Waits
                              /\ row.lease \in 0 .. Lease
                              /\ row.attempt \in 0 .. MaxAttempts
                              /\ row.marked \in BOOLEAN
           /\ row.status = "running" => row.lease \in Nat
<1>1. Absent.status = "absent" /\ Closed.status = "closed"
  BY DEF Absent, Closed
<1>2. row \in Open => /\ row.status \in {"queued", "running"}
                      /\ row.wait \in Waits
                      /\ row.lease \in 0 .. Lease
                      /\ row.attempt \in 0 .. MaxAttempts
                      /\ row.marked \in BOOLEAN
  BY DEF Open
<1>3. row.status \in {"queued", "running"} => row \in Open
  BY <1>1 DEF Rows
<1>4. \A n \in 0 .. Lease : n \in Nat
  OBVIOUS
<1> QED BY <1>2, <1>3, <1>4

LEMMA WaitFacts ==
    /\ {Poll, Timeout, Lease, RetryStep, RetryCap, MaxAttempts, AuditDelay} \subseteq Nat \ {0}
    /\ Larger(RetryCap, AuditDelay) \in Nat
    /\ \A n \in 0 .. RetryCap : n \in Waits
    /\ AuditDelay \in Waits /\ 0 \in Waits
    /\ \A n \in Waits : n \in Nat /\ Less(n) \in Waits
<1>1. {Poll, Timeout, Lease, RetryStep, RetryCap, MaxAttempts, AuditDelay} \subseteq Nat \ {0}
  BY PollingAssumption DEF PollingAssumption
<1>2. /\ Larger(RetryCap, AuditDelay) \in Nat
      /\ RetryCap <= Larger(RetryCap, AuditDelay) /\ AuditDelay <= Larger(RetryCap, AuditDelay)
  BY <1>1 DEF Larger
<1>3. \A n \in Nat : n <= Larger(RetryCap, AuditDelay) => n \in Waits
  BY <1>2 DEF Waits
<1>4. \A n \in Waits : n \in Nat /\ n <= Larger(RetryCap, AuditDelay)
  BY <1>2 DEF Waits
<1>5. \A n \in Waits : Less(n) \in Nat /\ Less(n) <= n
  BY <1>4 DEF Less
<1>6. \A n \in Waits : Less(n) \in Waits
  BY <1>2, <1>3, <1>4, <1>5
<1>7. \A n \in 0 .. RetryCap : n \in Nat /\ n <= Larger(RetryCap, AuditDelay)
  BY <1>1, <1>2
<1>8. AuditDelay \in Nat
  BY <1>1
<1> QED BY <1>1, <1>2, <1>3, <1>4, <1>6, <1>7, <1>8

LEMMA RetryDelayIsAWait ==
    ASSUME NEW attempt \in 0 .. MaxAttempts
    PROVE  RetryDelay(attempt) \in Waits
<1>1. RetryStep \in Nat /\ RetryCap \in Nat /\ MaxAttempts \in Nat
  BY WaitFacts
<1>2. attempt * RetryStep \in Nat
  BY <1>1
<1>3. RetryDelay(attempt) \in 0 .. RetryCap
  BY <1>1, <1>2 DEF RetryDelay
<1> QED BY <1>3, WaitFacts

LEMMA RetryDelayIsPositive ==
    ASSUME NEW attempt \in 0 .. MaxAttempts, attempt >= 1
    PROVE  RetryDelay(attempt) # 0
<1>1. RetryStep \in Nat \ {0} /\ RetryCap \in Nat \ {0} /\ MaxAttempts \in Nat
  BY WaitFacts
<1>2. attempt * RetryStep >= RetryStep
  BY <1>1
<1> QED BY <1>1, <1>2 DEF RetryDelay

\* What the loop attempts is a job, until the deadline.
LEMMA LoopFacts ==
    ASSUME loop \in Loop
    PROVE  /\ Attempting => loop \in Attempt /\ loop.job \in Jobs /\ loop.left \in 0 .. Timeout
           /\ \A pc \in {"poll", "select", "returned"} : [pc |-> pc] \in Loop
  BY DEF Loop, Attempt, Attempting

-----------------------------------------------------------------------------
\* The steps, by what they do to the jobs.

\* Every job stays, or is closed.
ClosesSome == \A j \in Jobs : job'[j] = job[j] \/ job'[j] = Closed

LEMMA ClosesSomeKeeps ==
    ASSUME JobsInv, DOMAIN job' = Jobs, job' = [j \in Jobs |-> job'[j]], ClosesSome, loop' \in Loop
    PROVE  JobsInv' /\ \A j \in Jobs : RunsOnly(j)
<1>1. \A j \in Jobs : job[j] \in Rows
  BY DEF JobsInv
<1>2. \A j \in Jobs : job'[j] \in Rows
  BY <1>1 DEF ClosesSome, Rows
<1>3. \A j \in Jobs : RunsOnly(j)
  BY <1>1, RowFacts DEF RunsOnly, ClosesSome, Closed
<1> QED BY <1>2, <1>3 DEF JobsInv

LEMMA ClosesKeeps ==
    ASSUME JobsInv, NEW j \in Jobs, Closes(j), loop' \in Loop
    PROVE  JobsInv' /\ \A k \in Jobs : RunsOnly(k)
  BY ClosesSomeKeeps DEF Closes, JobsInv, ClosesSome

LEMMA UnchangedKeeps ==
    ASSUME JobsInv, UNCHANGED job, loop' \in Loop
    PROVE  JobsInv' /\ \A k \in Jobs : RunsOnly(k)
  BY ClosesSomeKeeps DEF JobsInv, ClosesSome

\* One row changes.
LEMMA RowKeeps ==
    ASSUME JobsInv, NEW j \in Jobs, NEW row \in Rows, job' = [job EXCEPT ![j] = row], loop' \in Loop,
           row.status = "running" => job[j].status = "running" /\ row.lease <= job[j].lease
    PROVE  JobsInv' /\ \A k \in Jobs : RunsOnly(k)
<1>1. \A k \in Jobs : job[k] \in Rows /\ job'[k] = IF k = j THEN row ELSE job[k]
  BY DEF JobsInv
<1>2. \A k \in Jobs : job[k].status = "running" => job[k].lease <= job[k].lease
  BY <1>1, RowFacts
<1> QED BY <1>1, <1>2 DEF JobsInv, RunsOnly

LEMMA EnqueueKeeps ==
    ASSUME JobsInv, NEW j \in Jobs, Enqueue(j)
    PROVE  JobsInv' /\ \A k \in Jobs : RunsOnly(k)
<1>1. NewJob(0) \in Rows /\ NewJob(0).status = "queued"
  BY WaitFacts DEF NewJob, Rows, Open
<1> QED BY <1>1, RowKeeps DEF Enqueue, JobsInv

\* A claim needs a loop that was not told to stop.
LEMMA RunOnceKeeps ==
    ASSUME JobsInv, RunOnce
    PROVE  JobsInv' /\ (stop => \A k \in Jobs : RunsOnly(k))
<1>1. CASE ~stop /\ ClaimNext
  <2> DEFINE attempt(j) == IF job[j].attempt = MaxAttempts THEN MaxAttempts ELSE job[j].attempt + 1
  <2>1. PICK j \in Jobs :
           /\ Claimable(j)
           /\ job' = [job EXCEPT ![j] = [job[j] EXCEPT !.status = "running", !.lease = Lease,
                                                       !.attempt = attempt(j)]]
           /\ loop' = [pc |-> IF job[j].marked THEN "inactive" ELSE "opening",
                       job |-> j, left |-> Timeout]
    BY <1>1 DEF ClaimNext
  <2>2. job[j] \in Open
    BY <2>1, RowFacts DEF Claimable, IsOpen, JobsInv
  <2>3. attempt(j) \in 0 .. MaxAttempts
    BY <2>2, RowFacts, WaitFacts DEF Rows
  <2> HIDE DEF attempt
  <2>4. Lease \in 0 .. Lease /\ Timeout \in 0 .. Timeout
    BY WaitFacts
  <2>5. [job[j] EXCEPT !.status = "running", !.lease = Lease, !.attempt = attempt(j)] \in Open
    BY <2>2, <2>3, <2>4 DEF Open
  <2>6. job' \in [Jobs -> Rows]
    BY <2>1, <2>5 DEF JobsInv, Rows
  <2>7. loop' \in Loop
    BY <2>1, <2>4 DEF Loop, Attempt
  <2> QED BY <1>1, <2>6, <2>7 DEF JobsInv
<1>2. CASE Goes("select") /\ UNCHANGED job
  BY <1>2, UnchangedKeeps, LoopFacts DEF JobsInv, Goes
<1> QED BY <1>1, <1>2 DEF RunOnce

LEMMA LoopStepKeeps ==
    ASSUME JobsInv, TakeTick \/ LeaveJob \/ Return \/ Signal \/ Killed \/ Start
    PROVE  JobsInv' /\ \A k \in Jobs : RunsOnly(k)
<1>1. loop' \in Loop
  BY LoopFacts DEF JobsInv, TakeTick, LeaveJob, Return, Signal, Killed, Start, Goes
<1>2. UNCHANGED job
  BY DEF TakeTick, LeaveJob, Return, Signal, Killed, Start
<1> QED BY <1>1, <1>2, UnchangedKeeps

\* The steps of an attempt need a loop that was not told to stop, and change the
\* jobs that are open.
LEMMA AttemptStepKeeps ==
    ASSUME JobsInv, AttemptStep
    PROVE  JobsInv' /\ ~stop
<1> DEFINE j == loop.job
<1>1. /\ Attempting /\ ~stop /\ j \in Jobs /\ loop \in Attempt
      /\ job[j] \in Open
      /\ job \in [Jobs -> Rows]
  <2>1. Live /\ IsOpen(j)
    BY DEF AttemptStep, MarkInvestigating, RetryOrFailJob, Complete, ScheduleAuditRetry, OnOpenJob
  <2> QED BY <2>1, LoopFacts, RowFacts DEF Live, IsOpen, JobsInv
<1>2. [pc |-> "select"] \in Loop
  BY LoopFacts DEF JobsInv
<1>3. CASE MarkInvestigating
  <2>1. [job[j] EXCEPT !.marked = TRUE] \in Rows
    BY <1>1 DEF Open, Rows
  <2>2. job' \in [Jobs -> Rows]
    BY <1>1, <1>3, <2>1 DEF MarkInvestigating
  <2>3. loop' \in Loop
    BY <1>1, <1>3 DEF MarkInvestigating, Attempt, Loop
  <2> QED BY <1>1, <2>2, <2>3 DEF JobsInv
<1>4. CASE RetryOrFailJob
  <2>1. CASE Closes(j)
    BY <1>1, <1>2, <1>4, <2>1, ClosesKeeps DEF RetryOrFailJob, Goes
  <2> DEFINE wait == RetryDelay(job[j].attempt)
  <2>2. CASE job' = [job EXCEPT ![j] = [job[j] EXCEPT !.status = "queued", !.lease = 0,
                                                      !.wait = wait]]
    <3>1. wait \in Waits /\ 0 \in 0 .. Lease
      BY <1>1, RowFacts, RetryDelayIsAWait, WaitFacts DEF Rows
    <3> HIDE DEF wait
    <3>2. [job[j] EXCEPT !.status = "queued", !.lease = 0, !.wait = wait] \in Rows
      BY <1>1, <3>1 DEF Open, Rows
    <3>3. job' \in [Jobs -> Rows]
      BY <1>1, <2>2, <3>2
    <3> QED BY <1>1, <1>2, <1>4, <3>3 DEF RetryOrFailJob, Goes, JobsInv
  <2> QED BY <1>4, <2>1, <2>2 DEF RetryOrFailJob
<1>5. CASE Complete
  BY <1>1, <1>2, <1>5, ClosesKeeps DEF Complete, Goes
<1>6. CASE ScheduleAuditRetry
  <2>1. PICK new \in Jobs : job' = [job EXCEPT ![j] = Closed, ![new] = NewJob(AuditDelay)]
    BY <1>6 DEF ScheduleAuditRetry
  <2>2. NewJob(AuditDelay) \in Rows /\ Closed \in Rows
    BY WaitFacts DEF NewJob, Open, Rows
  <2>3. job' \in [Jobs -> Rows]
    BY <1>1, <2>1, <2>2
  <2> QED BY <1>1, <1>2, <1>6, <2>3 DEF ScheduleAuditRetry, Goes, JobsInv
<1> QED BY <1>1, <1>3, <1>4, <1>5, <1>6 DEF AttemptStep

\* The clock shortens what is left.
LEMMA ClockKeeps ==
    ASSUME JobsInv, Clock
    PROVE  JobsInv' /\ \A k \in Jobs : RunsOnly(k)
<1>1. ASSUME NEW k \in Jobs
      PROVE  job'[k] \in Rows /\ RunsOnly(k)
  <2>1. job[k] \in Rows
    BY DEF JobsInv
  <2>2. CASE ~IsOpen(k)
    <3>1. job'[k] = job[k]
      BY <2>2 DEF Clock
    <3> QED BY <2>1, <2>2, <3>1 DEF RunsOnly, IsOpen
  <2>3. CASE IsOpen(k)
    <3>1. job'[k] = [job[k] EXCEPT !.wait = Less(job[k].wait), !.lease = Less(job[k].lease)]
      BY <2>3 DEF Clock
    <3>2. /\ job[k] \in Open /\ job[k].wait \in Waits /\ job[k].lease \in 0 .. Lease
      BY <2>1, <2>3, RowFacts DEF IsOpen
    <3>3. Less(job[k].wait) \in Waits
      BY <3>2, WaitFacts
    <3>4. Less(job[k].lease) \in 0 .. Lease /\ Less(job[k].lease) <= job[k].lease
      BY <3>2, WaitFacts DEF Less
    <3>5. /\ job'[k] \in Open /\ job'[k].status = job[k].status
          /\ job'[k].lease = Less(job[k].lease)
      BY <3>1, <3>2, <3>3, <3>4 DEF Open
    <3> QED BY <3>4, <3>5 DEF RunsOnly, Rows
  <2> QED BY <2>2, <2>3
<1>2. loop' \in Loop
  <2>1. CASE Attempting
    <3>1. loop \in Attempt /\ loop.left \in 0 .. Timeout /\ loop.left # 0
      BY <2>1, LoopFacts DEF Clock, Urgent, JobsInv
    <3>2. loop.left - 1 \in 0 .. Timeout
      BY <3>1, WaitFacts
    <3>3. loop' = [loop EXCEPT !.left = loop.left - 1]
      BY <2>1 DEF Clock
    <3> QED BY <3>1, <3>2, <3>3 DEF Attempt, Loop
  <2>2. CASE ~Attempting
    BY <2>2 DEF Clock, JobsInv
  <2> QED BY <2>1, <2>2
<1>3. job' = [k \in Jobs |-> job'[k]]
  BY DEF Clock
<1> QED BY <1>1, <1>2, <1>3 DEF JobsInv

-----------------------------------------------------------------------------
(* The queue: a sequence that holds every due job once.                      *)

Lists(s, S) == s \in Seq(Jobs) /\ IsInjective(s) /\ ToSet(s) = S

Due == {j \in Jobs : job[j] \notin {Absent, Closed} /\ job[j].wait = 0}

\* The jobs of a list, by their places.
LEMMA ListedAt ==
    ASSUME NEW s \in Seq(Jobs), NEW S,
           \A n \in 1 .. Len(s) : s[n] \in S,
           \A j \in S : \E n \in 1 .. Len(s) : s[n] = j,
           \A m, n \in 1 .. Len(s) : m < n => s[m] # s[n]
    PROVE  Lists(s, S)
<1>1. DOMAIN s = 1 .. Len(s) /\ Len(s) \in Nat
  BY LenProperties
<1>2. \A m, n \in 1 .. Len(s) : s[m] = s[n] => m = n
  <2> SUFFICES ASSUME NEW m \in 1 .. Len(s), NEW n \in 1 .. Len(s), m # n PROVE s[m] # s[n]
    OBVIOUS
  <2>1. m < n \/ n < m
    BY <1>1
  <2> QED BY <2>1
<1> QED BY <1>1, <1>2 DEF Lists, IsInjective, ToSet

LEMMA PlacesOf ==
    ASSUME NEW s, NEW S, Lists(s, S)
    PROVE  /\ s \in Seq(Jobs)
           /\ Len(s) \in Nat
           /\ DOMAIN s = 1 .. Len(s)
           /\ \A n \in 1 .. Len(s) : s[n] \in S /\ s[n] \in Jobs
           /\ \A j \in S : \E n \in 1 .. Len(s) : s[n] = j
           /\ \A m, n \in 1 .. Len(s) : m # n => s[m] # s[n]
  BY LenProperties DEF Lists, IsInjective, ToSet

LEMMA RemoveOne ==
    ASSUME NEW s, NEW S, Lists(s, S), NEW n \in DOMAIN s
    PROVE  Lists(RemoveAt(s, n), S \ {s[n]})
<1> DEFINE a == SubSeq(s, 1, n - 1)
           b == SubSeq(s, n + 1, Len(s))
           t == RemoveAt(s, n)
<1>1. /\ Len(s) \in Nat /\ n \in 1 .. Len(s)
      /\ \A m \in 1 .. Len(s) : s[m] \in S /\ s[m] \in Jobs
      /\ \A j \in S : \E m \in 1 .. Len(s) : s[m] = j
      /\ \A l, m \in 1 .. Len(s) : l # m => s[l] # s[m]
  BY PlacesOf
<1>2. a \in Seq(Jobs) /\ Len(a) = n - 1 /\ \A m \in 1 .. n - 1 : a[m] = s[m]
  BY <1>1, SubSeqProperties
<1>3. /\ b \in Seq(Jobs) /\ Len(b) = Len(s) - n
      /\ \A m \in 1 .. Len(s) - n : b[m] = s[n + m]
  <2>1. \A m \in n + 1 .. Len(s) : s[m] \in Jobs
    BY <1>1
  <2>2. n + 1 \in Int /\ Len(s) \in Int
    BY <1>1
  <2>3. /\ b \in Seq(Jobs) /\ Len(b) = IF n + 1 <= Len(s) THEN Len(s) - (n + 1) + 1 ELSE 0
        /\ \A m \in 1 .. Len(s) - (n + 1) + 1 : b[m] = s[n + 1 + m - 1]
    BY <2>1, <2>2, SubSeqProperties
  <2> QED BY <1>1, <2>3
<1> HIDE DEF a, b
<1>4. /\ t \in Seq(Jobs) /\ Len(t) = Len(s) - 1
      /\ \A m \in 1 .. Len(s) - 1 : t[m] = IF m < n THEN s[m] ELSE s[m + 1]
  <2>1. t = a \o b
    BY DEF RemoveAt, a, b
  <2> HIDE DEF t
  <2>2. /\ t \in Seq(Jobs) /\ Len(t) = Len(a) + Len(b)
        /\ \A m \in 1 .. Len(a) + Len(b) : t[m] = IF m <= Len(a) THEN a[m] ELSE b[m - Len(a)]
    <3>1. a \in Seq(Jobs) /\ b \in Seq(Jobs)
      BY <1>2, <1>3
    <3> QED BY <2>1, <3>1, ConcatProperties
  <2>3. ASSUME NEW m \in 1 .. Len(s) - 1
        PROVE  t[m] = IF m < n THEN s[m] ELSE s[m + 1]
    <3>1. m \in 1 .. Len(a) + Len(b) /\ (m <= Len(a) <=> m < n)
      BY <1>1, <1>2, <1>3
    <3>2. t[m] = IF m < n THEN a[m] ELSE b[m - Len(a)]
      BY <2>2, <3>1
    <3>3. CASE m < n
      <4>1. m \in 1 .. n - 1
        BY <1>1, <3>3
      <4> QED BY <1>2, <3>2, <3>3, <4>1
    <3>4. CASE ~(m < n)
      <4>1. m - Len(a) \in 1 .. Len(s) - n /\ n + (m - Len(a)) = m + 1
        BY <1>1, <1>2, <3>4
      <4> QED BY <1>3, <3>2, <3>4, <4>1
    <3> QED BY <3>3, <3>4
  <2> QED BY <1>1, <1>2, <1>3, <2>2, <2>3
<1> HIDE DEF t
<1>5. ASSUME NEW m \in 1 .. Len(t)
      PROVE  t[m] \in S \ {s[n]}
  <2>1. CASE m < n
    BY <1>1, <1>4, <2>1
  <2>2. CASE ~(m < n)
    <3>1. m + 1 \in 1 .. Len(s) /\ m + 1 # n /\ t[m] = s[m + 1]
      BY <1>1, <1>4, <2>2
    <3> QED BY <1>1, <3>1
  <2> QED BY <2>1, <2>2
<1>6. ASSUME NEW j \in S \ {s[n]}
      PROVE  \E m \in 1 .. Len(t) : t[m] = j
  <2>1. PICK k \in 1 .. Len(s) : s[k] = j
    BY <1>1
  <2>2. CASE k < n
    BY <1>1, <1>4, <2>1, <2>2
  <2>3. CASE k > n
    <3>1. k - 1 \in 1 .. Len(t) /\ ~(k - 1 < n) /\ (k - 1) + 1 = k
      BY <1>1, <1>4, <2>3
    <3> QED BY <1>4, <2>1, <3>1
  <2> QED BY <1>1, <2>1, <2>2, <2>3
<1>7. ASSUME NEW l \in 1 .. Len(t), NEW m \in 1 .. Len(t), l < m
      PROVE  t[l] # t[m]
  <2> DEFINE place(k) == IF k < n THEN k ELSE k + 1
  <2>1. l \in 1 .. Len(s) - 1 /\ m \in 1 .. Len(s) - 1
    BY <1>4
  <2>2. t[l] = s[place(l)] /\ t[m] = s[place(m)]
    BY <1>4, <2>1
  <2>3. place(l) \in 1 .. Len(s) /\ place(m) \in 1 .. Len(s)
    BY <1>1, <2>1
  <2>4. place(l) # place(m)
    BY <1>1, <1>7, <2>1
  <2> HIDE DEF place
  <2> QED BY <1>1, <2>2, <2>3, <2>4
<1>8. Lists(t, S \ {s[n]})
  <2>1. t \in Seq(Jobs)
    BY <1>4
  <2> QED BY <1>5, <1>6, <1>7, <2>1, ListedAt
<1> QED BY <1>8 DEF t

LEMMA InsertOne ==
    ASSUME NEW s, NEW S, Lists(s, S), NEW at \in 1 .. Len(s) + 1, NEW j \in Jobs, j \notin S
    PROVE  Lists(InsertAt(s, at, j), S \cup {j})
<1> DEFINE a == SubSeq(s, 1, at - 1)
           b == SubSeq(s, at, Len(s))
           t == InsertAt(s, at, j)
<1>1. /\ Len(s) \in Nat
      /\ \A m \in 1 .. Len(s) : s[m] \in S /\ s[m] \in Jobs
      /\ \A k \in S : \E m \in 1 .. Len(s) : s[m] = k
      /\ \A l, m \in 1 .. Len(s) : l # m => s[l] # s[m]
  BY PlacesOf
<1>2. a \in Seq(Jobs) /\ Len(a) = at - 1 /\ \A m \in 1 .. at - 1 : a[m] = s[m]
  <2>1. \A m \in 1 .. at - 1 : s[m] \in Jobs
    BY <1>1
  <2> QED BY <1>1, <2>1, SubSeqProperties
<1>3. /\ b \in Seq(Jobs) /\ Len(b) = Len(s) - at + 1
      /\ \A m \in 1 .. Len(s) - at + 1 : b[m] = s[at + m - 1]
  <2>1. \A m \in at .. Len(s) : s[m] \in Jobs
    BY <1>1
  <2> QED BY <1>1, <2>1, SubSeqProperties
<1> HIDE DEF a, b
<1>4. /\ a \o <<j>> \in Seq(Jobs) /\ Len(a \o <<j>>) = at
      /\ \A m \in 1 .. at : (a \o <<j>>)[m] = IF m < at THEN s[m] ELSE j
  <2>1. <<j>> \in Seq(Jobs) /\ Len(<<j>>) = 1 /\ <<j>>[1] = j
    OBVIOUS
  <2>2. /\ a \o <<j>> \in Seq(Jobs) /\ Len(a \o <<j>>) = Len(a) + Len(<<j>>)
        /\ \A m \in 1 .. Len(a) + Len(<<j>>) :
              (a \o <<j>>)[m] = IF m <= Len(a) THEN a[m] ELSE <<j>>[m - Len(a)]
    BY <1>2, <2>1, ConcatProperties
  <2>3. ASSUME NEW m \in 1 .. at
        PROVE  (a \o <<j>>)[m] = IF m < at THEN s[m] ELSE j
    <3>1. CASE m < at
      BY <1>2, <2>1, <2>2, <3>1
    <3>2. CASE ~(m < at)
      <4>1. m - (at - 1) = 1
        BY <3>2
      <4> QED BY <1>2, <2>1, <2>2, <3>2, <4>1
    <3> QED BY <3>1, <3>2
  <2> QED BY <1>2, <2>1, <2>2, <2>3
<1>5. /\ t \in Seq(Jobs) /\ Len(t) = Len(s) + 1
      /\ \A m \in 1 .. Len(s) + 1 :
            t[m] = IF m < at THEN s[m] ELSE IF m = at THEN j ELSE s[m - 1]
  <2> DEFINE c == a \o <<j>>
  <2>1. t = c \o b
    BY DEF InsertAt, a, b
  <2>2. c \in Seq(Jobs) /\ Len(c) = at /\ \A m \in 1 .. at : c[m] = IF m < at THEN s[m] ELSE j
    BY <1>4
  <2> HIDE DEF c
  <2>3. /\ t \in Seq(Jobs) /\ Len(t) = Len(c) + Len(b)
        /\ \A m \in 1 .. Len(c) + Len(b) : t[m] = IF m <= Len(c) THEN c[m] ELSE b[m - Len(c)]
    BY <1>3, <2>1, <2>2, ConcatProperties
  <2>4. ASSUME NEW m \in 1 .. Len(s) + 1
        PROVE  t[m] = IF m < at THEN s[m] ELSE IF m = at THEN j ELSE s[m - 1]
    <3>1. CASE m <= at
      BY <1>1, <1>3, <2>2, <2>3, <3>1
    <3>2. CASE ~(m <= at)
      <4>1. m - at \in 1 .. Len(s) - at + 1 /\ at + (m - at) - 1 = m - 1
        BY <1>1, <3>2
      <4>2. t[m] = b[m - at]
        BY <1>1, <1>3, <2>2, <2>3, <3>2
      <4> QED BY <1>3, <3>2, <4>1, <4>2
    <3> QED BY <3>1, <3>2
  <2> QED BY <1>1, <1>3, <2>2, <2>3, <2>4
<1> HIDE DEF t
<1>6. ASSUME NEW m \in 1 .. Len(t)
      PROVE  t[m] \in S \cup {j}
  <2>1. m \in 1 .. Len(s) + 1
    BY <1>5
  <2>2. t[m] = IF m < at THEN s[m] ELSE IF m = at THEN j ELSE s[m - 1]
    BY <1>5, <2>1
  <2>3. (m < at => m \in 1 .. Len(s)) /\ (m > at => m - 1 \in 1 .. Len(s))
    BY <1>1, <2>1
  <2>4. m < at \/ m = at \/ m > at
    BY <1>1, <2>1
  <2> QED BY <1>1, <2>2, <2>3, <2>4
<1>7. ASSUME NEW k \in S \cup {j}
      PROVE  \E m \in 1 .. Len(t) : t[m] = k
  <2>1. CASE k = j
    BY <1>1, <1>5, <2>1
  <2>2. CASE k # j
    <3>1. PICK m \in 1 .. Len(s) : s[m] = k
      BY <1>1, <2>2
    <3>2. CASE m < at
      BY <1>1, <1>5, <3>1, <3>2
    <3>3. CASE ~(m < at)
      <4>1. m + 1 \in 1 .. Len(t) /\ ~(m + 1 < at) /\ m + 1 # at /\ (m + 1) - 1 = m
        BY <1>1, <1>5, <3>3
      <4> QED BY <1>5, <3>1, <4>1
    <3> QED BY <3>2, <3>3
  <2> QED BY <2>1, <2>2
<1>8. ASSUME NEW l \in 1 .. Len(t), NEW m \in 1 .. Len(t), l < m
      PROVE  t[l] # t[m]
  <2> DEFINE place(k) == IF k < at THEN k ELSE k - 1
  <2>1. \A k \in 1 .. Len(t) : k # at => place(k) \in 1 .. Len(s) /\ t[k] = s[place(k)]
    BY <1>1, <1>5
  <2>2. (l # at /\ m # at) => place(l) # place(m)
    BY <1>1, <1>5, <1>8
  <2>3. t[at] = j
    BY <1>1, <1>5
  <2> HIDE DEF place
  <2>4. CASE l # at /\ m # at
    BY <1>1, <2>1, <2>2, <2>4
  <2>5. CASE l = at /\ m # at
    <3>1. t[m] \in S
      BY <1>1, <2>1, <2>5
    <3> QED BY <2>3, <2>5, <3>1
  <2>6. CASE l # at /\ m = at
    <3>1. t[l] \in S
      BY <1>1, <2>1, <2>6
    <3> QED BY <2>3, <2>6, <3>1
  <2> QED BY <1>8, <2>4, <2>5, <2>6
<1>9. Lists(t, S \cup {j})
  <2>1. t \in Seq(Jobs)
    BY <1>5
  <2> QED BY <1>6, <1>7, <1>8, <2>1, ListedAt
<1> QED BY <1>9 DEF t

LEMMA AppendMore ==
    ASSUME NEW s, NEW S, Lists(s, S), NEW d, NEW D, Lists(d, D), S \cap D = {}
    PROVE  Lists(s \o d, S \cup D)
<1> DEFINE t == s \o d
<1>1. /\ s \in Seq(Jobs) /\ Len(s) \in Nat
      /\ \A m \in 1 .. Len(s) : s[m] \in S
      /\ \A k \in S : \E m \in 1 .. Len(s) : s[m] = k
      /\ \A l, m \in 1 .. Len(s) : l # m => s[l] # s[m]
  BY PlacesOf
<1>2. /\ d \in Seq(Jobs) /\ Len(d) \in Nat
      /\ \A m \in 1 .. Len(d) : d[m] \in D
      /\ \A k \in D : \E m \in 1 .. Len(d) : d[m] = k
      /\ \A l, m \in 1 .. Len(d) : l # m => d[l] # d[m]
  BY PlacesOf
<1>3. /\ t \in Seq(Jobs) /\ Len(t) = Len(s) + Len(d)
      /\ \A m \in 1 .. Len(s) + Len(d) : t[m] = IF m <= Len(s) THEN s[m] ELSE d[m - Len(s)]
  BY <1>1, <1>2, ConcatProperties
<1> HIDE DEF t
<1>4. \A m \in 1 .. Len(t) :
         IF m <= Len(s) THEN m \in 1 .. Len(s) /\ t[m] = s[m]
                        ELSE m - Len(s) \in 1 .. Len(d) /\ t[m] = d[m - Len(s)]
  BY <1>1, <1>2, <1>3
<1>5. ASSUME NEW m \in 1 .. Len(t)
      PROVE  t[m] \in S \cup D
  BY <1>1, <1>2, <1>4
<1>6. ASSUME NEW k \in S \cup D
      PROVE  \E m \in 1 .. Len(t) : t[m] = k
  <2>1. CASE k \in S
    BY <1>1, <1>2, <1>3, <2>1
  <2>2. CASE k \in D
    <3>1. PICK m \in 1 .. Len(d) : d[m] = k
      BY <1>2, <2>2
    <3>2. m + Len(s) \in 1 .. Len(t) /\ ~(m + Len(s) <= Len(s)) /\ (m + Len(s)) - Len(s) = m
      BY <1>1, <1>2, <1>3
    <3> QED BY <1>3, <3>1, <3>2
  <2> QED BY <2>1, <2>2
<1>7. ASSUME NEW l \in 1 .. Len(t), NEW m \in 1 .. Len(t), l < m
      PROVE  t[l] # t[m]
  <2>1. CASE m <= Len(s)
    <3>1. l <= Len(s) /\ l # m
      BY <1>1, <1>3, <1>7, <2>1
    <3> QED BY <1>1, <1>4, <2>1, <3>1
  <2>2. CASE ~(m <= Len(s)) /\ l <= Len(s)
    <3>1. t[l] \in S /\ t[m] \in D
      BY <1>1, <1>2, <1>4, <2>2
    <3> QED BY <3>1
  <2>3. CASE ~(m <= Len(s)) /\ ~(l <= Len(s))
    <3>1. l - Len(s) # m - Len(s)
      BY <1>1, <1>3, <1>7
    <3> QED BY <1>2, <1>4, <2>3, <3>1
  <2> QED BY <2>1, <2>2, <2>3
<1> QED BY <1>3, <1>5, <1>6, <1>7, ListedAt DEF t

\* A job leaves the queue.
LEMMA UnqueuesEffect ==
    ASSUME NEW S, Lists(order, S), NEW j \in Jobs, Unqueues(j)
    PROVE  Lists(order', S \ {j})
<1>1. CASE j \in S
  BY <1>1, RemoveOne DEF Unqueues, Lists
<1>2. CASE j \notin S
  BY <1>2 DEF Unqueues, Lists
<1> QED BY <1>1, <1>2

\* The jobs of a set, in any order.
LEMMA AllInSomeOrder ==
    ASSUME NEW D \in SUBSET Jobs, NEW due \in SetToSeqs(D)
    PROVE  Lists(due, D)
<1>1. IsFiniteSet(D) /\ Cardinality(D) \in Nat
  BY PollingAssumption, FS_Subset, FS_CardinalityType DEF PollingAssumption
<1>2. /\ due \in [1 .. Cardinality(D) -> D]
      /\ \A m, n \in 1 .. Cardinality(D) : m # n => due[m] # due[n]
  BY DEF SetToSeqs
<1>3. due \in Injection(1 .. Cardinality(D), D)
  BY <1>2 DEF Injection, IsInjective
<1>4. IsFiniteSet(1 .. Cardinality(D)) /\ Cardinality(1 .. Cardinality(D)) = Cardinality(D)
  BY <1>1, FS_Interval
<1>5. due \in Surjection(1 .. Cardinality(D), D)
  BY <1>1, <1>3, <1>4, FS_Injection
<1>6. due \in Seq(Jobs) /\ DOMAIN due = 1 .. Cardinality(D)
  BY <1>1, <1>2
<1> QED BY <1>2, <1>5, <1>6 DEF Surjection, Lists, IsInjective, ToSet

-----------------------------------------------------------------------------
(* The queue holds the due jobs in every state.                              *)

\* A job that is attempted was claimed, so its next retry is not immediate.
AttemptInv ==
    Attempting => /\ job[loop.job] # Absent
                  /\ IsOpen(loop.job) => job[loop.job].attempt >= 1

TickerInv ==
    /\ timer \in 1 .. Poll
    /\ tick \in BOOLEAN
    /\ stop \in BOOLEAN
    /\ stops \in 0 .. MaxStops

TypeInv == JobsInv /\ Lists(order, Due) /\ AttemptInv /\ TickerInv

LEMMA TypeInvIsStronger == TypeInv => TypeOK
BY DEF TypeInv, TypeOK, JobsInv, Lists, Due, TickerInv, Rows

\* A due job is one that is open.
LEMMA OpenRow ==
    ASSUME NEW row \in Rows
    PROVE  row \notin {Absent, Closed} <=> row.status \in {"queued", "running"}
<1>1. Absent.status = "absent" /\ Closed.status = "closed"
  BY DEF Absent, Closed
<1> QED BY <1>1, RowFacts DEF Rows

\* A job leaves the queue and the other jobs stay.
LEMMA LeavesQueue ==
    ASSUME JobsInv, Lists(order, Due), NEW j \in Jobs, Unqueues(j),
           \A k \in Jobs \ {j} : k \in Due' <=> k \in Due,
           j \notin Due'
    PROVE  Lists(order', Due')
<1>1. Lists(order', Due \ {j})
  BY UnqueuesEffect
<1>2. Due \subseteq Jobs /\ Due' \subseteq Jobs
  BY DEF Due
<1>3. Due' = Due \ {j}
  BY <1>2
<1> QED BY <1>1, <1>3

LEMMA ClosesQueue ==
    ASSUME JobsInv, Lists(order, Due), NEW j \in Jobs, Closes(j)
    PROVE  Lists(order', Due')
<1>1. /\ Unqueues(j)
      /\ job'[j] = Closed
      /\ \A k \in Jobs \ {j} : job'[k] = job[k]
  BY DEF Closes, JobsInv
<1>2. \A k \in Jobs \ {j} : k \in Due' <=> k \in Due
  BY <1>1 DEF Due
<1>3. j \notin Due'
  BY <1>1 DEF Due
<1> QED BY <1>1, <1>2, <1>3, LeavesQueue

LEMMA EnqueueQueue ==
    ASSUME JobsInv, Lists(order, Due), NEW j \in Jobs, Enqueue(j)
    PROVE  Lists(order', Due')
<1>1. /\ job[j] = Absent
      /\ job'[j] = NewJob(0)
      /\ \A k \in Jobs \ {j} : job'[k] = job[k]
  BY DEF Enqueue, JobsInv
<1>2. j \notin Due
  BY <1>1 DEF Due
<1>3. NewJob(0).status = "queued" /\ NewJob(0).wait = 0
  BY DEF NewJob
<1>4. NewJob(0) # Absent /\ NewJob(0) # Closed
  BY <1>3 DEF Absent, Closed
<1>5. Due' = Due \cup {j}
  BY <1>1, <1>3, <1>4 DEF Due
<1>6. PICK at \in 1 .. Len(order) + 1 : order' = InsertAt(order, at, j)
  BY DEF Enqueue
<1> QED BY <1>2, <1>5, <1>6, InsertOne

\* A job keeps its place in the queue while its attempts begin and are marked.
LEMMA SameQueue ==
    ASSUME JobsInv, JobsInv', Lists(order, Due), UNCHANGED order,
           \A k \in Jobs : \/ job[k] = job'[k]
                           \/ IsOpen(k) /\ IsOpen(k)' /\ job[k].wait = job'[k].wait
    PROVE  Lists(order', Due')
<1>1. ASSUME NEW k \in Jobs
      PROVE  k \in Due' <=> k \in Due
  <2>1. job[k] \in Rows /\ job'[k] \in Rows
    BY DEF JobsInv
  <2>2. CASE job[k] = job'[k]
    BY <2>2 DEF Due
  <2>3. CASE IsOpen(k) /\ IsOpen(k)' /\ job[k].wait = job'[k].wait
    BY <2>1, <2>3, OpenRow DEF Due, IsOpen
  <2> QED BY <2>2, <2>3
<1>2. Due \subseteq Jobs /\ Due' \subseteq Jobs
  BY DEF Due
<1>3. Due' = Due
  BY <1>1, <1>2
<1> QED BY <1>3

LEMMA RunOnceQueue ==
    ASSUME JobsInv, JobsInv', Lists(order, Due), RunOnce
    PROVE  Lists(order', Due')
<1>1. CASE ClaimNext
  <2> DEFINE attempt(j) == IF job[j].attempt = MaxAttempts THEN MaxAttempts ELSE job[j].attempt + 1
  <2>1. PICK j \in Jobs :
           /\ Claimable(j)
           /\ job' = [job EXCEPT ![j] = [job[j] EXCEPT !.status = "running", !.lease = Lease,
                                                       !.attempt = attempt(j)]]
    BY <1>1 DEF ClaimNext
  <2> HIDE DEF attempt
  <2>2. IsOpen(j) /\ job[j] \in Open
    BY <2>1, RowFacts DEF Claimable, IsOpen, JobsInv
  <2>3. job'[j].status = "running" /\ job'[j].wait = job[j].wait
    BY <2>1, <2>2 DEF JobsInv, Open
  <2>4. \A k \in Jobs : k # j => job'[k] = job[k]
    BY <2>1 DEF JobsInv
  <2>5. IsOpen(j)'
    BY <2>3 DEF IsOpen
  <2> QED BY <2>2, <2>3, <2>4, <2>5, SameQueue DEF RunOnce
<1>2. CASE UNCHANGED job
  BY <1>2, SameQueue DEF RunOnce
<1> QED BY <1>1, <1>2 DEF RunOnce

LEMMA AttemptStepQueue ==
    ASSUME JobsInv, JobsInv', AttemptInv, Lists(order, Due), AttemptStep
    PROVE  Lists(order', Due')
<1>1. PICK j \in Jobs : /\ j = loop.job /\ IsOpen(j)
                       /\ job[j] \in Open /\ job[j].attempt >= 1
  <2>1. Live /\ IsOpen(loop.job)
    BY DEF AttemptStep, MarkInvestigating, RetryOrFailJob, Complete, ScheduleAuditRetry, OnOpenJob
  <2> QED BY <2>1, LoopFacts, RowFacts DEF Live, IsOpen, JobsInv, AttemptInv
<1>2. CASE MarkInvestigating
  <2>1. job' = [job EXCEPT ![j] = [job[j] EXCEPT !.marked = TRUE]]
    BY <1>1, <1>2 DEF MarkInvestigating
  <2>2. job'[j].status = job[j].status /\ job'[j].wait = job[j].wait
    BY <1>1, <2>1 DEF JobsInv, Open
  <2>3. \A k \in Jobs : k # j => job'[k] = job[k]
    BY <2>1 DEF JobsInv
  <2>4. IsOpen(j)'
    BY <1>1, <2>2 DEF IsOpen
  <2>5. \A k \in Jobs : \/ job[k] = job'[k]
                        \/ IsOpen(k) /\ IsOpen(k)' /\ job[k].wait = job'[k].wait
    BY <1>1, <2>2, <2>3, <2>4
  <2> QED BY <1>2, <2>5, SameQueue DEF MarkInvestigating
<1>3. CASE RetryOrFailJob
  <2>1. CASE Closes(j)
    BY <1>1, <2>1, ClosesQueue
  <2> DEFINE wait == RetryDelay(job[j].attempt)
  <2>2. CASE /\ job' = [job EXCEPT ![j] = [job[j] EXCEPT !.status = "queued", !.lease = 0,
                                                         !.wait = wait]]
             /\ Unqueues(j)
    <3>1. wait # 0
      BY <1>1, RowFacts, RetryDelayIsPositive DEF Rows
    <3> HIDE DEF wait
    <3>2. job'[j].wait # 0
      BY <1>1, <2>2, <3>1 DEF JobsInv, Open
    <3>3. \A k \in Jobs \ {j} : job'[k] = job[k]
      BY <2>2 DEF JobsInv
    <3>4. /\ j \notin Due'
          /\ \A k \in Jobs \ {j} : k \in Due' <=> k \in Due
      BY <3>2, <3>3 DEF Due
    <3> QED BY <1>1, <2>2, <3>4, LeavesQueue
  <2> QED BY <1>1, <1>3, <2>1, <2>2 DEF RetryOrFailJob
<1>4. CASE Complete
  BY <1>1, <1>4, ClosesQueue DEF Complete
<1>5. CASE ScheduleAuditRetry
  <2>1. PICK new \in Jobs : /\ job[new] = Absent
                           /\ job' = [job EXCEPT ![j] = Closed, ![new] = NewJob(AuditDelay)]
    BY <1>1, <1>5 DEF ScheduleAuditRetry
  <2>2. new # j
    BY <1>1, <2>1 DEF IsOpen, Absent
  <2>3. /\ job'[j] = Closed /\ job'[new] = NewJob(AuditDelay)
        /\ \A k \in Jobs \ {j, new} : job'[k] = job[k]
    BY <1>1, <2>1, <2>2 DEF JobsInv
  <2>4. job'[new].wait # 0
    BY <2>3, WaitFacts DEF NewJob
  <2>5. j \notin Due' /\ new \notin Due' /\ new \notin Due
    BY <2>1, <2>3, <2>4 DEF Due
  <2>6. \A k \in Jobs \ {j} : k \in Due' <=> k \in Due
    BY <2>3, <2>5 DEF Due
  <2> QED BY <1>1, <1>5, <2>5, <2>6, LeavesQueue DEF ScheduleAuditRetry
<1> QED BY <1>2, <1>3, <1>4, <1>5 DEF AttemptStep

\* The jobs that fall due at a tick of the clock were not due before.
LEMMA ClockQueue ==
    ASSUME JobsInv, JobsInv', Lists(order, Due), Clock
    PROVE  Lists(order', Due')
<1> DEFINE D == {j \in Jobs : FallsDue(j)}
<1>1. ASSUME NEW j \in Jobs
      PROVE  /\ j \in D => j \notin Due
             /\ j \in Due' <=> j \in Due \/ j \in D
  <2>1. job[j] \in Rows /\ job'[j] \in Rows
    BY DEF JobsInv
  <2>2. CASE ~IsOpen(j)
    <3>1. job'[j] = job[j]
      BY <2>2 DEF Clock
    <3> QED BY <2>2, <3>1 DEF Due, FallsDue
  <2>3. CASE IsOpen(j)
    <3>1. job'[j] = [job[j] EXCEPT !.wait = Less(job[j].wait), !.lease = Less(job[j].lease)]
      BY <2>3 DEF Clock
    <3>2. job[j] \in Open /\ job[j].wait \in Nat
      BY <2>1, <2>3, RowFacts, WaitFacts DEF IsOpen
    <3>3. job'[j].status = job[j].status /\ job'[j].wait = Less(job[j].wait)
      BY <3>1, <3>2 DEF Open
    <3>4. Less(job[j].wait) = 0 <=> job[j].wait = 0 \/ job[j].wait = 1
      BY <3>2 DEF Less
    <3>5. j \in Due' <=> job'[j].wait = 0
      BY <2>1, <2>3, <3>3, OpenRow DEF Due, IsOpen
    <3>6. j \in Due <=> job[j].wait = 0
      BY <2>1, <2>3, OpenRow DEF Due, IsOpen
    <3> QED BY <2>3, <3>2, <3>3, <3>4, <3>5, <3>6 DEF FallsDue
  <2> QED BY <2>2, <2>3
<1>2. PICK due \in SetToSeqs(D) : order' = order \o due
  BY DEF Clock
<1>3. Lists(due, D)
  <2>1. D \in SUBSET Jobs
    OBVIOUS
  <2> HIDE DEF D
  <2> QED BY <2>1, AllInSomeOrder
<1>4. Due \subseteq Jobs /\ Due' \subseteq Jobs /\ D \subseteq Jobs
  BY DEF Due
<1> HIDE DEF D
<1>5. Due \cap D = {} /\ Due' = Due \cup D
  BY <1>1, <1>4
<1> QED BY <1>2, <1>3, <1>5, AppendMore

-----------------------------------------------------------------------------
(* The attempt at work and the ticker.                                       *)

\* The loop goes on to something else than an attempt.
LEMMA LeavesAttempt ==
    ASSUME loop' \in [pc : {"poll", "select", "returned"}]
    PROVE  AttemptInv'
  BY DEF AttemptInv, Attempting

\* The job of the attempt stays, or was another one.
LEMMA SameAttempt ==
    ASSUME AttemptInv, JobsInv,
           loop'.pc \in {"opening", "inactive", "investigating"} => Attempting /\ loop'.job = loop.job,
           \A k \in Jobs : job[k] # Absent =>
               \/ job'[k] = Closed
               \/ /\ job'[k] # Absent /\ IsOpen(k)
                  /\ job'[k].attempt = job[k].attempt
               \/ job'[k] = job[k]
    PROVE  AttemptInv'
<1> SUFFICES ASSUME Attempting'
             PROVE  /\ job'[loop'.job] # Absent
                    /\ IsOpen(loop.job)' => job'[loop'.job].attempt >= 1
  BY DEF AttemptInv
<1>1. Attempting /\ loop'.job = loop.job
  BY DEF Attempting
<1>2. loop.job \in Jobs /\ job[loop.job] # Absent
  BY <1>1, LoopFacts DEF AttemptInv, JobsInv
<1>3. CASE job'[loop.job] = Closed
  BY <1>1, <1>3 DEF IsOpen, Closed, Absent
<1>4. CASE /\ job'[loop.job] # Absent /\ IsOpen(loop.job)
           /\ job'[loop.job].attempt = job[loop.job].attempt
  BY <1>1, <1>4 DEF AttemptInv
<1>5. CASE job'[loop.job] = job[loop.job]
  BY <1>1, <1>2, <1>5 DEF AttemptInv, IsOpen
<1> QED BY <1>2, <1>3, <1>4, <1>5

LEMMA GatewayAttempt ==
    ASSUME JobsInv, AttemptInv, NEW j \in Jobs, Enqueue(j) \/ Recover(j)
    PROVE  AttemptInv'
<1>1. loop' = loop /\ (Attempting' => Attempting)
  BY DEF Enqueue, Recover, Attempting
<1>2. \A k \in Jobs : job[k] # Absent => job'[k] = Closed \/ job'[k] = job[k]
  BY DEF Enqueue, Recover, Closes, JobsInv
<1> QED BY <1>1, <1>2, SameAttempt DEF Attempting

LEMMA RunOnceAttempt ==
    ASSUME JobsInv, RunOnce
    PROVE  AttemptInv'
<1>1. CASE ClaimNext
  <2> DEFINE attempt(j) == IF job[j].attempt = MaxAttempts THEN MaxAttempts ELSE job[j].attempt + 1
  <2>1. PICK j \in Jobs :
           /\ Claimable(j)
           /\ job' = [job EXCEPT ![j] = [job[j] EXCEPT !.status = "running", !.lease = Lease,
                                                       !.attempt = attempt(j)]]
           /\ loop' = [pc |-> IF job[j].marked THEN "inactive" ELSE "opening",
                       job |-> j, left |-> Timeout]
    BY <1>1 DEF ClaimNext
  <2>2. job[j] \in Open /\ job[j].attempt \in 0 .. MaxAttempts
    BY <2>1, RowFacts DEF Claimable, IsOpen, JobsInv, Rows
  <2>3. attempt(j) >= 1
    BY <2>2, WaitFacts
  <2> HIDE DEF attempt
  <2>4. job'[j].status = "running" /\ job'[j].attempt >= 1
    BY <2>1, <2>2, <2>3 DEF JobsInv, Open
  <2>5. loop'.job = j
    BY <2>1
  <2>6. job'[j] # Absent
    BY <2>4 DEF Absent
  <2> QED BY <2>4, <2>5, <2>6 DEF AttemptInv
<1>2. CASE Goes("select")
  BY <1>2, LeavesAttempt DEF Goes
<1> QED BY <1>1, <1>2 DEF RunOnce

LEMMA AttemptStepAttempt ==
    ASSUME JobsInv, AttemptInv, AttemptStep
    PROVE  AttemptInv'
<1>1. CASE MarkInvestigating
  <2>1. PICK j \in Jobs : /\ j = loop.job /\ Attempting /\ IsOpen(j)
                         /\ loop \in Attempt /\ job[j] \in Open
    BY <1>1, LoopFacts, RowFacts DEF MarkInvestigating, OnOpenJob, Live, JobsInv, IsOpen
  <2>2. job' = [job EXCEPT ![j] = [job[j] EXCEPT !.marked = TRUE]]
        /\ loop' = [loop EXCEPT !.pc = "investigating"]
    BY <1>1, <2>1 DEF MarkInvestigating
  <2>3. loop'.job = j
    BY <2>1, <2>2 DEF Attempt
  <2>4. job'[j].status = job[j].status /\ job'[j].attempt = job[j].attempt
    BY <2>1, <2>2 DEF JobsInv, Open
  <2>5. job'[j] # Absent
    BY <2>1, <2>4 DEF IsOpen, Absent
  <2>6. \A k \in Jobs : k # j => job'[k] = job[k]
    BY <2>2 DEF JobsInv
  <2> QED BY <2>1, <2>3, <2>4, <2>5, <2>6, SameAttempt
<1>2. CASE RetryOrFailJob \/ Complete \/ ScheduleAuditRetry
  BY <1>2, LeavesAttempt DEF RetryOrFailJob, Complete, ScheduleAuditRetry, Goes
<1> QED BY <1>1, <1>2 DEF AttemptStep

LEMMA ClockAttempt ==
    ASSUME JobsInv, AttemptInv, Clock
    PROVE  AttemptInv'
<1>1. Attempting' => Attempting /\ loop'.job = loop.job
  <2>1. CASE Attempting
    <3>1. loop \in Attempt /\ loop' = [loop EXCEPT !.left = loop.left - 1]
      BY <2>1, LoopFacts DEF Clock, JobsInv
    <3> QED BY <2>1, <3>1 DEF Attempt
  <2>2. CASE ~Attempting
    BY <2>2 DEF Clock, Attempting
  <2> QED BY <2>1, <2>2
<1>2. ASSUME NEW k \in Jobs
      PROVE  \/ job'[k] # Absent /\ IsOpen(k) /\ job'[k].attempt = job[k].attempt
             \/ job'[k] = job[k]
  <2>1. CASE IsOpen(k)
    <3>1. job'[k] = [job[k] EXCEPT !.wait = Less(job[k].wait), !.lease = Less(job[k].lease)]
      BY <2>1 DEF Clock
    <3>2. job[k] \in Open
      BY <2>1, RowFacts DEF JobsInv, IsOpen
    <3>3. job'[k].status = job[k].status /\ job'[k].attempt = job[k].attempt
      BY <3>1, <3>2 DEF Open
    <3> QED BY <2>1, <3>3 DEF IsOpen, Absent
  <2>2. CASE ~IsOpen(k)
    BY <2>2 DEF Clock
  <2> QED BY <2>1, <2>2
<1> QED BY <1>1, <1>2, SameAttempt DEF Attempting

LEMMA TickerNext ==
    ASSUME TickerInv, Next
    PROVE  TickerInv'
<1>1. Poll \in Nat \ {0} /\ MaxStops \in Nat
  BY PollingAssumption DEF PollingAssumption
<1>2. CASE Clock
  <2>1. stop' = stop /\ stops' = stops /\ tick' = (tick \/ timer = 1)
    BY <1>2 DEF Clock
  <2>2. timer' \in 1 .. Poll
    <3>1. timer \in 1 .. Poll
      BY DEF TickerInv
    <3>2. timer' = IF timer = 1 THEN Poll ELSE timer - 1
      BY <1>2 DEF Clock
    <3> QED BY <1>1, <3>1, <3>2
  <2>3. tick' \in BOOLEAN
    BY <2>1
  <2> QED BY <2>1, <2>2, <2>3 DEF TickerInv
<1>3. CASE Signal \/ Killed
  <2>1. stops' \in 0 .. MaxStops
    BY <1>1, <1>3 DEF TickerInv, Signal, Killed
  <2>2. timer' = timer /\ tick' = tick /\ stop' \in {stop, TRUE}
    BY <1>3 DEF Signal, Killed
  <2> QED BY <2>1, <2>2 DEF TickerInv
<1>4. CASE Start
  <2>1. Poll \in 1 .. Poll
    BY <1>1
  <2> QED BY <1>4, <2>1 DEF TickerInv, Start
<1>5. CASE UNCHANGED <<timer, tick, stop, stops>> \/ TakeTick
  BY <1>5 DEF TickerInv, TakeTick
<1> QED BY <1>2, <1>3, <1>4, <1>5
  DEF Next, AttemptStep, LoopStep, Enqueue, Recover, MarkInvestigating, RetryOrFailJob, Complete,
      ScheduleAuditRetry, RunOnce, LeaveJob, Return

-----------------------------------------------------------------------------
\* The theorems.

LEMMA JobsInvNext ==
    ASSUME JobsInv, [Next]_vars
    PROVE  JobsInv' /\ (stop => \A j \in Jobs : RunsOnly(j))
<1>1. CASE UNCHANGED vars
  BY <1>1, UnchangedKeeps DEF vars, JobsInv
<1>2. ASSUME NEW j \in Jobs, Recover(j)
      PROVE  JobsInv' /\ \A k \in Jobs : RunsOnly(k)
  BY <1>2, ClosesKeeps DEF Recover, JobsInv
<1> QED
  BY <1>1, <1>2, EnqueueKeeps, RunOnceKeeps, LoopStepKeeps, AttemptStepKeeps, ClockKeeps
  DEF Next, LoopStep

LEMMA JobsInvInit == Init => JobsInv
BY LoopFacts DEF Init, JobsInv, Rows, Loop

\* The jobs and the attempt at work are well formed, whatever the intervals are.
THEOREM JobsAreTyped == Spec => []JobsInv
<1>1. JobsInv /\ [Next]_vars => JobsInv'
  BY JobsInvNext
<1> QED BY <1>1, JobsInvInit, PTL DEF Spec

LEMMA TypeInvInit == Init => TypeInv
<1> SUFFICES ASSUME Init PROVE TypeInv
  OBVIOUS
<1>1. Lists(order, Due)
  BY EmptySeq DEF Init, Lists, Due, IsInjective, ToSet
<1>2. AttemptInv
  BY DEF Init, AttemptInv, Attempting
<1>3. TickerInv
  <2>1. Poll \in 1 .. Poll /\ 0 \in 0 .. MaxStops
    BY PollingAssumption DEF PollingAssumption
  <2> QED BY <2>1 DEF Init, TickerInv
<1> QED BY <1>1, <1>2, <1>3, JobsInvInit DEF TypeInv

LEMMA TypeInvNext ==
    ASSUME TypeInv, [Next]_vars
    PROVE  TypeInv'
<1>1. CASE UNCHANGED vars
  BY <1>1, JobsInvNext DEF TypeInv, vars, Lists, Due, AttemptInv, Attempting, IsOpen, TickerInv
<1>2. CASE Next
  <2>1. JobsInv /\ Lists(order, Due) /\ AttemptInv /\ TickerInv /\ JobsInv' /\ TickerInv'
    BY <1>2, JobsInvNext, TickerNext DEF TypeInv
  <2>2. CASE \E j \in Jobs : Enqueue(j) \/ Recover(j)
    BY <2>1, <2>2, EnqueueQueue, ClosesQueue, GatewayAttempt DEF TypeInv, Recover
  <2>3. CASE AttemptStep
    BY <2>1, <2>3, AttemptStepQueue, AttemptStepAttempt DEF TypeInv
  <2>4. CASE RunOnce
    BY <2>1, <2>4, RunOnceQueue, RunOnceAttempt DEF TypeInv
  <2>5. CASE TakeTick \/ LeaveJob \/ Return \/ Killed \/ Start
    <3>1. UNCHANGED <<job, order>> /\ loop' \in [pc : {"poll", "select", "returned"}]
      BY <2>5 DEF TakeTick, LeaveJob, Return, Killed, Start, Goes
    <3> QED BY <2>1, <3>1, SameQueue, LeavesAttempt DEF TypeInv
  <2>6. CASE Signal
    <3>1. UNCHANGED <<job, order, loop>>
      BY <2>6 DEF Signal
    <3>2. AttemptInv'
      BY <2>1, <3>1 DEF AttemptInv, Attempting, IsOpen
    <3> QED BY <2>1, <3>1, <3>2, SameQueue DEF TypeInv
  <2>7. CASE Clock
    BY <2>1, <2>7, ClockQueue, ClockAttempt DEF TypeInv
  <2> QED BY <1>2, <2>2, <2>3, <2>4, <2>5, <2>6, <2>7 DEF Next, LoopStep
<1> QED BY <1>1, <1>2

\* The queue of the due jobs holds every job that is due, once, and no other,
\* for any jobs and intervals: ClaimNext looks at each job it may serve, and no
\* retry or audit retry is due at the instant it is recorded.
THEOREM TypeCorrect == Spec => []TypeOK
<1>1. TypeInv /\ [Next]_vars => TypeInv'
  BY TypeInvNext
<1> QED BY <1>1, TypeInvInit, TypeInvIsStronger, PTL DEF Spec

\* No attempt starts after the process was told to stop, for any number of jobs
\* and any poll interval, timeout and lease.
THEOREM StopEndsClaims == Spec => NothingClaimedAfterStop
<1>1. JobsInv /\ [Next]_vars =>
         [stop => \A j \in Jobs :
             (job'[j].status = "running") =>
                 job[j].status = "running" /\ job'[j].lease <= job[j].lease]_vars
  BY JobsInvNext DEF RunsOnly
<1> QED BY <1>1, JobsAreTyped, PTL DEF Spec, NothingClaimedAfterStop

=============================================================================
