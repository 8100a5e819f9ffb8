-------------------------- MODULE RcaSystemProofs --------------------------
(***************************************************************************)
(* Proofs about the running system, for any number of deliveries, workers, *)
(* hosts, incidents, jobs and cards, whatever strikes and however often.   *)
(*                                                                         *)
(* Six invariants carry them.  Each is inductive with those before it (but *)
(* FencedInv and RecoveryInv do without TimeInv, and RecoveryInv without   *)
(* FencedInv), and each is the part of the state one question is about:    *)
(*   LocalInv    what a handler remembers fits the rows and cards it is of *)
(*   JobInv      an incident's jobs, and the request about to queue one    *)
(*   ClaimInv    the claims in the memory of workers, fenced or stale      *)
(*   TimeInv     when an open job is due at the latest                     *)
(*   FencedInv   what a worker that still passes the fence may rely on     *)
(*   RecoveryInv who has yet to tell a card of a recovery, while Feishu    *)
(*               answers and attempts end in time                          *)
(* At the end the system is watched by a history variable, and shown to be *)
(* one of the callers StoreProofs proves the repository's promises to.     *)
(***************************************************************************)
EXTENDS RcaSystem, StoreLemmas

Working(w) == worker[w] # Idle
ClaimOf(w) == worker[w].claim
IncidentOf(w) == worker[w].claim.incident

-----------------------------------------------------------------------------
(* The invariants.                                                         *)

CardIsOf(m, i) == cards[m] # AbsentCard /\ cards[m].incident = i

IsRecovered(i) == incidents[i].state = "RECOVERED"

\* The card a row names is a card of that incident.
RowOK(i) ==
    (incidents[i] # AbsentIncident /\ incidents[i].card # NoCard) =>
        CardIsOf(incidents[i].card, i)

\* A handler that will announce a recovery has a card of a recovered incident.
RequestOK(d) ==
    At(d, "notify") => /\ cards[request[d].card] # AbsentCard
                       /\ IsRecovered(cards[request[d].card].incident)

StepsWithCard == Steps \ {"read", "check", "create", "retry"}
StepsWithRowCard == StepsWithCard \ {"save", "settle", "adopt", "announce", "card failed"}

\* A worker's incident exists, the card it remembers is a card of it, and is
\* there when a step needs one; so is the state when a step shows it.
WorkerOK(w) ==
    Working(w) =>
        /\ incidents[IncidentOf(w)] # AbsentIncident
        /\ worker[w].card # NoCard => CardIsOf(worker[w].card, IncidentOf(w))
        /\ worker[w].pc \in StepsWithCard => worker[w].card # NoCard
        /\ worker[w].pc \in StepsWithRowCard => incidents[IncidentOf(w)].card = worker[w].card
        /\ worker[w].pc \in {"check", "create"} => worker[w].state \in States
        /\ worker[w].pc \in {"card outcome", "commit"} =>
              worker[w].state \in {"COMPLETED", "AWAITING_AUDIT_EVENT"}
        /\ worker[w].pc \in {"adopt", "announce"} => IsRecovered(IncidentOf(w))

LocalInv ==
    /\ TypeOK
    /\ \A i \in IncidentIds : RowOK(i)
    /\ \A d \in Deliveries : RequestOK(d)
    /\ \A w \in Workers : WorkerOK(w)

\* A request about to queue the job of its incident is the only one, and the
\* incident has no job, open or closed.
JobOf(j, i) == jobs[j] # AbsentJob /\ jobs[j].incident = i

IsOpen(j) == jobs[j].status \in OpenStatuses

JobInv ==
    /\ \A j \in JobIds : jobs[j] # AbsentJob => incidents[jobs[j].incident] # AbsentIncident
    /\ \A d \in Deliveries :
          At(d, "enqueue") => /\ incidents[request[d].incident] # AbsentIncident
                              /\ \A j \in JobIds : ~JobOf(j, request[d].incident)
    /\ \A d, e \in Deliveries :
          (At(d, "enqueue") /\ At(e, "enqueue") /\ d # e) =>
              request[d].incident # request[e].incident
    /\ \A j, k \in JobIds :
          (IsOpen(j) /\ IsOpen(k) /\ jobs[j].incident = jobs[k].incident) => j = k

\* A claim in memory is behind its job as in StoreProofs, and no two workers
\* hold claims on a job with the same lease.
ClaimIsBehindJob(c) ==
    /\ jobs[c.job] \in Job
    /\ jobs[c.job].incident = c.incident
    /\ jobs[c.job].status = "RUNNING" => c.leaseUntil <= jobs[c.job].leaseUntil
    /\ jobs[c.job].status = "QUEUED" => c.leaseUntil < jobs[c.job].runAfter + Lease

ClaimInv ==
    /\ \A w \in Workers :
          Working(w) => /\ worker[w].at <= now
                        /\ ClaimOf(w).leaseUntil = worker[w].at + Lease
                        /\ ClaimIsBehindJob(ClaimOf(w))
    /\ \A v, w \in Workers :
          (v # w /\ Working(v) /\ Working(w) /\ ClaimOf(v).job = ClaimOf(w).job) =>
              ClaimOf(v).leaseUntil # ClaimOf(w).leaseUntil

\* A claimed job is held for a lease; one in the queue waits for a back-off or an
\* audit delay that has begun, or for the time of the alert it was queued for.
IsDueInTime(j) ==
    /\ jobs[j].status = "RUNNING" => jobs[j].leaseUntil <= now + Lease
    /\ jobs[j].status = "QUEUED" =>
          \/ jobs[j].runAfter <= now + RetryCap
          \/ jobs[j].runAfter <= now + AuditDelay
          \/ jobs[j].runAfter <= incidents[jobs[j].incident].alertAt

AlertIsOf(d) ==
    At(d, "enqueue") => incidents[request[d].incident].alertAt = Event[d].at

TimeInv ==
    /\ \A j \in JobIds : IsDueInTime(j)
    /\ \A d \in Deliveries : AlertIsOf(d)

\* From the marking to the transaction that closes the job, a worker whose claim
\* is good investigates an incident nobody else moves, and what it shows last
\* stays on the card.
StepsOfInvestigation == {"card investigating", "gather", "run", "card outcome", "commit"}

FencedOK(w) ==
    (Working(w) /\ CheckActiveClaim(ClaimOf(w))) =>
        /\ worker[w].pc \in StepsOfInvestigation =>
              incidents[IncidentOf(w)].state = "INVESTIGATING"
        /\ worker[w].pc = "commit" => cards[worker[w].card].shows = worker[w].state

CompletedOK(i) ==
    incidents[i].state = "COMPLETED" =>
        /\ incidents[i].card # NoCard
        /\ cards[incidents[i].card].shows = "COMPLETED"

FencedInv ==
    /\ \A w \in Workers : FencedOK(w)
    /\ \A i \in IncidentIds : CompletedOK(i)

-----------------------------------------------------------------------------
(* What the assignments to the variables of the processes and the cards do. *)

\* Worker w goes on with its claim.
Continues(w, pc, state, card) ==
    /\ WorkerTypeOK'
    /\ worker'[w] \in Busy
    /\ worker'[w].pc = pc
    /\ worker'[w].claim = worker[w].claim
    /\ worker'[w].at = worker[w].at
    /\ worker'[w].state = state
    /\ worker'[w].card = card
    /\ \A v \in Workers \ {w} : worker'[v] = worker[v]

Leaves(w) ==
    /\ WorkerTypeOK'
    /\ worker'[w] = Idle
    /\ \A v \in Workers \ {w} : worker'[v] = worker[v]

LEMMA BusyWorker ==
    ASSUME WorkerTypeOK, NEW w \in Workers
    PROVE  /\ Working(w) => worker[w] \in Busy
           /\ worker[w].pc \in Steps => worker[w] \in Busy
           /\ worker[w].pc \in Steps => Working(w)
           /\ worker[w].pc = "idle" => ~Working(w)
  <1>1. worker[w] = Idle \/ worker[w] \in Busy
    BY DEF WorkerTypeOK
  <1>2. Idle.pc = "idle" /\ "idle" \notin Steps
    BY DEF Idle, Steps
  <1>3. worker[w] \in Busy => worker[w].pc \in Steps
    BY DEF Busy
  <1> QED
    BY <1>1, <1>2, <1>3 DEF Working

LEMMA MovesWithEffect ==
    ASSUME WorkerTypeOK, NEW w \in Workers, worker[w] \in Busy, NEW pc \in Steps,
           NEW state \in States \cup {"UNREAD"}, NEW card \in MessageIds \cup {NoCard},
           MovesWith(w, pc, state, card)
    PROVE  Continues(w, pc, state, card)
  <1> DEFINE row == [worker[w] EXCEPT !.pc = pc, !.state = state, !.card = card]
  <1>1. worker' = [worker EXCEPT ![w] = row]
    BY DEF MovesWith
  <1>2. /\ row \in Busy
        /\ row.pc = pc
        /\ row.claim = worker[w].claim
        /\ row.at = worker[w].at
        /\ row.state = state
        /\ row.card = card
    BY DEF Busy
  <1> HIDE DEF row
  <1>3. worker'[w] = row /\ \A v \in Workers \ {w} : worker'[v] = worker[v]
    BY <1>1 DEF WorkerTypeOK
  <1>4. WorkerTypeOK'
    BY <1>1, <1>2 DEF WorkerTypeOK
  <1> QED
    BY <1>2, <1>3, <1>4 DEF Continues

LEMMA MovesEffect ==
    ASSUME WorkerTypeOK, NEW w \in Workers, worker[w] \in Busy, NEW pc \in Steps, Moves(w, pc)
    PROVE  Continues(w, pc, worker[w].state, worker[w].card)
  <1> DEFINE row == [worker[w] EXCEPT !.pc = pc]
  <1>1. worker' = [worker EXCEPT ![w] = row]
    BY DEF Moves
  <1>2. /\ row \in Busy
        /\ row.pc = pc
        /\ row.claim = worker[w].claim
        /\ row.at = worker[w].at
        /\ row.state = worker[w].state
        /\ row.card = worker[w].card
    BY DEF Busy
  <1> HIDE DEF row
  <1>3. worker'[w] = row /\ \A v \in Workers \ {w} : worker'[v] = worker[v]
    BY <1>1 DEF WorkerTypeOK
  <1>4. WorkerTypeOK'
    BY <1>1, <1>2 DEF WorkerTypeOK
  <1> QED
    BY <1>2, <1>3, <1>4 DEF Continues

LEMMA ReturnsEffect ==
    ASSUME WorkerTypeOK, NEW w \in Workers, Returns(w)
    PROVE  Leaves(w)
  BY DEF WorkerTypeOK, Returns, Leaves

CardShows(m, i, s) ==
    /\ cards' \in [MessageIds -> Card \cup {AbsentCard}]
    /\ cards'[m] \in Card
    /\ cards'[m].incident = i
    /\ cards'[m].shows = s
    /\ \A o \in MessageIds \ {m} : cards'[o] = cards[o]

LEMMA CardIsThere ==
    ASSUME NEW m, NEW i, NEW s, CardShows(m, i, s)
    PROVE  cards'[m] # AbsentCard /\ cards'[m].incident = i
  <1>1. \A c \in Card : c # AbsentCard
    BY DEF Card, AbsentCard, States, ActiveStates, TerminalStates
  <1> QED
    BY <1>1 DEF CardShows

LEMMA CreateCardEffect ==
    ASSUME EnvironmentTypeOK, NEW m \in MessageIds, NEW i \in IncidentIds, NEW s \in States,
           CreateIncidentCard(m, i, s)
    PROVE  cards[m] = AbsentCard /\ CardShows(m, i, s)
  <1> DEFINE row == [incident |-> i, shows |-> s]
  <1>1. row \in Card /\ row.incident = i /\ row.shows = s
    BY DEF Card
  <1>2. cards' = [cards EXCEPT ![m] = row] /\ cards[m] = AbsentCard
    BY DEF CreateIncidentCard
  <1> HIDE DEF row
  <1> QED
    BY <1>1, <1>2 DEF EnvironmentTypeOK, CardShows

LEMMA UpdateCardEffect ==
    ASSUME EnvironmentTypeOK, NEW m \in MessageIds, cards[m] # AbsentCard, NEW s \in States,
           UpdateIncidentCard(m, s)
    PROVE  CardShows(m, cards[m].incident, s)
  <1> DEFINE row == [cards[m] EXCEPT !.shows = s]
  <1>1. cards[m] \in Card
    BY DEF EnvironmentTypeOK
  <1>2. row \in Card /\ row.incident = cards[m].incident /\ row.shows = s
    BY <1>1 DEF Card
  <1>3. cards' = [cards EXCEPT ![m] = row]
    BY DEF UpdateIncidentCard
  <1> HIDE DEF row
  <1> QED
    BY <1>2, <1>3 DEF EnvironmentTypeOK, CardShows

Request == [pc : {"arriving", "lookup", "accepted", "refused", "error"}]
           \cup [pc : {"enqueue"}, incident : IncidentIds]
           \cup [pc : {"notify"}, card : MessageIds]

LEMMA GoesToEffect ==
    ASSUME RequestTypeOK, NEW d \in Deliveries, NEW step \in Request, GoesTo(d, step)
    PROVE  /\ RequestTypeOK'
           /\ request'[d] = step
           /\ \A e \in Deliveries \ {d} : request'[e] = request[e]
  BY DEF RequestTypeOK, GoesTo, Request

LEMMA RequestFields ==
    ASSUME RequestTypeOK, NEW d \in Deliveries
    PROVE  /\ At(d, "enqueue") => request[d].incident \in IncidentIds
           /\ At(d, "notify") => request[d].card \in MessageIds
  BY DEF RequestTypeOK, At

-----------------------------------------------------------------------------
(* Rows and cards are never taken back: what LocalInv says of a process is *)
(* stable while another one moves.                                         *)

RowsGrow ==
    \A i \in IncidentIds :
        incidents[i] # AbsentIncident =>
            /\ incidents'[i] # AbsentIncident
            /\ incidents[i].card # NoCard => incidents'[i].card = incidents[i].card
            /\ incidents[i].state = "RECOVERED" => incidents'[i].state = "RECOVERED"

CardsGrow ==
    \A m \in MessageIds :
        cards[m] # AbsentCard =>
            cards'[m] # AbsentCard /\ cards'[m].incident = cards[m].incident

TablesGrow == RowsGrow /\ CardsGrow /\ \A i \in IncidentIds : RowOK(i)'

LEMMA CardsKept ==
    ASSUME UNCHANGED cards
    PROVE  CardsGrow
  BY DEF CardsGrow

LEMMA CardShownGrows ==
    ASSUME NEW m \in MessageIds, NEW i, NEW s, CardShows(m, i, s),
           cards[m] = AbsentCard \/ cards[m].incident = i
    PROVE  CardsGrow
  BY DEF CardsGrow, CardShows, Card, AbsentCard

LEMMA CardOfRow ==
    ASSUME StoreTypeOK, NEW i \in IncidentIds, incidents[i] # AbsentIncident
    PROVE  /\ incidents[i] \in Incident
           /\ incidents[i].state \in States
           /\ incidents[i].card \in MessageIds \cup {NoCard}
  BY DEF StoreTypeOK, Incident, States

LEMMA RowsKept ==
    ASSUME StoreTypeOK, \A i \in IncidentIds : RowOK(i), UNCHANGED incidents, CardsGrow
    PROVE  TablesGrow
  <1>1. RowsGrow
    BY DEF RowsGrow
  <1>2. \A i \in IncidentIds : RowOK(i)'
    BY CardOfRow DEF RowOK, CardIsOf, CardsGrow
  <1> QED
    BY <1>1, <1>2 DEF TablesGrow

LEMMA StateGrows ==
    ASSUME StoreTypeOK, \A i \in IncidentIds : RowOK(i), NEW i \in IncidentIds, NEW s,
           StateBecomes(i, s), incidents[i].state # "RECOVERED", UNCHANGED cards
    PROVE  TablesGrow
  <1>1. incidents[i] # AbsentIncident /\ incidents'[i] # AbsentIncident
    BY DEF StateBecomes, Incident, AbsentIncident
  <1>2. RowsGrow
    BY <1>1 DEF RowsGrow, StateBecomes
  <1>3. \A o \in IncidentIds : RowOK(o)'
    BY <1>1 DEF RowOK, CardIsOf, StateBecomes
  <1> QED
    BY <1>2, <1>3, CardsKept DEF TablesGrow

LEMMA CardGrows ==
    ASSUME StoreTypeOK, \A i \in IncidentIds : RowOK(i), NEW i \in IncidentIds,
           NEW m \in MessageIds, CardBecomes(i, m), CardIsOf(m, i), UNCHANGED cards
    PROVE  TablesGrow
  <1>1. incidents[i] # AbsentIncident /\ incidents'[i] # AbsentIncident
    BY DEF CardBecomes, Incident, AbsentIncident
  <1>2. RowsGrow
    BY <1>1 DEF RowsGrow, CardBecomes
  <1>3. \A o \in IncidentIds : RowOK(o)'
    BY <1>1 DEF RowOK, CardIsOf, CardBecomes
  <1> QED
    BY <1>2, <1>3, CardsKept DEF TablesGrow

LEMMA InsertGrows ==
    ASSUME StoreTypeOK, \A i \in IncidentIds : RowOK(i), NEW i \in IncidentIds,
           incidents[i] = AbsentIncident, incidents'[i].card = NoCard,
           \A o \in IncidentIds \ {i} : incidents'[o] = incidents[o], UNCHANGED cards
    PROVE  TablesGrow
  <1>1. RowsGrow
    BY DEF RowsGrow
  <1>2. \A o \in IncidentIds : RowOK(o)'
    BY DEF RowOK, CardIsOf
  <1> QED
    BY <1>1, <1>2, CardsKept DEF TablesGrow

\* What LocalInv says of a worker, with the types filled in.
LEMMA WorkerFacts ==
    ASSUME LocalInv, NEW w \in Workers, worker[w] \in Busy
    PROVE  /\ ClaimOf(w) \in Claim
           /\ IncidentOf(w) \in IncidentIds
           /\ incidents[IncidentOf(w)] \in Incident
           /\ incidents[IncidentOf(w)] # AbsentIncident
           /\ incidents[IncidentOf(w)].state \in States
           /\ incidents[IncidentOf(w)].card \in MessageIds \cup {NoCard}
           /\ worker[w].state \in States \cup {"UNREAD"}
           /\ worker[w].card \in MessageIds \cup {NoCard}
           /\ worker[w].at \in Nat
           /\ worker[w].card # NoCard => CardIsOf(worker[w].card, IncidentOf(w))
           /\ incidents[IncidentOf(w)].card # NoCard =>
                 CardIsOf(incidents[IncidentOf(w)].card, IncidentOf(w))
           /\ worker[w].pc \in StepsWithCard => worker[w].card \in MessageIds
           /\ worker[w].pc \in StepsWithRowCard => incidents[IncidentOf(w)].card = worker[w].card
           /\ worker[w].pc \in {"check", "create"} => worker[w].state \in States
           /\ worker[w].pc \in {"card outcome", "commit"} =>
                 worker[w].state \in {"COMPLETED", "AWAITING_AUDIT_EVENT"}
           /\ worker[w].pc \in {"adopt", "announce"} => IsRecovered(IncidentOf(w))
  <1>1. Working(w)
    BY BusyWorker DEF LocalInv, TypeOK, Busy
  <1>2. /\ ClaimOf(w) \in Claim
        /\ IncidentOf(w) \in IncidentIds
        /\ worker[w].state \in States \cup {"UNREAD"}
        /\ worker[w].card \in MessageIds \cup {NoCard}
        /\ worker[w].at \in Nat
    BY DEF Busy, ClaimOf, IncidentOf, Claim
  <1>3. WorkerOK(w) /\ RowOK(IncidentOf(w)) /\ StoreTypeOK
    BY <1>2 DEF LocalInv, TypeOK
  <1> QED
    BY <1>1, <1>2, <1>3, CardOfRow DEF WorkerOK, RowOK

LEMMA WorkerStable ==
    ASSUME LocalInv, NEW w \in Workers, TablesGrow, worker'[w] = worker[w]
    PROVE  WorkerOK(w)'
  <1> SUFFICES ASSUME Working(w)'
               PROVE  WorkerOK(w)'
    BY DEF WorkerOK
  <1>1. Working(w) /\ worker[w] \in Busy
    BY BusyWorker DEF Working, LocalInv, TypeOK
  <1>2. ClaimOf(w)' = ClaimOf(w) /\ IncidentOf(w)' = IncidentOf(w)
    BY DEF ClaimOf, IncidentOf
  <1>3. /\ incidents'[IncidentOf(w)] # AbsentIncident
        /\ worker[w].pc \in StepsWithRowCard => incidents'[IncidentOf(w)].card = worker[w].card
        /\ worker[w].pc \in {"adopt", "announce"} =>
              incidents'[IncidentOf(w)].state = "RECOVERED"
    <2>1. /\ IncidentOf(w) \in IncidentIds
          /\ incidents[IncidentOf(w)] # AbsentIncident
          /\ worker[w].pc \in StepsWithRowCard =>
                /\ worker[w].card # NoCard
                /\ incidents[IncidentOf(w)].card = worker[w].card
          /\ worker[w].pc \in {"adopt", "announce"} =>
                incidents[IncidentOf(w)].state = "RECOVERED"
      BY <1>1, WorkerFacts, EnvironmentAssumption DEF StepsWithRowCard, IsRecovered
    <2> QED
      BY <2>1 DEF TablesGrow, RowsGrow
  <1>4. worker[w].card # NoCard =>
           cards'[worker[w].card] # AbsentCard /\ cards'[worker[w].card].incident = IncidentOf(w)
    BY <1>1, WorkerFacts DEF TablesGrow, CardsGrow, CardIsOf
  <1>5. WorkerOK(w)
    BY DEF LocalInv
  <1> QED
    BY <1>1, <1>2, <1>3, <1>4, <1>5 DEF WorkerOK, CardIsOf, IsRecovered

LEMMA RequestStable ==
    ASSUME LocalInv, NEW d \in Deliveries, TablesGrow, request'[d] = request[d]
    PROVE  RequestOK(d)'
  <1> SUFFICES ASSUME At(d, "notify")
               PROVE  /\ cards'[request[d].card] # AbsentCard
                      /\ incidents'[cards'[request[d].card].incident].state = "RECOVERED"
    BY DEF RequestOK, At, IsRecovered
  <1>1. /\ cards[request[d].card] # AbsentCard
        /\ incidents[cards[request[d].card].incident].state = "RECOVERED"
        /\ request[d].card \in MessageIds
    BY RequestFields DEF LocalInv, TypeOK, RequestOK, IsRecovered
  <1>2. cards[request[d].card] \in Card
    BY <1>1 DEF LocalInv, TypeOK, EnvironmentTypeOK
  <1>3. cards[request[d].card].incident \in IncidentIds
    BY <1>2 DEF Card
  <1>4. incidents[cards[request[d].card].incident] # AbsentIncident
    BY <1>1 DEF AbsentIncident
  <1> QED
    BY <1>1, <1>3, <1>4 DEF TablesGrow, RowsGrow, CardsGrow

\* A step of worker w keeps LocalInv if it keeps the tables and its own part.
LEMMA WorkerStepKeeps ==
    ASSUME LocalInv, NEW w \in Workers, StoreTypeOK', EnvironmentTypeOK', WorkerTypeOK',
           TablesGrow, UNCHANGED request,
           \A v \in Workers \ {w} : worker'[v] = worker[v], WorkerOK(w)'
    PROVE  LocalInv'
  <1>1. RequestTypeOK'
    BY DEF LocalInv, TypeOK, RequestTypeOK
  <1>2. \A v \in Workers : WorkerOK(v)'
    BY WorkerStable
  <1>3. \A d \in Deliveries : RequestOK(d)'
    BY RequestStable
  <1> QED
    BY <1>1, <1>2, <1>3 DEF LocalInv, TypeOK, TablesGrow

LEMMA WorkerLeaves ==
    ASSUME LocalInv, NEW w \in Workers, StoreTypeOK', EnvironmentTypeOK', TablesGrow,
           UNCHANGED request, Leaves(w)
    PROVE  LocalInv'
  BY WorkerStepKeeps DEF Leaves, WorkerOK, Working

LEMMA WorkerGoesOn ==
    ASSUME LocalInv, NEW w \in Workers, worker[w] \in Busy, StoreTypeOK', EnvironmentTypeOK',
           TablesGrow, UNCHANGED request,
           NEW pc, NEW state, NEW card, Continues(w, pc, state, card),
           card # NoCard => cards'[card] # AbsentCard /\ cards'[card].incident = IncidentOf(w),
           pc \in StepsWithCard => card # NoCard,
           pc \in StepsWithRowCard => incidents'[IncidentOf(w)].card = card,
           pc \in {"check", "create"} => state \in States,
           pc \in {"card outcome", "commit"} => state \in {"COMPLETED", "AWAITING_AUDIT_EVENT"},
           pc \in {"adopt", "announce"} => incidents'[IncidentOf(w)].state = "RECOVERED"
    PROVE  LocalInv'
  <1>1. incidents'[IncidentOf(w)] # AbsentIncident
    BY WorkerFacts DEF TablesGrow, RowsGrow
  <1>2. IncidentOf(w)' = IncidentOf(w)
    BY DEF Continues, IncidentOf
  <1>3. WorkerOK(w)'
    BY <1>1, <1>2 DEF WorkerOK, Continues, CardIsOf, IsRecovered
  <1> QED
    BY <1>3, WorkerStepKeeps DEF Continues

LEMMA NowType ==
    ASSUME EnvironmentTypeOK
    PROVE  now \in Nat /\ MaxTime \in Nat /\ now <= MaxTime
  <1>1. now \in 0..MaxTime /\ MaxTime \in Nat
    BY EnvironmentAssumption DEF EnvironmentTypeOK
  <1> QED
    BY <1>1

LEMMA FaultsType ==
    ASSUME EnvironmentTypeOK, NEW w, NEW kind,
           Works(w) \/ Breaks(w, kind) \/ Strikes(kind)
    PROVE  faults' \in 0..MaxFaults
  <1>1. faults' = faults \/ (faults < MaxFaults /\ faults' = faults + 1)
    BY DEF Works, Breaks, Strikes
  <1>2. faults \in 0..MaxFaults /\ MaxFaults \in Nat
    BY EnvironmentAssumption DEF EnvironmentTypeOK
  <1> QED
    BY <1>1, <1>2

-----------------------------------------------------------------------------
(* The steps of a worker keep LocalInv.                                    *)

LEMMA EnvironmentKept ==
    ASSUME EnvironmentTypeOK, UNCHANGED <<now, cards>>, faults' \in 0..MaxFaults
    PROVE  EnvironmentTypeOK'
  BY DEF EnvironmentTypeOK

LEMMA EnvironmentShown ==
    ASSUME EnvironmentTypeOK, UNCHANGED now, faults' \in 0..MaxFaults,
           NEW m, NEW i, NEW s, CardShows(m, i, s)
    PROVE  EnvironmentTypeOK'
  BY DEF EnvironmentTypeOK, CardShows

LEMMA FailStepIs ==
    ASSUME NEW w
    PROVE  /\ FailStep(w) \in {"card failed", "retry"}
           /\ FailStep(w) = "card failed" => worker[w].card # NoCard
  BY DEF FailStep

\* A step that changes neither the tables nor the cards, and after which the
\* worker goes on with what it remembers, or returns.
LEMMA QuietStep ==
    ASSUME LocalInv, NEW w \in Workers, worker[w] \in Busy,
           UNCHANGED <<storeVars, now, cards, request>>, faults' \in 0..MaxFaults,
           \/ Returns(w)
           \/ /\ Moves(w, "retry") \/ Moves(w, FailStep(w))
           \/ worker[w].pc = "check" /\ Moves(w, "create")
           \/ worker[w].pc = "gather" /\ Moves(w, "run")
           \/ worker[w].pc = "save" /\ Moves(w, "settle")
           \/ /\ worker[w].pc = "settle"
              /\ IsRecovered(IncidentOf(w))
              /\ Moves(w, "adopt")
    PROVE  LocalInv'
  <1>0. StoreTypeOK /\ EnvironmentTypeOK /\ WorkerTypeOK /\ \A i \in IncidentIds : RowOK(i)
    BY DEF LocalInv, TypeOK
  <1>1. /\ StoreTypeOK'
        /\ EnvironmentTypeOK'
        /\ UNCHANGED <<incidents, cards, request>>
        /\ TablesGrow
    <2>1. UNCHANGED <<incidents, jobs, snapshots, cards, request>>
      BY DEF storeVars
    <2> QED
      BY <1>0, <2>1, EnvironmentKept, CardsKept, RowsKept DEF StoreTypeOK
  <1>2. CASE Returns(w)
    BY <1>0, <1>1, <1>2, ReturnsEffect, WorkerLeaves
  <1>3. ASSUME NEW pc \in Steps, Moves(w, pc),
               pc \in StepsWithCard => worker[w].card # NoCard,
               pc \in StepsWithRowCard => incidents[IncidentOf(w)].card = worker[w].card,
               pc = "create" => worker[w].state \in States,
               pc \notin {"check", "card outcome", "commit", "announce"},
               pc = "adopt" => IsRecovered(IncidentOf(w))
        PROVE  LocalInv'
    <2>1. Continues(w, pc, worker[w].state, worker[w].card)
      BY <1>0, <1>3, MovesEffect
    <2>2. worker[w].card # NoCard =>
             cards'[worker[w].card] # AbsentCard /\ cards'[worker[w].card].incident = IncidentOf(w)
      BY <1>1, WorkerFacts DEF CardIsOf
    <2> HIDE DEF Steps, StepsWithCard, StepsWithRowCard
    <2> QED
      BY <1>1, <1>3, <2>1, <2>2, WorkerGoesOn DEF IsRecovered
  <1>4. CASE Moves(w, "retry") \/ Moves(w, FailStep(w))
    BY <1>3, <1>4, FailStepIs DEF Steps, StepsWithCard, StepsWithRowCard
  <1>5. CASE worker[w].pc = "check" /\ Moves(w, "create")
    BY <1>3, <1>5, WorkerFacts DEF Steps, StepsWithCard, StepsWithRowCard
  <1>6. CASE worker[w].pc = "gather" /\ Moves(w, "run")
    BY <1>3, <1>6, WorkerFacts, EnvironmentAssumption
    DEF Steps, StepsWithCard, StepsWithRowCard
  <1>7. CASE worker[w].pc = "save" /\ Moves(w, "settle")
    BY <1>3, <1>7, WorkerFacts, EnvironmentAssumption
    DEF Steps, StepsWithCard, StepsWithRowCard
  <1>8. CASE worker[w].pc = "settle" /\ IsRecovered(IncidentOf(w)) /\ Moves(w, "adopt")
    BY <1>3, <1>8, WorkerFacts, EnvironmentAssumption
    DEF Steps, StepsWithCard, StepsWithRowCard
  <1> QED
    BY <1>2, <1>4, <1>5, <1>6, <1>7, <1>8

\* A step that changes neither the tables nor the cards, and that reads the
\* incident again or receives the outcome of the model run.
LEMMA ReadingStep ==
    ASSUME LocalInv, NEW w \in Workers, worker[w] \in Busy,
           UNCHANGED <<storeVars, now, cards, request>>, faults' \in 0..MaxFaults,
           NEW pc \in {"check", "mark", "announce", "card outcome"},
           NEW state \in States, NEW card \in MessageIds \cup {NoCard},
           card = incidents[IncidentOf(w)].card,
           pc # "check" => card # NoCard,
           pc = "announce" => IsRecovered(IncidentOf(w)),
           pc = "card outcome" => state \in {"COMPLETED", "AWAITING_AUDIT_EVENT"},
           MovesWith(w, pc, state, card)
    PROVE  LocalInv'
  <1>0. StoreTypeOK /\ EnvironmentTypeOK /\ WorkerTypeOK /\ \A i \in IncidentIds : RowOK(i)
    BY DEF LocalInv, TypeOK
  <1>1. UNCHANGED <<incidents, jobs, snapshots, cards, request>>
    BY DEF storeVars
  <1>2. StoreTypeOK' /\ EnvironmentTypeOK' /\ TablesGrow
    BY <1>0, <1>1, EnvironmentKept, CardsKept, RowsKept DEF StoreTypeOK
  <1>3. Continues(w, pc, state, card)
    <2>1. pc \in Steps
      BY DEF Steps
    <2> QED
      BY <1>0, <2>1, MovesWithEffect
  <1>4. card # NoCard => cards'[card] # AbsentCard /\ cards'[card].incident = IncidentOf(w)
    BY <1>1, WorkerFacts DEF CardIsOf
  <1>5. /\ pc \in StepsWithCard => card # NoCard
        /\ pc \in StepsWithRowCard => incidents'[IncidentOf(w)].card = card
        /\ pc \in {"adopt", "announce"} => incidents'[IncidentOf(w)].state = "RECOVERED"
        /\ pc \in {"card outcome", "commit"} => state \in {"COMPLETED", "AWAITING_AUDIT_EVENT"}
    BY <1>1 DEF StepsWithCard, IsRecovered
  <1> QED
    BY <1>1, <1>2, <1>3, <1>4, <1>5, WorkerGoesOn

\* A step that puts a state on the card of the incident.
LEMMA CardStep ==
    ASSUME LocalInv, NEW w \in Workers, worker[w] \in Busy,
           worker[w].pc \in StepsWithCard, NEW s \in States,
           UpdateIncidentCard(worker[w].card, s), faults' \in 0..MaxFaults,
           UNCHANGED <<storeVars, now, request>>,
           \/ Returns(w)
           \/ Moves(w, "retry") \/ Moves(w, FailStep(w))
           \/ worker[w].pc = "card investigating" /\ Moves(w, "gather")
           \/ worker[w].pc = "card outcome" /\ Moves(w, "commit")
    PROVE  LocalInv' /\ CardShows(worker[w].card, IncidentOf(w), s)
  <1>0. StoreTypeOK /\ EnvironmentTypeOK /\ WorkerTypeOK /\ \A i \in IncidentIds : RowOK(i)
    BY DEF LocalInv, TypeOK
  <1>1. UNCHANGED <<incidents, jobs, snapshots, request>>
    BY DEF storeVars
  <1>2. /\ worker[w].card \in MessageIds
        /\ worker[w].card # NoCard
        /\ cards[worker[w].card] # AbsentCard
        /\ cards[worker[w].card].incident = IncidentOf(w)
    BY WorkerFacts, EnvironmentAssumption DEF CardIsOf
  <1>3. CardShows(worker[w].card, IncidentOf(w), s)
    BY <1>0, <1>2, UpdateCardEffect
  <1>4. StoreTypeOK' /\ EnvironmentTypeOK' /\ TablesGrow
    <2>1. StoreTypeOK'
      BY <1>0, <1>1 DEF StoreTypeOK
    <2>2. EnvironmentTypeOK' /\ CardsGrow
      BY <1>0, <1>2, <1>3, EnvironmentShown, CardShownGrows
    <2> QED
      BY <1>0, <1>1, <2>1, <2>2, RowsKept
  <1>5. CASE Returns(w)
    BY <1>0, <1>1, <1>3, <1>4, <1>5, ReturnsEffect, WorkerLeaves
  <1>6. ASSUME NEW pc \in Steps, Moves(w, pc),
               pc \in StepsWithRowCard => incidents[IncidentOf(w)].card = worker[w].card,
               pc \notin {"check", "create", "card outcome", "announce", "adopt"},
               pc = "commit" => worker[w].state \in {"COMPLETED", "AWAITING_AUDIT_EVENT"}
        PROVE  LocalInv'
    <2>1. Continues(w, pc, worker[w].state, worker[w].card)
      BY <1>0, <1>6, MovesEffect
    <2>2. cards'[worker[w].card] # AbsentCard /\ cards'[worker[w].card].incident = IncidentOf(w)
      BY <1>3, CardIsThere
    <2> HIDE DEF Steps, StepsWithCard, StepsWithRowCard
    <2> QED
      BY <1>1, <1>2, <1>4, <1>6, <2>1, <2>2, WorkerGoesOn
  <1>7. CASE Moves(w, "retry") \/ Moves(w, FailStep(w))
    BY <1>3, <1>6, <1>7, FailStepIs DEF Steps, StepsWithCard, StepsWithRowCard
  <1>8. CASE worker[w].pc = "card investigating" /\ Moves(w, "gather")
    BY <1>3, <1>6, <1>8, WorkerFacts DEF Steps, StepsWithCard, StepsWithRowCard
  <1>9. CASE worker[w].pc = "card outcome" /\ Moves(w, "commit")
    BY <1>3, <1>6, <1>9, WorkerFacts DEF Steps, StepsWithCard, StepsWithRowCard
  <1> QED
    BY <1>3, <1>5, <1>7, <1>8, <1>9

LEMMA ReadIncidentLocal ==
    ASSUME LocalInv, NEW w \in Workers, ReadIncident(w), UNCHANGED request
    PROVE  LocalInv'
  <1>1. worker[w] \in Busy /\ EnvironmentTypeOK
    BY BusyWorker DEF ReadIncident, In, Steps, LocalInv, TypeOK
  <1>2. faults' \in 0..MaxFaults /\ UNCHANGED <<storeVars, now, cards, request>>
    BY <1>1, FaultsType DEF ReadIncident
  <1> DEFINE card == incidents[IncidentOf(w)].card
             pc == IF card = NoCard THEN "check" ELSE "mark"
  <1>3. CASE MovesWith(w, pc, incidents[IncidentOf(w)].state, card)
    BY <1>1, <1>2, <1>3, WorkerFacts, ReadingStep
  <1>4. CASE Moves(w, "retry")
    BY <1>1, <1>2, <1>4, QuietStep
  <1> QED
    BY <1>3, <1>4 DEF ReadIncident, IncidentOf

LEMMA RereadIncidentLocal ==
    ASSUME LocalInv, NEW w \in Workers, RereadIncident(w), UNCHANGED request
    PROVE  LocalInv'
  <1>1. worker[w] \in Busy /\ EnvironmentTypeOK /\ worker[w].pc = "reread"
    BY BusyWorker DEF RereadIncident, In, Steps, LocalInv, TypeOK
  <1>2. faults' \in 0..MaxFaults /\ UNCHANGED <<storeVars, now, cards, request>>
    BY <1>1, FaultsType DEF RereadIncident
  <1> DEFINE row == incidents[IncidentOf(w)]
             pc == IF row.state = "RECOVERED" THEN "announce" ELSE "mark"
  <1>3. row.card # NoCard
    BY <1>1, WorkerFacts, EnvironmentAssumption DEF StepsWithRowCard, StepsWithCard, Steps
  <1>4. CASE MovesWith(w, pc, row.state, row.card)
    BY <1>1, <1>2, <1>3, <1>4, WorkerFacts, ReadingStep DEF IsRecovered
  <1>5. CASE Moves(w, "retry")
    BY <1>1, <1>2, <1>5, QuietStep
  <1> QED
    BY <1>4, <1>5 DEF RereadIncident, IncidentOf

LEMMA RunModelLocal ==
    ASSUME LocalInv, NEW w \in Workers, RunModel(w), UNCHANGED request
    PROVE  LocalInv'
  <1>1. worker[w] \in Busy /\ EnvironmentTypeOK /\ worker[w].pc = "run"
    BY BusyWorker DEF RunModel, In, Steps, LocalInv, TypeOK
  <1>2. faults' \in 0..MaxFaults /\ UNCHANGED <<storeVars, now, cards, request>>
    BY <1>1, FaultsType DEF RunModel
  <1>3. worker[w].card # NoCard /\ worker[w].card = incidents[IncidentOf(w)].card
    BY <1>1, WorkerFacts, EnvironmentAssumption DEF StepsWithRowCard, StepsWithCard, Steps
  <1>4. ASSUME NEW outcome \in Outcomes, MovesWith(w, "card outcome", outcome, worker[w].card)
        PROVE  LocalInv'
    <2>1. outcome \in {"COMPLETED", "AWAITING_AUDIT_EVENT"} /\ outcome \in States
      BY WorkerAssumption DEF States, ActiveStates, TerminalStates
    <2> QED
      BY <1>1, <1>2, <1>3, <1>4, <2>1, WorkerFacts, ReadingStep
  <1>5. CASE Moves(w, FailStep(w))
    BY <1>1, <1>2, <1>5, QuietStep
  <1> QED
    BY <1>4, <1>5 DEF RunModel

\* The steps that only go on or return.
LEMMA QuietLocal ==
    ASSUME LocalInv, NEW w \in Workers, UNCHANGED request,
           \/ CheckBeforeCreate(w)
           \/ SettleLostCard(w)
           \/ GatherEvidence(w)
           \/ WorkerCrash(w)
    PROVE  LocalInv'
  <1>0. EnvironmentTypeOK /\ WorkerTypeOK
    BY DEF LocalInv, TypeOK
  <1>1. CASE CheckBeforeCreate(w)
    BY <1>0, <1>1, BusyWorker, FaultsType, QuietStep DEF CheckBeforeCreate, In, Steps
  <1>2. CASE SettleLostCard(w)
    BY <1>0, <1>2, BusyWorker, FaultsType, QuietStep
    DEF SettleLostCard, In, Steps, IsRecovered, IncidentOf
  <1>3. CASE GatherEvidence(w)
    BY <1>0, <1>3, BusyWorker, FaultsType, QuietStep DEF GatherEvidence, In, Steps
  <1>4. CASE WorkerCrash(w)
    <2>1. worker[w] \in Busy
      <3>1. worker[w].pc # "idle"
        BY <1>4 DEF WorkerCrash, In
      <3> QED
        BY <1>0, <3>1 DEF WorkerTypeOK, Idle
    <2>2. faults' \in 0..MaxFaults
      BY <1>0, <1>4, FaultsType DEF WorkerCrash
    <2>3. UNCHANGED <<storeVars, now, cards, request>> /\ Returns(w)
      BY <1>4 DEF WorkerCrash
    <2> QED
      BY <2>1, <2>2, <2>3, QuietStep
  <1> QED
    BY <1>1, <1>2, <1>3, <1>4

\* The fenced update of the card, in any of its three places.
LEMMA UpdateCardLocal ==
    ASSUME LocalInv, NEW w \in Workers, worker[w] \in Busy, UNCHANGED request,
           worker[w].pc \in StepsWithCard, NEW s \in States,
           \/ worker[w].pc = "card investigating" /\ UpdateCard(w, s, "gather", FailStep(w))
           \/ worker[w].pc = "card outcome" /\ UpdateCard(w, s, "commit", FailStep(w))
           \/ UpdateCard(w, s, "retry", "retry")
    PROVE  LocalInv'
  <1>1. EnvironmentTypeOK
    BY DEF LocalInv, TypeOK
  <1>2. faults' \in 0..MaxFaults /\ UNCHANGED <<storeVars, now, request>>
    <2>1. EnvironmentTypeOK /\ faults \in 0..MaxFaults
      BY <1>1 DEF EnvironmentTypeOK
    <2> QED
      BY <2>1, FaultsType DEF UpdateCard
  <1>3. CASE UNCHANGED cards /\ (Returns(w) \/ Moves(w, "retry") \/ Moves(w, FailStep(w)))
    BY <1>2, <1>3, QuietStep
  <1>4. CASE /\ UpdateIncidentCard(worker[w].card, s)
             /\ \/ Moves(w, "retry") \/ Moves(w, FailStep(w))
                \/ worker[w].pc = "card investigating" /\ Moves(w, "gather")
                \/ worker[w].pc = "card outcome" /\ Moves(w, "commit")
    BY <1>2, <1>4, CardStep
  <1> QED
    BY <1>3, <1>4 DEF UpdateCard, PerhapsUpdated

LEMMA ShowLocal ==
    ASSUME LocalInv, NEW w \in Workers, UNCHANGED request,
           ShowInvestigating(w) \/ ShowOutcome(w) \/ ShowFailure(w)
    PROVE  LocalInv'
  <1>0. WorkerTypeOK /\ {"INVESTIGATING", "FAILED"} \subseteq States
    BY DEF LocalInv, TypeOK, States, ActiveStates, TerminalStates
  <1>1. CASE ShowInvestigating(w)
    BY <1>0, <1>1, BusyWorker, UpdateCardLocal DEF ShowInvestigating, In, Steps, StepsWithCard
  <1>2. CASE ShowOutcome(w)
    <2>1. worker[w].pc = "card outcome" /\ worker[w] \in Busy
      BY <1>0, <1>2, BusyWorker DEF ShowOutcome, In, Steps
    <2>2. worker[w].state \in States
      BY <2>1, WorkerFacts DEF States, ActiveStates, TerminalStates
    <2> QED
      BY <1>2, <2>1, <2>2, UpdateCardLocal DEF ShowOutcome, Steps, StepsWithCard
  <1>3. CASE ShowFailure(w)
    BY <1>0, <1>3, BusyWorker, UpdateCardLocal DEF ShowFailure, In, Steps, StepsWithCard
  <1> QED
    BY <1>1, <1>2, <1>3

LEMMA AnnounceRecoveryLocal ==
    ASSUME LocalInv, NEW w \in Workers, AnnounceRecovery(w), UNCHANGED request
    PROVE  LocalInv'
  <1>1. worker[w] \in Busy /\ worker[w].pc \in StepsWithCard /\ EnvironmentTypeOK
    BY BusyWorker DEF AnnounceRecovery, In, Steps, StepsWithCard, LocalInv, TypeOK
  <1>2. faults' \in 0..MaxFaults /\ UNCHANGED <<storeVars, now, request>> /\ Returns(w)
    <2>1. faults \in 0..MaxFaults
      BY <1>1 DEF EnvironmentTypeOK
    <2> QED
      BY <1>1, <2>1, FaultsType DEF AnnounceRecovery
  <1>3. CASE UNCHANGED cards
    BY <1>1, <1>2, <1>3, QuietStep
  <1>4. CASE UpdateIncidentCard(worker[w].card, "RECOVERED")
    BY <1>1, <1>2, <1>4, CardStep DEF States, TerminalStates
  <1> QED
    BY <1>3, <1>4 DEF AnnounceRecovery, PerhapsUpdated

LEMMA CreateCardLocal ==
    ASSUME LocalInv, NEW w \in Workers, CreateCard(w), UNCHANGED request
    PROVE  LocalInv'
  <1>0. StoreTypeOK /\ EnvironmentTypeOK /\ WorkerTypeOK /\ \A i \in IncidentIds : RowOK(i)
    BY DEF LocalInv, TypeOK
  <1>1. worker[w] \in Busy /\ worker[w].pc = "create" /\ worker[w].state \in States
    <2>1. worker[w] \in Busy /\ worker[w].pc = "create"
      BY <1>0, BusyWorker DEF CreateCard, In, Steps
    <2> QED
      BY <2>1, WorkerFacts
  <1>2. faults' \in 0..MaxFaults /\ UNCHANGED <<storeVars, now>>
    BY <1>0, FaultsType DEF CreateCard
  <1>3. UNCHANGED <<incidents, jobs, snapshots>> /\ StoreTypeOK'
    BY <1>0, <1>2 DEF storeVars, StoreTypeOK
  <1>4. ASSUME NEW m \in MessageIds, CreateIncidentCard(m, IncidentOf(w), worker[w].state)
        PROVE  /\ CardShows(m, IncidentOf(w), worker[w].state)
               /\ cards[m] = AbsentCard
               /\ EnvironmentTypeOK'
               /\ TablesGrow
    <2>1. cards[m] = AbsentCard /\ CardShows(m, IncidentOf(w), worker[w].state)
      BY <1>0, <1>1, <1>4, WorkerFacts, CreateCardEffect
    <2>2. EnvironmentTypeOK' /\ CardsGrow
      BY <1>0, <1>2, <2>1, EnvironmentShown, CardShownGrows
    <2> QED
      BY <1>0, <1>3, <2>1, <2>2, RowsKept
  <1>5. ASSUME NEW m \in MessageIds, CreateIncidentCard(m, IncidentOf(w), worker[w].state),
               MovesWith(w, "save", worker[w].state, m)
        PROVE  LocalInv'
    <2>1. Continues(w, "save", worker[w].state, m)
      BY <1>0, <1>1, <1>5, MovesWithEffect DEF Steps
    <2>2. cards'[m] # AbsentCard /\ cards'[m].incident = IncidentOf(w)
      BY <1>4, <1>5, CardIsThere
    <2>3. "save" \notin StepsWithRowCard /\ m # NoCard
      BY EnvironmentAssumption DEF StepsWithRowCard
    <2> QED
      BY <1>1, <1>3, <1>4, <1>5, <2>1, <2>2, <2>3, WorkerGoesOn
  <1>6. CASE UNCHANGED cards /\ Moves(w, FailStep(w))
    BY <1>1, <1>2, <1>6, QuietStep
  <1>7. ASSUME NEW m \in MessageIds, CreateIncidentCard(m, IncidentOf(w), worker[w].state),
               Moves(w, FailStep(w))
        PROVE  LocalInv'
    <2>1. /\ FailStep(w) \in {"card failed", "retry"}
          /\ FailStep(w) \in Steps
          /\ FailStep(w) \notin StepsWithRowCard
          /\ FailStep(w) \in StepsWithCard => worker[w].card # NoCard
      BY FailStepIs DEF Steps, StepsWithCard, StepsWithRowCard
    <2>2. Continues(w, FailStep(w), worker[w].state, worker[w].card)
      BY <1>0, <1>1, <1>7, <2>1, MovesEffect
    <2>3. worker[w].card # NoCard =>
             cards'[worker[w].card] # AbsentCard /\ cards'[worker[w].card].incident = IncidentOf(w)
      BY <1>1, <1>4, <1>7, WorkerFacts DEF CardIsOf, TablesGrow, CardsGrow
    <2> QED
      BY <1>1, <1>3, <1>4, <1>7, <2>1, <2>2, <2>3, WorkerGoesOn
  <1>8. \/ \E m \in MessageIds : /\ CreateIncidentCard(m, IncidentOf(w), worker[w].state)
                                 /\ MovesWith(w, "save", worker[w].state, m)
        \/ UNCHANGED cards /\ Moves(w, FailStep(w))
        \/ \E m \in MessageIds : /\ CreateIncidentCard(m, IncidentOf(w), worker[w].state)
                                 /\ Moves(w, FailStep(w))
    BY DEF CreateCard, IncidentOf
  <1> QED
    BY <1>5, <1>6, <1>7, <1>8

\* A step that changes only the row of the worker's incident and its jobs.
LEMMA StoreStep ==
    ASSUME LocalInv, NEW w \in Workers, worker[w] \in Busy, StoreTypeOK', TablesGrow,
           UNCHANGED <<now, cards, request>>, faults' \in 0..MaxFaults,
           \/ Returns(w)
           \/ /\ worker[w].pc = "save"
              /\ Moves(w, "reread")
              /\ incidents'[IncidentOf(w)].card = worker[w].card
           \/ /\ worker[w].pc = "adopt"
              /\ Moves(w, "announce")
              /\ incidents'[IncidentOf(w)].state = "RECOVERED"
           \/ /\ worker[w].pc = "mark"
              /\ MovesWith(w, "card investigating", "INVESTIGATING", worker[w].card)
    PROVE  LocalInv'
  <1>0. EnvironmentTypeOK /\ WorkerTypeOK /\ EnvironmentTypeOK' /\ UNCHANGED request
    BY EnvironmentKept DEF LocalInv, TypeOK
  <1>1. CASE Returns(w)
    BY <1>0, <1>1, ReturnsEffect, WorkerLeaves
  <1>2. worker[w].card # NoCard =>
           cards'[worker[w].card] # AbsentCard /\ cards'[worker[w].card].incident = IncidentOf(w)
    BY WorkerFacts DEF CardIsOf
  <1>3. CASE /\ worker[w].pc = "save"
             /\ Moves(w, "reread")
             /\ incidents'[IncidentOf(w)].card = worker[w].card
    <2>1. Continues(w, "reread", worker[w].state, worker[w].card)
      BY <1>0, <1>3, MovesEffect DEF Steps
    <2>2. worker[w].card # NoCard
      BY <1>3, WorkerFacts, EnvironmentAssumption DEF StepsWithCard, Steps
    <2> QED
      BY <1>0, <1>2, <1>3, <2>1, <2>2, WorkerGoesOn
  <1>4. CASE /\ worker[w].pc = "adopt"
             /\ Moves(w, "announce")
             /\ incidents'[IncidentOf(w)].state = "RECOVERED"
    <2>1. Continues(w, "announce", worker[w].state, worker[w].card)
      BY <1>0, <1>4, MovesEffect DEF Steps
    <2>2. worker[w].card # NoCard /\ "announce" \notin StepsWithRowCard
      BY <1>4, WorkerFacts, EnvironmentAssumption DEF StepsWithCard, StepsWithRowCard, Steps
    <2> QED
      BY <1>0, <1>2, <1>4, <2>1, <2>2, WorkerGoesOn
  <1>5. CASE /\ worker[w].pc = "mark"
             /\ MovesWith(w, "card investigating", "INVESTIGATING", worker[w].card)
    <2>1. Continues(w, "card investigating", "INVESTIGATING", worker[w].card)
      <3>1. "INVESTIGATING" \in States \cup {"UNREAD"} /\ "card investigating" \in Steps
        BY DEF States, ActiveStates, Steps
      <3> QED
        BY <1>0, <1>5, <3>1, WorkerFacts, MovesWithEffect
    <2>2. worker[w].card # NoCard /\ incidents[IncidentOf(w)].card = worker[w].card
      BY <1>5, WorkerFacts, EnvironmentAssumption DEF StepsWithCard, StepsWithRowCard, Steps
    <2>3. incidents'[IncidentOf(w)].card = worker[w].card
      BY <2>2, WorkerFacts DEF TablesGrow, RowsGrow
    <2> QED
      BY <1>0, <1>2, <2>1, <2>2, <2>3, WorkerGoesOn
  <1> QED
    BY <1>1, <1>3, <1>4, <1>5

LEMMA SaveCardLocal ==
    ASSUME LocalInv, NEW w \in Workers, SaveCard(w), UNCHANGED request
    PROVE  LocalInv'
  <1>0. StoreTypeOK /\ EnvironmentTypeOK /\ WorkerTypeOK /\ \A i \in IncidentIds : RowOK(i)
    BY DEF LocalInv, TypeOK
  <1>1. worker[w] \in Busy /\ worker[w].pc = "save"
    BY <1>0, BusyWorker DEF SaveCard, In, Steps
  <1>2. faults' \in 0..MaxFaults /\ UNCHANGED <<now, cards, request>>
    BY <1>0, FaultsType DEF SaveCard
  <1>3. CASE SetFeishuMessageIDForClaim(ClaimOf(w), worker[w].card) /\ Moves(w, "reread")
    <2>1. /\ ClaimOf(w) \in Claim
          /\ IncidentOf(w) \in IncidentIds
          /\ worker[w].card \in MessageIds
          /\ CardIsOf(worker[w].card, IncidentOf(w))
      BY <1>1, WorkerFacts, EnvironmentAssumption DEF StepsWithCard, Steps
    <2>2. StoreTypeOK' /\ CardBecomes(IncidentOf(w), worker[w].card)
      BY <1>0, <1>3, <2>1, SaveCardEffect DEF IncidentOf, ClaimOf
    <2>3. TablesGrow
      BY <1>0, <1>2, <2>1, <2>2, CardGrows
    <2> QED
      BY <1>1, <1>2, <1>3, <2>2, <2>3, StoreStep DEF CardBecomes
  <1>4. CASE UNCHANGED storeVars /\ (Moves(w, "settle") \/ Moves(w, "retry"))
    BY <1>1, <1>2, <1>4, QuietStep
  <1> QED
    BY <1>3, <1>4 DEF SaveCard, ClaimOf

LEMMA AdoptLostCardLocal ==
    ASSUME LocalInv, NEW w \in Workers, AdoptLostCard(w), UNCHANGED request
    PROVE  LocalInv'
  <1>0. StoreTypeOK /\ EnvironmentTypeOK /\ WorkerTypeOK /\ \A i \in IncidentIds : RowOK(i)
    BY DEF LocalInv, TypeOK
  <1>1. worker[w] \in Busy /\ worker[w].pc = "adopt"
    BY <1>0, BusyWorker DEF AdoptLostCard, In, Steps
  <1>2. faults' \in 0..MaxFaults /\ UNCHANGED <<now, cards, request>>
    BY <1>0, FaultsType DEF AdoptLostCard
  <1>3. CASE SetFeishuMessageID(IncidentOf(w), worker[w].card) /\ Moves(w, "announce")
    <2>1. /\ IncidentOf(w) \in IncidentIds
          /\ worker[w].card \in MessageIds
          /\ CardIsOf(worker[w].card, IncidentOf(w))
          /\ incidents[IncidentOf(w)].state = "RECOVERED"
      BY <1>1, WorkerFacts, EnvironmentAssumption DEF StepsWithCard, Steps, IsRecovered
    <2>2. StoreTypeOK' /\ CardBecomes(IncidentOf(w), worker[w].card)
      BY <1>0, <1>3, <2>1, AdoptCardEffect
    <2>3. TablesGrow
      BY <1>0, <1>2, <2>1, <2>2, CardGrows
    <2> QED
      BY <1>1, <1>2, <1>3, <2>1, <2>2, <2>3, StoreStep DEF CardBecomes
  <1>4. CASE UNCHANGED storeVars /\ Returns(w)
    BY <1>1, <1>2, <1>4, QuietStep
  <1> QED
    BY <1>3, <1>4 DEF AdoptLostCard, IncidentOf

LEMMA MarkInvestigatingLocal ==
    ASSUME LocalInv, NEW w \in Workers, MarkInvestigating(w), UNCHANGED request
    PROVE  LocalInv'
  <1>0. StoreTypeOK /\ EnvironmentTypeOK /\ WorkerTypeOK /\ \A i \in IncidentIds : RowOK(i)
    BY DEF LocalInv, TypeOK
  <1>1. worker[w] \in Busy /\ worker[w].pc = "mark"
    BY <1>0, BusyWorker DEF MarkInvestigating, In, Steps
  <1>2. faults' \in 0..MaxFaults /\ UNCHANGED <<now, cards, request>>
    BY <1>0, FaultsType DEF MarkInvestigating
  <1>3. CASE /\ MarkInvestigatingForClaim(ClaimOf(w))
             /\ MovesWith(w, "card investigating", "INVESTIGATING", worker[w].card)
    <2>1. /\ IncidentOf(w) \in IncidentIds
          /\ StoreTypeOK'
          /\ incidents[IncidentOf(w)].state \in {"RECEIVED", "AWAITING_AUDIT_EVENT"}
          /\ StateBecomes(IncidentOf(w), "INVESTIGATING")
      BY <1>0, <1>1, <1>3, WorkerFacts, MarkEffect DEF IncidentOf, ClaimOf
    <2>2. TablesGrow
      BY <1>0, <1>2, <2>1, StateGrows
    <2> QED
      BY <1>1, <1>2, <1>3, <2>1, <2>2, StoreStep
  <1>4. CASE UNCHANGED storeVars /\ (Returns(w) \/ Moves(w, "retry"))
    BY <1>1, <1>2, <1>4, QuietStep
  <1> QED
    BY <1>3, <1>4 DEF MarkInvestigating, ClaimOf

\* A transaction that moves an active incident to the state s, and a return.
LEMMA CommitStep ==
    ASSUME LocalInv, NEW w \in Workers, worker[w] \in Busy, StoreTypeOK',
           Active(IncidentOf(w)), NEW s, StateBecomes(IncidentOf(w), s),
           UNCHANGED <<now, cards, request>>, faults' \in 0..MaxFaults, Returns(w)
    PROVE  LocalInv'
  <1>1. IncidentOf(w) \in IncidentIds /\ incidents[IncidentOf(w)].state # "RECOVERED"
    BY WorkerFacts DEF Active, ActiveStates
  <1>2. TablesGrow
    BY <1>1, StateGrows DEF LocalInv, TypeOK
  <1> QED
    BY <1>2, StoreStep

LEMMA CommitOutcomeLocal ==
    ASSUME LocalInv, NEW w \in Workers, CommitOutcome(w), UNCHANGED request
    PROVE  LocalInv'
  <1>0. StoreTypeOK /\ EnvironmentTypeOK /\ WorkerTypeOK
    BY DEF LocalInv, TypeOK
  <1>1. worker[w] \in Busy /\ worker[w].pc = "commit"
    BY <1>0, BusyWorker DEF CommitOutcome, In, Steps
  <1>2. faults' \in 0..MaxFaults /\ UNCHANGED <<now, cards, request>>
    BY <1>0, FaultsType DEF CommitOutcome
  <1>3. /\ ClaimOf(w) \in Claim
        /\ ClaimOf(w).incident = IncidentOf(w)
        /\ worker[w].at + AuditDelay \in Nat
    <2>1. worker[w].at \in Nat /\ AuditDelay \in Nat
      BY <1>1, WorkerFacts, WorkerAssumption
    <2>2. worker[w].at + AuditDelay \in Nat
      BY <2>1
    <2>3. ClaimOf(w) \in Claim /\ ClaimOf(w).incident = IncidentOf(w)
      BY <1>1, WorkerFacts DEF ClaimOf, IncidentOf
    <2> QED
      BY <2>2, <2>3
  <1>4. CASE CompleteJobAndIncident(ClaimOf(w)) /\ Returns(w)
    <2>1. /\ StoreTypeOK'
          /\ Active(IncidentOf(w))
          /\ StateBecomes(IncidentOf(w), "COMPLETED")
      BY <1>0, <1>3, <1>4, CompleteEffect DEF CheckActiveClaim
    <2> QED
      BY <1>1, <1>2, <1>4, <2>1, CommitStep
  <1>5. ASSUME NEW j \in JobIds, Returns(w),
               CompleteJobAndScheduleAuditRetry(ClaimOf(w), j, worker[w].at + AuditDelay)
        PROVE  LocalInv'
    <2>1. /\ StoreTypeOK'
          /\ Active(IncidentOf(w))
          /\ StateBecomes(IncidentOf(w), "AWAITING_AUDIT_EVENT")
      BY <1>0, <1>3, <1>5, AuditRetryEffect DEF CheckActiveClaim
    <2> QED
      BY <1>1, <1>2, <1>5, <2>1, CommitStep
  <1>6. CASE UNCHANGED storeVars /\ (Returns(w) \/ Moves(w, "retry"))
    BY <1>1, <1>2, <1>6, QuietStep
  <1> QED
    BY <1>4, <1>5, <1>6 DEF CommitOutcome, ClaimOf

LEMMA RetryOrFailLocal ==
    ASSUME LocalInv, NEW w \in Workers, RetryOrFail(w), UNCHANGED request
    PROVE  LocalInv'
  <1>0. /\ StoreTypeOK /\ EnvironmentTypeOK /\ WorkerTypeOK /\ now \in Nat
        /\ \A i \in IncidentIds : RowOK(i)
    BY NowType DEF LocalInv, TypeOK
  <1>1. worker[w] \in Busy
    BY <1>0, BusyWorker DEF RetryOrFail, In, Steps
  <1>2. faults' \in 0..MaxFaults /\ UNCHANGED <<now, cards, request>> /\ Returns(w)
    BY <1>0, FaultsType DEF RetryOrFail
  <1>3. ClaimOf(w) \in Claim /\ ClaimOf(w).incident = IncidentOf(w)
    BY <1>1, WorkerFacts DEF ClaimOf, IncidentOf
  <1>4. CASE RetryJob(ClaimOf(w), now)
    <2>1. StoreTypeOK' /\ UNCHANGED incidents
      BY <1>0, <1>3, <1>4, RetryEffect
    <2>2. TablesGrow
      BY <1>0, <1>2, <2>1, CardsKept, RowsKept
    <2> QED
      BY <1>1, <1>2, <2>1, <2>2, StoreStep
  <1>5. CASE FailJob(ClaimOf(w))
    <2>1. StoreTypeOK' /\ Active(IncidentOf(w)) /\ StateBecomes(IncidentOf(w), "FAILED")
      BY <1>0, <1>3, <1>5, FailEffect DEF CheckActiveClaim
    <2> QED
      BY <1>1, <1>2, <2>1, CommitStep
  <1>6. CASE UNCHANGED storeVars
    BY <1>1, <1>2, <1>6, QuietStep
  <1> QED
    BY <1>4, <1>5, <1>6 DEF RetryOrFail, RetryOrFailJob, ClaimOf

\* Worker w starts with the claim it was handed.
Starts(w, j) ==
    /\ WorkerTypeOK'
    /\ worker'[w] \in Busy
    /\ worker'[w].pc = "read"
    /\ worker'[w].claim = ClaimFor(Host[w], now, j)
    /\ worker'[w].at = now
    /\ worker'[w].state = "UNREAD"
    /\ worker'[w].card = NoCard
    /\ \A v \in Workers \ {w} : worker'[v] = worker[v]

LEMMA ClaimJobEffect ==
    ASSUME StoreTypeOK, EnvironmentTypeOK, WorkerTypeOK, NEW w \in Workers, ClaimJob(w)
    PROVE  /\ worker[w] = Idle
           /\ UNCHANGED <<incidents, now, cards, faults>>
           /\ now \in Nat /\ Host[w] \in WorkerIds
           /\ \E j \in JobIds : ClaimNext(Host[w], now, j) /\ Starts(w, j)
  <1>1. worker[w] = Idle
    BY BusyWorker DEF ClaimJob, In, WorkerTypeOK, Busy, Steps
  <1>2. PICK j \in JobIds :
           /\ ClaimNext(Host[w], now, j)
           /\ worker' = [worker EXCEPT ![w] =
                 [pc |-> "read", claim |-> ClaimFor(Host[w], now, j), at |-> now,
                  state |-> "UNREAD", card |-> NoCard]]
    BY DEF ClaimJob
  <1>3. Host[w] \in WorkerIds /\ now \in Nat
    BY WorkerAssumption, NowType
  <1>4. ClaimFor(Host[w], now, j) \in Claim
    BY <1>2, <1>3, ClaimEffect
  <1> DEFINE row == [pc |-> "read", claim |-> ClaimFor(Host[w], now, j), at |-> now,
                     state |-> "UNREAD", card |-> NoCard]
  <1>5. /\ row \in Busy
        /\ row.pc = "read"
        /\ row.claim = ClaimFor(Host[w], now, j)
        /\ row.at = now
        /\ row.state = "UNREAD"
        /\ row.card = NoCard
    BY <1>3, <1>4 DEF Busy, Steps
  <1>6. worker' = [worker EXCEPT ![w] = row]
    BY <1>2
  <1> HIDE DEF row
  <1>7. worker'[w] = row /\ \A v \in Workers \ {w} : worker'[v] = worker[v]
    BY <1>6 DEF WorkerTypeOK
  <1>8. WorkerTypeOK'
    BY <1>5, <1>6 DEF WorkerTypeOK
  <1>9. UNCHANGED <<incidents, now, cards, faults>>
    BY <1>2 DEF ClaimJob, environmentVars, ClaimNext
  <1> QED
    BY <1>1, <1>2, <1>3, <1>5, <1>7, <1>8, <1>9 DEF Starts

LEMMA ClaimJobLocal ==
    ASSUME LocalInv, NEW w \in Workers, ClaimJob(w), UNCHANGED request
    PROVE  LocalInv'
  <1>0. StoreTypeOK /\ EnvironmentTypeOK /\ WorkerTypeOK /\ \A i \in IncidentIds : RowOK(i)
    BY DEF LocalInv, TypeOK
  <1>1. /\ UNCHANGED <<incidents, now, cards, faults>>
        /\ now \in Nat /\ Host[w] \in WorkerIds
        /\ \E j \in JobIds : ClaimNext(Host[w], now, j) /\ Starts(w, j)
    BY <1>0, ClaimJobEffect
  <1>2. PICK j \in JobIds : ClaimNext(Host[w], now, j) /\ Starts(w, j)
    BY <1>1
  <1>3. /\ StoreTypeOK'
        /\ jobs[j] \in Job
        /\ Active(jobs[j].incident)
    BY <1>0, <1>1, <1>2, ClaimEffect
  <1>4. EnvironmentTypeOK' /\ TablesGrow
    BY <1>0, <1>1, EnvironmentKept, CardsKept, RowsKept DEF EnvironmentTypeOK
  <1>5. incidents'[jobs[j].incident] # AbsentIncident
    BY <1>1, <1>3 DEF Active, AbsentIncident, ActiveStates
  <1>6. IncidentOf(w)' = jobs[j].incident
    BY <1>2 DEF Starts, ClaimFor, IncidentOf
  <1>7. WorkerOK(w)'
    BY <1>2, <1>5, <1>6 DEF WorkerOK, Starts, StepsWithRowCard, StepsWithCard
  <1> QED
    BY <1>2, <1>3, <1>4, <1>7, WorkerStepKeeps DEF Starts

LEMMA WorkerLocal ==
    ASSUME LocalInv, WorkerNext, UNCHANGED request
    PROVE  LocalInv'
  <1>1. PICK w \in Workers : RunOneStep(w) \/ WorkerCrash(w)
    BY DEF WorkerNext
  <1> QED
    BY <1>1, ClaimJobLocal, ReadIncidentLocal, CreateCardLocal, SaveCardLocal,
       RereadIncidentLocal, AdoptLostCardLocal, AnnounceRecoveryLocal, MarkInvestigatingLocal,
       RunModelLocal, ShowLocal, CommitOutcomeLocal, RetryOrFailLocal, QuietLocal
    DEF RunOneStep

-----------------------------------------------------------------------------
(* The steps of the gateway and of the clock keep LocalInv.                *)

\* An event has a time in whole seconds, and a key when it is acted on.
LEMMA EventType ==
    ASSUME NEW d \in Deliveries
    PROVE  /\ Event[d].at \in Nat
           /\ Event[d].transition \in {AlertOccurred, AlertRecovered} => Event[d].key \in Keys
  <1>1. Event[d] = Parsed(Payload[d])
    BY DEF Event
  <1>2. CASE Accepted(Payload[d])
    <2>1. Event[d].key \in Keys /\ EventTime(Payload[d]) \in Int
      BY <1>2, GatewayAssumption
    <2>2. EventTime(Payload[d]) >= 0
      BY <1>2 DEF Accepted
    <2>3. Unix(EventTime(Payload[d])) \in Nat
      BY <2>1, <2>2, CallbackAssumption DEF Unix
    <2>4. Event[d].at = Unix(EventTime(Payload[d]))
      BY <1>1, <1>2 DEF Parsed
    <2> QED
      BY <2>1, <2>3, <2>4
  <1>3. CASE ~Accepted(Payload[d])
    <2>1. Parsed(Payload[d]).transition = "none" /\ Parsed(Payload[d]).at = 0
      BY <1>3 DEF Parsed
    <2>2. Event[d].transition = "none" /\ Event[d].at = 0
      BY <1>1, <2>1
    <2> QED
      BY <2>2 DEF AlertOccurred, AlertRecovered
  <1> QED
    BY <1>2, <1>3

\* A step of the handler of delivery d keeps LocalInv if it keeps the tables and
\* its own part.
LEMMA RequestStepKeeps ==
    ASSUME LocalInv, NEW d \in Deliveries, StoreTypeOK', EnvironmentTypeOK', TablesGrow,
           UNCHANGED worker, NEW step \in Request, GoesTo(d, step),
           step.pc = "notify" => /\ cards'[step.card] # AbsentCard
                                 /\ incidents'[cards'[step.card].incident].state = "RECOVERED"
    PROVE  LocalInv'
  <1>1. /\ RequestTypeOK'
        /\ request'[d] = step
        /\ \A e \in Deliveries \ {d} : request'[e] = request[e]
    BY GoesToEffect DEF LocalInv, TypeOK
  <1>2. WorkerTypeOK' /\ \A w \in Workers : WorkerOK(w)'
    BY WorkerStable DEF LocalInv, TypeOK, WorkerTypeOK
  <1>3. RequestOK(d)'
    BY <1>1 DEF RequestOK, At, IsRecovered
  <1>4. \A e \in Deliveries : RequestOK(e)'
    BY <1>1, <1>3, RequestStable
  <1> QED
    BY <1>1, <1>2, <1>4 DEF LocalInv, TypeOK, TablesGrow

\* An answer that leaves the tables and the cards as they are.
LEMMA AnswerStep ==
    ASSUME LocalInv, NEW d \in Deliveries, UNCHANGED <<storeVars, now, cards, worker>>,
           faults' \in 0..MaxFaults,
           NEW status \in {"arriving", "lookup", "accepted", "refused", "error"},
           Answers(d, status)
    PROVE  LocalInv'
  <1>0. StoreTypeOK /\ EnvironmentTypeOK /\ \A i \in IncidentIds : RowOK(i)
    BY DEF LocalInv, TypeOK
  <1>1. UNCHANGED <<incidents, jobs, snapshots, cards, worker>>
    BY DEF storeVars
  <1>2. StoreTypeOK' /\ EnvironmentTypeOK' /\ TablesGrow
    BY <1>0, <1>1, EnvironmentKept, CardsKept, RowsKept DEF StoreTypeOK
  <1> DEFINE step == [pc |-> status]
  <1>3. step \in Request /\ step.pc # "notify" /\ GoesTo(d, step)
    BY DEF Answers, Request
  <1> HIDE DEF step
  <1> QED
    BY <1>1, <1>2, <1>3, RequestStepKeeps

LEMMA FaultsOfRequest ==
    ASSUME EnvironmentTypeOK, NEW kind, UNCHANGED faults \/ Strikes(kind)
    PROVE  faults' \in 0..MaxFaults
  <1>1. faults \in 0..MaxFaults
    BY DEF EnvironmentTypeOK
  <1>2. CASE UNCHANGED faults
    BY <1>1, <1>2
  <1>3. CASE Strikes(kind)
    BY <1>3, FaultsType
  <1> QED
    BY <1>2, <1>3

LEMMA InsertOccurredLocal ==
    ASSUME LocalInv, NEW d \in Deliveries, InsertOccurred(d), UNCHANGED worker
    PROVE  LocalInv'
  <1>0. StoreTypeOK /\ EnvironmentTypeOK /\ \A i \in IncidentIds : RowOK(i)
    BY DEF LocalInv, TypeOK
  <1>1. UNCHANGED <<now, cards, worker>>
    BY DEF InsertOccurred
  <1>2. faults' \in 0..MaxFaults
    BY <1>0, FaultsOfRequest DEF InsertOccurred
  <1>3. ASSUME NEW i \in IncidentIds, InsertIncident(i, Event[d].key, Event[d].at),
               GoesTo(d, [pc |-> "enqueue", incident |-> i])
        PROVE  LocalInv'
    <2>1. Event[d].key \in Keys /\ Event[d].at \in Nat
      BY EventType DEF InsertOccurred
    <2>2. /\ StoreTypeOK'
          /\ incidents[i] = AbsentIncident
          /\ incidents'[i].card = NoCard
          /\ \A o \in IncidentIds \ {i} : incidents'[o] = incidents[o]
      BY <1>0, <1>3, <2>1, InsertEffect
    <2>3. TablesGrow /\ EnvironmentTypeOK'
      BY <1>0, <1>1, <1>2, <2>2, InsertGrows, EnvironmentKept
    <2> DEFINE step == [pc |-> "enqueue", incident |-> i]
    <2>4. step \in Request /\ step.pc # "notify" /\ GoesTo(d, step)
      BY <1>3 DEF Request
    <2> HIDE DEF step
    <2> QED
      BY <1>1, <2>2, <2>3, <2>4, RequestStepKeeps
  <1>4. CASE Answers(d, "lookup") /\ UNCHANGED storeVars
    BY <1>1, <1>2, <1>4, AnswerStep
  <1> QED
    BY <1>3, <1>4 DEF InsertOccurred

LEMMA EnqueueOccurredLocal ==
    ASSUME LocalInv, NEW d \in Deliveries, EnqueueOccurred(d), UNCHANGED worker
    PROVE  LocalInv'
  <1>0. StoreTypeOK /\ EnvironmentTypeOK /\ \A i \in IncidentIds : RowOK(i)
    BY DEF LocalInv, TypeOK
  <1>1. UNCHANGED <<now, cards, worker>> /\ request[d].incident \in IncidentIds
    BY RequestFields DEF EnqueueOccurred, LocalInv, TypeOK
  <1>2. faults' \in 0..MaxFaults
    BY <1>0, FaultsOfRequest DEF EnqueueOccurred
  <1>3. ASSUME NEW j \in JobIds, Enqueue(j, request[d].incident, Event[d].at),
               Answers(d, "accepted")
        PROVE  LocalInv'
    <2>1. StoreTypeOK' /\ UNCHANGED incidents
      <3>1. Event[d].at \in Nat
        BY EventType
      <3> QED
        BY <1>0, <1>1, <1>3, <3>1, EnqueueEffect
    <2>2. TablesGrow /\ EnvironmentTypeOK'
      BY <1>0, <1>1, <1>2, <2>1, CardsKept, RowsKept, EnvironmentKept
    <2> DEFINE step == [pc |-> "accepted"]
    <2>3. step \in Request /\ step.pc # "notify" /\ GoesTo(d, step)
      BY <1>3 DEF Answers, Request
    <2> HIDE DEF step
    <2> QED
      BY <1>1, <2>1, <2>2, <2>3, RequestStepKeeps
  <1>4. CASE Answers(d, "error") /\ UNCHANGED storeVars
    BY <1>1, <1>2, <1>4, AnswerStep
  <1> QED
    BY <1>3, <1>4 DEF EnqueueOccurred

\* The handler goes on to the card of an incident that is RECOVERED.
LEMMA NotifyStep ==
    ASSUME LocalInv, NEW d \in Deliveries, NEW i \in IncidentIds,
           incidents[i] \in Incident,
           GoesTo(d, NotifyNext(i)), UNCHANGED <<now, cards, worker>>,
           faults' \in 0..MaxFaults, StoreTypeOK', TablesGrow,
           incidents'[i].state = "RECOVERED"
    PROVE  LocalInv'
  <1>1. EnvironmentTypeOK'
    BY EnvironmentKept DEF LocalInv, TypeOK
  <1> DEFINE step == NotifyNext(i)
  <1>2. step \in Request
    BY DEF NotifyNext, Request, Incident
  <1>3. step.pc = "notify" => /\ cards'[step.card] # AbsentCard
                              /\ incidents'[cards'[step.card].incident].state = "RECOVERED"
    <2>1. SUFFICES ASSUME step.pc = "notify"
                   PROVE  /\ cards[step.card] # AbsentCard
                          /\ cards[step.card].incident = i
      OBVIOUS
    <2>2. step.card = incidents[i].card /\ incidents[i].card # NoCard
      BY <2>1 DEF NotifyNext
    <2>3. incidents[i] # AbsentIncident /\ RowOK(i)
      BY DEF LocalInv, Incident, AbsentIncident
    <2> HIDE DEF step
    <2> QED
      BY <2>2, <2>3 DEF RowOK, CardIsOf
  <1> HIDE DEF step
  <1>4. GoesTo(d, step)
    BY DEF step
  <1> QED
    BY <1>1, <1>2, <1>3, <1>4, RequestStepKeeps

LEMMA RecoverOccurredLocal ==
    ASSUME LocalInv, NEW d \in Deliveries, RecoverOccurred(d), UNCHANGED worker
    PROVE  LocalInv'
  <1>0. StoreTypeOK /\ EnvironmentTypeOK /\ \A i \in IncidentIds : RowOK(i)
    BY DEF LocalInv, TypeOK
  <1>1. UNCHANGED <<now, cards, worker>>
    BY DEF RecoverOccurred
  <1>2. faults' \in 0..MaxFaults
    BY <1>0, FaultsOfRequest DEF RecoverOccurred
  <1>3. ASSUME NEW i \in IncidentIds, Recover(Event[d].key, Event[d].at, i),
               GoesTo(d, NotifyNext(i))
        PROVE  LocalInv'
    <2>1. /\ StoreTypeOK'
          /\ incidents[i].state # "RECOVERED"
          /\ StateBecomes(i, "RECOVERED")
      BY <1>0, <1>3, RecoverEffect
    <2>2. TablesGrow
      BY <1>0, <1>1, <2>1, StateGrows
    <2> QED
      BY <1>1, <1>2, <1>3, <2>1, <2>2, NotifyStep DEF StateBecomes
  <1>4. ASSUME NEW i \in IncidentIds, incidents[i].state = "RECOVERED",
               GoesTo(d, NotifyNext(i)), UNCHANGED storeVars
        PROVE  LocalInv'
    <2>1. StoreTypeOK' /\ TablesGrow /\ UNCHANGED incidents
      <3>1. UNCHANGED <<incidents, jobs, snapshots>>
        BY <1>4 DEF storeVars
      <3> QED
        BY <1>0, <1>1, <3>1, CardsKept, RowsKept DEF StoreTypeOK
    <2>2. incidents[i] \in Incident
      BY <1>0, <1>4, ActiveIsIncident, StoreTables DEF TerminalStates
    <2> QED
      BY <1>1, <1>2, <1>4, <2>1, <2>2, NotifyStep
  <1>5. CASE UNCHANGED storeVars /\ (Answers(d, "accepted") \/ Answers(d, "error"))
    BY <1>1, <1>2, <1>5, AnswerStep
  <1> QED
    BY <1>3, <1>4, <1>5 DEF RecoverOccurred

LEMMA NotifyRecoveredLocal ==
    ASSUME LocalInv, NEW d \in Deliveries, NotifyRecovered(d), UNCHANGED worker
    PROVE  LocalInv'
  <1>0. StoreTypeOK /\ EnvironmentTypeOK /\ \A i \in IncidentIds : RowOK(i)
    BY DEF LocalInv, TypeOK
  <1>1. UNCHANGED <<storeVars, now, worker>> /\ request[d].card \in MessageIds
    BY RequestFields DEF NotifyRecovered, LocalInv, TypeOK
  <1>2. faults' \in 0..MaxFaults
    BY <1>0, FaultsOfRequest DEF NotifyRecovered
  <1>3. cards[request[d].card] # AbsentCard
    BY DEF NotifyRecovered, LocalInv, RequestOK
  <1>4. ASSUME UpdateIncidentCard(request[d].card, "RECOVERED"),
               NEW status \in {"accepted", "error"}, Answers(d, status)
        PROVE  LocalInv'
    <2>1. CardShows(request[d].card, cards[request[d].card].incident, "RECOVERED")
      BY <1>0, <1>1, <1>3, <1>4, UpdateCardEffect DEF States, TerminalStates
    <2>2. UNCHANGED <<incidents, jobs, snapshots, worker>>
      BY <1>1 DEF storeVars
    <2>3. StoreTypeOK' /\ EnvironmentTypeOK' /\ CardsGrow
      BY <1>0, <1>1, <1>2, <2>1, <2>2, EnvironmentShown, CardShownGrows DEF StoreTypeOK
    <2>4. TablesGrow
      BY <1>0, <2>2, <2>3, RowsKept
    <2> DEFINE step == [pc |-> status]
    <2>5. step \in Request /\ step.pc # "notify" /\ GoesTo(d, step)
      BY <1>4 DEF Answers, Request
    <2> HIDE DEF step
    <2> QED
      BY <2>2, <2>3, <2>4, <2>5, RequestStepKeeps
  <1>5. CASE UNCHANGED cards /\ Answers(d, "error")
    BY <1>1, <1>2, <1>5, AnswerStep
  <1> QED
    BY <1>4, <1>5 DEF NotifyRecovered, PerhapsUpdated

LEMMA GatewayCrashLocal ==
    ASSUME LocalInv, GatewayCrash, UNCHANGED worker
    PROVE  LocalInv'
  <1>0. StoreTypeOK /\ EnvironmentTypeOK /\ \A i \in IncidentIds : RowOK(i)
    BY DEF LocalInv, TypeOK
  <1>1. UNCHANGED <<incidents, jobs, snapshots, now, cards, worker>>
    BY DEF GatewayCrash, storeVars
  <1>2. StoreTypeOK' /\ EnvironmentTypeOK' /\ TablesGrow
    <2>1. faults' \in 0..MaxFaults
      BY <1>0, FaultsOfRequest DEF GatewayCrash
    <2> QED
      BY <1>0, <1>1, <2>1, EnvironmentKept, CardsKept, RowsKept DEF StoreTypeOK
  <1> DEFINE lost == [pc |-> "error"]
  <1>3. /\ request' = [d \in Deliveries |->
                         IF request[d].pc \in {"lookup", "enqueue", "notify"}
                         THEN lost ELSE request[d]]
        /\ lost \in Request
        /\ lost.pc = "error"
    BY DEF GatewayCrash, Request
  <1> HIDE DEF lost
  <1>4. RequestTypeOK'
    <2>1. \A d \in Deliveries : request[d] \in Request
      BY DEF LocalInv, TypeOK, RequestTypeOK, Request
    <2>2. request' \in [Deliveries -> Request]
      BY <1>3, <2>1
    <2> QED
      BY <2>2 DEF RequestTypeOK, Request
  <1>5. \A d \in Deliveries : RequestOK(d)'
    <2> TAKE d \in Deliveries
    <2>1. CASE request'[d] = request[d]
      BY <1>2, <2>1, RequestStable
    <2>2. CASE request'[d] = lost
      BY <1>3, <2>2 DEF RequestOK, At
    <2> QED
      BY <1>3, <2>1, <2>2
  <1>6. WorkerTypeOK' /\ \A w \in Workers : WorkerOK(w)'
    BY <1>1, <1>2, WorkerStable DEF LocalInv, TypeOK, WorkerTypeOK
  <1> QED
    BY <1>2, <1>4, <1>5, <1>6 DEF LocalInv, TypeOK, TablesGrow

LEMMA GatewayLocal ==
    ASSUME LocalInv, GatewayNext, UNCHANGED worker
    PROVE  LocalInv'
  <1>0. EnvironmentTypeOK
    BY DEF LocalInv, TypeOK
  <1>1. ASSUME NEW d \in Deliveries,
               RefuseCallback(d) \/ LookUpActive(d) \/ Redeliver(d)
        PROVE  LocalInv'
    <2>1. UNCHANGED <<storeVars, now, cards, worker>>
      BY <1>1 DEF RefuseCallback, LookUpActive, Redeliver, environmentVars
    <2>2. faults' \in 0..MaxFaults
      BY <1>0, <1>1, FaultsOfRequest DEF RefuseCallback, LookUpActive, Redeliver, environmentVars
    <2>3. \E status \in {"arriving", "accepted", "refused", "error"} : Answers(d, status)
      BY <1>1 DEF RefuseCallback, LookUpActive, Redeliver
    <2> QED
      BY <2>1, <2>2, <2>3, AnswerStep
  <1> QED
    BY <1>1, InsertOccurredLocal, EnqueueOccurredLocal, RecoverOccurredLocal,
       NotifyRecoveredLocal, GatewayCrashLocal
    DEF GatewayNext, RequestStep

\* LocalInv is an invariant, and with it the types.
LEMMA LocalInvInit == Init => LocalInv
  <1> SUFFICES ASSUME Init
               PROVE  LocalInv
    OBVIOUS
  <1>1. StoreTypeOK
    BY DEF Init, StoreInit, StoreTypeOK
  <1>2. EnvironmentTypeOK
    <2>1. 0 \in 0..MaxTime /\ 0 \in 0..MaxFaults
      <3>1. MaxTime \in Nat /\ MaxFaults \in Nat
        BY EnvironmentAssumption
      <3> QED
        BY <3>1
    <2>2. now = 0 /\ faults = 0 /\ cards \in [MessageIds -> Card \cup {AbsentCard}]
      BY DEF Init, EnvironmentInit
    <2> QED
      BY <2>1, <2>2 DEF EnvironmentTypeOK
  <1>3. RequestTypeOK /\ \A d \in Deliveries : RequestOK(d)
    BY DEF Init, RequestInit, RequestTypeOK, RequestOK, At
  <1>4. WorkerTypeOK /\ \A w \in Workers : WorkerOK(w)
    BY DEF Init, WorkerInit, WorkerTypeOK, WorkerOK, Working
  <1>5. \A i \in IncidentIds : RowOK(i)
    BY DEF Init, StoreInit, RowOK
  <1> QED
    BY <1>1, <1>2, <1>3, <1>4, <1>5 DEF LocalInv, TypeOK

LEMMA LocalInvNext == LocalInv /\ [Next]_vars => LocalInv'
  <1> SUFFICES ASSUME LocalInv, [Next]_vars
               PROVE  LocalInv'
    OBVIOUS
  <1>1. CASE Tick
    <2>1. EnvironmentTypeOK'
      BY <1>1, NowType DEF LocalInv, TypeOK, Tick, EnvironmentTypeOK
    <2>2. UNCHANGED <<incidents, jobs, snapshots, cards, request, worker>>
      BY <1>1 DEF Tick, storeVars
    <2> QED
      BY <2>1, <2>2
      DEF LocalInv, TypeOK, StoreTypeOK, RequestTypeOK, WorkerTypeOK, RowOK, RequestOK, WorkerOK,
          At, CardIsOf, IsRecovered, Working, IncidentOf
  <1>2. CASE GatewayNext /\ UNCHANGED worker
    BY <1>2, GatewayLocal
  <1>3. CASE WorkerNext /\ UNCHANGED request
    BY <1>3, WorkerLocal
  <1>4. CASE UNCHANGED vars
    <2>1. UNCHANGED <<incidents, jobs, snapshots, now, cards, faults, request, worker>>
      BY <1>4 DEF vars, storeVars, environmentVars
    <2> QED
      BY <2>1
      DEF LocalInv, TypeOK, StoreTypeOK, EnvironmentTypeOK, RequestTypeOK, WorkerTypeOK, RowOK,
          RequestOK, WorkerOK, At, CardIsOf, IsRecovered, Working, IncidentOf
  <1> QED
    BY <1>1, <1>2, <1>3, <1>4 DEF Next

\* What gateway and workers remember of rows and cards fits them at every step,
\* and a card a row or a worker names is a card of that very incident.
THEOREM LocalInvariance == Spec => []LocalInv
  BY LocalInvInit, LocalInvNext, PTL DEF Spec

\* Every variable of the system keeps its type: a row that is read exists, a card
\* that is written is there, whatever the callbacks, the faults and the clock do.
THEOREM TypeCorrect == Spec => []TypeOK
  <1>1. LocalInv => TypeOK
    BY DEF LocalInv
  <1> QED
    BY <1>1, LocalInvariance, PTL

-----------------------------------------------------------------------------
(* The kinds of step.  The other three invariants, the action property and *)
(* the refinement look at a step through what it does to the rows, the     *)
(* cards and the claims, and these are all the ways it can.                *)

\* What a step may do to a card: worker w writes one behind its fence, anybody
\* announces a recovery on the card of a recovered incident or makes a new one.
CardIsWritten(m, S) ==
    \/ cards'[m] = cards[m]
    \/ cards[m] = AbsentCard
    \/ IsRecovered(cards[m].incident) /\ cards'[m].shows = "RECOVERED"
    \/ \E w \in S : Working(w) /\ CheckActiveClaim(ClaimOf(w)) /\ m = worker[w].card

CardsAreWritten(S) == \A m \in MessageIds : CardIsWritten(m, S)

OthersWait(w) == \A v \in Workers \ {w} : worker'[v] = worker[v]

\* Worker w goes on with its claim, or returns.  It does not enter the
\* investigation, and when it comes to the commit it has shown the outcome.
Proceeds(w) ==
    /\ worker[w] \in Busy
    /\ OthersWait(w)
    /\ \/ worker'[w] = Idle
       \/ /\ worker'[w] \in Busy
          /\ worker'[w].claim = worker[w].claim
          /\ worker'[w].at = worker[w].at
          /\ worker'[w].pc \in StepsOfInvestigation => worker[w].pc \in StepsOfInvestigation
          /\ worker'[w].pc = "commit" => cards'[worker'[w].card].shows = worker'[w].state

StartsAJob(w) ==
    /\ UNCHANGED <<incidents, cards>>
    /\ worker[w] = Idle
    /\ now \in Nat /\ Host[w] \in WorkerIds
    /\ \E j \in JobIds : ClaimNext(Host[w], now, j) /\ Starts(w, j)

Passes(w) == UNCHANGED <<incidents, jobs>> /\ CardsAreWritten({w}) /\ Proceeds(w)

SavesACard(w) ==
    /\ UNCHANGED <<jobs, cards>>
    /\ \E m \in MessageIds : CardBecomes(IncidentOf(w), m)
    /\ Proceeds(w)

Marks(w) ==
    /\ UNCHANGED <<jobs, cards>>
    /\ worker[w] \in Busy
    /\ CheckActiveClaim(ClaimOf(w))
    /\ incidents[IncidentOf(w)].state \in {"RECEIVED", "AWAITING_AUDIT_EVENT"}
    /\ StateBecomes(IncidentOf(w), "INVESTIGATING")
    /\ Continues(w, "card investigating", "INVESTIGATING", worker[w].card)

\* The transactions that end a claim: the worker returns and writes no card.
EndsClaim(w) ==
    /\ UNCHANGED cards
    /\ worker[w] \in Busy
    /\ CheckActiveClaim(ClaimOf(w))
    /\ Leaves(w)

Completes(w) ==
    /\ EndsClaim(w)
    /\ worker[w].pc = "commit"
    /\ worker[w].state = "COMPLETED"
    /\ StateBecomes(IncidentOf(w), "COMPLETED")
    /\ EndsJobsOf(IncidentOf(w))

Fails(w) ==
    /\ EndsClaim(w)
    /\ StateBecomes(IncidentOf(w), "FAILED")
    /\ EndsJobsOf(IncidentOf(w))

SchedulesAnother(w) ==
    /\ EndsClaim(w)
    /\ worker[w].pc = "commit"
    /\ StateBecomes(IncidentOf(w), "AWAITING_AUDIT_EVENT")
    /\ \E j \in JobIds : /\ jobs[j] = AbsentJob
                         /\ jobs'[j] \in Job
                         /\ jobs'[j].status = "QUEUED"
                         /\ jobs'[j].incident = IncidentOf(w)
                         /\ jobs'[j].runAfter = worker[w].at + AuditDelay
                         /\ Ended(ClaimOf(w).job)
                         /\ OthersUntouched({j, ClaimOf(w).job})

QueuesAgain(w) ==
    /\ EndsClaim(w)
    /\ UNCHANGED incidents
    /\ jobs'[ClaimOf(w).job] \in Job
    /\ jobs'[ClaimOf(w).job].status = "QUEUED"
    /\ jobs'[ClaimOf(w).job].incident = IncidentOf(w)
    /\ jobs'[ClaimOf(w).job].runAfter > now
    /\ jobs'[ClaimOf(w).job].runAfter <= now + RetryCap
    /\ OthersUntouched({ClaimOf(w).job})

WorkerKind(w) ==
    /\ UNCHANGED <<now, request>>
    /\ \/ StartsAJob(w)
       \/ Passes(w)
       \/ SavesACard(w)
       \/ Marks(w)
       \/ Completes(w)
       \/ Fails(w)
       \/ SchedulesAnother(w)
       \/ QueuesAgain(w)

\* The requests about to queue a job are some of those before.
RequestsFinish ==
    \A d \in Deliveries :
        At(d, "enqueue")' => At(d, "enqueue") /\ request'[d] = request[d]

Receives(d, i) ==
    /\ UNCHANGED <<jobs, cards>>
    /\ At(d, "arriving")
    /\ Event[d].transition = AlertOccurred
    /\ incidents[i] = AbsentIncident
    /\ ~KeyIsActive(Event[d].key)
    /\ Event[d].key \in Keys
    /\ incidents'[i] \in Incident
    /\ incidents'[i].state = "RECEIVED"
    /\ incidents'[i].key = Event[d].key
    /\ incidents'[i].alertAt = Event[d].at
    /\ \A o \in IncidentIds \ {i} : incidents'[o] = incidents[o]
    /\ request'[d].pc = "enqueue" /\ request'[d].incident = i
    /\ \A e \in Deliveries \ {d} : request'[e] = request[e]

Queues(d, j) ==
    /\ UNCHANGED <<incidents, cards>>
    /\ At(d, "enqueue") /\ At(d, "accepted")'
    /\ \A e \in Deliveries \ {d} : request'[e] = request[e]
    /\ jobs[j] = AbsentJob
    /\ jobs'[j] \in Job
    /\ jobs'[j].status = "QUEUED"
    /\ jobs'[j].incident = request[d].incident
    /\ jobs'[j].runAfter = Event[d].at
    /\ OthersUntouched({j})

Recovers(i) ==
    /\ UNCHANGED cards
    /\ RequestsFinish
    /\ incidents[i].state # "RECOVERED"
    /\ StateBecomes(i, "RECOVERED")
    /\ EndsJobsOf(i)

RequestKind ==
    /\ UNCHANGED <<now, worker>>
    /\ \/ \E d \in Deliveries, i \in IncidentIds : Receives(d, i)
       \/ \E d \in Deliveries, j \in JobIds : Queues(d, j)
       \/ \E i \in IncidentIds : Recovers(i)

\* A notification, an answer, a tick or a stutter.
Waits ==
    /\ UNCHANGED <<incidents, jobs, worker>>
    /\ now' \in Nat /\ now <= now'
    /\ CardsAreWritten({})
    /\ RequestsFinish

Kinds ==
    \/ \E w \in Workers : WorkerKind(w)
    \/ RequestKind
    \/ Waits

LEMMA SameCards ==
    ASSUME NEW S, UNCHANGED cards
    PROVE  CardsAreWritten(S)
  BY DEF CardsAreWritten, CardIsWritten

LEMMA ProceedsByMoving ==
    ASSUME WorkerTypeOK, NEW w \in Workers, worker[w] \in Busy, NEW pc \in Steps, Moves(w, pc),
           pc \in StepsOfInvestigation => worker[w].pc \in StepsOfInvestigation,
           pc = "commit" => cards'[worker[w].card].shows = worker[w].state
    PROVE  Proceeds(w)
  BY MovesEffect DEF Continues, Proceeds, OthersWait

LEMMA ProceedsWith ==
    ASSUME WorkerTypeOK, NEW w \in Workers, worker[w] \in Busy, NEW pc \in Steps,
           NEW state \in States \cup {"UNREAD"}, NEW card \in MessageIds \cup {NoCard},
           MovesWith(w, pc, state, card),
           pc \in StepsOfInvestigation => worker[w].pc \in StepsOfInvestigation,
           pc # "commit"
    PROVE  Proceeds(w)
  BY MovesWithEffect DEF Continues, Proceeds, OthersWait

LEMMA ProceedsToIdle ==
    ASSUME WorkerTypeOK, NEW w \in Workers, worker[w] \in Busy, Returns(w)
    PROVE  Proceeds(w)
  BY ReturnsEffect DEF Leaves, Proceeds, OthersWait

\* The ends of a run that no later step of it builds on.
LEMMA ProceedsToTheEnd ==
    ASSUME WorkerTypeOK, NEW w \in Workers, worker[w] \in Busy,
           Returns(w) \/ Moves(w, "retry") \/ Moves(w, FailStep(w))
    PROVE  Proceeds(w)
  <1>1. {"retry", "card failed"} \subseteq Steps \ StepsOfInvestigation
    BY DEF Steps, StepsOfInvestigation
  <1>2. "commit" \in StepsOfInvestigation
    BY DEF StepsOfInvestigation
  <1> QED
    BY <1>1, <1>2, FailStepIs, ProceedsToIdle, ProceedsByMoving

\* The steps that write neither rows nor cards.
LEMMA QuietKind ==
    ASSUME LocalInv, NEW w \in Workers, worker[w] \in Busy,
           UNCHANGED <<storeVars, now, cards, request>>, Proceeds(w)
    PROVE  WorkerKind(w)
  BY SameCards DEF WorkerKind, Passes, storeVars

LEMMA ReadingKind ==
    ASSUME LocalInv, NEW w \in Workers, UNCHANGED request,
           \/ ReadIncident(w)
           \/ CheckBeforeCreate(w)
           \/ RereadIncident(w)
           \/ SettleLostCard(w)
           \/ GatherEvidence(w)
           \/ RunModel(w)
           \/ WorkerCrash(w)
    PROVE  WorkerKind(w)
  <1>0. WorkerTypeOK
    BY DEF LocalInv, TypeOK
  <1>1. UNCHANGED <<storeVars, now, cards, request>>
    BY DEF ReadIncident, CheckBeforeCreate, RereadIncident, SettleLostCard, GatherEvidence,
           RunModel, WorkerCrash
  <1>2. worker[w] \in Busy
    <2>1. worker[w].pc # "idle"
      BY DEF ReadIncident, CheckBeforeCreate, RereadIncident, SettleLostCard, GatherEvidence,
             RunModel, WorkerCrash, In
    <2> QED
      BY <1>0, <2>1 DEF WorkerTypeOK, Idle
  <1>3. /\ incidents[IncidentOf(w)].state \in States
        /\ incidents[IncidentOf(w)].card \in MessageIds \cup {NoCard}
        /\ worker[w].card \in MessageIds \cup {NoCard}
    BY <1>2, WorkerFacts
  <1>4. ASSUME NEW pc \in {"check", "mark", "announce"},
               MovesWith(w, pc, incidents[IncidentOf(w)].state, incidents[IncidentOf(w)].card)
        PROVE  Proceeds(w)
    <2>1. pc \in Steps /\ pc \notin StepsOfInvestigation /\ pc # "commit"
      BY DEF Steps, StepsOfInvestigation
    <2> QED
      BY <1>0, <1>2, <1>3, <1>4, <2>1, ProceedsWith
  <1>5. CASE ReadIncident(w) \/ RereadIncident(w)
    <2>1. \/ \E pc \in {"check", "mark", "announce"} :
                MovesWith(w, pc, incidents[IncidentOf(w)].state, incidents[IncidentOf(w)].card)
          \/ Moves(w, "retry")
      BY <1>5 DEF ReadIncident, RereadIncident, IncidentOf
    <2> QED
      BY <1>0, <1>1, <1>2, <1>4, <2>1, ProceedsToTheEnd, QuietKind
  <1>6. CASE CheckBeforeCreate(w) \/ SettleLostCard(w)
    <2>1. \/ \E pc \in {"create", "adopt"} : Moves(w, pc)
          \/ Returns(w)
          \/ Moves(w, "retry")
      BY <1>6 DEF CheckBeforeCreate, SettleLostCard
    <2>2. ASSUME NEW pc \in {"create", "adopt"}, Moves(w, pc)
          PROVE  Proceeds(w)
      BY <1>0, <1>2, <2>2, ProceedsByMoving DEF Steps, StepsOfInvestigation
    <2> QED
      BY <1>0, <1>1, <1>2, <2>1, <2>2, ProceedsToTheEnd, QuietKind
  <1>7. CASE GatherEvidence(w)
    <2>1. Moves(w, "run") => Proceeds(w)
      BY <1>0, <1>2, <1>7, ProceedsByMoving DEF GatherEvidence, In, Steps, StepsOfInvestigation
    <2> QED
      BY <1>0, <1>1, <1>2, <1>7, <2>1, ProceedsToTheEnd, QuietKind DEF GatherEvidence
  <1>8. CASE RunModel(w)
    <2>1. ASSUME NEW outcome \in Outcomes, MovesWith(w, "card outcome", outcome, worker[w].card)
          PROVE  Proceeds(w)
      <3>1. outcome \in States \cup {"UNREAD"}
        BY WorkerAssumption DEF States, ActiveStates, TerminalStates
      <3>2. worker[w].pc \in StepsOfInvestigation /\ "card outcome" \in Steps
        BY <1>8 DEF RunModel, In, StepsOfInvestigation, Steps
      <3> QED
        BY <1>0, <1>2, <1>3, <2>1, <3>1, <3>2, ProceedsWith
    <2> QED
      BY <1>0, <1>1, <1>2, <1>8, <2>1, ProceedsToTheEnd, QuietKind DEF RunModel
  <1>9. CASE WorkerCrash(w)
    BY <1>0, <1>1, <1>2, <1>9, ProceedsToIdle, QuietKind DEF WorkerCrash
  <1> QED
    BY <1>5, <1>6, <1>7, <1>8, <1>9

\* The steps that write a card and no row.
LEMMA CardKind ==
    ASSUME LocalInv, NEW w \in Workers, worker[w] \in Busy, UNCHANGED <<storeVars, now, request>>,
           CardsAreWritten({w}), Proceeds(w)
    PROVE  WorkerKind(w)
  BY DEF WorkerKind, Passes, storeVars

LEMMA CreateCardKind ==
    ASSUME LocalInv, NEW w \in Workers, CreateCard(w), UNCHANGED request
    PROVE  WorkerKind(w)
  <1>0. EnvironmentTypeOK /\ WorkerTypeOK
    BY DEF LocalInv, TypeOK
  <1>1. worker[w] \in Busy /\ worker[w].state \in States /\ IncidentOf(w) \in IncidentIds
    <2>1. worker[w] \in Busy /\ worker[w].pc = "create"
      BY <1>0, BusyWorker DEF CreateCard, In, Steps
    <2> QED
      BY <2>1, WorkerFacts
  <1>2. UNCHANGED <<storeVars, now, request>>
    BY DEF CreateCard
  <1>3. CardsAreWritten({w})
    <2>1. \/ UNCHANGED cards
          \/ \E m \in MessageIds : CreateIncidentCard(m, IncidentOf(w), worker[w].state)
      BY DEF CreateCard, IncidentOf
    <2>2. ASSUME NEW m \in MessageIds, CreateIncidentCard(m, IncidentOf(w), worker[w].state)
          PROVE  CardsAreWritten({w})
      <3>1. cards[m] = AbsentCard /\ \A o \in MessageIds \ {m} : cards'[o] = cards[o]
        BY <1>0, <1>1, <2>2, CreateCardEffect DEF CardShows
      <3> QED
        BY <3>1 DEF CardsAreWritten, CardIsWritten
    <2> QED
      BY <2>1, <2>2, SameCards
  <1>4. Proceeds(w)
    <2>1. \/ \E m \in MessageIds : MovesWith(w, "save", worker[w].state, m)
          \/ Moves(w, FailStep(w))
      BY DEF CreateCard
    <2>2. "save" \in Steps /\ "save" \notin StepsOfInvestigation
      BY DEF Steps, StepsOfInvestigation
    <2>3. ASSUME NEW m \in MessageIds, MovesWith(w, "save", worker[w].state, m)
          PROVE  Proceeds(w)
      BY <1>0, <1>1, <2>2, <2>3, ProceedsWith
    <2> QED
      BY <1>0, <1>1, <2>1, <2>3, ProceedsToTheEnd
  <1> QED
    BY <1>1, <1>2, <1>3, <1>4, CardKind

\* A worker writes a card behind its fence, or the recovery on the card of a
\* recovered incident.
LEMMA WritesItsCard ==
    ASSUME LocalInv, NEW w \in Workers, worker[w] \in Busy, worker[w].pc \in StepsWithCard,
           NEW s \in States, UpdateIncidentCard(worker[w].card, s),
           \/ CheckActiveClaim(ClaimOf(w))
           \/ IsRecovered(IncidentOf(w)) /\ s = "RECOVERED"
    PROVE  CardsAreWritten({w}) /\ cards'[worker[w].card].shows = s
  <1>0. EnvironmentTypeOK /\ WorkerTypeOK
    BY DEF LocalInv, TypeOK
  <1>1. /\ worker[w].card \in MessageIds
        /\ cards[worker[w].card] # AbsentCard
        /\ cards[worker[w].card].incident = IncidentOf(w)
    BY WorkerFacts, EnvironmentAssumption DEF CardIsOf
  <1>2. /\ cards'[worker[w].card].shows = s
        /\ \A o \in MessageIds \ {worker[w].card} : cards'[o] = cards[o]
    BY <1>0, <1>1, UpdateCardEffect DEF CardShows
  <1>3. Working(w)
    BY <1>0, BusyWorker DEF Busy
  <1>4. CardIsWritten(worker[w].card, {w})
    BY <1>1, <1>2, <1>3 DEF CardIsWritten
  <1> QED
    BY <1>2, <1>4 DEF CardsAreWritten, CardIsWritten

LEMMA UpdateCardKind ==
    ASSUME LocalInv, NEW w \in Workers, worker[w] \in Busy, UNCHANGED request,
           worker[w].pc \in StepsWithCard, NEW s \in States,
           \/ worker[w].pc = "card investigating" /\ UpdateCard(w, s, "gather", FailStep(w))
           \/ /\ worker[w].pc = "card outcome"
              /\ s = worker[w].state
              /\ UpdateCard(w, s, "commit", FailStep(w))
           \/ UpdateCard(w, s, "retry", "retry")
    PROVE  WorkerKind(w)
  <1>0. EnvironmentTypeOK /\ WorkerTypeOK
    BY DEF LocalInv, TypeOK
  <1>1. UNCHANGED <<storeVars, now, request>>
    BY DEF UpdateCard
  <1>2. CASE UNCHANGED cards /\ (Returns(w) \/ Moves(w, "retry") \/ Moves(w, FailStep(w)))
    BY <1>0, <1>1, <1>2, ProceedsToTheEnd, QuietKind
  <1>3. CASE /\ CheckActiveClaim(ClaimOf(w))
             /\ UpdateIncidentCard(worker[w].card, s)
             /\ \/ Moves(w, "retry") \/ Moves(w, FailStep(w))
                \/ worker[w].pc = "card investigating" /\ Moves(w, "gather")
                \/ /\ worker[w].pc = "card outcome"
                   /\ s = worker[w].state
                   /\ Moves(w, "commit")
    <2>1. CardsAreWritten({w}) /\ cards'[worker[w].card].shows = s
      BY <1>3, WritesItsCard
    <2>2. Proceeds(w)
      <3>1. CASE Moves(w, "retry") \/ Moves(w, FailStep(w))
        BY <1>0, <3>1, ProceedsToTheEnd
      <3>2. CASE worker[w].pc = "card investigating" /\ Moves(w, "gather")
        BY <1>0, <3>2, ProceedsByMoving DEF Steps, StepsOfInvestigation
      <3>3. CASE worker[w].pc = "card outcome" /\ s = worker[w].state /\ Moves(w, "commit")
        BY <1>0, <2>1, <3>3, ProceedsByMoving DEF Steps, StepsOfInvestigation
      <3> QED
        BY <1>3, <3>1, <3>2, <3>3
    <2> QED
      BY <1>1, <2>1, <2>2, CardKind
  <1> QED
    BY <1>2, <1>3 DEF UpdateCard, PerhapsUpdated, ClaimOf

LEMMA ShowKind ==
    ASSUME LocalInv, NEW w \in Workers, UNCHANGED request,
           ShowInvestigating(w) \/ ShowOutcome(w) \/ ShowFailure(w)
    PROVE  WorkerKind(w)
  <1>0. WorkerTypeOK /\ {"INVESTIGATING", "FAILED"} \subseteq States
    BY DEF LocalInv, TypeOK, States, ActiveStates, TerminalStates
  <1>1. CASE ShowInvestigating(w)
    BY <1>0, <1>1, BusyWorker, UpdateCardKind DEF ShowInvestigating, In, Steps, StepsWithCard
  <1>2. CASE ShowOutcome(w)
    <2>1. worker[w].pc = "card outcome" /\ worker[w] \in Busy
      BY <1>0, <1>2, BusyWorker DEF ShowOutcome, In, Steps
    <2>2. worker[w].state \in States
      BY <2>1, WorkerFacts DEF States, ActiveStates, TerminalStates
    <2> QED
      BY <1>2, <2>1, <2>2, UpdateCardKind DEF ShowOutcome, Steps, StepsWithCard
  <1>3. CASE ShowFailure(w)
    BY <1>0, <1>3, BusyWorker, UpdateCardKind DEF ShowFailure, In, Steps, StepsWithCard
  <1> QED
    BY <1>1, <1>2, <1>3

LEMMA AnnounceRecoveryKind ==
    ASSUME LocalInv, NEW w \in Workers, AnnounceRecovery(w), UNCHANGED request
    PROVE  WorkerKind(w)
  <1>0. WorkerTypeOK
    BY DEF LocalInv, TypeOK
  <1>1. worker[w] \in Busy /\ worker[w].pc = "announce" /\ worker[w].pc \in StepsWithCard
    BY <1>0, BusyWorker DEF AnnounceRecovery, In, Steps, StepsWithCard
  <1>2. UNCHANGED <<storeVars, now, request>> /\ Proceeds(w)
    BY <1>0, <1>1, ProceedsToIdle DEF AnnounceRecovery
  <1>3. CASE UNCHANGED cards
    BY <1>1, <1>2, <1>3, QuietKind
  <1>4. CASE UpdateIncidentCard(worker[w].card, "RECOVERED")
    <2>1. IsRecovered(IncidentOf(w)) /\ "RECOVERED" \in States
      BY <1>1, WorkerFacts DEF States, TerminalStates
    <2> QED
      BY <1>1, <1>2, <1>4, <2>1, WritesItsCard, CardKind
  <1> QED
    BY <1>3, <1>4 DEF AnnounceRecovery, PerhapsUpdated

\* The steps of a worker that write rows.
LEMMA TransactionKind ==
    ASSUME LocalInv, NEW w \in Workers, UNCHANGED request,
           \/ SaveCard(w)
           \/ AdoptLostCard(w)
           \/ MarkInvestigating(w)
           \/ CommitOutcome(w)
           \/ RetryOrFail(w)
    PROVE  WorkerKind(w)
  <1>0. StoreTypeOK /\ EnvironmentTypeOK /\ WorkerTypeOK /\ now \in Nat
    BY NowType DEF LocalInv, TypeOK
  <1>1. worker[w] \in Busy /\ UNCHANGED <<now, cards, request>>
    BY <1>0, BusyWorker
    DEF SaveCard, AdoptLostCard, MarkInvestigating, CommitOutcome, RetryOrFail, In, Steps
  <1>2. /\ ClaimOf(w) \in Claim
        /\ ClaimOf(w).incident = IncidentOf(w)
        /\ IncidentOf(w) \in IncidentIds
        /\ worker[w].card \in MessageIds \cup {NoCard}
        /\ worker[w].pc \in StepsWithCard => worker[w].card \in MessageIds
        /\ worker[w].at \in Nat
    BY <1>1, WorkerFacts DEF ClaimOf, IncidentOf
  <1> DEFINE Ends == \/ Returns(w)
                     \/ Moves(w, "retry")
                     \/ worker[w].pc = "save" /\ Moves(w, "settle")
  <1>3. ASSUME UNCHANGED storeVars, Ends
        PROVE  WorkerKind(w)
    <2>1. CASE Returns(w) \/ Moves(w, "retry")
      BY <1>0, <1>1, <1>3, <2>1, ProceedsToTheEnd, QuietKind
    <2>2. CASE Moves(w, "settle")
      BY <1>0, <1>1, <1>3, <2>2, ProceedsByMoving, QuietKind DEF Steps, StepsOfInvestigation
    <2> QED
      BY <1>3, <2>1, <2>2
  <1>4. CASE SaveCard(w)
    <2>1. ASSUME SetFeishuMessageIDForClaim(ClaimOf(w), worker[w].card), Moves(w, "reread")
          PROVE  WorkerKind(w)
      <3>1. worker[w].card \in MessageIds
        BY <1>2, <1>4 DEF SaveCard, In, StepsWithCard, Steps
      <3>2. CardBecomes(IncidentOf(w), worker[w].card) /\ UNCHANGED jobs
        BY <1>0, <1>2, <2>1, <3>1, SaveCardEffect
      <3>3. Proceeds(w)
        BY <1>0, <1>1, <2>1, ProceedsByMoving DEF Steps, StepsOfInvestigation
      <3> QED
        BY <1>1, <3>1, <3>2, <3>3 DEF WorkerKind, SavesACard
    <2>2. \/ SetFeishuMessageIDForClaim(ClaimOf(w), worker[w].card) /\ Moves(w, "reread")
          \/ UNCHANGED storeVars /\ Ends
      BY <1>4 DEF SaveCard, ClaimOf, In
    <2> HIDE DEF Ends
    <2> QED
      BY <1>3, <2>1, <2>2
  <1>5. CASE AdoptLostCard(w)
    <2>1. ASSUME SetFeishuMessageID(IncidentOf(w), worker[w].card), Moves(w, "announce")
          PROVE  WorkerKind(w)
      <3>1. worker[w].card \in MessageIds
        BY <1>2, <1>5 DEF AdoptLostCard, In, StepsWithCard, Steps
      <3>2. CardBecomes(IncidentOf(w), worker[w].card) /\ UNCHANGED jobs
        BY <1>0, <1>2, <2>1, <3>1, AdoptCardEffect
      <3>3. Proceeds(w)
        BY <1>0, <1>1, <2>1, ProceedsByMoving DEF Steps, StepsOfInvestigation
      <3> QED
        BY <1>1, <3>1, <3>2, <3>3 DEF WorkerKind, SavesACard
    <2>2. \/ SetFeishuMessageID(IncidentOf(w), worker[w].card) /\ Moves(w, "announce")
          \/ UNCHANGED storeVars /\ Ends
      BY <1>5 DEF AdoptLostCard, IncidentOf
    <2> HIDE DEF Ends
    <2> QED
      BY <1>3, <2>1, <2>2
  <1>6. CASE MarkInvestigating(w)
    <2>1. ASSUME MarkInvestigatingForClaim(ClaimOf(w)),
                 MovesWith(w, "card investigating", "INVESTIGATING", worker[w].card)
          PROVE  WorkerKind(w)
      <3>1. /\ CheckActiveClaim(ClaimOf(w))
            /\ incidents[IncidentOf(w)].state \in {"RECEIVED", "AWAITING_AUDIT_EVENT"}
            /\ StateBecomes(IncidentOf(w), "INVESTIGATING")
            /\ UNCHANGED jobs
        BY <1>0, <1>2, <2>1, MarkEffect
      <3>2. "INVESTIGATING" \in States \cup {"UNREAD"} /\ "card investigating" \in Steps
        BY DEF States, ActiveStates, Steps
      <3>3. Continues(w, "card investigating", "INVESTIGATING", worker[w].card)
        BY <1>0, <1>1, <1>2, <2>1, <3>2, MovesWithEffect
      <3> QED
        BY <1>1, <3>1, <3>3 DEF WorkerKind, Marks
    <2>2. \/ /\ MarkInvestigatingForClaim(ClaimOf(w))
             /\ MovesWith(w, "card investigating", "INVESTIGATING", worker[w].card)
          \/ UNCHANGED storeVars /\ Ends
      BY <1>6 DEF MarkInvestigating, ClaimOf
    <2> HIDE DEF Ends
    <2> QED
      BY <1>3, <2>1, <2>2
  <1>7. Returns(w) => Leaves(w)
    BY <1>0, ReturnsEffect
  <1>8. CASE CommitOutcome(w)
    <2>1. worker[w].at + AuditDelay \in Nat
      BY <1>2, WorkerAssumption
    <2>2. ASSUME worker[w].state = "COMPLETED", CompleteJobAndIncident(ClaimOf(w)), Returns(w)
          PROVE  WorkerKind(w)
      <3>1. /\ CheckActiveClaim(ClaimOf(w))
            /\ StateBecomes(IncidentOf(w), "COMPLETED")
            /\ EndsJobsOf(IncidentOf(w))
        BY <1>0, <1>2, <2>2, CompleteEffect
      <3>2. Completes(w)
        BY <1>1, <1>7, <1>8, <2>2, <3>1 DEF CommitOutcome, In, EndsClaim, Completes
      <3> QED
        BY <1>1, <3>2 DEF WorkerKind
    <2>3. ASSUME NEW j \in JobIds, Returns(w),
                 CompleteJobAndScheduleAuditRetry(ClaimOf(w), j, worker[w].at + AuditDelay)
          PROVE  WorkerKind(w)
      <3>1. /\ CheckActiveClaim(ClaimOf(w))
            /\ StateBecomes(IncidentOf(w), "AWAITING_AUDIT_EVENT")
            /\ jobs[j] = AbsentJob
            /\ jobs'[j] \in Job
            /\ jobs'[j].status = "QUEUED"
            /\ jobs'[j].incident = IncidentOf(w)
            /\ jobs'[j].runAfter = worker[w].at + AuditDelay
            /\ Ended(ClaimOf(w).job)
            /\ OthersUntouched({j, ClaimOf(w).job})
        BY <1>0, <1>2, <2>1, <2>3, AuditRetryEffect
      <3>2. SchedulesAnother(w)
        BY <1>1, <1>7, <1>8, <2>3, <3>1 DEF CommitOutcome, In, EndsClaim, SchedulesAnother
      <3> QED
        BY <1>1, <3>2 DEF WorkerKind
    <2>4. \/ /\ worker[w].state = "COMPLETED"
             /\ CompleteJobAndIncident(ClaimOf(w))
             /\ Returns(w)
          \/ \E j \in JobIds :
                /\ Returns(w)
                /\ CompleteJobAndScheduleAuditRetry(ClaimOf(w), j, worker[w].at + AuditDelay)
          \/ UNCHANGED storeVars /\ Ends
      BY <1>8 DEF CommitOutcome, ClaimOf
    <2> HIDE DEF Ends
    <2> QED
      BY <1>3, <2>2, <2>3, <2>4
  <1>9. CASE RetryOrFail(w)
    <2>1. Returns(w)
      BY <1>9 DEF RetryOrFail
    <2>2. CASE RetryJob(ClaimOf(w), now)
      <3>1. /\ CheckActiveClaim(ClaimOf(w))
            /\ jobs'[ClaimOf(w).job] \in Job
            /\ jobs'[ClaimOf(w).job].status = "QUEUED"
            /\ jobs'[ClaimOf(w).job].incident = IncidentOf(w)
            /\ jobs'[ClaimOf(w).job].runAfter > now
            /\ jobs'[ClaimOf(w).job].runAfter <= now + RetryCap
            /\ OthersUntouched({ClaimOf(w).job})
            /\ UNCHANGED incidents
        BY <1>0, <1>2, <2>2, RetryEffect
      <3> QED
        BY <1>1, <1>7, <2>1, <3>1 DEF WorkerKind, EndsClaim, QueuesAgain
    <2>3. CASE FailJob(ClaimOf(w))
      <3>1. /\ CheckActiveClaim(ClaimOf(w))
            /\ StateBecomes(IncidentOf(w), "FAILED")
            /\ EndsJobsOf(IncidentOf(w))
        BY <1>0, <1>2, <2>3, FailEffect
      <3> QED
        BY <1>1, <1>7, <2>1, <3>1 DEF WorkerKind, EndsClaim, Fails
    <2>4. \/ RetryJob(ClaimOf(w), now)
          \/ FailJob(ClaimOf(w))
          \/ UNCHANGED storeVars /\ Ends
      BY <1>9 DEF RetryOrFail, RetryOrFailJob, ClaimOf
    <2> HIDE DEF Ends
    <2> QED
      BY <1>3, <2>2, <2>3, <2>4
  <1> QED
    BY <1>4, <1>5, <1>6, <1>8, <1>9

LEMMA WorkerKinds ==
    ASSUME LocalInv, NEW w \in Workers, RunOneStep(w) \/ WorkerCrash(w), UNCHANGED request
    PROVE  WorkerKind(w)
  <1>1. CASE ClaimJob(w)
    <2>1. StoreTypeOK /\ EnvironmentTypeOK /\ WorkerTypeOK
      BY DEF LocalInv, TypeOK
    <2> QED
      BY <1>1, <2>1, ClaimJobEffect DEF WorkerKind, StartsAJob
  <1> QED
    BY <1>1, ReadingKind, CreateCardKind, ShowKind, AnnounceRecoveryKind, TransactionKind
    DEF RunOneStep

\* What an answer does to the requests.
LEMMA AnswerFinishes ==
    ASSUME RequestTypeOK, NEW d \in Deliveries, NEW step, step.pc # "enqueue", GoesTo(d, step)
    PROVE  /\ RequestsFinish
           /\ request'[d] = step
           /\ \A e \in Deliveries \ {d} : request'[e] = request[e]
  <1>1. request'[d] = step /\ \A e \in Deliveries \ {d} : request'[e] = request[e]
    BY DEF RequestTypeOK, GoesTo
  <1> QED
    BY <1>1 DEF RequestsFinish, At

LEMMA AnswersFinish ==
    ASSUME RequestTypeOK, NEW d \in Deliveries, NEW status, status # "enqueue",
           Answers(d, status)
    PROVE  /\ RequestsFinish
           /\ At(d, status)'
           /\ \A e \in Deliveries \ {d} : request'[e] = request[e]
  <1> DEFINE step == [pc |-> status]
  <1>1. step.pc = status /\ GoesTo(d, step)
    BY DEF Answers
  <1> HIDE DEF step
  <1> QED
    BY <1>1, AnswerFinishes DEF At

LEMMA WaitingKind ==
    ASSUME LocalInv, UNCHANGED <<storeVars, now, worker>>, CardsAreWritten({}), RequestsFinish
    PROVE  Waits
  <1>1. now \in Nat /\ now' = now
    BY NowType DEF LocalInv, TypeOK
  <1>2. now' \in Nat /\ now <= now'
    BY <1>1
  <1> QED
    BY <1>2 DEF Waits, storeVars

LEMMA QueuesBy ==
    ASSUME LocalInv, NEW d \in Deliveries, NEW j \in JobIds, EnqueueOccurred(d),
           Enqueue(j, request[d].incident, Event[d].at), Answers(d, "accepted")
    PROVE  Queues(d, j)
  <1>0. StoreTypeOK /\ RequestTypeOK
    BY DEF LocalInv, TypeOK
  <1>1. request[d].incident \in IncidentIds /\ Event[d].at \in Nat /\ At(d, "enqueue")
    BY <1>0, EventType, RequestFields DEF EnqueueOccurred
  <1>2. /\ jobs[j] = AbsentJob
        /\ jobs'[j] \in Job
        /\ jobs'[j].status = "QUEUED"
        /\ jobs'[j].incident = request[d].incident
        /\ jobs'[j].runAfter = Event[d].at
        /\ OthersUntouched({j})
        /\ UNCHANGED incidents
    <2>1. \A at \in Nat, i \in IncidentIds :
             Enqueue(j, i, at) => /\ jobs[j] = AbsentJob
                                  /\ jobs'[j] \in Job
                                  /\ jobs'[j].status = "QUEUED"
                                  /\ jobs'[j].incident = i
                                  /\ jobs'[j].runAfter = at
                                  /\ OthersUntouched({j})
                                  /\ UNCHANGED incidents
      BY <1>0, EnqueueEffect
    <2> QED
      BY <1>1, <2>1
  <1>3. At(d, "accepted")' /\ \A e \in Deliveries \ {d} : request'[e] = request[e]
    BY <1>0, AnswersFinish
  <1> QED
    BY <1>1, <1>2, <1>3 DEF EnqueueOccurred, Queues

LEMMA RequestKinds ==
    ASSUME LocalInv, NEW d \in Deliveries, RequestStep(d) \/ Redeliver(d), UNCHANGED worker
    PROVE  RequestKind \/ Waits
  <1>0. StoreTypeOK /\ EnvironmentTypeOK /\ RequestTypeOK
    BY DEF LocalInv, TypeOK
  <1>1. ASSUME NEW status \in {"arriving", "lookup", "accepted", "refused", "error"},
               Answers(d, status), UNCHANGED <<storeVars, now, cards>>
        PROVE  Waits
    BY <1>0, <1>1, AnswersFinish, SameCards, WaitingKind
  <1>2. CASE RefuseCallback(d) \/ LookUpActive(d) \/ Redeliver(d)
    BY <1>1, <1>2 DEF RefuseCallback, LookUpActive, Redeliver, environmentVars
  <1>3. CASE InsertOccurred(d)
    <2>1. ASSUME NEW i \in IncidentIds, InsertIncident(i, Event[d].key, Event[d].at),
                 GoesTo(d, [pc |-> "enqueue", incident |-> i])
          PROVE  Receives(d, i)
      <3>1. Event[d].key \in Keys /\ Event[d].at \in Nat
        BY <1>3, EventType DEF InsertOccurred
      <3>2. /\ incidents[i] = AbsentIncident
            /\ ~KeyIsActive(Event[d].key)
            /\ incidents'[i] \in Incident
            /\ incidents'[i].state = "RECEIVED"
            /\ incidents'[i].key = Event[d].key
            /\ incidents'[i].alertAt = Event[d].at
            /\ \A o \in IncidentIds \ {i} : incidents'[o] = incidents[o]
            /\ UNCHANGED jobs
        BY <1>0, <2>1, <3>1, InsertEffect
      <3> DEFINE step == [pc |-> "enqueue", incident |-> i]
      <3>3. step.pc = "enqueue" /\ step.incident = i /\ GoesTo(d, step)
        BY <2>1
      <3> HIDE DEF step
      <3>4. /\ request'[d].pc = "enqueue" /\ request'[d].incident = i
            /\ \A e \in Deliveries \ {d} : request'[e] = request[e]
        BY <1>0, <3>3 DEF RequestTypeOK, GoesTo
      <3> QED
        BY <1>3, <3>1, <3>2, <3>4 DEF InsertOccurred, Receives
    <2> QED
      BY <1>1, <1>3, <2>1 DEF InsertOccurred, RequestKind
  <1>4. CASE EnqueueOccurred(d)
    <2>1. ASSUME NEW j \in JobIds, Enqueue(j, request[d].incident, Event[d].at),
                 Answers(d, "accepted")
          PROVE  Queues(d, j)
      BY <1>4, <2>1, QueuesBy
    <2> QED
      BY <1>1, <1>4, <2>1 DEF EnqueueOccurred, RequestKind
  <1>5. CASE RecoverOccurred(d)
    <2>1. ASSUME NEW i \in IncidentIds, GoesTo(d, NotifyNext(i))
          PROVE  RequestsFinish
      <3>1. NotifyNext(i).pc # "enqueue"
        BY DEF NotifyNext
      <3> QED
        BY <1>0, <2>1, <3>1, AnswerFinishes
    <2>2. ASSUME NEW i \in IncidentIds, Recover(Event[d].key, Event[d].at, i),
                 GoesTo(d, NotifyNext(i))
          PROVE  Recovers(i)
      BY <1>0, <1>5, <2>1, <2>2, RecoverEffect DEF RecoverOccurred, Recovers
    <2>3. ASSUME NEW i \in IncidentIds, UNCHANGED storeVars, GoesTo(d, NotifyNext(i))
          PROVE  Waits
      BY <1>5, <2>1, <2>3, SameCards, WaitingKind DEF RecoverOccurred
    <2> QED
      BY <1>1, <1>5, <2>2, <2>3 DEF RecoverOccurred, RequestKind
  <1>6. CASE NotifyRecovered(d)
    <2>1. UNCHANGED <<storeVars, now, worker>>
      BY <1>6 DEF NotifyRecovered
    <2>2. RequestsFinish
      <3>1. Answers(d, "accepted") \/ Answers(d, "error")
        BY <1>6 DEF NotifyRecovered
      <3> QED
        BY <1>0, <3>1, AnswersFinish
    <2>3. CardsAreWritten({})
      <3>1. /\ request[d].card \in MessageIds
            /\ cards[request[d].card] # AbsentCard
            /\ IsRecovered(cards[request[d].card].incident)
        BY <1>0, <1>6, RequestFields DEF NotifyRecovered, LocalInv, RequestOK
      <3>2. CASE UpdateIncidentCard(request[d].card, "RECOVERED")
        <4>1. /\ cards'[request[d].card].shows = "RECOVERED"
              /\ \A o \in MessageIds \ {request[d].card} : cards'[o] = cards[o]
          BY <1>0, <3>1, <3>2, UpdateCardEffect DEF CardShows, States, TerminalStates
        <4> QED
          BY <3>1, <4>1 DEF CardsAreWritten, CardIsWritten
      <3> QED
        BY <1>6, <3>2, SameCards DEF NotifyRecovered, PerhapsUpdated
    <2> QED
      BY <2>1, <2>2, <2>3, WaitingKind
  <1> QED
    BY <1>2, <1>3, <1>4, <1>5, <1>6 DEF RequestStep

\* Every step of the system is of one of the kinds.
LEMMA StepKinds ==
    ASSUME LocalInv, [Next]_vars
    PROVE  Kinds
  <1>1. CASE Tick
    <2>1. now' \in Nat /\ now <= now'
      <3>1. now \in Nat /\ now' = now + 1
        BY <1>1, NowType DEF LocalInv, TypeOK, Tick
      <3> QED
        BY <3>1
    <2>2. UNCHANGED <<incidents, jobs, cards, request, worker>>
      BY <1>1 DEF Tick, storeVars
    <2> QED
      BY <2>1, <2>2, SameCards DEF Waits, Kinds, RequestsFinish, At
  <1>2. CASE GatewayNext /\ UNCHANGED worker
    <2>1. CASE GatewayCrash
      <3>1. RequestsFinish
        BY <2>1 DEF GatewayCrash, RequestsFinish, At
      <3>2. UNCHANGED <<storeVars, now, cards, worker>>
        BY <1>2, <2>1 DEF GatewayCrash
      <3> QED
        BY <3>1, <3>2, SameCards, WaitingKind DEF Kinds
    <2> QED
      BY <1>2, <2>1, RequestKinds DEF GatewayNext, Kinds
  <1>3. CASE WorkerNext /\ UNCHANGED request
    BY <1>3, WorkerKinds DEF WorkerNext, Kinds
  <1>4. CASE UNCHANGED vars
    <2>1. UNCHANGED <<storeVars, now, cards, request, worker>>
      BY <1>4 DEF vars, environmentVars
    <2>2. RequestsFinish
      BY <2>1 DEF RequestsFinish, At
    <2> QED
      BY <2>1, <2>2, SameCards, WaitingKind DEF Kinds
  <1> QED
    BY <1>1, <1>2, <1>3, <1>4 DEF Next

-----------------------------------------------------------------------------
(* A recovery is not overwritten.                                          *)

LEMMA CardsOfWorkerKind ==
    ASSUME NEW w \in Workers, WorkerKind(w)
    PROVE  CardsAreWritten({w})
  BY SameCards
  DEF WorkerKind, StartsAJob, Passes, SavesACard, Marks, Completes, Fails, SchedulesAnother,
      QueuesAgain, EndsClaim

LEMMA CardsOfKinds ==
    ASSUME LocalInv, Kinds
    PROVE  CardsAreWritten({}) \/ \E w \in Workers : CardsAreWritten({w})
  <1>1. CASE Waits
    BY <1>1 DEF Waits
  <1>2. CASE RequestKind
    BY <1>2, SameCards DEF RequestKind, Receives, Queues, Recovers
  <1> QED
    BY <1>1, <1>2, CardsOfWorkerKind DEF Kinds

\* The card a worker remembers is of its incident.
LEMMA CardOfWorker ==
    ASSUME LocalInv, NEW w \in Workers, Working(w), worker[w].card \in MessageIds
    PROVE  cards[worker[w].card] # AbsentCard /\ cards[worker[w].card].incident = IncidentOf(w)
  <1>1. worker[w] \in Busy
    BY BusyWorker DEF LocalInv, TypeOK
  <1> QED
    BY <1>1, WorkerFacts, EnvironmentAssumption DEF CardIsOf

\* An active claim is never on a recovered incident, so that nobody but a
\* notification writes on its cards.
LEMMA RecoveredCardStays ==
    ASSUME LocalInv, Kinds, NEW m \in MessageIds, cards[m] # AbsentCard,
           IsRecovered(cards[m].incident), cards'[m] # cards[m]
    PROVE  cards'[m].shows = "RECOVERED"
  <1>1. PICK S \in {{}} \cup {{w} : w \in Workers} : CardsAreWritten(S)
    BY CardsOfKinds
  <1>2. CASE \E w \in S : Working(w) /\ CheckActiveClaim(ClaimOf(w)) /\ m = worker[w].card
    <2>1. PICK w \in Workers : Working(w) /\ CheckActiveClaim(ClaimOf(w)) /\ m = worker[w].card
      BY <1>2
    <2>2. cards[m].incident = IncidentOf(w)
      BY <2>1, CardOfWorker
    <2>3. Active(IncidentOf(w))
      BY <2>1 DEF CheckActiveClaim, ClaimOf, IncidentOf
    <2> QED
      BY <2>2, <2>3 DEF Active, ActiveStates, IsRecovered
  <1> QED
    BY <1>1, <1>2 DEF CardsAreWritten, CardIsWritten

\* RecoveryIsNotOverwritten: a stale worker never writes over a recovery.
THEOREM RecoveryStays == Spec => RecoveryIsNotOverwritten
  <1> DEFINE Stays == \A m \in MessageIds :
                         (/\ cards[m] # AbsentCard
                          /\ incidents[cards[m].incident].state = "RECOVERED"
                          /\ cards'[m] # cards[m]) => cards'[m].shows = "RECOVERED"
  <1>1. LocalInv /\ [Next]_vars => [Stays]_vars
    BY StepKinds, RecoveredCardStays DEF IsRecovered
  <1>2. RecoveryIsNotOverwritten <=> [][Stays]_vars
    BY DEF RecoveryIsNotOverwritten
  <1> QED
    BY <1>1, <1>2, LocalInvariance, PTL DEF Spec

-----------------------------------------------------------------------------
(* Jobs.                                                                   *)

IsDue(j) ==
    \/ jobs[j].status = "QUEUED" /\ jobs[j].runAfter <= now
    \/ jobs[j].status = "RUNNING" /\ jobs[j].leaseUntil <= now

\* What a step does to a job row that is there: it stays as it is, is closed,
\* goes back to the queue or is claimed, all at the present second.
JobMoves(j) ==
    \/ Untouched(j)
    \/ Ended(j)
    \/ jobs[j] = AbsentJob
    \/ /\ jobs[j].status \in OpenStatuses
       /\ jobs'[j] \in Job
       /\ jobs'[j].incident = jobs[j].incident
       /\ \/ /\ jobs'[j].status = "QUEUED"
             /\ jobs'[j].runAfter > now /\ jobs'[j].runAfter <= now + RetryCap
          \/ IsDue(j) /\ jobs'[j].status = "RUNNING" /\ jobs'[j].leaseUntil = now + Lease

NoNewJob == \A j \in JobIds : jobs[j] = AbsentJob => jobs'[j] = AbsentJob

LEMMA OpenIsThere ==
    ASSUME NEW job, job.status \in OpenStatuses
    PROVE  job # AbsentJob
  BY DEF OpenStatuses, AbsentJob

LEMMA ClaimedJob ==
    ASSUME LocalInv, NEW w \in Workers, worker[w] \in Busy, CheckActiveClaim(ClaimOf(w))
    PROVE  /\ ClaimOf(w) \in Claim
           /\ ClaimOf(w).job \in JobIds
           /\ ClaimOf(w).incident = IncidentOf(w)
           /\ IncidentOf(w) \in IncidentIds
           /\ Active(IncidentOf(w))
           /\ jobs[ClaimOf(w).job] \in Job
           /\ jobs[ClaimOf(w).job] # AbsentJob
           /\ jobs[ClaimOf(w).job].status = "RUNNING"
           /\ jobs[ClaimOf(w).job].status \in OpenStatuses
           /\ jobs[ClaimOf(w).job].incident = IncidentOf(w)
           /\ jobs[ClaimOf(w).job].leaseUntil = ClaimOf(w).leaseUntil
  <1>1. ClaimOf(w) \in Claim /\ IncidentOf(w) \in IncidentIds /\ StoreTypeOK
    BY WorkerFacts DEF LocalInv, TypeOK
  <1>2. ClaimOf(w).incident = IncidentOf(w)
    BY DEF ClaimOf, IncidentOf
  <1>3. "RUNNING" \in OpenStatuses
    BY DEF OpenStatuses
  <1> QED
    BY <1>1, <1>2, <1>3, ActiveClaim, OpenIsThere

LEMMA WorkerMovesJobs ==
    ASSUME LocalInv, NEW w \in Workers, WorkerKind(w)
    PROVE  /\ \A j \in JobIds : JobMoves(j)
           /\ NoNewJob \/ SchedulesAnother(w)
  <1>1. CASE UNCHANGED jobs
    BY <1>1 DEF JobMoves, Untouched, NoNewJob
  <1>2. CASE StartsAJob(w)
    <2>1. PICK j \in JobIds : ClaimNext(Host[w], now, j)
      BY <1>2 DEF StartsAJob
    <2>2. /\ jobs[j].status \in OpenStatuses
          /\ jobs[j] # AbsentJob
          /\ jobs'[j] \in Job
          /\ jobs'[j].incident = jobs[j].incident
          /\ jobs'[j].status = "RUNNING"
          /\ jobs'[j].leaseUntil = now + Lease
          /\ IsDue(j)
          /\ OthersUntouched({j})
      <3>1. StoreTypeOK /\ now \in Nat /\ Host[w] \in WorkerIds
        BY <1>2 DEF LocalInv, TypeOK, StartsAJob
      <3>2. jobs[j].status \in OpenStatuses
        BY <2>1 DEF ClaimNext, IsNextJob, Claimable
      <3> QED
        BY <2>1, <3>1, <3>2, ClaimEffect, OpenIsThere DEF IsDue
    <2> QED
      BY <2>2 DEF JobMoves, OthersUntouched, Untouched, NoNewJob
  <1>3. CASE Completes(w) \/ Fails(w)
    <2>1. \A j \in JobIds : Untouched(j) \/ Ended(j)
      BY <1>3 DEF Completes, Fails, EndsJobsOf
    <2>2. NoNewJob
      BY <2>1, OpenIsThere DEF NoNewJob, Untouched, Ended
    <2> QED
      BY <2>1, <2>2 DEF JobMoves
  <1>4. CASE SchedulesAnother(w)
    BY <1>4 DEF SchedulesAnother, OthersUntouched, JobMoves
  <1>5. CASE QueuesAgain(w)
    <2>1. /\ ClaimOf(w).job \in JobIds
          /\ jobs[ClaimOf(w).job] # AbsentJob
          /\ jobs[ClaimOf(w).job].status \in OpenStatuses
          /\ jobs[ClaimOf(w).job].incident = IncidentOf(w)
      BY <1>5, ClaimedJob DEF QueuesAgain, EndsClaim
    <2> QED
      BY <1>5, <2>1 DEF QueuesAgain, OthersUntouched, Untouched, JobMoves, NoNewJob
  <1> QED
    BY <1>1, <1>2, <1>3, <1>4, <1>5 DEF WorkerKind, Passes, SavesACard, Marks

LEMMA JobsMove ==
    ASSUME LocalInv, Kinds
    PROVE  \A j \in JobIds : JobMoves(j)
  <1>1. CASE UNCHANGED jobs
    BY <1>1 DEF JobMoves, Untouched
  <1>2. ASSUME NEW d \in Deliveries, NEW j \in JobIds, Queues(d, j)
        PROVE  \A o \in JobIds : JobMoves(o)
    BY <1>2 DEF Queues, OthersUntouched, JobMoves
  <1>3. ASSUME NEW i \in IncidentIds, Recovers(i)
        PROVE  \A o \in JobIds : JobMoves(o)
    BY <1>3 DEF Recovers, EndsJobsOf, JobMoves
  <1> QED
    BY <1>1, <1>2, <1>3, WorkerMovesJobs DEF Kinds, RequestKind, Receives, Waits

\* No row of an incident goes away, and none changes its key or the time of its
\* alert.
RowsStay ==
    \A i \in IncidentIds :
        incidents[i] # AbsentIncident =>
            /\ incidents'[i] # AbsentIncident
            /\ incidents'[i].key = incidents[i].key
            /\ incidents'[i].alertAt = incidents[i].alertAt

LEMMA IncidentIsThere ==
    ASSUME NEW row \in Incident
    PROVE  row # AbsentIncident /\ row.state # "ABSENT"
  BY DEF Incident, AbsentIncident, ActiveStates, TerminalStates

LEMMA RowsOfKinds ==
    ASSUME LocalInv, Kinds
    PROVE  RowsStay
  <1>1. CASE UNCHANGED incidents
    BY <1>1 DEF RowsStay
  <1>2. ASSUME NEW i \in IncidentIds, NEW s, StateBecomes(i, s)
        PROVE  RowsStay
    BY <1>2, IncidentIsThere DEF RowsStay, StateBecomes
  <1>3. ASSUME NEW i \in IncidentIds, NEW m, CardBecomes(i, m)
        PROVE  RowsStay
    BY <1>3, IncidentIsThere DEF RowsStay, CardBecomes
  <1>4. ASSUME NEW d \in Deliveries, NEW i \in IncidentIds, Receives(d, i)
        PROVE  RowsStay
    BY <1>4 DEF RowsStay, Receives
  <1>5. CASE Waits
    BY <1>1, <1>5 DEF Waits
  <1>6. CASE RequestKind
    BY <1>1, <1>2, <1>4, <1>6 DEF RequestKind, Queues, Recovers
  <1>7. ASSUME NEW w \in Workers, WorkerKind(w)
        PROVE  RowsStay
    <2>1. CASE UNCHANGED incidents
      BY <1>1, <2>1
    <2>2. CASE ~UNCHANGED incidents
      <3>1. worker[w] \in Busy
        BY <1>7, <2>2
        DEF WorkerKind, StartsAJob, Passes, SavesACard, Marks, Completes, Fails,
            SchedulesAnother, QueuesAgain, EndsClaim, Proceeds
      <3>2. IncidentOf(w) \in IncidentIds
        BY <3>1, WorkerFacts
      <3> QED
        BY <1>2, <1>3, <1>7, <2>2, <3>2
        DEF WorkerKind, StartsAJob, Passes, SavesACard, Marks, Completes, Fails,
            SchedulesAnother, QueuesAgain, EndsClaim
    <2> QED
      BY <2>1, <2>2
  <1> QED
    BY <1>5, <1>6, <1>7 DEF Kinds

\* A job that is there stays on its incident, and does not open again.
LEMMA JobStays ==
    ASSUME StoreTypeOK, NEW j \in JobIds, JobMoves(j), jobs[j] # AbsentJob
    PROVE  /\ jobs[j] \in Job
           /\ jobs[j].incident \in IncidentIds
           /\ jobs'[j] \in Job
           /\ jobs'[j] # AbsentJob
           /\ jobs'[j].incident = jobs[j].incident
           /\ jobs'[j].status \in OpenStatuses => jobs[j].status \in OpenStatuses
  <1>1. jobs[j] \in Job
    BY DEF StoreTypeOK
  <1>2. jobs[j].incident \in IncidentIds
    BY <1>1 DEF Job
  <1>3. \A job \in Job : job # AbsentJob
    BY DEF Job, AbsentJob, OpenStatuses, ClosedStatuses
  <1> QED
    BY <1>1, <1>2, <1>3 DEF JobMoves, Untouched, Ended, OpenStatuses, ClosedStatuses

LEMMA NeverQueuedIs ==
    ASSUME NEW i
    PROVE  NeverQueued(i) <=> \A j \in JobIds : ~JobOf(j, i)
  BY DEF NeverQueued, JobOf

\* A step keeps JobInv when the jobs that are new are on incidents without an
\* open job, and are not those of a request.
LEMMA JobInvKept ==
    ASSUME LocalInv, JobInv, LocalInv', Kinds, RequestsFinish, NEW N \in SUBSET JobIds,
           \A j \in JobIds \ N : jobs[j] = AbsentJob => jobs'[j] = AbsentJob,
           \A j \in N : /\ incidents'[jobs'[j].incident] # AbsentIncident
                        /\ \A d \in Deliveries : At(d, "enqueue")' =>
                              jobs'[j].incident # request'[d].incident
                        /\ \A k \in JobIds :
                              (/\ jobs'[k].status \in OpenStatuses
                               /\ jobs'[k].incident = jobs'[j].incident) => j = k
    PROVE  JobInv'
  <1>0. /\ StoreTypeOK
        /\ \A j \in JobIds : JobMoves(j)
        /\ RowsStay
    BY JobsMove, RowsOfKinds DEF LocalInv, TypeOK
  <1>1. ASSUME NEW j \in JobIds \ N, jobs'[j] # AbsentJob
        PROVE  /\ jobs[j] # AbsentJob
               /\ jobs[j].incident \in IncidentIds
               /\ jobs'[j].incident = jobs[j].incident
               /\ jobs'[j].status \in OpenStatuses => jobs[j].status \in OpenStatuses
    BY <1>0, <1>1, JobStays
  <1>2. \A j \in JobIds : jobs'[j] # AbsentJob => incidents'[jobs'[j].incident] # AbsentIncident
    BY <1>0, <1>1 DEF JobInv, RowsStay
  <1>3. ASSUME NEW d \in Deliveries, At(d, "enqueue")'
        PROVE  /\ incidents'[request'[d].incident] # AbsentIncident
               /\ \A j \in JobIds : ~(jobs'[j] # AbsentJob /\ jobs'[j].incident = request'[d].incident)
    <2>1. At(d, "enqueue") /\ request'[d] = request[d]
      BY <1>3 DEF RequestsFinish
    <2>2. /\ request[d].incident \in IncidentIds
          /\ incidents[request[d].incident] # AbsentIncident
          /\ \A j \in JobIds : ~JobOf(j, request[d].incident)
      BY <2>1, RequestFields DEF JobInv, LocalInv, TypeOK
    <2>3. incidents'[request'[d].incident] # AbsentIncident
      BY <1>0, <2>1, <2>2 DEF RowsStay
    <2>4. \A j \in JobIds : ~(jobs'[j] # AbsentJob /\ jobs'[j].incident = request'[d].incident)
      BY <1>1, <1>3, <2>1, <2>2 DEF JobOf
    <2> QED
      BY <2>3, <2>4
  <1>4. \A d, e \in Deliveries :
           (At(d, "enqueue")' /\ At(e, "enqueue")' /\ d # e) =>
               request'[d].incident # request'[e].incident
    BY DEF JobInv, RequestsFinish
  <1>5. ASSUME NEW j \in JobIds, NEW k \in JobIds, jobs'[j].status \in OpenStatuses,
               jobs'[k].status \in OpenStatuses, jobs'[j].incident = jobs'[k].incident
        PROVE  j = k
    <2>1. jobs'[j] # AbsentJob /\ jobs'[k] # AbsentJob
      BY <1>5, OpenIsThere
    <2>2. CASE j \in N \/ k \in N
      BY <1>5, <2>2
    <2>3. CASE j \notin N /\ k \notin N
      BY <1>1, <1>5, <2>1, <2>3 DEF JobInv, IsOpen
    <2> QED
      BY <2>2, <2>3
  <1> QED
    BY <1>2, <1>3, <1>4, <1>5 DEF JobInv, JobOf, IsOpen

\* The steps that queue no job and start no request.
LEMMA JobInvWithoutNew ==
    ASSUME LocalInv, JobInv, LocalInv', Kinds, RequestsFinish, NoNewJob
    PROVE  JobInv'
  <1> DEFINE N == {}
  <1>1. /\ N \in SUBSET JobIds
        /\ \A o \in N : FALSE
        /\ \A o \in JobIds \ N : jobs[o] = AbsentJob => jobs'[o] = AbsentJob
    BY DEF NoNewJob
  <1> HIDE DEF N
  <1> QED
    BY <1>1, JobInvKept

LEMMA JobInvReceives ==
    ASSUME LocalInv, JobInv, LocalInv', Kinds, NEW d \in Deliveries, NEW i \in IncidentIds,
           Receives(d, i)
    PROVE  JobInv'
  <1>1. /\ UNCHANGED jobs
        /\ incidents[i] = AbsentIncident
        /\ request'[d].incident = i
        /\ \A e \in Deliveries \ {d} : request'[e] = request[e]
        /\ RowsStay
        /\ incidents'[i] # AbsentIncident
    BY RowsOfKinds, IncidentIsThere DEF Receives
  <1>2. \A j \in JobIds : jobs[j] # AbsentJob => jobs[j].incident \in IncidentIds
    BY DEF LocalInv, TypeOK, StoreTypeOK, Job
  <1>3. \A j \in JobIds : jobs'[j] # AbsentJob => incidents'[jobs'[j].incident] # AbsentIncident
    BY <1>1, <1>2 DEF JobInv, RowsStay
  <1>4. \A e \in Deliveries \ {d} : At(e, "enqueue")' =>
           /\ At(e, "enqueue")
           /\ request[e].incident \in IncidentIds
           /\ request'[e].incident = request[e].incident
           /\ incidents[request[e].incident] # AbsentIncident
           /\ \A j \in JobIds : ~JobOf(j, request[e].incident)
    BY <1>1, RequestFields DEF At, JobInv, LocalInv, TypeOK
  <1>5. \A j \in JobIds : ~JobOf(j, i)
    BY <1>1 DEF JobInv, JobOf
  <1>6. \A e \in Deliveries : At(e, "enqueue")' =>
           /\ incidents'[request'[e].incident] # AbsentIncident
           /\ \A j \in JobIds : ~(jobs'[j] # AbsentJob /\ jobs'[j].incident = request'[e].incident)
    BY <1>1, <1>4, <1>5 DEF RowsStay, JobOf
  <1>7. \A e, f \in Deliveries :
           (At(e, "enqueue")' /\ At(f, "enqueue")' /\ e # f) =>
               request'[e].incident # request'[f].incident
    BY <1>1, <1>4 DEF JobInv
  <1> QED
    BY <1>1, <1>3, <1>6, <1>7 DEF JobInv, JobOf, IsOpen

LEMMA JobInvQueues ==
    ASSUME LocalInv, JobInv, LocalInv', Kinds, NEW d \in Deliveries, NEW j \in JobIds,
           Queues(d, j)
    PROVE  JobInv'
  <1>1. /\ UNCHANGED incidents
        /\ At(d, "enqueue")
        /\ jobs[j] = AbsentJob
        /\ jobs'[j].incident = request[d].incident
        /\ \A o \in JobIds \ {j} : jobs'[o] = jobs[o]
        /\ RequestsFinish
        /\ ~At(d, "enqueue")'
    BY DEF Queues, OthersUntouched, Untouched, RequestsFinish, At
  <1>2. incidents'[jobs'[j].incident] # AbsentIncident
    BY <1>1 DEF JobInv
  <1>3. \A e \in Deliveries : At(e, "enqueue")' => jobs'[j].incident # request'[e].incident
    BY <1>1 DEF JobInv, RequestsFinish
  <1>4. \A k \in JobIds :
           jobs'[k].status \in OpenStatuses /\ jobs'[k].incident = jobs'[j].incident => j = k
    <2> SUFFICES ASSUME NEW k \in JobIds \ {j}, jobs'[k].status \in OpenStatuses
                 PROVE  jobs'[k].incident # request[d].incident
      BY <1>1
    <2>1. jobs[k] # AbsentJob /\ jobs'[k] = jobs[k]
      BY <1>1, OpenIsThere
    <2> QED
      BY <1>1, <2>1 DEF JobInv, JobOf
  <1> DEFINE N == {j}
  <1>5. /\ N \in SUBSET JobIds
        /\ \A o \in JobIds \ N : jobs[o] = AbsentJob => jobs'[o] = AbsentJob
        /\ \A o \in N : /\ incidents'[jobs'[o].incident] # AbsentIncident
                        /\ \A e \in Deliveries : At(e, "enqueue")' =>
                              jobs'[o].incident # request'[e].incident
                        /\ \A k \in JobIds :
                              (/\ jobs'[k].status \in OpenStatuses
                               /\ jobs'[k].incident = jobs'[o].incident) => o = k
    BY <1>1, <1>2, <1>3, <1>4
  <1> HIDE DEF N
  <1> QED
    BY <1>1, <1>5, JobInvKept

LEMMA JobInvSchedules ==
    ASSUME LocalInv, JobInv, LocalInv', Kinds, UNCHANGED request, NEW w \in Workers,
           SchedulesAnother(w)
    PROVE  JobInv'
  <1>1. PICK j \in JobIds :
           /\ jobs[j] = AbsentJob
           /\ jobs'[j].incident = IncidentOf(w)
           /\ Ended(ClaimOf(w).job)
           /\ OthersUntouched({j, ClaimOf(w).job})
    BY DEF SchedulesAnother
  <1>2. /\ ClaimOf(w).job \in JobIds
        /\ IncidentOf(w) \in IncidentIds
        /\ JobOf(ClaimOf(w).job, IncidentOf(w))
        /\ IsOpen(ClaimOf(w).job)
    BY ClaimedJob DEF SchedulesAnother, EndsClaim, JobOf, IsOpen
  <1>3. RequestsFinish
    BY DEF RequestsFinish, At
  <1>4. incidents'[jobs'[j].incident] # AbsentIncident
    BY <1>1, <1>2, RowsOfKinds DEF JobInv, RowsStay, JobOf
  <1>5. \A e \in Deliveries : At(e, "enqueue")' => jobs'[j].incident # request'[e].incident
    BY <1>1, <1>2, <1>3 DEF JobInv, RequestsFinish
  <1>6. \A k \in JobIds :
           jobs'[k].status \in OpenStatuses /\ jobs'[k].incident = jobs'[j].incident => j = k
    <2> SUFFICES ASSUME NEW k \in JobIds, k # j, jobs'[k].status \in OpenStatuses,
                        jobs'[k].incident = IncidentOf(w)
                 PROVE  FALSE
      BY <1>1
    <2>1. CASE k = ClaimOf(w).job
      BY <1>1, <2>1 DEF Ended, OpenStatuses, ClosedStatuses
    <2>2. CASE k # ClaimOf(w).job
      <3>1. jobs'[k] = jobs[k]
        BY <1>1, <2>2 DEF OthersUntouched, Untouched
      <3>2. IsOpen(k) /\ jobs[k].incident = jobs[ClaimOf(w).job].incident
        BY <1>2, <3>1 DEF IsOpen, JobOf
      <3> QED
        BY <1>2, <2>2, <3>2 DEF JobInv
    <2> QED
      BY <2>1, <2>2
  <1> DEFINE N == {j}
  <1>7. /\ N \in SUBSET JobIds
        /\ \A o \in JobIds \ N : jobs[o] = AbsentJob => jobs'[o] = AbsentJob
        /\ \A o \in N : /\ incidents'[jobs'[o].incident] # AbsentIncident
                        /\ \A e \in Deliveries : At(e, "enqueue")' =>
                              jobs'[o].incident # request'[e].incident
                        /\ \A k \in JobIds :
                              (/\ jobs'[k].status \in OpenStatuses
                               /\ jobs'[k].incident = jobs'[o].incident) => o = k
    <2>1. \A o \in JobIds \ N : jobs[o] = AbsentJob => jobs'[o] = AbsentJob
      BY <1>1, <1>2 DEF OthersUntouched, Untouched, JobOf
    <2> QED
      BY <1>4, <1>5, <1>6, <2>1
  <1> HIDE DEF N
  <1> QED
    BY <1>3, <1>7, JobInvKept

LEMMA JobInvNext ==
    ASSUME LocalInv, JobInv, [Next]_vars
    PROVE  JobInv'
  <1>1. Kinds /\ LocalInv'
    BY StepKinds, LocalInvNext
  <1>2. CASE Waits
    BY <1>1, <1>2, JobInvWithoutNew DEF Waits, NoNewJob
  <1>3. ASSUME NEW i \in IncidentIds, Recovers(i)
        PROVE  JobInv'
    <2>1. NoNewJob
      BY <1>3, OpenIsThere DEF Recovers, EndsJobsOf, NoNewJob, Untouched, Ended
    <2> QED
      BY <1>1, <1>3, <2>1, JobInvWithoutNew DEF Recovers
  <1>4. CASE RequestKind
    BY <1>1, <1>3, <1>4, JobInvReceives, JobInvQueues DEF RequestKind
  <1>5. ASSUME NEW w \in Workers, WorkerKind(w)
        PROVE  JobInv'
    <2>1. UNCHANGED request /\ RequestsFinish
      BY <1>5 DEF WorkerKind, RequestsFinish, At
    <2> QED
      BY <1>1, <1>5, <2>1, WorkerMovesJobs, JobInvWithoutNew, JobInvSchedules
  <1> QED
    BY <1>1, <1>2, <1>4, <1>5 DEF Kinds

LEMMA JobInvInit ==
    ASSUME Init
    PROVE  JobInv
  <1>1. \A j \in JobIds : jobs[j] = AbsentJob
    BY DEF Init, StoreInit
  <1>2. \A j \in JobIds : ~IsOpen(j)
    BY <1>1, OpenIsThere DEF IsOpen
  <1>3. \A d \in Deliveries : ~At(d, "enqueue")
    BY DEF Init, RequestInit, At
  <1> QED
    BY <1>1, <1>2, <1>3 DEF JobInv

\* Jobs are queued for incidents that exist, by one request each, and no two open
\* jobs are of one incident.
THEOREM JobInvariance == Spec => []JobInv
  <1>1. Init => JobInv
    BY JobInvInit
  <1>2. LocalInv /\ JobInv /\ [Next]_vars => JobInv'
    BY JobInvNext
  <1> QED
    BY <1>1, <1>2, LocalInvariance, PTL DEF Spec

\* An incident never has two open jobs: a request queues one only for the incident
\* it created, and an audit retry closes the job it replaces.
THEOREM OneOpenJob == Spec => []OneOpenJobPerIncident
  <1>1. JobInv => OneOpenJobPerIncident
    BY DEF JobInv, IsOpen, OneOpenJobPerIncident, OpenJobs
  <1> QED
    BY <1>1, JobInvariance, PTL

-----------------------------------------------------------------------------
(* An active incident has a job.                                           *)

LEMMA WorkerFaults ==
    ASSUME NEW w, RunOneStep(w) \/ WorkerCrash(w)
    PROVE  UNCHANGED faults \/ faults' = faults + 1
  <1>1. \A kind : Works(w) \/ Breaks(w, kind) \/ Strikes(kind) =>
           UNCHANGED faults \/ faults' = faults + 1
    BY DEF Works, Breaks, Strikes
  <1>2. \A s, next, onError : UpdateCard(w, s, next, onError) =>
           UNCHANGED faults \/ faults' = faults + 1
    BY <1>1 DEF UpdateCard
  <1>3. ShowInvestigating(w) \/ ShowOutcome(w) \/ ShowFailure(w) =>
           UNCHANGED faults \/ faults' = faults + 1
    BY <1>2 DEF ShowInvestigating, ShowOutcome, ShowFailure
  <1>4. ClaimJob(w) \/ ReadIncident(w) \/ CheckBeforeCreate(w) \/ CreateCard(w) \/ SaveCard(w)
        \/ RereadIncident(w) \/ SettleLostCard(w) \/ AdoptLostCard(w)
        => UNCHANGED faults \/ faults' = faults + 1
    BY <1>1
    DEF ClaimJob, ReadIncident, CheckBeforeCreate, CreateCard, SaveCard, RereadIncident,
        SettleLostCard, AdoptLostCard, environmentVars
  <1>5. AnnounceRecovery(w) \/ MarkInvestigating(w) \/ GatherEvidence(w) \/ RunModel(w)
        \/ CommitOutcome(w) \/ RetryOrFail(w) \/ WorkerCrash(w)
        => UNCHANGED faults \/ faults' = faults + 1
    BY <1>1
    DEF AnnounceRecovery, MarkInvestigating, GatherEvidence, RunModel, CommitOutcome,
        RetryOrFail, WorkerCrash
  <1> QED
    BY <1>3, <1>4, <1>5 DEF RunOneStep

LEMMA FaultsStay ==
    ASSUME LocalInv, [Next]_vars
    PROVE  /\ faults \in Nat /\ faults' \in Nat /\ faults <= faults'
           /\ UNCHANGED faults \/ faults' = faults + 1
  <1>1. faults \in Nat
    <2>1. faults \in 0..MaxFaults
      BY DEF LocalInv, TypeOK, EnvironmentTypeOK
    <2> QED
      BY <2>1
  <1>2. UNCHANGED faults \/ faults' = faults + 1
    <2>1. CASE Tick \/ UNCHANGED vars
      BY <2>1 DEF Tick, vars, environmentVars
    <2>2. CASE GatewayNext
      BY <2>2
      DEF GatewayNext, RequestStep, RefuseCallback, InsertOccurred, LookUpActive, EnqueueOccurred,
          RecoverOccurred, NotifyRecovered, Redeliver, GatewayCrash, Strikes, environmentVars
    <2>3. CASE WorkerNext
      BY <2>3, WorkerFaults DEF WorkerNext
    <2> QED
      BY <2>1, <2>2, <2>3 DEF Next
  <1> QED
    BY <1>1, <1>2

\* A request about to queue a job queues it, waits, or is struck by a fault.
LEMMA RequestsWait ==
    ASSUME LocalInv, [Next]_vars, NEW d \in Deliveries, At(d, "enqueue")
    PROVE  \/ request'[d] = request[d]
           \/ \E j \in JobIds : Queues(d, j)
           \/ faults' > 0
  <1>0. EnvironmentTypeOK /\ RequestTypeOK
    BY DEF LocalInv, TypeOK
  <1>2. \/ request'[d] = request[d]
        \/ \E j \in JobIds : Queues(d, j)
        \/ faults' = faults + 1
    <2>1. CASE UNCHANGED request
      BY <2>1
    <2>2. ASSUME NEW e \in Deliveries, RequestStep(e) \/ Redeliver(e), e # d
          PROVE  request'[d] = request[d]
      BY <1>0, <2>2
      DEF RequestStep, RefuseCallback, InsertOccurred, LookUpActive, EnqueueOccurred,
          RecoverOccurred, NotifyRecovered, Redeliver, Answers, GoesTo, RequestTypeOK
    <2>3. CASE RequestStep(d) \/ Redeliver(d)
      <3>1. EnqueueOccurred(d)
        BY <2>3
        DEF RequestStep, RefuseCallback, InsertOccurred, LookUpActive, RecoverOccurred,
            NotifyRecovered, Redeliver, At
      <3>2. ASSUME NEW j \in JobIds, Enqueue(j, request[d].incident, Event[d].at),
                   Answers(d, "accepted")
            PROVE  Queues(d, j)
        BY <1>0, <3>1, <3>2, QueuesBy
      <3> QED
        BY <3>1, <3>2 DEF EnqueueOccurred, Strikes
    <2>4. CASE GatewayCrash
      BY <2>4 DEF GatewayCrash, Strikes
    <2> QED
      BY <2>1, <2>2, <2>3, <2>4 DEF Next, GatewayNext, Tick, vars
  <1>3. faults' = faults + 1 => faults' > 0
    BY FaultsStay
  <1> QED
    BY <1>2, <1>3

\* An incident becomes active when it is received, and in no other way.
LEMMA ActiveOfKinds ==
    ASSUME LocalInv, Kinds, NEW i \in IncidentIds, Active(i)'
    PROVE  Active(i) \/ \E d \in Deliveries : Receives(d, i)
  <1>1. CASE UNCHANGED incidents
    BY <1>1 DEF Active
  <1>2. ASSUME NEW d \in Deliveries, NEW o \in IncidentIds, Receives(d, o)
        PROVE  Active(i) \/ \E e \in Deliveries : Receives(e, i)
    BY <1>2 DEF Receives, Active
  <1>3. ASSUME NEW o \in IncidentIds, NEW s, StateBecomes(o, s),
               s \notin ActiveStates \/ Active(o)
        PROVE  Active(i)
    BY <1>3 DEF StateBecomes, Active
  <1>4. ASSUME NEW o \in IncidentIds, NEW m, CardBecomes(o, m)
        PROVE  Active(i)
    BY <1>4 DEF CardBecomes, Active
  <1>5. CASE Waits
    BY <1>1, <1>5 DEF Waits
  <1>6. CASE RequestKind
    BY <1>1, <1>2, <1>3, <1>6 DEF RequestKind, Queues, Recovers, ActiveStates
  <1>7. ASSUME NEW w \in Workers, WorkerKind(w)
        PROVE  Active(i)
    <2>1. CASE StartsAJob(w) \/ Passes(w) \/ QueuesAgain(w)
      BY <1>1, <2>1 DEF StartsAJob, Passes, QueuesAgain, Active
    <2>2. CASE SavesACard(w) \/ Marks(w) \/ Completes(w) \/ Fails(w) \/ SchedulesAnother(w)
      <3>1. worker[w] \in Busy
        BY <2>2 DEF SavesACard, Proceeds, Marks, Completes, Fails, SchedulesAnother, EndsClaim
      <3>2. IncidentOf(w) \in IncidentIds
        BY <3>1, WorkerFacts
      <3>3. CASE SavesACard(w)
        BY <1>4, <3>2, <3>3 DEF SavesACard
      <3>4. CASE Marks(w)
        BY <1>3, <3>2, <3>4 DEF Marks, Active, ActiveStates
      <3>5. CASE Completes(w) \/ Fails(w)
        BY <1>3, <3>2, <3>5 DEF Completes, Fails, ActiveStates
      <3>6. CASE SchedulesAnother(w)
        BY <1>3, <3>1, <3>2, <3>6, ClaimedJob DEF SchedulesAnother, EndsClaim
      <3> QED
        BY <2>2, <3>3, <3>4, <3>5, <3>6
    <2> QED
      BY <1>7, <2>1, <2>2 DEF WorkerKind
  <1> QED
    BY <1>5, <1>6, <1>7 DEF Kinds

\* An open job of an incident that is active after the step is still open, or
\* another one replaces it.
LEMMA OpenJobStays ==
    ASSUME LocalInv, Kinds, NEW i \in IncidentIds, Active(i)', NEW j \in JobIds,
           IsOpen(j), jobs[j].incident = i
    PROVE  \E k \in JobIds : IsOpen(k)' /\ jobs'[k].incident = i
  <1>0. JobMoves(j) /\ jobs[j] # AbsentJob
    BY JobsMove, OpenIsThere DEF IsOpen
  <1>1. CASE ~Ended(j)
    BY <1>0, <1>1 DEF JobMoves, Untouched, IsOpen, OpenStatuses
  <1>2. ASSUME Ended(j), NEW o \in IncidentIds, EndsJobsOf(o), NEW s, StateBecomes(o, s),
               s \notin ActiveStates
        PROVE  FALSE
    <2>1. o = i
      BY <1>2 DEF EndsJobsOf, Untouched, Ended, OpenStatuses, ClosedStatuses
    <2> QED
      BY <1>2, <2>1 DEF StateBecomes, Active
  <1>3. ASSUME Ended(j), ~UNCHANGED jobs
        PROVE  \E k \in JobIds : IsOpen(k)' /\ jobs'[k].incident = i
    <2>0. ~Untouched(j) /\ jobs'[j].status \notin OpenStatuses
      BY <1>3 DEF Ended, Untouched, OpenStatuses, ClosedStatuses
    <2>1. ASSUME NEW w \in Workers, WorkerKind(w)
          PROVE  \E k \in JobIds : IsOpen(k)' /\ jobs'[k].incident = i
      <3>1. CASE StartsAJob(w)
        <4>1. PICK k \in JobIds : ClaimNext(Host[w], now, k)
          BY <3>1 DEF StartsAJob
        <4>2. jobs'[k].status = "RUNNING" /\ OthersUntouched({k})
          BY <3>1, <4>1, ClaimEffect DEF StartsAJob, LocalInv, TypeOK
        <4> QED
          BY <2>0, <4>2 DEF OthersUntouched, OpenStatuses
      <3>2. CASE Completes(w) \/ Fails(w)
        <4>1. IncidentOf(w) \in IncidentIds
          BY <3>2, WorkerFacts DEF Completes, Fails, EndsClaim
        <4> QED
          BY <1>2, <1>3, <3>2, <4>1 DEF Completes, Fails, ActiveStates
      <3>3. CASE QueuesAgain(w)
        BY <2>0, <3>3 DEF QueuesAgain, OthersUntouched, OpenStatuses
      <3>4. CASE SchedulesAnother(w)
        <4>1. PICK k \in JobIds : /\ jobs[k] = AbsentJob
                                  /\ jobs'[k].status = "QUEUED"
                                  /\ jobs'[k].incident = IncidentOf(w)
                                  /\ OthersUntouched({k, ClaimOf(w).job})
          BY <3>4 DEF SchedulesAnother
        <4>2. j = ClaimOf(w).job
          BY <1>0, <2>0, <4>1 DEF OthersUntouched
        <4>3. IncidentOf(w) = i
          BY <3>4, <4>2, ClaimedJob DEF SchedulesAnother, EndsClaim
        <4> QED
          BY <4>1, <4>3 DEF IsOpen, OpenStatuses
      <3> QED
        BY <1>3, <2>1, <3>1, <3>2, <3>3, <3>4 DEF WorkerKind, Passes, SavesACard, Marks
    <2>2. ASSUME NEW d \in Deliveries, NEW k \in JobIds, Queues(d, k)
          PROVE  FALSE
      BY <1>0, <2>0, <2>2 DEF Queues, OthersUntouched
    <2>3. ASSUME NEW o \in IncidentIds, Recovers(o)
          PROVE  FALSE
      BY <1>2, <1>3, <2>3 DEF Recovers, ActiveStates
    <2> QED
      BY <1>3, <2>1, <2>2, <2>3 DEF Kinds, RequestKind, Receives, Waits
  <1>4. CASE UNCHANGED jobs
    BY <1>4 DEF IsOpen
  <1> QED
    BY <1>1, <1>3, <1>4

\* A job that is new is open.
LEMMA NewJobIsOpen ==
    ASSUME LocalInv, Kinds, NEW j \in JobIds, jobs[j] = AbsentJob, jobs'[j] # AbsentJob
    PROVE  IsOpen(j)'
  <1>1. ASSUME NEW w \in Workers, SchedulesAnother(w)
        PROVE  IsOpen(j)'
    <2>1. PICK k \in JobIds : /\ jobs'[k].status = "QUEUED"
                              /\ OthersUntouched({k, ClaimOf(w).job})
      BY <1>1 DEF SchedulesAnother
    <2>2. ClaimOf(w).job \in JobIds /\ jobs[ClaimOf(w).job] # AbsentJob
      BY <1>1, ClaimedJob DEF SchedulesAnother, EndsClaim
    <2> QED
      BY <2>1, <2>2 DEF OthersUntouched, Untouched, IsOpen, OpenStatuses
  <1>2. ASSUME NEW d \in Deliveries, NEW k \in JobIds, Queues(d, k)
        PROVE  IsOpen(j)'
    BY <1>2 DEF Queues, OthersUntouched, Untouched, IsOpen, OpenStatuses
  <1>3. ASSUME NEW i \in IncidentIds, Recovers(i)
        PROVE  FALSE
    BY <1>3, OpenIsThere DEF Recovers, EndsJobsOf, Untouched, Ended
  <1>4. ~UNCHANGED jobs
    OBVIOUS
  <1> QED
    BY <1>1, <1>2, <1>3, <1>4, WorkerMovesJobs
    DEF Kinds, RequestKind, Receives, Waits, NoNewJob

HasJob(i) ==
    \/ OpenJobs(i) # {}
    \/ \E d \in Deliveries : At(d, "enqueue") /\ request[d].incident = i
    \/ NeverQueued(i) /\ faults > 0

LEMMA HasJobNext ==
    ASSUME LocalInv, JobInv, \A i \in IncidentIds : Active(i) => HasJob(i), [Next]_vars,
           NEW i \in IncidentIds, Active(i)'
    PROVE  HasJob(i)'
  <1>0. Kinds /\ StoreTypeOK
    BY StepKinds DEF LocalInv, TypeOK
  <1>1. ASSUME NEW j \in JobIds, IsOpen(j)', jobs'[j].incident = i
        PROVE  HasJob(i)'
    BY <1>1 DEF HasJob, OpenJobs, IsOpen
  <1>2. ASSUME NEW d \in Deliveries, Receives(d, i)
        PROVE  HasJob(i)'
    BY <1>2 DEF Receives, HasJob, At
  <1>3. CASE OpenJobs(i) # {}
    <2>1. PICK j \in JobIds : IsOpen(j) /\ jobs[j].incident = i
      BY <1>3 DEF OpenJobs, IsOpen
    <2> QED
      BY <1>0, <1>1, <2>1, OpenJobStays
  <1>4. ASSUME \A j \in JobIds : ~JobOf(j, i), ~NeverQueued(i)'
        PROVE  HasJob(i)'
    <2>1. PICK j \in JobIds : jobs'[j] # AbsentJob /\ jobs'[j].incident = i
      BY <1>4 DEF NeverQueued
    <2>2. CASE jobs[j] = AbsentJob
      BY <1>0, <1>1, <2>1, <2>2, NewJobIsOpen
    <2>3. CASE jobs[j] # AbsentJob
      BY <1>0, <1>4, <2>1, <2>3, JobsMove, JobStays DEF JobOf
    <2> QED
      BY <2>2, <2>3
  <1>5. ASSUME NEW d \in Deliveries, At(d, "enqueue"), request[d].incident = i
        PROVE  HasJob(i)'
    <2>1. \A j \in JobIds : ~JobOf(j, i)
      BY <1>5 DEF JobInv
    <2>2. CASE request'[d] = request[d]
      BY <1>5, <2>2 DEF HasJob, At
    <2>3. CASE \E j \in JobIds : Queues(d, j)
      BY <1>1, <1>5, <2>3 DEF Queues, IsOpen, OpenStatuses
    <2>4. CASE faults' > 0
      BY <1>4, <2>1, <2>4 DEF HasJob
    <2> QED
      BY <1>5, <2>2, <2>3, <2>4, RequestsWait
  <1>6. CASE NeverQueued(i) /\ faults > 0
    <2>1. faults' > 0
      BY <1>6, FaultsStay
    <2>2. \A j \in JobIds : ~JobOf(j, i)
      BY <1>6, NeverQueuedIs
    <2> QED
      BY <1>4, <2>1, <2>2 DEF HasJob
  <1> QED
    BY <1>0, <1>2, <1>3, <1>5, <1>6, ActiveOfKinds DEF HasJob

WorkIsQueued == \A i \in IncidentIds : Active(i) => HasJob(i)

\* An active incident has an open job, or a request is about to queue it, or a
\* fault struck between the two statements of the request.
THEOREM WorkHasAJob == Spec => []WorkIsQueued
  <1>1. Init => WorkIsQueued
    BY DEF Init, StoreInit, WorkIsQueued, Active, ActiveStates, AbsentIncident
  <1>2. ASSUME LocalInv, JobInv, WorkIsQueued, [Next]_vars
        PROVE  WorkIsQueued'
    <2>1. \A i \in IncidentIds : Active(i)' => HasJob(i)'
      BY <1>2, HasJobNext DEF WorkIsQueued
    <2> QED
      BY <2>1 DEF WorkIsQueued
  <1>3. LocalInv /\ JobInv /\ WorkIsQueued /\ [Next]_vars => WorkIsQueued'
    BY <1>2
  <1> QED
    BY <1>1, <1>3, LocalInvariance, JobInvariance, PTL DEF Spec

-----------------------------------------------------------------------------
(* The claims in the memory of the workers.                                *)

\* The same after the step.
IsBehindNext(c) ==
    /\ jobs'[c.job] \in Job
    /\ jobs'[c.job].incident = c.incident
    /\ jobs'[c.job].status = "RUNNING" => c.leaseUntil <= jobs'[c.job].leaseUntil
    /\ jobs'[c.job].status = "QUEUED" => c.leaseUntil < jobs'[c.job].runAfter + Lease

LEMMA JobNumbers ==
    ASSUME NEW job \in Job
    PROVE  /\ job.runAfter \in Nat
           /\ job.leaseUntil \in Nat
           /\ job.status \in OpenStatuses \cup ClosedStatuses
  BY DEF Job

\* A claim made at a second that has passed stays behind its job: a job is claimed
\* again, or put back, at the present second.
LEMMA ClaimStaysBehind ==
    ASSUME StoreTypeOK, now \in Nat, NEW c \in Claim, NEW at \in Nat, at <= now,
           c.leaseUntil = at + Lease, ClaimIsBehindJob(c), JobMoves(c.job)
    PROVE  IsBehindNext(c)
  <1>1. c.job \in JobIds /\ jobs[c.job] \in Job /\ jobs[c.job] # AbsentJob
    <2>1. c.job \in JobIds /\ jobs[c.job] \in Job
      BY DEF Claim, ClaimIsBehindJob
    <2> QED
      BY <2>1 DEF Job, AbsentJob, OpenStatuses, ClosedStatuses
  <1>2. CASE Untouched(c.job)
    BY <1>2 DEF Untouched, ClaimIsBehindJob, IsBehindNext
  <1>3. CASE Ended(c.job)
    BY <1>3 DEF Ended, ClaimIsBehindJob, IsBehindNext, ClosedStatuses
  <1>4. ASSUME jobs'[c.job] \in Job, jobs'[c.job].incident = jobs[c.job].incident,
               jobs'[c.job].status = "QUEUED", jobs'[c.job].runAfter > now
        PROVE  IsBehindNext(c)
    <2>1. jobs'[c.job].runAfter \in Nat
      BY <1>4, JobNumbers
    <2>2. c.leaseUntil < jobs'[c.job].runAfter + Lease
      BY <1>4, <2>1, StoreAssumption
    <2> QED
      BY <1>4, <2>2 DEF ClaimIsBehindJob, IsBehindNext
  <1>5. ASSUME jobs'[c.job] \in Job, jobs'[c.job].incident = jobs[c.job].incident,
               jobs'[c.job].status = "RUNNING", jobs'[c.job].leaseUntil = now + Lease
        PROVE  IsBehindNext(c)
    <2>1. c.leaseUntil <= jobs'[c.job].leaseUntil
      BY <1>5, StoreAssumption
    <2> QED
      BY <1>5, <2>1 DEF ClaimIsBehindJob, IsBehindNext
  <1> QED
    BY <1>1, <1>2, <1>3, <1>4, <1>5 DEF JobMoves

\* A worker that works after the step worked before it, with the same claim.
ClaimStays(w) ==
    worker'[w] # Idle => /\ Working(w)
                         /\ worker'[w].claim = ClaimOf(w)
                         /\ worker'[w].at = worker[w].at

LEMMA ClaimsOfWorkerKind ==
    ASSUME NEW w \in Workers, WorkerKind(w), ~StartsAJob(w), WorkerTypeOK
    PROVE  (\A v \in Workers : ClaimStays(v)) /\ OthersWait(w)
  <1>1. worker[w] \in Busy => Working(w)
    BY BusyWorker DEF Busy
  <1>2. ASSUME Proceeds(w)
        PROVE  ClaimStays(w) /\ OthersWait(w)
    BY <1>1, <1>2 DEF Proceeds, ClaimStays, ClaimOf
  <1>3. ASSUME EndsClaim(w)
        PROVE  ClaimStays(w) /\ OthersWait(w)
    BY <1>3 DEF EndsClaim, Leaves, ClaimStays, OthersWait
  <1>4. ASSUME Marks(w)
        PROVE  ClaimStays(w) /\ OthersWait(w)
    BY <1>1, <1>4 DEF Marks, Continues, ClaimStays, OthersWait, ClaimOf
  <1>5. ClaimStays(w) /\ OthersWait(w)
    BY <1>2, <1>3, <1>4
    DEF WorkerKind, Passes, SavesACard, Completes, Fails, SchedulesAnother, QueuesAgain
  <1>6. \A v \in Workers \ {w} : ClaimStays(v)
    BY <1>5 DEF OthersWait, ClaimStays, Working, ClaimOf
  <1> QED
    BY <1>5, <1>6

LEMMA ClaimsOfKinds ==
    ASSUME LocalInv, Kinds
    PROVE  \/ \A v \in Workers : ClaimStays(v)
           \/ \E w \in Workers : StartsAJob(w) /\ UNCHANGED now
  <1>1. UNCHANGED worker => \A v \in Workers : ClaimStays(v)
    BY DEF ClaimStays, Working, ClaimOf
  <1>2. ASSUME NEW w \in Workers, WorkerKind(w)
        PROVE  (StartsAJob(w) /\ UNCHANGED now) \/ (\A v \in Workers : ClaimStays(v))
    <2>1. CASE StartsAJob(w)
      BY <1>2, <2>1 DEF WorkerKind
    <2>2. CASE ~StartsAJob(w)
      BY <1>2, <2>2, ClaimsOfWorkerKind DEF LocalInv, TypeOK
    <2> QED
      BY <2>1, <2>2
  <1> QED
    BY <1>1, <1>2 DEF Kinds, RequestKind, Waits

LEMMA ClockOfKinds ==
    ASSUME LocalInv, Kinds
    PROVE  now \in Nat /\ now' \in Nat /\ now <= now'
  <1>1. now \in Nat
    BY NowType DEF LocalInv, TypeOK
  <1>2. now' = now => now' \in Nat /\ now <= now'
    BY <1>1
  <1> QED
    BY <1>1, <1>2 DEF Kinds, WorkerKind, RequestKind, Waits

\* A claim that is in memory ended before the job can be claimed again.
LEMMA ClaimIsOld ==
    ASSUME NEW c \in Claim, now \in Nat, ClaimIsBehindJob(c), IsDue(c.job)
    PROVE  c.leaseUntil < now + Lease
  <1>1. /\ jobs[c.job].runAfter \in Nat
        /\ jobs[c.job].leaseUntil \in Nat
        /\ c.leaseUntil \in Nat
        /\ Lease \in Nat \ {0}
    BY JobNumbers, StoreAssumption DEF ClaimIsBehindJob, Claim
  <1>2. CASE jobs[c.job].status = "QUEUED" /\ jobs[c.job].runAfter <= now
    <2>1. c.leaseUntil < jobs[c.job].runAfter + Lease
      BY <1>2 DEF ClaimIsBehindJob
    <2> QED
      BY <1>1, <1>2, <2>1
  <1>3. CASE jobs[c.job].status = "RUNNING" /\ jobs[c.job].leaseUntil <= now
    <2>1. c.leaseUntil <= jobs[c.job].leaseUntil
      BY <1>3 DEF ClaimIsBehindJob
    <2> QED
      BY <1>1, <1>3, <2>1
  <1> QED
    BY <1>2, <1>3 DEF IsDue

ClaimIsGoodNext(w) ==
    /\ worker'[w].at <= now'
    /\ worker'[w].claim.leaseUntil = worker'[w].at + Lease
    /\ IsBehindNext(worker'[w].claim)

LEMMA ClaimInvStarts ==
    ASSUME LocalInv, ClaimInv, Kinds, NEW w \in Workers, StartsAJob(w), UNCHANGED now,
           \A v \in Workers \ {w} : worker'[v] # Idle => ClaimIsGoodNext(v)
    PROVE  ClaimInv'
  <1>1. PICK j \in JobIds : ClaimNext(Host[w], now, j) /\ Starts(w, j)
    BY DEF StartsAJob
  <1>2. /\ StoreTypeOK /\ now \in Nat /\ Host[w] \in WorkerIds
        /\ \A v \in Workers \ {w} : worker'[v] = worker[v]
    BY <1>1 DEF LocalInv, TypeOK, StartsAJob, Starts
  <1>3. /\ IsDue(j)
        /\ jobs'[j] \in Job
        /\ jobs'[j].status = "RUNNING"
        /\ jobs'[j].incident = jobs[j].incident
        /\ jobs'[j].leaseUntil = now + Lease
    BY <1>1, <1>2, ClaimEffect DEF IsDue
  <1>4. /\ worker'[w].at = now
        /\ worker'[w].claim.job = j
        /\ worker'[w].claim.incident = jobs[j].incident
        /\ worker'[w].claim.leaseUntil = now + Lease
    BY <1>1 DEF Starts, ClaimFor
  <1>5. now + Lease <= now + Lease
    BY <1>2, StoreAssumption
  <1>6. ClaimIsGoodNext(w)
    BY <1>2, <1>3, <1>4, <1>5 DEF ClaimIsGoodNext, IsBehindNext
  <1>7. ASSUME NEW v \in Workers \ {w}, worker'[v] # Idle, worker'[v].claim.job = j
        PROVE  worker'[v].claim.leaseUntil < now + Lease
    <2>1. Working(v) /\ worker[v] \in Busy /\ worker'[v].claim = ClaimOf(v)
      BY <1>2, <1>7, BusyWorker DEF Working, ClaimOf, LocalInv, TypeOK
    <2>2. ClaimOf(v) \in Claim /\ ClaimIsBehindJob(ClaimOf(v)) /\ ClaimOf(v).job = j
      BY <1>7, <2>1, WorkerFacts DEF ClaimInv
    <2>3. ClaimOf(v).leaseUntil < now + Lease
      BY <1>2, <1>3, <2>2, ClaimIsOld
    <2> QED
      BY <2>1, <2>3
  <1>8. ASSUME NEW v \in Workers \ {w}, worker'[v] # Idle, worker'[v].claim.job = j
        PROVE  worker'[v].claim.leaseUntil # now + Lease
    <2>1. worker'[v].claim.leaseUntil < now + Lease
      BY <1>7, <1>8
    <2>2. now + Lease \in Nat /\ ~(now + Lease < now + Lease)
      BY <1>2, StoreAssumption
    <2> QED
      BY <2>1, <2>2
  <1>9. \A u, v \in Workers :
           (/\ u # v
            /\ worker'[u] # Idle /\ worker'[v] # Idle
            /\ worker'[u].claim.job = worker'[v].claim.job) =>
               worker'[u].claim.leaseUntil # worker'[v].claim.leaseUntil
    <2>1. TAKE u \in Workers, v \in Workers
    <2>2. CASE u # w /\ v # w
      BY <1>2, <2>2 DEF ClaimInv, Working, ClaimOf
    <2>3. CASE u = w \/ v = w
      BY <1>4, <1>8, <2>3
    <2> QED
      BY <2>2, <2>3
  <1>10. \A v \in Workers : worker'[v] # Idle => ClaimIsGoodNext(v)
    BY <1>6
  <1> QED
    BY <1>9, <1>10
    DEF ClaimInv, ClaimIsGoodNext, IsBehindNext, ClaimIsBehindJob, Working, ClaimOf

LEMMA ClaimInvNext ==
    ASSUME LocalInv, ClaimInv, [Next]_vars
    PROVE  ClaimInv'
  <1>0. Kinds /\ StoreTypeOK /\ WorkerTypeOK
    BY StepKinds DEF LocalInv, TypeOK
  <1>1. now \in Nat /\ now' \in Nat /\ now <= now'
    BY <1>0, ClockOfKinds
  <1>2. ASSUME NEW v \in Workers, worker'[v] # Idle, ClaimStays(v)
        PROVE  ClaimIsGoodNext(v)
    <2>1. /\ Working(v)
          /\ worker[v] \in Busy
          /\ worker'[v].claim = ClaimOf(v)
          /\ worker'[v].at = worker[v].at
      BY <1>0, <1>2, BusyWorker DEF ClaimStays
    <2>2. /\ worker[v].at \in Nat
          /\ worker[v].at <= now
          /\ ClaimOf(v) \in Claim
          /\ ClaimOf(v).job \in JobIds
          /\ ClaimOf(v).leaseUntil = worker[v].at + Lease
          /\ ClaimIsBehindJob(ClaimOf(v))
      BY <2>1, WorkerFacts DEF ClaimInv, Claim
    <2>3. IsBehindNext(ClaimOf(v))
      BY <1>0, <1>1, <2>2, JobsMove, ClaimStaysBehind
    <2>4. worker[v].at <= now'
      BY <1>1, <2>2
    <2> QED
      BY <2>1, <2>2, <2>3, <2>4 DEF ClaimIsGoodNext
  <1>3. CASE \A v \in Workers : ClaimStays(v)
    <2>1. \A v \in Workers : worker'[v] # Idle => ClaimIsGoodNext(v)
      BY <1>2, <1>3
    <2>2. \A v, w \in Workers :
             (/\ v # w
              /\ worker'[v] # Idle /\ worker'[w] # Idle
              /\ worker'[v].claim.job = worker'[w].claim.job) =>
                 worker'[v].claim.leaseUntil # worker'[w].claim.leaseUntil
      BY <1>3 DEF ClaimStays, ClaimInv
    <2> QED
      BY <2>1, <2>2
      DEF ClaimInv, ClaimIsGoodNext, IsBehindNext, ClaimIsBehindJob, Working, ClaimOf
  <1>4. ASSUME NEW w \in Workers, StartsAJob(w), UNCHANGED now
        PROVE  ClaimInv'
    <2>1. \A v \in Workers \ {w} : ClaimStays(v)
      BY <1>4 DEF StartsAJob, Starts, ClaimStays, Working, ClaimOf
    <2> QED
      BY <1>0, <1>2, <1>4, <2>1, ClaimInvStarts
  <1> QED
    BY <1>0, <1>3, <1>4, ClaimsOfKinds

LEMMA ClaimInvInit ==
    ASSUME Init
    PROVE  ClaimInv
  <1>1. \A w \in Workers : ~Working(w)
    BY DEF Init, WorkerInit, Working
  <1> QED
    BY <1>1 DEF ClaimInv

\* A claim in the memory of a worker never outlives its job in the table, and no two
\* workers hold claims on a job with one lease.
THEOREM ClaimInvariance == Spec => []ClaimInv
  <1>1. Init => ClaimInv
    BY ClaimInvInit
  <1>2. LocalInv /\ ClaimInv /\ [Next]_vars => ClaimInv'
    BY ClaimInvNext
  <1> QED
    BY <1>1, <1>2, LocalInvariance, PTL DEF Spec

\* The claims of two workers that both pass the fence are on jobs with the same
\* lease as the claims, so they are different jobs, and open ones.
LEMMA OneInvestigator ==
    ASSUME LocalInv, JobInv, ClaimInv, NEW v \in Workers, NEW w \in Workers, v # w,
           Working(v), CheckActiveClaim(ClaimOf(v)), Working(w), CheckActiveClaim(ClaimOf(w))
    PROVE  IncidentOf(v) # IncidentOf(w)
  <1>1. worker[v] \in Busy /\ worker[w] \in Busy
    BY BusyWorker DEF LocalInv, TypeOK
  <1>2. SUFFICES ASSUME IncidentOf(v) = IncidentOf(w)
                 PROVE  FALSE
    OBVIOUS
  <1>3. /\ ClaimOf(v).job \in JobIds /\ ClaimOf(w).job \in JobIds
        /\ IsOpen(ClaimOf(v).job) /\ IsOpen(ClaimOf(w).job)
        /\ jobs[ClaimOf(v).job].incident = jobs[ClaimOf(w).job].incident
        /\ jobs[ClaimOf(v).job].leaseUntil = ClaimOf(v).leaseUntil
        /\ jobs[ClaimOf(w).job].leaseUntil = ClaimOf(w).leaseUntil
    BY <1>1, <1>2, ClaimedJob DEF IsOpen
  <1>4. ClaimOf(v).job = ClaimOf(w).job
    BY <1>3 DEF JobInv
  <1> QED
    BY <1>3, <1>4 DEF ClaimInv

\* Two processes never hold a valid claim on the same incident.
THEOREM OneInvestigatorAtATime == Spec => []OneInvestigatorPerIncident
  <1>1. LocalInv /\ JobInv /\ ClaimInv => OneInvestigatorPerIncident
    BY OneInvestigator DEF OneInvestigatorPerIncident, Working, ClaimOf, IncidentOf
  <1> QED
    BY <1>1, LocalInvariance, JobInvariance, ClaimInvariance, PTL

-----------------------------------------------------------------------------
(* When an open job is found again.                                        *)

LEMMA Durations == Lease \in Nat /\ RetryCap \in Nat /\ AuditDelay \in Nat
  BY StoreAssumption, WorkerAssumption

\* What is due within a duration from now is due within it from later on.
LEMMA DueLater ==
    ASSUME NEW a \in Nat, NEW b \in Nat, a <= b, NEW n \in Nat, NEW at \in Nat, at <= a + n
    PROVE  at <= b + n
  OBVIOUS

\* The alert of an incident whose request is about to queue its job is the one of
\* that request: no row changes the time of its alert.
LEMMA AlertIsOfNext ==
    ASSUME LocalInv, JobInv, TimeInv, Kinds, NEW d \in Deliveries
    PROVE  AlertIsOf(d)'
  <1>1. ASSUME At(d, "enqueue"), request'[d] = request[d]
        PROVE  AlertIsOf(d)'
    <2>1. /\ incidents[request[d].incident] # AbsentIncident
          /\ incidents[request[d].incident].alertAt = Event[d].at
      BY <1>1 DEF JobInv, TimeInv, AlertIsOf
    <2>2. request[d].incident \in IncidentIds
      BY <1>1, RequestFields DEF LocalInv, TypeOK
    <2>3. incidents'[request[d].incident].alertAt = Event[d].at
      BY <2>1, <2>2, RowsOfKinds DEF RowsStay
    <2> QED
      BY <1>1, <2>3 DEF AlertIsOf
  <1>2. ASSUME request'[d] = request[d]
        PROVE  AlertIsOf(d)'
    BY <1>1, <1>2 DEF AlertIsOf, At
  <1>3. ASSUME NEW e \in Deliveries, NEW i \in IncidentIds, Receives(e, i)
        PROVE  AlertIsOf(d)'
    BY <1>2, <1>3 DEF Receives, AlertIsOf
  <1>4. ASSUME NEW e \in Deliveries, NEW j \in JobIds, Queues(e, j)
        PROVE  AlertIsOf(d)'
    BY <1>2, <1>4 DEF Queues, AlertIsOf, At
  <1>5. CASE RequestsFinish
    BY <1>1, <1>5 DEF RequestsFinish, AlertIsOf
  <1> QED
    BY <1>2, <1>3, <1>4, <1>5 DEF Kinds, WorkerKind, RequestKind, Recovers, Waits

\* A job that is there stays due in time, for the clock does not go back.
LEMMA JobStaysDue ==
    ASSUME LocalInv, JobInv, TimeInv, Kinds, NEW j \in JobIds, jobs[j] # AbsentJob
    PROVE  IsDueInTime(j)'
  <1>1. now \in Nat /\ now' \in Nat /\ now <= now'
    BY ClockOfKinds
  <1>2. JobMoves(j) /\ jobs[j] \in Job /\ jobs'[j] \in Job
    BY JobsMove, JobStays DEF LocalInv, TypeOK
  <1>3. /\ jobs[j].runAfter \in Nat /\ jobs[j].leaseUntil \in Nat
        /\ jobs'[j].runAfter \in Nat /\ jobs'[j].leaseUntil \in Nat
    BY <1>2, JobNumbers
  <1>4. CASE Untouched(j)
    <2>1. incidents'[jobs[j].incident].alertAt = incidents[jobs[j].incident].alertAt
      <3>1. jobs[j].incident \in IncidentIds /\ incidents[jobs[j].incident] # AbsentIncident
        BY <1>2 DEF Job, JobInv
      <3> QED
        BY <3>1, RowsOfKinds DEF RowsStay
    <2>2. jobs[j].leaseUntil <= now + Lease => jobs[j].leaseUntil <= now' + Lease
      BY <1>1, <1>3, Durations, DueLater
    <2>3. jobs[j].runAfter <= now + RetryCap => jobs[j].runAfter <= now' + RetryCap
      BY <1>1, <1>3, Durations, DueLater
    <2>4. jobs[j].runAfter <= now + AuditDelay => jobs[j].runAfter <= now' + AuditDelay
      BY <1>1, <1>3, Durations, DueLater
    <2> QED
      BY <1>4, <2>1, <2>2, <2>3, <2>4 DEF Untouched, TimeInv, IsDueInTime
  <1>5. CASE Ended(j)
    BY <1>5 DEF Ended, ClosedStatuses, IsDueInTime
  <1>6. ASSUME jobs'[j].status = "QUEUED", jobs'[j].runAfter <= now + RetryCap
        PROVE  IsDueInTime(j)'
    <2>1. jobs'[j].runAfter <= now' + RetryCap
      BY <1>1, <1>3, <1>6, Durations, DueLater
    <2> QED
      BY <1>6, <2>1 DEF IsDueInTime
  <1>7. ASSUME jobs'[j].status = "RUNNING", jobs'[j].leaseUntil = now + Lease
        PROVE  IsDueInTime(j)'
    <2>1. jobs'[j].leaseUntil <= now + Lease
      BY <1>3, <1>7, Durations
    <2>2. jobs'[j].leaseUntil <= now' + Lease
      BY <1>1, <1>3, <2>1, Durations, DueLater
    <2> QED
      BY <1>7, <2>2 DEF IsDueInTime
  <1> QED
    BY <1>2, <1>4, <1>5, <1>6, <1>7 DEF JobMoves

\* A new job is due when its alert was, or an audit delay after its claim.
LEMMA NewJobIsDue ==
    ASSUME LocalInv, ClaimInv, TimeInv, Kinds, NEW j \in JobIds, jobs[j] = AbsentJob
    PROVE  IsDueInTime(j)'
  <1>1. CASE jobs'[j] = AbsentJob
    BY <1>1 DEF AbsentJob, IsDueInTime
  <1>2. ASSUME NEW d \in Deliveries, NEW k \in JobIds, Queues(d, k), j = k
        PROVE  IsDueInTime(j)'
    <2>1. /\ jobs'[j].status = "QUEUED" /\ jobs'[j] \in Job
          /\ jobs'[j].runAfter = Event[d].at
          /\ incidents'[jobs'[j].incident].alertAt = Event[d].at
      BY <1>2 DEF Queues, TimeInv, AlertIsOf
    <2>2. jobs'[j].runAfter <= incidents'[jobs'[j].incident].alertAt
      BY <2>1, JobNumbers
    <2> QED
      BY <2>1, <2>2 DEF IsDueInTime
  <1>3. ASSUME NEW w \in Workers, WorkerKind(w), SchedulesAnother(w),
               NEW k \in JobIds, jobs'[k] \in Job, jobs'[k].status = "QUEUED",
               jobs'[k].runAfter = worker[w].at + AuditDelay, j = k
        PROVE  IsDueInTime(j)'
    <2>1. worker[w] \in Busy /\ WorkerTypeOK /\ UNCHANGED now
      BY <1>3 DEF SchedulesAnother, EndsClaim, LocalInv, TypeOK, WorkerKind
    <2>2. worker[w].at \in Nat /\ worker[w].at <= now
      BY <2>1, BusyWorker, WorkerFacts DEF ClaimInv, Working, Busy
    <2>3. jobs'[j].runAfter <= now' + AuditDelay
      BY <1>3, <2>1, <2>2, JobNumbers, ClockOfKinds, Durations
    <2> QED
      BY <1>3, <2>3 DEF IsDueInTime
  <1>4. ASSUME jobs'[j] # AbsentJob
        PROVE  \/ \E d \in Deliveries, k \in JobIds : Queues(d, k) /\ j = k
               \/ \E w \in Workers, k \in JobIds :
                     /\ WorkerKind(w) /\ SchedulesAnother(w)
                     /\ jobs'[k] \in Job /\ jobs'[k].status = "QUEUED"
                     /\ jobs'[k].runAfter = worker[w].at + AuditDelay
                     /\ j = k
    <2>1. ASSUME NEW d \in Deliveries, NEW k \in JobIds, Queues(d, k)
          PROVE  j = k
      BY <1>4, <2>1 DEF Queues, OthersUntouched, Untouched
    <2>2. ASSUME NEW w \in Workers, WorkerKind(w)
          PROVE  \E k \in JobIds :
                     /\ SchedulesAnother(w)
                     /\ jobs'[k] \in Job /\ jobs'[k].status = "QUEUED"
                     /\ jobs'[k].runAfter = worker[w].at + AuditDelay
                     /\ j = k
      <3>1. SchedulesAnother(w)
        BY <1>4, <2>2, WorkerMovesJobs DEF NoNewJob
      <3>2. PICK k \in JobIds : /\ jobs'[k] \in Job
                                /\ jobs'[k].status = "QUEUED"
                                /\ jobs'[k].runAfter = worker[w].at + AuditDelay
                                /\ OthersUntouched({k, ClaimOf(w).job})
        BY <3>1 DEF SchedulesAnother
      <3>3. jobs[ClaimOf(w).job] # AbsentJob
        BY <3>1, ClaimedJob DEF SchedulesAnother, EndsClaim
      <3> QED
        BY <1>4, <3>1, <3>2, <3>3 DEF OthersUntouched, Untouched
    <2>3. ASSUME NEW i \in IncidentIds, Recovers(i)
          PROVE  FALSE
      BY <1>4, <2>3, OpenIsThere DEF Recovers, EndsJobsOf, Untouched, Ended
    <2> QED
      BY <1>4, <2>1, <2>2, <2>3 DEF Kinds, RequestKind, Receives, Waits
  <1> QED
    BY <1>1, <1>2, <1>3, <1>4

LEMMA TimeInvNext ==
    ASSUME LocalInv, JobInv, ClaimInv, TimeInv, [Next]_vars
    PROVE  TimeInv'
  <1>1. Kinds
    BY StepKinds
  <1>2. \A d \in Deliveries : AlertIsOf(d)'
    BY <1>1, AlertIsOfNext
  <1>3. \A j \in JobIds : IsDueInTime(j)'
    BY <1>1, JobStaysDue, NewJobIsDue
  <1> QED
    BY <1>2, <1>3 DEF TimeInv

\* Every open job is due within a lease, the longest back-off or the audit delay, or
\* at the time of its alert.
THEOREM TimeInvariance == Spec => []TimeInv
  <1>1. Init => TimeInv
    BY DEF Init, StoreInit, RequestInit, AbsentJob, At, TimeInv, IsDueInTime, AlertIsOf
  <1>2. LocalInv /\ JobInv /\ ClaimInv /\ TimeInv /\ [Next]_vars => TimeInv'
    BY TimeInvNext
  <1> QED
    BY <1>1, <1>2, LocalInvariance, JobInvariance, ClaimInvariance, PTL DEF Spec

\* An open job of an active incident is claimable at one of the four times.
LEMMA DueJobIsFound ==
    ASSUME TimeInv, NEW i \in IncidentIds, Active(i), OpenJobs(i) # {}
    PROVE  IsFoundAgain(i)
  <1>1. PICK j \in OpenJobs(i) : TRUE
    OBVIOUS
  <1>2. j \in JobIds /\ jobs[j].status \in OpenStatuses /\ jobs[j].incident = i
    BY <1>1 DEF OpenJobs
  <1>3. IsDueInTime(j)
    BY <1>2 DEF TimeInv
  <1>4. \E t \in {now + Lease, now + RetryCap, now + AuditDelay, incidents[i].alertAt} :
           Claimable(j, t)
    BY <1>2, <1>3 DEF IsDueInTime, Claimable, OpenStatuses
  <1> QED
    BY <1>1, <1>4 DEF IsFoundAgain

\* Work on an active incident is not forgotten: it has an open job that ClaimNext
\* finds again at a known time, or a request is about to queue it, or a fault struck
\* between the two statements of the request.
THEOREM WorkIsNotForgotten == Spec => []ActiveIncidentIsFoundAgain
  <1>1. WorkIsQueued /\ TimeInv => ActiveIncidentIsFoundAgain
    BY DueJobIsFound DEF WorkIsQueued, HasJob, ActiveIncidentIsFoundAgain
  <1> QED
    BY <1>1, WorkHasAJob, TimeInvariance, PTL

-----------------------------------------------------------------------------
(* What a step does to the states of the incidents.                        *)

\* No state and no key changes; at most an incident gets the card it lacked.
OnlyCardChanges(i) ==
    \/ incidents'[i] = incidents[i]
    \/ /\ incidents[i] \in Incident
       /\ incidents'[i] \in Incident
       /\ incidents[i].card = NoCard
       /\ incidents'[i].state = incidents[i].state
       /\ incidents'[i].key = incidents[i].key

StatesStay == \A i \in IncidentIds : OnlyCardChanges(i)

MovesItsIncident(w) == Marks(w) \/ Completes(w) \/ Fails(w) \/ SchedulesAnother(w)

LEMMA WorkerMovesStates ==
    ASSUME LocalInv, NEW w \in Workers, WorkerKind(w)
    PROVE  StatesStay \/ MovesItsIncident(w)
  <1>1. CASE UNCHANGED incidents
    BY <1>1 DEF StatesStay, OnlyCardChanges
  <1>2. CASE SavesACard(w)
    <2>1. PICK m \in MessageIds : CardBecomes(IncidentOf(w), m)
      BY <1>2 DEF SavesACard
    <2> QED
      BY <2>1 DEF CardBecomes, StatesStay, OnlyCardChanges
  <1> QED
    BY <1>1, <1>2 DEF WorkerKind, StartsAJob, Passes, QueuesAgain, MovesItsIncident

LEMMA StatesOfKinds ==
    ASSUME LocalInv, Kinds
    PROVE  \/ StatesStay
           \/ \E d \in Deliveries, i \in IncidentIds : Receives(d, i)
           \/ \E i \in IncidentIds : Recovers(i)
           \/ \E w \in Workers : MovesItsIncident(w)
  <1>1. UNCHANGED incidents => StatesStay
    BY DEF StatesStay, OnlyCardChanges
  <1> QED
    BY <1>1, WorkerMovesStates DEF Kinds, RequestKind, Queues, Waits

\* A worker that moves its incident passes the fence.
LEMMA MoverIsFenced ==
    ASSUME LocalInv, NEW w \in Workers, MovesItsIncident(w)
    PROVE  /\ worker[w] \in Busy
           /\ Working(w)
           /\ CheckActiveClaim(ClaimOf(w))
           /\ IncidentOf(w) \in IncidentIds
           /\ Active(IncidentOf(w))
           /\ UNCHANGED cards
           /\ \E s \in {"INVESTIGATING", "COMPLETED", "FAILED", "AWAITING_AUDIT_EVENT"} :
                 StateBecomes(IncidentOf(w), s)
  <1>1. /\ worker[w] \in Busy
        /\ CheckActiveClaim(ClaimOf(w))
        /\ UNCHANGED cards
        /\ \E s \in {"INVESTIGATING", "COMPLETED", "FAILED", "AWAITING_AUDIT_EVENT"} :
              StateBecomes(IncidentOf(w), s)
    BY DEF MovesItsIncident, Marks, Completes, Fails, SchedulesAnother, EndsClaim
  <1>2. Working(w)
    BY <1>1, BusyWorker DEF LocalInv, TypeOK, Busy
  <1> QED
    BY <1>1, <1>2, ClaimedJob

-----------------------------------------------------------------------------
(* What a worker that passes the fence may rely on.                        *)

FenceHoldsNext(c) ==
    /\ jobs'[c.job].status = "RUNNING"
    /\ jobs'[c.job].incident = c.incident
    /\ jobs'[c.job].worker = c.worker
    /\ jobs'[c.job].leaseUntil = c.leaseUntil
    /\ incidents'[c.incident].state \in ActiveStates

\* A claim does not become good again: once the fence refuses it, it always does.
LEMMA FenceWasHeld ==
    ASSUME LocalInv, ClaimInv, Kinds, NEW w \in Workers, Working(w), FenceHoldsNext(ClaimOf(w))
    PROVE  CheckActiveClaim(ClaimOf(w))
  <1>0. /\ StoreTypeOK
        /\ now \in Nat
        /\ worker[w] \in Busy
    BY BusyWorker, ClockOfKinds DEF LocalInv, TypeOK
  <1>1. /\ ClaimOf(w) \in Claim
        /\ ClaimOf(w).job \in JobIds
        /\ ClaimOf(w).incident = IncidentOf(w)
        /\ IncidentOf(w) \in IncidentIds
        /\ incidents[IncidentOf(w)] # AbsentIncident
        /\ ClaimIsBehindJob(ClaimOf(w))
    BY <1>0, WorkerFacts DEF Claim, ClaimInv, ClaimOf, IncidentOf
  <1>2. jobs[ClaimOf(w).job] # AbsentJob
    BY <1>1 DEF ClaimIsBehindJob, Job, AbsentJob, OpenStatuses, ClosedStatuses
  <1>3. ASSUME IsDue(ClaimOf(w).job), jobs'[ClaimOf(w).job].leaseUntil = now + Lease
        PROVE  FALSE
    <2>1. ClaimOf(w).leaseUntil < now + Lease
      BY <1>0, <1>1, <1>3, ClaimIsOld
    <2>2. now + Lease \in Nat /\ ~(now + Lease < now + Lease)
      BY <1>0, StoreAssumption
    <2> QED
      BY <1>3, <2>1, <2>2 DEF FenceHoldsNext
  <1>4. Untouched(ClaimOf(w).job)
    BY <1>1, <1>2, <1>3, JobsMove
    DEF JobMoves, Ended, FenceHoldsNext, OpenStatuses, ClosedStatuses
  <1>5. HoldsClaim(ClaimOf(w))
    BY <1>4 DEF Untouched, HoldsClaim, FenceHoldsNext
  <1>6. PICK i \in IncidentIds : i = IncidentOf(w)
    BY <1>1
  <1>7. Active(i)'
    BY <1>1, <1>6 DEF FenceHoldsNext, Active
  <1>8. Active(i)
    BY <1>1, <1>6, <1>7, ActiveOfKinds DEF Receives
  <1> QED
    BY <1>1, <1>5, <1>6, <1>8 DEF CheckActiveClaim

\* The incident of a worker that passes the fence before and after a step of
\* somebody else is in the same state.
LEMMA OthersKeepState ==
    ASSUME LocalInv, JobInv, ClaimInv, Kinds, NEW v \in Workers, Working(v),
           CheckActiveClaim(ClaimOf(v)), FenceHoldsNext(ClaimOf(v)),
           ~MovesItsIncident(v)
    PROVE  incidents'[IncidentOf(v)].state = incidents[IncidentOf(v)].state
  <1>1. /\ IncidentOf(v) \in IncidentIds
        /\ incidents[IncidentOf(v)] # AbsentIncident
        /\ incidents'[IncidentOf(v)].state \in ActiveStates
    BY BusyWorker, WorkerFacts DEF LocalInv, TypeOK, FenceHoldsNext, IncidentOf, ClaimOf
  <1>2. CASE StatesStay
    BY <1>1, <1>2 DEF StatesStay, OnlyCardChanges
  <1>3. ASSUME NEW d \in Deliveries, NEW i \in IncidentIds, Receives(d, i)
        PROVE  incidents'[IncidentOf(v)].state = incidents[IncidentOf(v)].state
    BY <1>1, <1>3 DEF Receives
  <1>4. ASSUME NEW i \in IncidentIds, Recovers(i)
        PROVE  incidents'[IncidentOf(v)].state = incidents[IncidentOf(v)].state
    BY <1>1, <1>4 DEF Recovers, StateBecomes, ActiveStates
  <1>5. ASSUME NEW w \in Workers, MovesItsIncident(w)
        PROVE  incidents'[IncidentOf(v)].state = incidents[IncidentOf(v)].state
    <2>1. IncidentOf(v) # IncidentOf(w)
      BY <1>5, MoverIsFenced, OneInvestigator
    <2>2. incidents'[IncidentOf(v)] = incidents[IncidentOf(v)]
      BY <1>1, <1>5, <2>1, MoverIsFenced DEF StateBecomes
    <2> QED
      BY <2>2
  <1> QED
    BY <1>2, <1>3, <1>4, <1>5, StatesOfKinds

\* What the card of a worker that passes the fence shows, nobody else changes.
LEMMA OthersKeepCard ==
    ASSUME LocalInv, JobInv, ClaimInv, NEW v \in Workers, Working(v),
           CheckActiveClaim(ClaimOf(v)), worker[v].card \in MessageIds,
           NEW S \in SUBSET Workers, v \notin S, CardsAreWritten(S)
    PROVE  cards'[worker[v].card] = cards[worker[v].card]
  <1>1. cards[worker[v].card] # AbsentCard /\ cards[worker[v].card].incident = IncidentOf(v)
    BY CardOfWorker
  <1>2. ~IsRecovered(IncidentOf(v))
    BY DEF CheckActiveClaim, Active, ActiveStates, IsRecovered, IncidentOf, ClaimOf
  <1>3. ASSUME NEW w \in S, Working(w), CheckActiveClaim(ClaimOf(w)),
               worker[v].card = worker[w].card
        PROVE  FALSE
    <2>1. IncidentOf(v) = IncidentOf(w)
      BY <1>1, <1>3, CardOfWorker
    <2> QED
      BY <1>3, <2>1, OneInvestigator
  <1> QED
    BY <1>1, <1>2, <1>3 DEF CardsAreWritten, CardIsWritten

LEMMA FencedOthers ==
    ASSUME LocalInv, JobInv, ClaimInv, Kinds, NEW v \in Workers, worker'[v] = worker[v],
           FencedOK(v), ~MovesItsIncident(v),
           NEW S \in SUBSET Workers, v \notin S, CardsAreWritten(S)
    PROVE  FencedOK(v)'
  <1>1. SUFFICES ASSUME Working(v), FenceHoldsNext(ClaimOf(v))
                 PROVE  /\ worker[v].pc \in StepsOfInvestigation =>
                              incidents'[IncidentOf(v)].state = "INVESTIGATING"
                        /\ worker[v].pc = "commit" =>
                              cards'[worker[v].card].shows = worker[v].state
    BY DEF FencedOK, Working, CheckActiveClaim, HoldsClaim, Active, FenceHoldsNext, ClaimOf,
           IncidentOf
  <1>2. CheckActiveClaim(ClaimOf(v))
    BY <1>1, FenceWasHeld
  <1>3. incidents'[IncidentOf(v)].state = incidents[IncidentOf(v)].state
    BY <1>1, <1>2, OthersKeepState
  <1>4. worker[v].pc = "commit" => cards'[worker[v].card] = cards[worker[v].card]
    <2>1. worker[v].pc = "commit" => worker[v].card \in MessageIds
      BY <1>1, BusyWorker, WorkerFacts DEF LocalInv, TypeOK, StepsWithCard, Steps
    <2> QED
      BY <1>1, <1>2, <2>1, OthersKeepCard
  <1> QED
    BY <1>1, <1>2, <1>3, <1>4 DEF FencedOK

\* A worker that moves its incident returns, or enters the investigation.
LEMMA FencedMover ==
    ASSUME NEW w \in Workers, MovesItsIncident(w)
    PROVE  FencedOK(w)'
  <1>1. CASE Marks(w)
    <2>1. /\ worker'[w].pc = "card investigating"
          /\ worker'[w].claim = worker[w].claim
          /\ incidents'[IncidentOf(w)].state = "INVESTIGATING"
      BY <1>1 DEF Marks, Continues, StateBecomes
    <2> QED
      BY <2>1 DEF FencedOK, IncidentOf
  <1>2. CASE EndsClaim(w)
    BY <1>2 DEF EndsClaim, Leaves, FencedOK, Working
  <1> QED
    BY <1>1, <1>2 DEF MovesItsIncident, Completes, Fails, SchedulesAnother

LEMMA OthersOfWorkerKind ==
    ASSUME LocalInv, NEW w \in Workers, WorkerKind(w)
    PROVE  OthersWait(w)
  <1>1. StartsAJob(w) => OthersWait(w)
    BY DEF StartsAJob, Starts, OthersWait
  <1> QED
    BY <1>1, ClaimsOfWorkerKind DEF LocalInv, TypeOK

\* The worker that takes the step marks the incident when it enters the
\* investigation, and has shown the outcome when it comes to the commit.
LEMMA FencedActor ==
    ASSUME LocalInv, JobInv, ClaimInv, Kinds, NEW w \in Workers, WorkerKind(w), FencedOK(w)
    PROVE  FencedOK(w)'
  <1>0. WorkerTypeOK /\ (worker[w] \in Busy => Working(w))
    BY BusyWorker DEF LocalInv, TypeOK, Busy
  <1>1. CASE worker'[w] = Idle
    BY <1>1 DEF FencedOK, Working
  <1>2. CASE StartsAJob(w)
    <2>1. worker'[w].pc = "read"
      BY <1>2 DEF StartsAJob, Starts
    <2> QED
      BY <2>1 DEF FencedOK, StepsOfInvestigation
  <1>3. CASE MovesItsIncident(w)
    BY <1>3, FencedMover
  <1>4. CASE Passes(w) \/ SavesACard(w)
    <2>1. StatesStay
      BY <1>4 DEF Passes, SavesACard, CardBecomes, StatesStay, OnlyCardChanges
    <2>2. ASSUME worker'[w] # Idle
          PROVE  /\ Working(w)
                 /\ worker'[w].claim = ClaimOf(w)
                 /\ worker'[w].pc \in StepsOfInvestigation => worker[w].pc \in StepsOfInvestigation
                 /\ worker'[w].pc = "commit" => cards'[worker'[w].card].shows = worker'[w].state
      BY <1>0, <1>4, <2>2 DEF Passes, SavesACard, Proceeds, ClaimOf
    <2>3. ASSUME Working(w)
          PROVE  incidents'[IncidentOf(w)].state = incidents[IncidentOf(w)].state
      BY <1>0, <2>1, <2>3, BusyWorker, WorkerFacts DEF StatesStay, OnlyCardChanges
    <2>4. ASSUME worker'[w] # Idle, FenceHoldsNext(ClaimOf(w))
          PROVE  CheckActiveClaim(ClaimOf(w))
      BY <2>2, <2>4, FenceWasHeld
    <2> QED
      BY <2>2, <2>3, <2>4
      DEF FencedOK, Working, CheckActiveClaim, HoldsClaim, Active, FenceHoldsNext, ClaimOf,
          IncidentOf
  <1>5. CASE EndsClaim(w)
    BY <1>1, <1>5 DEF EndsClaim, Leaves
  <1> QED
    BY <1>2, <1>3, <1>4, <1>5 DEF WorkerKind, MovesItsIncident, QueuesAgain

LEMMA FencedNext ==
    ASSUME LocalInv, JobInv, ClaimInv, Kinds, NEW v \in Workers, FencedOK(v)
    PROVE  FencedOK(v)'
  <1>1. CASE Waits \/ RequestKind
    <2>1. worker'[v] = worker[v]
      BY <1>1 DEF Waits, RequestKind
    <2>2. CardsAreWritten({})
      BY <1>1, SameCards DEF Waits, RequestKind, Receives, Queues, Recovers
    <2>3. CASE ~MovesItsIncident(v)
      <3> DEFINE S == {}
      <3>1. S \in SUBSET Workers /\ v \notin S /\ CardsAreWritten(S)
        BY <2>2
      <3> HIDE DEF S
      <3> QED
        BY <2>1, <2>3, <3>1, FencedOthers
    <2>4. CASE MovesItsIncident(v)
      BY <2>4, FencedMover
    <2> QED
      BY <2>3, <2>4
  <1>2. ASSUME NEW w \in Workers, WorkerKind(w), v # w
        PROVE  FencedOK(v)'
    <2>1. worker'[v] = worker[v]
      BY <1>2, OthersOfWorkerKind DEF OthersWait
    <2>2. CardsAreWritten({w})
      BY <1>2, CardsOfWorkerKind
    <2>3. CASE ~MovesItsIncident(v)
      <3> DEFINE S == {w}
      <3>1. S \in SUBSET Workers /\ v \notin S /\ CardsAreWritten(S)
        BY <1>2, <2>2
      <3> HIDE DEF S
      <3> QED
        BY <2>1, <2>3, <3>1, FencedOthers
    <2>4. CASE MovesItsIncident(v)
      BY <2>4, FencedMover
    <2> QED
      BY <2>3, <2>4
  <1> QED
    BY <1>1, <1>2, FencedActor DEF Kinds

\* What a card of a completed incident shows, only the announcement of a recovery
\* could change, and that would be of another incident.
LEMMA CompletedCardStays ==
    ASSUME LocalInv, Kinds, NEW i \in IncidentIds, incidents[i].state = "COMPLETED",
           incidents[i].card # NoCard
    PROVE  cards'[incidents[i].card] = cards[incidents[i].card]
  <1>1. /\ incidents[i].card \in MessageIds
        /\ cards[incidents[i].card] # AbsentCard
        /\ cards[incidents[i].card].incident = i
    <2>1. incidents[i] \in Incident
      BY DEF LocalInv, TypeOK, StoreTypeOK, AbsentIncident
    <2>2. incidents[i].card \in MessageIds
      BY <2>1 DEF Incident
    <2>3. CardIsOf(incidents[i].card, i)
      BY <2>1, IncidentIsThere DEF LocalInv, RowOK
    <2> QED
      BY <2>2, <2>3 DEF CardIsOf
  <1>2. ASSUME NEW w \in Workers, Working(w), CheckActiveClaim(ClaimOf(w)),
               incidents[i].card = worker[w].card
        PROVE  FALSE
    <2>1. IncidentOf(w) = i
      BY <1>1, <1>2, CardOfWorker
    <2> QED
      BY <1>2, <2>1 DEF CheckActiveClaim, Active, ActiveStates, IncidentOf, ClaimOf
  <1>3. PICK S \in {{}} \cup {{w} : w \in Workers} : CardsAreWritten(S)
    BY CardsOfKinds
  <1>4. CardIsWritten(incidents[i].card, S)
    BY <1>1, <1>3 DEF CardsAreWritten
  <1> QED
    BY <1>1, <1>2, <1>4 DEF CardIsWritten, IsRecovered

LEMMA CompletedNext ==
    ASSUME LocalInv, Kinds, \A w \in Workers : FencedOK(w), NEW i \in IncidentIds, CompletedOK(i),
           incidents'[i].state = "COMPLETED"
    PROVE  incidents'[i].card # NoCard /\ cards'[incidents'[i].card].shows = "COMPLETED"
  <1>1. ASSUME NEW w \in Workers, Completes(w), IncidentOf(w) = i
        PROVE  incidents'[i].card # NoCard /\ cards'[incidents'[i].card].shows = "COMPLETED"
    <2>1. /\ worker[w] \in Busy
          /\ worker[w].pc = "commit"
          /\ worker[w].state = "COMPLETED"
          /\ CheckActiveClaim(ClaimOf(w))
          /\ UNCHANGED cards
          /\ incidents'[i].card = incidents[i].card
      BY <1>1 DEF Completes, EndsClaim, StateBecomes
    <2>2. worker[w].card \in MessageIds /\ incidents[i].card = worker[w].card
      <3>1. "commit" \in StepsWithCard /\ "commit" \in StepsWithRowCard
        BY DEF StepsWithCard, StepsWithRowCard, Steps
      <3> QED
        BY <1>1, <2>1, <3>1, WorkerFacts
    <2>3. cards[worker[w].card].shows = "COMPLETED"
      <3>1. Working(w)
        BY <2>1, BusyWorker DEF LocalInv, TypeOK, Busy
      <3>2. FencedOK(w)
        OBVIOUS
      <3> QED
        BY <2>1, <3>1, <3>2 DEF FencedOK
    <2> QED
      BY <2>1, <2>2, <2>3, EnvironmentAssumption
  <1>2. ASSUME incidents[i].state = "COMPLETED", incidents'[i].card = incidents[i].card
        PROVE  incidents'[i].card # NoCard /\ cards'[incidents'[i].card].shows = "COMPLETED"
    BY <1>2, CompletedCardStays DEF CompletedOK
  <1>3. CASE StatesStay
    <2>1. OnlyCardChanges(i)
      BY <1>3 DEF StatesStay
    <2> QED
      BY <1>2, <2>1 DEF OnlyCardChanges, CompletedOK
  <1>4. ASSUME NEW d \in Deliveries, NEW o \in IncidentIds, Receives(d, o)
        PROVE  incidents'[i].card # NoCard /\ cards'[incidents'[i].card].shows = "COMPLETED"
    BY <1>2, <1>4 DEF Receives
  <1>5. ASSUME NEW o \in IncidentIds, NEW s, StateBecomes(o, s), s # "COMPLETED" \/ o # i
        PROVE  incidents'[i].card # NoCard /\ cards'[incidents'[i].card].shows = "COMPLETED"
    BY <1>2, <1>5 DEF StateBecomes
  <1>6. ASSUME NEW o \in IncidentIds, Recovers(o)
        PROVE  incidents'[i].card # NoCard /\ cards'[incidents'[i].card].shows = "COMPLETED"
    BY <1>5, <1>6 DEF Recovers
  <1>7. ASSUME NEW w \in Workers, MovesItsIncident(w)
        PROVE  incidents'[i].card # NoCard /\ cards'[incidents'[i].card].shows = "COMPLETED"
    <2>1. IncidentOf(w) \in IncidentIds
      BY <1>7, MoverIsFenced
    <2>2. CASE Completes(w)
      BY <1>1, <1>5, <2>1, <2>2 DEF Completes
    <2>3. CASE Marks(w) \/ Fails(w) \/ SchedulesAnother(w)
      BY <1>5, <2>1, <2>3 DEF Marks, Fails, SchedulesAnother
    <2> QED
      BY <1>7, <2>2, <2>3 DEF MovesItsIncident
  <1> QED
    BY <1>3, <1>4, <1>6, <1>7, StatesOfKinds

LEMMA FencedInvNext ==
    ASSUME LocalInv, JobInv, ClaimInv, FencedInv, [Next]_vars
    PROVE  FencedInv'
  <1>1. Kinds
    BY StepKinds
  <1>2. \A w \in Workers : FencedOK(w)'
    BY <1>1, FencedNext DEF FencedInv
  <1>3. \A i \in IncidentIds : CompletedOK(i)'
    BY <1>1, CompletedNext DEF FencedInv, CompletedOK
  <1> QED
    BY <1>2, <1>3 DEF FencedInv

LEMMA FencedInvInit ==
    ASSUME Init
    PROVE  FencedInv
  <1>1. \A w \in Workers : ~Working(w)
    BY DEF Init, WorkerInit, Working
  <1>2. \A i \in IncidentIds : incidents[i].state # "COMPLETED"
    BY DEF Init, StoreInit, AbsentIncident
  <1> QED
    BY <1>1, <1>2 DEF FencedInv, FencedOK, CompletedOK

\* A worker that passes the fence in the middle of an investigation works on an
\* incident that is INVESTIGATING, and before the commit the card shows the outcome.
THEOREM FencedInvariance == Spec => []FencedInv
  <1>1. Init => FencedInv
    BY FencedInvInit
  <1>2. LocalInv /\ JobInv /\ ClaimInv /\ FencedInv /\ [Next]_vars => FencedInv'
    BY FencedInvNext
  <1> QED
    BY <1>1, <1>2, LocalInvariance, JobInvariance, ClaimInvariance, PTL DEF Spec

\* A completed incident's card shows the completed investigation.
THEOREM CompletionIsShown == Spec => []CompletedCardShowsCompletion
  <1>1. FencedInv => CompletedCardShowsCompletion
    BY DEF FencedInv, CompletedOK, CompletedCardShowsCompletion
  <1> QED
    BY <1>1, FencedInvariance, PTL

-----------------------------------------------------------------------------
(* The system implements the life cycle.                                   *)

\* The values of the variables of Lifecycle that the system's rows stand for.
KeyOf(i) == IF incidents[i] = AbsentIncident THEN "" ELSE incidents[i].key

LifecycleStates == [i \in IncidentIds |-> incidents[i].state]
LifecycleKeys == [i \in IncidentIds |-> KeyOf(i)]

LEMMA StatesStayStutter ==
    ASSUME StatesStay
    PROVE  UNCHANGED <<LifecycleStates, LifecycleKeys>>
  <1>1. \A i \in IncidentIds : incidents'[i].state = incidents[i].state
    BY DEF StatesStay, OnlyCardChanges
  <1>2. \A i \in IncidentIds : KeyOf(i)' = KeyOf(i)
    BY IncidentIsThere DEF StatesStay, OnlyCardChanges, KeyOf
  <1> QED
    BY <1>1, <1>2 DEF LifecycleStates, LifecycleKeys

\* A row that gets a state is a step of its incident.
LEMMA StateBecomesStep ==
    ASSUME NEW i \in IncidentIds, NEW s, NEW from, StateBecomes(i, s), incidents[i].state \in from
    PROVE  L!Step(i, from, s)
  <1>1. LifecycleStates' = [LifecycleStates EXCEPT ![i] = s]
    BY DEF StateBecomes, LifecycleStates
  <1>2. \A o \in IncidentIds : KeyOf(o)' = KeyOf(o)
    BY IncidentIsThere DEF StateBecomes, KeyOf
  <1>3. UNCHANGED LifecycleKeys
    BY <1>2 DEF LifecycleKeys
  <1> QED
    BY <1>1, <1>3 DEF L!Step, LifecycleStates, LifecycleKeys, KeyOf

LEMMA ReceivesStep ==
    ASSUME NEW d \in Deliveries, NEW i \in IncidentIds, Receives(d, i)
    PROVE  L!Receive(i, Event[d].key)
  <1>1. incidents[i].state = "ABSENT"
    BY DEF Receives, AbsentIncident
  <1>2. ASSUME NEW o \in IncidentIds, L!Open(o)
        PROVE  KeyOf(o) # Event[d].key
    <2>1. Active(o)
      BY <1>2 DEF L!Open, Active, ActiveStates
    <2>2. incidents[o] # AbsentIncident
      BY <2>1 DEF Active, ActiveStates, AbsentIncident
    <2> QED
      BY <2>1, <2>2 DEF Receives, KeyIsActive, KeyOf
  <1>3. LifecycleStates' = [LifecycleStates EXCEPT ![i] = "RECEIVED"]
    BY DEF Receives, LifecycleStates
  <1>4. LifecycleKeys' = [LifecycleKeys EXCEPT ![i] = Event[d].key]
    BY IncidentIsThere DEF Receives, LifecycleKeys, KeyOf
  <1> QED
    BY <1>1, <1>2, <1>3, <1>4 DEF L!Receive, LifecycleStates, LifecycleKeys, KeyOf

\* Every move of an incident is one that the life cycle allows.
LEMMA KindsImplement ==
    ASSUME LocalInv, FencedInv, Kinds
    PROVE  [L!Next]_<<LifecycleStates, LifecycleKeys>>
  <1>1. CASE StatesStay
    BY <1>1, StatesStayStutter
  <1>2. ASSUME NEW d \in Deliveries, NEW i \in IncidentIds, Receives(d, i)
        PROVE  L!Next
    <2>1. L!Receive(i, Event[d].key) /\ Event[d].key \in Keys
      BY <1>2, ReceivesStep DEF Receives
    <2> QED
      BY <2>1 DEF L!Next
  <1>3. ASSUME NEW i \in IncidentIds, Recovers(i)
        PROVE  L!Next
    <2>1. incidents[i].state \in {"RECEIVED", "INVESTIGATING", "AWAITING_AUDIT_EVENT",
                                  "COMPLETED", "FAILED"}
      BY <1>3 DEF Recovers, StateBecomes, Incident, ActiveStates, TerminalStates
    <2>2. L!Recover(i)
      BY <1>3, <2>1, StateBecomesStep DEF Recovers, L!Recover
    <2> QED
      BY <2>2 DEF L!Next
  <1>4. ASSUME NEW w \in Workers, MovesItsIncident(w)
        PROVE  L!Next
    <2>1. PICK i \in IncidentIds : i = IncidentOf(w)
      BY <1>4, MoverIsFenced
    <2>2. CASE Marks(w)
      <3>1. L!Investigate(i)
        BY <2>1, <2>2, StateBecomesStep DEF Marks, L!Investigate
      <3> QED
        BY <3>1 DEF L!Next
    <2>3. CASE Fails(w)
      <3>1. incidents[i].state \in {"RECEIVED", "INVESTIGATING", "AWAITING_AUDIT_EVENT"}
        BY <1>4, <2>1, MoverIsFenced DEF Active, ActiveStates
      <3>2. L!GiveUp(i)
        BY <2>1, <2>3, <3>1, StateBecomesStep DEF Fails, L!GiveUp
      <3> QED
        BY <3>2 DEF L!Next
    <2>4. CASE Completes(w) \/ SchedulesAnother(w)
      <3>1. worker[w].pc \in StepsOfInvestigation
        BY <2>4 DEF Completes, SchedulesAnother, StepsOfInvestigation
      <3>2. incidents[i].state \in {"INVESTIGATING"}
        BY <1>4, <2>1, <3>1, MoverIsFenced DEF FencedInv, FencedOK
      <3>3. L!Conclude(i) \/ L!AwaitAudit(i)
        BY <2>1, <2>4, <3>2, StateBecomesStep
        DEF Completes, SchedulesAnother, L!Conclude, L!AwaitAudit
      <3> QED
        BY <3>3 DEF L!Next
    <2> QED
      BY <1>4, <2>2, <2>3, <2>4 DEF MovesItsIncident
  <1> QED
    BY <1>1, <1>2, <1>3, <1>4, StatesOfKinds

\* The system implements its life cycle: an incident is completed or parked only
\* from INVESTIGATING, a recovered one is never touched again, and occurrences of
\* a key that is active are merged.
THEOREM LifecycleIsImplemented == Spec => ImplementsLifecycle
  <1>1. Init => L!Init
    BY DEF Init, StoreInit, L!Init, AbsentIncident
  <1>2. LocalInv /\ FencedInv /\ [Next]_vars => [L!Next]_(L!lifecycleVars)
    <2>1. ASSUME LocalInv, FencedInv, [Next]_vars
          PROVE  L!Next \/ UNCHANGED <<LifecycleStates, LifecycleKeys>>
      BY <2>1, StepKinds, KindsImplement
    <2>2. UNCHANGED <<LifecycleStates, LifecycleKeys>> => UNCHANGED L!lifecycleVars
      BY DEF L!lifecycleVars, LifecycleStates, LifecycleKeys, KeyOf
    <2> QED
      BY <2>1, <2>2
  <1> QED
    BY <1>1, <1>2, LocalInvariance, FencedInvariance, PTL DEF Spec, L!Spec, ImplementsLifecycle

-----------------------------------------------------------------------------
(* A recovery reaches the card, when Feishu and the store answer, no       *)
(* worker dies and every attempt ends in time.                             *)

\* No attempt is still at work when its context is done.
OnTime == \A w \in Workers : Working(w) => ~ContextDone(w)

\* While an attempt is at work nobody else is claimed for its incident, so its
\* claim is good until the incident is recovered.
AloneInv ==
    /\ \A w \in Workers :
          Working(w) => CheckActiveClaim(ClaimOf(w)) \/ IsRecovered(IncidentOf(w))
    /\ \A v, w \in Workers :
          (v # w /\ Working(v) /\ Working(w)) => IncidentOf(v) # IncidentOf(w)

LEMMA RecoveredStays ==
    ASSUME LocalInv, Kinds, NEW i \in IncidentIds, IsRecovered(i)
    PROVE  incidents'[i].state = "RECOVERED"
  <1>1. incidents[i].state = "RECOVERED" /\ incidents[i] # AbsentIncident /\ ~Active(i)
    BY DEF IsRecovered, AbsentIncident, Active, ActiveStates
  <1>2. ASSUME NEW w \in Workers, MovesItsIncident(w)
        PROVE  incidents'[i].state = "RECOVERED"
    <2>1. IncidentOf(w) # i
      BY <1>1, <1>2, MoverIsFenced
    <2> QED
      BY <1>1, <1>2, <2>1, MoverIsFenced DEF StateBecomes
  <1>3. CASE StatesStay
    BY <1>1, <1>3 DEF StatesStay, OnlyCardChanges
  <1>4. ASSUME NEW d \in Deliveries, NEW o \in IncidentIds, Receives(d, o)
        PROVE  incidents'[i].state = "RECOVERED"
    BY <1>1, <1>4 DEF Receives
  <1>5. ASSUME NEW o \in IncidentIds, Recovers(o)
        PROVE  incidents'[i].state = "RECOVERED"
    BY <1>1, <1>5 DEF Recovers, StateBecomes
  <1> QED
    BY <1>2, <1>3, <1>4, <1>5, StatesOfKinds

\* A job whose claim is in use is not due.
LEMMA ClaimedIsNotDue ==
    ASSUME LocalInv, ClaimInv, OnTime, Timeout <= Lease, NEW w \in Workers, Working(w),
           CheckActiveClaim(ClaimOf(w))
    PROVE  ~IsDue(ClaimOf(w).job)
  <1>1. worker[w] \in Busy /\ now \in Nat
    BY BusyWorker, NowType DEF LocalInv, TypeOK
  <1>2. /\ jobs[ClaimOf(w).job].status = "RUNNING"
        /\ jobs[ClaimOf(w).job].leaseUntil = worker[w].at + Lease
        /\ worker[w].at \in Nat
    BY <1>1, ClaimedJob, WorkerFacts DEF ClaimInv
  <1>3. ~(worker[w].at + Lease <= now)
    <2>1. ~(now >= worker[w].at + Timeout)
      BY DEF OnTime, ContextDone
    <2>2. Lease \in Nat /\ Timeout \in Nat
      BY StoreAssumption, WorkerAssumption
    <2> QED
      BY <1>1, <1>2, <2>1, <2>2
  <1> QED
    BY <1>2, <1>3 DEF IsDue

\* Nobody else touches the job of a worker whose claim is good, except a recovery.
LEMMA ClaimedJobStays ==
    ASSUME LocalInv, ClaimInv, AloneInv, OnTime, Timeout <= Lease, Kinds,
           NEW v \in Workers, Working(v), CheckActiveClaim(ClaimOf(v)), ~EndsClaim(v)
    PROVE  Untouched(ClaimOf(v).job) \/ incidents'[IncidentOf(v)].state = "RECOVERED"
  <1> DEFINE j == ClaimOf(v).job
  <1>0. worker[v] \in Busy
    BY BusyWorker DEF LocalInv, TypeOK
  <1>1. /\ j \in JobIds
        /\ jobs[j] # AbsentJob
        /\ jobs[j].status \in OpenStatuses
        /\ jobs[j].incident = IncidentOf(v)
        /\ ~IsDue(j)
    BY <1>0, ClaimedJob, ClaimedIsNotDue
  <1> HIDE DEF j
  <1>2. ASSUME NEW w \in Workers, EndsClaim(w)
        PROVE  j # ClaimOf(w).job /\ IncidentOf(w) # IncidentOf(v)
    <2>1. worker[w] \in Busy /\ Working(w) /\ CheckActiveClaim(ClaimOf(w)) /\ w # v
      BY <1>2, BusyWorker DEF EndsClaim, LocalInv, TypeOK, Busy
    <2>2. IncidentOf(w) # IncidentOf(v)
      BY <2>1 DEF AloneInv
    <2>3. jobs[ClaimOf(w).job].incident = IncidentOf(w)
      BY <2>1, ClaimedJob
    <2> QED
      BY <1>1, <2>2, <2>3
  <1>3. ASSUME NEW w \in Workers, WorkerKind(w)
        PROVE  Untouched(j)
    <2>1. CASE StartsAJob(w)
      <3>1. PICK k \in JobIds : ClaimNext(Host[w], now, k)
        BY <2>1 DEF StartsAJob
      <3>2. OthersUntouched({k}) /\ IsDue(k)
        BY <2>1, <3>1, ClaimEffect DEF StartsAJob, LocalInv, TypeOK, IsDue
      <3> QED
        BY <1>1, <3>2 DEF OthersUntouched
    <2>2. CASE Completes(w) \/ Fails(w)
      BY <1>1, <1>2, <2>2 DEF Completes, Fails, EndsJobsOf
    <2>3. CASE SchedulesAnother(w) \/ QueuesAgain(w)
      BY <1>1, <1>2, <2>3 DEF SchedulesAnother, QueuesAgain, OthersUntouched
    <2> QED
      BY <1>3, <2>1, <2>2, <2>3 DEF WorkerKind, Passes, SavesACard, Marks, Untouched
  <1>4. ASSUME NEW d \in Deliveries, NEW k \in JobIds, Queues(d, k)
        PROVE  Untouched(j)
    BY <1>1, <1>4 DEF Queues, OthersUntouched
  <1>5. ASSUME NEW i \in IncidentIds, Recovers(i)
        PROVE  Untouched(j) \/ incidents'[IncidentOf(v)].state = "RECOVERED"
    BY <1>1, <1>5 DEF Recovers, EndsJobsOf, StateBecomes
  <1> QED
    BY <1>3, <1>4, <1>5 DEF Kinds, RequestKind, Receives, Waits, Untouched, j

\* Nor does anybody else end its incident.
LEMMA ClaimedIncidentStays ==
    ASSUME LocalInv, AloneInv, Kinds,
           NEW v \in Workers, Working(v), CheckActiveClaim(ClaimOf(v)), ~EndsClaim(v)
    PROVE  incidents'[IncidentOf(v)].state \in ActiveStates \cup {"RECOVERED"}
  <1>1. /\ IncidentOf(v) \in IncidentIds
        /\ incidents[IncidentOf(v)].state \in ActiveStates
        /\ incidents[IncidentOf(v)] # AbsentIncident
    BY BusyWorker, ClaimedJob, WorkerFacts DEF LocalInv, TypeOK, Active
  <1>2. CASE StatesStay
    BY <1>1, <1>2 DEF StatesStay, OnlyCardChanges
  <1>3. ASSUME NEW d \in Deliveries, NEW i \in IncidentIds, Receives(d, i)
        PROVE  incidents'[IncidentOf(v)].state \in ActiveStates
    BY <1>1, <1>3 DEF Receives
  <1>4. ASSUME NEW i \in IncidentIds, Recovers(i)
        PROVE  incidents'[IncidentOf(v)].state \in ActiveStates \cup {"RECOVERED"}
    BY <1>1, <1>4 DEF Recovers, StateBecomes
  <1>5. ASSUME NEW w \in Workers, MovesItsIncident(w)
        PROVE  incidents'[IncidentOf(v)].state \in ActiveStates
    <2>1. CASE w = v
      <3>1. Marks(v)
        BY <1>5, <2>1 DEF MovesItsIncident, Completes, Fails, SchedulesAnother
      <3> QED
        BY <3>1 DEF Marks, StateBecomes, ActiveStates
    <2>2. CASE w # v
      <3>1. IncidentOf(w) # IncidentOf(v)
        BY <1>5, <2>2, MoverIsFenced DEF AloneInv
      <3> QED
        BY <1>1, <1>5, <3>1, MoverIsFenced DEF StateBecomes
    <2> QED
      BY <2>1, <2>2
  <1> QED
    BY <1>2, <1>3, <1>4, <1>5, StatesOfKinds

LEMMA AloneStays ==
    ASSUME LocalInv, ClaimInv, AloneInv, OnTime, Timeout <= Lease, Kinds,
           NEW v \in Workers, worker'[v] # Idle, ClaimStays(v)
    PROVE  FenceHoldsNext(ClaimOf(v)) \/ incidents'[IncidentOf(v)].state = "RECOVERED"
  <1>1. /\ Working(v)
        /\ ~EndsClaim(v)
        /\ worker[v] \in Busy
    BY BusyWorker DEF ClaimStays, EndsClaim, Leaves, LocalInv, TypeOK
  <1>2. CASE IsRecovered(IncidentOf(v))
    BY <1>1, <1>2, RecoveredStays, WorkerFacts
  <1>3. CASE CheckActiveClaim(ClaimOf(v))
    <2>1. ClaimOf(v).incident = IncidentOf(v) /\ HoldsClaim(ClaimOf(v))
      BY <1>3 DEF CheckActiveClaim, ClaimOf, IncidentOf
    <2>2. Untouched(ClaimOf(v).job) => FenceHoldsNext(ClaimOf(v))
                                        \/ incidents'[IncidentOf(v)].state = "RECOVERED"
      BY <1>1, <1>3, <2>1, ClaimedIncidentStays DEF Untouched, HoldsClaim, FenceHoldsNext
    <2> QED
      BY <1>1, <1>3, <2>2, ClaimedJobStays
  <1> QED
    BY <1>1, <1>2, <1>3 DEF AloneInv

\* A worker that starts a job finds nobody at work on its incident.
LEMMA AloneStarts ==
    ASSUME LocalInv, JobInv, ClaimInv, AloneInv, OnTime, Timeout <= Lease,
           NEW w \in Workers, StartsAJob(w)
    PROVE  /\ FenceHoldsNext(worker'[w].claim)
           /\ \A v \in Workers : Working(v) => IncidentOf(v) # worker'[w].claim.incident
  <1>1. PICK j \in JobIds : ClaimNext(Host[w], now, j) /\ Starts(w, j)
    BY DEF StartsAJob
  <1>2. /\ IsDue(j)
        /\ IsOpen(j)
        /\ incidents[jobs[j].incident].state \in ActiveStates
        /\ jobs'[j].status = "RUNNING"
        /\ jobs'[j].incident = jobs[j].incident
        /\ jobs'[j].worker = Host[w]
        /\ jobs'[j].leaseUntil = now + Lease
    <2>1. StoreTypeOK /\ now \in Nat /\ Host[w] \in WorkerIds
      BY DEF StartsAJob, LocalInv, TypeOK
    <2>2. /\ Active(jobs[j].incident)
          /\ \/ jobs[j].status = "QUEUED" /\ jobs[j].runAfter <= now
             \/ jobs[j].status = "RUNNING" /\ jobs[j].leaseUntil <= now
          /\ jobs'[j].status = "RUNNING"
          /\ jobs'[j].incident = jobs[j].incident
          /\ jobs'[j].worker = Host[w]
          /\ jobs'[j].leaseUntil = now + Lease
      BY <1>1, <2>1, ClaimEffect
    <2> QED
      BY <2>2 DEF IsDue, IsOpen, OpenStatuses, Active
  <1>3. /\ worker'[w].claim.job = j
        /\ worker'[w].claim.incident = jobs[j].incident
        /\ worker'[w].claim.worker = Host[w]
        /\ worker'[w].claim.leaseUntil = now + Lease
    BY <1>1 DEF Starts, ClaimFor
  <1>4. FenceHoldsNext(worker'[w].claim)
    BY <1>2, <1>3 DEF StartsAJob, FenceHoldsNext
  <1>5. ASSUME NEW v \in Workers, Working(v), IncidentOf(v) = jobs[j].incident
        PROVE  FALSE
    <2>1. CheckActiveClaim(ClaimOf(v))
      BY <1>2, <1>5 DEF AloneInv, IsRecovered, ActiveStates
    <2>2. worker[v] \in Busy
      BY <1>5, BusyWorker DEF LocalInv, TypeOK
    <2>3. ClaimOf(v).job = j
      BY <1>2, <1>5, <2>1, <2>2, ClaimedJob DEF JobInv, IsOpen
    <2> QED
      BY <1>2, <1>5, <2>1, <2>3, ClaimedIsNotDue
  <1> QED
    BY <1>3, <1>4, <1>5

LEMMA AloneInvNext ==
    ASSUME LocalInv, JobInv, ClaimInv, AloneInv, OnTime, Timeout <= Lease, [Next]_vars
    PROVE  AloneInv'
  <1>0. Kinds
    BY StepKinds
  <1>1. ASSUME NEW v \in Workers, worker'[v] # Idle
        PROVE  \/ FenceHoldsNext(worker'[v].claim)
               \/ incidents'[worker'[v].claim.incident].state = "RECOVERED"
    <2>1. CASE ClaimStays(v)
      BY <1>0, <1>1, <2>1, AloneStays DEF ClaimStays, ClaimOf, IncidentOf
    <2>2. CASE StartsAJob(v)
      BY <2>2, AloneStarts
    <2>3. ClaimStays(v) \/ StartsAJob(v)
      <3>1. ASSUME NEW w \in Workers, StartsAJob(w), v # w
            PROVE  ClaimStays(v)
        BY <3>1 DEF StartsAJob, Starts, ClaimStays, Working, ClaimOf
      <3> QED
        BY <1>0, <3>1, ClaimsOfKinds
    <2> QED
      BY <2>1, <2>2, <2>3
  <1>2. ASSUME NEW v \in Workers, NEW w \in Workers, v # w, worker'[v] # Idle, worker'[w] # Idle
        PROVE  worker'[v].claim.incident # worker'[w].claim.incident
    <2>1. CASE ClaimStays(v) /\ ClaimStays(w)
      BY <1>2, <2>1 DEF AloneInv, ClaimStays, ClaimOf, IncidentOf
    <2>2. ASSUME NEW u \in Workers, StartsAJob(u), NEW o \in Workers, o # u, worker'[o] # Idle
          PROVE  worker'[o].claim.incident # worker'[u].claim.incident
      <3>1. Working(o) /\ worker'[o].claim.incident = IncidentOf(o)
        BY <2>2 DEF StartsAJob, Starts, Working, IncidentOf
      <3> QED
        BY <2>2, <3>1, AloneStarts
    <2>3. ASSUME NEW u \in Workers, StartsAJob(u), u # v, u # w
          PROVE  ClaimStays(v) /\ ClaimStays(w)
      BY <2>3 DEF StartsAJob, Starts, ClaimStays, Working, ClaimOf
    <2>4. \/ ClaimStays(v) /\ ClaimStays(w)
          \/ \E u \in Workers : StartsAJob(u)
      BY <1>0, ClaimsOfKinds
    <2> QED
      BY <1>2, <2>1, <2>2, <2>3, <2>4
  <1>3. \A v \in Workers :
           Working(v)' => (CheckActiveClaim(ClaimOf(v)) \/ IsRecovered(IncidentOf(v)))'
    BY <1>1
    DEF Working, ClaimOf, IncidentOf, CheckActiveClaim, HoldsClaim, Active, FenceHoldsNext,
        IsRecovered
  <1>4. \A v, w \in Workers :
           (v # w /\ Working(v)' /\ Working(w)') => IncidentOf(v)' # IncidentOf(w)'
    BY <1>2 DEF Working, IncidentOf
  <1> QED
    BY <1>3, <1>4 DEF AloneInv

-----------------------------------------------------------------------------
(* The cards, while nothing but a model run or the gateway fails.          *)

OnlyMildFaults == FaultKinds \subseteq {"rca", "gateway crash"}

\* A row has no card until a worker's card is saved or adopted, a worker loses
\* its claim only to a recovery, and the card it announces on is the row's.
StepsBeforeCard == {"check", "create", "save", "settle", "adopt"}

CardOK(w) ==
    Working(w) =>
        /\ worker[w].pc \in StepsBeforeCard => incidents[IncidentOf(w)].card = NoCard
        /\ worker[w].pc = "settle" => IsRecovered(IncidentOf(w))
        /\ worker[w].pc = "announce" => incidents[IncidentOf(w)].card = worker[w].card

\* A card is in the row of its incident, or a worker is about to write it there.
WillSave(w, m) ==
    /\ Working(w)
    /\ worker[w].pc \in {"save", "settle", "adopt"}
    /\ worker[w].card = m

CardInv ==
    /\ \A w \in Workers : CardOK(w)
    /\ \A m \in MessageIds :
          cards[m] # AbsentCard =>
              /\ incidents[cards[m].incident] # AbsentIncident
              /\ \/ incidents[cards[m].incident].card = m
                 \/ \E w \in Workers : WillSave(w, m)

\* What a step of a worker does about the card of its incident.
StepsAboutCard == StepsBeforeCard \cup {"announce"}

RowCardsStay ==
    \A i \in IncidentIds :
        incidents[i] # AbsentIncident => incidents'[i].card = incidents[i].card

NoNewCard ==
    \A m \in MessageIds :
        /\ cards[m] = AbsentCard => cards'[m] = AbsentCard
        /\ cards[m] # AbsentCard => cards'[m].incident = cards[m].incident

LooksForCard(w) ==
    /\ UNCHANGED <<incidents, cards>>
    /\ worker[w].pc \in {"read", "check"}
    /\ worker'[w].pc \in {"check", "create"}
    /\ incidents[IncidentOf(w)].card = NoCard

MakesCard(w) ==
    /\ UNCHANGED incidents
    /\ worker[w].pc = "create"
    /\ worker'[w].pc = "save"
    /\ worker'[w].card \in MessageIds
    /\ cards[worker'[w].card] = AbsentCard
    /\ \E s : CardShows(worker'[w].card, IncidentOf(w), s)

KeepsCard(w) ==
    /\ UNCHANGED cards
    /\ worker[w].pc \in {"save", "adopt"}
    /\ worker'[w].pc \in {"reread", "announce"}
    /\ worker'[w].card = worker[w].card
    /\ CardBecomes(IncidentOf(w), worker[w].card)
    /\ Active(IncidentOf(w)) \/ worker'[w].pc = "announce"

LosesCard(w) ==
    /\ UNCHANGED <<incidents, cards>>
    /\ worker[w].pc \in {"save", "settle"}
    /\ worker'[w].pc \in {"settle", "adopt"}
    /\ worker'[w].card = worker[w].card
    /\ IsRecovered(IncidentOf(w))

FindsRecovery(w) ==
    /\ UNCHANGED <<incidents, cards>>
    /\ worker[w].pc = "reread"
    /\ worker'[w].pc = "announce"
    /\ worker'[w].card = incidents[IncidentOf(w)].card

Announces(w) ==
    /\ UNCHANGED incidents
    /\ worker[w].pc = "announce"
    /\ worker'[w] = Idle
    /\ NoNewCard
    /\ cards'[worker[w].card].shows = "RECOVERED"

IsElsewhere(w) ==
    /\ worker[w].pc \notin {"save", "settle", "adopt", "announce"}
    /\ worker'[w].pc \notin StepsAboutCard
    /\ RowCardsStay
    /\ NoNewCard

CardMove(w) ==
    \/ LooksForCard(w)
    \/ MakesCard(w)
    \/ KeepsCard(w)
    \/ LosesCard(w)
    \/ FindsRecovery(w)
    \/ Announces(w)
    \/ IsElsewhere(w)

LEMMA NothingBreaks ==
    ASSUME OnTime, OnlyMildFaults, NEW w \in Workers, Working(w)
    PROVE  /\ ~ContextDone(w)
           /\ \A kind \in {"db", "feishu", "worker crash"} : ~Strikes(kind) /\ ~Breaks(w, kind)
  BY DEF OnTime, OnlyMildFaults, Strikes, Breaks

LEMMA ShownIsNotNew ==
    ASSUME LocalInv, NEW w \in Workers, worker[w] \in Busy, worker[w].pc \in StepsWithCard,
           NEW s \in States, UpdateIncidentCard(worker[w].card, s)
    PROVE  NoNewCard /\ cards'[worker[w].card].shows = s
  <1>1. EnvironmentTypeOK
    BY DEF LocalInv, TypeOK
  <1>2. worker[w].card \in MessageIds /\ cards[worker[w].card] # AbsentCard
    BY WorkerFacts, EnvironmentAssumption DEF CardIsOf
  <1>3. CardShows(worker[w].card, cards[worker[w].card].incident, s)
    BY <1>1, <1>2, UpdateCardEffect
  <1> QED
    BY <1>2, <1>3 DEF CardShows, NoNewCard

LEMMA GoesElsewhere ==
    ASSUME WorkerTypeOK, NEW w \in Workers, worker[w] \in Busy,
           \/ Returns(w)
           \/ \E pc \in Steps \ StepsAboutCard : Moves(w, pc)
           \/ \E pc \in Steps \ StepsAboutCard, state \in States \cup {"UNREAD"},
                 card \in MessageIds \cup {NoCard} : MovesWith(w, pc, state, card)
    PROVE  worker'[w].pc \notin StepsAboutCard
  <1>1. Returns(w) => worker'[w].pc \notin StepsAboutCard
    BY ReturnsEffect DEF Leaves, Idle, StepsAboutCard, StepsBeforeCard
  <1>2. ASSUME NEW pc \in Steps, Moves(w, pc)
        PROVE  worker'[w].pc = pc
    BY <1>2, MovesEffect DEF Continues
  <1>3. ASSUME NEW pc \in Steps, NEW state \in States \cup {"UNREAD"},
               NEW card \in MessageIds \cup {NoCard}, MovesWith(w, pc, state, card)
        PROVE  worker'[w].pc = pc
    BY <1>3, MovesWithEffect DEF Continues
  <1> QED
    BY <1>1, <1>2, <1>3

LEMMA RowCardsKept ==
    ASSUME UNCHANGED incidents \/ \E i \in IncidentIds, s \in States : StateBecomes(i, s)
    PROVE  RowCardsStay
  BY DEF RowCardsStay, StateBecomes

LEMMA CardsAreNotNew ==
    ASSUME UNCHANGED cards
    PROVE  NoNewCard
  BY DEF NoNewCard

\* The actions that neither look for a card nor announce on one.
LEMMA ReadsElsewhere ==
    ASSUME LocalInv, NEW w \in Workers, GatherEvidence(w) \/ RunModel(w)
    PROVE  IsElsewhere(w)
  <1>0. WorkerTypeOK /\ {"run", "card outcome", "card failed", "retry"} \subseteq Steps \ StepsAboutCard
    BY DEF LocalInv, TypeOK, Steps, StepsAboutCard, StepsBeforeCard
  <1>1. worker[w] \in Busy /\ worker[w].pc \in {"gather", "run"}
    BY <1>0, BusyWorker DEF GatherEvidence, RunModel, In, Steps
  <1>2. UNCHANGED <<incidents, cards>> /\ worker[w].card \in MessageIds \cup {NoCard}
    BY <1>1, WorkerFacts DEF GatherEvidence, RunModel, storeVars
  <1>3. Outcomes \subseteq States \cup {"UNREAD"}
    BY WorkerAssumption DEF States, ActiveStates, TerminalStates
  <1>4. \/ \E pc \in Steps \ StepsAboutCard : Moves(w, pc)
        \/ \E pc \in Steps \ StepsAboutCard, state \in States \cup {"UNREAD"},
              card \in MessageIds \cup {NoCard} : MovesWith(w, pc, state, card)
    <2>1. FailStep(w) \in {"card failed", "retry"}
      BY FailStepIs
    <2> QED
      BY <1>0, <1>2, <1>3, <2>1 DEF GatherEvidence, RunModel
  <1>5. worker'[w].pc \notin StepsAboutCard
    BY <1>0, <1>1, <1>4, GoesElsewhere
  <1> QED
    BY <1>1, <1>2, <1>5, RowCardsKept, CardsAreNotNew DEF IsElsewhere

LEMMA ShowsElsewhere ==
    ASSUME LocalInv, NEW w \in Workers, ShowInvestigating(w) \/ ShowOutcome(w) \/ ShowFailure(w)
    PROVE  IsElsewhere(w)
  <1>0. /\ WorkerTypeOK
        /\ {"gather", "commit", "card failed", "retry"} \subseteq Steps \ StepsAboutCard
        /\ {"INVESTIGATING", "FAILED"} \subseteq States
    BY DEF LocalInv, TypeOK, Steps, StepsAboutCard, StepsBeforeCard, States, ActiveStates,
           TerminalStates
  <1>1. /\ worker[w] \in Busy
        /\ worker[w].pc \in {"card investigating", "card outcome", "card failed"}
    BY <1>0, BusyWorker DEF ShowInvestigating, ShowOutcome, ShowFailure, In, Steps
  <1>2. worker[w].pc \in StepsWithCard
    BY <1>1 DEF StepsWithCard, Steps
  <1>3. PICK s \in States, next \in {"gather", "commit", "retry"},
             onError \in {"card failed", "retry"} : UpdateCard(w, s, next, onError)
    <2>1. FailStep(w) \in {"card failed", "retry"}
      BY FailStepIs
    <2>2. CASE ShowInvestigating(w)
      BY <1>0, <2>1, <2>2 DEF ShowInvestigating
    <2>3. CASE ShowOutcome(w)
      <3>1. worker[w].state \in States
        BY <1>1, <2>3, WorkerFacts DEF ShowOutcome, In, States, ActiveStates, TerminalStates
      <3> QED
        BY <2>1, <2>3, <3>1 DEF ShowOutcome
    <2>4. CASE ShowFailure(w)
      BY <1>0, <2>4 DEF ShowFailure
    <2> QED
      BY <2>2, <2>3, <2>4
  <1>4. UNCHANGED incidents
    BY <1>3 DEF UpdateCard, storeVars
  <1>5. Returns(w) \/ \E pc \in Steps \ StepsAboutCard : Moves(w, pc)
    BY <1>0, <1>3 DEF UpdateCard
  <1>6. NoNewCard
    <2>1. UNCHANGED cards \/ UpdateIncidentCard(worker[w].card, s)
      BY <1>3 DEF UpdateCard, PerhapsUpdated
    <2> QED
      BY <1>1, <1>2, <2>1, ShownIsNotNew, CardsAreNotNew
  <1>7. worker'[w].pc \notin StepsAboutCard
    BY <1>0, <1>1, <1>5, GoesElsewhere
  <1> QED
    BY <1>1, <1>4, <1>6, <1>7, RowCardsKept DEF IsElsewhere

LEMMA CommitsElsewhere ==
    ASSUME LocalInv, NEW w \in Workers,
           MarkInvestigating(w) \/ CommitOutcome(w) \/ RetryOrFail(w)
    PROVE  IsElsewhere(w)
  <1>0. /\ StoreTypeOK /\ WorkerTypeOK /\ now \in Nat
        /\ {"card investigating", "retry"} \subseteq Steps \ StepsAboutCard
        /\ {"INVESTIGATING", "COMPLETED", "AWAITING_AUDIT_EVENT", "FAILED"} \subseteq States
    BY NowType
    DEF LocalInv, TypeOK, Steps, StepsAboutCard, StepsBeforeCard, States, ActiveStates,
        TerminalStates
  <1>1. worker[w] \in Busy /\ worker[w].pc \in {"mark", "commit", "retry"}
    BY <1>0, BusyWorker DEF MarkInvestigating, CommitOutcome, RetryOrFail, In, Steps
  <1>2. /\ worker[w].card \in MessageIds \cup {NoCard}
        /\ ClaimOf(w) \in Claim
        /\ IncidentOf(w) \in IncidentIds
        /\ ClaimOf(w).incident = IncidentOf(w)
        /\ worker[w].at \in Nat
    BY <1>1, WorkerFacts DEF ClaimOf, IncidentOf
  <1>3. UNCHANGED cards
    BY DEF MarkInvestigating, CommitOutcome, RetryOrFail
  <1>4. UNCHANGED incidents \/ \E i \in IncidentIds, s \in States : StateBecomes(i, s)
    <2>1. CASE MarkInvestigating(w)
      BY <1>0, <1>2, <2>1, MarkEffect DEF MarkInvestigating, ClaimOf, storeVars
    <2>2. CASE CommitOutcome(w)
      <3>1. worker[w].at + AuditDelay \in Nat
        BY <1>2, WorkerAssumption
      <3>2. \/ CompleteJobAndIncident(ClaimOf(w))
            \/ \E j \in JobIds :
                  CompleteJobAndScheduleAuditRetry(ClaimOf(w), j, worker[w].at + AuditDelay)
            \/ UNCHANGED incidents
        BY <2>2 DEF CommitOutcome, ClaimOf, storeVars
      <3> QED
        BY <1>0, <1>2, <3>1, <3>2, CompleteEffect, AuditRetryEffect
    <2>3. CASE RetryOrFail(w)
      <3>1. RetryJob(ClaimOf(w), now) \/ FailJob(ClaimOf(w)) \/ UNCHANGED incidents
        BY <2>3 DEF RetryOrFail, RetryOrFailJob, ClaimOf, storeVars
      <3> QED
        BY <1>0, <1>2, <3>1, RetryEffect, FailEffect
    <2> QED
      BY <2>1, <2>2, <2>3
  <1>5. \/ Returns(w)
        \/ \E pc \in Steps \ StepsAboutCard : Moves(w, pc)
        \/ \E pc \in Steps \ StepsAboutCard, state \in States \cup {"UNREAD"},
              card \in MessageIds \cup {NoCard} : MovesWith(w, pc, state, card)
    BY <1>0, <1>2 DEF MarkInvestigating, CommitOutcome, RetryOrFail
  <1>6. worker'[w].pc \notin StepsAboutCard
    BY <1>0, <1>1, <1>5, GoesElsewhere
  <1> QED
    BY <1>1, <1>3, <1>4, <1>6, RowCardsKept, CardsAreNotNew DEF IsElsewhere

\* The actions that look for a card.
LEMMA ReadsForCard ==
    ASSUME LocalInv, CardInv, OnTime, OnlyMildFaults, NEW w \in Workers,
           ReadIncident(w) \/ CheckBeforeCreate(w) \/ RereadIncident(w)
    PROVE  LooksForCard(w) \/ FindsRecovery(w) \/ IsElsewhere(w)
  <1>0. WorkerTypeOK /\ {"check", "create", "announce", "mark"} \subseteq Steps
    BY DEF LocalInv, TypeOK, Steps
  <1>1. worker[w] \in Busy /\ Working(w) /\ worker[w].pc \in {"read", "check", "reread"}
    BY <1>0, BusyWorker DEF ReadIncident, CheckBeforeCreate, RereadIncident, In, Steps
  <1>2. /\ UNCHANGED <<incidents, cards>>
        /\ incidents[IncidentOf(w)].state \in States \cup {"UNREAD"}
        /\ incidents[IncidentOf(w)].card \in MessageIds \cup {NoCard}
    BY <1>1, WorkerFacts DEF ReadIncident, CheckBeforeCreate, RereadIncident, storeVars
  <1>3. ~Breaks(w, "db")
    BY <1>1, NothingBreaks
  <1>4. RowCardsStay /\ NoNewCard
    BY <1>2, RowCardsKept, CardsAreNotNew
  <1> DEFINE row == incidents[IncidentOf(w)]
  <1>5. row.state \in States \cup {"UNREAD"} /\ row.card \in MessageIds \cup {NoCard}
    BY <1>2
  <1> HIDE DEF row
  <1>6. ASSUME NEW pc \in Steps, MovesWith(w, pc, row.state, row.card)
        PROVE  worker'[w].pc = pc /\ worker'[w].card = row.card
    BY <1>0, <1>1, <1>5, <1>6, MovesWithEffect DEF Continues
  <1>7. CASE ReadIncident(w)
    <2>1. MovesWith(w, IF row.card = NoCard THEN "check" ELSE "mark", row.state, row.card)
      BY <1>3, <1>7 DEF ReadIncident, IncidentOf, row
    <2>2. CASE row.card = NoCard
      BY <1>0, <1>1, <1>2, <1>6, <1>7, <2>1, <2>2 DEF ReadIncident, In, LooksForCard, row
    <2>3. CASE row.card # NoCard
      BY <1>0, <1>1, <1>4, <1>6, <2>1, <2>3 DEF IsElsewhere, StepsAboutCard, StepsBeforeCard
    <2> QED
      BY <2>2, <2>3
  <1>8. CASE CheckBeforeCreate(w)
    <2>1. worker[w].pc = "check" /\ incidents[IncidentOf(w)].card = NoCard
      BY <1>1, <1>8 DEF CheckBeforeCreate, In, CardInv, CardOK, StepsBeforeCard
    <2>2. CASE Moves(w, "create")
      BY <1>0, <1>1, <1>2, <2>1, <2>2, MovesEffect DEF Continues, LooksForCard
    <2>3. CASE Returns(w)
      BY <1>0, <1>1, <1>4, <2>3, GoesElsewhere DEF IsElsewhere
    <2> QED
      BY <1>3, <1>8, <2>2, <2>3 DEF CheckBeforeCreate
  <1>9. CASE RereadIncident(w)
    <2>1. MovesWith(w, IF row.state = "RECOVERED" THEN "announce" ELSE "mark", row.state, row.card)
      BY <1>3, <1>9 DEF RereadIncident, IncidentOf, row
    <2>2. CASE row.state = "RECOVERED"
      BY <1>0, <1>1, <1>2, <1>6, <1>9, <2>1, <2>2 DEF RereadIncident, In, FindsRecovery, row
    <2>3. CASE row.state # "RECOVERED"
      BY <1>0, <1>1, <1>4, <1>6, <2>1, <2>3 DEF IsElsewhere, StepsAboutCard, StepsBeforeCard
    <2> QED
      BY <2>2, <2>3
  <1> QED
    BY <1>7, <1>8, <1>9

LEMMA CreatesCard ==
    ASSUME LocalInv, OnTime, OnlyMildFaults, NEW w \in Workers, CreateCard(w)
    PROVE  MakesCard(w)
  <1>0. EnvironmentTypeOK /\ WorkerTypeOK /\ "save" \in Steps
    BY DEF LocalInv, TypeOK, Steps
  <1>1. worker[w] \in Busy /\ Working(w) /\ worker[w].pc = "create"
    BY <1>0, BusyWorker DEF CreateCard, In, Steps
  <1>2. worker[w].state \in States /\ IncidentOf(w) \in IncidentIds
    BY <1>1, WorkerFacts
  <1>3. ~Breaks(w, "feishu")
    BY <1>1, NothingBreaks
  <1>4. PICK m \in MessageIds : /\ CreateIncidentCard(m, IncidentOf(w), worker[w].state)
                                /\ MovesWith(w, "save", worker[w].state, m)
    BY <1>3 DEF CreateCard, IncidentOf
  <1>5. cards[m] = AbsentCard /\ CardShows(m, IncidentOf(w), worker[w].state)
    BY <1>0, <1>2, <1>4, CreateCardEffect
  <1>6. worker'[w].pc = "save" /\ worker'[w].card = m
    BY <1>0, <1>1, <1>2, <1>4, MovesWithEffect DEF Continues
  <1> QED
    BY <1>1, <1>5, <1>6 DEF MakesCard, CreateCard, storeVars

\* A claim is lost to a recovery alone, so a card that was made is saved or adopted.
LEMMA StoresCard ==
    ASSUME LocalInv, AloneInv, CardInv, OnTime, OnlyMildFaults, NEW w \in Workers,
           SaveCard(w) \/ SettleLostCard(w) \/ AdoptLostCard(w)
    PROVE  KeepsCard(w) \/ LosesCard(w)
  <1>0. /\ StoreTypeOK /\ WorkerTypeOK
        /\ {"reread", "settle", "adopt", "announce"} \subseteq Steps
    BY DEF LocalInv, TypeOK, Steps
  <1>1. worker[w] \in Busy /\ Working(w) /\ worker[w].pc \in {"save", "settle", "adopt"}
    BY <1>0, BusyWorker DEF SaveCard, SettleLostCard, AdoptLostCard, In, Steps
  <1>2. /\ ClaimOf(w) \in Claim
        /\ IncidentOf(w) \in IncidentIds
        /\ ClaimOf(w).incident = IncidentOf(w)
        /\ worker[w].card \in MessageIds
        /\ worker[w].pc = "adopt" => IsRecovered(IncidentOf(w))
    <2>1. worker[w].pc \in StepsWithCard
      BY <1>1 DEF StepsWithCard, Steps
    <2> QED
      BY <1>1, <2>1, WorkerFacts DEF ClaimOf, IncidentOf
  <1>3. incidents[IncidentOf(w)].card = NoCard
    BY <1>1 DEF CardInv, CardOK, StepsBeforeCard
  <1>4. ~Breaks(w, "db") /\ UNCHANGED cards
    BY <1>1, NothingBreaks DEF SaveCard, SettleLostCard, AdoptLostCard
  <1>5. ASSUME NEW pc \in Steps, Moves(w, pc)
        PROVE  worker'[w].pc = pc /\ worker'[w].card = worker[w].card
    BY <1>0, <1>1, <1>5, MovesEffect DEF Continues
  <1>6. CASE SaveCard(w)
    <2>1. worker[w].pc = "save"
      BY <1>6 DEF SaveCard, In
    <2>2. CASE SetFeishuMessageIDForClaim(ClaimOf(w), worker[w].card) /\ Moves(w, "reread")
      <3>1. CheckActiveClaim(ClaimOf(w)) /\ CardBecomes(IncidentOf(w), worker[w].card)
        BY <1>0, <1>2, <2>2, SaveCardEffect
      <3>2. Active(IncidentOf(w))
        BY <1>2, <3>1 DEF CheckActiveClaim
      <3>3. worker'[w].pc = "reread" /\ worker'[w].card = worker[w].card
        BY <1>0, <1>5, <2>2
      <3> QED
        BY <1>4, <2>1, <3>1, <3>2, <3>3 DEF KeepsCard
    <2>3. CASE ~CanSetCardForClaim(ClaimOf(w)) /\ Moves(w, "settle") /\ UNCHANGED storeVars
      <3>1. IsRecovered(IncidentOf(w))
        BY <1>1, <1>2, <1>3, <2>3 DEF CanSetCardForClaim, AloneInv
      <3>2. worker'[w].pc = "settle" /\ worker'[w].card = worker[w].card
        BY <1>0, <1>5, <2>3
      <3> QED
        BY <1>4, <2>1, <2>3, <3>1, <3>2 DEF LosesCard, storeVars
    <2> QED
      BY <1>4, <1>6, <2>2, <2>3 DEF SaveCard, ClaimOf
  <1>7. CASE SettleLostCard(w)
    <2>1. worker[w].pc = "settle" /\ IsRecovered(IncidentOf(w))
      BY <1>1, <1>7 DEF SettleLostCard, In, CardInv, CardOK
    <2>2. Moves(w, "adopt") /\ UNCHANGED incidents
      BY <1>4, <1>7, <2>1 DEF SettleLostCard, IsRecovered, IncidentOf, storeVars
    <2>3. worker'[w].pc = "adopt" /\ worker'[w].card = worker[w].card
      BY <1>0, <1>5, <2>2
    <2> QED
      BY <1>4, <2>1, <2>2, <2>3 DEF LosesCard
  <1>8. CASE AdoptLostCard(w)
    <2>1. worker[w].pc = "adopt"
      BY <1>8 DEF AdoptLostCard, In
    <2>2. SetFeishuMessageID(IncidentOf(w), worker[w].card) /\ Moves(w, "announce")
      BY <1>3, <1>4, <1>8 DEF AdoptLostCard, IncidentOf
    <2>3. CardBecomes(IncidentOf(w), worker[w].card)
      BY <1>0, <1>2, <2>2, AdoptCardEffect
    <2>4. worker'[w].pc = "announce" /\ worker'[w].card = worker[w].card
      BY <1>0, <1>5, <2>2
    <2> QED
      BY <1>4, <2>1, <2>3, <2>4 DEF KeepsCard
  <1> QED
    BY <1>6, <1>7, <1>8

LEMMA AnnouncesRecovery ==
    ASSUME LocalInv, OnTime, OnlyMildFaults, NEW w \in Workers, AnnounceRecovery(w)
    PROVE  Announces(w)
  <1>0. WorkerTypeOK /\ "RECOVERED" \in States
    BY DEF LocalInv, TypeOK, States, TerminalStates
  <1>1. worker[w] \in Busy /\ Working(w) /\ worker[w].pc = "announce"
    BY <1>0, BusyWorker DEF AnnounceRecovery, In, Steps
  <1>2. worker[w].pc \in StepsWithCard
    BY <1>1 DEF StepsWithCard, Steps
  <1>3. UpdateIncidentCard(worker[w].card, "RECOVERED") /\ worker'[w] = Idle
    BY <1>0, <1>1, NothingBreaks, ReturnsEffect DEF AnnounceRecovery, Leaves
  <1>4. NoNewCard /\ cards'[worker[w].card].shows = "RECOVERED"
    BY <1>0, <1>1, <1>2, <1>3, ShownIsNotNew
  <1> QED
    BY <1>1, <1>3, <1>4 DEF Announces, AnnounceRecovery, storeVars

LEMMA CardMoves ==
    ASSUME LocalInv, AloneInv, CardInv, OnTime, OnlyMildFaults, NEW w \in Workers,
           RunOneStep(w) \/ WorkerCrash(w)
    PROVE  CardMove(w)
  <1>1. CASE ClaimJob(w)
    <2>1. worker[w] = Idle /\ UNCHANGED <<incidents, cards>> /\ worker'[w].pc = "read"
      BY <1>1, ClaimJobEffect DEF LocalInv, TypeOK, Starts
    <2> QED
      BY <2>1, RowCardsKept, CardsAreNotNew
      DEF CardMove, IsElsewhere, Idle, StepsAboutCard, StepsBeforeCard
  <1>2. ~WorkerCrash(w)
    BY DEF OnlyMildFaults, WorkerCrash, Strikes
  <1> QED
    BY <1>1, <1>2, ReadsElsewhere, ShowsElsewhere, CommitsElsewhere, ReadsForCard, CreatesCard,
       StoresCard, AnnouncesRecovery
    DEF RunOneStep, CardMove

LEMMA WorkerKindWaits ==
    ASSUME LocalInv, NEW w \in Workers, WorkerKind(w)
    PROVE  /\ OthersWait(w)
           /\ worker'[w].pc # "read" => ClaimStays(w)
  <1>1. CASE StartsAJob(w)
    BY <1>1 DEF StartsAJob, Starts, OthersWait
  <1>2. CASE ~StartsAJob(w)
    BY <1>2, ClaimsOfWorkerKind DEF LocalInv, TypeOK
  <1> QED
    BY <1>1, <1>2

\* A request, the clock and a stutter leave the cards of rows and chats as they are.
LEMMA RequestsKeepCards ==
    ASSUME LocalInv, Tick \/ (GatewayNext /\ UNCHANGED worker) \/ UNCHANGED vars
    PROVE  UNCHANGED worker /\ RowCardsStay /\ NoNewCard
  <1>0. StoreTypeOK /\ EnvironmentTypeOK /\ RequestTypeOK
    BY DEF LocalInv, TypeOK
  <1>1. CASE Tick \/ UNCHANGED vars
    <2>1. UNCHANGED <<incidents, cards, worker>>
      BY <1>1 DEF Tick, vars, storeVars, environmentVars
    <2> QED
      BY <2>1, RowCardsKept, CardsAreNotNew
  <1>2. CASE GatewayNext /\ UNCHANGED worker
    <2>1. RowCardsStay
      <3>1. CASE GatewayCrash
        BY <3>1, RowCardsKept DEF GatewayCrash, storeVars
      <3>2. ASSUME NEW d \in Deliveries, RequestStep(d) \/ Redeliver(d)
            PROVE  RowCardsStay
        BY <1>2, <3>2, RequestKinds, RowCardsKept
        DEF RequestKind, Waits, Receives, Queues, Recovers, RowCardsStay, StateBecomes
      <3> QED
        BY <1>2, <3>1, <3>2 DEF GatewayNext
    <2>2. ASSUME NEW d \in Deliveries, NotifyRecovered(d)
          PROVE  NoNewCard
      <3>1. request[d].card \in MessageIds /\ cards[request[d].card] # AbsentCard
        BY <1>0, <2>2, RequestFields DEF NotifyRecovered, LocalInv, RequestOK
      <3>2. CASE UpdateIncidentCard(request[d].card, "RECOVERED")
        <4>1. CardShows(request[d].card, cards[request[d].card].incident, "RECOVERED")
          BY <1>0, <3>1, <3>2, UpdateCardEffect DEF States, TerminalStates
        <4> QED
          BY <3>1, <4>1 DEF CardShows, NoNewCard
      <3> QED
        BY <2>2, <3>2, CardsAreNotNew DEF NotifyRecovered, PerhapsUpdated
    <2>3. UNCHANGED cards \/ \E d \in Deliveries : NotifyRecovered(d)
      BY <1>2
      DEF GatewayNext, RequestStep, RefuseCallback, InsertOccurred, LookUpActive,
          EnqueueOccurred, RecoverOccurred, Redeliver, GatewayCrash, environmentVars
    <2>4. NoNewCard
      BY <2>2, <2>3, CardsAreNotNew
    <2> QED
      BY <1>2, <2>1, <2>4
  <1> QED
    BY <1>1, <1>2

\* A worker writes on the row of its own incident only.
LEMMA OtherRowCardsStay ==
    ASSUME LocalInv, NEW w \in Workers, CardMove(w), NEW i \in IncidentIds,
           incidents[i] # AbsentIncident, ~KeepsCard(w) \/ i # IncidentOf(w)
    PROVE  incidents'[i].card = incidents[i].card
  BY DEF CardMove, LooksForCard, MakesCard, KeepsCard, LosesCard, FindsRecovery, Announces,
         IsElsewhere, RowCardsStay, CardBecomes

LEMMA CardOKStays ==
    ASSUME LocalInv, CardInv, Kinds, NEW v \in Workers, worker'[v] = worker[v],
           Working(v) => incidents'[IncidentOf(v)].card = incidents[IncidentOf(v)].card
    PROVE  CardOK(v)'
  <1>1. CASE Working(v)
    <2>1. worker[v] \in Busy
      BY <1>1, BusyWorker DEF LocalInv, TypeOK
    <2>2. IncidentOf(v) \in IncidentIds
      BY <2>1, WorkerFacts
    <2>3. IsRecovered(IncidentOf(v)) => incidents'[IncidentOf(v)].state = "RECOVERED"
      BY <2>2, RecoveredStays
    <2> QED
      BY <1>1, <2>3 DEF CardInv, CardOK, Working, IncidentOf, IsRecovered
  <1>2. CASE ~Working(v)
    BY <1>2 DEF CardOK, Working
  <1> QED
    BY <1>1, <1>2

LEMMA CardOKMoves ==
    ASSUME LocalInv, CardInv, Kinds, NEW w \in Workers, CardMove(w),
           worker'[w].pc # "read" => ClaimStays(w)
    PROVE  CardOK(w)'
  <1>1. CASE IsElsewhere(w)
    BY <1>1 DEF IsElsewhere, CardOK, StepsAboutCard, StepsBeforeCard
  <1>2. CASE Announces(w)
    BY <1>2 DEF Announces, CardOK, Working
  <1>3. CASE LooksForCard(w) \/ MakesCard(w) \/ KeepsCard(w) \/ LosesCard(w) \/ FindsRecovery(w)
    <2>1. /\ worker[w].pc \in {"read", "check", "create", "save", "settle", "adopt", "reread"}
          /\ worker'[w].pc \in StepsAboutCard \cup {"reread"}
      BY <1>3
      DEF LooksForCard, MakesCard, KeepsCard, LosesCard, FindsRecovery, StepsAboutCard,
          StepsBeforeCard
    <2>2. worker[w] \in Busy /\ Working(w)
      BY <2>1, BusyWorker DEF LocalInv, TypeOK, Steps
    <2>3. worker'[w].claim.incident = IncidentOf(w) /\ IncidentOf(w) \in IncidentIds
      <3>1. worker'[w] # Idle /\ worker'[w].pc # "read"
        BY <2>1 DEF Idle, StepsAboutCard, StepsBeforeCard
      <3> QED
        BY <2>2, <3>1, WorkerFacts DEF ClaimStays, ClaimOf, IncidentOf
    <2>4. IsRecovered(IncidentOf(w)) => incidents'[IncidentOf(w)].state = "RECOVERED"
      BY <2>3, RecoveredStays
    <2>5. CASE LooksForCard(w)
      BY <2>3, <2>5 DEF LooksForCard, CardOK, IncidentOf
    <2>6. CASE MakesCard(w)
      BY <2>2, <2>3, <2>6 DEF MakesCard, CardInv, CardOK, IncidentOf, StepsBeforeCard
    <2>7. CASE KeepsCard(w)
      BY <2>3, <2>7 DEF KeepsCard, CardBecomes, CardOK, IncidentOf, StepsBeforeCard
    <2>8. CASE LosesCard(w)
      <3>1. incidents[IncidentOf(w)].card = NoCard
        BY <2>2, <2>8 DEF LosesCard, CardInv, CardOK, StepsBeforeCard
      <3> QED
        BY <2>3, <2>4, <2>8, <3>1 DEF LosesCard, CardOK, IncidentOf, IsRecovered
    <2>9. CASE FindsRecovery(w)
      BY <2>3, <2>9 DEF FindsRecovery, CardOK, IncidentOf, StepsBeforeCard
    <2> QED
      BY <1>3, <2>5, <2>6, <2>7, <2>8, <2>9
  <1> QED
    BY <1>1, <1>2, <1>3 DEF CardMove

LEMMA SavedCards ==
    ASSUME LocalInv, CardInv, Kinds, NEW w \in Workers, CardMove(w), OthersWait(w),
           worker'[w].pc # "read" => ClaimStays(w),
           NEW m \in MessageIds, cards'[m] # AbsentCard
    PROVE  /\ incidents'[cards'[m].incident] # AbsentIncident
           /\ \/ incidents'[cards'[m].incident].card = m
              \/ \E v \in Workers : WillSave(v, m)'
  <1>0. WorkerTypeOK /\ EnvironmentTypeOK
    BY DEF LocalInv, TypeOK
  <1>1. CASE cards[m] = AbsentCard
    <2>1. MakesCard(w) /\ m = worker'[w].card
      BY <1>1
      DEF CardMove, LooksForCard, MakesCard, KeepsCard, LosesCard, FindsRecovery, Announces,
          IsElsewhere, NoNewCard, CardShows
    <2>2. worker[w] \in Busy
      BY <1>0, <2>1, BusyWorker DEF MakesCard, Steps
    <2>3. cards'[m].incident = IncidentOf(w)
      BY <2>1 DEF MakesCard, CardShows
    <2>4. incidents'[IncidentOf(w)] # AbsentIncident
      BY <2>2, WorkerFacts, RowsOfKinds DEF RowsStay
    <2>5. WillSave(w, m)'
      BY <2>1 DEF MakesCard, WillSave, Working, Idle
    <2> QED
      BY <2>3, <2>4, <2>5
  <1>2. CASE cards[m] # AbsentCard
    <2> DEFINE i == cards[m].incident
    <2>1. i \in IncidentIds /\ incidents[i] # AbsentIncident
      BY <1>0, <1>2 DEF EnvironmentTypeOK, Card, CardInv
    <2>2. cards'[m].incident = i
      BY <1>2
      DEF CardMove, LooksForCard, MakesCard, KeepsCard, LosesCard, FindsRecovery, Announces,
          IsElsewhere, NoNewCard, CardShows
    <2>3. incidents'[i] # AbsentIncident
      BY <2>1, RowsOfKinds DEF RowsStay
    <2>4. CASE incidents[i].card = m
      <3>1. ~KeepsCard(w) \/ i # IncidentOf(w)
        BY <2>4, EnvironmentAssumption DEF KeepsCard, CardBecomes
      <3>2. incidents'[i].card = m
        BY <2>1, <2>4, <3>1, OtherRowCardsStay
      <3> QED
        BY <2>2, <2>3, <3>2
    <2>5. ASSUME NEW v \in Workers, v # w, WillSave(v, m)
          PROVE  WillSave(v, m)'
      BY <2>5 DEF OthersWait, WillSave, Working
    <2>6. CASE WillSave(w, m)
      <3>1. i = IncidentOf(w)
        BY <2>6, CardOfWorker DEF WillSave
      <3>2. KeepsCard(w) \/ LosesCard(w)
        BY <2>6
        DEF WillSave, CardMove, LooksForCard, MakesCard, FindsRecovery, Announces, IsElsewhere
      <3>3. CASE KeepsCard(w)
        BY <2>2, <2>3, <2>6, <3>1, <3>3 DEF KeepsCard, CardBecomes, WillSave
      <3>4. CASE LosesCard(w)
        <4>1. WillSave(w, m)'
          BY <2>6, <3>4 DEF LosesCard, WillSave, Working, Idle
        <4> QED
          BY <2>2, <2>3, <4>1
      <3> QED
        BY <3>2, <3>3, <3>4
    <2>7. incidents[i].card = m \/ \E v \in Workers : WillSave(v, m)
      BY <1>2 DEF CardInv
    <2> HIDE DEF i
    <2> QED
      BY <2>2, <2>3, <2>4, <2>5, <2>6, <2>7
  <1> QED
    BY <1>1, <1>2

LEMMA CardInvNext ==
    ASSUME LocalInv, AloneInv, CardInv, OnTime, OnlyMildFaults, [Next]_vars
    PROVE  CardInv'
  <1>0. Kinds
    BY StepKinds
  <1>1. CASE Tick \/ (GatewayNext /\ UNCHANGED worker) \/ UNCHANGED vars
    <2>1. UNCHANGED worker /\ RowCardsStay /\ NoNewCard
      BY <1>1, RequestsKeepCards
    <2>2. ASSUME NEW v \in Workers
          PROVE  CardOK(v)'
      <3>1. Working(v) => incidents'[IncidentOf(v)].card = incidents[IncidentOf(v)].card
        BY <2>1, BusyWorker, WorkerFacts DEF RowCardsStay, LocalInv, TypeOK
      <3> QED
        BY <1>0, <2>1, <3>1, CardOKStays
    <2>3. ASSUME NEW m \in MessageIds, cards'[m] # AbsentCard
          PROVE  /\ incidents'[cards'[m].incident] # AbsentIncident
                 /\ \/ incidents'[cards'[m].incident].card = m
                    \/ \E v \in Workers : WillSave(v, m)'
      <3>1. cards[m] # AbsentCard /\ cards'[m].incident = cards[m].incident
        BY <2>1, <2>3 DEF NoNewCard
      <3>2. cards[m].incident \in IncidentIds
        BY <3>1 DEF LocalInv, TypeOK, EnvironmentTypeOK, Card
      <3>3. /\ incidents[cards[m].incident] # AbsentIncident
            /\ \/ incidents[cards[m].incident].card = m
               \/ \E v \in Workers : WillSave(v, m)
        BY <3>1 DEF CardInv
      <3>4. \A v \in Workers : WillSave(v, m) => WillSave(v, m)'
        BY <2>1 DEF WillSave, Working
      <3>5. incidents'[cards[m].incident] # AbsentIncident
        BY <1>0, <3>2, <3>3, RowsOfKinds DEF RowsStay
      <3>6. incidents'[cards[m].incident].card = incidents[cards[m].incident].card
        BY <2>1, <3>2, <3>3 DEF RowCardsStay
      <3> QED
        BY <3>1, <3>3, <3>4, <3>5, <3>6
    <2> QED
      BY <2>2, <2>3 DEF CardInv
  <1>2. ASSUME NEW w \in Workers, RunOneStep(w) \/ WorkerCrash(w), UNCHANGED request
        PROVE  CardInv'
    <2>1. CardMove(w) /\ OthersWait(w) /\ (worker'[w].pc # "read" => ClaimStays(w))
      BY <1>2, CardMoves, WorkerKinds, WorkerKindWaits
    <2>2. CardOK(w)'
      BY <1>0, <2>1, CardOKMoves
    <2>3. ASSUME NEW v \in Workers, v # w
          PROVE  CardOK(v)'
      <3>1. KeepsCard(w) => Working(w)
        BY DEF KeepsCard, Working, Idle
      <3>2. Working(v) => incidents'[IncidentOf(v)].card = incidents[IncidentOf(v)].card
        <4>1. SUFFICES ASSUME Working(v)
                       PROVE  incidents'[IncidentOf(v)].card = incidents[IncidentOf(v)].card
          OBVIOUS
        <4>2. IncidentOf(v) \in IncidentIds /\ incidents[IncidentOf(v)] # AbsentIncident
          BY <4>1, BusyWorker, WorkerFacts DEF LocalInv, TypeOK
        <4> QED
          BY <2>1, <2>3, <3>1, <4>1, <4>2, OtherRowCardsStay DEF AloneInv
      <3>3. worker'[v] = worker[v]
        BY <2>1, <2>3 DEF OthersWait
      <3> QED
        BY <1>0, <3>2, <3>3, CardOKStays
    <2>4. ASSUME NEW m \in MessageIds, cards'[m] # AbsentCard
          PROVE  /\ incidents'[cards'[m].incident] # AbsentIncident
                 /\ \/ incidents'[cards'[m].incident].card = m
                    \/ \E v \in Workers : WillSave(v, m)'
      BY <1>0, <2>1, <2>4, SavedCards
    <2> QED
      BY <2>2, <2>3, <2>4 DEF CardInv
  <1> QED
    BY <1>1, <1>2 DEF Next, WorkerNext

-----------------------------------------------------------------------------
(* The recoveries, and who will show them.                                 *)

GatewayMayCrash == "gateway crash" \in FaultKinds

\* An alert is delivered once if the gateway may die between recording its
\* recovery and telling Feishu: the recovery is then carried out again, and a late
\* alert of the key would be its target instead.
OneOccurrenceOfAKey ==
    GatewayMayCrash =>
        \A d, e \in Deliveries :
            (/\ Event[d].transition = AlertOccurred
             /\ Event[e].transition = AlertOccurred
             /\ Event[d].key = Event[e].key) => d = e

RecoveryAssumptions ==
    /\ OnlyMildFaults
    /\ OneOccurrenceOfAKey
    /\ HasNotifier
    /\ Timeout <= Lease

OccurrencesAreOver(k) ==
    \A d \in Deliveries :
        (Event[d].transition = AlertOccurred /\ Event[d].key = k) => At(d, "accepted")

\* Delivery d announces the recovery of incident i, now or when it comes again.
WillTell(d, i) ==
    /\ \/ At(d, "notify") /\ request[d].card = incidents[i].card
       \/ GatewayMayCrash /\ (At(d, "error") \/ At(d, "arriving"))
    /\ Event[d].transition = AlertRecovered
    /\ GatewayMayCrash => IsRecoverTarget(i, Event[d].key, Event[d].at)

RequestsFit ==
    \A d \in Deliveries :
        /\ At(d, "notify") => Event[d].transition = AlertRecovered
        /\ At(d, "enqueue") => /\ Event[d].transition = AlertOccurred
                               /\ incidents[request[d].incident].key = Event[d].key

CardsHaveJobs ==
    \A m \in MessageIds :
        cards[m] # AbsentCard => \E j \in JobIds : JobOf(j, cards[m].incident)

JobsAreQueuedLast ==
    GatewayMayCrash =>
        \A j \in JobIds :
            jobs[j] # AbsentJob => OccurrencesAreOver(incidents[jobs[j].incident].key)

WillBeShown(i) ==
    (IsRecovered(i) /\ incidents[i].card # NoCard) =>
        \/ cards[incidents[i].card].shows = "RECOVERED"
        \/ \E w \in Workers : Working(w) /\ worker[w].pc = "announce" /\ IncidentOf(w) = i
        \/ \E d \in Deliveries : WillTell(d, i)

TellInv ==
    /\ RequestsFit
    /\ CardsHaveJobs
    /\ JobsAreQueuedLast
    /\ \A i \in IncidentIds : WillBeShown(i)

\* Where the request of a delivery can go.
RequestMove(d) ==
    \/ request'[d] = request[d]
    \/ At(d, "arriving") /\ At(d, "refused")' /\ Event[d].transition = "none"
    \/ /\ At(d, "arriving")
       /\ Event[d].transition = AlertOccurred
       /\ At(d, "lookup")' \/ \E i \in IncidentIds : Receives(d, i)
    \/ /\ At(d, "lookup") \/ At(d, "enqueue")
       /\ At(d, "accepted")' \/ At(d, "error")'
    \/ /\ At(d, "arriving")
       /\ Event[d].transition = AlertRecovered
       /\ \/ \E i \in IncidentIds : /\ IsRecoverTarget(i, Event[d].key, Event[d].at)
                                    /\ request'[d] = NotifyNext(i)
          \/ NotNewer(Event[d].key, Event[d].at) = {} /\ At(d, "accepted")'
    \/ /\ At(d, "notify")
       /\ At(d, "accepted")'
       /\ cards'[request[d].card].shows = "RECOVERED"
    \/ At(d, "error") /\ At(d, "arriving")'
    \/ /\ GatewayMayCrash
       /\ At(d, "lookup") \/ At(d, "enqueue") \/ At(d, "notify")
       /\ At(d, "error")'

LEMMA NotifyNextIs ==
    ASSUME NEW i \in IncidentIds, incidents[i] \in Incident
    PROVE  /\ NotifyNext(i) \in Request
           /\ NotifyNext(i).pc \in {"notify", "accepted"}
           /\ HasNotifier /\ incidents[i].card # NoCard =>
                 /\ NotifyNext(i).pc = "notify"
                 /\ NotifyNext(i).card = incidents[i].card
  BY DEF NotifyNext, Request, Incident

LEMMA TargetIsThere ==
    ASSUME StoreTypeOK, NEW i \in IncidentIds, NEW k, NEW at, IsRecoverTarget(i, k, at)
    PROVE  incidents[i] \in Incident /\ incidents[i].key = k /\ NotNewer(k, at) # {}
  BY DEF IsRecoverTarget, NotNewer, StoreTypeOK

\* A recovery has one target: ids break the tie of equal times.
LEMMA OneTarget ==
    ASSUME StoreTypeOK, NEW i \in IncidentIds, NEW o \in IncidentIds, NEW k, NEW at,
           IsRecoverTarget(i, k, at), IsRecoverTarget(o, k, at)
    PROVE  o = i
  <1>1. /\ i \in NotNewer(k, at) /\ o \in NotNewer(k, at)
        /\ \/ incidents[o].alertAt < incidents[i].alertAt
           \/ incidents[o].alertAt = incidents[i].alertAt /\ o <= i
        /\ \/ incidents[i].alertAt < incidents[o].alertAt
           \/ incidents[i].alertAt = incidents[o].alertAt /\ i <= o
    BY DEF IsRecoverTarget
  <1>2. incidents[i].alertAt \in Nat /\ incidents[o].alertAt \in Nat
    BY <1>1 DEF NotNewer, StoreTypeOK, Incident
  <1>3. i \in Nat /\ o \in Nat
    BY StoreAssumption
  <1> QED
    BY <1>1, <1>2, <1>3

\* The rows a step makes or recovers, and the delivery it does it for.
LEMMA InsertOccurredIs ==
    ASSUME LocalInv, NEW d \in Deliveries, InsertOccurred(d)
    PROVE  /\ \/ UNCHANGED incidents /\ At(d, "lookup")'
              \/ \E i \in IncidentIds : Receives(d, i)
           /\ \A e \in Deliveries \ {d} : request'[e] = request[e]
  <1>0. StoreTypeOK /\ RequestTypeOK
    BY DEF LocalInv, TypeOK
  <1>1. ASSUME NEW i \in IncidentIds, InsertIncident(i, Event[d].key, Event[d].at),
               GoesTo(d, [pc |-> "enqueue", incident |-> i])
        PROVE  Receives(d, i)
    <2>1. Event[d].key \in Keys /\ Event[d].at \in Nat
      BY EventType DEF InsertOccurred
    <2>2. /\ incidents[i] = AbsentIncident
          /\ ~KeyIsActive(Event[d].key)
          /\ incidents'[i] \in Incident
          /\ incidents'[i].state = "RECEIVED"
          /\ incidents'[i].key = Event[d].key
          /\ incidents'[i].alertAt = Event[d].at
          /\ \A o \in IncidentIds \ {i} : incidents'[o] = incidents[o]
          /\ UNCHANGED jobs
      BY <1>0, <1>1, <2>1, InsertEffect
    <2> DEFINE step == [pc |-> "enqueue", incident |-> i]
    <2>3. step.pc = "enqueue" /\ step.incident = i /\ GoesTo(d, step)
      BY <1>1
    <2> HIDE DEF step
    <2>4. /\ request'[d].pc = "enqueue" /\ request'[d].incident = i
          /\ \A e \in Deliveries \ {d} : request'[e] = request[e]
      BY <1>0, <2>3 DEF RequestTypeOK, GoesTo
    <2> QED
      BY <2>1, <2>2, <2>4 DEF InsertOccurred, Receives
  <1>2. \/ \E i \in IncidentIds : /\ InsertIncident(i, Event[d].key, Event[d].at)
                                  /\ GoesTo(d, [pc |-> "enqueue", incident |-> i])
        \/ UNCHANGED incidents /\ Answers(d, "lookup")
    BY DEF InsertOccurred, storeVars
  <1>3. Answers(d, "lookup") => /\ At(d, "lookup")'
                                /\ \A e \in Deliveries \ {d} : request'[e] = request[e]
    BY <1>0, AnswersFinish
  <1> QED
    BY <1>1, <1>2, <1>3 DEF Receives

LEMMA RecoverOccurredIs ==
    ASSUME LocalInv, OnlyMildFaults, NEW d \in Deliveries, RecoverOccurred(d)
    PROVE  /\ \A e \in Deliveries \ {d} : request'[e] = request[e]
           /\ At(d, "arriving")
           /\ Event[d].transition = AlertRecovered
           /\ \/ \E i \in IncidentIds :
                    /\ IsRecoverTarget(i, Event[d].key, Event[d].at)
                    /\ request'[d] = NotifyNext(i)
                    /\ \/ StateBecomes(i, "RECOVERED")
                       \/ UNCHANGED incidents
              \/ /\ UNCHANGED incidents
                 /\ NotNewer(Event[d].key, Event[d].at) = {}
                 /\ At(d, "accepted")'
  <1>0. StoreTypeOK /\ RequestTypeOK
    BY DEF LocalInv, TypeOK
  <1>1. ~Strikes("db")
    BY DEF OnlyMildFaults, Strikes
  <1>2. ASSUME NEW i \in IncidentIds, IsRecoverTarget(i, Event[d].key, Event[d].at),
               GoesTo(d, NotifyNext(i))
        PROVE  /\ request'[d] = NotifyNext(i)
               /\ \A e \in Deliveries \ {d} : request'[e] = request[e]
    BY <1>0, <1>2, TargetIsThere, NotifyNextIs, GoesToEffect
  <1>3. CASE \E i \in IncidentIds : /\ Recover(Event[d].key, Event[d].at, i)
                                    /\ GoesTo(d, NotifyNext(i))
    <2>1. PICK i \in IncidentIds : /\ Recover(Event[d].key, Event[d].at, i)
                                   /\ GoesTo(d, NotifyNext(i))
      BY <1>3
    <2>2. IsRecoverTarget(i, Event[d].key, Event[d].at)
      BY <2>1 DEF Recover
    <2>3. StateBecomes(i, "RECOVERED")
      BY <1>0, <2>1, RecoverEffect
    <2> QED
      BY <1>2, <2>1, <2>2, <2>3 DEF RecoverOccurred
  <1>4. CASE \E i \in IncidentIds : /\ IsRecoverTarget(i, Event[d].key, Event[d].at)
                                    /\ GoesTo(d, NotifyNext(i))
                                    /\ UNCHANGED storeVars
    BY <1>2, <1>4 DEF RecoverOccurred, storeVars
  <1>5. CASE /\ NotNewer(Event[d].key, Event[d].at) = {}
             /\ Answers(d, "accepted")
             /\ UNCHANGED storeVars
    BY <1>0, <1>5, AnswersFinish DEF RecoverOccurred, storeVars
  <1> QED
    BY <1>1, <1>3, <1>4, <1>5 DEF RecoverOccurred

LEMMA RequestStepMoves ==
    ASSUME LocalInv, OnlyMildFaults, NEW d \in Deliveries, RequestStep(d) \/ Redeliver(d)
    PROVE  /\ RequestMove(d)
           /\ \A e \in Deliveries \ {d} : request'[e] = request[e]
  <1>0. RequestTypeOK /\ EnvironmentTypeOK
    BY DEF LocalInv, TypeOK
  <1>1. \A kind \in {"db", "feishu"} : ~Strikes(kind)
    BY DEF OnlyMildFaults, Strikes
  <1>2. ASSUME NEW status \in {"arriving", "lookup", "accepted", "refused", "error"},
               Answers(d, status)
        PROVE  At(d, status)' /\ \A e \in Deliveries \ {d} : request'[e] = request[e]
    BY <1>0, <1>2, AnswersFinish
  <1>3. CASE RefuseCallback(d)
    <2>1. Event[d].transition = "none"
      BY <1>3 DEF RefuseCallback, Event, Parsed
    <2> QED
      BY <1>2, <1>3, <2>1 DEF RefuseCallback, RequestMove
  <1>4. CASE InsertOccurred(d)
    BY <1>4, InsertOccurredIs DEF InsertOccurred, RequestMove
  <1>5. CASE LookUpActive(d)
    BY <1>2, <1>5 DEF LookUpActive, RequestMove
  <1>6. CASE EnqueueOccurred(d)
    BY <1>2, <1>6 DEF EnqueueOccurred, RequestMove
  <1>7. CASE RecoverOccurred(d)
    BY <1>7, RecoverOccurredIs DEF RequestMove
  <1>8. CASE NotifyRecovered(d)
    <2>1. UpdateIncidentCard(request[d].card, "RECOVERED") /\ Answers(d, "accepted")
      BY <1>1, <1>8 DEF NotifyRecovered
    <2>2. request[d].card \in MessageIds /\ cards[request[d].card] # AbsentCard
      BY <1>0, <1>8, RequestFields DEF NotifyRecovered, LocalInv, RequestOK
    <2>3. cards'[request[d].card].shows = "RECOVERED"
      BY <1>0, <2>1, <2>2, UpdateCardEffect DEF CardShows, States, TerminalStates
    <2> QED
      BY <1>2, <1>8, <2>1, <2>3 DEF NotifyRecovered, RequestMove
  <1>9. CASE Redeliver(d)
    BY <1>2, <1>9 DEF Redeliver, RequestMove
  <1> QED
    BY <1>3, <1>4, <1>5, <1>6, <1>7, <1>8, <1>9 DEF RequestStep

LEMMA RequestsMove ==
    ASSUME LocalInv, OnlyMildFaults, [Next]_vars, NEW d \in Deliveries
    PROVE  RequestMove(d)
  <1>1. ASSUME NEW e \in Deliveries, RequestStep(e) \/ Redeliver(e)
        PROVE  RequestMove(d)
    BY <1>1, RequestStepMoves DEF RequestMove
  <1>2. CASE GatewayCrash
    <2>1. GatewayMayCrash
      BY <1>2 DEF GatewayCrash, Strikes, GatewayMayCrash
    <2>2. request'[d] = IF request[d].pc \in {"lookup", "enqueue", "notify"}
                        THEN [pc |-> "error"] ELSE request[d]
      BY <1>2 DEF GatewayCrash
    <2> QED
      BY <2>1, <2>2 DEF RequestMove, At
  <1>3. UNCHANGED request => RequestMove(d)
    BY DEF RequestMove
  <1> QED
    BY <1>1, <1>2, <1>3 DEF Next, Tick, GatewayNext, vars

\* A row that becomes RECOVERED is the target of a delivery, which will tell.
LEMMA RecoveryIsTold ==
    ASSUME LocalInv, OnlyMildFaults, [Next]_vars, NEW i \in IncidentIds,
           ~IsRecovered(i), incidents'[i].state = "RECOVERED"
    PROVE  \E d \in Deliveries : /\ At(d, "arriving")
                                 /\ Event[d].transition = AlertRecovered
                                 /\ IsRecoverTarget(i, Event[d].key, Event[d].at)
                                 /\ request'[d] = NotifyNext(i)
  <1>1. Kinds
    BY StepKinds
  <1>2. incidents' # incidents
    BY DEF IsRecovered
  <1>3. ASSUME NEW d \in Deliveries, InsertOccurred(d)
        PROVE  FALSE
    BY <1>2, <1>3, InsertOccurredIs DEF Receives, IsRecovered
  <1>4. ASSUME NEW d \in Deliveries, RecoverOccurred(d)
        PROVE  /\ At(d, "arriving")
               /\ Event[d].transition = AlertRecovered
               /\ IsRecoverTarget(i, Event[d].key, Event[d].at)
               /\ request'[d] = NotifyNext(i)
    BY <1>2, <1>4, RecoverOccurredIs DEF StateBecomes, IsRecovered
  <1>5. ASSUME NEW w \in Workers, RunOneStep(w) \/ WorkerCrash(w), UNCHANGED request
        PROVE  FALSE
    <2>1. WorkerKind(w)
      BY <1>5, WorkerKinds
    <2>2. StatesStay \/ MovesItsIncident(w)
      BY <2>1, WorkerMovesStates
    <2>3. ~StatesStay
      BY DEF StatesStay, OnlyCardChanges, IsRecovered
    <2>4. \E o \in IncidentIds : \E s : s # "RECOVERED" /\ StateBecomes(o, s)
      <3>1. worker[w] \in Busy
        BY <2>2, <2>3, MoverIsFenced
      <3>2. IncidentOf(w) \in IncidentIds
        BY <3>1, WorkerFacts
      <3> QED
        BY <2>2, <2>3, <3>2 DEF MovesItsIncident, Marks, Completes, Fails, SchedulesAnother
    <2> QED
      BY <2>4 DEF StateBecomes, IsRecovered
  <1>6. UNCHANGED incidents \/ GatewayNext \/ (WorkerNext /\ UNCHANGED request)
    BY DEF Next, Tick, vars, storeVars
  <1>7. CASE GatewayNext
    <2>1. \E d \in Deliveries : InsertOccurred(d) \/ RecoverOccurred(d)
      BY <1>2, <1>7
      DEF GatewayNext, RequestStep, RefuseCallback, LookUpActive, EnqueueOccurred, Enqueue,
          NotifyRecovered, Redeliver, GatewayCrash, storeVars
    <2> QED
      BY <1>3, <1>4, <2>1
  <1> QED
    BY <1>2, <1>5, <1>6, <1>7 DEF WorkerNext

LEMMA NewRowIsReceived ==
    ASSUME LocalInv, Kinds, NEW i \in IncidentIds, incidents[i] = AbsentIncident,
           incidents'[i] # AbsentIncident
    PROVE  \E d \in Deliveries : Receives(d, i)
  <1>1. ASSUME NEW o \in IncidentIds, \/ \E s : StateBecomes(o, s)
                                      \/ \E m : CardBecomes(o, m)
        PROVE  FALSE
    BY <1>1, IncidentIsThere DEF StateBecomes, CardBecomes
  <1>2. ASSUME NEW w \in Workers, WorkerKind(w)
        PROVE  FALSE
    <2>1. worker[w] \in Busy
      BY <1>2
      DEF WorkerKind, StartsAJob, Passes, SavesACard, Marks, Completes, Fails,
          SchedulesAnother, QueuesAgain, EndsClaim, Proceeds
    <2>2. IncidentOf(w) \in IncidentIds
      BY <2>1, WorkerFacts
    <2> QED
      BY <1>1, <1>2, <2>2
      DEF WorkerKind, StartsAJob, Passes, SavesACard, Marks, Completes, Fails,
          SchedulesAnother, QueuesAgain
  <1>3. ASSUME NEW d \in Deliveries, NEW o \in IncidentIds, Receives(d, o)
        PROVE  o = i
    BY <1>3 DEF Receives
  <1> QED
    BY <1>1, <1>2, <1>3 DEF Kinds, RequestKind, Queues, Recovers, Waits

\* The target of a recovery stays the same until another alert of its key comes.
LEMMA TargetStays ==
    ASSUME LocalInv, Kinds, NEW i \in IncidentIds, NEW k, NEW at, IsRecoverTarget(i, k, at),
           \A d \in Deliveries, o \in IncidentIds : Receives(d, o) => Event[d].key # k
    PROVE  IsRecoverTarget(i, k, at)'
  <1>1. RowsStay
    BY RowsOfKinds
  <1>2. ASSUME NEW o \in IncidentIds, incidents[o] = AbsentIncident,
               incidents'[o] # AbsentIncident
        PROVE  incidents'[o].key # k
    BY <1>2, NewRowIsReceived DEF Receives
  <1>3. \A o \in IncidentIds :
           /\ o \in NotNewer(k, at)' <=> o \in NotNewer(k, at)
           /\ o \in NotNewer(k, at) => incidents'[o].alertAt = incidents[o].alertAt
    BY <1>1, <1>2 DEF RowsStay, NotNewer
  <1>4. NotNewer(k, at) \subseteq IncidentIds /\ NotNewer(k, at)' \subseteq IncidentIds
    BY DEF NotNewer
  <1> QED
    BY <1>3, <1>4 DEF IsRecoverTarget

LEMMA JobOfStays ==
    ASSUME LocalInv, Kinds, NEW j \in JobIds, NEW i, JobOf(j, i)
    PROVE  jobs'[j] # AbsentJob /\ jobs'[j].incident = i
  BY JobsMove, JobStays DEF JobOf, LocalInv, TypeOK

LEMMA RequestsFitNext ==
    ASSUME LocalInv, JobInv, RequestsFit, OnlyMildFaults, [Next]_vars
    PROVE  RequestsFit'
  <1>1. SUFFICES ASSUME NEW d \in Deliveries
                 PROVE  /\ request'[d].pc = "notify" => Event[d].transition = AlertRecovered
                        /\ request'[d].pc = "enqueue" =>
                              /\ Event[d].transition = AlertOccurred
                              /\ incidents'[request'[d].incident].key = Event[d].key
    BY DEF RequestsFit, At
  <1>2. RequestMove(d)
    BY RequestsMove
  <1>3. CASE request'[d] = request[d]
    <2>1. At(d, "enqueue") => incidents'[request[d].incident].key = incidents[request[d].incident].key
      BY RequestFields, StepKinds, RowsOfKinds DEF JobInv, RowsStay, LocalInv, TypeOK
    <2> QED
      BY <1>3, <2>1 DEF RequestsFit, At
  <1>4. ASSUME NEW i \in IncidentIds, Receives(d, i)
        PROVE  /\ request'[d].pc = "enqueue"
               /\ Event[d].transition = AlertOccurred
               /\ incidents'[request'[d].incident].key = Event[d].key
    BY <1>4 DEF Receives
  <1>5. \A i \in IncidentIds : NotifyNext(i).pc # "enqueue"
    BY DEF NotifyNext
  <1> QED
    BY <1>2, <1>3, <1>4, <1>5 DEF RequestMove, At

LEMMA AcceptedStays ==
    ASSUME LocalInv, OnlyMildFaults, [Next]_vars, NEW d \in Deliveries, At(d, "accepted")
    PROVE  At(d, "accepted")'
  BY RequestsMove DEF RequestMove, At

\* The same after the step.
AreOverNext(k) ==
    \A d \in Deliveries :
        (Event[d].transition = AlertOccurred /\ Event[d].key = k) => request'[d].pc = "accepted"

LEMMA JobsAreQueuedLastNext ==
    ASSUME LocalInv, JobInv, RequestsFit, JobsAreQueuedLast, OnlyMildFaults,
           OneOccurrenceOfAKey, [Next]_vars
    PROVE  JobsAreQueuedLast'
  <1>1. SUFFICES ASSUME GatewayMayCrash, NEW j \in JobIds, jobs'[j] # AbsentJob
                 PROVE  AreOverNext(incidents'[jobs'[j].incident].key)
    BY DEF JobsAreQueuedLast, GatewayMayCrash, AreOverNext, OccurrencesAreOver, At
  <1>2. Kinds /\ RowsStay
    BY StepKinds, RowsOfKinds
  <1>3. ASSUME NEW i \in IncidentIds, NEW k \in JobIds, JobOf(k, i), jobs'[j].incident = i
        PROVE  AreOverNext(incidents'[jobs'[j].incident].key)
    <2>1. incidents[i] # AbsentIncident /\ OccurrencesAreOver(incidents[i].key)
      BY <1>1, <1>3 DEF JobOf, JobInv, JobsAreQueuedLast
    <2>2. incidents'[i].key = incidents[i].key
      BY <1>2, <2>1 DEF RowsStay
    <2> QED
      BY <1>3, <2>1, <2>2, AcceptedStays DEF OccurrencesAreOver, AreOverNext, At
  <1>4. CASE jobs[j] # AbsentJob
    <2>1. jobs'[j].incident = jobs[j].incident /\ jobs[j].incident \in IncidentIds
      BY <1>2, <1>4, JobsMove, JobStays DEF LocalInv, TypeOK
    <2> QED
      BY <1>3, <1>4, <2>1 DEF JobOf
  <1>5. CASE jobs[j] = AbsentJob
    <2>1. ASSUME NEW w \in Workers, WorkerKind(w)
          PROVE  AreOverNext(incidents'[jobs'[j].incident].key)
      <3>1. SchedulesAnother(w)
        BY <1>1, <1>5, <2>1, WorkerMovesJobs DEF NoNewJob
      <3>2. /\ IncidentOf(w) \in IncidentIds
            /\ ClaimOf(w).job \in JobIds
            /\ JobOf(ClaimOf(w).job, IncidentOf(w))
        BY <3>1, ClaimedJob DEF SchedulesAnother, EndsClaim, JobOf
      <3>3. jobs'[j].incident = IncidentOf(w)
        BY <1>1, <1>5, <3>1, <3>2 DEF SchedulesAnother, OthersUntouched, Untouched, JobOf
      <3> QED
        BY <1>3, <3>2, <3>3
    <2>2. ASSUME NEW d \in Deliveries, NEW k \in JobIds, Queues(d, k)
          PROVE  AreOverNext(incidents'[jobs'[j].incident].key)
      <3>1. jobs'[j].incident = request[d].incident /\ UNCHANGED incidents
        BY <1>1, <1>5, <2>2 DEF Queues, OthersUntouched, Untouched
      <3>2. /\ Event[d].transition = AlertOccurred
            /\ incidents[request[d].incident].key = Event[d].key
            /\ request'[d].pc = "accepted"
        BY <2>2 DEF Queues, RequestsFit, At
      <3> QED
        BY <1>1, <3>1, <3>2 DEF AreOverNext, OneOccurrenceOfAKey
    <2>3. ASSUME NEW i \in IncidentIds, Recovers(i)
          PROVE  FALSE
      BY <1>1, <1>5, <2>3, OpenIsThere DEF Recovers, EndsJobsOf, Untouched, Ended
    <2> QED
      BY <1>1, <1>2, <1>5, <2>1, <2>2, <2>3 DEF Kinds, RequestKind, Receives, Waits
  <1> QED
    BY <1>4, <1>5

\* A step of a worker, and every other step, by what they do to the cards.
WorkerActs(w) ==
    /\ UNCHANGED request
    /\ WorkerKind(w)
    /\ CardMove(w)
    /\ OthersWait(w)
    /\ worker'[w].pc # "read" => ClaimStays(w)

OthersAct == UNCHANGED worker /\ RowCardsStay /\ NoNewCard

LEMMA CardSteps ==
    ASSUME LocalInv, AloneInv, CardInv, OnTime, OnlyMildFaults, [Next]_vars
    PROVE  OthersAct \/ \E w \in Workers : WorkerActs(w)
  <1>1. ASSUME NEW w \in Workers, RunOneStep(w) \/ WorkerCrash(w), UNCHANGED request
        PROVE  WorkerActs(w)
    BY <1>1, CardMoves, WorkerKinds, WorkerKindWaits DEF WorkerActs
  <1> QED
    BY <1>1, RequestsKeepCards DEF Next, WorkerNext, OthersAct

\* A card that is there after a step was there before, or a worker has made it.
LEMMA CardWasThere ==
    ASSUME NEW w \in Workers, CardMove(w), NEW m \in MessageIds, cards'[m] # AbsentCard
    PROVE  \/ cards[m] # AbsentCard /\ cards'[m].incident = cards[m].incident
           \/ /\ MakesCard(w)
              /\ m = worker'[w].card
              /\ cards[m] = AbsentCard
              /\ cards'[m].incident = IncidentOf(w)
  BY DEF CardMove, LooksForCard, MakesCard, KeepsCard, LosesCard, FindsRecovery, Announces,
         IsElsewhere, NoNewCard, CardShows

LEMMA CardsHaveJobsNext ==
    ASSUME LocalInv, ClaimInv, CardsHaveJobs, Kinds,
           OthersAct \/ \E w \in Workers : WorkerActs(w)
    PROVE  CardsHaveJobs'
  <1>1. SUFFICES ASSUME NEW m \in MessageIds, cards'[m] # AbsentCard
                 PROVE  \E j \in JobIds : /\ jobs'[j] # AbsentJob
                                          /\ jobs'[j].incident = cards'[m].incident
    BY DEF CardsHaveJobs, JobOf
  <1>2. CASE cards[m] # AbsentCard /\ cards'[m].incident = cards[m].incident
    BY <1>2, JobOfStays DEF CardsHaveJobs
  <1>3. ASSUME NEW w \in Workers, WorkerActs(w), MakesCard(w),
               cards'[m].incident = IncidentOf(w)
        PROVE  \E j \in JobIds : /\ jobs'[j] # AbsentJob
                                 /\ jobs'[j].incident = cards'[m].incident
    <2>1. worker[w] \in Busy /\ Working(w)
      BY <1>3, BusyWorker DEF MakesCard, Steps, LocalInv, TypeOK
    <2>2. ClaimOf(w).job \in JobIds
      BY <2>1, WorkerFacts DEF Claim
    <2>3. JobOf(ClaimOf(w).job, IncidentOf(w))
      <3>1. ClaimIsBehindJob(ClaimOf(w))
        BY <2>1 DEF ClaimInv
      <3> QED
        BY <3>1
        DEF ClaimIsBehindJob, JobOf, ClaimOf, IncidentOf, Job, AbsentJob, OpenStatuses,
            ClosedStatuses
    <2> QED
      BY <1>3, <2>2, <2>3, JobOfStays
  <1> QED
    BY <1>1, <1>2, <1>3, CardWasThere DEF OthersAct, NoNewCard, WorkerActs

\* The card of a recovered row, and what was there before the step.
WasShown(i) ==
    /\ IsRecovered(i)
    /\ incidents[i] # AbsentIncident
    /\ incidents[i].card \in MessageIds
    /\ cards[incidents[i].card] # AbsentCard
    /\ cards[incidents[i].card].incident = i
    /\ incidents'[i].card = incidents[i].card

WillBeShownNext(i) ==
    \/ cards'[incidents'[i].card].shows = "RECOVERED"
    \/ \E w \in Workers : /\ worker'[w] # Idle
                          /\ worker'[w].pc = "announce"
                          /\ worker'[w].claim.incident = i
    \/ \E d \in Deliveries : WillTell(d, i)'

\* Nobody takes a recovery back, and a promise to show it is kept.
LEMMA ShownStays ==
    ASSUME LocalInv, Kinds, NEW i \in IncidentIds, WasShown(i),
           cards[incidents[i].card].shows = "RECOVERED"
    PROVE  WillBeShownNext(i)
  BY RecoveredCardStays DEF WasShown, WillBeShownNext

LEMMA AnnounceStays ==
    ASSUME LocalInv, CardInv, NEW i \in IncidentIds, WasShown(i),
           OthersAct \/ \E w \in Workers : WorkerActs(w),
           NEW v \in Workers, Working(v), worker[v].pc = "announce", IncidentOf(v) = i
    PROVE  WillBeShownNext(i)
  <1>1. CASE worker'[v] = worker[v]
    BY <1>1 DEF WillBeShownNext, Working, IncidentOf
  <1>2. CASE WorkerActs(v)
    <2>1. Announces(v)
      BY <1>2
      DEF WorkerActs, CardMove, LooksForCard, MakesCard, KeepsCard, LosesCard, FindsRecovery,
          IsElsewhere
    <2>2. incidents[i].card = worker[v].card
      BY DEF CardInv, CardOK
    <2> QED
      BY <2>1, <2>2 DEF Announces, WasShown, WillBeShownNext
  <1> QED
    BY <1>1, <1>2 DEF OthersAct, WorkerActs, OthersWait

LEMMA TellStays ==
    ASSUME LocalInv, CardsHaveJobs, JobsAreQueuedLast, RecoveryAssumptions, [Next]_vars,
           NEW i \in IncidentIds, WasShown(i), NEW d \in Deliveries, WillTell(d, i)
    PROVE  WillBeShownNext(i)
  <1>0. Kinds /\ RequestMove(d) /\ HasNotifier
    BY StepKinds, RequestsMove DEF RecoveryAssumptions
  <1>1. GatewayMayCrash => IsRecoverTarget(i, Event[d].key, Event[d].at)'
    <2>1. SUFFICES ASSUME GatewayMayCrash
                   PROVE  IsRecoverTarget(i, Event[d].key, Event[d].at)'
      OBVIOUS
    <2>2. /\ IsRecoverTarget(i, Event[d].key, Event[d].at)
          /\ incidents[i].key = Event[d].key
      BY <2>1 DEF WillTell, IsRecoverTarget, NotNewer
    <2>3. OccurrencesAreOver(Event[d].key)
      <3>1. PICK j \in JobIds : JobOf(j, i)
        BY DEF CardsHaveJobs, WasShown
      <3> QED
        BY <2>1, <2>2, <3>1 DEF JobsAreQueuedLast, JobOf
    <2>4. ASSUME NEW e \in Deliveries, NEW o \in IncidentIds, Receives(e, o)
          PROVE  Event[e].key # Event[d].key
      BY <2>3, <2>4 DEF Receives, OccurrencesAreOver, At
    <2> QED
      BY <1>0, <2>2, <2>4, TargetStays
  <1>2. ASSUME \/ /\ request'[d].pc = "notify"
                  /\ request'[d].card = incidents[i].card
               \/ GatewayMayCrash /\ request'[d].pc \in {"error", "arriving"}
        PROVE  WillTell(d, i)'
    BY <1>1, <1>2 DEF WillTell, WasShown, At, GatewayMayCrash
  <1>3. CASE request'[d] = request[d]
    BY <1>2, <1>3 DEF WillTell, At, WillBeShownNext
  <1>4. CASE At(d, "notify") /\ request[d].card = incidents[i].card
    <2>1. \/ request'[d] = request[d]
          \/ cards'[request[d].card].shows = "RECOVERED"
          \/ GatewayMayCrash /\ request'[d].pc = "error"
      BY <1>0, <1>4 DEF RequestMove, At
    <2> QED
      BY <1>2, <1>3, <1>4, <2>1 DEF WasShown, WillBeShownNext
  <1>5. CASE GatewayMayCrash /\ At(d, "error")
    <2>1. request'[d] = request[d] \/ request'[d].pc = "arriving"
      BY <1>0, <1>5 DEF RequestMove, At
    <2> QED
      BY <1>2, <1>3, <1>5, <2>1 DEF WillBeShownNext
  <1>6. CASE GatewayMayCrash /\ At(d, "arriving")
    <2>1. /\ IsRecoverTarget(i, Event[d].key, Event[d].at)
          /\ Event[d].transition = AlertRecovered
      BY <1>6 DEF WillTell
    <2>2. incidents[i] \in Incident /\ NotNewer(Event[d].key, Event[d].at) # {}
      BY <2>1, TargetIsThere DEF LocalInv, TypeOK
    <2>3. request'[d] = request[d] \/ request'[d] = NotifyNext(i)
      <3>1. ASSUME NEW o \in IncidentIds, IsRecoverTarget(o, Event[d].key, Event[d].at)
            PROVE  o = i
        BY <2>1, <3>1, OneTarget DEF LocalInv, TypeOK
      <3> QED
        BY <1>0, <1>6, <2>1, <2>2, <3>1 DEF RequestMove, At, AlertRecovered, AlertOccurred
    <2>4. incidents[i].card # NoCard
      BY EnvironmentAssumption DEF WasShown
    <2> QED
      BY <1>0, <1>2, <1>3, <2>2, <2>3, <2>4, NotifyNextIs DEF WillBeShownNext
  <1> QED
    BY <1>4, <1>5, <1>6 DEF WillTell

\* The request that recovers a row will show it.
LEMMA RecoveryWillBeShown ==
    ASSUME LocalInv, RecoveryAssumptions, [Next]_vars,
           OthersAct \/ \E w \in Workers : WorkerActs(w),
           NEW i \in IncidentIds, ~IsRecovered(i),
           incidents'[i].state = "RECOVERED", incidents'[i].card # NoCard
    PROVE  WillBeShownNext(i)
  <1>0. Kinds /\ OnlyMildFaults /\ HasNotifier
    BY StepKinds DEF RecoveryAssumptions
  <1>1. PICK d \in Deliveries : /\ At(d, "arriving")
                                /\ Event[d].transition = AlertRecovered
                                /\ IsRecoverTarget(i, Event[d].key, Event[d].at)
                                /\ request'[d] = NotifyNext(i)
    BY <1>0, RecoveryIsTold
  <1>2. incidents[i] \in Incident /\ incidents[i] # AbsentIncident
    BY <1>1, TargetIsThere, IncidentIsThere DEF LocalInv, TypeOK
  <1>3. request'[d] # request[d]
    BY <1>1, <1>2, NotifyNextIs DEF At
  <1>4. incidents'[i].card = incidents[i].card
    BY <1>2, <1>3 DEF WorkerActs, OthersAct, RowCardsStay
  <1>5. request'[d].pc = "notify" /\ request'[d].card = incidents'[i].card
    BY <1>0, <1>1, <1>2, <1>4, NotifyNextIs
  <1>6. ASSUME NEW e \in Deliveries, NEW o \in IncidentIds, Receives(e, o)
        PROVE  FALSE
    BY <1>2, <1>6 DEF Receives, IsRecovered
  <1>7. IsRecoverTarget(i, Event[d].key, Event[d].at)'
    BY <1>0, <1>1, <1>6, TargetStays
  <1>8. WillTell(d, i)'
    BY <1>1, <1>5, <1>7 DEF WillTell, At
  <1> QED
    BY <1>8 DEF WillBeShownNext

\* The worker that stores a card on a row that is recovered already will show it.
LEMMA KeptCardWillBeShown ==
    ASSUME LocalInv, NEW i \in IncidentIds, IsRecovered(i), incidents[i].card = NoCard,
           incidents'[i].card # NoCard, OthersAct \/ \E w \in Workers : WorkerActs(w)
    PROVE  WillBeShownNext(i)
  <1>1. incidents[i] # AbsentIncident /\ ~Active(i)
    BY DEF IsRecovered, AbsentIncident, Active, ActiveStates
  <1>2. PICK w \in Workers : WorkerActs(w)
    BY <1>1 DEF OthersAct, RowCardsStay
  <1>3. KeepsCard(w) /\ i = IncidentOf(w)
    BY <1>1, <1>2, OtherRowCardsStay DEF WorkerActs
  <1>4. worker'[w].pc = "announce"
    BY <1>1, <1>3 DEF KeepsCard
  <1>5. worker'[w] # Idle
    BY <1>4 DEF Idle
  <1>6. worker'[w].claim = worker[w].claim
    BY <1>2, <1>4, <1>5 DEF WorkerActs, ClaimStays, ClaimOf
  <1> QED
    BY <1>3, <1>4, <1>5, <1>6 DEF WillBeShownNext, IncidentOf

LEMMA WillBeShownStays ==
    ASSUME LocalInv, CardInv, TellInv, RecoveryAssumptions, [Next]_vars,
           OthersAct \/ \E w \in Workers : WorkerActs(w),
           NEW i \in IncidentIds, incidents'[i].state = "RECOVERED", incidents'[i].card # NoCard
    PROVE  WillBeShownNext(i)
  <1>1. CASE ~IsRecovered(i)
    BY <1>1, RecoveryWillBeShown
  <1>2. CASE IsRecovered(i) /\ incidents[i].card = NoCard
    BY <1>2, KeptCardWillBeShown
  <1>3. CASE IsRecovered(i) /\ incidents[i].card # NoCard
    <2>1. incidents[i] # AbsentIncident
      BY <1>3 DEF IsRecovered, AbsentIncident
    <2>2. incidents'[i].card = incidents[i].card
      <3>1. ASSUME NEW w \in Workers, WorkerActs(w)
            PROVE  incidents'[i].card = incidents[i].card
        BY <1>3, <2>1, <3>1, OtherRowCardsStay DEF WorkerActs, KeepsCard, CardBecomes
      <3> QED
        BY <2>1, <3>1 DEF OthersAct, RowCardsStay
    <2>3. incidents[i].card \in MessageIds
      <3>1. incidents[i] \in Incident
        BY <2>1 DEF LocalInv, TypeOK, StoreTypeOK
      <3> QED
        BY <1>3, <3>1 DEF Incident
    <2>4. WasShown(i)
      BY <1>3, <2>1, <2>2, <2>3 DEF WasShown, LocalInv, RowOK, CardIsOf
    <2>5. Kinds
      BY StepKinds
    <2>6. CASE cards[incidents[i].card].shows = "RECOVERED"
      BY <2>4, <2>5, <2>6, ShownStays
    <2>7. ASSUME NEW v \in Workers, Working(v), worker[v].pc = "announce", IncidentOf(v) = i
          PROVE  WillBeShownNext(i)
      BY <2>4, <2>7, AnnounceStays
    <2>8. ASSUME NEW d \in Deliveries, WillTell(d, i)
          PROVE  WillBeShownNext(i)
      BY <2>4, <2>8, TellStays DEF TellInv
    <2> QED
      BY <1>3, <2>6, <2>7, <2>8 DEF TellInv, WillBeShown
  <1> QED
    BY <1>1, <1>2, <1>3

LEMMA TellInvNext ==
    ASSUME LocalInv, JobInv, ClaimInv, AloneInv, CardInv, TellInv, OnTime,
           RecoveryAssumptions, [Next]_vars
    PROVE  TellInv'
  <1>1. Kinds /\ OnlyMildFaults /\ OneOccurrenceOfAKey
    BY StepKinds DEF RecoveryAssumptions
  <1>2. OthersAct \/ \E w \in Workers : WorkerActs(w)
    BY <1>1, CardSteps
  <1>3. RequestsFit'
    BY <1>1, RequestsFitNext DEF TellInv
  <1>4. CardsHaveJobs'
    BY <1>1, <1>2, CardsHaveJobsNext DEF TellInv
  <1>5. JobsAreQueuedLast'
    BY <1>1, JobsAreQueuedLastNext DEF TellInv
  <1>6. ASSUME NEW i \in IncidentIds
        PROVE  WillBeShown(i)'
    <2>1. incidents'[i].state = "RECOVERED" /\ incidents'[i].card # NoCard => WillBeShownNext(i)
      BY <1>2, WillBeShownStays
    <2> QED
      BY <2>1 DEF WillBeShown, WillBeShownNext, IsRecovered, Working, IncidentOf
  <1> QED
    BY <1>3, <1>4, <1>5, <1>6 DEF TellInv

RecoveryInv == AloneInv /\ CardInv /\ TellInv

LEMMA RecoveryInvInit ==
    ASSUME Init
    PROVE  RecoveryInv
  <1>1. \A w \in Workers : ~Working(w)
    BY DEF Init, WorkerInit, Working
  <1>2. /\ \A i \in IncidentIds : incidents[i] = AbsentIncident
        /\ \A j \in JobIds : jobs[j] = AbsentJob
        /\ \A m \in MessageIds : cards[m] = AbsentCard
        /\ \A d \in Deliveries : At(d, "arriving")
    BY DEF Init, StoreInit, EnvironmentInit, RequestInit, At
  <1>3. \A i \in IncidentIds : ~IsRecovered(i)
    BY <1>2 DEF IsRecovered, AbsentIncident
  <1>4. AloneInv
    BY <1>1 DEF AloneInv
  <1>5. CardInv
    BY <1>1, <1>2 DEF CardInv, CardOK
  <1>6. TellInv
    BY <1>2, <1>3 DEF TellInv, RequestsFit, CardsHaveJobs, JobsAreQueuedLast, WillBeShown, At
  <1> QED
    BY <1>4, <1>5, <1>6 DEF RecoveryInv

LEMMA RecoveryInvNext ==
    ASSUME LocalInv, JobInv, ClaimInv, RecoveryInv, OnTime, RecoveryAssumptions, [Next]_vars
    PROVE  RecoveryInv'
  <1>1. OnlyMildFaults /\ Timeout <= Lease
    BY DEF RecoveryAssumptions
  <1>2. AloneInv'
    BY <1>1, AloneInvNext DEF RecoveryInv
  <1>3. CardInv'
    BY <1>1, CardInvNext DEF RecoveryInv
  <1>4. TellInv'
    BY TellInvNext DEF RecoveryInv
  <1> QED
    BY <1>2, <1>3, <1>4 DEF RecoveryInv

\* When nobody is left who could still show a recovery, it has been shown.
LEMMA SettledIsShown ==
    ASSUME LocalInv, RecoveryInv
    PROVE  RecoveryIsShown
  <1>1. SUFFICES ASSUME NEW i \in IncidentIds, IsRecovered(i), Settled(i),
                        NEW m \in MessageIds, cards[m] # AbsentCard, cards[m].incident = i
                 PROVE  cards[m].shows = "RECOVERED"
    BY DEF RecoveryIsShown, ShowsRecovery, IsRecovered
  <1>2. \A w \in Workers : ~WillSave(w, m)
    BY <1>1, CardOfWorker DEF WillSave, Settled, Working, IncidentOf
  <1>3. incidents[i].card = m /\ m # NoCard
    BY <1>1, <1>2, EnvironmentAssumption DEF RecoveryInv, CardInv
  <1>4. \A w \in Workers : ~(Working(w) /\ IncidentOf(w) = i)
    BY <1>1 DEF Settled, Working, IncidentOf
  <1>5. \A d \in Deliveries : ~WillTell(d, i)
    BY <1>1 DEF Settled, WillTell, At
  <1> QED
    BY <1>1, <1>3, <1>4, <1>5 DEF RecoveryInv, TellInv, WillBeShown

\* While every attempt ends in time: the recovery's invariants hold.
THEOREM RecoveryInvariance ==
    ASSUME RecoveryAssumptions
    PROVE  Spec /\ []OnTime => []RecoveryInv
  <1>1. Init => RecoveryInv
    BY RecoveryInvInit
  <1>2. LocalInv /\ JobInv /\ ClaimInv /\ RecoveryInv /\ OnTime /\ [Next]_vars => RecoveryInv'
    BY RecoveryInvNext
  <1> QED
    BY <1>1, <1>2, LocalInvariance, JobInvariance, ClaimInvariance, PTL DEF Spec

\* A recovery that was answered reaches every card of its incident.
THEOREM RecoveryReachesTheCard ==
    ASSUME RecoveryAssumptions
    PROVE  Spec /\ []OnTime => []RecoveryIsShown
  <1>1. LocalInv /\ RecoveryInv => RecoveryIsShown
    BY SettledIsShown
  <1> QED
    BY <1>1, LocalInvariance, RecoveryInvariance, PTL

\* So it does when the clock ends before the first attempt's time is over.
THEOREM RecoveryIsShownInTime ==
    ASSUME RecoveryAssumptions, MaxTime < Timeout
    PROVE  Spec => []RecoveryIsShown
  <1>1. LocalInv => OnTime
    <2>1. SUFFICES ASSUME LocalInv, NEW w \in Workers, Working(w)
                   PROVE  ~(now >= worker[w].at + Timeout)
      BY DEF OnTime, ContextDone
    <2>2. worker[w] \in Busy /\ worker[w].at \in Nat
      <3>1. worker[w] \in Busy
        BY <2>1, BusyWorker DEF LocalInv, TypeOK
      <3> QED
        BY <3>1 DEF Busy
    <2>3. now \in Nat /\ MaxTime \in Nat /\ now <= MaxTime
      BY <2>1, NowType DEF LocalInv, TypeOK
    <2> QED
      BY <2>2, <2>3, WorkerAssumption
  <1> QED
    BY <1>1, LocalInvariance, RecoveryReachesTheCard, PTL

-----------------------------------------------------------------------------
(* A recovery that was shown stays shown, whatever fails.                  *)

\* A worker starts for an incident that is active.
LEMMA StartsForActive ==
    ASSUME LocalInv, NEW w \in Workers, StartsAJob(w)
    PROVE  /\ OthersWait(w)
           /\ incidents[worker'[w].claim.incident].state \in ActiveStates
           /\ UNCHANGED incidents
  <1>1. PICK j \in JobIds : ClaimNext(Host[w], now, j) /\ Starts(w, j)
    BY DEF StartsAJob
  <1>2. Active(jobs[j].incident)
    <2>1. StoreTypeOK /\ now \in Nat /\ Host[w] \in WorkerIds
      BY DEF StartsAJob, LocalInv, TypeOK
    <2> QED
      BY <1>1, <2>1, ClaimEffect
  <1>3. worker'[w].claim.incident = jobs[j].incident
    BY <1>1 DEF Starts, ClaimFor
  <1> QED
    BY <1>1, <1>2, <1>3 DEF Active, Starts, StartsAJob, OthersWait

\* A callback that was accepted is not delivered again.
LEMMA AcceptedForGood ==
    ASSUME RequestTypeOK, [Next]_vars, NEW d \in Deliveries, At(d, "accepted")
    PROVE  At(d, "accepted")'
  <1>1. ASSUME NEW e \in Deliveries, RequestStep(e) \/ Redeliver(e)
        PROVE  ~At(e, "accepted") /\ request'[d] = request[d]
    <2>1. ~At(e, "accepted")
      BY <1>1
      DEF RequestStep, RefuseCallback, InsertOccurred, LookUpActive, EnqueueOccurred,
          RecoverOccurred, NotifyRecovered, Redeliver, At
    <2>2. \E step : GoesTo(e, step)
      BY <1>1
      DEF RequestStep, RefuseCallback, InsertOccurred, LookUpActive, EnqueueOccurred,
          RecoverOccurred, NotifyRecovered, Redeliver, Answers
    <2> QED
      BY <2>1, <2>2 DEF GoesTo, RequestTypeOK, At
  <1>2. GatewayCrash => request'[d] = request[d]
    BY DEF GatewayCrash, At
  <1> QED
    BY <1>1, <1>2 DEF Next, GatewayNext, Tick, vars, At

LEMMA SettledNext ==
    ASSUME LocalInv, [Next]_vars, NEW i \in IncidentIds, IsRecovered(i), Settled(i)
    PROVE  IsRecovered(i)' /\ Settled(i)'
  <1>1. Kinds
    BY StepKinds
  <1>2. IsRecovered(i)'
    BY <1>1, RecoveredStays DEF IsRecovered
  <1>3. \A d \in Deliveries : Event[d].transition = AlertRecovered => At(d, "accepted")'
    BY AcceptedForGood DEF Settled, LocalInv, TypeOK
  <1>4. ASSUME NEW w \in Workers, worker'[w] # Idle
        PROVE  worker'[w].claim.incident # i
    <2>1. CASE ClaimStays(w)
      BY <1>4, <2>1 DEF ClaimStays, Settled, Working, ClaimOf
    <2>2. ASSUME NEW v \in Workers, StartsAJob(v), v # w
          PROVE  worker'[w] = worker[w]
      BY <2>2, StartsForActive DEF OthersWait
    <2>3. CASE StartsAJob(w)
      BY <2>3, StartsForActive DEF IsRecovered, ActiveStates
    <2> QED
      BY <1>1, <1>4, <2>1, <2>2, <2>3, ClaimsOfKinds DEF Settled
  <1> QED
    BY <1>2, <1>3, <1>4 DEF Settled

\* A recovered incident that is settled is left alone for good: no late worker,
\* no other alert and no callback that is delivered again comes back to it.
THEOREM SettledStays ==
    Spec => [][\A i \in IncidentIds :
                  (IsRecovered(i) /\ Settled(i)) => (IsRecovered(i) /\ Settled(i))']_vars
  <1>1. LocalInv /\ [Next]_vars =>
           [\A i \in IncidentIds :
               (IsRecovered(i) /\ Settled(i)) => (IsRecovered(i) /\ Settled(i))']_vars
    BY SettledNext
  <1> QED
    BY <1>1, LocalInvariance, PTL DEF Spec

\* The half of RecoveryReachesCards that is safety: what the cards of a settled
\* incident show, they show for ever.
THEOREM RecoveryIsShownForEver ==
    ASSUME RecoveryAssumptions, NEW i \in IncidentIds
    PROVE  Spec /\ []OnTime => []((IsRecovered(i) /\ Settled(i)) => []ShowsRecovery(i))
  <1>1. (LocalInv /\ IsRecovered(i) /\ Settled(i)) /\ [Next]_vars =>
           (IsRecovered(i) /\ Settled(i))'
    BY SettledNext
  <1>2. RecoveryIsShown => ((IsRecovered(i) /\ Settled(i)) => ShowsRecovery(i))
    BY DEF RecoveryIsShown, IsRecovered
  <1> QED
    BY <1>1, <1>2, LocalInvariance, RecoveryReachesTheCard, PTL DEF Spec

-----------------------------------------------------------------------------
(* An investigation is finished by the attempt that began it, or by none.  *)

Investigates(w, i) ==
    /\ Working(w) /\ IncidentOf(w) = i
    /\ CheckActiveClaim(ClaimOf(w))
    /\ worker[w].pc \in StepsOfInvestigation

\* The attempt that marked the incident broke, died, or lost its claim.
Abandoned(i) ==
    /\ incidents[i].state = "INVESTIGATING"
    /\ \A w \in Workers : ~Investigates(w, i)

IsLost(i) == Abandoned(i) \/ incidents[i].state \in {"FAILED", "RECOVERED"}

\* Nobody comes to the steps of an investigation but through MarkInvestigating.
LEMMA InvestigatorWasThere ==
    ASSUME LocalInv, ClaimInv, Kinds, NEW i \in IncidentIds, NEW w \in Workers,
           Investigates(w, i)'
    PROVE  Investigates(w, i) \/ (Marks(w) /\ IncidentOf(w) = i)
  <1>0. worker'[w] # Idle /\ worker'[w].pc \in StepsOfInvestigation
    BY DEF Investigates, Working
  <1>1. ASSUME NEW v \in Workers, StartsAJob(v)
        PROVE  worker'[w] = worker[w] /\ v # w
    <2>1. OthersWait(v)
      BY <1>1, StartsForActive
    <2>2. worker'[v].pc \notin StepsOfInvestigation
      BY <1>1 DEF StartsAJob, Starts, StepsOfInvestigation
    <2> QED
      BY <1>0, <2>1, <2>2 DEF OthersWait
  <1>2. Working(w) /\ worker'[w].claim = ClaimOf(w)
    BY <1>0, <1>1, ClaimsOfKinds DEF ClaimStays, Working, ClaimOf
  <1>3. IncidentOf(w) = i
    BY <1>2 DEF Investigates, IncidentOf, ClaimOf
  <1>4. CheckActiveClaim(ClaimOf(w))
    <2>1. FenceHoldsNext(ClaimOf(w))
      BY <1>2 DEF Investigates, CheckActiveClaim, HoldsClaim, Active, FenceHoldsNext, ClaimOf
    <2> QED
      BY <1>2, <2>1, FenceWasHeld
  <1>5. worker[w].pc \in StepsOfInvestigation \/ Marks(w)
    <2>1. CASE worker'[w] = worker[w]
      BY <1>0, <2>1
    <2>2. ASSUME NEW v \in Workers, WorkerKind(v)
          PROVE  worker[w].pc \in StepsOfInvestigation \/ Marks(w)
      <3>1. CASE v # w
        <4>1. OthersWait(v)
          BY <1>1, <2>2, ClaimsOfWorkerKind DEF StartsAJob, Starts, OthersWait, LocalInv, TypeOK
        <4> QED
          BY <2>1, <3>1, <4>1 DEF OthersWait
      <3>2. CASE v = w
        BY <1>0, <1>1, <2>2, <3>2
        DEF WorkerKind, Passes, SavesACard, Proceeds, Completes, Fails, SchedulesAnother,
            QueuesAgain, EndsClaim, Leaves
      <3> QED
        BY <3>1, <3>2
    <2> QED
      BY <2>1, <2>2 DEF Kinds, RequestKind, Waits
  <1> QED
    BY <1>2, <1>3, <1>4, <1>5 DEF Investigates

LEMMA LostNext ==
    ASSUME LocalInv, ClaimInv, [Next]_vars, NEW i \in IncidentIds, IsLost(i)
    PROVE  /\ IsLost(i)'
           /\ Abandoned(i) => Abandoned(i)' \/ incidents'[i].state \in {"FAILED", "RECOVERED"}
  <1>0. Kinds
    BY StepKinds
  <1>1. incidents[i].state \in {"INVESTIGATING", "FAILED", "RECOVERED"}
        /\ incidents[i] # AbsentIncident
    BY DEF IsLost, Abandoned, AbsentIncident
  <1>2. incidents[i].state # "INVESTIGATING" => ~Active(i)
    BY <1>1 DEF Active, ActiveStates
  <1>3. ASSUME Abandoned(i), incidents'[i].state = incidents[i].state
        PROVE  Abandoned(i)'
    <2>1. ASSUME NEW w \in Workers, Marks(w)
          PROVE  IncidentOf(w) # i
      BY <1>3, <2>1 DEF Marks, Abandoned
    <2>2. \A w \in Workers : ~Investigates(w, i)'
      BY <1>0, <1>3, <2>1, InvestigatorWasThere DEF Abandoned
    <2> QED
      BY <1>3, <2>2 DEF Abandoned
  <1>4. ASSUME NEW w \in Workers, MovesItsIncident(w)
        PROVE  \/ incidents'[i].state = incidents[i].state
               \/ Abandoned(i) /\ incidents'[i].state = "FAILED"
    <2>1. CASE IncidentOf(w) # i
      BY <1>1, <1>4, <2>1, MoverIsFenced DEF StateBecomes
    <2>2. CASE IncidentOf(w) = i
      <3>1. /\ Working(w) /\ CheckActiveClaim(ClaimOf(w)) /\ Active(i)
        BY <1>4, <2>2, MoverIsFenced
      <3>2. Abandoned(i)
        BY <1>1, <1>2, <3>1 DEF IsLost, Active, ActiveStates
      <3>3. worker[w].pc # "commit"
        BY <2>2, <3>1, <3>2 DEF Abandoned, Investigates, StepsOfInvestigation
      <3>4. ~Marks(w)
        BY <2>2, <3>2 DEF Abandoned, Marks
      <3>5. Fails(w)
        BY <1>4, <3>3, <3>4 DEF MovesItsIncident, Completes, SchedulesAnother
      <3> QED
        BY <2>2, <3>2, <3>5 DEF Fails, StateBecomes
    <2> QED
      BY <2>1, <2>2
  <1>5. \/ incidents'[i].state = incidents[i].state
        \/ incidents'[i].state = "RECOVERED"
        \/ Abandoned(i) /\ incidents'[i].state = "FAILED"
    <2>1. CASE StatesStay
      BY <2>1 DEF StatesStay, OnlyCardChanges
    <2>2. ASSUME NEW d \in Deliveries, NEW o \in IncidentIds, Receives(d, o)
          PROVE  incidents'[i].state = incidents[i].state
      BY <1>1, <2>2 DEF Receives
    <2>3. ASSUME NEW o \in IncidentIds, Recovers(o)
          PROVE  incidents'[i].state \in {incidents[i].state, "RECOVERED"}
      BY <1>1, <2>3 DEF Recovers, StateBecomes
    <2> QED
      BY <1>0, <1>4, <2>1, <2>2, <2>3, StatesOfKinds
  <1> QED
    BY <1>3, <1>5 DEF IsLost

\* Once the attempt that marked an incident INVESTIGATING is over without its
\* result, no retry and no other worker investigates it again: MarkInvestigating
\* refuses the state, and RunOne returns.  What is left to it is to fail, or to
\* recover.  (LastAttemptClosesJob fails for this reason.)
THEOREM AbandonedIsNotResumed ==
    Spec => [][\A i \in IncidentIds :
                  Abandoned(i) => \/ Abandoned(i)'
                                  \/ incidents'[i].state \in {"FAILED", "RECOVERED"}]_vars
  <1>1. LocalInv /\ ClaimInv /\ [Next]_vars =>
           [\A i \in IncidentIds :
               Abandoned(i) => \/ Abandoned(i)'
                               \/ incidents'[i].state \in {"FAILED", "RECOVERED"}]_vars
    BY LostNext DEF IsLost
  <1> QED
    BY <1>1, LocalInvariance, ClaimInvariance, PTL DEF Spec

\* So it never completes, and never waits for audit events again.
THEOREM AbandonedIsLost ==
    ASSUME NEW i \in IncidentIds
    PROVE  Spec => [](Abandoned(i) =>
                         [](incidents[i].state \in {"INVESTIGATING", "FAILED", "RECOVERED"}))
  <1>1. LocalInv /\ ClaimInv /\ IsLost(i) /\ [Next]_vars => IsLost(i)'
    BY LostNext
  <1>2. Abandoned(i) => IsLost(i)
    BY DEF IsLost
  <1>3. IsLost(i) => incidents[i].state \in {"INVESTIGATING", "FAILED", "RECOVERED"}
    BY DEF IsLost, Abandoned
  <1> QED
    BY <1>1, <1>2, <1>3, LocalInvariance, ClaimInvariance, PTL DEF Spec

-----------------------------------------------------------------------------
(* The system is one of the repository's callers.                          *)
(* StoreClients lets any caller use any claim ever handed out, so it keeps *)
(* them all; the system is watched by the same history to be compared.     *)

VARIABLE claims \* history: every claim a worker ever had

ClaimsAtWork == {ClaimOf(w) : w \in {v \in Workers : Working(v)}}

\* The system, watched: claims tells what was and prevents nothing.
WatchedInit == Init /\ claims = {}
WatchedNext == Next /\ claims' = claims \cup ClaimsAtWork'
WatchedSpec == WatchedInit /\ [][WatchedNext]_<<vars, claims>>

AlertTimes == {Event[d].at : d \in Deliveries}

\* The repository that serves arbitrary callers, with the theorems about it.
Repository == INSTANCE StoreProofs WITH EventTimes <- AlertTimes

HistoryInv == LocalInv /\ JobInv /\ ClaimInv /\ ClaimsAtWork \subseteq claims

\* The two modules mean the same operations.
LEMMA SameOperations ==
    /\ \A i, k, at : InsertIncident(i, k, at) => Repository!InsertIncident(i, k, at)
    /\ \A j, i, at : Enqueue(j, i, at) => Repository!Enqueue(j, i, at)
    /\ \A k, at, i : Recover(k, at, i) => Repository!Recover(k, at, i)
    /\ \A w, at, j : ClaimNext(w, at, j) => Repository!ClaimNext(w, at, j)
    /\ \A w, at, j : ClaimFor(w, at, j) = Repository!ClaimFor(w, at, j)
    /\ \A c : MarkInvestigatingForClaim(c) => Repository!MarkInvestigatingForClaim(c)
    /\ \A c, m : SetFeishuMessageIDForClaim(c, m) => Repository!SetFeishuMessageIDForClaim(c, m)
    /\ \A i, m : SetFeishuMessageID(i, m) => Repository!SetFeishuMessageID(i, m)
    /\ \A c : CompleteJobAndIncident(c) => Repository!CompleteJobAndIncident(c)
    /\ \A c, j, at : CompleteJobAndScheduleAuditRetry(c, j, at) =>
                         Repository!CompleteJobAndScheduleAuditRetry(c, j, at)
    /\ \A c, at : RetryOrFailJob(c, at) => Repository!RetryOrFailJob(c, at)
<1> USE DEF ActiveStates, OpenStatuses, NoCard, NoWorker, AbsentIncident, AbsentJob,
            Repository!ActiveStates, Repository!OpenStatuses, Repository!NoCard,
            Repository!NoWorker, Repository!AbsentIncident, Repository!AbsentJob
<1>1. \A o : Active(o) <=> Repository!Active(o)
  BY DEF Active, Repository!Active
<1>2. \A i, k, at : InsertIncident(i, k, at) => Repository!InsertIncident(i, k, at)
  BY <1>1 DEF InsertIncident, KeyIsActive, Repository!InsertIncident, Repository!KeyIsActive
<1>3. \A o, at : NewJob(o, at) = Repository!NewJob(o, at)
  BY DEF NewJob, Repository!NewJob
<1>4. \A j, i, at : Enqueue(j, i, at) => Repository!Enqueue(j, i, at)
  BY <1>3 DEF Enqueue, Repository!Enqueue
<1>5. \A job, status : Released(job, status) = Repository!Released(job, status)
  BY DEF Released, Repository!Released
<1>6. \A table, o, keep : CancelOpenJobs(table, o, keep) = Repository!CancelOpenJobs(table, o, keep)
  BY <1>5 DEF CancelOpenJobs, Repository!CancelOpenJobs
<1>7. \A o, state : SetState(o, state) <=> Repository!SetState(o, state)
  BY DEF SetState, Repository!SetState
<1>8. \A k, at, i : Recover(k, at, i) => Repository!Recover(k, at, i)
  <2>1. \A k, at, i : IsRecoverTarget(i, k, at) <=> Repository!IsRecoverTarget(i, k, at)
    BY DEF IsRecoverTarget, NotNewer, Repository!IsRecoverTarget, Repository!NotNewer
  <2> QED BY <1>6, <1>7, <2>1 DEF Recover, Repository!Recover
<1>9. \A w, at, j : ClaimNext(w, at, j) => Repository!ClaimNext(w, at, j)
  <2>1. \A o, at : Claimable(o, at) <=> Repository!Claimable(o, at)
    BY <1>1 DEF Claimable, Repository!Claimable
  <2> QED BY <2>1 DEF ClaimNext, IsNextJob, Repository!ClaimNext, Repository!IsNextJob
<1>10. \A w, at, j : ClaimFor(w, at, j) = Repository!ClaimFor(w, at, j)
  BY DEF ClaimFor, Repository!ClaimFor
<1>11. /\ \A c : HoldsClaim(c) <=> Repository!HoldsClaim(c)
       /\ \A c : CheckActiveClaim(c) <=> Repository!CheckActiveClaim(c)
  BY <1>1 DEF HoldsClaim, CheckActiveClaim, Repository!HoldsClaim, Repository!CheckActiveClaim
<1>12. \A c : MarkInvestigatingForClaim(c) => Repository!MarkInvestigatingForClaim(c)
  BY <1>7, <1>11 DEF MarkInvestigatingForClaim, CanMarkInvestigating,
                     Repository!MarkInvestigatingForClaim, Repository!CanMarkInvestigating
<1>13. \A c, m : SetFeishuMessageIDForClaim(c, m) => Repository!SetFeishuMessageIDForClaim(c, m)
  BY <1>11 DEF SetFeishuMessageIDForClaim, CanSetCardForClaim,
               Repository!SetFeishuMessageIDForClaim, Repository!CanSetCardForClaim
<1>14. \A i, m : SetFeishuMessageID(i, m) => Repository!SetFeishuMessageID(i, m)
  BY DEF SetFeishuMessageID, Repository!SetFeishuMessageID
<1>15. \A c : CompleteJobAndIncident(c) => Repository!CompleteJobAndIncident(c)
  BY <1>5, <1>6, <1>7, <1>11
  DEF CompleteJobAndIncident, AddSnapshot, Repository!CompleteJobAndIncident, Repository!AddSnapshot
<1>16. \A c, j, at : CompleteJobAndScheduleAuditRetry(c, j, at) =>
          Repository!CompleteJobAndScheduleAuditRetry(c, j, at)
  BY <1>3, <1>5, <1>7, <1>11
  DEF CompleteJobAndScheduleAuditRetry, Repository!CompleteJobAndScheduleAuditRetry
<1>17. \A c, at : RetryJob(c, at) => Repository!RetryJob(c, at)
  BY <1>5, <1>11 DEF RetryJob, RetryDelay, Repository!RetryJob, Repository!RetryDelay
<1>18. \A c : FailJob(c) => Repository!FailJob(c)
  BY <1>5, <1>6, <1>7, <1>11 DEF FailJob, Repository!FailJob
<1>19. \A c, at : RetryOrFailJob(c, at) => Repository!RetryOrFailJob(c, at)
  BY <1>17, <1>18 DEF RetryOrFailJob, Repository!RetryOrFailJob
<1> QED
  BY <1>2, <1>4, <1>8, <1>9, <1>10, <1>12, <1>13, <1>14, <1>15, <1>16, <1>19

\* A worker that has a claim had it before, or a claim was made for it.
LEMMA ClaimsGrow ==
    ASSUME ClaimsAtWork \subseteq claims, claims' = claims \cup ClaimsAtWork',
           \A w \in Workers : ClaimStays(w)
    PROVE  claims' = claims
<1> SUFFICES ASSUME NEW w \in Workers, Working(w)'
             PROVE  worker'[w].claim \in claims
  BY DEF ClaimsAtWork, ClaimOf
<1>1. Working(w) /\ worker'[w].claim = ClaimOf(w)
  BY DEF ClaimStays, Working
<1> QED BY <1>1 DEF ClaimsAtWork

LEMMA ClaimsOfStart ==
    ASSUME NEW w \in Workers, NEW j \in JobIds, Starts(w, j),
           ClaimsAtWork \subseteq claims, claims' = claims \cup ClaimsAtWork'
    PROVE  claims' = claims \cup {ClaimFor(Host[w], now, j)}
<1>1. worker'[w].claim = ClaimFor(Host[w], now, j) /\ Working(w)'
  BY DEF Starts, Working, Idle
<1>2. \A v \in Workers \ {w} : worker'[v] = worker[v]
  BY DEF Starts
<1>3. ClaimFor(Host[w], now, j) \in ClaimsAtWork'
  BY <1>1 DEF ClaimsAtWork, ClaimOf
<1>4. ASSUME NEW v \in Workers, Working(v)', v # w
      PROVE  worker'[v].claim \in claims
  BY <1>2, <1>4 DEF ClaimsAtWork, ClaimOf, Working
<1>5. ClaimsAtWork' \subseteq claims \cup {ClaimFor(Host[w], now, j)}
  BY <1>1, <1>4 DEF ClaimsAtWork, ClaimOf
<1> QED BY <1>3, <1>5

\* A claim is made at the time it is made.
LEMMA StartIsTake ==
    ASSUME NEW w \in Workers, StartsAJob(w), UNCHANGED now,
           ClaimsAtWork \subseteq claims, claims' = claims \cup ClaimsAtWork'
    PROVE  Repository!Next
<1>1. PICK j \in JobIds : ClaimNext(Host[w], now, j) /\ Starts(w, j)
  BY DEF StartsAJob
<1>2. claims' = claims \cup {ClaimFor(Host[w], now, j)}
  BY <1>1, ClaimsOfStart
<1>3. Repository!Take(Host[w], now, j)
  BY <1>1, <1>2, SameOperations DEF Repository!Take
<1>4. Host[w] \in WorkerIds /\ now \in 0..now
  BY DEF StartsAJob
<1> QED BY <1>3, <1>4 DEF Repository!Next

\* What the handlers of requests ask of the repository.
LEMMA RequestCalls ==
    ASSUME LocalInv, JobInv, GatewayNext, UNCHANGED claims
    PROVE  Repository!Next \/ UNCHANGED Repository!vars
<1>1. UNCHANGED now
  BY DEF GatewayNext, RequestStep, RefuseCallback, InsertOccurred, LookUpActive, EnqueueOccurred,
         RecoverOccurred, NotifyRecovered, Redeliver, GatewayCrash, environmentVars
<1>2. CASE UNCHANGED storeVars
  BY <1>1, <1>2 DEF storeVars, Repository!vars
<1>3. ASSUME Repository!Ingress
      PROVE  Repository!Next
  BY <1>1, <1>3 DEF Repository!Next
<1>4. ASSUME NEW d \in Deliveries, InsertOccurred(d), ~UNCHANGED storeVars
      PROVE  Repository!Ingress
  <2>1. PICK i \in IncidentIds : InsertIncident(i, Event[d].key, Event[d].at)
    BY <1>4 DEF InsertOccurred
  <2>2. Event[d].key \in Keys /\ Event[d].at \in AlertTimes
    BY <1>4, EventType DEF InsertOccurred, AlertTimes
  <2> QED BY <2>1, <2>2, SameOperations DEF Repository!Ingress
<1>5. ASSUME NEW d \in Deliveries, EnqueueOccurred(d), ~UNCHANGED storeVars
      PROVE  Repository!Ingress
  <2>1. PICK j \in JobIds : Enqueue(j, request[d].incident, Event[d].at)
    BY <1>5 DEF EnqueueOccurred
  <2>2. request[d].incident \in IncidentIds
    BY <1>5, RequestFields DEF EnqueueOccurred, At, LocalInv, TypeOK
  <2>3. Repository!Exists(request[d].incident)
    BY <1>5 DEF EnqueueOccurred, JobInv, Repository!Exists, AbsentIncident, Repository!AbsentIncident
  <2>4. Event[d].at \in AlertTimes
    BY DEF AlertTimes
  <2> QED BY <2>1, <2>2, <2>3, <2>4, SameOperations DEF Repository!Ingress
<1>6. ASSUME NEW d \in Deliveries, RecoverOccurred(d), ~UNCHANGED storeVars
      PROVE  Repository!Ingress
  <2>1. PICK i \in IncidentIds : Recover(Event[d].key, Event[d].at, i)
    BY <1>6 DEF RecoverOccurred
  <2>2. Event[d].key \in Keys /\ Event[d].at \in AlertTimes
    BY <1>6, EventType DEF RecoverOccurred, AlertTimes
  <2> QED BY <2>1, <2>2, SameOperations DEF Repository!Ingress
<1>7. ASSUME NEW d \in Deliveries,
             RefuseCallback(d) \/ LookUpActive(d) \/ NotifyRecovered(d) \/ Redeliver(d)
      PROVE  UNCHANGED storeVars
  BY <1>7 DEF RefuseCallback, LookUpActive, NotifyRecovered, Redeliver
<1>8. GatewayCrash => UNCHANGED storeVars
  BY DEF GatewayCrash
<1> QED BY <1>2, <1>3, <1>4, <1>5, <1>6, <1>7, <1>8 DEF GatewayNext, RequestStep

\* A worker calls the repository with a claim it has, and for its incident.
LEMMA UsesItsClaim ==
    ASSUME LocalInv, NEW w \in Workers, Working(w), ClaimsAtWork \subseteq claims,
           UNCHANGED <<now, claims>>
    PROVE  /\ Repository!UseClaim(ClaimOf(w)) => Repository!Next
           /\ Repository!UseIncident(IncidentOf(w)) => Repository!Next
           /\ Repository!Exists(IncidentOf(w))
<1>1. worker[w] \in Busy
  BY DEF LocalInv, TypeOK, WorkerTypeOK, Working
<1>2. ClaimOf(w) \in claims
  BY DEF ClaimsAtWork
<1>3. IncidentOf(w) \in IncidentIds /\ incidents[IncidentOf(w)] # AbsentIncident
  BY <1>1, WorkerFacts
<1>4. Repository!Exists(IncidentOf(w))
  BY <1>3 DEF Repository!Exists, AbsentIncident, Repository!AbsentIncident
<1>5. Repository!UseClaim(ClaimOf(w)) => Repository!Next
  BY <1>2 DEF Repository!Next
<1>6. Repository!UseIncident(IncidentOf(w)) => Repository!Next
  BY <1>3 DEF Repository!Next
<1> QED BY <1>4, <1>5, <1>6

\* What a worker asks of the repository.
LEMMA WorkerCalls ==
    ASSUME LocalInv, ClaimInv, NEW w \in Workers, RunOneStep(w) \/ WorkerCrash(w), ~ClaimJob(w),
           ClaimsAtWork \subseteq claims, UNCHANGED claims
    PROVE  Repository!Next \/ UNCHANGED Repository!vars
<1>1. UNCHANGED now
  BY DEF RunOneStep, WorkerCrash, ReadIncident, CheckBeforeCreate, CreateCard, SaveCard,
         RereadIncident, SettleLostCard, AdoptLostCard, AnnounceRecovery, MarkInvestigating,
         ShowInvestigating, GatherEvidence, RunModel, ShowOutcome, CommitOutcome, ShowFailure,
         RetryOrFail, UpdateCard
<1>2. CASE UNCHANGED storeVars
  BY <1>1, <1>2 DEF storeVars, Repository!vars
<1>3. ASSUME Working(w)
      PROVE  /\ worker[w] \in Busy
             /\ Repository!UseClaim(ClaimOf(w)) => Repository!Next
             /\ Repository!UseIncident(IncidentOf(w)) => Repository!Next
             /\ Repository!Exists(IncidentOf(w))
  BY <1>1, <1>3, UsesItsClaim DEF LocalInv, TypeOK, WorkerTypeOK, Working
<1>4. ASSUME In(w, "save") \/ In(w, "adopt") \/ In(w, "mark") \/ In(w, "commit") \/ In(w, "retry")
      PROVE  Working(w)
  BY <1>4 DEF In, Working, Idle
<1>5. CASE SaveCard(w) /\ ~UNCHANGED storeVars
  <2>1. SetFeishuMessageIDForClaim(ClaimOf(w), worker[w].card)
    BY <1>5 DEF SaveCard, ClaimOf
  <2>2. In(w, "save") /\ Working(w) /\ worker[w] \in Busy
    BY <1>3, <1>4, <1>5 DEF SaveCard
  <2>3. worker[w].card \in MessageIds
    BY <2>2, WorkerFacts DEF In, StepsWithCard, Steps
  <2>4. Repository!UseClaim(ClaimOf(w))
    BY <2>1, <2>3, SameOperations DEF Repository!UseClaim
  <2> QED BY <1>3, <2>2, <2>4
<1>6. CASE AdoptLostCard(w) /\ ~UNCHANGED storeVars
  <2>1. SetFeishuMessageID(IncidentOf(w), worker[w].card)
    BY <1>6 DEF AdoptLostCard, IncidentOf
  <2>2. In(w, "adopt") /\ Working(w) /\ worker[w] \in Busy
    BY <1>3, <1>4, <1>6 DEF AdoptLostCard
  <2>3. worker[w].card \in MessageIds
    BY <2>2, WorkerFacts DEF In, StepsWithCard, Steps
  <2>4. Repository!UseIncident(IncidentOf(w))
    BY <1>3, <2>1, <2>2, <2>3, SameOperations DEF Repository!UseIncident
  <2> QED BY <1>3, <2>2, <2>4
<1>7. CASE MarkInvestigating(w) /\ ~UNCHANGED storeVars
  <2>1. MarkInvestigatingForClaim(ClaimOf(w)) /\ Working(w)
    BY <1>4, <1>7 DEF MarkInvestigating, ClaimOf
  <2>2. Repository!UseClaim(ClaimOf(w))
    BY <2>1, SameOperations DEF Repository!UseClaim
  <2> QED BY <1>3, <2>1, <2>2
<1>8. CASE CommitOutcome(w) /\ ~UNCHANGED storeVars
  <2>1. Working(w) /\ worker[w] \in Busy
    BY <1>3, <1>4, <1>8 DEF CommitOutcome
  <2>2. worker[w].at \in 0..now
    <3>1. worker[w].at \in Nat /\ now \in Nat /\ worker[w].at <= now
      BY <2>1, WorkerFacts, NowType DEF ClaimInv, LocalInv, TypeOK
    <3> QED BY <3>1
  <2>3. worker[w].at + AuditDelay \in Repository!AuditTimes
    BY <2>2 DEF Repository!AuditTimes
  <2>4. CASE CompleteJobAndIncident(ClaimOf(w))
    <3>1. Repository!UseClaim(ClaimOf(w))
      BY <2>4, SameOperations DEF Repository!UseClaim
    <3> QED BY <1>3, <2>1, <3>1
  <2>5. ASSUME NEW j \in JobIds,
               CompleteJobAndScheduleAuditRetry(ClaimOf(w), j, worker[w].at + AuditDelay)
        PROVE  Repository!Next
    <3>1. Repository!UseClaim(ClaimOf(w))
      BY <2>3, <2>5, SameOperations DEF Repository!UseClaim
    <3> QED BY <1>3, <2>1, <3>1
  <2> QED BY <1>8, <2>4, <2>5 DEF CommitOutcome, ClaimOf
<1>9. CASE RetryOrFail(w) /\ ~UNCHANGED storeVars
  <2>1. RetryOrFailJob(ClaimOf(w), now) /\ Working(w)
    BY <1>4, <1>9 DEF RetryOrFail, ClaimOf
  <2>2. worker[w].at \in Nat /\ now \in Nat /\ worker[w].at <= now
        /\ ClaimOf(w).leaseUntil = worker[w].at + Lease
    BY <1>3, <2>1, WorkerFacts, NowType DEF ClaimInv, LocalInv, TypeOK
  <2>3. now \in Repository!RetryTimes(ClaimOf(w))
    BY <2>2, StoreAssumption DEF Repository!RetryTimes
  <2>4. Repository!UseClaim(ClaimOf(w))
    BY <2>1, <2>3, SameOperations DEF Repository!UseClaim
  <2> QED BY <1>3, <2>1, <2>4
<1>10. ASSUME \/ ReadIncident(w) \/ CheckBeforeCreate(w) \/ CreateCard(w) \/ RereadIncident(w)
              \/ SettleLostCard(w) \/ AnnounceRecovery(w) \/ ShowInvestigating(w)
              \/ GatherEvidence(w) \/ RunModel(w) \/ ShowOutcome(w) \/ ShowFailure(w)
              \/ WorkerCrash(w)
       PROVE  UNCHANGED storeVars
  BY <1>10
  DEF ReadIncident, CheckBeforeCreate, CreateCard, RereadIncident, SettleLostCard,
      AnnounceRecovery, ShowInvestigating, GatherEvidence, RunModel, ShowOutcome, ShowFailure,
      WorkerCrash, UpdateCard
<1> QED
  BY <1>2, <1>5, <1>6, <1>7, <1>8, <1>9, <1>10 DEF RunOneStep

LEMMA HistoryInvInit == WatchedInit => HistoryInv
<1>1. Init => ClaimsAtWork = {}
  BY DEF Init, WorkerInit, ClaimsAtWork, Working
<1> QED BY <1>1, LocalInvInit, JobInvInit, ClaimInvInit DEF WatchedInit, HistoryInv

LEMMA HistoryInvNext == HistoryInv /\ [WatchedNext]_<<vars, claims>> => HistoryInv'
<1> SUFFICES ASSUME HistoryInv, [WatchedNext]_<<vars, claims>>
             PROVE  HistoryInv'
  OBVIOUS
<1>1. [Next]_vars
  BY DEF WatchedNext
<1>2. LocalInv' /\ JobInv' /\ ClaimInv'
  BY <1>1, LocalInvNext, JobInvNext, ClaimInvNext DEF HistoryInv
<1>3. ClaimsAtWork' \subseteq claims'
  <2>1. CASE WatchedNext
    BY <2>1 DEF WatchedNext
  <2>2. CASE UNCHANGED <<vars, claims>>
    BY <2>2 DEF vars, HistoryInv, ClaimsAtWork, ClaimOf, Working
  <2> QED BY <2>1, <2>2
<1> QED BY <1>2, <1>3 DEF HistoryInv

\* Every step is a call, a tick, or nothing to the repository.
LEMMA StepIsACall ==
    ASSUME HistoryInv, [WatchedNext]_<<vars, claims>>
    PROVE  Repository!Next \/ UNCHANGED Repository!vars
<1>1. LocalInv /\ JobInv /\ ClaimInv /\ ClaimsAtWork \subseteq claims /\ [Next]_vars
  BY DEF HistoryInv, WatchedNext
<1>2. CASE UNCHANGED <<vars, claims>>
  BY <1>2 DEF vars, storeVars, environmentVars, Repository!vars
<1>3. CASE WatchedNext
  <2>1. Next /\ claims' = claims \cup ClaimsAtWork'
    BY <1>3 DEF WatchedNext
  <2>2. ASSUME NEW w \in Workers, StartsAJob(w), UNCHANGED now
        PROVE  Repository!Next
    BY <1>1, <2>1, <2>2, StartIsTake
  <2>3. CASE UNCHANGED claims
    <3>1. CASE Tick
      BY <2>3, <3>1 DEF Tick, storeVars, Repository!Tick, Repository!Next
    <3>2. CASE GatewayNext
      BY <1>1, <2>3, <3>2, RequestCalls
    <3>3. ASSUME NEW w \in Workers, ClaimJob(w)
          PROVE  Repository!Next
      BY <1>1, <2>2, <3>3, ClaimJobEffect DEF LocalInv, TypeOK, StartsAJob
    <3>4. ASSUME NEW w \in Workers, RunOneStep(w) \/ WorkerCrash(w), ~ClaimJob(w)
          PROVE  Repository!Next \/ UNCHANGED Repository!vars
      BY <1>1, <2>3, <3>4, WorkerCalls
    <3> QED BY <2>1, <3>1, <3>2, <3>3, <3>4 DEF Next, WorkerNext
  <2>4. CASE \A w \in Workers : ClaimStays(w)
    BY <1>1, <2>1, <2>3, <2>4, ClaimsGrow
  <2> QED BY <1>1, <2>2, <2>4, StepKinds, ClaimsOfKinds
<1> QED BY <1>2, <1>3

\* The system is one of the callers the repository was checked with: whatever
\* holds of the repository under all of them holds of the gateway and the workers.
THEOREM RepositoryIsUsedAsSpecified == WatchedSpec => Repository!Spec
<1>1. WatchedInit => Repository!Init
  <2>1. Init => now = 0 /\ StoreInit
    BY DEF Init, EnvironmentInit
  <2>2. StoreInit => Repository!StoreInit
    BY DEF StoreInit, Repository!StoreInit, AbsentIncident, AbsentJob,
           Repository!AbsentIncident, Repository!AbsentJob
  <2> QED BY <2>1, <2>2 DEF WatchedInit, Repository!Init
<1>2. HistoryInv /\ [WatchedNext]_<<vars, claims>> => [Repository!Next]_(Repository!vars)
  BY StepIsACall
<1> QED
  BY <1>1, <1>2, HistoryInvInit, HistoryInvNext, PTL DEF WatchedSpec, Repository!Spec

-----------------------------------------------------------------------------
(* What the repository promises its callers, of the system that calls it.  *)

LEMMA RepositoryAssumptions ==
    /\ AlertTimes \subseteq Nat
    /\ AuditDelay \in Nat
    /\ MaxTime \in Nat
<1>1. AlertTimes \subseteq Nat
  BY EventType DEF AlertTimes
<1> QED BY <1>1, WorkerAssumption, EnvironmentAssumption

\* No handler and no worker, however late, moves an incident that is COMPLETED or
\* FAILED anywhere but to RECOVERED, or one that is RECOVERED at all.
THEOREM SystemKeepsIncidentsClosed == WatchedSpec => Repository!ClosedStaysClosed
  BY RepositoryIsUsedAsSpecified, StoreAssumption, RepositoryAssumptions, Repository!ClosedIncidentsStayClosed

\* A job that is COMPLETED, CANCELLED or FAILED keeps its row while alerts,
\* recoveries, crashes and late workers go on.
THEOREM SystemKeepsJobsClosed == WatchedSpec => Repository!ClosedJobStaysClosed
  BY RepositoryIsUsedAsSpecified, StoreAssumption, RepositoryAssumptions, Repository!ClosedJobsStayClosed

\* A worker takes a running job from another only after its lease, and the lease
\* it then has ends later.
THEOREM SystemRespectsLeases == WatchedSpec => Repository!LeaseIsExclusive
  BY RepositoryIsUsedAsSpecified, StoreAssumption, RepositoryAssumptions, Repository!LeasesAreExclusive

\* Of all the workers that investigate an incident, one stores a result, in the
\* step that completes it.
THEOREM SystemStoresOneResult == WatchedSpec => []Repository!OneSnapshotPerCompletion
  BY RepositoryIsUsedAsSpecified, StoreAssumption, RepositoryAssumptions, Repository!SnapshotsMatchCompletions

\* An incident that is closed, by a recovery or a worker, has no running job.
THEOREM SystemEndsWorkWithIncidents == WatchedSpec => []Repository!ClosedIncidentHasNoRunningJob
  BY RepositoryIsUsedAsSpecified, StoreAssumption, RepositoryAssumptions, Repository!NoWorkOnClosedIncidents

\* Of every claim any worker ever had, those of workers that crashed included,
\* the fence accepts at most the newest of each job.
THEOREM SystemFencesStaleClaims == WatchedSpec => []Repository!FenceRejectsStaleClaims
  BY RepositoryIsUsedAsSpecified, StoreAssumption, RepositoryAssumptions, Repository!FenceIsSound

=============================================================================
