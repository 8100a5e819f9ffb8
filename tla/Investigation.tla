---------------------------- MODULE Investigation ----------------------------
(***************************************************************************)
(* What RunOne does between marking an incident and showing the result:    *)
(* ask the evidence service for four classes of evidence, store what it    *)
(* answers, run the model on it, validate what the model says, and         *)
(* conclude.  Attempts of several workers run at the same time and share   *)
(* the table evidence_records; the worker's claim is modelled in Worker.   *)
(*                                                                         *)
(* An evidence is its id, a digest of the binding and of the raw answer    *)
(* (newEvidence).  The time it was observed and its summary are no part of *)
(* the digest: a row that is replaced by one of the same id may differ in  *)
(* the time, which no property here looks at.                              *)
(***************************************************************************)
EXTENDS Integers, Sequences, FiniteSets

CONSTANTS Attempts,    \* one execution of RunOne each
          Incidents,
          Bindings,    \* bindings of the registry, in the order they are asked:
                       \*   by class, within a class by id
          Selectors,   \* the fields each binding's selector_mapping needs
          Known,       \* the fields the binding of each incident has
          EvidenceIds,
          AuditBindings, \* bindings of the template security_group_change
          Evidence     \* the evidence that the cloud's answers to each binding
                       \*   can become

NoIncident == "none"
EmptyId == ""

ASSUME InvestigationAssumption ==
    /\ Bindings \in Seq(DOMAIN Selectors)
    /\ DOMAIN Known \subseteq Incidents
    /\ Evidence \in [DOMAIN Selectors -> SUBSET EvidenceIds]
    /\ NoIncident \notin Incidents /\ EmptyId \notin EvidenceIds

VARIABLES records, \* evidence_records: the incident_id of each id
          attempt

vars == <<records, attempt>>

\* What the model printed, by what the validation tells apart.  fits: the
\* document ends within the limit of the output buffer; cites: evidence_ids.
Documents == [succeeds : BOOLEAN, fits : BOOLEAN, chinese : BOOLEAN, confidence : {-1, 0, 1, 2},
              cites : SUBSET (EvidenceIds \cup {EmptyId}), pendingAudit : BOOLEAN]

Steps == {"collect", "store", "run", "conclude", "completed", "awaiting"}

\* What the binding at one place of Bindings has answered: no items are an answer.
Answers == [binding : 1..Len(Bindings), items : SUBSET EvidenceIds]

\* answers is the history of shown, binding by binding; the code keeps the items.
Running == [pc : Steps, incident : Incidents, next : Nat, shown : SUBSET EvidenceIds,
            answers : SUBSET Answers, cites : SUBSET EvidenceIds, pendingAudit : BOOLEAN]

TypeOK ==
    /\ records \in [EvidenceIds -> Incidents \cup {NoIncident}]
    /\ attempt \in [Attempts -> [pc : {"idle", "ended"}] \cup Running]
    /\ \A a \in Attempts :
          attempt[a].pc \in Steps => attempt[a].next \in 1..(Len(Bindings) + 1)

Init ==
    /\ records = [id \in EvidenceIds |-> NoIncident]
    /\ attempt = [a \in Attempts |-> [pc |-> "idle"]]

At(a, pc) == attempt[a].pc = pc
Moves(a, pc) == attempt' = [attempt EXCEPT ![a].pc = pc]
Fails(a) == attempt' = [attempt EXCEPT ![a] = [pc |-> "ended"]]

-----------------------------------------------------------------------------

Begin(a) ==
    /\ At(a, "idle")
    /\ \E i \in Incidents :
          attempt' = [attempt EXCEPT ![a] =
              [pc |-> "collect", incident |-> i, next |-> 1, shown |-> {},
               answers |-> {}, cites |-> {}, pendingAudit |-> FALSE]]
    /\ UNCHANGED records

\* resolve, for one binding: a binding whose selectors are missing, or whose
\* provider fails, fails the whole attempt.
Resolvable(i, b) == i \in DOMAIN Known /\ Selectors[b] \subseteq Known[i]

\* An answer of the cloud is one evidence, whatever it says, but for the audit
\* log: there each event is one, and there may be none (yet).
ResolveChanges(b) == SUBSET Evidence[b]
Resolve(b) ==
    IF b \in AuditBindings THEN ResolveChanges(b) ELSE {{e} : e \in Evidence[b]}

Appends(a, items) ==
    attempt' = [attempt EXCEPT ![a].next = @ + 1, ![a].shown = @ \cup items,
                               ![a].answers = @ \cup {[binding |-> attempt[a].next,
                                                      items |-> items]}]

QuerySkippingFailedAudits(a) ==
    /\ At(a, "collect") /\ attempt[a].next <= Len(Bindings)
    /\ LET b == Bindings[attempt[a].next] IN
       \/ Resolvable(attempt[a].incident, b) /\ \E items \in Resolve(b) : Appends(a, items)
       \/ b \in AuditBindings /\ attempt' = [attempt EXCEPT ![a].next = @ + 1]
       \/ Fails(a)
    /\ UNCHANGED records

Query(a) ==
    /\ At(a, "collect") /\ attempt[a].next <= Len(Bindings)
    /\ LET b == Bindings[attempt[a].next] IN
       \/ Resolvable(attempt[a].incident, b) /\ \E items \in Resolve(b) : Appends(a, items)
       \/ Fails(a)
    /\ UNCHANGED records

Collected(a) ==
    /\ At(a, "collect") /\ attempt[a].next > Len(Bindings)
    /\ Moves(a, "store")
    /\ UNCHANGED records

\* StoreEvidence: one transaction of INSERT OR REPLACE.
Filed(a) == [id \in EvidenceIds |->
                IF id \in attempt[a].shown THEN attempt[a].incident ELSE records[id]]

StoreEvidenceIgnoringErrors(a) ==
    /\ At(a, "store")
    /\ records' \in {records, Filed(a)}
    /\ Moves(a, "run")

StoreEvidence(a) ==
    /\ At(a, "store")
    /\ \/ records' = Filed(a) /\ Moves(a, "run")
       \/ records' = records /\ Fails(a)

ValidateResultOfUnknownEvidence(doc, known) ==
    /\ doc.chinese
    /\ doc.confidence >= 0 /\ doc.confidence <= 1
    /\ doc.cites # {} /\ EmptyId \notin doc.cites

ValidateResultOfAnyId(doc, known) ==
    /\ doc.chinese
    /\ doc.confidence >= 0 /\ doc.confidence <= 1
    /\ doc.cites # {}

ValidateResult(doc, known) ==
    /\ doc.chinese
    /\ doc.confidence >= 0 /\ doc.confidence <= 1
    /\ doc.cites # {} /\ EmptyId \notin doc.cites
    /\ doc.cites \subseteq known

\* Run and the validation.  The model is told which ids it may cite; it may
\* print anything, and only the first bytes of that are kept and decoded.
RunModel(a) ==
    /\ At(a, "run")
    /\ \E doc \in Documents :
          IF doc.succeeds /\ doc.fits /\ ValidateResult(doc, attempt[a].shown)
          THEN attempt' = [attempt EXCEPT ![a].pc = "conclude", ![a].cites = doc.cites,
                                          ![a].pendingAudit = doc.pendingAudit]
          ELSE Fails(a)
    /\ UNCHANGED records

Conclude(a) ==
    /\ At(a, "conclude")
    /\ Moves(a, IF attempt[a].pendingAudit THEN "awaiting" ELSE "completed")
    /\ UNCHANGED records

\* The process dies, the claim is lost, or a card update or a transaction fails.
Abandon(a) ==
    /\ attempt[a].pc \in {"collect", "store", "run", "conclude"}
    /\ Fails(a)
    /\ UNCHANGED records

Next ==
    \E a \in Attempts :
        \/ Begin(a)
        \/ Query(a)
        \/ Collected(a)
        \/ StoreEvidence(a)
        \/ RunModel(a)
        \/ Conclude(a)
        \/ Abandon(a)

Spec == Init /\ [][Next]_vars

-----------------------------------------------------------------------------
\* Properties.

\* OpenEvidence ("evidence open").
Opens(id) == id \in EvidenceIds /\ records[id] # NoIncident

Concluded(a) == attempt[a].pc \in {"completed", "awaiting"}

\* A result that is recorded cites at least one evidence and nothing but what
\* the model was shown in this very attempt: not evidence of an earlier attempt
\* or of another incident that is stored as well, and nothing made up.
ConclusionCitesWhatWasShown ==
    \A a \in Attempts :
        Concluded(a) => attempt[a].cites # {} /\ attempt[a].cites \subseteq attempt[a].shown

\* Every citation of a recorded result can be opened ("evidence open"), although
\* evidence is stored outside the transaction that records the result, before
\* the model runs, and other attempts replace rows of the same id.
CitedEvidenceOpens ==
    \A a \in Attempts :
        Concluded(a) => \A id \in attempt[a].cites : Opens(id)

\* No result rests on part of the evidence: whatever provider failed, in
\* whatever order, each binding of the registry has answered this attempt, and
\* the model was shown all that was answered and nothing else.  An audit log
\* that answered without an event counts, one that failed does not.
ConclusionSawEveryBinding ==
    \A a \in Attempts :
        Concluded(a) =>
            /\ \A n \in 1..Len(Bindings) :
                  \E answer \in attempt[a].answers :
                      answer.binding = n /\ answer.items \in Resolve(Bindings[n])
            /\ attempt[a].shown = UNION {answer.items : answer \in attempt[a].answers}

=============================================================================
