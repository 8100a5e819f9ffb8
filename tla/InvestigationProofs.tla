------------------------ MODULE InvestigationProofs ------------------------
(* Proofs about Investigation, for all bindings, incidents and attempts.     *)
EXTENDS Investigation, TLAPS

\* What each attempt has established at its step.
Stored(a) == \A id \in attempt[a].shown : records[id] # NoIncident
Answered(a) ==
    \A n \in 1..(attempt[a].next - 1) :
        \E answer \in attempt[a].answers :
            answer.binding = n /\ answer.items \in Resolve(Bindings[n])
ShowsAnswers(a) ==
    attempt[a].shown = UNION {answer.items : answer \in attempt[a].answers}
AskedAll(a) == attempt[a].next = Len(Bindings) + 1
Cited(a) == attempt[a].cites # {} /\ attempt[a].cites \subseteq attempt[a].shown

Progress(a) ==
    /\ attempt[a].pc \in Steps => Answered(a) /\ ShowsAnswers(a)
    /\ attempt[a].pc \in Steps \ {"collect"} => AskedAll(a)
    /\ attempt[a].pc \in Steps \ {"collect", "store"} => Stored(a)
    /\ attempt[a].pc \in {"conclude", "completed", "awaiting"} => Cited(a)

IInv == TypeOK /\ \A a \in Attempts : Progress(a)

LEMMA BindingsAnswered ==
    ASSUME NEW n \in 1..Len(Bindings)
    PROVE  /\ Bindings[n] \in DOMAIN Selectors
           /\ Resolve(Bindings[n]) \in SUBSET SUBSET EvidenceIds
<1>1. Bindings[n] \in DOMAIN Selectors
  BY InvestigationAssumption DEF InvestigationAssumption
<1>2. Evidence[Bindings[n]] \subseteq EvidenceIds
  BY <1>1, InvestigationAssumption DEF InvestigationAssumption
<1> QED BY <1>1, <1>2 DEF Resolve, ResolveChanges

LEMMA InitIInv == Init => IInv
<1> SUFFICES ASSUME Init PROVE IInv
  OBVIOUS
<1>1. TypeOK
  BY DEF Init, TypeOK, Steps
<1>2. ASSUME NEW a \in Attempts PROVE Progress(a)
  BY DEF Init, Progress, Steps
<1> QED BY <1>1, <1>2 DEF IInv

\* What one attempt does leaves the others where they are, as long as no row
\* of evidence_records disappears.
LEMMA OthersKeep ==
    ASSUME IInv, NEW a \in Attempts, NEW new,
           attempt' = [attempt EXCEPT ![a] = new],
           \A id \in EvidenceIds : records[id] # NoIncident => records'[id] # NoIncident,
           NEW b \in Attempts, b # a
    PROVE  Progress(b)'
<1>1. attempt'[b] = attempt[b]
  BY DEF IInv, TypeOK
<1>2. Progress(b)
  BY DEF IInv
<1>3. attempt[b].pc \in Steps => attempt[b].shown \subseteq EvidenceIds
  BY DEF IInv, TypeOK, Running, Steps
<1> QED BY <1>1, <1>2, <1>3 DEF Progress, Answered, ShowsAnswers, AskedAll, Stored, Cited, Steps

\* An attempt that ends has nothing left to show.
LEMMA FailureKeeps ==
    ASSUME IInv, NEW a \in Attempts, Fails(a), UNCHANGED records
    PROVE  IInv'
<1>1. attempt'[a] = [pc |-> "ended"]
  BY DEF IInv, TypeOK, Fails
<1>2. TypeOK'
  BY <1>1 DEF IInv, TypeOK, Fails, Steps
<1>3. Progress(a)'
  BY <1>1 DEF Progress, Steps
<1>4. ASSUME NEW b \in Attempts, b # a PROVE Progress(b)'
  BY <1>4, OthersKeep DEF Fails
<1> QED BY <1>2, <1>3, <1>4 DEF IInv

LEMMA RunningRecord ==
    ASSUME IInv, NEW a \in Attempts, attempt[a].pc \in Steps
    PROVE  attempt[a] \in Running
BY DEF IInv, TypeOK, Steps

LEMMA NextIInv == IInv /\ [Next]_vars => IInv'
<1> SUFFICES ASSUME IInv, [Next]_vars PROVE IInv'
  OBVIOUS
<1> USE DEF At, Moves
<1>1. ASSUME NEW a \in Attempts, Begin(a) PROVE IInv'
  <2>1. PICK i \in Incidents :
          attempt' = [attempt EXCEPT ![a] =
              [pc |-> "collect", incident |-> i, next |-> 1, shown |-> {},
               answers |-> {}, cites |-> {}, pendingAudit |-> FALSE]]
    BY <1>1 DEF Begin
  <2>2. UNCHANGED records
    BY <1>1 DEF Begin
  <2>3. Len(Bindings) \in Nat
    BY InvestigationAssumption DEF InvestigationAssumption
  <2>4. TypeOK'
    BY <2>1, <2>2, <2>3 DEF IInv, TypeOK, Running, Steps
  <2>5. Progress(a)'
    BY <2>1 DEF IInv, TypeOK, Progress, Answered, ShowsAnswers, Steps
  <2>6. ASSUME NEW b \in Attempts, b # a PROVE Progress(b)'
    BY <2>1, <2>2, <2>6, OthersKeep
  <2> QED BY <2>4, <2>5, <2>6 DEF IInv
<1>2. ASSUME NEW a \in Attempts, Query(a) PROVE IInv'
  <2> DEFINE n == attempt[a].next
  <2>1. UNCHANGED records /\ attempt[a].pc = "collect" /\ n <= Len(Bindings)
    BY <1>2 DEF Query
  <2>2. attempt[a] \in Running /\ n \in 1..Len(Bindings)
    BY <2>1, RunningRecord, InvestigationAssumption
    DEF IInv, TypeOK, Running, Steps, InvestigationAssumption
  <2>3. CASE Fails(a)
    BY <2>1, <2>3, FailureKeeps
  <2>4. CASE \E items \in Resolve(Bindings[n]) : Appends(a, items)
    <3>1. PICK items \in Resolve(Bindings[n]) : Appends(a, items)
      BY <2>4
    <3>2. items \subseteq EvidenceIds
      BY <2>2, BindingsAnswered
    <3> DEFINE answer == [binding |-> n, items |-> items]
               new == [attempt[a] EXCEPT !.next = n + 1, !.shown = attempt[a].shown \cup items,
                                         !.answers = attempt[a].answers \cup {answer}]
    <3>3. attempt' = [attempt EXCEPT ![a] = new] /\ attempt'[a] = new
      BY <3>1, <2>2 DEF Appends, IInv, TypeOK
    <3>n. n \in Nat
      BY <2>2 DEF Running
    <3>s. /\ n + 1 \in Nat
          /\ attempt[a].shown \cup items \in SUBSET EvidenceIds
          /\ attempt[a].answers \cup {answer} \in SUBSET Answers
      <4>1. answer \in Answers
        BY <2>2, <3>2 DEF Answers
      <4> QED BY <2>2, <3>n, <3>2, <4>1 DEF Running
    <3>f. /\ new.pc = "collect" /\ new.next = n + 1 /\ new.shown = attempt[a].shown \cup items
          /\ new.answers = attempt[a].answers \cup {answer}
      BY <2>1, <2>2 DEF Running
    <3>4. new \in Running
      BY <2>2, <3>s DEF Running
    <3>5. TypeOK'
      BY <2>1, <2>2, <3>3, <3>f, <3>4 DEF IInv, TypeOK
    <3>b. Answered(a) /\ ShowsAnswers(a)
      BY <2>1 DEF IInv, Progress, Steps
    <3>6. Answered(a)'
      <4>0. attempt'[a].next - 1 = n /\ attempt'[a].answers = attempt[a].answers \cup {answer}
        <5>1. attempt'[a].next = n + 1 /\ attempt'[a].answers = attempt[a].answers \cup {answer}
          BY <3>3, <3>f
        <5> HIDE DEF n, new, answer
        <5> QED BY <3>n, <5>1
      <4> SUFFICES ASSUME NEW m \in 1..n
                   PROVE \E other \in attempt[a].answers \cup {answer} :
                             other.binding = m /\ other.items \in Resolve(Bindings[m])
        BY <4>0 DEF Answered
      <4>1. CASE m = n
        <5>1. answer.binding = n /\ answer.items \in Resolve(Bindings[n])
          OBVIOUS
        <5> HIDE DEF answer
        <5> QED BY <4>1, <5>1
      <4>2. CASE m < n
        BY <3>b, <3>n, <4>2 DEF Answered
      <4> QED BY <3>n, <4>1, <4>2
    <3>7. ShowsAnswers(a)'
      <4>1. /\ attempt'[a].shown = attempt[a].shown \cup items
            /\ attempt'[a].answers = attempt[a].answers \cup {answer}
        BY <3>3, <3>f
      <4>2. answer.items = items
        OBVIOUS
      <4> HIDE DEF answer, new, n
      <4> QED BY <3>b, <4>1, <4>2 DEF ShowsAnswers
    <3>8. Progress(a)'
      BY <3>3, <3>f, <3>6, <3>7 DEF Progress, Steps
    <3>9. ASSUME NEW b \in Attempts, b # a PROVE Progress(b)'
      BY <2>1, <3>3, <3>9, OthersKeep
    <3> QED BY <3>5, <3>8, <3>9 DEF IInv
  <2> QED BY <1>2, <2>3, <2>4 DEF Query
<1>3. ASSUME NEW a \in Attempts, NEW pc \in Steps, UNCHANGED records,
             attempt[a].pc \in Steps, Moves(a, pc),
             pc \in Steps \ {"collect"} => AskedAll(a),
             pc \in Steps \ {"collect", "store"} => Stored(a),
             pc \in {"conclude", "completed", "awaiting"} => Cited(a)
      PROVE  IInv'
  <2> DEFINE new == [attempt[a] EXCEPT !.pc = pc]
  <2>1. attempt[a] \in Running
    BY <1>3, RunningRecord
  <2>2. attempt' = [attempt EXCEPT ![a] = new] /\ attempt'[a] = new
    BY <1>3 DEF IInv, TypeOK
  <2>3. new \in Running /\ new.pc = pc /\ new.next = attempt[a].next
          /\ new.shown = attempt[a].shown
          /\ new.answers = attempt[a].answers /\ new.cites = attempt[a].cites
    BY <1>3, <2>1 DEF Running
  <2>4. TypeOK'
    BY <1>3, <2>1, <2>2, <2>3 DEF IInv, TypeOK
  <2>5. Progress(a)'
    <3>1. Answered(a) /\ ShowsAnswers(a)
      BY <1>3 DEF IInv, Progress
    <3> QED BY <1>3, <2>2, <2>3, <3>1 DEF Progress, Answered, ShowsAnswers, AskedAll, Stored, Cited
  <2>6. ASSUME NEW b \in Attempts, b # a PROVE Progress(b)'
    BY <1>3, <2>2, <2>6, OthersKeep
  <2> QED BY <2>4, <2>5, <2>6 DEF IInv
<1>4. ASSUME NEW a \in Attempts, Collected(a) PROVE IInv'
  <2>1. AskedAll(a)
    BY <1>4, RunningRecord, InvestigationAssumption
    DEF Collected, IInv, TypeOK, AskedAll, Steps, InvestigationAssumption
  <2> QED BY <1>3, <1>4, <2>1 DEF Collected, Steps
<1>5. ASSUME NEW a \in Attempts, StoreEvidence(a) PROVE IInv'
  <2>1. CASE records' = records /\ Fails(a)
    BY <2>1, FailureKeeps
  <2>2. CASE records' = Filed(a) /\ attempt' = [attempt EXCEPT ![a].pc = "run"]
    <3> DEFINE new == [attempt[a] EXCEPT !.pc = "run"]
    <3>1. attempt[a] \in Running /\ attempt[a].pc = "store"
      BY <1>5, RunningRecord DEF StoreEvidence, Steps
    <3>2. attempt' = [attempt EXCEPT ![a] = new] /\ attempt'[a] = new
      BY <2>2 DEF IInv, TypeOK
    <3>3. new \in Running /\ new.pc = "run" /\ new.next = attempt[a].next
            /\ new.shown = attempt[a].shown
          /\ new.answers = attempt[a].answers /\ new.cites = attempt[a].cites
      BY <3>1 DEF Running, Steps
    <3>4. attempt[a].incident \in Incidents /\ attempt[a].shown \subseteq EvidenceIds
      BY <3>1 DEF Running
    <3>5. \A id \in EvidenceIds :
             records'[id] = IF id \in attempt[a].shown THEN attempt[a].incident ELSE records[id]
      BY <2>2 DEF Filed
    <3>6. records' \in [EvidenceIds -> Incidents \cup {NoIncident}]
      BY <2>2, <3>4 DEF Filed, IInv, TypeOK
    <3>7. TypeOK'
      BY <3>1, <3>2, <3>3, <3>6 DEF IInv, TypeOK, Steps
    <3>8. \A id \in EvidenceIds : records[id] # NoIncident => records'[id] # NoIncident
      BY <3>4, <3>5, InvestigationAssumption DEF InvestigationAssumption
    <3>9. Stored(a)'
      BY <3>2, <3>3, <3>4, <3>5, InvestigationAssumption
      DEF Stored, InvestigationAssumption
    <3>10. Progress(a)'
      BY <3>1, <3>2, <3>3, <3>9 DEF IInv, Progress, Answered, ShowsAnswers, AskedAll, Steps
    <3>11. ASSUME NEW b \in Attempts, b # a PROVE Progress(b)'
      BY <3>2, <3>8, <3>11, OthersKeep
    <3> QED BY <3>7, <3>10, <3>11 DEF IInv
  <2> QED BY <1>5, <2>1, <2>2 DEF StoreEvidence
<1>6. ASSUME NEW a \in Attempts, RunModel(a) PROVE IInv'
  <2>1. UNCHANGED records /\ attempt[a].pc = "run"
    BY <1>6 DEF RunModel
  <2>2. PICK doc \in Documents :
          IF doc.succeeds /\ doc.fits /\ ValidateResult(doc, attempt[a].shown)
          THEN attempt' = [attempt EXCEPT ![a].pc = "conclude", ![a].cites = doc.cites,
                                          ![a].pendingAudit = doc.pendingAudit]
          ELSE Fails(a)
    BY <1>6 DEF RunModel
  <2>3. CASE Fails(a)
    BY <2>1, <2>3, FailureKeeps
  <2>4. CASE /\ ValidateResult(doc, attempt[a].shown)
             /\ attempt' = [attempt EXCEPT ![a].pc = "conclude", ![a].cites = doc.cites,
                                           ![a].pendingAudit = doc.pendingAudit]
    <3> DEFINE new == [attempt[a] EXCEPT !.pc = "conclude", !.cites = doc.cites,
                                         !.pendingAudit = doc.pendingAudit]
    <3>1. attempt[a] \in Running
      BY <2>1, RunningRecord DEF Steps
    <3>2. attempt' = [attempt EXCEPT ![a] = new] /\ attempt'[a] = new
      BY <2>4 DEF IInv, TypeOK
    <3>3. doc.cites # {} /\ doc.cites \subseteq attempt[a].shown
      BY <2>4 DEF ValidateResult
    <3>4. doc.pendingAudit \in BOOLEAN
      BY <2>2 DEF Documents
    <3>5. new \in Running /\ new.pc = "conclude" /\ new.next = attempt[a].next
            /\ new.shown = attempt[a].shown
          /\ new.answers = attempt[a].answers /\ new.cites = doc.cites
      BY <3>1, <3>3, <3>4 DEF Running, Steps
    <3>6. TypeOK'
      BY <2>1, <3>1, <3>2, <3>5 DEF IInv, TypeOK, Steps
    <3>7. Progress(a)'
      BY <2>1, <3>2, <3>3, <3>5
      DEF IInv, Progress, Answered, ShowsAnswers, AskedAll, Stored, Cited, Steps
    <3>8. ASSUME NEW b \in Attempts, b # a PROVE Progress(b)'
      BY <2>1, <3>2, <3>8, OthersKeep
    <3> QED BY <3>6, <3>7, <3>8 DEF IInv
  <2> QED BY <2>2, <2>3, <2>4
<1>7. ASSUME NEW a \in Attempts, Conclude(a) PROVE IInv'
  <2>1. AskedAll(a) /\ Stored(a) /\ Cited(a)
    BY <1>7 DEF Conclude, IInv, Progress, Steps
  <2> QED BY <1>3, <1>7, <2>1 DEF Conclude, Steps
<1>8. ASSUME NEW a \in Attempts, Abandon(a) PROVE IInv'
  BY <1>8, FailureKeeps DEF Abandon
<1>9. CASE UNCHANGED vars
  BY <1>9 DEF vars, IInv, TypeOK, Progress, Answered, ShowsAnswers, AskedAll, Stored, Cited, Steps
<1> QED BY <1>1, <1>2, <1>4, <1>5, <1>6, <1>7, <1>8, <1>9 DEF Next

\* The invariant the results below follow from.
THEOREM InductiveInvariant == Spec => []IInv
<1> QED BY InitIInv, NextIInv, PTL DEF Spec

\* Every attempt and every row of evidence_records is well formed.
THEOREM TypeCorrect == Spec => []TypeOK
<1>1. IInv => TypeOK
  BY DEF IInv
<1> QED BY <1>1, InductiveInvariant, PTL

\* A recorded result cites nothing but what this attempt showed the model.
THEOREM CitationsAreSound == Spec => []ConclusionCitesWhatWasShown
<1>1. IInv => ConclusionCitesWhatWasShown
  BY DEF IInv, Progress, Cited, ConclusionCitesWhatWasShown, Concluded
<1> QED BY <1>1, InductiveInvariant, PTL

\* Every citation of a recorded result can be opened.
THEOREM CitationsOpen == Spec => []CitedEvidenceOpens
<1>1. IInv => CitedEvidenceOpens
  <2> SUFFICES ASSUME IInv, NEW a \in Attempts, Concluded(a), NEW id \in attempt[a].cites
               PROVE  id \in EvidenceIds /\ records[id] # NoIncident
    BY DEF CitedEvidenceOpens, Opens
  <2>1. attempt[a] \in Running
    BY RunningRecord DEF Concluded, Steps
  <2>2. Stored(a) /\ Cited(a)
    BY DEF IInv, Progress, Concluded, Steps
  <2> QED BY <2>1, <2>2 DEF Running, Stored, Cited
<1> QED BY <1>1, InductiveInvariant, PTL

\* A recorded result rests on an answer that every binding gave this attempt,
\* and the model was shown all of these answers and nothing else.
THEOREM EvidenceIsComplete == Spec => []ConclusionSawEveryBinding
<1>1. IInv => ConclusionSawEveryBinding
  <2> SUFFICES ASSUME IInv, NEW a \in Attempts, Concluded(a)
               PROVE  /\ \A n \in 1..Len(Bindings) :
                            \E answer \in attempt[a].answers :
                                answer.binding = n /\ answer.items \in Resolve(Bindings[n])
                      /\ ShowsAnswers(a)
    BY DEF ConclusionSawEveryBinding, ShowsAnswers
  <2>1. Answered(a) /\ ShowsAnswers(a) /\ AskedAll(a)
    BY DEF IInv, Progress, Concluded, Steps
  <2>2. Len(Bindings) \in Nat
    BY InvestigationAssumption DEF InvestigationAssumption
  <2> QED BY <2>1, <2>2 DEF Answered, AskedAll
<1> QED BY <1>1, InductiveInvariant, PTL

=============================================================================
