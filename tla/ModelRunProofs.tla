--------------------------- MODULE ModelRunProofs ---------------------------
(* Proofs about OutputBuffer, for every limit and every output, and about    *)
(* ModelRun, for any processes and any documents.                            *)
EXTENDS ModelRun, SequenceTheorems, TLAPS

-----------------------------------------------------------------------------
(* OutputBuffer.                                                             *)

IInv == TypeOK /\ BufferIsPrefix /\ TruncationIsReported

LEMMA InitIInv == Init => IInv
<1> SUFFICES ASSUME Init PROVE IInv
  OBVIOUS
<1>1. /\ <<>> \in Seq(Bytes) /\ Len(<<>>) = 0
      /\ Limit \in Nat /\ Limit > 0
  BY BufferAssumption DEF BufferAssumption
<1>2. printed = <<>> /\ buffer = <<>> /\ total = 0 /\ truncated = FALSE
  BY DEF Init
<1>3. TypeOK
  <2>1. printed \in Seq(Bytes) /\ buffer \in Seq(Bytes)
    BY <1>1, <1>2
  <2>2. Len(buffer) <= Limit
    BY <1>1, <1>2
  <2>3. total \in Nat /\ truncated \in BOOLEAN
    BY <1>2
  <2> QED BY <2>1, <2>2, <2>3 DEF TypeOK
<1>4. BufferIsPrefix /\ TruncationIsReported
  BY <1>1, <1>2 DEF BufferIsPrefix, TruncationIsReported
<1> QED BY <1>3, <1>4 DEF IInv

\* As long as nothing was dropped, the buffer is the whole output.
LEMMA FullOrWhole ==
    ASSUME IInv
    PROVE  /\ Len(printed) \in Nat /\ Len(buffer) \in Nat
           /\ Remaining > 0 => Len(buffer) = Len(printed)
           /\ Remaining <= 0 <=> Len(buffer) = Limit
BY BufferAssumption DEF IInv, TypeOK, BufferIsPrefix, Remaining, BufferAssumption

\* A piece behind the bytes that are there already.
LEMMA ConcatOfBytes ==
    ASSUME NEW s \in Seq(Bytes), NEW p \in Seq(Bytes)
    PROVE  /\ s \o p \in Seq(Bytes) /\ Len(s \o p) = Len(s) + Len(p)
           /\ \A n \in 1..Len(s) : (s \o p)[n] = s[n]
           /\ \A n \in 1..Len(p) : (s \o p)[Len(s) + n] = p[n]
<1>1. Len(s) \in Nat /\ Len(p) \in Nat
  OBVIOUS
<1>2. \A n \in 1..Len(s) + Len(p) :
         (s \o p)[n] = IF n <= Len(s) THEN s[n] ELSE p[n - Len(s)]
  BY ConcatProperties
<1>3. \A n \in 1..Len(s) : (s \o p)[n] = s[n]
  BY <1>1, <1>2
<1>4. ASSUME NEW n \in 1..Len(p)
      PROVE  (s \o p)[Len(s) + n] = p[n]
  <2>1. /\ Len(s) + n \in 1..Len(s) + Len(p)
        /\ ~(Len(s) + n <= Len(s))
        /\ (Len(s) + n) - Len(s) = n
    BY <1>1
  <2> QED BY <1>2, <2>1
<1> QED BY <1>3, <1>4, ConcatProperties

LEMMA WriteKeeps ==
    ASSUME IInv, NEW p \in Seq(Bytes), Write(p)
    PROVE  IInv'
<1>1. /\ Len(p) \in Nat /\ Len(p) > 0
      /\ printed \in Seq(Bytes) /\ buffer \in Seq(Bytes)
      /\ Limit \in Nat /\ Limit > 0
  BY BufferAssumption DEF Write, IInv, TypeOK, BufferAssumption
<1>2. /\ printed' = printed \o p /\ printed' \in Seq(Bytes)
      /\ Len(printed') = Len(printed) + Len(p)
      /\ \A n \in 1..Len(printed) : printed'[n] = printed[n]
      /\ \A n \in 1..Len(p) : printed'[Len(printed) + n] = p[n]
  BY <1>1, ConcatOfBytes DEF Write
<1>3. total' = Len(printed') /\ total' \in Nat
  BY <1>1, <1>2 DEF Write, IInv, TypeOK, TruncationIsReported
<1>4. CASE Drop
  <2>1. Len(buffer) = Limit /\ Len(printed) >= Limit
    BY <1>1, <1>4, FullOrWhole DEF Drop, IInv, BufferIsPrefix
  <2>2. Len(printed') > Limit
    BY <1>1, <1>2, <2>1
  <2>3. BufferIsPrefix'
    <3>1. Len(buffer') = Limit /\ ~(Len(printed') <= Limit)
      BY <1>1, <1>2, <1>4, <2>1, <2>2 DEF Drop
    <3>2. \A n \in 1..Len(buffer') : n \in 1..Len(buffer) /\ n \in 1..Len(printed)
      BY <1>1, <1>2, <2>1, <3>1
    <3>3. \A n \in 1..Len(buffer') : buffer'[n] = printed'[n]
      BY <1>2, <1>4, <3>2 DEF Drop, IInv, BufferIsPrefix
    <3> QED BY <3>1, <3>3 DEF BufferIsPrefix
  <2>4. TruncationIsReported' /\ TypeOK'
    BY <1>2, <1>3, <1>4, <2>2 DEF Drop, IInv, TypeOK, TruncationIsReported
  <2> QED BY <2>3, <2>4 DEF IInv
<1>5. CASE Cut(p)
  <2> DEFINE head == SubSeq(p, 1, Remaining)
  <2>1. Remaining \in 1..Len(p) /\ Len(buffer) = Len(printed) /\ Remaining = Limit - Len(buffer)
    BY <1>1, <1>5, FullOrWhole DEF Cut, Remaining
  <2>2. /\ head \in Seq(Bytes) /\ Len(head) = Remaining
        /\ \A n \in 1..Remaining : head[n] = p[n]
    BY <1>1, <2>1, SubSeqProperties
  <2>3. buffer' = buffer \o head
    BY <1>5 DEF Cut
  <2> HIDE DEF head
  <2>4. /\ buffer' \in Seq(Bytes) /\ Len(buffer') = Limit
        /\ \A n \in 1..Len(buffer) : buffer'[n] = buffer[n]
        /\ \A n \in 1..Remaining : buffer'[Len(buffer) + n] = head[n]
    <3>1. Len(buffer) + Remaining = Limit
      BY <1>1, <2>1
    <3> QED BY <1>1, <2>2, <2>3, <3>1, ConcatOfBytes
  <2>5. Len(printed') > Limit
    BY <1>1, <1>2, <1>5, <2>1 DEF Cut
  <2>6. \A n \in 1..Len(buffer') : buffer'[n] = printed'[n]
    <3> SUFFICES ASSUME NEW n \in 1..Limit PROVE buffer'[n] = printed'[n]
      BY <2>4
    <3>1. CASE n <= Len(buffer)
      BY <1>1, <1>2, <2>1, <2>4, <3>1 DEF IInv, BufferIsPrefix
    <3>2. CASE n > Len(buffer)
      <4> DEFINE m == n - Len(buffer)
      <4>1. m \in 1..Remaining /\ m \in 1..Len(p) /\ n = Len(buffer) + m
        BY <1>1, <2>1, <3>2
      <4> HIDE DEF m
      <4> QED BY <1>2, <2>1, <2>2, <2>4, <4>1
    <3> QED BY <1>1, <3>1, <3>2
  <2>7. BufferIsPrefix'
    BY <1>1, <1>2, <2>4, <2>5, <2>6 DEF BufferIsPrefix
  <2>8. TruncationIsReported' /\ TypeOK'
    BY <1>1, <1>2, <1>3, <1>5, <2>4, <2>5 DEF Cut, IInv, TypeOK, TruncationIsReported
  <2> QED BY <2>7, <2>8 DEF IInv
<1>6. CASE Keep(p)
  <2>1. Len(p) <= Limit - Len(buffer) /\ Len(buffer) = Len(printed) /\ buffer' = buffer \o p
    BY <1>1, <1>6, FullOrWhole DEF Keep, Remaining
  <2>2. /\ buffer' \in Seq(Bytes) /\ Len(buffer') = Len(buffer) + Len(p)
        /\ \A n \in 1..Len(buffer) : buffer'[n] = buffer[n]
        /\ \A n \in 1..Len(p) : buffer'[Len(buffer) + n] = p[n]
    BY <1>1, <2>1, ConcatOfBytes
  <2>3. Len(printed') <= Limit /\ Len(buffer') = Len(printed') /\ Len(printed) <= Limit
    BY <1>1, <1>2, <2>1, <2>2
  <2>4. \A n \in 1..Len(buffer') : buffer'[n] = printed'[n]
    <3> SUFFICES ASSUME NEW n \in 1..(Len(buffer) + Len(p)) PROVE buffer'[n] = printed'[n]
      BY <2>2
    <3>1. CASE n <= Len(buffer)
      BY <1>1, <1>2, <2>1, <2>2, <3>1 DEF IInv, BufferIsPrefix
    <3>2. CASE n > Len(buffer)
      <4> DEFINE m == n - Len(buffer)
      <4>1. m \in 1..Len(p) /\ n = Len(buffer) + m
        BY <1>1, <3>2
      <4> HIDE DEF m
      <4> QED BY <1>2, <2>1, <2>2, <4>1
    <3> QED BY <1>1, <3>1, <3>2
  <2>5. BufferIsPrefix'
    BY <2>3, <2>4 DEF BufferIsPrefix
  <2>6. TruncationIsReported' /\ TypeOK'
    BY <1>1, <1>2, <1>3, <1>6, <2>1, <2>2, <2>3
    DEF Keep, IInv, TypeOK, TruncationIsReported
  <2> QED BY <2>5, <2>6 DEF IInv
<1> QED BY <1>4, <1>5, <1>6 DEF Write

LEMMA NextIInv == IInv /\ [Next]_vars => IInv'
<1> SUFFICES ASSUME IInv, [Next]_vars PROVE IInv'
  OBVIOUS
<1>1. CASE Next
  <2>1. PICK n \in 1..(MaxPrinted - Len(printed)) : \E p \in [1..n -> Bytes] : Write(p)
    BY <1>1 DEF Next
  <2>2. PICK p \in [1..n -> Bytes] : Write(p)
    BY <2>1
  <2>3. n \in Nat
    BY BufferAssumption DEF IInv, TypeOK, BufferAssumption
  <2>4. p \in Seq(Bytes)
    BY <2>2, <2>3
  <2> QED BY <2>2, <2>4, WriteKeeps
<1>2. CASE UNCHANGED vars
  BY <1>2 DEF vars, IInv, TypeOK, BufferIsPrefix, TruncationIsReported
<1> QED BY <1>1, <1>2

\* The invariant the three results below follow from.
THEOREM BufferInvariant == Spec => []IInv
<1> QED BY InitIInv, NextIInv, PTL DEF Spec

\* The buffer never grows beyond its limit.
THEOREM BufferTypeCorrect == Spec => []TypeOK
<1>1. IInv => TypeOK
  BY DEF IInv
<1> QED BY <1>1, BufferInvariant, PTL

\* The buffer is the beginning of the output, however the output was cut.
THEOREM BufferIsBeginning == Spec => []BufferIsPrefix
<1>1. IInv => BufferIsPrefix
  BY DEF IInv
<1> QED BY <1>1, BufferInvariant, PTL

\* "truncated" is reported exactly when something was dropped.
THEOREM ReportIsTruthful == Spec => []TruncationIsReported
<1>1. IInv => TruncationIsReported
  BY DEF IInv
<1> QED BY <1>1, BufferInvariant, PTL

-----------------------------------------------------------------------------
(* ModelRun.                                                                 *)

\* What Run has established when it waits for this or that.
Phases ==
    /\ waiting = "start" =>
          /\ process = [q \in Processes |-> Unborn]
          /\ copier = "copying" /\ watch = "context" /\ outcome = "none" /\ exit = "none"
          /\ ~timer /\ ~done
    /\ (waiting # "start" /\ ~Alive(Leader) /\ exit = "none") => waiting = "nothing"
    /\ waiting \in {"watch", "output"} => ~Alive(Leader) /\ (failed \/ exit = "ok")
    /\ waiting # "nothing" => outcome = "none"
    /\ copier = "closed" => failed

\* Nothing comes out of a pipe that was found to be at its end.
OutputIsOver == copier = "eof" => pipe = <<>> /\ \A q \in Processes : ~Holds(q)

RunInv ==
    /\ IInv
    /\ RunTypeOK
    /\ Phases
    /\ OutputIsOver
    /\ ResultOfWholeOutput
    /\ CancelLeavesNoGroup

LEMMA InitRunInv == RunInit => RunInv
<1> SUFFICES ASSUME RunInit PROVE RunInv
  OBVIOUS
<1>1. IInv /\ TypeOK /\ printed = <<>>
  BY InitIInv DEF RunInit, Init, IInv
<1>2. pipe \in Seq(Bytes) /\ Len(printed) + Len(pipe) <= MaxPrinted
  BY <1>1, BufferAssumption DEF RunInit, BufferAssumption
<1>3. RunTypeOK
  BY <1>1, <1>2 DEF RunInit, RunTypeOK, Unborn
<1>4. Phases /\ OutputIsOver /\ ResultOfWholeOutput /\ CancelLeavesNoGroup
  BY DEF RunInit, Phases, OutputIsOver, ResultOfWholeOutput, CancelLeavesNoGroup
<1> QED BY <1>1, <1>3, <1>4 DEF RunInv

\* Steps that do not copy leave the buffer as it is.
LEMMA BufferKept == IInv /\ UNCHANGED vars => IInv' /\ TypeOK'
BY NextIInv DEF IInv

\* A step of a process.
LEMMA ProcessKeeps ==
    ASSUME RunInv, NEW q \in Processes, ProcessStep(q)
    PROVE  RunInv'
<1> USE DEF Alive, Holds
<1>1. /\ waiting # "start" /\ UNCHANGED <<copier, done, watch, timer, waiting, failed, outcome>>
      /\ UNCHANGED vars
  BY DEF ProcessStep, Living, Emit, Fork, LeaveGroup, CloseOutput, End
<1>2. IInv' /\ TypeOK' /\ UNCHANGED printed
  BY <1>1, BufferKept DEF RunInv, vars
<1>3. CASE Emit(q)
  <2>1. /\ copier = "copying" /\ UNCHANGED <<process, exit>>
        /\ Len(printed) + Len(pipe) < MaxPrinted
    BY <1>3 DEF Emit
  <2>2. PICK b \in Bytes : pipe' = Append(pipe, b)
    BY <1>3 DEF Emit
  <2>3. pipe' \in Seq(Bytes) /\ Len(pipe') = Len(pipe) + 1 /\ Len(pipe) \in Nat /\ Len(printed) \in Nat
    BY <2>2 DEF RunInv, RunTypeOK, TypeOK
  <2>4. Len(printed') + Len(pipe') <= MaxPrinted
    BY <1>2, <2>1, <2>3, BufferAssumption DEF BufferAssumption
  <2>5. RunTypeOK'
    BY <1>1, <1>2, <2>1, <2>3, <2>4 DEF RunInv, RunTypeOK
  <2>6. outcome # "result"
    BY <2>1 DEF RunInv, ResultOfWholeOutput
  <2> QED
    BY <1>1, <1>2, <2>1, <2>5, <2>6
    DEF RunInv, Phases, OutputIsOver, ResultOfWholeOutput, CancelLeavesNoGroup
<1>4. CASE \E child \in Processes : Fork(q, child)
  <2>1. PICK child \in Processes : Fork(q, child)
    BY <1>4
  <2>2. /\ process[q].alive /\ child # Leader /\ UNCHANGED <<exit, pipe>>
        /\ process' = [process EXCEPT ![child] = process[q]]
    BY <2>1 DEF Fork
  <2>3. RunTypeOK'
    BY <1>1, <1>2, <2>2 DEF RunInv, RunTypeOK
  <2>4. process'[Leader] = process[Leader]
    BY <2>2, RunAssumption DEF RunAssumption, RunInv, RunTypeOK
  <2>5. \A p \in Processes : process'[p] = process[p] \/ process'[p] = process[q]
    BY <2>2 DEF RunInv, RunTypeOK
  <2>6. Phases' /\ OutputIsOver'
    BY <1>1, <2>2, <2>4, <2>5 DEF RunInv, Phases, OutputIsOver
  <2>7. ResultOfWholeOutput' /\ CancelLeavesNoGroup'
    BY <1>1, <2>2, <2>4, <2>5 DEF RunInv, ResultOfWholeOutput, CancelLeavesNoGroup
  <2> QED BY <1>2, <2>3, <2>6, <2>7 DEF RunInv
<1>5. CASE LeaveGroup(q) \/ CloseOutput(q)
  <2>1. /\ UNCHANGED <<exit, pipe>>
        /\ \/ process' = [process EXCEPT ![q].group = FALSE]
           \/ process' = [process EXCEPT ![q].holds = FALSE]
    BY <1>5 DEF LeaveGroup, CloseOutput
  <2>2. RunTypeOK'
    BY <1>1, <1>2, <2>1 DEF RunInv, RunTypeOK
  <2>3. \A p \in Processes : /\ process'[p].alive = process[p].alive
                             /\ process'[p].group => process[p].group
                             /\ process'[p].holds => process[p].holds
    BY <2>1 DEF RunInv, RunTypeOK
  <2>4. Phases' /\ OutputIsOver'
    BY <1>1, <2>1, <2>3, RunAssumption DEF RunAssumption, RunInv, Phases, OutputIsOver
  <2>5. ResultOfWholeOutput' /\ CancelLeavesNoGroup'
    BY <1>1, <2>1, <2>3, RunAssumption
    DEF RunAssumption, RunInv, ResultOfWholeOutput, CancelLeavesNoGroup
  <2> QED BY <1>2, <2>2, <2>4, <2>5 DEF RunInv
<1>6. CASE End(q)
  <2>1. /\ process[q].alive /\ UNCHANGED pipe
        /\ process' = [process EXCEPT ![q].alive = FALSE]
        /\ IF q = Leader THEN exit' \in {"ok", "bad"} ELSE exit' = exit
    BY <1>6 DEF End
  <2>2. RunTypeOK'
    BY <1>1, <1>2, <2>1 DEF RunInv, RunTypeOK
  <2>3. \A p \in Processes : /\ process'[p].alive => process[p].alive
                             /\ process'[p].group = process[p].group
                             /\ process'[p].holds = process[p].holds
                             /\ p # q => process'[p] = process[p]
    BY <2>1 DEF RunInv, RunTypeOK
  <2>4. Phases' /\ OutputIsOver'
    BY <1>1, <2>1, <2>3, RunAssumption DEF RunAssumption, RunInv, Phases, OutputIsOver
  <2>5. ResultOfWholeOutput' /\ CancelLeavesNoGroup'
    BY <1>1, <2>1, <2>3, RunAssumption
    DEF RunAssumption, RunInv, ResultOfWholeOutput, CancelLeavesNoGroup
  <2> QED BY <1>2, <2>2, <2>4, <2>5 DEF RunInv
<1> QED BY <1>3, <1>4, <1>5, <1>6 DEF ProcessStep

\* Reading from the pipe.
LEMMA CopyKeeps ==
    ASSUME RunInv, Copy
    PROVE  RunInv'
<1>1. PICK n \in 1..Len(pipe) :
          /\ Write(SubSeq(pipe, 1, n))
          /\ pipe' = SubSeq(pipe, n + 1, Len(pipe))
  BY DEF Copy
<1> DEFINE piece == SubSeq(pipe, 1, n)
<1>2. /\ pipe \in Seq(Bytes) /\ printed \in Seq(Bytes)
      /\ Len(pipe) \in Nat /\ Len(printed) \in Nat /\ n \in Nat /\ 1 <= n /\ n <= Len(pipe)
      /\ Len(printed) + Len(pipe) <= MaxPrinted
  BY DEF RunInv, RunTypeOK, TypeOK
<1>3. piece \in Seq(Bytes) /\ Len(piece) = n
  BY <1>2, SubSeqProperties
<1>4. pipe' \in Seq(Bytes) /\ Len(pipe') = Len(pipe) - n
  <2>1. n + 1 \in 1..(Len(pipe) + 1) /\ Len(pipe) - (n + 1) + 1 = Len(pipe) - n
    BY <1>2
  <2>2. \A i \in (n + 1)..Len(pipe) : pipe[i] \in Bytes
    BY <1>2
  <2> DEFINE rest == SubSeq(pipe, n + 1, Len(pipe))
  <2>3. /\ rest \in Seq(Bytes)
        /\ Len(rest) = IF n + 1 <= Len(pipe) THEN Len(pipe) - (n + 1) + 1 ELSE 0
    BY <1>2, <2>1, <2>2, SubSeqProperties
  <2>4. pipe' = rest
    BY <1>1
  <2> HIDE DEF rest
  <2>5. Len(rest) = Len(pipe) - n
    BY <1>2, <2>3
  <2> QED BY <2>3, <2>4, <2>5
<1> HIDE DEF piece
<1>5. Write(piece)
  BY <1>1 DEF piece
<1>6. IInv' /\ TypeOK'
  BY <1>3, <1>5, WriteKeeps DEF RunInv, IInv
<1>7. Len(printed') = Len(printed) + n
  BY <1>2, <1>3, <1>5, ConcatProperties DEF Write
<1>8. Len(printed') + Len(pipe') <= MaxPrinted
  BY <1>2, <1>4, <1>7, BufferAssumption DEF BufferAssumption
<1>9. copier = "copying" /\ UNCHANGED <<process, exit, copier, done, watch, timer, waiting, failed, outcome>>
  BY DEF Copy
<1>10. RunTypeOK'
  BY <1>4, <1>6, <1>8, <1>9 DEF RunInv, RunTypeOK
<1>11. outcome # "result"
  BY <1>9 DEF RunInv, ResultOfWholeOutput
<1> QED
  BY <1>6, <1>9, <1>10, <1>11
  DEF RunInv, Phases, OutputIsOver, ResultOfWholeOutput, CancelLeavesNoGroup, Alive, Holds

\* The steps of Run that touch neither pipe nor buffer.
LEMMA RunStepKeeps ==
    ASSUME RunInv, RunStep, ~Copy
    PROVE  RunInv'
<1> USE DEF Alive, Holds
<1>1. UNCHANGED vars /\ UNCHANGED pipe
  BY DEF RunStep, Refuse, StartLeader, ContextEnds, Cancel, WaitForLeader, StopWatch,
         EndOfOutput, DelayEnds, Return
<1>2. IInv' /\ TypeOK' /\ UNCHANGED <<printed, pipe>>
  BY <1>1, BufferKept DEF RunInv, vars
<1>3. CASE Refuse
  <2>1. RunTypeOK'
    BY <1>2, <1>3 DEF Refuse, RunInv, RunTypeOK
  <2> QED
    BY <1>2, <1>3, <2>1
    DEF Refuse, RunInv, Phases, OutputIsOver, ResultOfWholeOutput, CancelLeavesNoGroup
<1>4. CASE StartLeader
  <2>1. RunTypeOK'
    BY <1>2, <1>4 DEF StartLeader, RunInv, RunTypeOK
  <2>2. process'[Leader].alive
    BY <1>4, RunAssumption DEF StartLeader, RunAssumption, RunInv, RunTypeOK
  <2> QED
    BY <1>2, <1>4, <2>1, <2>2
    DEF StartLeader, RunInv, Phases, OutputIsOver, ResultOfWholeOutput, CancelLeavesNoGroup
<1>5. CASE ContextEnds \/ WaitForLeader \/ StopWatch
  <2>1. RunTypeOK'
    BY <1>2, <1>5 DEF ContextEnds, WaitForLeader, StopWatch, RunInv, RunTypeOK
  <2>2. Phases' /\ OutputIsOver'
    BY <1>2, <1>5 DEF ContextEnds, WaitForLeader, StopWatch, RunInv, RunTypeOK, Phases, OutputIsOver
  <2>3. ResultOfWholeOutput' /\ CancelLeavesNoGroup'
    BY <1>2, <1>5
    DEF ContextEnds, WaitForLeader, StopWatch, RunInv, ResultOfWholeOutput, CancelLeavesNoGroup
  <2> QED BY <1>2, <2>1, <2>2, <2>3 DEF RunInv
<1>6. CASE Cancel
  <2>1. /\ watch' = "cancelled" /\ timer' = TRUE
        /\ UNCHANGED <<copier, done, waiting, outcome>>
        /\ process' = KillGroup /\ watch = "context"
        /\ exit' = (IF Alive(Leader) THEN "bad" ELSE exit)
        /\ failed' \in BOOLEAN
        /\ failed => failed'
    BY <1>6 DEF Cancel, RunInv, RunTypeOK
  <2>2. \A p \in Processes : /\ process'[p].alive => process[p].alive
                             /\ process'[p].group = process[p].group
                             /\ process'[p].holds = process[p].holds
                             /\ ~(process'[p].alive /\ process'[p].group)
                             /\ process'[p] \in [alive : BOOLEAN, group : BOOLEAN, holds : BOOLEAN]
    BY <2>1 DEF KillGroup, RunInv, RunTypeOK
  <2>3. RunTypeOK'
    BY <1>2, <2>1, <2>2 DEF KillGroup, RunInv, RunTypeOK
  <2>4. waiting # "start"
    BY <1>6 DEF Cancel, RunInv, Phases
  <2>5. Phases' /\ OutputIsOver'
    BY <1>2, <2>1, <2>2, <2>4, RunAssumption
    DEF RunAssumption, RunInv, RunTypeOK, Phases, OutputIsOver
  <2>6. ResultOfWholeOutput' /\ CancelLeavesNoGroup'
    BY <1>2, <2>1, <2>2, RunAssumption
    DEF RunAssumption, RunInv, ResultOfWholeOutput, CancelLeavesNoGroup
  <2> QED BY <1>2, <2>3, <2>5, <2>6 DEF RunInv
<1>7. CASE EndOfOutput
  <2>1. RunTypeOK'
    BY <1>2, <1>7 DEF EndOfOutput, RunInv, RunTypeOK
  <2> QED
    BY <1>2, <1>7, <2>1
    DEF EndOfOutput, RunInv, Phases, OutputIsOver, ResultOfWholeOutput, CancelLeavesNoGroup
<1>8. CASE DelayEnds
  <2>1. RunTypeOK'
    BY <1>2, <1>8 DEF DelayEnds, RunInv, RunTypeOK
  <2>2. outcome # "result" /\ waiting # "start"
    BY <1>8 DEF DelayEnds, RunInv, RunTypeOK, Phases
  <2> QED
    BY <1>2, <1>8, <2>1, <2>2
    DEF DelayEnds, RunInv, Phases, OutputIsOver, ResultOfWholeOutput, CancelLeavesNoGroup
<1>9. CASE Return
  <2>1. RunTypeOK'
    BY <1>2, <1>9 DEF Return, RunInv, RunTypeOK
  <2>2. outcome' = "result" => copier = "eof" /\ exit = "ok" /\ ~Alive(Leader)
    BY <1>9 DEF Return, RunInv, RunTypeOK, Phases
  <2>3. Phases' /\ OutputIsOver'
    BY <1>2, <1>9 DEF Return, RunInv, Phases, OutputIsOver
  <2>4. ResultOfWholeOutput' /\ CancelLeavesNoGroup'
    BY <1>2, <1>9, <2>2 DEF Return, RunInv, OutputIsOver, ResultOfWholeOutput, CancelLeavesNoGroup
  <2> QED BY <1>2, <2>1, <2>3, <2>4 DEF RunInv
<1> QED BY <1>3, <1>4, <1>5, <1>6, <1>7, <1>8, <1>9 DEF RunStep

LEMMA NextRunInv == RunInv /\ [RunNext]_runVars => RunInv'
<1> SUFFICES ASSUME RunInv, [RunNext]_runVars PROVE RunInv'
  OBVIOUS
<1>1. CASE UNCHANGED runVars
  <2>1. IInv' /\ TypeOK'
    BY <1>1, BufferKept DEF runVars, RunInv
  <2> QED
    BY <1>1, <2>1
    DEF runVars, vars, RunInv, RunTypeOK, Phases, OutputIsOver, ResultOfWholeOutput,
        CancelLeavesNoGroup, Alive, Holds
<1> QED BY <1>1, ProcessKeeps, CopyKeeps, RunStepKeeps DEF RunNext

\* The invariant the results about a run follow from.
THEOREM RunInvariant == RunSpec => []RunInv
<1> QED BY InitRunInv, NextRunInv, PTL DEF RunSpec

\* Whatever the processes do, what Run returns was decoded from the output as a
\* whole, with nobody left to print.
THEOREM ResultsAreWhole == RunSpec => []ResultOfWholeOutput
<1>1. RunInv => ResultOfWholeOutput
  BY DEF RunInv
<1> QED BY <1>1, RunInvariant, PTL

\* Once the group has been killed, nobody is in it, however many descendants it
\* had and whatever the ones that left it start.
THEOREM GroupsAreKilled == RunSpec => []CancelLeavesNoGroup
<1>1. RunInv => CancelLeavesNoGroup
  BY DEF RunInv
<1> QED BY <1>1, RunInvariant, PTL

\* Every state of a run is well formed.
THEOREM RunTypeCorrect == RunSpec => []RunTypeOK
<1>1. RunInv => RunTypeOK
  BY DEF RunInv
<1> QED BY <1>1, RunInvariant, PTL

LEMMA StepsOfBuffer == RunInv /\ [RunNext]_runVars => [Next]_vars
<1> SUFFICES ASSUME RunInv, [RunNext]_runVars PROVE [Next]_vars
  OBVIOUS
<1>1. CASE Copy
  <2>1. PICK n \in 1..Len(pipe) : Write(SubSeq(pipe, 1, n))
    BY <1>1 DEF Copy
  <2>2. /\ pipe \in Seq(Bytes) /\ Len(pipe) \in Nat /\ Len(printed) \in Nat /\ n \in Nat
        /\ Len(printed) + Len(pipe) <= MaxPrinted /\ 1 <= n /\ n <= Len(pipe)
    BY DEF RunInv, RunTypeOK, TypeOK
  <2>3. n \in 1..(MaxPrinted - Len(printed))
    BY <2>2, BufferAssumption DEF BufferAssumption
  <2>4. SubSeq(pipe, 1, n) \in [1..n -> Bytes]
    <3> DEFINE piece == SubSeq(pipe, 1, n)
    <3>1. piece \in Seq(Bytes) /\ Len(piece) = n
      BY <2>2, SubSeqProperties
    <3> HIDE DEF piece
    <3>2. piece \in [1..n -> Bytes]
      BY <3>1
    <3> QED BY <3>2 DEF piece
  <2> QED BY <2>1, <2>3, <2>4 DEF Next
<1>2. CASE \E q \in Processes : ProcessStep(q)
  BY <1>2 DEF ProcessStep, Living, Emit, Fork, LeaveGroup, CloseOutput, End
<1>3. CASE RunStep /\ ~Copy
  BY <1>3 DEF RunStep, Refuse, StartLeader, ContextEnds, Cancel, WaitForLeader, StopWatch,
              EndOfOutput, DelayEnds, Return
<1>4. CASE UNCHANGED runVars
  BY <1>4 DEF runVars
<1> QED BY <1>1, <1>2, <1>3, <1>4 DEF RunNext

\* The buffer of a run behaves as OutputBuffer says, so that what is proved of
\* the buffer alone holds of it within the run.
THEOREM RunImplementsBuffer == RunSpec => Spec
<1>1. RunInit => Init
  BY DEF RunInit
<1> QED BY <1>1, RunInvariant, StepsOfBuffer, PTL DEF RunSpec, Spec

=============================================================================
