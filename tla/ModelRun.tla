------------------------------ MODULE ModelRun ------------------------------
(***************************************************************************)
(* Runner.Run of internal/cc/runner.go: one run of the model as a          *)
(* subprocess.  The leader of a process group of its own may start         *)
(* descendants, which inherit its output, may leave the group, may close   *)
(* the output, and may live for ever.  exec.Cmd waits for the leader, then *)
(* for the end of the output, but after the end of the leader or of the    *)
(* context for WaitDelay at most; Cancel kills the group.                  *)
(*                                                                         *)
(* Standard error goes the way of standard output and is left out.         *)
(***************************************************************************)
EXTENDS OutputBuffer

CONSTANTS Processes, Leader,
          Documents  \* the outputs that ParseResult accepts

ASSUME RunAssumption == Leader \in Processes /\ Documents \subseteq Seq(Bytes)

VARIABLES process, \* the processes: whether each is alive, in the group, holds the output
          exit,    \* what the leader ended with
          pipe,    \* printed by the processes and not read yet
          copier,  \* the goroutine that copies pipe to buffer
          done,    \* runCtx is: its deadline, or the worker's stop signal
          watch,   \* the goroutine that waits for runCtx (watchCtx of exec.Cmd)
          timer,   \* WaitDelay is running
          waiting, \* what Run waits for
          failed,  \* an error that command.Run will return
          outcome

runVars == <<vars, process, exit, pipe, copier, done, watch, timer, waiting, failed, outcome>>

Unborn == [alive |-> FALSE, group |-> FALSE, holds |-> FALSE]

RunTypeOK ==
    /\ TypeOK
    /\ process \in [Processes -> [alive : BOOLEAN, group : BOOLEAN, holds : BOOLEAN]]
    /\ exit \in {"none", "ok", "bad"}
    /\ pipe \in Seq(Bytes) /\ Len(printed) + Len(pipe) <= MaxPrinted
    /\ copier \in {"copying", "eof", "closed"}
    /\ done \in BOOLEAN
    /\ watch \in {"context", "cancelled", "over"}
    /\ timer \in BOOLEAN
    /\ waiting \in {"start", "leader", "watch", "output", "nothing"}
    /\ failed \in BOOLEAN
    /\ outcome \in {"none", "result", "error"}

RunInit ==
    /\ Init
    /\ process = [q \in Processes |-> Unborn]
    /\ exit = "none"
    /\ pipe = <<>>
    /\ copier = "copying"
    /\ done = FALSE
    /\ watch = "context"
    /\ timer = FALSE
    /\ waiting = "start"
    /\ failed = FALSE
    /\ outcome = "none"

Alive(q) == process[q].alive
Holds(q) == Alive(q) /\ process[q].holds

-----------------------------------------------------------------------------
\* The processes.

Living == waiting # "start" /\ UNCHANGED <<vars, copier, done, watch, timer, waiting, failed, outcome>>

Emit(q) ==
    /\ Living
    /\ Holds(q) /\ copier = "copying"
    /\ Len(printed) + Len(pipe) < MaxPrinted
    /\ \E b \in Bytes : pipe' = Append(pipe, b)
    /\ UNCHANGED <<process, exit>>

Fork(q, child) ==
    /\ Living
    /\ Alive(q) /\ process[child] = Unborn /\ child # Leader
    /\ process' = [process EXCEPT ![child] = process[q]]
    /\ UNCHANGED <<exit, pipe>>

\* A leader of a group cannot leave it.
LeaveGroup(q) ==
    /\ Living
    /\ Alive(q) /\ process[q].group /\ q # Leader
    /\ process' = [process EXCEPT ![q].group = FALSE]
    /\ UNCHANGED <<exit, pipe>>

CloseOutput(q) ==
    /\ Living
    /\ Holds(q)
    /\ process' = [process EXCEPT ![q].holds = FALSE]
    /\ UNCHANGED <<exit, pipe>>

End(q) ==
    /\ Living
    /\ Alive(q)
    /\ process' = [process EXCEPT ![q].alive = FALSE]
    /\ exit' \in IF q = Leader THEN {"ok", "bad"} ELSE {exit}
    /\ UNCHANGED pipe

-----------------------------------------------------------------------------
\* Run.

\* prepareClaudeCommand refuses the incident or its evidence, or Start fails.
Refuse ==
    /\ waiting = "start"
    /\ waiting' = "nothing"
    /\ outcome' = "error"
    /\ UNCHANGED <<vars, process, exit, pipe, copier, done, watch, timer, failed>>

StartLeader ==
    /\ waiting = "start"
    /\ waiting' = "leader"
    /\ process' = [process EXCEPT ![Leader] = [alive |-> TRUE, group |-> TRUE, holds |-> TRUE]]
    /\ UNCHANGED <<vars, exit, pipe, copier, done, watch, timer, failed, outcome>>

ContextEnds ==
    /\ waiting \notin {"start", "nothing"} /\ ~done
    /\ done' = TRUE
    /\ UNCHANGED <<vars, process, exit, pipe, copier, watch, timer, waiting, failed, outcome>>

KillLeader == [process EXCEPT ![Leader].alive = FALSE]

KillGroup ==
    [q \in Processes |-> IF process[q].group THEN [process[q] EXCEPT !.alive = FALSE] ELSE process[q]]

CancelLeader ==
    /\ watch = "context" /\ done
    /\ process' = KillLeader
    /\ exit' = IF Alive(Leader) THEN "bad" ELSE exit
    /\ failed' = (failed \/ waiting = "leader")
    /\ watch' = "cancelled"
    /\ timer' = TRUE
    /\ UNCHANGED <<vars, pipe, copier, done, waiting, outcome>>

\* The group is there to be killed while the leader has not been waited for, or
\* another member is alive; where it is not, Cancel reports os.ErrProcessDone.
Cancel ==
    /\ watch = "context" /\ done
    /\ process' = KillGroup
    /\ exit' = IF Alive(Leader) THEN "bad" ELSE exit
    /\ failed' = (failed \/ waiting = "leader" \/ \E q \in Processes : Alive(q) /\ process[q].group)
    /\ watch' = "cancelled"
    /\ timer' = TRUE
    /\ UNCHANGED <<vars, pipe, copier, done, waiting, outcome>>

WaitForLeader ==
    /\ waiting = "leader" /\ ~Alive(Leader)
    /\ waiting' = "watch"
    /\ failed' = (failed \/ exit = "bad")
    /\ UNCHANGED <<vars, process, exit, pipe, copier, done, watch, timer, outcome>>

StopWatchWithoutDelay ==
    /\ waiting = "watch"
    /\ waiting' = "output"
    /\ watch' = IF watch = "context" THEN "over" ELSE watch
    /\ UNCHANGED <<vars, process, exit, pipe, copier, done, timer, failed, outcome>>

\* From here on the end of the context has no effect: nothing is killed.
StopWatch ==
    /\ waiting = "watch"
    /\ waiting' = "output"
    /\ watch' = IF watch = "context" THEN "over" ELSE watch
    /\ timer' = (timer \/ copier = "copying")
    /\ UNCHANGED <<vars, process, exit, pipe, copier, done, failed, outcome>>

Copy ==
    /\ copier = "copying"
    /\ \E n \in 1..Len(pipe) :
          /\ Write(SubSeq(pipe, 1, n))
          /\ pipe' = SubSeq(pipe, n + 1, Len(pipe))
    /\ UNCHANGED <<process, exit, copier, done, watch, timer, waiting, failed, outcome>>

EndOfOutputOfLeader ==
    /\ waiting # "start" /\ copier = "copying" /\ pipe = <<>>
    /\ ~Holds(Leader)
    /\ copier' = "eof"
    /\ UNCHANGED <<vars, process, exit, pipe, done, watch, timer, waiting, failed, outcome>>

EndOfOutput ==
    /\ waiting # "start" /\ copier = "copying" /\ pipe = <<>>
    /\ \A q \in Processes : ~Holds(q)
    /\ copier' = "eof"
    /\ UNCHANGED <<vars, process, exit, pipe, done, watch, timer, waiting, failed, outcome>>

\* WaitDelay is over: the pipe is closed on this side.  Where the output ended
\* at that very moment, either is noticed first.
DelayEnds ==
    /\ timer /\ waiting # "nothing"
    /\ copier = "copying" \/ (copier = "eof" /\ waiting = "output")
    /\ copier' = "closed"
    /\ failed' = TRUE
    /\ timer' = FALSE
    /\ UNCHANGED <<vars, process, exit, pipe, done, watch, waiting, outcome>>

Return ==
    /\ waiting = "output" /\ copier # "copying"
    /\ waiting' = "nothing"
    /\ outcome' = IF ~failed /\ buffer \in Documents THEN "result" ELSE "error"
    /\ UNCHANGED <<vars, process, exit, pipe, copier, done, watch, timer, failed>>

ProcessStep(q) ==
    \/ Emit(q)
    \/ \E child \in Processes : Fork(q, child)
    \/ LeaveGroup(q)
    \/ CloseOutput(q)
    \/ End(q)

RunStep ==
    \/ Refuse
    \/ StartLeader
    \/ ContextEnds
    \/ Cancel
    \/ WaitForLeader
    \/ StopWatch
    \/ Copy
    \/ EndOfOutput
    \/ DelayEnds
    \/ Return

RunNext == RunStep \/ \E q \in Processes : ProcessStep(q)

\* Timers run, goroutines are scheduled, a killed process ends.  Of the processes
\* nothing is assumed, nor that a pipe is ever read to its end.
RunFairness ==
    /\ WF_runVars(Refuse \/ StartLeader)
    /\ WF_runVars(ContextEnds)
    /\ WF_runVars(Cancel)
    /\ WF_runVars(WaitForLeader)
    /\ WF_runVars(StopWatch)
    /\ WF_runVars(DelayEnds)
    /\ WF_runVars(Return)

RunSpec == RunInit /\ [][RunNext]_runVars /\ RunFairness

-----------------------------------------------------------------------------
\* Properties.

\* What Run returns as a result was decoded after the output had ended: the
\* leader ended well, all that any process printed was read, none can print any
\* more, and the context did not cut it short.
ResultOfWholeOutput ==
    outcome = "result" =>
        /\ exit = "ok" /\ ~Alive(Leader)
        /\ pipe = <<>> /\ \A q \in Processes : ~Holds(q)
        /\ copier = "eof"

\* runner_test.go:163: once the end of the context was noticed while Run waited
\* for the leader, nobody in the group is alive or ever will be, descendants of
\* descendants included.  (Where it is noticed later, they are left alone.)
CancelLeavesNoGroup ==
    watch = "cancelled" => \A q \in Processes : Alive(q) => ~process[q].group

\* Run ends whatever the processes do, also when one that left the group keeps
\* the output open for ever.
RunEnds == <>(waiting = "nothing")

=============================================================================
