----------------------------- MODULE Lifecycle -----------------------------
(***************************************************************************)
(* What the system promises of its incidents, whoever runs where: the      *)
(* states an incident goes through and the order it goes through them, and *)
(* one incident at a time for each key.  RcaSystem implements it.          *)
(***************************************************************************)
CONSTANTS Incidents, Keys

VARIABLES state, \* of each incident, "ABSENT" before it is received
          key    \* of each incident, "" before it is received

lifecycleVars == <<state, key>>

Open(i) == state[i] \in {"RECEIVED", "INVESTIGATING", "AWAITING_AUDIT_EVENT"}

Init ==
    /\ state = [i \in Incidents |-> "ABSENT"]
    /\ key = [i \in Incidents |-> ""]

Step(i, from, to) ==
    /\ state[i] \in from
    /\ state' = [state EXCEPT ![i] = to]
    /\ UNCHANGED key

\* Occurrences of a key that is under investigation are merged.
Receive(i, k) ==
    /\ state[i] = "ABSENT"
    /\ \A o \in Incidents : Open(o) => key[o] # k
    /\ state' = [state EXCEPT ![i] = "RECEIVED"]
    /\ key' = [key EXCEPT ![i] = k]

Investigate(i) == Step(i, {"RECEIVED", "AWAITING_AUDIT_EVENT"}, "INVESTIGATING")
AwaitAudit(i) == Step(i, {"INVESTIGATING"}, "AWAITING_AUDIT_EVENT")
Conclude(i) == Step(i, {"INVESTIGATING"}, "COMPLETED")
GiveUp(i) == Step(i, {"RECEIVED", "INVESTIGATING", "AWAITING_AUDIT_EVENT"}, "FAILED")
Recover(i) == Step(i, {"RECEIVED", "INVESTIGATING", "AWAITING_AUDIT_EVENT",
                       "COMPLETED", "FAILED"}, "RECOVERED")

Next ==
    \E i \in Incidents :
        \/ \E k \in Keys : Receive(i, k)
        \/ Investigate(i)
        \/ AwaitAudit(i)
        \/ Conclude(i)
        \/ GiveUp(i)
        \/ Recover(i)

Spec == Init /\ [][Next]_lifecycleVars

=============================================================================
