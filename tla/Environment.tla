---------------------------- MODULE Environment ----------------------------
(***************************************************************************)
(* What the gateway and the workers meet beside the store: the clock of    *)
(* the host, the Feishu cards (an external service, modelled from how      *)
(* internal/feishu/client.go uses it), and the faults that strike calls.   *)
(***************************************************************************)
EXTENDS Store

CONSTANTS MaxTime,   \* bound: the clock stops here
          FaultKinds,\* the kinds of fault a run looks at
          MaxFaults  \* bound: how many faults strike in one behaviour

\* CreateIncidentCard of the client takes an answer without an id for an error.
ASSUME EnvironmentAssumption ==
    /\ NoCard \notin MessageIds
    /\ MaxTime \in Nat
    /\ FaultKinds \subseteq {"db", "feishu", "rca", "worker crash", "gateway crash"}
    /\ MaxFaults \in Nat

VARIABLES now,    \* unix seconds, read by every process
          cards,  \* the cards in the Feishu chat, by message id
          faults  \* faults so far

environmentVars == <<now, cards, faults>>

States == ActiveStates \cup TerminalStates
Card == [incident : IncidentIds, shows : States]
AbsentCard == [shows |-> "ABSENT"]

EnvironmentTypeOK ==
    /\ now \in 0..MaxTime
    /\ cards \in [MessageIds -> Card \cup {AbsentCard}]
    /\ faults \in 0..MaxFaults

EnvironmentInit ==
    /\ now = 0
    /\ cards = [m \in MessageIds |-> AbsentCard]
    /\ faults = 0

Strikes(kind) ==
    /\ kind \in FaultKinds
    /\ faults < MaxFaults
    /\ faults' = faults + 1

\* POST /im/v1/messages: a new card in the chat, under an id Feishu chooses.
CreateIncidentCard(m, i, state) ==
    /\ cards[m] = AbsentCard
    /\ cards' = [cards EXCEPT ![m] = [incident |-> i, shows |-> state]]

\* PATCH /im/v1/messages/<id>: the card shows the state the caller passed.
UpdateIncidentCard(m, state) ==
    cards' = [cards EXCEPT ![m].shows = state]

\* A PATCH that failed was applied or not: the answer can be lost after Feishu
\* changed the card.
PerhapsUpdated(m, state) == UpdateIncidentCard(m, state) \/ UNCHANGED cards

=============================================================================
