---------------------------- MODULE RunContract ----------------------------
(***************************************************************************)
(* What the owner and the agents may rely on about a run, whatever the     *)
(* workers, timers and containers behind it do: the states it moves        *)
(* through, that an attempt ends once, that only a retry starts another,   *)
(* and that an answer is accepted once, while the run waits for it, and    *)
(* kept.                                                                   *)
(***************************************************************************)
EXTENDS Naturals, RunStates

CONSTANTS MaxAttempt, Keys

VARIABLES
  state,     \* the run's state
  attempt,   \* its current attempt
  answered   \* the questions that have an answer

cvars == <<state, attempt, answered>>

Init == state = "QUEUED" /\ attempt = 1 /\ answered = {}

\* Moves that a single operation makes: those of the table, and the ones that pass through
\* a second state in the same transaction (a result posted while a model loads or an input
\* is open, a queued run whose dispatch job died or was refused).
Moves ==
  {m \in RunState \X RunState : m[1] \notin TERMINAL_STATES /\ can_transition(m[1], m[2])}
    \union {<<"LOADING_MODEL", "SUCCEEDED">>, <<"WAITING_INPUT", "SUCCEEDED">>,
            <<"QUEUED", "FAILED">>}

Move ==
  /\ \E m \in Moves : state = m[1] /\ state' = m[2]
  /\ UNCHANGED <<attempt, answered>>

Answer ==
  /\ state = "WAITING_INPUT"
  /\ state' \in {"WAITING_INPUT", "RUNNING"}
  /\ \E k \in Keys \ answered : answered' = answered \union {k}
  /\ UNCHANGED attempt

Retry ==
  /\ state \in {"FAILED", "INTERRUPTED"}
  /\ attempt < MaxAttempt
  /\ state' = "QUEUED"
  /\ attempt' = attempt + 1
  /\ UNCHANGED answered

Next == Move \/ Answer \/ Retry

Spec == Init /\ [][Next]_cvars
=============================================================================
