----------------------------- MODULE RunStates -----------------------------
(***************************************************************************)
(* The run states and the transition table of runs/states.py.              *)
(***************************************************************************)

RunState ==
  {"QUEUED", "PREPARING", "LOADING_MODEL", "RUNNING", "WAITING_INPUT",
   "SUCCEEDED", "FAILED", "CANCELLING", "CANCELLED", "INTERRUPTED"}

TRANSITIONS ==
  [s \in RunState |->
     CASE s = "QUEUED"        -> {"PREPARING", "CANCELLED"}
       [] s = "PREPARING"     -> {"RUNNING", "FAILED", "CANCELLING", "INTERRUPTED"}
       [] s = "RUNNING"       -> {"LOADING_MODEL", "WAITING_INPUT", "SUCCEEDED",
                                  "FAILED", "CANCELLING", "INTERRUPTED"}
       [] s = "LOADING_MODEL" -> {"RUNNING", "FAILED", "CANCELLING", "INTERRUPTED"}
       [] s = "WAITING_INPUT" -> {"RUNNING", "CANCELLING", "INTERRUPTED", "FAILED"}
       [] s = "CANCELLING"    -> {"CANCELLED"}
       [] s = "INTERRUPTED"   -> {"QUEUED"}
       [] s = "FAILED"        -> {"QUEUED"}
       [] s = "SUCCEEDED"     -> {}
       [] s = "CANCELLED"     -> {}]

\* States in which the run has a live (or starting) container attempt.
ACTIVE_STATES == {"PREPARING", "LOADING_MODEL", "RUNNING", "WAITING_INPUT", "CANCELLING"}

ACTIVE_CLOCK_STATES_NoLoading == {"PREPARING", "RUNNING"}

\* States that count against the active-time limit.
ACTIVE_CLOCK_STATES == {"PREPARING", "LOADING_MODEL", "RUNNING"}

\* States that end an attempt; FAILED and INTERRUPTED may be retried.
TERMINAL_STATES == {"SUCCEEDED", "FAILED", "CANCELLED", "INTERRUPTED"}

CANCELLABLE_STATES == {"QUEUED", "PREPARING", "LOADING_MODEL", "RUNNING", "WAITING_INPUT"}

\* States the reconciler looks at, and in which a container exit fails the run.
WATCHED_STATES == {"PREPARING", "LOADING_MODEL", "RUNNING", "WAITING_INPUT"}

can_transition(s, t) == t \in TRANSITIONS[s]
=============================================================================
