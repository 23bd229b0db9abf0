----------------------------- MODULE RunService -----------------------------
(***************************************************************************)
(* The run service (crewquarters_shared/runs/service.py) as functions on   *)
(* the durable state of one run.  Every service function runs in one       *)
(* database transaction that holds the run row's lock, so each is an       *)
(* operator from the rows before it, d, to the rows after it.  A call that *)
(* raises rolls its transaction back; the conditions under which it does   *)
(* not raise are the operators named CanXxx.                               *)
(*                                                                         *)
(* d.run   the agent_runs row          d.inp   input_requests by key       *)
(* d.att   run_attempts by number      d.jobs  job rows by kind, attempt   *)
(*                                                                         *)
(* Left out: the event log, the two clocks, audit records, the sizes and   *)
(* schemas of payloads.  heartbeat_expires_at is kept as `fresh`, false    *)
(* once the deadline has passed; capability_token_id as the number of      *)
(* tokens minted for the attempt; an answer as the version of the question *)
(* it was written for.                                                     *)
(***************************************************************************)
EXTENDS RunStates, JobTable, Sequences

CONSTANTS
  MaxAttempt,   \* bound on current_attempt: how often the owner retries
  Keys          \* the input keys the agent asks

ASSUME MaxAttemptAssumption == MaxAttempt \in Nat \ {0}

Attempts == 1..MaxAttempt
Kinds == {"dispatch", "cancel", "stop"}

Run == [state: RunState, cur: Attempts,
        result: {"none", "succeeded", "failed"},
        error: {"none", "agent", "platform", "stop_failed"},
        retryable: BOOLEAN, cancel: BOOLEAN]

\* row: the attempt row exists; ref: runtime_ref is set; ended: ended_at is set;
\* exit: exit_code is set; tok: tokens minted, the last one being accepted.
Attempt == [row: BOOLEAN, ref: BOOLEAN, fresh: BOOLEAN, ended: BOOLEAN,
            exit: BOOLEAN, tok: Nat]

InputStates == {"absent", "pending", "answered", "cancelled", "expired"}
Input == [st: InputStates, att: 0..MaxAttempt, ver: Nat, ans: Nat]

Database == [run: Run, att: [Attempts -> Attempt], inp: [Keys -> Input],
             jobs: [Kinds \X Attempts -> Job]]

NoAttempt == [row |-> FALSE, ref |-> FALSE, fresh |-> FALSE, ended |-> FALSE,
              exit |-> FALSE, tok |-> 0]
NoInput == [st |-> "absent", att |-> 0, ver |-> 0, ans |-> 0]

\* The questions the run waits for, of its current attempt.
Pending(d) == {k \in Keys : d.inp[k].st = "pending"}

\* The rows written: the run's, an attempt's, the questions, the jobs, one job's.
SetRun(d, run) == [d EXCEPT !.run = run]
SetAttempt(d, a, row) == [d EXCEPT !.att = [@ EXCEPT ![a] = row]]
SetInputs(d, inp) == [d EXCEPT !.inp = inp]
SetJobs(d, jobs) == [d EXCEPT !.jobs = jobs]
SetJob(d, j, row) == SetJobs(d, [d.jobs EXCEPT ![j] = row])

\* jobs.enqueue with the dedupe key of (kind, attempt).
Enqueue(d, kind, a) ==
  IF Live(d.jobs[<<kind, a>>]) THEN d ELSE SetJob(d, <<kind, a>>, EnqueuedJob)

\* service.transition, without the legality check (the CanXxx operators carry it), and with
\* the error and the retryable flag it is given.
Moved(d, target) == SetRun(d, [d.run EXCEPT !.state = target])

MovedWith(d, target, error, retryable) ==
  SetRun(d, [state |-> target, cur |-> d.run.cur, result |-> d.run.result,
             error |-> error, retryable |-> retryable, cancel |-> d.run.cancel])

\* attempt.ended_at is set, if there is a row.
Ended(d, a) ==
  IF d.att[a].row THEN SetAttempt(d, a, [d.att[a] EXCEPT !.ended = TRUE]) ELSE d

\* A question in another state; every change of state is a new version.
Versioned(i, state) == [st |-> state, att |-> i.att, ver |-> i.ver + 1, ans |-> i.ans]

close_pending_inputs(d, state) ==
  SetInputs(d, [k \in Keys |->
    IF d.inp[k].st = "pending" THEN Versioned(d.inp[k], state) ELSE d.inp[k]])

resume_if_no_pending(d) ==
  IF d.run.state = "WAITING_INPUT" /\ Pending(d) = {} THEN Moved(d, "RUNNING") ELSE d

\* create_run: the first attempt is queued and its dispatch job enqueued with it.
create_run ==
  [run  |-> [state |-> "QUEUED", cur |-> 1, result |-> "none", error |-> "none",
             retryable |-> FALSE, cancel |-> FALSE],
   att  |-> [a \in Attempts |-> NoAttempt],
   inp  |-> [k \in Keys |-> NoInput],
   jobs |-> [j \in Kinds \X Attempts |->
               IF j = <<"dispatch", 1>> THEN EnqueuedJob ELSE NoJob]]

-----------------------------------------------------------------------------
(* The owner: cancel, retry, answer.                                       *)

request_cancel(d) ==
  LET a == d.run.cur
      flagged == SetRun(d, [d.run EXCEPT !.cancel = TRUE])
      moved == IF d.run.state = "QUEUED"
               THEN Moved(SetJob(flagged, <<"dispatch", a>>,
                                 CancelledJob(d.jobs[<<"dispatch", a>>])), "CANCELLED")
               ELSE Enqueue(Moved(flagged, "CANCELLING"), "cancel", a)
  IN  close_pending_inputs(moved, "cancelled")

CanRetry(d) ==
  \/ d.run.state = "FAILED" /\ d.run.retryable
  \/ d.run.state = "INTERRUPTED"

retry_KeepsError(d) ==
  LET a == d.run.cur + 1
  IN  Enqueue(SetRun(d, [d.run EXCEPT !.state = "QUEUED", !.cur = a]), "dispatch", a)

retry_SameAttempt(d) ==
  Enqueue(MovedWith(d, "QUEUED", "none", FALSE), "dispatch", d.run.cur)

retry(d) ==
  LET a == d.run.cur + 1
  IN  Enqueue(SetRun(d, [state |-> "QUEUED", cur |-> a, result |-> "none", error |-> "none",
                         retryable |-> FALSE, cancel |-> FALSE]),
              "dispatch", a)

CanAnswer_AnyVersion(d, k, v) == d.inp[k].st = "pending"

\* The answer was written for version v of the question; its deadline is not over.
CanAnswer(d, k, v) == d.inp[k].st = "pending" /\ d.inp[k].ver = v

SetInput(d, k, row) == SetInputs(d, [d.inp EXCEPT ![k] = row])

answer(d, k, v) ==
  LET i == d.inp[k]
  IN  resume_if_no_pending(
        SetInput(d, k, [st |-> "answered", att |-> i.att, ver |-> i.ver + 1, ans |-> v]))

-----------------------------------------------------------------------------
(* The agent of attempt a, through the broker.                             *)

CanHandshake(d, a) ==
  /\ d.run.cur = a /\ d.att[a].row
  /\ d.run.state \in {"PREPARING", "RUNNING", "CANCELLING"}

Refreshed(d, a) == SetAttempt(d, a, [d.att[a] EXCEPT !.fresh = TRUE])

handshake(d, a) ==
  Refreshed(IF d.run.state = "PREPARING" THEN Moved(d, "RUNNING") ELSE d, a)

\* A heartbeat of a terminal run is answered, but extends nothing.
CanHeartbeat(d, a) ==
  d.run.cur = a /\ d.att[a].row /\ d.run.state \notin TERMINAL_STATES

heartbeat(d, a) == Refreshed(d, a)

set_model_loading(d, a, loading) ==
  CASE d.run.cur # a -> d
    [] loading /\ d.run.state = "RUNNING" -> Moved(d, "LOADING_MODEL")
    [] ~loading /\ d.run.state = "LOADING_MODEL" -> Moved(d, "RUNNING")
    [] OTHER -> d

CanAsk(d, a) == d.run.cur = a /\ d.run.state \in {"RUNNING", "WAITING_INPUT"}

Reopens_Answered(i, a) == i.st # "pending" /\ i.att < a

\* The request of an earlier attempt that was left cancelled or expired.
Reopens(i, a) == i.st \in {"cancelled", "expired"} /\ i.att < a

ask(d, a, k) ==
  LET i == d.inp[k]
      opened == SetInput(d, k, [st |-> "pending", att |-> a, ver |-> i.ver + 1, ans |-> i.ans])
      asked == IF i.st = "absent" \/ Reopens(i, a) THEN opened ELSE d
  IN  IF asked.inp[k].st = "pending" /\ d.run.state = "RUNNING"
      THEN Moved(asked, "WAITING_INPUT") ELSE asked

\* "succeeded" cannot be reached from PREPARING; the post is then refused.
CanFinish(d, a, status) ==
  /\ d.run.cur = a
  /\ ~(d.run.state = "PREPARING" /\ status = "succeeded")
  /\ d.run.state # "QUEUED"

finish_LastWins(d, a, status, retryable) ==
  LET posted == SetRun(Ended(d, a), [d.run EXCEPT !.result = status])
  IN  CASE d.run.state = "CANCELLING" -> Moved(posted, "CANCELLED")
        [] OTHER -> close_pending_inputs(
                      IF status = "succeeded" THEN Moved(posted, "SUCCEEDED")
                      ELSE MovedWith(posted, "FAILED", "agent", retryable),
                      "cancelled")

finish(d, a, status, retryable) ==
  LET ended == Ended(d, a)
      posted == SetRun(ended, [d.run EXCEPT !.result = status])
  IN  CASE d.run.state \in TERMINAL_STATES -> ended
        [] d.run.state = "CANCELLING" -> Moved(posted, "CANCELLED")
        [] OTHER -> close_pending_inputs(
                      IF status = "succeeded" THEN Moved(posted, "SUCCEEDED")
                      ELSE MovedWith(posted, "FAILED", "agent", retryable),
                      "cancelled")

-----------------------------------------------------------------------------
(* The platform: dispatch, failures, deadlines, dead jobs.                 *)

\* begin_attempt: QUEUED -> PREPARING and the attempt row, unless it exists.
begin_attempt(d) ==
  LET a == d.run.cur
  IN  Moved(IF d.att[a].row THEN d
            ELSE SetAttempt(d, a, [row |-> TRUE, ref |-> FALSE, fresh |-> TRUE,
                                   ended |-> FALSE, exit |-> FALSE, tok |-> 0]),
            "PREPARING")

fail_run_InputsOpen(d, retryable, target) ==
  LET a == d.run.cur
      stops == d.att[a].row /\ ~d.att[a].ended /\ d.att[a].ref
      ended == Ended(MovedWith(d, target, "platform", retryable), a)
  IN  IF ~can_transition(d.run.state, target) THEN d
      ELSE IF stops THEN Enqueue(ended, "stop", a) ELSE ended

fail_run_NoStop(d, retryable, target) ==
  IF ~can_transition(d.run.state, target) THEN d
  ELSE close_pending_inputs(
         Ended(MovedWith(d, target, "platform", retryable), d.run.cur), "cancelled")

fail_run(d, retryable, target) ==
  LET a == d.run.cur
      stops == d.att[a].row /\ ~d.att[a].ended /\ d.att[a].ref
      ended == Ended(MovedWith(d, target, "platform", retryable), a)
  IN  IF can_transition(d.run.state, target)
      THEN close_pending_inputs(IF stops THEN Enqueue(ended, "stop", a) ELSE ended,
                                "cancelled")
      ELSE d

\* The runtime saw the container of attempt a exit.
record_container_exit(d, a) ==
  LET recorded == SetAttempt(d, a, [d.att[a] EXCEPT !.exit = TRUE])
  IN  CASE ~d.att[a].ref -> d
        [] d.att[a].ref /\ d.run.cur = a /\ d.run.state \in WATCHED_STATES ->
             fail_run(recorded, TRUE, "FAILED")
        [] OTHER -> recorded

\* expire_inputs: `due` are the requests whose deadline has passed.
expire_inputs(d, due) ==
  resume_if_no_pending(
    SetInputs(d, [k \in Keys |->
      IF k \in due THEN Versioned(d.inp[k], "expired") ELSE d.inp[k]]))

\* One run of reconciler.tick's loop: the input-wait budget, then the deadlines of its
\* questions, then the active-time limit, then the heartbeat deadline.
reconcile_run(d, due, spent) ==
  CASE d.run.state = "WAITING_INPUT" /\ spent -> fail_run(d, FALSE, "FAILED")
    [] d.run.state = "WAITING_INPUT" /\ ~spent /\ due # {} -> expire_inputs(d, due)
    [] d.run.state \in ACTIVE_CLOCK_STATES /\ spent -> fail_run(d, FALSE, "FAILED")
    [] /\ d.run.state \in WATCHED_STATES /\ ~spent
       /\ ~(d.run.state = "WAITING_INPUT" /\ due # {})
       /\ d.att[d.run.cur].row /\ ~d.att[d.run.cur].fresh -> fail_run(d, TRUE, "INTERRUPTED")
    [] OTHER -> d

on_dead_job_NotCancel(d, dead) ==
  IF <<"dispatch", d.run.cur>> \in dead /\ d.run.state \in {"QUEUED", "PREPARING"}
  THEN fail_run(Moved(d, "PREPARING"), TRUE, "FAILED") ELSE d

\* on_dead_job for the jobs in `dead`; only those of the current attempt matter.
on_dead_job(d, dead) ==
  CASE <<"dispatch", d.run.cur>> \in dead /\ d.run.state \in {"QUEUED", "PREPARING"} ->
         fail_run(Moved(d, "PREPARING"), TRUE, "FAILED")
    [] <<"cancel", d.run.cur>> \in dead /\ d.run.state = "CANCELLING" ->
         MovedWith(d, "CANCELLED", "stop_failed", d.run.retryable)
    [] OTHER -> d
=============================================================================
