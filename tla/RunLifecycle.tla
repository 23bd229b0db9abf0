---------------------------- MODULE RunLifecycle ----------------------------
(***************************************************************************)
(* One run from its creation to its end: the owner, the worker loops that  *)
(* execute its jobs, the reconciler, the exit watcher, the runtime daemon  *)
(* with the attempts' containers, and the agents in them.                  *)
(*                                                                         *)
(* A database transaction is one step.  Between the transactions of a      *)
(* handler (worker.py), and around its runtime calls, everybody else may   *)
(* act.  The run row's lock is held across a runtime call in one place     *)
(* only (handle_cancel's second stop, worker.py:234): while a loop is      *)
(* there every transaction that locks the row waits.                       *)
(***************************************************************************)
EXTENDS RunService, FiniteSets, TLC

CONSTANTS
  Loops,    \* worker loops (worker_concurrency of them in each process)
  Faults    \* what the environment may do, a subset of AllFaults

AllFaults ==
  {"exit",           \* an agent's process ends (also by itself, after its result)
   "crash",          \* a worker process dies and restarts
   "lapse",          \* a lease runs out while its loop still works
   "runtime_error",  \* a runtime call fails or times out
   "busy_row",       \* another transaction holds the run row during a tick
   "gateway_reap"}   \* the model gateway's leader reaps the lease first

ASSUME FaultsAssumption == Faults \subseteq AllFaults
\* A worker process is given as the set of its loops.
ASSUME LoopsAssumption == \A l \in Loops : \E w \in Workers : l \in w

\* The process of a loop; its loops share one worker_id.
ProcOf == [l \in Loops |-> CHOOSE w \in Workers : l \in w]

\* For TLC, sound for the loops of one process: nothing tells them apart.
LoopSymmetry == Permutations(Loops)

VARIABLES
  db,     \* the rows of the run (RunService)
  loop,   \* each loop: where it is, its job, the token it minted, the ref it read
  box,    \* each attempt's container in the runtime, with the token in its environment
  pull,   \* each attempt's start_run calls the daemon still serves though the caller gave up
  call,   \* each attempt's agent request that the broker authorized and forwarded
  form,   \* the version of each question in the owner's open form
  seen    \* the attempt whose exit the watcher observed and did not record yet (0: none)

vars == <<db, loop, box, pull, call, form, seen>>

Working(pc, j, tok, ref) == [pc |-> pc, job |-> j, tok |-> tok, ref |-> ref]
Idle == Working("idle", <<"stop", 1>>, 0, FALSE)
NoBox == [st |-> "none", tok |-> 0]

Pcs == {"idle", "handle", "start", "record", "stop_now", "stop_first", "cancel",
        "locked_stop", "stop", "ok", "err"}

\* Rows, loops, containers, requests and forms have their types.
TypeOK ==
  /\ db \in Database
  /\ loop \in [Loops -> [pc: Pcs, job: Kinds \X Attempts, tok: Nat, ref: BOOLEAN]]
  /\ box \in [Attempts -> [st: {"none", "running", "exited"}, tok: Nat]]
  /\ pull \in [Attempts -> SUBSET Nat]
  /\ call \in [Attempts -> {"none", "active", "finished"}]
  /\ form \in [Keys -> Nat]
  /\ seen \in 0..MaxAttempt

Init ==
  /\ db = create_run
  /\ loop = [l \in Loops |-> Idle]
  /\ box = [a \in Attempts |-> NoBox]
  /\ pull = [a \in Attempts |-> {}]
  /\ call = [a \in Attempts |-> "none"]
  /\ form = [k \in Keys |-> 0]
  /\ seen = 0

RowFree == \A l \in Loops : loop[l].pc # "locked_stop"

-----------------------------------------------------------------------------
(* The owner.                                                              *)

Cancel ==
  /\ RowFree
  /\ db.run.state \in CANCELLABLE_STATES
  /\ db' = request_cancel(db)
  /\ UNCHANGED <<loop, box, pull, call, form, seen>>

Retry ==
  /\ RowFree
  /\ CanRetry(db)
  /\ db.run.cur < MaxAttempt
  /\ db' = retry(db)
  /\ UNCHANGED <<loop, box, pull, call, form, seen>>

\* The owner loads the question; the form keeps the version it shows.
OpenForm(k) ==
  /\ db.inp[k].st = "pending" /\ form[k] # db.inp[k].ver
  /\ form' = [form EXCEPT ![k] = db.inp[k].ver]
  /\ UNCHANGED <<db, loop, box, pull, call, seen>>

Answer(k) ==
  /\ RowFree
  /\ form[k] > 0
  /\ CanAnswer(db, k, form[k])
  /\ db' = answer(db, k, form[k])
  /\ UNCHANGED <<loop, box, pull, call, form, seen>>

-----------------------------------------------------------------------------
(* The agent.  The broker authorizes a request against the run it reads    *)
(* (no lock), then forwards it; what happens in between is not rechecked   *)
(* except by the service function itself.                                  *)

authorize(a) ==
  /\ box[a].st = "running" /\ call[a] = "none"
  /\ db.run.cur = a /\ db.att[a].tok = box[a].tok
  /\ \/ db.run.state \in ACTIVE_STATES /\ call' = [call EXCEPT ![a] = "active"]
     \/ db.run.state \in TERMINAL_STATES /\ call' = [call EXCEPT ![a] = "finished"]
  /\ UNCHANGED <<db, loop, box, pull, form, seen>>

\* A forwarded request that changes nothing: refused by the service, or lost.
Dropped(a) ==
  /\ call[a] # "none"
  /\ call' = [call EXCEPT ![a] = "none"]
  /\ UNCHANGED <<db, loop, box, pull, form, seen>>

Serve(a, d) ==
  /\ RowFree
  /\ db' = d
  /\ call' = [call EXCEPT ![a] = "none"]
  /\ UNCHANGED <<loop, box, pull, form, seen>>

Handshake(a) == call[a] = "active" /\ CanHandshake(db, a) /\ Serve(a, handshake(db, a))

Heartbeat(a) == call[a] # "none" /\ CanHeartbeat(db, a) /\ Serve(a, heartbeat(db, a))

Ask(a, k) == call[a] = "active" /\ CanAsk(db, a) /\ Serve(a, ask(db, a, k))

Finish(a, status, retryable) ==
  /\ call[a] # "none"
  /\ CanFinish(db, a, status)
  /\ Serve(a, finish(db, a, status, retryable))

\* The model gateway's signals for an inference call of the attempt.
ModelLoading(a) == call[a] = "active" /\ Serve(a, set_model_loading(db, a, TRUE))

ModelLoaded(a) ==
  /\ RowFree
  /\ db.run.state = "LOADING_MODEL"
  /\ db' = set_model_loading(db, a, FALSE)
  /\ UNCHANGED <<loop, box, pull, call, form, seen>>

\* The heartbeat deadline passes.
Lapse(a) ==
  /\ db.run.cur = a /\ db.att[a].fresh /\ db.run.state \in WATCHED_STATES
  /\ db' = SetAttempt(db, a, [db.att[a] EXCEPT !.fresh = FALSE])
  /\ UNCHANGED <<loop, box, pull, call, form, seen>>

-----------------------------------------------------------------------------
(* Worker loops.                                                           *)

At(l, pc) == loop[l].pc = pc
JobOf(l) == loop[l].job
AttemptOf(l) == loop[l].job[2]
Goto(l, pc) ==
  loop' = [loop EXCEPT ![l] = Working(pc, loop[l].job, loop[l].tok, loop[l].ref)]

Claim(l, j) ==
  /\ At(l, "idle")
  /\ db.jobs[j].st = "available"
  /\ db' = SetJob(db, j, ClaimedJob(db.jobs[j], ProcOf[l]))
  /\ loop' = [loop EXCEPT ![l] = Working("handle", j, 0, FALSE)]
  /\ UNCHANGED <<box, pull, call, form, seen>>

\* handle_dispatch, phase 1.
Dispatchable(a) == db.run.cur = a /\ db.run.state \in {"QUEUED", "PREPARING"}

DispatchStale(l) ==
  /\ At(l, "handle") /\ JobOf(l)[1] = "dispatch" /\ RowFree
  /\ ~Dispatchable(AttemptOf(l))
  /\ Goto(l, "ok")
  /\ UNCHANGED <<db, box, pull, call, form, seen>>

\* The installation was disabled or removed, or needs reapproval.
DispatchRefused(l) ==
  /\ At(l, "handle") /\ JobOf(l)[1] = "dispatch" /\ RowFree
  /\ Dispatchable(AttemptOf(l))
  /\ db' = fail_run(begin_attempt(db), FALSE, "FAILED")
  /\ Goto(l, "ok")
  /\ UNCHANGED <<box, pull, call, form, seen>>

\* A previous worker already recorded the container.
DispatchResumed(l) ==
  /\ At(l, "handle") /\ JobOf(l)[1] = "dispatch" /\ RowFree
  /\ Dispatchable(AttemptOf(l)) /\ db.att[AttemptOf(l)].ref
  /\ db' = begin_attempt(db)
  /\ Goto(l, "ok")
  /\ UNCHANGED <<box, pull, call, form, seen>>

\* A token is minted and becomes the attempt's accepted token.
DispatchPrepare(l) ==
  LET a == AttemptOf(l)
      tok == db.att[a].tok + 1
  IN  /\ At(l, "handle") /\ JobOf(l)[1] = "dispatch" /\ RowFree
      /\ Dispatchable(a) /\ ~db.att[a].ref
      /\ LET d == begin_attempt(db)
         IN  db' = SetAttempt(d, a, [d.att[a] EXCEPT !.tok = tok])
      /\ loop' = [loop EXCEPT ![l] = Working("start", JobOf(l), tok, FALSE)]
      /\ UNCHANGED <<box, pull, call, form, seen>>

\* The daemon's start_run is idempotent on the container's name: an existing
\* container is returned as it is, with the environment it was created with.
start_run(a, tok) ==
  IF box[a].st = "none" THEN [box EXCEPT ![a] = [st |-> "running", tok |-> tok]] ELSE box

StartRun(l) ==
  /\ At(l, "start")
  /\ box' = start_run(AttemptOf(l), loop[l].tok)
  /\ loop' = [loop EXCEPT ![l] = Working("record", JobOf(l), 0, FALSE)]
  /\ UNCHANGED <<db, pull, call, form, seen>>

\* The call is refused, or the caller gives up after 30 s while the daemon still serves
\* the request (it may be pulling the image).
StartRunFails(l) ==
  /\ "runtime_error" \in Faults
  /\ At(l, "start")
  /\ \/ UNCHANGED pull
     \/ pull' = [pull EXCEPT ![AttemptOf(l)] = @ \union {loop[l].tok}]
  /\ loop' = [loop EXCEPT ![l] = Working("err", JobOf(l), 0, FALSE)]
  /\ UNCHANGED <<db, box, call, form, seen>>

PullEnds(a, tok) ==
  /\ tok \in pull[a]
  /\ box' \in {box, start_run(a, tok)}
  /\ pull' = [pull EXCEPT ![a] = @ \ {tok}]
  /\ UNCHANGED <<db, loop, call, form, seen>>

RecordRef_As(l, over) ==
  LET a == AttemptOf(l)
  IN  /\ At(l, "record") /\ RowFree
      /\ db' = SetAttempt(db, a, [db.att[a] EXCEPT !.ref = TRUE])
      /\ Goto(l, IF over THEN "stop_now" ELSE "ok")
      /\ UNCHANGED <<box, pull, call, form, seen>>

RecordRef_StopsUnlessRunning(l) == RecordRef_As(l, db.run.state # "RUNNING")

\* handle_dispatch, phase 2: the reference is recorded, and a container whose run ended
\* in the meantime is to be stopped.
RecordRef(l) ==
  LET a == AttemptOf(l)
      r == db.att[a]
      fresh == r.fresh \/ (~r.ref /\ db.run.state = "PREPARING")
      over == db.run.cur # a \/ db.run.state \in {"CANCELLED", "FAILED", "INTERRUPTED"}
  IN  /\ At(l, "record") /\ RowFree
      /\ db' = SetAttempt(db, a, [row |-> r.row, ref |-> TRUE, fresh |-> fresh,
                                  ended |-> r.ended, exit |-> r.exit, tok |-> r.tok])
      /\ Goto(l, IF over THEN "stop_now" ELSE "ok")
      /\ UNCHANGED <<box, pull, call, form, seen>>

\* handle_cancel: an unlocked read, the stop, then the locked recheck.
CancelRead(l) ==
  LET ref == db.att[db.run.cur].ref
      stopping == db.run.state = "CANCELLING"
  IN  /\ At(l, "handle") /\ JobOf(l)[1] = "cancel"
      /\ loop' = [loop EXCEPT ![l] = Working(
           CASE ~stopping -> "ok"
             [] stopping /\ ref -> "stop_first"
             [] OTHER -> "cancel", JobOf(l), 0, ref)]
      /\ UNCHANGED <<db, box, pull, call, form, seen>>

Cancelled(d) == Moved(Ended(d, d.run.cur), "CANCELLED")

CancelCommit(l) ==
  LET late == db.att[db.run.cur].ref /\ ~loop[l].ref
  IN  /\ At(l, "cancel") /\ RowFree
      /\ CASE db.run.state # "CANCELLING" -> Goto(l, "ok") /\ UNCHANGED db
           [] db.run.state = "CANCELLING" /\ late -> Goto(l, "locked_stop") /\ UNCHANGED db
           [] OTHER -> Goto(l, "ok") /\ db' = Cancelled(db)
      /\ UNCHANGED <<box, pull, call, form, seen>>

\* handle_stop reads its own attempt's reference without a lock.
StopRead(l) ==
  /\ At(l, "handle") /\ JobOf(l)[1] = "stop"
  /\ Goto(l, IF db.att[AttemptOf(l)].ref THEN "stop" ELSE "ok")
  /\ UNCHANGED <<db, box, pull, call, form, seen>>

\* The attempt whose container a loop is about to stop (handle_cancel uses the current one).
Target(l) == IF JobOf(l)[1] = "cancel" THEN db.run.cur ELSE AttemptOf(l)

Stopping(l) == loop[l].pc \in {"stop_now", "stop_first", "locked_stop", "stop"}

\* runtime.stop_run: SIGTERM, SIGKILL after the grace period, then the removal.
StopRun(l) ==
  /\ Stopping(l)
  /\ box' = [box EXCEPT ![Target(l)] = NoBox]
  /\ Goto(l, IF At(l, "stop_first") THEN "cancel" ELSE "ok")
  /\ db' = IF At(l, "locked_stop") THEN Cancelled(db) ELSE db
  /\ UNCHANGED <<pull, call, form, seen>>

\* The call fails, before or after the container went away; nothing is committed.
StopRunFails(l) ==
  /\ "runtime_error" \in Faults
  /\ Stopping(l)
  /\ box' \in {box, [box EXCEPT ![Target(l)] = NoBox]}
  /\ Goto(l, "err")
  /\ UNCHANGED <<db, pull, call, form, seen>>

\* execute: the handler returned.
Complete(l) ==
  /\ At(l, "ok")
  /\ db' = SetJob(db, JobOf(l), CompletedJob(db.jobs[JobOf(l)], ProcOf[l]))
  /\ loop' = [loop EXCEPT ![l] = Idle]
  /\ UNCHANGED <<box, pull, call, form, seen>>

\* _fail: the handler raised.  A failed runtime call is a plain exception, hence retryable;
\* a job that dies settles its run.
Fail(l) ==
  LET j == FailedJob(db.jobs[JobOf(l)], ProcOf[l], TRUE)
      d == SetJob(db, JobOf(l), j)
      dies == Owned(db.jobs[JobOf(l)], ProcOf[l]) /\ j.st = "dead"
  IN  /\ At(l, "err") /\ (dies => RowFree)
      /\ db' = IF dies THEN on_dead_job(d, {JobOf(l)}) ELSE d
      /\ loop' = [loop EXCEPT ![l] = Idle]
      /\ UNCHANGED <<box, pull, call, form, seen>>

\* A worker process dies with its loops and its exit watcher, and restarts.
Crash(p) ==
  /\ "crash" \in Faults
  /\ \E l \in Loops : ProcOf[l] = p /\ ~At(l, "idle")
  /\ loop' = [l \in Loops |-> IF ProcOf[l] = p THEN Idle ELSE loop[l]]
  /\ seen' = 0
  /\ UNCHANGED <<db, box, pull, call, form>>

-----------------------------------------------------------------------------
(* The reconciler, the exit watcher, the daemon.                           *)

Renewed(j) == \E l \in Loops : ~At(l, "idle") /\ JobOf(l) = j /\ ProcOf[l] = db.jobs[j].owner

\* A lease runs out when nobody renews it, or in spite of it.
Expirable == {j \in Kinds \X Attempts :
                db.jobs[j].st = "claimed" /\ (Renewed(j) => "lapse" \in Faults)}

reap_expired(d, lapsed) ==
  SetJobs(d, [j \in Kinds \X Attempts |->
    IF j \in lapsed THEN ReapedJob(d.jobs[j]) ELSE d.jobs[j]])

\* reconciler.tick, one transaction.  A run whose row is locked by someone else is
\* skipped, by on_dead_job (wait_for_lock=False) and by the query (skip_locked).
Tick(lapsed, due, spent, skip) ==
  LET reaped == reap_expired(db, lapsed)
      dead == {j \in lapsed : reaped.jobs[j].st = "dead"}
  IN  /\ skip = FALSE => RowFree
      /\ db' = IF skip THEN reaped ELSE reconcile_run(on_dead_job(reaped, dead), due, spent)
      /\ UNCHANGED <<loop, box, pull, call, form, seen>>

Reconcile ==
  \E lapsed \in SUBSET Expirable, due \in SUBSET Pending(db), spent, skip \in BOOLEAN :
    /\ skip => ~RowFree \/ "busy_row" \in Faults
    /\ Tick(lapsed, due, spent, skip)

\* The tick at which everything that can be overdue is.
ReconcileAll == Tick(Expirable, Pending(db), TRUE, FALSE)

\* The model gateway's leader reaps every queue's leases and drops the list of dead jobs.
GatewayReap ==
  /\ "gateway_reap" \in Faults
  /\ \E lapsed \in SUBSET Expirable : db' = reap_expired(db, lapsed)
  /\ UNCHANGED <<loop, box, pull, call, form, seen>>

\* exits.tick selects attempts and asks the runtime without a lock; _record locks the row
\* afterwards.  The select and the answer are one step: an exited container stays exited, so
\* what counts is the time between the answer and the record.
ObserveExit(a) ==
  /\ seen = 0 /\ box[a].st = "exited"
  /\ db.att[a].ref /\ ~db.att[a].exit
  /\ \/ db.run.cur = a /\ db.run.state \in ACTIVE_STATES
     \/ db.att[a].ended
  /\ seen' = a
  /\ UNCHANGED <<db, loop, box, pull, call, form>>

RecordExit ==
  /\ seen # 0 /\ RowFree
  /\ db' = record_container_exit(db, seen)
  /\ seen' = 0
  /\ UNCHANGED <<loop, box, pull, call, form>>

\* The agent's process ends, by itself or killed by the kernel, and its token with it.
ContainerExits(a) ==
  /\ "exit" \in Faults
  /\ box[a].st = "running"
  /\ box' = [box EXCEPT ![a] = [st |-> "exited", tok |-> 0]]
  /\ UNCHANGED <<db, loop, pull, call, form, seen>>

\* The daemon removes exited containers after ten minutes.
gc(a) ==
  /\ box[a].st = "exited"
  /\ box' = [box EXCEPT ![a] = NoBox]
  /\ UNCHANGED <<db, loop, pull, call, form, seen>>

-----------------------------------------------------------------------------
Owner == Cancel \/ Retry \/ \E k \in Keys : OpenForm(k) \/ Answer(k)

Agent(a) ==
  \/ authorize(a) \/ Dropped(a)
  \/ Handshake(a) \/ Heartbeat(a)
  \/ \E k \in Keys : Ask(a, k)
  \/ \E status \in {"succeeded", "failed"}, retryable \in BOOLEAN : Finish(a, status, retryable)
  \/ ModelLoading(a) \/ ModelLoaded(a)
  \/ Lapse(a)

Step(l) ==
  \/ DispatchStale(l) \/ DispatchRefused(l) \/ DispatchResumed(l) \/ DispatchPrepare(l)
  \/ StartRun(l) \/ RecordRef(l)
  \/ CancelRead(l) \/ CancelCommit(l)
  \/ StopRead(l) \/ StopRun(l)
  \/ Complete(l) \/ Fail(l)

Loop(l) ==
  \/ \E j \in Kinds \X Attempts : Claim(l, j)
  \/ Step(l)
  \/ StartRunFails(l) \/ StopRunFails(l)

Daemon(a) == (\E tok \in pull[a] : PullEnds(a, tok)) \/ ContainerExits(a) \/ gc(a)

Next ==
  \/ Owner
  \/ \E a \in Attempts : Agent(a) \/ Daemon(a) \/ ObserveExit(a)
  \/ \E l \in Loops : Loop(l)
  \/ \E p \in Workers : Crash(p)
  \/ Reconcile \/ GatewayReap \/ RecordExit

Spec == Init /\ [][Next]_vars

\* What the code's scheduling gives: a loop that holds a job goes on with it, an available
\* job is claimed while a loop is free, and the leader ticks again and again, in the end
\* after every lease, deadline and budget of the run has passed.  Nothing is assumed of the
\* agent, the owner, the exit watcher or the containers.
Fairness ==
  /\ \A l \in Loops : WF_vars(Step(l))
  /\ WF_vars(\E l \in Loops, j \in Kinds \X Attempts : Claim(l, j))
  /\ WF_vars(ReconcileAll)

FairSpec == Spec /\ Fairness

-----------------------------------------------------------------------------
(* Safety.                                                                 *)

\* The run waits for input exactly while a question is open, and an open question was
\* asked by the current attempt: ask, answer, expire_inputs and the four places that close
\* questions (cancel, finish, fail_run, the input budget) keep the two in step, across
\* retries too.  Otherwise a run waits for nobody, or works on with the owner's form open.
InputsMatchRun ==
  /\ db.run.state = "WAITING_INPUT" <=> Pending(db) # {}
  /\ \A k \in Keys : db.inp[k].st = "pending" => db.inp[k].att = db.run.cur

\* An answer is stored only for the wording it was written for: the version the owner's
\* form showed is the one the question still had (answer's version check; a retried
\* attempt may have reopened the same key with another prompt, service.py:728-736).
AnswerFitsQuestion ==
  \A k \in Keys : db.inp[k].st = "answered" => db.inp[k].ans + 1 = db.inp[k].ver

\* What the owner reads about an ended run is about that attempt and complete: success
\* carries a result and no error, failure an error, cancellation was asked for, and an
\* unfinished attempt shows nothing of the one before (retry clears it).
OutcomeExplained ==
  LET r == db.run
  IN  /\ r.state = "SUCCEEDED" => r.result = "succeeded" /\ r.error = "none"
      /\ r.state \in {"FAILED", "INTERRUPTED"} => r.error \in {"agent", "platform"}
      /\ r.state \in {"CANCELLING", "CANCELLED"} <=> r.cancel
      /\ r.state \notin TERMINAL_STATES => r.result = "none" /\ r.error = "none"

\* The platform never stops the container of a run that still works on that attempt
\* (service.py:634-636 reads an unflagged SIGKILL as an out-of-memory kill because of it).
StopsOnlyEnded ==
  \A l \in Loops : Stopping(l) =>
    ~(db.run.cur = Target(l) /\ db.run.state \in WATCHED_STATES)

\* A dead dispatch or cancel job has settled its run (on_dead_job): the run is not left
\* queued, or cancelling, with nobody to move it.
DeadJobsSettle ==
  /\ db.jobs[<<"dispatch", db.run.cur>>].st = "dead" => db.run.state # "QUEUED"
  /\ db.jobs[<<"cancel", db.run.cur>>].st = "dead" => db.run.state # "CANCELLING"

\* The platform ended the run (timeout, lost heartbeat, dead job, cancellation), rather
\* than the agent by posting its result.
EndedByPlatform ==
  \/ db.run.state \in {"FAILED", "INTERRUPTED"} /\ db.run.error = "platform"
  \/ db.run.state = "CANCELLED" /\ db.run.result = "none" /\ db.run.error = "none"

\* The container of a run that works holds the token the broker accepts, so its agent can
\* reach the platform (ADR 0006: the token is rejected only once the run is inactive or
\* the attempt is not current).
TokenAccepted ==
  db.run.state \in WATCHED_STATES /\ box[db.run.cur].st = "running" =>
    box[db.run.cur].tok = db.att[db.run.cur].tok

-----------------------------------------------------------------------------
(* What a step may never do.                                               *)

\* The first outcome of an attempt wins: once the run has ended, nothing but the owner's
\* retry changes its row; late results, heartbeats, exits, timeouts, cancels and dead jobs
\* do not (finish's "first one wins", fail_run's early return).
OutcomeIsFinal ==
  [][db.run.state \in TERMINAL_STATES /\ db'.run.cur = db.run.cur => db'.run = db.run]_vars

\* An answer once given stays, through cancellation, expiry, failure and retry, so that a
\* retried attempt that asks the same key receives it (ask).
AnswersKept ==
  [][\A k \in Keys : db.inp[k].st = "answered" => db'.inp[k] = db.inp[k]]_vars

\* What the owner may rely on (RunContract), of the run row and the stored answers.
Contract == INSTANCE RunContract WITH
  state <- db.run.state,
  attempt <- db.run.cur,
  answered <- {k \in Keys : db.inp[k].st = "answered"}

\* The workers, timers, watchers and agents together implement the contract: every step of
\* theirs is, on the run row and the stored answers, one of its moves or none.
MeetsContract == Contract!Spec

-----------------------------------------------------------------------------
(* Liveness, under Fairness.                                               *)

\* Every run ends, whatever its agent does.
RunEnds == db.run.state \notin TERMINAL_STATES ~> db.run.state \in TERMINAL_STATES

\* A cancellation that is under way comes to its end.
CancelSettles == db.run.state = "CANCELLING" ~> db.run.state = "CANCELLED"

\* The container of a run that the platform ended stops and is not started again.
ContainerStops ==
  \A a \in Attempts :
    (db.run.cur = a /\ EndedByPlatform) ~> [](box[a].st # "running")
=============================================================================
