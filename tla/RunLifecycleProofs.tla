------------------------- MODULE RunLifecycleProofs -------------------------
(***************************************************************************)
(* The life cycle of a run, for any number of loops, processes, retries,   *)
(* tries and questions, and whatever faults the environment shows.         *)
(*                                                                         *)
(* IInv: rows and loops have their types, the run waits exactly while a    *)
(* question is open, and (LockHeld) the run stays CANCELLING while a       *)
(* cancel job makes a runtime call with the row locked, after which it     *)
(* commits CANCELLED without looking again. Neither InputsMatchRun nor     *)
(* OutcomeIsFinal is inductive without that.                               *)
(*                                                                         *)
(* CInv adds that the run row explains its state and that answers fit      *)
(* their questions. Every step Obeys the contract (RunServiceProofs), from *)
(* which follow the theorems about outcomes and answers and the refinement *)
(* of RunContract.                                                         *)
(***************************************************************************)
EXTENDS RunLifecycle, RunServiceProofs

\* The rest of the type invariant: everything but the rows.
RestOK ==
  /\ loop \in [Loops -> [pc: Pcs, job: Kinds \X Attempts, tok: Nat, ref: BOOLEAN]]
  /\ box \in [Attempts -> [st: {"none", "running", "exited"}, tok: Nat]]
  /\ pull \in [Attempts -> SUBSET Nat]
  /\ call \in [Attempts -> {"none", "active", "finished"}]
  /\ form \in [Keys -> Nat]
  /\ seen \in 0..MaxAttempt

\* One loop at most holds the run row across a runtime call, and the run stays CANCELLING.
LockHeld ==
  \A l \in Loops : At(l, "locked_stop") =>
    /\ db.run.state = "CANCELLING"
    /\ \A m \in Loops : At(m, "locked_stop") => m = l

IInv == Sound(db) /\ RestOK /\ LockHeld

\* What each step owes.
Preserves == IInv' /\ KeepsOutcome(db, db')

\* The process of a loop is one of the worker processes.
LEMMA ProcOfType == ProcOf \in [Loops -> Workers]
<1>1. ASSUME NEW l \in Loops PROVE (CHOOSE w \in Workers : l \in w) \in Workers
  BY Zenon, LoopsAssumption
<1>2. QED
  BY Zenon, <1>1 DEF ProcOf

\* The invariant contains what it is for.
LEMMA InvariantImplies == IInv => TypeOK /\ InputsMatchRun
  BY Zenon DEF IInv, Sound, Typed, InputsOK, RestOK, TypeOK, InputsMatchRun, Pending

-----------------------------------------------------------------------------
(* Steps by what they write.                                               *)

\* No loop enters the locked call, and the run's state changes only with the row free.
LEMMA LockLemma ==
  ASSUME LockHeld,
         \A l \in Loops : loop'[l].pc = "locked_stop" => loop[l].pc = "locked_stop",
         RowFree \/ db'.run.state = db.run.state
  PROVE  LockHeld'
  BY Zenon DEF LockHeld, RowFree, At

\* A transaction on the rows with the row free, other components aside.
LEMMA RowStep ==
  ASSUME IInv, Keeps(db, db'), RowFree \/ db'.run.state = db.run.state,
         UNCHANGED loop, RestOK'
  PROVE  Preserves
  BY Zenon, LockLemma DEF Preserves, IInv, Keeps

\* A step that leaves the rows alone.
LEMMA QuietStep ==
  ASSUME IInv, UNCHANGED db, RestOK',
         \A l \in Loops : loop'[l].pc = "locked_stop" => loop[l].pc = "locked_stop"
  PROVE  Preserves
  BY Zenon, LockLemma DEF Preserves, IInv, KeepsOutcome

\* A loop's new entry, for a loop that goes anywhere but into the locked call.
LEMMA LoopLemma ==
  ASSUME RestOK, NEW l \in Loops, NEW pc \in Pcs, NEW j \in Kinds \X Attempts,
         NEW tok \in Nat, NEW ref \in BOOLEAN,
         loop' = [loop EXCEPT ![l] = Working(pc, j, tok, ref)]
  PROVE  /\ loop' \in [Loops -> [pc: Pcs, job: Kinds \X Attempts, tok: Nat, ref: BOOLEAN]]
         /\ loop'[l].pc = pc
         /\ \A m \in Loops : m # l => loop'[m] = loop[m]
  BY Zenon DEF RestOK, Working

\* The same for Goto.
LEMMA GotoLemma ==
  ASSUME RestOK, NEW l \in Loops, NEW pc \in Pcs, Goto(l, pc)
  PROVE  /\ loop' \in [Loops -> [pc: Pcs, job: Kinds \X Attempts, tok: Nat, ref: BOOLEAN]]
         /\ loop'[l].pc = pc
         /\ \A m \in Loops : m # l => loop'[m] = loop[m]
<1>1. loop[l] \in [pc: Pcs, job: Kinds \X Attempts, tok: Nat, ref: BOOLEAN]
  BY Zenon DEF RestOK
<1>2. loop[l].job \in Kinds \X Attempts /\ loop[l].tok \in Nat /\ loop[l].ref \in BOOLEAN
  BY Zenon, <1>1
<1> QED BY Zenon, <1>2, LoopLemma DEF Goto

\* A loop's step that also writes the rows.
LEMMA LoopStep ==
  ASSUME IInv, Keeps(db, db'), RowFree \/ db'.run.state = db.run.state, RestOK',
         NEW l \in Loops, loop'[l].pc # "locked_stop",
         \A m \in Loops : m # l => loop'[m] = loop[m]
  PROVE  Preserves
  BY Zenon, LockLemma DEF Preserves, IInv, Keeps

\* Nothing written is nothing lost.
LEMMA KeepsSame == ASSUME NEW d, Sound(d) PROVE Keeps(d, d)
  BY Zenon DEF Keeps, KeepsOutcome

-----------------------------------------------------------------------------
(* The owner and the agent.                                                *)

\* Cancelling, retrying, opening a form, answering.
LEMMA OwnerStep == ASSUME IInv, Owner PROVE Preserves
<1> USE DEF IInv
<1>1. CASE Cancel
  BY Zenon, <1>1, RequestCancelLemma, RowStep DEF Cancel, RestOK
<1>2. CASE Retry
  BY Zenon, <1>2, RetryLemma, RowStep DEF Retry, RestOK
<1>3. ASSUME NEW k \in Keys, OpenForm(k) PROVE Preserves
  <2>1. db.inp[k].ver \in Nat
    BY Zenon, Parts DEF Sound, Typed, Input
  <2> QED BY Zenon, <1>3, <2>1, QuietStep DEF OpenForm, RestOK
<1>4. ASSUME NEW k \in Keys, Answer(k) PROVE Preserves
  <2>1. form[k] \in Nat
    BY Zenon DEF RestOK
  <2> QED BY Zenon, <1>4, <2>1, AnswerLemma, RowStep DEF Answer, RestOK
<1> QED BY Zenon, <1>1, <1>2, <1>3, <1>4 DEF Owner

\* A request of the agent that the service executes.
LEMMA ServeStep ==
  ASSUME IInv, NEW a \in Attempts, NEW d, Keeps(db, d), Serve(a, d)
  PROVE  Preserves
  BY Zenon, RowStep DEF Serve, RestOK, IInv

\* The broker's check, the agent's requests, and its silence.
LEMMA AgentStep == ASSUME IInv, NEW a \in Attempts, Agent(a) PROVE Preserves
<1> USE DEF IInv
<1>1. CASE authorize(a)
  BY SMTT(30), <1>1, QuietStep DEF authorize, RestOK
<1>2. CASE Dropped(a)
  BY Zenon, <1>2, QuietStep DEF Dropped, RestOK
<1>3. CASE Handshake(a)
  BY Zenon, <1>3, HandshakeLemma, ServeStep DEF Handshake
<1>4. CASE Heartbeat(a)
  BY Zenon, <1>4, RefreshedLemma, ServeStep DEF Heartbeat, heartbeat
<1>5. ASSUME NEW k \in Keys, Ask(a, k) PROVE Preserves
  BY Zenon, <1>5, AskLemma, ServeStep DEF Ask
<1>6. ASSUME NEW status \in {"succeeded", "failed"}, NEW retryable \in BOOLEAN,
             Finish(a, status, retryable)
      PROVE  Preserves
  BY Zenon, <1>6, FinishLemma, ServeStep DEF Finish
<1>7. CASE ModelLoading(a)
  BY Zenon, <1>7, ModelLoadingLemma, ServeStep DEF ModelLoading
<1>8. CASE ModelLoaded(a)
  BY Zenon, <1>8, ModelLoadingLemma, RowStep DEF ModelLoaded, RestOK
<1>9. CASE Lapse(a)
  <2>1. Typed(db) /\ db.att[a] \in Attempt
    BY Zenon, Parts DEF Sound, Typed
  <2>2. [db.att[a] EXCEPT !.fresh = FALSE] \in Attempt
    BY Zenon, <2>1, AttemptLemma
  <2>3. Keeps(db, db') /\ db'.run = db.run
    BY <1>9, <2>1, <2>2, SetAttemptLemma, SameRunSound DEF Lapse
  <2> QED BY Zenon, <1>9, <2>3, RowStep DEF Lapse, RestOK
<1> QED BY Zenon, <1>1, <1>2, <1>3, <1>4, <1>5, <1>6, <1>7, <1>8, <1>9 DEF Agent

-----------------------------------------------------------------------------
(* The worker loops.                                                       *)

\* A loop's entry is well-typed.
LEMMA EntryLemma ==
  ASSUME RestOK, NEW l \in Loops
  PROVE  /\ JobOf(l) \in Kinds \X Attempts /\ AttemptOf(l) \in Attempts
         /\ loop[l].tok \in Nat /\ loop[l].ref \in BOOLEAN
<1>1. loop[l] \in [pc: Pcs, job: Kinds \X Attempts, tok: Nat, ref: BOOLEAN]
  BY Zenon DEF RestOK
<1> QED BY Zenon, <1>1 DEF JobOf, AttemptOf

\* A loop claims a job.
LEMMA ClaimStep ==
  ASSUME IInv, NEW l \in Loops, NEW j \in Kinds \X Attempts, Claim(l, j)
  PROVE  Preserves
<1> USE DEF IInv
<1>1. ProcOf[l] \in Workers /\ db.jobs[j] \in Job /\ db.jobs[j].tries < MaxTries
  BY Zenon, ProcOfType, Parts DEF Claim, Sound, Typed, JobsOK
<1>2. ClaimedJob(db.jobs[j], ProcOf[l]) \in Job
  BY Zenon, <1>1, JobRowLemma DEF Claim
<1>3. ClaimedJob(db.jobs[j], ProcOf[l]).st = "claimed"
  BY Zenon DEF ClaimedJob
<1>4. Keeps(db, db') /\ db'.run = db.run
  BY Zenon, <1>2, <1>3, JobStepLemma DEF Claim
<1>5. loop' \in [Loops -> [pc: Pcs, job: Kinds \X Attempts, tok: Nat, ref: BOOLEAN]]
      /\ loop'[l].pc = "handle" /\ \A m \in Loops : m # l => loop'[m] = loop[m]
  BY Zenon, LoopLemma DEF Claim, Pcs
<1> QED BY Zenon, <1>4, <1>5, LoopStep DEF Claim, RestOK

\* The three outcomes of a dispatch's first phase that end it, and the one that goes on.
LEMMA DispatchStep ==
  ASSUME IInv, NEW l \in Loops,
         DispatchStale(l) \/ DispatchRefused(l) \/ DispatchResumed(l) \/ DispatchPrepare(l)
  PROVE  Preserves
<1> USE DEF IInv
<1> DEFINE begun == begin_attempt(db)
<1>1. Dispatchable(AttemptOf(l)) => Sound(begun) /\ begun.run.cur = db.run.cur
                                    /\ begun.run.state = "PREPARING"
                                    /\ db.run.state \in {"QUEUED", "PREPARING"}
  BY Zenon, BeginAttemptLemma DEF Dispatchable
<1>2. CASE DispatchStale(l)
  BY Zenon, <1>2, GotoLemma, KeepsSame, LoopStep DEF DispatchStale, RestOK, Pcs
<1>3. CASE DispatchRefused(l)
  <2>1. Keeps(begun, fail_run(begun, FALSE, "FAILED"))
    BY Zenon, <1>1, <1>3, FailRunLemma DEF DispatchRefused
  <2>2. Keeps(db, db')
    BY Zenon, <1>1, <1>3, <2>1, KeepsWhenLive DEF DispatchRefused, Keeps, TERMINAL_STATES
  <2> QED BY Zenon, <1>3, <2>2, GotoLemma, LoopStep DEF DispatchRefused, RestOK, Pcs
<1>4. CASE DispatchResumed(l)
  <2>1. Keeps(db, db')
    BY Zenon, <1>1, <1>4, KeepsWhenLive DEF DispatchResumed, TERMINAL_STATES
  <2> QED BY Zenon, <1>4, <2>1, GotoLemma, LoopStep DEF DispatchResumed, RestOK, Pcs
<1>5. CASE DispatchPrepare(l)
  <2> DEFINE a == AttemptOf(l)
             tok == db.att[a].tok + 1
             row == [begun.att[a] EXCEPT !.tok = tok]
  <2>1. a \in Attempts /\ JobOf(l) \in Kinds \X Attempts
    BY Zenon, EntryLemma
  <2>2. db.att[a] \in Attempt
    BY Zenon, <2>1, Parts DEF Sound, Typed
  <2>3. tok \in Nat
    BY <2>2 DEF Attempt
  <2>4. Sound(begun) /\ db.run.state \in {"QUEUED", "PREPARING"}
    BY Zenon, <1>1, <1>5 DEF DispatchPrepare
  <2>5. db' = SetAttempt(begun, a, row)
        /\ loop' = [loop EXCEPT ![l] = Working("start", JobOf(l), tok, FALSE)]
    BY Zenon, <1>5 DEF DispatchPrepare
  <2> HIDE DEF begun, a, tok
  <2>6. begun.att[a] \in Attempt
    BY Zenon, <2>1, <2>4, Parts DEF Sound, Typed
  <2>7. row \in Attempt
    BY Zenon, <2>3, <2>6, AttemptLemma
  <2> HIDE DEF row
  <2>8. Keeps(begun, db')
    BY Zenon, <2>1, <2>4, <2>5, <2>7, SetAttemptLemma, SameRunSound DEF Sound
  <2>9. Keeps(db, db')
    BY Zenon, <2>4, <2>8, KeepsWhenLive DEF Keeps, TERMINAL_STATES
  <2>10. loop' \in [Loops -> [pc: Pcs, job: Kinds \X Attempts, tok: Nat, ref: BOOLEAN]]
         /\ loop'[l].pc = "start" /\ \A m \in Loops : m # l => loop'[m] = loop[m]
    BY Zenon, <2>1, <2>3, <2>5, LoopLemma DEF Pcs
  <2> QED BY Zenon, <1>5, <2>9, <2>10, LoopStep DEF DispatchPrepare, RestOK
<1> QED BY Zenon, <1>2, <1>3, <1>4, <1>5

\* What the daemon makes of a start_run call is well-typed.
LEMMA StartLemma ==
  ASSUME RestOK, NEW a \in Attempts, NEW tok \in Nat
  PROVE  start_run(a, tok) \in [Attempts -> [st: {"none", "running", "exited"}, tok: Nat]]
  BY Zenon DEF RestOK, start_run

\* The container is started, or the call fails, and its reference is recorded.
LEMMA StartStep ==
  ASSUME IInv, NEW l \in Loops, StartRun(l) \/ StartRunFails(l) \/ RecordRef(l)
  PROVE  Preserves
<1> USE DEF IInv
<1> DEFINE a == AttemptOf(l)
<1>1. a \in Attempts /\ JobOf(l) \in Kinds \X Attempts /\ loop[l].tok \in Nat
  BY Zenon, EntryLemma
<1>2. CASE StartRun(l)
  <2>1. box' \in [Attempts -> [st: {"none", "running", "exited"}, tok: Nat]]
    BY Zenon, <1>1, <1>2, StartLemma DEF StartRun
  <2>2. loop' \in [Loops -> [pc: Pcs, job: Kinds \X Attempts, tok: Nat, ref: BOOLEAN]]
        /\ loop'[l].pc = "record" /\ \A m \in Loops : m # l => loop'[m] = loop[m]
    BY Zenon, <1>1, <1>2, LoopLemma DEF StartRun, Pcs
  <2> QED BY Zenon, <1>2, <2>1, <2>2, KeepsSame, LoopStep DEF StartRun, RestOK
<1>3. CASE StartRunFails(l)
  <2>1. pull' \in [Attempts -> SUBSET Nat]
    BY SMTT(30), <1>1, <1>3 DEF StartRunFails, RestOK
  <2>2. loop' \in [Loops -> [pc: Pcs, job: Kinds \X Attempts, tok: Nat, ref: BOOLEAN]]
        /\ loop'[l].pc = "err" /\ \A m \in Loops : m # l => loop'[m] = loop[m]
    BY Zenon, <1>1, <1>3, LoopLemma DEF StartRunFails, Pcs
  <2> QED BY Zenon, <1>3, <2>1, <2>2, KeepsSame, LoopStep DEF StartRunFails, RestOK
<1>4. CASE RecordRef(l)
  <2> DEFINE r == db.att[a]
             fresh == r.fresh \/ (~r.ref /\ db.run.state = "PREPARING")
             over == db.run.cur # a \/ db.run.state \in {"CANCELLED", "FAILED", "INTERRUPTED"}
             pc == IF over THEN "stop_now" ELSE "ok"
             row == [row |-> r.row, ref |-> TRUE, fresh |-> fresh,
                     ended |-> r.ended, exit |-> r.exit, tok |-> r.tok]
  <2>1. Typed(db) /\ r \in Attempt
    BY Zenon, <1>1, Parts DEF Sound, Typed
  <2>2. row \in Attempt
    BY Zenon, <2>1 DEF Attempt
  <2>3. db' = SetAttempt(db, a, row) /\ Goto(l, pc)
    BY Zenon, <1>4 DEF RecordRef
  <2>4. pc \in Pcs /\ pc # "locked_stop"
    BY Zenon DEF Pcs
  <2> HIDE DEF row, pc, a
  <2>5. Keeps(db, db')
    BY Zenon, <1>1, <2>1, <2>2, <2>3, SetAttemptLemma, SameRunSound
  <2> QED BY <1>4, <2>3, <2>4, <2>5, GotoLemma, LoopStep DEF RecordRef, RestOK
<1> QED BY Zenon, <1>2, <1>3, <1>4

\* The cancel job, up to its commit or the call it makes with the row locked.
LEMMA CancelStep ==
  ASSUME IInv, NEW l \in Loops, CancelRead(l) \/ CancelCommit(l)
  PROVE  Preserves
<1> USE DEF IInv
<1>1. CASE CancelRead(l)
  <2> DEFINE ref == db.att[db.run.cur].ref
             stopping == db.run.state = "CANCELLING"
             pc == CASE ~stopping -> "ok"
                     [] stopping /\ ref -> "stop_first"
                     [] OTHER -> "cancel"
  <2>1. db.att[db.run.cur] \in Attempt /\ JobOf(l) \in Kinds \X Attempts
    BY Zenon, Parts, EntryLemma DEF Sound, Typed
  <2>2. ref \in BOOLEAN /\ pc \in Pcs /\ pc # "locked_stop"
    BY Zenon, <2>1 DEF Attempt, Pcs
  <2>3. loop' = [loop EXCEPT ![l] = Working(pc, JobOf(l), 0, ref)]
    BY Zenon, <1>1 DEF CancelRead
  <2> HIDE DEF pc, ref
  <2>4. loop' \in [Loops -> [pc: Pcs, job: Kinds \X Attempts, tok: Nat, ref: BOOLEAN]]
        /\ loop'[l].pc # "locked_stop" /\ \A m \in Loops : m # l => loop'[m] = loop[m]
    <3>1. Working(pc, JobOf(l), 0, ref)
            \in [pc: Pcs, job: Kinds \X Attempts, tok: Nat, ref: BOOLEAN]
          /\ Working(pc, JobOf(l), 0, ref).pc = pc
      BY Zenon, <2>1, <2>2 DEF Working
    <3> QED BY Zenon, <2>2, <2>3, <3>1 DEF RestOK
  <2> QED BY Zenon, <1>1, <2>4, KeepsSame, LoopStep DEF CancelRead, RestOK
<1>2. CASE CancelCommit(l)
  <2> DEFINE late == db.att[db.run.cur].ref /\ ~loop[l].ref
  <2>1. CASE db.run.state # "CANCELLING"
    <3>1. Goto(l, "ok") /\ UNCHANGED db
      BY Zenon, <1>2, <2>1 DEF CancelCommit
    <3> QED BY SMTT(30), <1>2, <3>1, GotoLemma, KeepsSame, LoopStep DEF CancelCommit, RestOK, Pcs
  <2>2. CASE db.run.state = "CANCELLING" /\ late
    <3>1. Goto(l, "locked_stop") /\ UNCHANGED db /\ RowFree
      BY Zenon, <1>2, <2>2 DEF CancelCommit
    <3>2. loop' \in [Loops -> [pc: Pcs, job: Kinds \X Attempts, tok: Nat, ref: BOOLEAN]]
          /\ \A m \in Loops : m # l => loop'[m] = loop[m]
      BY Zenon, <3>1, GotoLemma DEF Pcs
    <3>3. LockHeld'
      BY Zenon, <2>2, <3>1, <3>2 DEF LockHeld, RowFree, At
    <3>4. Sound(db') /\ RestOK'
      BY Zenon, <1>2, <3>1, <3>2 DEF CancelCommit, RestOK
    <3> QED BY Zenon, <3>1, <3>3, <3>4 DEF Preserves, KeepsOutcome
  <2>3. CASE db.run.state = "CANCELLING" /\ ~late
    <3>1. Goto(l, "ok") /\ db' = Cancelled(db) /\ RowFree
      BY Zenon, <1>2, <2>3 DEF CancelCommit
    <3>2. Keeps(db, db')
      BY Zenon, <2>3, <3>1, CancelledLemma DEF Cancelled
    <3> QED BY Zenon, <1>2, <3>1, <3>2, GotoLemma, LoopStep DEF CancelCommit, RestOK, Pcs
  <2> QED BY Zenon, <2>1, <2>2, <2>3
<1> QED BY Zenon, <1>1, <1>2

\* A container is stopped, or the call fails; a stop with the row locked commits.
LEMMA StopStep ==
  ASSUME IInv, NEW l \in Loops, StopRead(l) \/ StopRun(l) \/ StopRunFails(l)
  PROVE  Preserves
<1> USE DEF IInv
<1>1. Target(l) \in Attempts
  BY Zenon, Parts, EntryLemma DEF Target, Sound, Typed
<1>2. [box EXCEPT ![Target(l)] = NoBox]
        \in [Attempts -> [st: {"none", "running", "exited"}, tok: Nat]]
  BY Zenon, <1>1 DEF RestOK, NoBox
<1>3. CASE StopRead(l)
  <2> DEFINE pc == IF db.att[AttemptOf(l)].ref THEN "stop" ELSE "ok"
  <2>1. pc \in Pcs /\ pc # "locked_stop" /\ Goto(l, pc)
    BY Zenon, <1>3 DEF StopRead, Pcs
  <2> HIDE DEF pc
  <2> QED BY <1>3, <2>1, GotoLemma, KeepsSame, LoopStep DEF StopRead, RestOK
<1>4. CASE StopRun(l)
  <2> DEFINE pc == IF At(l, "stop_first") THEN "cancel" ELSE "ok"
  <2>1. pc \in Pcs /\ pc # "locked_stop" /\ Goto(l, pc)
    BY Zenon, <1>4 DEF StopRun, Pcs
  <2> HIDE DEF pc
  <2>2. /\ loop' \in [Loops -> [pc: Pcs, job: Kinds \X Attempts, tok: Nat, ref: BOOLEAN]]
        /\ loop'[l].pc # "locked_stop" /\ \A m \in Loops : m # l => loop'[m] = loop[m]
    BY Zenon, <2>1, GotoLemma
  <2>3. RestOK'
    BY Zenon, <1>2, <1>4, <2>2 DEF StopRun, RestOK
  <2>4. CASE At(l, "locked_stop")
    <3>1. db' = Cancelled(db) /\ db.run.state = "CANCELLING"
      BY Zenon, <1>4, <2>4 DEF StopRun, LockHeld
    <3>2. Keeps(db, db')
      BY Zenon, <3>1, CancelledLemma DEF Cancelled
    <3>3. LockHeld'
      BY Zenon, <2>2, <2>4 DEF LockHeld, At
    <3> QED BY Zenon, <2>3, <3>2, <3>3 DEF Preserves, Keeps
  <2>5. CASE ~At(l, "locked_stop")
    BY Zenon, <1>4, <2>2, <2>3, <2>5, KeepsSame, LoopStep DEF StopRun
  <2> QED BY Zenon, <2>4, <2>5
<1>5. CASE StopRunFails(l)
  <2>1. box' \in [Attempts -> [st: {"none", "running", "exited"}, tok: Nat]]
    BY Zenon, <1>2, <1>5 DEF StopRunFails, RestOK
  <2> QED BY Zenon, <1>5, <2>1, GotoLemma, KeepsSame, LoopStep DEF StopRunFails, RestOK, Pcs
<1> QED BY Zenon, <1>3, <1>4, <1>5

\* The loop reports its job done or failed, and is idle again.
LEMMA ReportStep ==
  ASSUME IInv, NEW l \in Loops, Complete(l) \/ Fail(l)
  PROVE  Preserves
<1> USE DEF IInv
<1> DEFINE row == db.jobs[JobOf(l)]
           p == ProcOf[l]
<1>1. JobOf(l) \in Kinds \X Attempts /\ p \in Workers
  BY Zenon, EntryLemma, ProcOfType
<1>2. row \in Job
  BY Zenon, <1>1, Parts DEF Sound, Typed
<1>3. loop' \in [Loops -> [pc: Pcs, job: Kinds \X Attempts, tok: Nat, ref: BOOLEAN]]
      /\ loop'[l].pc = "idle" /\ \A m \in Loops : m # l => loop'[m] = loop[m]
  <2>1. loop' = [loop EXCEPT ![l] = Working("idle", <<"stop", 1>>, 0, FALSE)]
    BY Zenon DEF Complete, Fail, Idle
  <2>2. <<"stop", 1>> \in Kinds \X Attempts /\ "idle" \in Pcs
    BY MaxAttemptAssumption DEF Kinds, Attempts, Pcs
  <2> QED BY Zenon, <2>1, <2>2, LoopLemma
<1>4. CASE Complete(l)
  <2>1. CompletedJob(row, p) \in Job
        /\ (CompletedJob(row, p).st = "available" => CompletedJob(row, p) = row)
    BY Zenon, <1>1, <1>2, JobRowLemma
  <2>2. Keeps(db, db') /\ db'.run = db.run
    BY Zenon, <1>1, <1>4, <2>1, JobStepLemma DEF Complete
  <2> QED BY Zenon, <1>3, <1>4, <2>2, LoopStep DEF Complete, RestOK
<1>5. CASE Fail(l)
  <2> DEFINE j == FailedJob(row, p, TRUE)
             d == SetJob(db, JobOf(l), j)
             dies == Owned(row, p) /\ j.st = "dead"
  <2>1. j \in Job /\ (j.st = "available" => j = row \/ j.tries < MaxTries)
    BY Zenon, <1>1, <1>2, JobRowLemma
  <2>2. (dies => RowFree) /\ db' = IF dies THEN on_dead_job(d, {JobOf(l)}) ELSE d
    BY Zenon, <1>5 DEF Fail
  <2>3. Keeps(db, d) /\ d.run = db.run
    <3> HIDE DEF j
    <3> QED BY SMTT(30), <1>1, <2>1, JobStepLemma
  <2> HIDE DEF dies, d
  <2>4. CASE dies
    <3>1. Keeps(d, on_dead_job(d, {JobOf(l)}))
      BY Zenon, <2>3, DeadJobLemma DEF Keeps
    <3>2. Keeps(db, db')
      BY Zenon, <2>2, <2>3, <2>4, <3>1 DEF Keeps, KeepsOutcome
    <3> QED BY Zenon, <1>3, <1>5, <2>2, <2>4, <3>2, LoopStep DEF Fail, RestOK
  <2>5. CASE ~dies
    BY Zenon, <1>3, <1>5, <2>2, <2>3, <2>5, LoopStep DEF Fail, RestOK
  <2> QED BY Zenon, <2>4, <2>5
<1> QED BY Zenon, <1>4, <1>5

\* A worker process restarts with idle loops.
LEMMA CrashStep == ASSUME IInv, NEW p \in Workers, Crash(p) PROVE Preserves
<1> USE DEF IInv
<1>1. Idle \in [pc: Pcs, job: Kinds \X Attempts, tok: Nat, ref: BOOLEAN] /\ Idle.pc = "idle"
  BY MaxAttemptAssumption DEF Idle, Working, Kinds, Attempts, Pcs
<1>2. loop' \in [Loops -> [pc: Pcs, job: Kinds \X Attempts, tok: Nat, ref: BOOLEAN]]
      /\ \A l \in Loops : loop'[l].pc = "locked_stop" => loop[l].pc = "locked_stop"
  BY Zenon, <1>1 DEF Crash, RestOK
<1>3. 0 \in 0..MaxAttempt
  BY MaxAttemptAssumption
<1> QED BY Zenon, <1>2, <1>3, QuietStep DEF Crash, RestOK

-----------------------------------------------------------------------------
(* The reconciler, the watcher, the daemon.                                *)

\* Reaping leases leaves the run and its questions alone.
LEMMA ReapLemma ==
  ASSUME NEW d, Sound(d), NEW lapsed
  PROVE  Keeps(d, reap_expired(d, lapsed)) /\ reap_expired(d, lapsed).run = d.run
         /\ reap_expired(d, lapsed).inp = d.inp
<1> DEFINE f == [j \in Kinds \X Attempts |->
                   IF j \in lapsed THEN ReapedJob(d.jobs[j]) ELSE d.jobs[j]]
<1>1. Typed(d) /\ \A j \in Kinds \X Attempts :
                     d.jobs[j] \in Job /\ (d.jobs[j].st = "available" => d.jobs[j].tries < MaxTries)
  BY Zenon, Parts DEF Sound, Typed, JobsOK
<1>2. \A j \in Kinds \X Attempts :
        ReapedJob(d.jobs[j]) \in Job
        /\ (ReapedJob(d.jobs[j]).st = "available" => ReapedJob(d.jobs[j]).tries < MaxTries)
  <2> SUFFICES ASSUME NEW r \in Job, r.st = "available" => r.tries < MaxTries
               PROVE  ReapedJob(r) \in Job
                      /\ (ReapedJob(r).st = "available" => ReapedJob(r).tries < MaxTries)
    BY Zenon, <1>1
  <2> QED BY Zenon, MaxTriesAssumption DEF ReapedJob, Unowned, Job, JobStates
<1>3. f \in [Kinds \X Attempts -> Job]
      /\ \A j \in Kinds \X Attempts : f[j].st = "available" => f[j].tries < MaxTries
  BY Zenon, <1>1, <1>2
<1>4. reap_expired(d, lapsed) = SetJobs(d, f)
  BY Zenon DEF reap_expired
<1> HIDE DEF f
<1>5. LET e == SetJobs(d, f) IN Typed(e) /\ e.run = d.run /\ e.inp = d.inp
  BY Zenon, <1>1, <1>3, SetJobsLemma
<1> QED BY Zenon, <1>4, <1>5, SameRunSound

\* One tick of the reconciler, with or without the run.
LEMMA TickStep ==
  ASSUME IInv, NEW lapsed, NEW due, NEW spent \in BOOLEAN, NEW skip \in BOOLEAN, Tick(lapsed, due, spent, skip)
  PROVE  Preserves
<1> USE DEF IInv
<1> DEFINE reaped == reap_expired(db, lapsed)
           dead == {j \in lapsed : reaped.jobs[j].st = "dead"}
           settled == on_dead_job(reaped, dead)
<1>1. Keeps(db, reaped) /\ reaped.run = db.run /\ reaped.inp = db.inp
  BY Zenon, ReapLemma
<1>2. db' = (IF skip THEN reaped ELSE reconcile_run(settled, due, spent))
      /\ (~skip => RowFree)
  BY Zenon DEF Tick
<1> HIDE DEF reaped, dead
<1>3. CASE skip
  BY Zenon, <1>1, <1>2, <1>3, RowStep DEF Tick, RestOK
<1>4. CASE ~skip
  <2>1. Keeps(reaped, settled)
    BY Zenon, <1>1, DeadJobLemma DEF Keeps
  <2>2. Keeps(settled, reconcile_run(settled, due, spent))
    BY Zenon, <2>1, ReconcileLemma DEF Keeps
  <2>3. Keeps(db, db')
    <3>1. CASE db.run.state \in TERMINAL_STATES
      BY Zenon, <1>1, <1>2, <1>4, <2>2, <3>1, DeadJobOfEnded DEF Keeps, KeepsOutcome
    <3>2. CASE db.run.state \notin TERMINAL_STATES
      BY Zenon, <1>2, <1>4, <2>2, <3>2, KeepsWhenLive DEF Keeps
    <3> QED BY Zenon, <3>1, <3>2
  <2> QED BY Zenon, <1>2, <1>4, <2>3, RowStep DEF Tick, RestOK
<1> QED BY Zenon, <1>3, <1>4

\* The leaders' ticks and the exit watcher.
LEMMA PlatformStep ==
  ASSUME IInv, \/ Reconcile \/ GatewayReap \/ RecordExit
               \/ \E a \in Attempts : ObserveExit(a)
  PROVE  Preserves
<1> USE DEF IInv
<1>1. CASE Reconcile
  <2> PICK lapsed \in SUBSET Expirable, due \in SUBSET Pending(db),
           spent \in BOOLEAN, skip \in BOOLEAN : Tick(lapsed, due, spent, skip)
    BY Zenon, <1>1 DEF Reconcile
  <2> QED BY Zenon, TickStep
<1>2. CASE GatewayReap
  <2>1. Keeps(db, db') /\ db'.run = db.run
    BY Zenon, <1>2, ReapLemma DEF GatewayReap
  <2> QED BY Zenon, <1>2, <2>1, RowStep DEF GatewayReap, RestOK
<1>3. CASE RecordExit
  <2>1. seen \in Attempts /\ 0 \in 0..MaxAttempt
    BY <1>3, MaxAttemptAssumption DEF RecordExit, RestOK, Attempts
  <2>2. Keeps(db, db')
    BY Zenon, <1>3, <2>1, ContainerExitLemma DEF RecordExit
  <2> QED BY Zenon, <1>3, <2>1, <2>2, RowStep DEF RecordExit, RestOK
<1>4. ASSUME NEW a \in Attempts, ObserveExit(a) PROVE Preserves
  <2>1. a \in 0..MaxAttempt
    BY MaxAttemptAssumption DEF Attempts
  <2> QED BY Zenon, <1>4, <2>1, QuietStep DEF ObserveExit, RestOK
<1> QED BY Zenon, <1>1, <1>2, <1>3, <1>4

\* The daemon's containers come and go.
LEMMA DaemonStep == ASSUME IInv, NEW a \in Attempts, Daemon(a) PROVE Preserves
<1> USE DEF IInv
<1>1. ASSUME NEW tok \in pull[a], PullEnds(a, tok) PROVE Preserves
  <2>1. tok \in Nat
    BY Zenon DEF RestOK
  <2>2. box' \in [Attempts -> [st: {"none", "running", "exited"}, tok: Nat]]
    BY <1>1, <2>1, StartLemma DEF PullEnds, RestOK
  <2>3. pull' \in [Attempts -> SUBSET Nat]
    BY Zenon, <1>1 DEF PullEnds, RestOK
  <2> QED BY Zenon, <1>1, <2>2, <2>3, QuietStep DEF PullEnds, RestOK
<1>2. CASE ContainerExits(a)
  BY Zenon, <1>2, QuietStep DEF ContainerExits, RestOK
<1>3. CASE gc(a)
  BY Zenon, <1>3, QuietStep DEF gc, RestOK, NoBox
<1> QED BY Zenon, <1>1, <1>2, <1>3 DEF Daemon

\* Every step keeps the invariant and the outcome of an ended attempt.
LEMMA NextStep == ASSUME IInv, Next PROVE Preserves
<1>1. ASSUME NEW l \in Loops, Loop(l) PROVE Preserves
  BY Zenon, <1>1, ClaimStep, DispatchStep, StartStep, CancelStep, StopStep, ReportStep DEF Loop, Step
<1> QED BY Zenon, <1>1, OwnerStep, AgentStep, DaemonStep, PlatformStep, CrashStep DEF Next

-----------------------------------------------------------------------------
(* The theorems.                                                           *)

\* The rows create_run inserts satisfy the invariant.
LEMMA InitHolds == Init => IInv
<1> SUFFICES ASSUME Init PROVE IInv
  BY Zenon
<1> USE MaxAttemptAssumption, MaxTriesAssumption
<1> DEFINE run == [state |-> "QUEUED", cur |-> 1, result |-> "none", error |-> "none",
                   retryable |-> FALSE, cancel |-> FALSE]
           att == [a \in Attempts |-> NoAttempt]
           inp == [k \in Keys |-> NoInput]
           jobs == [j \in Kinds \X Attempts |->
                      IF j = <<"dispatch", 1>> THEN EnqueuedJob ELSE NoJob]
<1>1. run \in Run /\ run.state = "QUEUED"
  BY DEF Run, RunState, Attempts
<1>2. att \in [Attempts -> Attempt]
  BY Zenon DEF Attempt, NoAttempt
<1>3. NoInput \in Input /\ inp \in [Keys -> Input] /\ \A k \in Keys : inp[k].st = "absent"
  BY DEF Input, NoInput, InputStates
<1>4. EnqueuedJob \in Job /\ NoJob \in Job /\ EnqueuedJob.tries < MaxTries /\ NoJob.st = "absent"
  BY DEF EnqueuedJob, NoJob, Job, JobStates
<1>5. jobs \in [Kinds \X Attempts -> Job]
      /\ \A j \in Kinds \X Attempts : jobs[j].st = "available" => jobs[j].tries < MaxTries
  BY Zenon, <1>4
<1>6. db = [run |-> run, att |-> att, inp |-> inp, jobs |-> jobs]
  BY Zenon DEF Init, create_run
<1> HIDE DEF run, att, inp, jobs
<1>7. db \in Database /\ db.run = run /\ db.inp = inp /\ db.jobs = jobs
  BY Zenon, <1>1, <1>2, <1>3, <1>5, <1>6 DEF Database
<1>8. Sound(db)
  BY Zenon, <1>1, <1>3, <1>5, <1>7 DEF Sound, Typed, JobsOK, InputsOK
<1>9. Idle \in [pc: Pcs, job: Kinds \X Attempts, tok: Nat, ref: BOOLEAN] /\ Idle.pc = "idle"
  BY DEF Idle, Working, Kinds, Attempts, Pcs
<1>10. RestOK /\ LockHeld
  BY <1>9 DEF Init, RestOK, LockHeld, At, NoBox
<1> QED BY Zenon, <1>8, <1>10 DEF IInv

\* The inductive invariant holds in every reachable state.
THEOREM Invariant == Spec => []IInv
<1>1. IInv /\ [Next]_vars => IInv'
  <2>1. IInv /\ Next => IInv'
    BY Zenon, NextStep DEF Preserves
  <2>2. IInv /\ UNCHANGED vars => IInv'
    BY Zenon DEF vars, IInv, RestOK, LockHeld, At
  <2> QED BY Zenon, <2>1, <2>2
<1> QED BY InitHolds, <1>1, PTL DEF Spec

\* Rows, loops, containers, requests and forms keep their types (the columns' domains and
\* the points at which a handler of worker.py can be).
THEOREM TypeCorrect == Spec => []TypeOK
  BY Invariant, InvariantImplies, PTL

\* The run waits for input exactly while a question of its current attempt is open,
\* whatever interleaving of ask, answer, expiry, cancel, finish, fail_run and retry.
THEOREM WaitingMatchesQuestions == Spec => []InputsMatchRun
  BY Invariant, InvariantImplies, PTL

\* The first outcome of an attempt wins over every late result, timeout, exit, cancel or
\* dead job; only the owner's retry, which starts another attempt, leaves it.
THEOREM FirstOutcomeWins == Spec => OutcomeIsFinal
<1>1. IInv /\ [Next]_vars =>
        [db.run.state \in TERMINAL_STATES /\ db'.run.cur = db.run.cur => db'.run = db.run]_vars
  BY Zenon, NextStep DEF Preserves, KeepsOutcome
<1> QED BY Invariant, <1>1, PTL DEF Spec, OutcomeIsFinal

-----------------------------------------------------------------------------
(* The contract.  Its invariant adds what the run row and the answers say. *)

Fits(d) == \A k \in Keys : d.inp[k].st = "answered" => d.inp[k].ans + 1 = d.inp[k].ver

CInv == IInv /\ Explained(db.run) /\ Fits(db)

\* A step that rewrites attempt or job rows only.
LEMMA SetAttemptObeys ==
  ASSUME NEW d, Sound(d), Explained(d.run), NEW a \in Attempts, NEW r \in Attempt
  PROVE  Obeys(d, SetAttempt(d, a, r))
  BY SetAttemptLemma, SameRowsObey DEF Sound

\* A statement on job rows.
LEMMA SetJobObeys ==
  ASSUME NEW d, Sound(d), Explained(d.run), NEW j \in Kinds \X Attempts, NEW r \in Job,
         r.st = "available" => r = d.jobs[j] \/ r.tries < MaxTries
  PROVE  Obeys(d, SetJob(d, j, r)) /\ SetJob(d, j, r).run = d.run /\ SetJob(d, j, r).inp = d.inp
<1>1. Typed(d) /\ (r.st = "available" => r.tries < MaxTries)
  BY Zenon DEF Sound, Typed, JobsOK
<1> QED BY <1>1, SetJobLemma, SameRowsObey

\* What follows on a step that changed neither the run row nor the questions.
LEMMA ThenObeys ==
  ASSUME NEW d, NEW m, NEW e, m.run = d.run, m.inp = d.inp, Obeys(m, e)
  PROVE  Obeys(d, e)
  BY Zenon DEF Obeys, Moves, Retries, Answers, SameAnswers

\* A step that writes nothing.
LEMMA QuietObeys == ASSUME CInv, UNCHANGED db PROVE Obeys(db, db')
  BY Zenon, SameRowsObey DEF CInv

\* The owner.
LEMMA OwnerObeys == ASSUME CInv, Owner PROVE Obeys(db, db')
<1> USE DEF CInv, IInv
<1>1. CASE Cancel
  BY Zenon, <1>1, RequestCancelObeys DEF Cancel
<1>2. CASE Retry
  BY Zenon, <1>2, RetryObeys DEF Retry
<1>3. ASSUME NEW k \in Keys, OpenForm(k) PROVE Obeys(db, db')
  BY Zenon, <1>3, QuietObeys DEF OpenForm
<1>4. ASSUME NEW k \in Keys, Answer(k) PROVE Obeys(db, db')
  <2>1. form[k] \in Nat
    BY Zenon DEF RestOK
  <2> QED BY Zenon, <1>4, <2>1, AnswerObeys DEF Answer
<1> QED BY Zenon, <1>1, <1>2, <1>3, <1>4 DEF Owner

\* The agent.
LEMMA AgentObeys == ASSUME CInv, NEW a \in Attempts, Agent(a) PROVE Obeys(db, db')
<1> USE DEF CInv, IInv
<1>1. db.att[a] \in Attempt
  BY Zenon, Parts DEF Sound, Typed
<1>2. [db.att[a] EXCEPT !.fresh = TRUE] \in Attempt /\ [db.att[a] EXCEPT !.fresh = FALSE] \in Attempt
  BY Zenon, <1>1, AttemptLemma
<1>3. CASE authorize(a) \/ Dropped(a)
  BY Zenon, <1>3, QuietObeys DEF authorize, Dropped
<1>4. CASE Handshake(a)
  BY Zenon, <1>4, HandshakeObeys DEF Handshake, Serve
<1>5. CASE Heartbeat(a)
  BY Zenon, <1>2, <1>5, SetAttemptObeys DEF Heartbeat, Serve, heartbeat, Refreshed
<1>6. ASSUME NEW k \in Keys, Ask(a, k) PROVE Obeys(db, db')
  BY Zenon, <1>6, AskObeys DEF Ask, Serve
<1>7. ASSUME NEW status \in {"succeeded", "failed"}, NEW retryable \in BOOLEAN,
             Finish(a, status, retryable)
      PROVE  Obeys(db, db')
  BY Zenon, <1>7, FinishObeys DEF Finish, Serve
<1>8. CASE ModelLoading(a)
  BY Zenon, <1>8, ModelLoadingObeys DEF ModelLoading, Serve
<1>9. CASE ModelLoaded(a)
  BY Zenon, <1>9, ModelLoadingObeys DEF ModelLoaded
<1>10. CASE Lapse(a)
  BY Zenon, <1>2, <1>10, SetAttemptObeys DEF Lapse
<1> QED BY Zenon, <1>3, <1>4, <1>5, <1>6, <1>7, <1>8, <1>9, <1>10 DEF Agent

\* A dispatch's first phase.
LEMMA DispatchObeys ==
  ASSUME CInv, NEW l \in Loops,
         DispatchStale(l) \/ DispatchRefused(l) \/ DispatchResumed(l) \/ DispatchPrepare(l)
  PROVE  Obeys(db, db')
<1> USE DEF CInv, IInv
<1> DEFINE begun == begin_attempt(db)
<1>1. Dispatchable(AttemptOf(l)) =>
        /\ Sound(begun) /\ begun.run.cur = db.run.cur /\ begun.run.state = "PREPARING"
        /\ db.run.state \in {"QUEUED", "PREPARING"} /\ Obeys(db, begun) /\ begun.inp = db.inp
  BY Zenon, BeginAttemptLemma, BeginAttemptObeys DEF Dispatchable
<1>2. CASE DispatchStale(l)
  BY Zenon, <1>2, QuietObeys DEF DispatchStale
<1>3. CASE DispatchRefused(l)
  <2> DEFINE e == fail_run(begun, FALSE, "FAILED")
  <2>1. db' = e /\ Dispatchable(AttemptOf(l))
    BY Zenon, <1>3 DEF DispatchRefused
  <2> HIDE DEF begun
  <2>2. can_transition("PREPARING", "FAILED")
    BY Zenon DEF can_transition, TRANSITIONS, RunState
  <2>3. Explained(begun.run)
    BY Zenon, <1>1, <2>1 DEF Obeys
  <2>4. Explained(e.run) /\ e.run.state = "FAILED" /\ e.run.cur = begun.run.cur
        /\ SameAnswers(begun, e)
    BY Zenon, <1>1, <2>1, <2>2, <2>3, FailRunRow
  <2> HIDE DEF e
  <2> QED BY <1>1, <2>1, <2>4, FailPreparedObeys
<1>4. CASE DispatchResumed(l)
  BY SMTT(30), <1>1, <1>4 DEF DispatchResumed
<1>5. CASE DispatchPrepare(l)
  <2> DEFINE a == AttemptOf(l)
             row == [begun.att[a] EXCEPT !.tok = db.att[a].tok + 1]
  <2>1. db' = SetAttempt(begun, a, row) /\ Dispatchable(a)
    BY SMTT(30), <1>5 DEF DispatchPrepare
  <2>2. a \in Attempts /\ db.att[a] \in Attempt
    BY SMTT(30), EntryLemma, Parts DEF Sound, Typed
  <2>3. db.att[a].tok + 1 \in Nat
    BY <2>2 DEF Attempt
  <2> HIDE DEF begun, a
  <2>4. begun.att[a] \in Attempt /\ Typed(begun)
    BY Zenon, <1>1, <2>1, <2>2, Parts DEF Sound, Typed, a
  <2>5. row \in Attempt
    BY Zenon, <2>3, <2>4, AttemptLemma
  <2> HIDE DEF row
  <2>6. db'.run = begun.run /\ db'.inp = begun.inp
    BY SMTT(30), <2>1, <2>2, <2>4, <2>5, SetAttemptLemma
  <2>7. Obeys(db, begun)
    BY Zenon, <1>1, <2>1 DEF a
  <2> QED BY Zenon, <2>6, <2>7 DEF Obeys, Moves, Retries, Answers, SameAnswers
<1> QED BY Zenon, <1>2, <1>3, <1>4, <1>5

\* The container's start and its record.
LEMMA StartObeys ==
  ASSUME CInv, NEW l \in Loops, StartRun(l) \/ StartRunFails(l) \/ RecordRef(l)
  PROVE  Obeys(db, db')
<1> USE DEF CInv, IInv
<1>1. CASE StartRun(l) \/ StartRunFails(l)
  BY ZenonT(30), <1>1, QuietObeys DEF StartRun, StartRunFails
<1>2. CASE RecordRef(l)
  <2> DEFINE a == AttemptOf(l)
             r == db.att[a]
             fresh == r.fresh \/ (~r.ref /\ db.run.state = "PREPARING")
             row == [row |-> r.row, ref |-> TRUE, fresh |-> fresh,
                     ended |-> r.ended, exit |-> r.exit, tok |-> r.tok]
  <2>1. a \in Attempts /\ r \in Attempt
    BY Zenon, EntryLemma, Parts DEF Sound, Typed
  <2>2. row \in Attempt
    BY SMTT(30), <2>1 DEF Attempt
  <2>3. db' = SetAttempt(db, a, row)
    BY Zenon, <1>2 DEF RecordRef
  <2> HIDE DEF row, a
  <2> QED BY Zenon, <2>1, <2>2, <2>3, SetAttemptObeys
<1> QED BY Zenon, <1>1, <1>2

\* The cancel and stop jobs.
LEMMA StopObeys ==
  ASSUME CInv, NEW l \in Loops,
         CancelRead(l) \/ CancelCommit(l) \/ StopRead(l) \/ StopRun(l) \/ StopRunFails(l)
  PROVE  Obeys(db, db')
<1> USE DEF CInv, IInv
<1>1. CASE CancelRead(l) \/ StopRead(l) \/ StopRunFails(l)
  BY Zenon, <1>1, QuietObeys DEF CancelRead, StopRead, StopRunFails
<1>2. CASE CancelCommit(l)
  <2>1. UNCHANGED db \/ (db' = Cancelled(db) /\ db.run.state = "CANCELLING")
    BY SMTT(30), <1>2 DEF CancelCommit
  <2> QED BY Zenon, <2>1, QuietObeys, CancelledObeys DEF Cancelled
<1>3. CASE StopRun(l)
  <2>1. UNCHANGED db \/ (db' = Cancelled(db) /\ db.run.state = "CANCELLING")
    BY Zenon, <1>3 DEF StopRun, LockHeld
  <2> QED BY Zenon, <2>1, QuietObeys, CancelledObeys DEF Cancelled
<1> QED BY Zenon, <1>1, <1>2, <1>3

\* A loop claims a job, or reports it.
LEMMA JobObeys ==
  ASSUME CInv, NEW l \in Loops,
         \/ \E j \in Kinds \X Attempts : Claim(l, j)
         \/ Complete(l) \/ Fail(l)
  PROVE  Obeys(db, db')
<1> USE DEF CInv, IInv
<1> DEFINE row == db.jobs[JobOf(l)]
           p == ProcOf[l]
<1>1. JobOf(l) \in Kinds \X Attempts /\ p \in Workers
  BY Zenon, EntryLemma, ProcOfType
<1>2. row \in Job
  BY SMTT(30), <1>1, Parts DEF Sound, Typed
<1>3. ASSUME NEW j \in Kinds \X Attempts, Claim(l, j) PROVE Obeys(db, db')
  <2>1. db.jobs[j] \in Job /\ db.jobs[j].tries < MaxTries /\ db.jobs[j].st = "available"
    BY ZenonT(30), <1>3, Parts DEF Claim, Sound, Typed, JobsOK
  <2>2. ClaimedJob(db.jobs[j], p) \in Job /\ ClaimedJob(db.jobs[j], p).st = "claimed"
    BY ZenonT(30), <1>1, <2>1, JobRowLemma DEF ClaimedJob
  <2> QED BY Zenon, <1>3, <2>2, SetJobObeys DEF Claim
<1>4. CASE Complete(l)
  <2>1. CompletedJob(row, p) \in Job
        /\ (CompletedJob(row, p).st = "available" => CompletedJob(row, p) = row)
    BY Zenon, <1>1, <1>2, JobRowLemma
  <2> QED BY Zenon, <1>1, <1>4, <2>1, SetJobObeys DEF Complete
<1>5. CASE Fail(l)
  <2> DEFINE j == FailedJob(row, p, TRUE)
             d == SetJob(db, JobOf(l), j)
             dies == Owned(row, p) /\ j.st = "dead"
  <2>1. j \in Job /\ (j.st = "available" => j = row \/ j.tries < MaxTries)
    BY Zenon, <1>1, <1>2, JobRowLemma
  <2>2. db' = IF dies THEN on_dead_job(d, {JobOf(l)}) ELSE d
    BY SMTT(30), <1>5 DEF Fail
  <2>3. Sound(d) /\ Obeys(db, d) /\ d.run = db.run /\ d.inp = db.inp
    <3> HIDE DEF j
    <3> QED BY Zenon, <1>1, <2>1, JobStepLemma, SetJobObeys DEF Keeps
  <2> HIDE DEF dies, d
  <2>4. Obeys(d, on_dead_job(d, {JobOf(l)}))
    BY Zenon, <2>3, DeadJobObeys
  <2> QED BY Zenon, <2>2, <2>3, <2>4, ThenObeys
<1> QED BY Zenon, <1>3, <1>4, <1>5

\* A tick of the leader: a dead job ends the run, or the reconciler looks at it, not both.
LEMMA TickObeys ==
  ASSUME CInv, NEW lapsed, NEW due, due \subseteq Pending(db), NEW spent \in BOOLEAN,
         NEW skip \in BOOLEAN, Tick(lapsed, due, spent, skip)
  PROVE  Obeys(db, db')
<1> USE DEF CInv, IInv
<1> DEFINE reaped == reap_expired(db, lapsed)
           dead == {j \in lapsed : reaped.jobs[j].st = "dead"}
           settled == on_dead_job(reaped, dead)
           e == reconcile_run(settled, due, spent)
<1>1. Sound(reaped) /\ reaped.run = db.run /\ reaped.inp = db.inp
  BY Zenon, ReapLemma DEF Keeps
<1>2. db' = IF skip THEN reaped ELSE e
  BY Zenon DEF Tick
<1> HIDE DEF reaped, dead
<1>3. due \subseteq Pending(reaped)
  BY Zenon, <1>1 DEF Pending
<1>4. Sound(settled) /\ Obeys(reaped, settled)
      /\ (settled = reaped \/ settled.run.state \in TERMINAL_STATES)
  BY Zenon, <1>1, DeadJobLemma, DeadJobObeys DEF Keeps
<1> HIDE DEF settled
<1>5. CASE settled = reaped
  <2>1. Obeys(reaped, e)
    BY Zenon, <1>1, <1>3, <1>5, ReconcileObeys
  <2> HIDE DEF e
  <2> QED BY Zenon, <1>1, <1>2, <2>1, ThenObeys, SameRowsObey
<1>6. CASE settled.run.state \in TERMINAL_STATES
  <2>1. e = settled
    BY Zenon, <1>6 DEF reconcile_run, TERMINAL_STATES, WATCHED_STATES, ACTIVE_CLOCK_STATES
  <2> HIDE DEF e
  <2> QED BY Zenon, <1>1, <1>2, <1>4, <2>1, ThenObeys, SameRowsObey
<1> QED BY Zenon, <1>4, <1>5, <1>6

\* Every step obeys the contract.
LEMMA NextObeys == ASSUME CInv, Next PROVE Obeys(db, db')
<1> USE DEF CInv, IInv
<1>1. ASSUME NEW l \in Loops, Loop(l) PROVE Obeys(db, db')
  BY Zenon, <1>1, JobObeys, DispatchObeys, StartObeys, StopObeys DEF Loop, Step
<1>2. CASE Reconcile
  <2> PICK lapsed \in SUBSET Expirable, due \in SUBSET Pending(db),
           spent \in BOOLEAN, skip \in BOOLEAN : Tick(lapsed, due, spent, skip)
    BY Zenon, <1>2 DEF Reconcile
  <2> QED BY Zenon, TickObeys
<1>3. CASE GatewayReap
  BY Zenon, <1>3, ReapLemma, SameRowsObey DEF GatewayReap
<1>4. CASE RecordExit
  <2>1. seen \in Attempts
    BY <1>4, MaxAttemptAssumption DEF RecordExit, RestOK, Attempts
  <2> QED BY Zenon, <1>4, <2>1, ContainerExitObeys DEF RecordExit
<1>5. ASSUME NEW a \in Attempts, Daemon(a) \/ ObserveExit(a) PROVE Obeys(db, db')
  BY Zenon, <1>5, QuietObeys DEF Daemon, PullEnds, ContainerExits, gc, ObserveExit
<1>6. ASSUME NEW p \in Workers, Crash(p) PROVE Obeys(db, db')
  BY Zenon, <1>6, QuietObeys DEF Crash
<1> QED BY SMTT(30), <1>1, <1>2, <1>3, <1>4, <1>5, <1>6, OwnerObeys, AgentObeys DEF Next

\* The invariant of the contract is kept, and answers with it.
LEMMA CStep ==
  ASSUME CInv, [Next]_vars
  PROVE  CInv' /\ (UNCHANGED db \/ Obeys(db, db'))
<1>1. CASE Next
  <2>1. IInv' /\ Obeys(db, db')
    BY SMTT(30), <1>1, NextStep, NextObeys DEF CInv, Preserves
  <2>2. Fits(db)'
    BY Zenon, <2>1 DEF CInv, Fits, Obeys, Moves, Retries, Answers, SameAnswers
  <2> QED BY Zenon, <2>1, <2>2 DEF CInv, Obeys
<1>2. CASE UNCHANGED vars
  BY Zenon, <1>2 DEF CInv, Fits, vars, IInv, RestOK, LockHeld, At
<1> QED BY Zenon, <1>1, <1>2

\* The rows create_run inserts satisfy the contract's invariant too.
LEMMA InitObeys == Init => CInv
<1> SUFFICES ASSUME Init PROVE CInv
  BY Zenon
<1>1. db.run.state = "QUEUED" /\ db.run.result = "none" /\ db.run.error = "none"
      /\ db.run.cancel = FALSE /\ \A k \in Keys : db.inp[k].st = "absent"
  BY Zenon DEF Init, create_run, NoInput
<1> QED BY Zenon, <1>1, InitHolds DEF CInv, Explained, Fits, TERMINAL_STATES

\* The contract's invariant holds in every reachable state.
THEOREM ContractInvariant == Spec => []CInv
  BY InitObeys, CStep, PTL DEF Spec

\* What the owner reads of a run belongs to the attempt it shows, whatever order results,
\* failures, cancellations and retries come in.
THEOREM OutcomesExplained == Spec => []OutcomeExplained
<1>1. CInv => OutcomeExplained
  BY Zenon DEF CInv, Explained, OutcomeExplained
<1> QED BY ContractInvariant, <1>1, PTL

\* No answer is stored for another wording than the one its form showed.
THEOREM AnswersFitQuestions == Spec => []AnswerFitsQuestion
<1>1. CInv => AnswerFitsQuestion
  BY Zenon DEF CInv, Fits, AnswerFitsQuestion
<1> QED BY ContractInvariant, <1>1, PTL

\* No step changes or drops a stored answer, retries included.
THEOREM AnswersStay == Spec => AnswersKept
<1>1. CInv /\ [Next]_vars =>
        [\A k \in Keys : db.inp[k].st = "answered" => db'.inp[k] = db.inp[k]]_vars
  BY Zenon, CStep DEF Obeys, Moves, Retries, Answers, SameAnswers
<1> QED BY ContractInvariant, <1>1, PTL DEF Spec, AnswersKept

\* The contract reads the same table of states.
LEMMA SameTable ==
  /\ Contract!RunState = RunState /\ Contract!TERMINAL_STATES = TERMINAL_STATES
  /\ \A s, t \in RunState : Contract!can_transition(s, t) <=> can_transition(s, t)
<1>1. Contract!RunState = RunState /\ Contract!TERMINAL_STATES = TERMINAL_STATES
  BY Zenon DEF Contract!RunState, RunState, Contract!TERMINAL_STATES, TERMINAL_STATES
<1>2. Contract!TRANSITIONS = TRANSITIONS
  BY Zenon DEF Contract!RunState, RunState, Contract!TRANSITIONS, TRANSITIONS
<1> QED BY Zenon, <1>1, <1>2 DEF Contract!can_transition, can_transition

\* The life cycle implements the contract, for any number of workers, attempts, tries and
\* questions and under every fault: each step is one of the contract's moves or stutters.
THEOREM ImplementsContract == Spec => MeetsContract
<1>1. Init => Contract!Init
  BY DEF Init, create_run, NoInput, Contract!Init
<1>2. CInv /\ [Next]_vars => [Contract!Next]_(Contract!cvars)
  <2> SUFFICES ASSUME CInv, Obeys(db, db') PROVE [Contract!Next]_(Contract!cvars)
    BY Zenon, CStep DEF Contract!cvars
  <2> DEFINE old == {k \in Keys : db.inp[k].st = "answered"}
             new == {k \in Keys : db'.inp[k].st = "answered"}
  <2>1. db.run.state \in RunState
    BY Zenon, Parts DEF CInv, IInv, Sound, Typed, Run
  <2>2. CASE Moves(db, db')
    <3> DEFINE s == db.run.state
               t == db'.run.state
    <3>1. new = old /\ db'.run.cur = db.run.cur /\ Legal(s, t)
      BY Zenon, <2>2 DEF Moves, SameAnswers
    <3>2. CASE s = t
      BY Zenon, <3>1, <3>2 DEF Contract!cvars
    <3>3. CASE s # t
      <4>1. t \in RunState
        BY Zenon, <2>1, <3>1, <3>3 DEF Legal, can_transition, TRANSITIONS, RunState
      <4>2. <<s, t>> \in Contract!Moves
        BY Zenon, <2>1, <3>1, <3>3, <4>1, SameTable DEF Legal, Contract!Moves
      <4> QED BY Zenon, <3>1, <4>2 DEF Contract!Next, Contract!Move
    <3> QED BY Zenon, <3>2, <3>3
  <2>3. CASE Retries(db, db')
    BY Zenon, <2>3 DEF Retries, SameAnswers, Contract!Next, Contract!Retry
  <2>4. ASSUME NEW k \in Keys, Answers(db, db', k) PROVE Contract!Next
    BY <2>4 DEF Answers, Contract!Next, Contract!Answer
  <2> QED BY Zenon, <2>2, <2>3, <2>4 DEF Obeys
<1> QED BY ContractInvariant, <1>1, <1>2, PTL DEF Spec, MeetsContract, Contract!Spec

-----------------------------------------------------------------------------
(***************************************************************************)
(* The platform stops no container of a run that still works on that       *)
(* attempt.                                                                *)
(*                                                                         *)
(* A stop is decided in one step and made in a later one. SInv says what   *)
(* the decision rested on: what each worker loop knows of the run at its   *)
(* place, and that stop jobs are of attempts that are over. Every step     *)
(* Obeys the contract, hence what is over stays over, and the decision is  *)
(* still right when the stop is made.                                      *)
(***************************************************************************)
LoopEntry == [pc: Pcs, job: Kinds \X Attempts, tok: Nat, ref: BOOLEAN]

\* What a loop at its place knows of the run.
Posted(run, w) ==
  w.pc # "idle" =>
    /\ w.job[2] <= run.cur /\ (w.job[1] = "stop" => Over(run, w.job[2]))
    /\ w.pc \in {"start", "record", "stop_now"} => w.job[1] = "dispatch"
    /\ w.pc \in {"stop_first", "cancel", "locked_stop"} => w.job[1] = "cancel"
    /\ w.pc = "stop" => w.job[1] = "stop"
    /\ w.pc = "stop_now" => Over(run, w.job[2])
    /\ w.pc \in {"stop_first", "locked_stop"} => run.state \in {"CANCELLING", "CANCELLED"}

SInv ==
  /\ CInv
  /\ \A j \in Issued(db) : Justified(db, j)
  /\ \A l \in Loops : Posted(db.run, loop[l])

\* What a loop knows stays true.
LEMMA PostedStays ==
  ASSUME CInv, Obeys(db, db'), NEW w \in LoopEntry, Posted(db.run, w)
  PROVE  Posted(db'.run, w)
<1>1. db.run.cur \in Nat /\ db.run.state \in RunState
  BY Parts, MaxAttemptAssumption DEF CInv, IInv, Sound, Typed, Run, Attempts
<1>2. w.job[2] \in Nat
  BY MaxAttemptAssumption DEF LoopEntry, Attempts
<1>3. /\ db.run.cur <= db'.run.cur /\ db'.run.cur \in Nat
      /\ Over(db.run, w.job[2]) => Over(db'.run, w.job[2])
      /\ db.run.state \in {"CANCELLING", "CANCELLED"} =>
           db'.run.state \in {"CANCELLING", "CANCELLED"}
  BY <1>1, <1>2, OverStays
<1>4. w.job[2] <= db.run.cur => w.job[2] <= db'.run.cur
  BY <1>1, <1>2, <1>3
<1> QED BY SMTT(30), <1>3, <1>4 DEF Posted

\* The steps that enqueue nothing and do not concern the loops.
LEMMA AgentPosts ==
  ASSUME CInv, NEW a \in Attempts, Agent(a)
  PROVE  Adds(db, db') /\ UNCHANGED loop
<1>1. Parted(db) /\ Alike(db, db)
  BY SMTT(30), HasParts DEF CInv, IInv
<1>2. CASE authorize(a) \/ Dropped(a)
  BY Zenon, <1>1, <1>2, AlikeAdds DEF authorize, Dropped
<1>3. CASE Handshake(a) \/ Heartbeat(a) \/ ModelLoading(a)
  BY Zenon, <1>1, <1>3, AgentAlike, AlikeAdds DEF Handshake, Heartbeat, ModelLoading, Serve
<1>4. ASSUME NEW k \in Keys, Ask(a, k) PROVE Adds(db, db') /\ UNCHANGED loop
  BY Zenon, <1>1, <1>4, AgentAlike, AlikeAdds DEF Ask, Serve
<1>5. ASSUME NEW status \in {"succeeded", "failed"}, NEW retryable \in BOOLEAN,
             Finish(a, status, retryable)
      PROVE  Adds(db, db') /\ UNCHANGED loop
  BY Zenon, <1>1, <1>5, AgentAlike, AlikeAdds DEF Finish, Serve
<1>6. CASE ModelLoaded(a)
  BY ZenonT(30), <1>1, <1>6, AgentAlike, AlikeAdds DEF ModelLoaded
<1>7. CASE Lapse(a)
  BY Zenon, <1>1, <1>7, SettersAlike, AlikeAdds DEF Lapse
<1> QED BY Zenon, <1>2, <1>3, <1>4, <1>5, <1>6, <1>7 DEF Agent

\* The owner.
LEMMA OwnerPosts ==
  ASSUME CInv, Owner
  PROVE  Adds(db, db') /\ UNCHANGED loop
<1> USE DEF CInv, IInv
<1>1. Parted(db) /\ Alike(db, db)
  BY Zenon, HasParts
<1>2. CASE Cancel
  BY Zenon, <1>2, RequestCancelAdds DEF Cancel
<1>3. CASE Retry
  BY SMTT(30), <1>3, RetryAdds DEF Retry
<1>4. ASSUME NEW k \in Keys, OpenForm(k) \/ Answer(k) PROVE Adds(db, db') /\ UNCHANGED loop
  BY Zenon, <1>1, <1>4, AgentAlike, AlikeAdds DEF OpenForm, Answer
<1> QED BY Zenon, <1>2, <1>3, <1>4 DEF Owner

\* A loop's new entry is posted, and the others are as they were.
LEMMA EntryPosts ==
  ASSUME SInv, NEW l \in Loops, NEW w \in LoopEntry, Posted(db.run, w),
         loop' = [loop EXCEPT ![l] = w]
  PROVE  \A m \in Loops : loop'[m] \in LoopEntry /\ Posted(db.run, loop'[m])
  BY Zenon DEF SInv, CInv, IInv, RestOK, LoopEntry

\* A loop that goes on with its job.
LEMMA GotoPosts ==
  ASSUME SInv, NEW l \in Loops, ~At(l, "idle"), NEW pc \in Pcs, NEW tok \in Nat, NEW ref \in BOOLEAN,
         loop' = [loop EXCEPT ![l] = Working(pc, JobOf(l), tok, ref)],
         pc \in {"start", "record", "stop_now"} => JobOf(l)[1] = "dispatch",
         pc \in {"stop_first", "cancel", "locked_stop"} => JobOf(l)[1] = "cancel",
         pc = "stop" => JobOf(l)[1] = "stop",
         pc = "stop_now" => Over(db.run, AttemptOf(l)),
         pc \in {"stop_first", "locked_stop"} => db.run.state \in {"CANCELLING", "CANCELLED"}
  PROVE  \A m \in Loops : loop'[m] \in LoopEntry /\ Posted(db.run, loop'[m])
<1> DEFINE j == JobOf(l)
           w == Working(pc, j, tok, ref)
<1>1. j \in Kinds \X Attempts
  BY SMTT(30), EntryLemma DEF SInv, CInv, IInv
<1>2. j[2] <= db.run.cur /\ (j[1] = "stop" => Over(db.run, j[2]))
  BY SMTT(30) DEF SInv, Posted, At, JobOf
<1>3. AttemptOf(l) = j[2] /\ loop' = [loop EXCEPT ![l] = w]
  BY Zenon DEF AttemptOf, JobOf
<1>4. (pc = "stop_now" => Over(db.run, j[2]))
      /\ (pc \in {"start", "record", "stop_now"} => j[1] = "dispatch")
      /\ (pc \in {"stop_first", "cancel", "locked_stop"} => j[1] = "cancel")
      /\ (pc = "stop" => j[1] = "stop")
  BY SMTT(30), <1>3
<1> HIDE DEF j
<1>5. w \in LoopEntry /\ w.pc = pc /\ w.job = j
  BY SMTT(30), <1>1 DEF LoopEntry, Working
<1> HIDE DEF w
<1>6. Posted(db.run, w)
  BY Zenon, <1>2, <1>4, <1>5 DEF Posted
<1> QED BY ZenonT(30), <1>3, <1>5, <1>6, EntryPosts

\* Every loop is posted after the step, by what the run was before it.
AllPosted == \A m \in Loops : loop'[m] \in LoopEntry /\ Posted(db.run, loop'[m])

\* The loops are as they were.
LEMMA SamePosted == ASSUME SInv, UNCHANGED loop PROVE AllPosted
  BY Zenon DEF SInv, CInv, IInv, RestOK, LoopEntry, AllPosted

\* A loop that is done.
LEMMA IdlePosted ==
  ASSUME SInv, NEW l \in Loops, loop' = [loop EXCEPT ![l] = Idle]
  PROVE  AllPosted
<1>1. Idle \in LoopEntry /\ Idle.pc = "idle"
  BY MaxAttemptAssumption DEF Idle, Working, LoopEntry, Pcs, Kinds, Attempts
<1> HIDE DEF Idle
<1> QED BY Zenon, <1>1, EntryPosts DEF Posted, AllPosted

\* A loop that returns or raises.
LEMMA EndPosted ==
  ASSUME SInv, NEW l \in Loops, ~At(l, "idle"), NEW pc \in {"ok", "err"}, NEW tok \in Nat,
         NEW ref \in BOOLEAN, loop' = [loop EXCEPT ![l] = Working(pc, JobOf(l), tok, ref)]
  PROVE  AllPosted
<1>1. pc \in Pcs
  BY Zenon DEF Pcs
<1>2. \A m \in Loops : loop'[m] \in LoopEntry /\ Posted(db.run, loop'[m])
  BY ZenonT(60), <1>1, GotoPosts
<1> QED BY Zenon, <1>2 DEF AllPosted

\* The entry that Goto writes.
LEMMA GotoEntry ==
  ASSUME SInv, NEW l \in Loops, NEW pc, Goto(l, pc)
  PROVE  /\ loop[l].tok \in Nat /\ loop[l].ref \in BOOLEAN
         /\ loop' = [loop EXCEPT ![l] = Working(pc, JobOf(l), loop[l].tok, loop[l].ref)]
  BY ZenonT(30), EntryLemma DEF SInv, CInv, IInv, Goto, JobOf

\* A loop that goes on with its job, by Goto.
LEMMA GotoPosted ==
  ASSUME SInv, NEW l \in Loops, ~At(l, "idle"), NEW pc \in Pcs, Goto(l, pc),
         pc \in {"start", "record", "stop_now"} => JobOf(l)[1] = "dispatch",
         pc \in {"stop_first", "cancel", "locked_stop"} => JobOf(l)[1] = "cancel",
         pc = "stop" => JobOf(l)[1] = "stop",
         pc = "stop_now" => Over(db.run, AttemptOf(l)),
         pc \in {"stop_first", "locked_stop"} => db.run.state \in {"CANCELLING", "CANCELLED"}
  PROVE  AllPosted
<1>1. /\ loop[l].tok \in Nat /\ loop[l].ref \in BOOLEAN
      /\ loop' = [loop EXCEPT ![l] = Working(pc, JobOf(l), loop[l].tok, loop[l].ref)]
  BY Zenon, GotoEntry
<1>2. PICK tok \in Nat, ref \in BOOLEAN : loop' = [loop EXCEPT ![l] = Working(pc, JobOf(l), tok, ref)]
  BY Zenon, <1>1
<1>3. \A m \in Loops : loop'[m] \in LoopEntry /\ Posted(db.run, loop'[m])
  BY ZenonT(30), <1>2, GotoPosts
<1> QED BY SMTT(30), <1>3 DEF AllPosted

\* A handler that returns or raises, by Goto.
LEMMA GotoEnds ==
  ASSUME SInv, NEW l \in Loops, ~At(l, "idle"), Goto(l, "ok") \/ Goto(l, "err")
  PROVE  AllPosted
<1>1. PICK pc \in {"ok", "err"} : Goto(l, pc)
  BY Zenon
<1>2. pc \in Pcs /\ pc \notin {"start", "record", "stop_now", "stop", "stop_first", "cancel", "locked_stop"}
  BY Zenon DEF Pcs
<1> QED BY Zenon, <1>1, <1>2, GotoPosted

\* A dispatch's first phase: it fails the run with a stop job, or goes on.
LEMMA DispatchPosts ==
  ASSUME SInv, NEW l \in Loops,
         DispatchStale(l) \/ DispatchRefused(l) \/ DispatchResumed(l) \/ DispatchPrepare(l)
  PROVE  Adds(db, db') /\ AllPosted
<1> DEFINE begun == begin_attempt(db)
           a == AttemptOf(l)
<1>1. Parted(db) /\ Alike(db, db) /\ Alike(db, begun) /\ Sound(db) /\ Explained(db.run)
  BY Zenon, HasParts, PlatformAlike DEF SInv, CInv, IInv
<1>2. CASE DispatchStale(l)
  BY <1>1, <1>2, GotoEntry, EndPosted, AlikeAdds DEF DispatchStale, At
<1>3. CASE DispatchRefused(l)
  <2>1. AllPosted
    BY SMTT(30), <1>3, GotoEntry, EndPosted DEF DispatchRefused, At
  <2>2. db.run.state \in {"QUEUED", "PREPARING"} /\ db' = fail_run(begun, FALSE, "FAILED")
    BY SMTT(30), <1>3 DEF DispatchRefused, Dispatchable
  <2>3. Sound(begun) /\ Explained(begun.run)
    BY Zenon, <1>1, <2>2, BeginAttemptLemma, BeginAttemptObeys DEF Obeys
  <2> HIDE DEF begun
  <2>4. Adds(begun, db') /\ Issued(begun) = Issued(db)
    BY ZenonT(30), <1>1, <2>2, <2>3, FailRunAdds DEF Alike, Issued
  <2> QED BY Zenon, <2>1, <2>4, ThenAdds
<1>4. CASE DispatchResumed(l)
  BY <1>1, <1>4, GotoEntry, EndPosted, AlikeAdds DEF DispatchResumed, At
<1>5. CASE DispatchPrepare(l)
  <2> DEFINE tok == db.att[a].tok + 1
             row == [begun.att[a] EXCEPT !.tok = tok]
  <2>1. db' = SetAttempt(begun, a, row) /\ JobOf(l)[1] = "dispatch" /\ ~At(l, "idle")
        /\ loop' = [loop EXCEPT ![l] = Working("start", JobOf(l), tok, FALSE)]
    BY SMTT(30), <1>5 DEF DispatchPrepare, At
  <2>2. a \in Attempts /\ db.att[a] \in Attempt
    BY Zenon, <1>1, EntryLemma, Parts DEF SInv, CInv, IInv, Sound, Typed
  <2>3. tok \in Nat /\ "start" \in Pcs
    BY <2>2 DEF Attempt, Pcs
  <2> HIDE DEF begun, row, tok
  <2>4. Alike(db, db')
    <3>1. Alike(begun, db')
      BY <1>1, <2>1, SettersAlike DEF Alike
    <3> QED BY Zenon, <1>1, <3>1, AlikeThen
  <2>5. \A m \in Loops : loop'[m] \in LoopEntry /\ Posted(db.run, loop'[m])
    BY ZenonT(60), <2>1, <2>3, GotoPosts
  <2> QED BY Zenon, <2>4, <2>5, AlikeAdds DEF AllPosted
<1> QED BY Zenon, <1>2, <1>3, <1>4, <1>5

\* The container's start and its record: the loop that decides to stop it saw the run over.
LEMMA StartPosts ==
  ASSUME SInv, NEW l \in Loops, StartRun(l) \/ StartRunFails(l) \/ RecordRef(l)
  PROVE  Adds(db, db') /\ AllPosted
<1>1. Parted(db) /\ Alike(db, db)
  BY Zenon, HasParts DEF SInv, CInv, IInv
<1>2. CASE StartRun(l)
  <2>1. ~At(l, "idle") /\ JobOf(l)[1] = "dispatch" /\ "record" \in Pcs
    BY Zenon, <1>2 DEF StartRun, At, SInv, Posted, JobOf, Pcs
  <2>2. \A m \in Loops : loop'[m] \in LoopEntry /\ Posted(db.run, loop'[m])
    BY ZenonT(60), <1>2, <2>1, GotoPosts DEF StartRun
  <2> QED BY ZenonT(30), <1>1, <1>2, <2>2, AlikeAdds DEF StartRun, AllPosted
<1>3. CASE StartRunFails(l)
  BY Zenon, <1>1, <1>3, EndPosted, AlikeAdds DEF StartRunFails, At
<1>4. CASE RecordRef(l)
  <2> DEFINE a == AttemptOf(l)
             over == db.run.cur # a \/ db.run.state \in {"CANCELLED", "FAILED", "INTERRUPTED"}
             pc == IF over THEN "stop_now" ELSE "ok"
  <2>1. ~At(l, "idle") /\ JobOf(l)[1] = "dispatch" /\ a <= db.run.cur /\ pc \in Pcs
    BY Zenon, <1>4 DEF RecordRef, At, SInv, Posted, JobOf, AttemptOf, Pcs
  <2>2. a \in Nat /\ db.run.cur \in Nat
    <3>1. a \in Attempts
      BY ZenonT(30), EntryLemma DEF SInv, CInv, IInv
    <3>2. db.run.cur \in Attempts
      BY ZenonT(30), Parts DEF SInv, CInv, IInv, Sound, Typed
    <3> QED BY <3>1, <3>2, MaxAttemptAssumption DEF Attempts
  <2>3. pc = "stop_now" => Over(db.run, a)
    BY SMTT(30), <2>1, <2>2 DEF Over, TERMINAL_STATES
  <2>4. Goto(l, pc)
    BY Zenon, <1>4 DEF RecordRef
  <2>5. pc \in {"ok", "stop_now"}
    BY Zenon
  <2>6. Alike(db, db')
    BY ZenonT(30), <1>1, <1>4, SettersAlike DEF RecordRef
  <2> HIDE DEF pc, a
  <2>7. \A m \in Loops : loop'[m] \in LoopEntry /\ Posted(db.run, loop'[m])
    BY <2>1, <2>3, <2>4, <2>5, GotoEntry, GotoPosts DEF a
  <2> QED BY Zenon, <2>6, <2>7, AlikeAdds DEF AllPosted
<1> QED BY Zenon, <1>2, <1>3, <1>4

\* The cancel and stop jobs.
LEMMA StopPosts ==
  ASSUME SInv, NEW l \in Loops,
         CancelRead(l) \/ CancelCommit(l) \/ StopRead(l) \/ StopRun(l) \/ StopRunFails(l)
  PROVE  Adds(db, db') /\ AllPosted
<1>1. Alike(db, db) /\ Alike(db, Cancelled(db))
  BY Zenon, HasParts, PlatformAlike DEF SInv, CInv, IInv, Cancelled
<1>2. CASE CancelRead(l)
  <2> DEFINE ref == db.att[db.run.cur].ref
             stopping == db.run.state = "CANCELLING"
             pc == CASE ~stopping -> "ok"
                     [] stopping /\ ref -> "stop_first"
                     [] OTHER -> "cancel"
  <2>1. ~At(l, "idle") /\ JobOf(l)[1] = "cancel" /\ UNCHANGED db
        /\ loop' = [loop EXCEPT ![l] = Working(pc, JobOf(l), 0, ref)]
    BY SMTT(30), <1>2 DEF CancelRead, At
  <2>2. ref \in BOOLEAN
    <3>1. db.att[db.run.cur] \in Attempt
      BY Zenon, Parts DEF SInv, CInv, IInv, Sound, Typed
    <3> QED BY Zenon, <3>1 DEF Attempt
  <2>3. pc \in {"ok", "stop_first", "cancel"} /\ (pc = "stop_first" => db.run.state = "CANCELLING")
    BY Zenon
  <2> HIDE DEF pc, ref
  <2>4. pc \in Pcs
    BY Zenon, <2>3 DEF Pcs
  <2>5. \A m \in Loops : loop'[m] \in LoopEntry /\ Posted(db.run, loop'[m])
    BY ZenonT(60), <2>1, <2>2, <2>3, <2>4, GotoPosts
  <2> QED BY Zenon, <1>1, <2>1, <2>5, AlikeAdds DEF AllPosted
<1>3. CASE CancelCommit(l)
  <2>1. ~At(l, "idle") /\ JobOf(l)[1] = "cancel"
    BY Zenon, <1>3 DEF CancelCommit, At, SInv, Posted, JobOf
  <2>2. (UNCHANGED db \/ db' = Cancelled(db))
        /\ (Goto(l, "ok") \/ (Goto(l, "locked_stop") /\ db.run.state = "CANCELLING"))
    BY Zenon, <1>3 DEF CancelCommit
  <2>3. CASE Goto(l, "ok")
    <3>1. AllPosted
      BY SMTT(30), <2>1, <2>3, GotoEnds
    <3> QED BY Zenon, <1>1, <2>2, <3>1, AlikeAdds
  <2>4. CASE Goto(l, "locked_stop") /\ db.run.state = "CANCELLING"
    <3> DEFINE pc == "locked_stop"
    <3>1. Goto(l, pc) /\ pc \in Pcs /\ pc \notin {"start", "record", "stop_now", "stop"}
      BY Zenon, <2>4 DEF Pcs
    <3> HIDE DEF pc
    <3>2. AllPosted
      BY Zenon, <2>1, <2>4, <3>1, GotoPosted
    <3> QED BY Zenon, <1>1, <2>2, <3>2, AlikeAdds
  <2> QED BY Zenon, <2>2, <2>3, <2>4
<1>4. CASE StopRead(l)
  <2> DEFINE pc == IF db.att[AttemptOf(l)].ref THEN "stop" ELSE "ok"
  <2>1. ~At(l, "idle") /\ JobOf(l)[1] = "stop" /\ UNCHANGED db /\ Goto(l, pc)
    BY Zenon, <1>4 DEF StopRead, At
  <2>2. pc \in {"ok", "stop"}
    BY Zenon
  <2> HIDE DEF pc
  <2>3. pc \in Pcs
    BY SMTT(30), <2>2 DEF Pcs
  <2>4. \A m \in Loops : loop'[m] \in LoopEntry /\ Posted(db.run, loop'[m])
    BY <2>1, <2>2, <2>3, GotoEntry, GotoPosts
  <2> QED BY SMTT(30), <1>1, <2>1, <2>4, AlikeAdds DEF AllPosted
<1>5. CASE StopRun(l)
  <2>1. ~At(l, "idle") /\ (UNCHANGED db \/ db' = Cancelled(db))
        /\ (Goto(l, "ok") \/ (Goto(l, "cancel") /\ At(l, "stop_first")))
    BY Zenon, <1>5 DEF StopRun, Stopping, At
  <2>2. CASE Goto(l, "ok")
    <3>1. AllPosted
      BY SMTT(30), <2>1, <2>2, GotoEnds
    <3> QED BY Zenon, <1>1, <2>1, <3>1, AlikeAdds
  <2>3. CASE Goto(l, "cancel") /\ At(l, "stop_first")
    <3> DEFINE pc == "cancel"
    <3>1. JobOf(l)[1] = "cancel"
      BY Zenon, <2>3 DEF SInv, Posted, At, JobOf
    <3>2. /\ Goto(l, pc) /\ pc \in Pcs
          /\ pc \notin {"start", "record", "stop_now", "stop", "stop_first", "locked_stop"}
      BY SMTT(30), <2>3 DEF Pcs
    <3> HIDE DEF pc
    <3>3. AllPosted
      BY Zenon, <2>1, <3>1, <3>2, GotoPosted
    <3> QED BY Zenon, <1>1, <2>1, <3>3, AlikeAdds
  <2> QED BY SMTT(30), <2>1, <2>2, <2>3
<1>6. CASE StopRunFails(l)
  <2>1. UNCHANGED db /\ ~At(l, "idle") /\ Goto(l, "err")
    BY Zenon, <1>6 DEF StopRunFails, Stopping, At
  <2>2. AllPosted
    BY Zenon, <2>1, GotoEnds
  <2> QED BY SMTT(30), <1>1, <2>1, <2>2, AlikeAdds
<1> QED BY Zenon, <1>2, <1>3, <1>4, <1>5, <1>6

\* A loop claims a job, completes or fails it.
LEMMA JobPosts ==
  ASSUME SInv, NEW l \in Loops,
         \/ \E j \in Kinds \X Attempts : Claim(l, j)
         \/ Complete(l) \/ Fail(l)
  PROVE  Adds(db, db') /\ AllPosted
<1> DEFINE p == ProcOf[l]
<1>1. Parted(db) /\ Sound(db) /\ Explained(db.run)
  BY Zenon, HasParts DEF SInv, CInv, IInv
<1>2. JobOf(l) \in Kinds \X Attempts /\ p \in Workers
  BY ZenonT(30), EntryLemma, ProcOfType DEF SInv, CInv, IInv
<1>3. ASSUME NEW j \in Kinds \X Attempts, Claim(l, j) PROVE Adds(db, db') /\ AllPosted
  <2> DEFINE w == Working("handle", j, 0, FALSE)
             r == ClaimedJob(db.jobs[j], p)
  <2>1. db.jobs[j].st # "absent" /\ db' = SetJob(db, j, r) /\ loop' = [loop EXCEPT ![l] = w]
    BY SMTT(30), <1>3 DEF Claim
  <2>2. Justified(db, j)
    BY Zenon, <2>1 DEF SInv, Issued
  <2>3. w \in LoopEntry /\ w.pc = "handle" /\ w.job = j
    BY Zenon DEF LoopEntry, Working, Pcs
  <2> HIDE DEF w, r
  <2>4. Posted(db.run, w)
    BY Zenon, <2>2, <2>3 DEF Posted, Justified
  <2>5. Issued(db') \subseteq Issued(db)
    BY ZenonT(30), <1>1, <2>1, SetJobIssued
  <2> QED BY ZenonT(30), <2>1, <2>3, <2>4, <2>5, EntryPosts DEF AllPosted, Adds
<1> DEFINE row == db.jobs[JobOf(l)]
<1>4. CASE Complete(l)
  <2> DEFINE r == CompletedJob(row, p)
  <2>1. db' = SetJob(db, JobOf(l), r) /\ (r.st # "absent" => row.st # "absent")
    BY ZenonT(30), <1>4 DEF Complete, CompletedJob, Owned, Unowned
  <2> HIDE DEF r
  <2>2. Issued(db') \subseteq Issued(db)
    BY ZenonT(30), <1>1, <1>2, <2>1, SetJobIssued
  <2> QED BY Zenon, <1>4, <2>2, IdlePosted DEF Complete, Adds
<1>5. CASE Fail(l)
  <2> DEFINE j == FailedJob(row, p, TRUE)
             d == SetJob(db, JobOf(l), j)
             dies == Owned(row, p) /\ j.st = "dead"
  <2>1. db' = IF dies THEN on_dead_job(d, {JobOf(l)}) ELSE d
    BY Zenon, <1>5 DEF Fail
  <2>2. j.st # "absent" => row.st # "absent"
    BY ZenonT(30) DEF FailedJob, Owned, Unowned
  <2>3. row \in Job
    BY Zenon, <1>1, <1>2, Parts DEF Sound, Typed
  <2>4. j \in Job /\ (j.st = "available" => j = row \/ j.tries < MaxTries)
    BY ZenonT(30), <1>2, <2>3, JobRowLemma
  <2> HIDE DEF dies, j
  <2>5. Sound(d) /\ d.run = db.run
    BY Zenon, <1>1, <1>2, <2>4, JobStepLemma DEF Keeps
  <2>6. Issued(d) \subseteq Issued(db)
    BY Zenon, <1>1, <1>2, <2>2, SetJobIssued
  <2> HIDE DEF d
  <2>7. Adds(d, on_dead_job(d, {JobOf(l)})) /\ Adds(d, d)
    BY Zenon, <1>1, <2>5, DeadJobAdds DEF Adds
  <2>8. Adds(db, db')
    BY SMTT(30), <2>1, <2>6, <2>7, ThenAdds
  <2> QED BY ZenonT(30), <1>5, <2>8, IdlePosted DEF Fail
<1> QED BY Zenon, <1>3, <1>4, <1>5

\* Reaping makes no job appear.
LEMMA ReapIssued ==
  ASSUME NEW d, Sound(d), NEW lapsed
  PROVE  Issued(reap_expired(d, lapsed)) \subseteq Issued(d)
<1> DEFINE f == [j \in Kinds \X Attempts |->
                   IF j \in lapsed THEN ReapedJob(d.jobs[j]) ELSE d.jobs[j]]
<1>1. \A j \in Kinds \X Attempts : f[j].st # "absent" => d.jobs[j].st # "absent"
  BY Zenon DEF ReapedJob, Unowned
<1>2. reap_expired(d, lapsed) = [d EXCEPT !.jobs = f]
  BY Zenon DEF reap_expired, SetJobs
<1> HIDE DEF f
<1>3. reap_expired(d, lapsed).jobs = f
  BY Zenon, <1>2, HasParts DEF Parted
<1> QED BY SMTT(30), <1>1, <1>3 DEF Issued

\* A tick of the leader.
LEMMA TickPosts ==
  ASSUME SInv, NEW lapsed, NEW due, NEW spent \in BOOLEAN, NEW skip \in BOOLEAN,
         Tick(lapsed, due, spent, skip)
  PROVE  Adds(db, db') /\ AllPosted
<1> DEFINE reaped == reap_expired(db, lapsed)
           dead == {j \in lapsed : reaped.jobs[j].st = "dead"}
           settled == on_dead_job(reaped, dead)
           e == reconcile_run(settled, due, spent)
<1>1. Sound(reaped) /\ reaped.run = db.run /\ Issued(reaped) \subseteq Issued(db)
  BY SMTT(30), ReapLemma, ReapIssued DEF Keeps, SInv, CInv, IInv
<1>2. db' = (IF skip THEN reaped ELSE e) /\ UNCHANGED loop
  BY Zenon DEF Tick
<1> HIDE DEF reaped, dead
<1>3. Explained(reaped.run)
  BY Zenon, <1>1 DEF SInv, CInv
<1>4. Sound(settled) /\ Adds(reaped, settled)
      /\ (settled = reaped \/ settled.run.state \in TERMINAL_STATES)
  BY Zenon, <1>1, <1>3, DeadJobLemma, DeadJobObeys, DeadJobAdds DEF Keeps
<1> HIDE DEF settled
<1>5. Adds(reaped, e)
  <2>1. CASE settled = reaped
    BY Zenon, <1>1, <1>3, <2>1, ReconcileAdds
  <2>2. CASE settled.run.state \in TERMINAL_STATES
    <3>1. e = settled
      BY Zenon, <2>2 DEF reconcile_run, TERMINAL_STATES, WATCHED_STATES, ACTIVE_CLOCK_STATES
    <3> QED BY Zenon, <1>4, <3>1
  <2> QED BY Zenon, <1>4, <2>1, <2>2
<1> HIDE DEF e
<1>6. Adds(db, reaped) /\ Adds(db, e)
  BY Zenon, <1>1, <1>5, ThenAdds DEF Adds
<1> QED BY Zenon, <1>2, <1>6, SamePosted

\* Every step posts its loops and justifies its jobs.
LEMMA NextPosts == ASSUME SInv, Next PROVE Adds(db, db') /\ AllPosted
<1>1. CInv /\ Sound(db) /\ Alike(db, db) /\ Explained(db.run)
  BY Zenon, HasParts DEF SInv, CInv, IInv
<1>2. ASSUME NEW l \in Loops, Loop(l) PROVE Adds(db, db') /\ AllPosted
  BY Zenon, <1>2, JobPosts, DispatchPosts, StartPosts, StopPosts DEF Loop, Step
<1>3. CASE Reconcile
  <2> PICK lapsed \in SUBSET Expirable, due \in SUBSET Pending(db),
           spent \in BOOLEAN, skip \in BOOLEAN : Tick(lapsed, due, spent, skip)
    BY Zenon, <1>3 DEF Reconcile
  <2> QED BY Zenon, TickPosts
<1>4. CASE GatewayReap
  <2>1. Issued(db') \subseteq Issued(db) /\ UNCHANGED loop
    BY Zenon, <1>1, <1>4, ReapIssued DEF GatewayReap
  <2> QED BY Zenon, <2>1, SamePosted DEF Adds
<1>5. CASE RecordExit
  <2>1. seen \in Attempts
    BY SMTT(30), <1>1, <1>5, MaxAttemptAssumption DEF RecordExit, CInv, IInv, RestOK, Attempts
  <2> QED BY SMTT(30), <1>1, <1>5, <2>1, ContainerExitAdds, SamePosted DEF RecordExit
<1>6. ASSUME NEW a \in Attempts, Daemon(a) \/ ObserveExit(a) PROVE Adds(db, db') /\ AllPosted
  BY SMTT(30), <1>1, <1>6, AlikeAdds, SamePosted DEF Daemon, PullEnds, ContainerExits, gc, ObserveExit
<1>7. ASSUME NEW p \in Workers, Crash(p) PROVE Adds(db, db') /\ AllPosted
  <2>1. UNCHANGED db /\ loop' = [l \in Loops |-> IF ProcOf[l] = p THEN Idle ELSE loop[l]]
    BY Zenon, <1>7 DEF Crash
  <2>2. Idle \in LoopEntry /\ Idle.pc = "idle"
    BY SMTT(30), MaxAttemptAssumption DEF Idle, Working, LoopEntry, Pcs, Kinds, Attempts
  <2> HIDE DEF Idle
  <2>3. AllPosted
    BY Zenon, <2>1, <2>2 DEF AllPosted, Posted, SInv, CInv, IInv, RestOK, LoopEntry
  <2> QED BY SMTT(30), <1>1, <2>1, <2>3, AlikeAdds
<1>8. CASE Owner
  BY Zenon, <1>1, <1>8, OwnerPosts, SamePosted
<1>9. ASSUME NEW a \in Attempts, Agent(a) PROVE Adds(db, db') /\ AllPosted
  BY Zenon, <1>1, <1>9, AgentPosts, SamePosted
<1> QED BY SMTT(30), <1>2, <1>3, <1>4, <1>5, <1>6, <1>7, <1>8, <1>9 DEF Next

\* The platform stops only containers of attempts that are over: no stop that was decided
\* hits a run that works on that attempt, however late it is made (handle_dispatch's second
\* phase, handle_cancel, handle_stop), for any numbers of loops, retries and questions and
\* under every fault.
THEOREM StopsAreLate == Spec => []StopsOnlyEnded
<1>1. Init => SInv
  <2> SUFFICES ASSUME Init PROVE SInv
    BY Zenon
  <2>1. CInv
    BY SMTT(30), InitObeys
  <2>2. Issued(db) \subseteq {<<"dispatch", 1>>} /\ db.run.cur = 1
    BY Zenon DEF Init, create_run, Issued, NoJob
  <2>3. \A j \in Issued(db) : Justified(db, j)
    BY <2>2 DEF Justified
  <2>4. \A l \in Loops : loop[l].pc = "idle"
    BY Zenon DEF Init, Idle, Working
  <2> QED BY Zenon, <2>1, <2>3, <2>4 DEF SInv, Posted
<1>2. SInv /\ [Next]_vars => SInv'
  <2>1. ASSUME SInv, Next PROVE SInv'
    <3>1. CInv /\ CInv' /\ Obeys(db, db') /\ Sound(db)
      BY Zenon, <2>1, CStep, NextObeys DEF SInv, CInv, IInv
    <3>2. Adds(db, db') /\ AllPosted
      BY Zenon, <2>1, NextPosts
    <3>3. \A j \in Issued(db') : Justified(db', j)
      BY SMTT(30), <2>1, <3>1, <3>2, AllJustified DEF SInv
    <3>4. \A l \in Loops : Posted(db'.run, loop'[l])
      BY Zenon, <3>1, <3>2, PostedStays DEF AllPosted
    <3> QED BY Zenon, <3>1, <3>3, <3>4 DEF SInv
  <2>2. ASSUME SInv, UNCHANGED vars PROVE SInv'
    <3>1. CInv' /\ UNCHANGED <<db, loop>>
      BY Zenon, <2>2, CStep DEF SInv, vars
    <3> QED BY Zenon, <2>2, <3>1 DEF SInv
  <2> QED BY Zenon, <2>1, <2>2
<1>3. SInv => StopsOnlyEnded
  <2> SUFFICES ASSUME SInv, NEW l \in Loops, Stopping(l), db.run.cur = Target(l)
               PROVE  db.run.state \notin WATCHED_STATES
    BY SMTT(30) DEF StopsOnlyEnded
  <2>1. Posted(db.run, loop[l]) /\ db.run.cur \in Nat
    BY SMTT(30), Parts, MaxAttemptAssumption DEF SInv, CInv, IInv, Sound, Typed, Attempts
  <2>2. CASE loop[l].pc \in {"stop_first", "locked_stop"}
    BY SMTT(30), <2>1, <2>2 DEF Posted, WATCHED_STATES
  <2>3. CASE loop[l].pc \in {"stop_now", "stop"}
    <3>1. Over(db.run, AttemptOf(l)) /\ JobOf(l)[1] # "cancel"
      BY Zenon, <2>1, <2>3 DEF Posted, AttemptOf, JobOf
    <3> QED BY SMTT(30), <2>1, <3>1 DEF Target, Over, TERMINAL_STATES, WATCHED_STATES
  <2> QED BY Zenon, <2>2, <2>3 DEF Stopping
<1> QED BY <1>1, <1>2, <1>3, PTL DEF Spec
=============================================================================
