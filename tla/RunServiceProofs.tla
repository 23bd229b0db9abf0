-------------------------- MODULE RunServiceProofs --------------------------
(***************************************************************************)
(* What each function of the run service preserves, for every database it  *)
(* may be called on.  Three parts, one lemma per function in each:         *)
(*                                                                         *)
(* Keeps      the rows stay Sound (the part of the inductive invariant that *)
(*            concerns them) and an ended attempt keeps its outcome;       *)
(* Obeys      the run row and the answers change as RunContract allows;    *)
(* Adds       the jobs that are enqueued are of an attempt that has begun, *)
(*            and stop jobs of one that is over.                           *)
(***************************************************************************)
EXTENDS RunService, TLAPS

\* Jobs in the queue have a try left.
JobsOK(d) ==
  \A j \in Kinds \X Attempts : d.jobs[j].st = "available" => d.jobs[j].tries < MaxTries

\* The run waits exactly while a question is open, and open questions are current.
InputsOK(d) ==
  /\ d.run.state = "WAITING_INPUT" <=> \E k \in Keys : d.inp[k].st = "pending"
  /\ \A k \in Keys : d.inp[k].st = "pending" => d.inp[k].att = d.run.cur

NoneOpen(d) == \A k \in Keys : d.inp[k].st # "pending"

\* Well-typed, with jobs that can be claimed.
Typed(d) == d \in Database /\ JobsOK(d)

Sound(d) == Typed(d) /\ InputsOK(d)

\* An ended attempt's run row is as it was, unless the owner retried.
KeepsOutcome(d, e) ==
  d.run.state \in TERMINAL_STATES /\ e.run.cur = d.run.cur => e.run = d.run

\* What every operation owes.
Keeps(d, e) == Sound(e) /\ KeepsOutcome(d, e)

-----------------------------------------------------------------------------
(* The setters.                                                            *)

\* The four parts of a well-typed database are well-typed.
LEMMA Parts ==
  ASSUME NEW d \in Database
  PROVE  /\ d.run \in Run /\ d.att \in [Attempts -> Attempt]
         /\ d.inp \in [Keys -> Input] /\ d.jobs \in [Kinds \X Attempts -> Job]
         /\ d.run.cur \in Attempts
  BY Zenon DEF Database, Run

\* Writing the run row.
LEMMA SetRunLemma ==
  ASSUME NEW d, Typed(d), NEW r \in Run
  PROVE  LET e == SetRun(d, r)
         IN  /\ Typed(e) /\ e.run = r
             /\ e.att = d.att /\ e.inp = d.inp /\ e.jobs = d.jobs
<1> DEFINE e == SetRun(d, r)
<1>1. e \in Database /\ e.run = r /\ e.att = d.att /\ e.inp = d.inp /\ e.jobs = d.jobs
  BY Zenon DEF Typed, Database, SetRun, SetInputs, SetJobs
<1> HIDE DEF e
<1>2. JobsOK(e)
  BY Zenon, <1>1 DEF JobsOK, Typed
<1> QED BY Zenon, <1>1, <1>2 DEF Typed, e

\* Writing an attempt row.
LEMMA SetAttemptLemma ==
  ASSUME NEW d, Typed(d), NEW a \in Attempts, NEW r \in Attempt
  PROVE  LET e == SetAttempt(d, a, r)
         IN  /\ Typed(e) /\ e.att[a] = r
             /\ e.run = d.run /\ e.inp = d.inp /\ e.jobs = d.jobs
<1> DEFINE att == [d.att EXCEPT ![a] = r]
           e == [d EXCEPT !.att = att]
<1>1. att \in [Attempts -> Attempt] /\ att[a] = r
  BY Zenon, Parts DEF Typed
<1>2. SetAttempt(d, a, r) = e
  BY Zenon DEF SetAttempt
<1> HIDE DEF att
<1>3. e \in Database /\ e.run = d.run /\ e.att = att /\ e.inp = d.inp /\ e.jobs = d.jobs
  BY Zenon, <1>1 DEF Typed, Database
<1> HIDE DEF e
<1>4. JobsOK(e)
  BY Zenon, <1>3 DEF JobsOK, Typed
<1> QED BY Zenon, <1>1, <1>2, <1>3, <1>4 DEF Typed

\* Writing the questions.
LEMMA SetInputsLemma ==
  ASSUME NEW d, Typed(d), NEW f \in [Keys -> Input]
  PROVE  LET e == SetInputs(d, f)
         IN  /\ Typed(e) /\ e.inp = f
             /\ e.run = d.run /\ e.att = d.att /\ e.jobs = d.jobs
<1> DEFINE e == SetInputs(d, f)
<1>1. e \in Database /\ e.run = d.run /\ e.att = d.att /\ e.inp = f /\ e.jobs = d.jobs
  BY Zenon DEF Typed, Database, SetRun, SetInputs, SetJobs
<1> HIDE DEF e
<1>2. JobsOK(e)
  BY Zenon, <1>1 DEF JobsOK, Typed
<1> QED BY Zenon, <1>1, <1>2 DEF Typed, e

\* Writing the job rows.
LEMMA SetJobsLemma ==
  ASSUME NEW d, Typed(d), NEW f \in [Kinds \X Attempts -> Job],
         \A j \in Kinds \X Attempts : f[j].st = "available" => f[j].tries < MaxTries
  PROVE  LET e == SetJobs(d, f)
         IN  /\ Typed(e) /\ e.jobs = f
             /\ e.run = d.run /\ e.att = d.att /\ e.inp = d.inp
<1> DEFINE e == SetJobs(d, f)
<1>1. e \in Database /\ e.run = d.run /\ e.att = d.att /\ e.inp = d.inp /\ e.jobs = f
  BY Zenon DEF Typed, Database, SetRun, SetInputs, SetJobs
<1> HIDE DEF e
<1>2. JobsOK(e)
  BY Zenon, <1>1 DEF JobsOK
<1> QED BY Zenon, <1>1, <1>2 DEF Typed, e

\* Writing one job row.
LEMMA SetJobLemma ==
  ASSUME NEW d, Typed(d), NEW j \in Kinds \X Attempts, NEW r \in Job,
         r.st = "available" => r.tries < MaxTries
  PROVE  LET e == SetJob(d, j, r)
         IN  /\ Typed(e) /\ e.jobs[j] = r
             /\ e.run = d.run /\ e.att = d.att /\ e.inp = d.inp
<1> DEFINE f == [d.jobs EXCEPT ![j] = r]
<1>1. f \in [Kinds \X Attempts -> Job] /\ f[j] = r
  BY Zenon, Parts DEF Typed
<1>2. \A i \in Kinds \X Attempts : f[i].st = "available" => f[i].tries < MaxTries
  BY Zenon, Parts DEF Typed, JobsOK
<1>3. SetJob(d, j, r) = SetJobs(d, f)
  BY Zenon DEF SetJob
<1> HIDE DEF f
<1> QED BY <1>1, <1>2, <1>3, SetJobsLemma

-----------------------------------------------------------------------------
(* The building blocks.                                                    *)

\* Enqueuing keeps the run, its attempts and its questions.
LEMMA EnqueueLemma ==
  ASSUME NEW d, Typed(d), NEW kind \in Kinds, NEW a \in Attempts
  PROVE  LET e == Enqueue(d, kind, a)
         IN  Typed(e) /\ e.run = d.run /\ e.att = d.att /\ e.inp = d.inp
<1>1. <<kind, a>> \in Kinds \X Attempts
  BY Zenon
<1>2. EnqueuedJob \in Job /\ EnqueuedJob.tries < MaxTries
  BY MaxTriesAssumption DEF EnqueuedJob, Job, JobStates
<1> QED BY ZenonT(30), <1>1, <1>2, SetJobLemma DEF Enqueue

\* A move changes the state of the run row only.
LEMMA MovedLemma ==
  ASSUME NEW d, Typed(d), NEW t \in RunState
  PROVE  LET e == Moved(d, t)
         IN  /\ Typed(e) /\ e.run.state = t /\ e.run.cur = d.run.cur
             /\ e.att = d.att /\ e.inp = d.inp /\ e.jobs = d.jobs
<1> DEFINE r == [d.run EXCEPT !.state = t]
<1>1. r \in Run /\ r.state = t /\ r.cur = d.run.cur
  BY Zenon, Parts DEF Typed, Run
<1> HIDE DEF r
<1>2. Moved(d, t) = SetRun(d, r)
  BY Zenon DEF Moved, r
<1> QED BY <1>1, <1>2, SetRunLemma

\* A move with an error and a retryable flag, likewise.
LEMMA MovedWithLemma ==
  ASSUME NEW d, Typed(d), NEW t \in RunState,
         NEW error \in {"none", "agent", "platform", "stop_failed"}, NEW retryable \in BOOLEAN
  PROVE  LET e == MovedWith(d, t, error, retryable)
         IN  /\ Typed(e) /\ e.run.state = t /\ e.run.cur = d.run.cur
             /\ e.att = d.att /\ e.inp = d.inp /\ e.jobs = d.jobs
<1> DEFINE r == [state |-> t, cur |-> d.run.cur, result |-> d.run.result,
                 error |-> error, retryable |-> retryable, cancel |-> d.run.cancel]
<1>1. r \in Run /\ r.state = t /\ r.cur = d.run.cur
  BY Zenon, Parts DEF Typed, Run
<1> HIDE DEF r
<1>2. MovedWith(d, t, error, retryable) = SetRun(d, r)
  BY Zenon DEF MovedWith, r
<1> QED BY <1>1, <1>2, SetRunLemma

\* Attempt rows with one field written.
LEMMA AttemptLemma ==
  ASSUME NEW r \in Attempt
  PROVE  /\ [r EXCEPT !.ended = TRUE] \in Attempt /\ [r EXCEPT !.exit = TRUE] \in Attempt
         /\ \A b \in BOOLEAN : [r EXCEPT !.fresh = b] \in Attempt
         /\ \A n \in Nat : [r EXCEPT !.tok = n] \in Attempt
  BY Zenon DEF Attempt

\* Ending an attempt touches its row only.
LEMMA EndedLemma ==
  ASSUME NEW d, Typed(d), NEW a \in Attempts
  PROVE  LET e == Ended(d, a)
         IN  Typed(e) /\ e.run = d.run /\ e.inp = d.inp /\ e.jobs = d.jobs
<1>1. d.att[a] \in Attempt
  BY Zenon, Parts DEF Typed
<1>2. [d.att[a] EXCEPT !.ended = TRUE] \in Attempt
  BY Zenon, <1>1, AttemptLemma
<1> QED BY Zenon, <1>2, SetAttemptLemma DEF Ended

\* A question in another state and version is well-typed.
LEMMA VersionedLemma ==
  ASSUME NEW i \in Input, NEW state \in InputStates
  PROVE  LET c == Versioned(i, state)
         IN  c \in Input /\ c.st = state /\ c.att = i.att
  BY DEF Input, Versioned

\* Closing the open questions leaves none open and changes nothing else.
LEMMA CloseLemma ==
  ASSUME NEW d, Typed(d)
  PROVE  LET e == close_pending_inputs(d, "cancelled")
         IN  /\ Typed(e) /\ NoneOpen(e)
             /\ e.run = d.run /\ e.att = d.att /\ e.jobs = d.jobs
<1> DEFINE g(k) == IF d.inp[k].st = "pending" THEN Versioned(d.inp[k], "cancelled")
                   ELSE d.inp[k]
           inp == [k \in Keys |-> g(k)]
<1>1. \A k \in Keys : g(k) \in Input /\ g(k).st # "pending"
  <2> TAKE k \in Keys
  <2>1. d.inp[k] \in Input
    BY Zenon, Parts DEF Typed
  <2>2. CASE d.inp[k].st = "pending"
    BY Zenon, <2>1, <2>2, VersionedLemma DEF InputStates
  <2>3. CASE d.inp[k].st # "pending"
    BY Zenon, <2>1, <2>3
  <2> QED BY Zenon, <2>2, <2>3
<1>2. inp \in [Keys -> Input] /\ \A k \in Keys : inp[k].st # "pending"
  BY Zenon, <1>1
<1>3. close_pending_inputs(d, "cancelled") = SetInputs(d, inp)
  BY Zenon DEF close_pending_inputs
<1> HIDE DEF inp
<1> QED BY <1>2, <1>3, SetInputsLemma DEF NoneOpen

\* No open question, and a run that does not wait for one.
LEMMA SoundWhenClosed ==
  ASSUME NEW e, Typed(e), NoneOpen(e), e.run.state # "WAITING_INPUT"
  PROVE  Sound(e)
  BY Zenon DEF Sound, InputsOK, NoneOpen

\* A run that does not wait has no open question.
LEMMA ClosedUnlessWaiting ==
  ASSUME NEW d, Sound(d), d.run.state # "WAITING_INPUT"
  PROVE  NoneOpen(d)
  BY Zenon DEF Sound, InputsOK, NoneOpen

\* Moving a run that does not wait to another state in which it does not.
LEMMA MovedSound ==
  ASSUME NEW d, Sound(d), d.run.state # "WAITING_INPUT",
         NEW t \in RunState, t # "WAITING_INPUT"
  PROVE  Sound(Moved(d, t))
<1>1. Typed(d) /\ NoneOpen(d)
  BY Zenon, ClosedUnlessWaiting DEF Sound
<1>2. NoneOpen(Moved(d, t))
  BY Zenon, <1>1, MovedLemma DEF NoneOpen
<1> QED BY Zenon, <1>1, <1>2, MovedLemma, SoundWhenClosed

\* Writing attempt or job rows, or nothing, of a sound database.
LEMMA SameRunSound ==
  ASSUME NEW d, Sound(d), NEW e, Typed(e), e.run = d.run, e.inp = d.inp
  PROVE  Keeps(d, e)
  BY Zenon DEF Sound, InputsOK, Keeps, KeepsOutcome

\* A run in none of the ending states has no outcome to keep.
LEMMA KeepsWhenLive ==
  ASSUME NEW d, NEW e, Sound(e), d.run.state \notin TERMINAL_STATES
  PROVE  Keeps(d, e)
  BY Zenon DEF Keeps, KeepsOutcome

-----------------------------------------------------------------------------
(* The service functions.                                                  *)

\* The owner cancels a run in one of the cancellable states.
LEMMA RequestCancelLemma ==
  ASSUME NEW d, Sound(d), d.run.state \in CANCELLABLE_STATES
  PROVE  Keeps(d, request_cancel(d))
<1> DEFINE a == d.run.cur
           r == [d.run EXCEPT !.cancel = TRUE]
           flagged == SetRun(d, r)
           j == <<"dispatch", a>>
           unqueued == SetJob(flagged, j, CancelledJob(d.jobs[j]))
           moved == IF d.run.state = "QUEUED" THEN Moved(unqueued, "CANCELLED")
                    ELSE Enqueue(Moved(flagged, "CANCELLING"), "cancel", a)
<1>1. Typed(d) /\ a \in Attempts /\ j \in Kinds \X Attempts /\ d.jobs[j] \in Job
  BY Zenon, Parts DEF Sound, Typed, Kinds
<1>2. r \in Run
  BY Zenon, <1>1, Parts DEF Typed, Run
<1>3. CancelledJob(d.jobs[j]) \in Job
      /\ (CancelledJob(d.jobs[j]).st = "available" => CancelledJob(d.jobs[j]).tries < MaxTries)
  BY Zenon, <1>1 DEF CancelledJob, Unowned, Job, JobStates, Typed, JobsOK
<1>4. Typed(flagged)
  BY Zenon, <1>1, <1>2, SetRunLemma
<1>5. Typed(unqueued)
  BY Zenon, <1>1, <1>3, <1>4, SetJobLemma
<1>6. Typed(moved) /\ moved.run.state # "WAITING_INPUT"
  <2>1. CASE d.run.state = "QUEUED"
    BY Zenon, <2>1, <1>5, MovedLemma DEF RunState
  <2>2. CASE d.run.state # "QUEUED"
    <3>1. Typed(Moved(flagged, "CANCELLING"))
          /\ Moved(flagged, "CANCELLING").run.state = "CANCELLING"
      BY Zenon, <1>4, MovedLemma DEF RunState
    <3> QED BY Zenon, <2>2, <3>1, <1>1, EnqueueLemma DEF Kinds
  <2> QED BY Zenon, <2>1, <2>2
<1>7. request_cancel(d) = close_pending_inputs(moved, "cancelled")
  BY Zenon DEF request_cancel
<1> HIDE DEF moved
<1>8. Sound(request_cancel(d))
  BY Zenon, <1>6, <1>7, CloseLemma, SoundWhenClosed
<1> QED BY Zenon, <1>8, KeepsWhenLive DEF CANCELLABLE_STATES, TERMINAL_STATES

\* The owner retries; the current attempt is not the last one allowed.
LEMMA RetryLemma ==
  ASSUME NEW d, Sound(d), CanRetry(d), d.run.cur < MaxAttempt
  PROVE  Keeps(d, retry(d))
<1> DEFINE a == d.run.cur + 1
           r == [state |-> "QUEUED", cur |-> a, result |-> "none", error |-> "none",
                 retryable |-> FALSE, cancel |-> FALSE]
           e == SetRun(d, r)
<1>1. Typed(d) /\ NoneOpen(d)
  BY Zenon, ClosedUnlessWaiting DEF Sound, CanRetry
<1>2. a \in Attempts /\ a # d.run.cur
  BY <1>1, Parts, MaxAttemptAssumption DEF Typed, Attempts
<1>3. r \in Run /\ r.state = "QUEUED" /\ r.cur = a
  BY Zenon, <1>2 DEF Run, RunState
<1>4. retry(d) = Enqueue(e, "dispatch", a)
  BY Zenon DEF retry
<1> HIDE DEF r, a
<1>5. Typed(e) /\ e.run = r /\ e.inp = d.inp
  BY Zenon, <1>1, <1>3, SetRunLemma
<1> HIDE DEF e
<1>6. Typed(retry(d)) /\ retry(d).run = r /\ retry(d).inp = d.inp
  BY <1>2, <1>4, <1>5, EnqueueLemma DEF Kinds
<1>7. NoneOpen(retry(d))
  BY Zenon, <1>1, <1>6 DEF NoneOpen
<1>8. Sound(retry(d))
  BY Zenon, <1>3, <1>6, <1>7, SoundWhenClosed
<1> QED BY Zenon, <1>2, <1>3, <1>6, <1>8 DEF Keeps, KeepsOutcome

\* A run that waits goes on when its last question is closed.  The questions may have
\* changed, as long as the open ones are of the current attempt.
LEMMA ResumeLemma ==
  ASSUME NEW d, Typed(d),
         \A k \in Keys : d.inp[k].st = "pending" => d.inp[k].att = d.run.cur,
         ~NoneOpen(d) => d.run.state = "WAITING_INPUT"
  PROVE  Sound(resume_if_no_pending(d))
<1>1. NoneOpen(d) <=> Pending(d) = {}
  BY Zenon DEF NoneOpen, Pending
<1>2. CASE d.run.state = "WAITING_INPUT" /\ NoneOpen(d)
  <2>1. resume_if_no_pending(d) = Moved(d, "RUNNING")
    BY Zenon, <1>1, <1>2 DEF resume_if_no_pending
  <2>2. Typed(Moved(d, "RUNNING")) /\ Moved(d, "RUNNING").run.state = "RUNNING"
        /\ Moved(d, "RUNNING").inp = d.inp
    BY Zenon, MovedLemma DEF RunState
  <2> QED BY Zenon, <1>2, <2>1, <2>2, SoundWhenClosed DEF NoneOpen
<1>3. CASE ~(d.run.state = "WAITING_INPUT" /\ NoneOpen(d))
  <2>1. resume_if_no_pending(d) = d
    BY Zenon, <1>1, <1>3 DEF resume_if_no_pending
  <2> QED BY Zenon, <1>3, <2>1 DEF Sound, InputsOK, NoneOpen
<1> QED BY Zenon, <1>2, <1>3

\* One question rewritten.
LEMMA SetInputLemma ==
  ASSUME NEW d, Typed(d), NEW k \in Keys, NEW i \in Input
  PROVE  LET e == SetInput(d, k, i)
         IN  /\ Typed(e) /\ e.inp[k] = i
             /\ \A m \in Keys : m # k => e.inp[m] = d.inp[m]
             /\ e.run = d.run /\ e.att = d.att /\ e.jobs = d.jobs
<1> DEFINE f == [d.inp EXCEPT ![k] = i]
<1>1. f \in [Keys -> Input] /\ f[k] = i /\ \A m \in Keys : m # k => f[m] = d.inp[m]
  BY Zenon, Parts DEF Typed
<1>2. SetInput(d, k, i) = SetInputs(d, f)
  BY Zenon DEF SetInput
<1> HIDE DEF f
<1> QED BY <1>1, <1>2, SetInputsLemma

\* The owner's answer to an open question.
LEMMA AnswerLemma ==
  ASSUME NEW d, Sound(d), NEW k \in Keys, NEW v \in Nat, CanAnswer(d, k, v)
  PROVE  Keeps(d, answer(d, k, v))
<1> DEFINE i == [st |-> "answered", att |-> d.inp[k].att, ver |-> d.inp[k].ver + 1,
                 ans |-> v]
           e == SetInput(d, k, i)
<1>1. Typed(d) /\ d.inp[k] \in Input /\ d.run.state = "WAITING_INPUT"
  BY Zenon, Parts DEF Sound, Typed, InputsOK, CanAnswer
<1>2. i \in Input /\ i.st = "answered"
  BY <1>1 DEF Input, InputStates
<1>3. answer(d, k, v) = resume_if_no_pending(e)
  BY Zenon DEF answer
<1> HIDE DEF i
<1>4. Typed(e) /\ e.inp[k] = i /\ e.run = d.run
      /\ \A m \in Keys : m # k => e.inp[m] = d.inp[m]
  BY <1>1, <1>2, SetInputLemma
<1> HIDE DEF e
<1>5. \A m \in Keys : e.inp[m].st = "pending" => e.inp[m].att = e.run.cur
  BY Zenon, <1>2, <1>4 DEF Sound, InputsOK
<1>6. Sound(answer(d, k, v))
  BY Zenon, <1>1, <1>3, <1>4, <1>5, ResumeLemma
<1> QED BY Zenon, <1>1, <1>6, KeepsWhenLive DEF TERMINAL_STATES

\* The agent asks: a new question, a reopened one, or the one that is there.
LEMMA AskLemma ==
  ASSUME NEW d, Sound(d), NEW a \in Attempts, NEW k \in Keys, CanAsk(d, a)
  PROVE  Keeps(d, ask(d, a, k))
<1> DEFINE i == [st |-> "pending", att |-> a, ver |-> d.inp[k].ver + 1, ans |-> d.inp[k].ans]
           opened == SetInput(d, k, i)
           asked == IF d.inp[k].st = "absent" \/ Reopens(d.inp[k], a) THEN opened ELSE d
<1>1. Typed(d) /\ d.inp[k] \in Input /\ d.run.cur = a
      /\ d.run.state \in {"RUNNING", "WAITING_INPUT"}
  BY Zenon, Parts DEF Sound, Typed, CanAsk
<1>2. i \in Input /\ i.st = "pending" /\ i.att = a
  BY <1>1, MaxAttemptAssumption DEF Input, InputStates, Attempts
<1>3. ask(d, a, k) = IF asked.inp[k].st = "pending" /\ d.run.state = "RUNNING"
                     THEN Moved(asked, "WAITING_INPUT") ELSE asked
  BY Zenon DEF ask
<1> HIDE DEF i
<1>4. Typed(opened) /\ opened.inp[k] = i /\ opened.run = d.run
      /\ \A m \in Keys : m # k => opened.inp[m] = d.inp[m]
  BY <1>1, <1>2, SetInputLemma
<1> HIDE DEF opened
<1>5. /\ Typed(asked) /\ asked.run = d.run
      /\ \A m \in Keys : asked.inp[m].st = "pending" => asked.inp[m].att = a
      /\ d.run.state = "WAITING_INPUT" => \E m \in Keys : asked.inp[m].st = "pending"
      /\ d.run.state = "RUNNING" => \A m \in Keys : m # k => asked.inp[m].st # "pending"
  <2>1. CASE asked = opened
    BY Zenon, <1>1, <1>2, <1>4, <2>1 DEF Sound, InputsOK
  <2>2. CASE asked = d
    BY Zenon, <1>1, <2>2 DEF Sound, InputsOK
  <2> QED BY Zenon, <2>1, <2>2
<1> HIDE DEF asked
<1>6. CASE asked.inp[k].st = "pending" /\ d.run.state = "RUNNING"
  <2>1. Typed(Moved(asked, "WAITING_INPUT"))
        /\ Moved(asked, "WAITING_INPUT").run.state = "WAITING_INPUT"
        /\ Moved(asked, "WAITING_INPUT").run.cur = a
        /\ Moved(asked, "WAITING_INPUT").inp = asked.inp
    BY <1>1, <1>5, MovedLemma DEF RunState
  <2>2. Sound(Moved(asked, "WAITING_INPUT"))
    BY Zenon, <1>5, <1>6, <2>1 DEF Sound, InputsOK
  <2> QED BY Zenon, <1>3, <1>6, <2>2, KeepsWhenLive DEF TERMINAL_STATES
<1>7. CASE ~(asked.inp[k].st = "pending" /\ d.run.state = "RUNNING")
  <2>1. Sound(asked)
    BY Zenon, <1>1, <1>5, <1>7 DEF Sound, InputsOK
  <2> QED BY Zenon, <1>1, <1>3, <1>7, <2>1, KeepsWhenLive DEF TERMINAL_STATES
<1> QED BY Zenon, <1>6, <1>7

\* Extending the heartbeat deadline touches the attempt row only.
LEMMA RefreshedLemma ==
  ASSUME NEW d, Sound(d), NEW a \in Attempts
  PROVE  Keeps(d, Refreshed(d, a))
<1>1. Typed(d) /\ d.att[a] \in Attempt
  BY Zenon, Parts DEF Sound, Typed
<1>2. [d.att[a] EXCEPT !.fresh = TRUE] \in Attempt
  BY Zenon, <1>1, AttemptLemma
<1> QED BY Zenon, <1>1, <1>2, SetAttemptLemma, SameRunSound DEF Refreshed

\* The agent shakes hands.
LEMMA HandshakeLemma ==
  ASSUME NEW d, Sound(d), NEW a \in Attempts, CanHandshake(d, a)
  PROVE  Keeps(d, handshake(d, a))
<1> DEFINE m == IF d.run.state = "PREPARING" THEN Moved(d, "RUNNING") ELSE d
<1>1. Sound(m)
  BY Zenon, MovedSound DEF RunState
<1>2. Keeps(m, Refreshed(m, a))
  BY Zenon, <1>1, RefreshedLemma
<1>3. Sound(handshake(d, a))
  BY Zenon, <1>2 DEF handshake, Keeps
<1> QED BY Zenon, <1>3, KeepsWhenLive DEF CanHandshake, TERMINAL_STATES

\* The gateway reports that the model loads, or has loaded.
LEMMA ModelLoadingLemma ==
  ASSUME NEW d, Sound(d), NEW a \in Attempts, NEW loading \in BOOLEAN
  PROVE  Keeps(d, set_model_loading(d, a, loading))
<1>1. Keeps(d, d)
  BY Zenon DEF Keeps, KeepsOutcome
<1>2. d.run.state = "RUNNING" => Keeps(d, Moved(d, "LOADING_MODEL"))
  BY Zenon, MovedSound, KeepsWhenLive DEF RunState, TERMINAL_STATES
<1>3. d.run.state = "LOADING_MODEL" => Keeps(d, Moved(d, "RUNNING"))
  BY Zenon, MovedSound, KeepsWhenLive DEF RunState, TERMINAL_STATES
<1> QED BY Zenon, <1>1, <1>2, <1>3 DEF set_model_loading

\* The agent posts its result.
LEMMA FinishLemma ==
  ASSUME NEW d, Sound(d), NEW a \in Attempts, NEW status \in {"succeeded", "failed"},
         NEW retryable \in BOOLEAN, CanFinish(d, a, status)
  PROVE  Keeps(d, finish(d, a, status, retryable))
<1> DEFINE ended == Ended(d, a)
           r == [d.run EXCEPT !.result = status]
           posted == SetRun(ended, r)
           over == IF status = "succeeded" THEN Moved(posted, "SUCCEEDED")
                   ELSE MovedWith(posted, "FAILED", "agent", retryable)
<1>1. Typed(d) /\ d.run \in Run
  BY Zenon, Parts DEF Sound, Typed
<1>2. Typed(ended) /\ ended.run = d.run /\ ended.inp = d.inp
  BY Zenon, <1>1, EndedLemma
<1>3. r \in Run /\ r.state = d.run.state
  BY Zenon, <1>1 DEF Run
<1> HIDE DEF ended, r
<1>4. Typed(posted) /\ posted.run = r /\ posted.inp = d.inp
  BY Zenon, <1>2, <1>3, SetRunLemma
<1> HIDE DEF posted
<1>5. CASE d.run.state \in TERMINAL_STATES
  <2>1. finish(d, a, status, retryable) = ended
    BY Zenon, <1>5 DEF finish, ended, TERMINAL_STATES
  <2> QED BY Zenon, <1>2, <2>1, SameRunSound
<1>6. CASE d.run.state = "CANCELLING"
  <2>1. finish(d, a, status, retryable) = Moved(posted, "CANCELLED")
    BY Zenon, <1>6 DEF finish, ended, posted, r, TERMINAL_STATES
  <2>2. Typed(Moved(posted, "CANCELLED")) /\ Moved(posted, "CANCELLED").run.state = "CANCELLED"
        /\ Moved(posted, "CANCELLED").inp = d.inp
    BY <1>4, MovedLemma DEF RunState
  <2>3. NoneOpen(Moved(posted, "CANCELLED"))
    BY Zenon, <1>6, <2>2, ClosedUnlessWaiting DEF NoneOpen
  <2> QED BY Zenon, <1>6, <2>1, <2>2, <2>3, SoundWhenClosed, KeepsWhenLive DEF TERMINAL_STATES
<1>7. CASE d.run.state \notin TERMINAL_STATES /\ d.run.state # "CANCELLING"
  <2>1. finish(d, a, status, retryable) = close_pending_inputs(over, "cancelled")
    BY Zenon, <1>7 DEF finish, ended, posted, r
  <2>2. Typed(over) /\ over.run.state # "WAITING_INPUT"
    <3>1. CASE status = "succeeded"
      BY Zenon, <1>4, <3>1, MovedLemma DEF RunState
    <3>2. CASE status # "succeeded"
      <4>1. "FAILED" \in RunState
        BY Zenon DEF RunState
      <4>2. LET e == MovedWith(posted, "FAILED", "agent", retryable)
            IN  Typed(e) /\ e.run.state = "FAILED"
        BY Zenon, <1>4, <4>1, MovedWithLemma
      <4> QED BY Zenon, <3>2, <4>2
    <3> QED BY Zenon, <3>1, <3>2
  <2> HIDE DEF over
  <2> QED BY Zenon, <1>7, <2>1, <2>2, CloseLemma, SoundWhenClosed, KeepsWhenLive
<1> QED BY Zenon, <1>5, <1>6, <1>7

\* The platform fails or interrupts the run, if its state allows that.
LEMMA FailRunLemma ==
  ASSUME NEW d, Sound(d), NEW retryable \in BOOLEAN, NEW t \in {"FAILED", "INTERRUPTED"}
  PROVE  Keeps(d, fail_run(d, retryable, t))
<1> DEFINE a == d.run.cur
           moved == MovedWith(d, t, "platform", retryable)
           ended == Ended(moved, a)
           stops == d.att[a].row /\ ~d.att[a].ended /\ d.att[a].ref
           e == IF stops THEN Enqueue(ended, "stop", a) ELSE ended
<1>1. Typed(d) /\ a \in Attempts /\ t \in RunState /\ d.run.state \in RunState
  BY Zenon, Parts DEF Sound, Typed, RunState, Run
<1>2. Typed(moved) /\ moved.run.state = t
  BY Zenon, <1>1, MovedWithLemma
<1> HIDE DEF moved
<1>3. Typed(ended) /\ ended.run.state = t
  BY Zenon, <1>1, <1>2, EndedLemma
<1> HIDE DEF ended
<1>4. Typed(e) /\ e.run.state = t
  BY SMTT(30), <1>1, <1>3, EnqueueLemma DEF Kinds
<1>5. CASE can_transition(d.run.state, t)
  <2>1. d.run.state \notin TERMINAL_STATES
    BY Zenon, <1>1, <1>5 DEF can_transition, TRANSITIONS, TERMINAL_STATES, RunState
  <2>2. fail_run(d, retryable, t) = close_pending_inputs(e, "cancelled")
    BY Zenon, <1>5 DEF fail_run, ended, moved
  <2> HIDE DEF e
  <2> QED BY Zenon, <1>4, <2>1, <2>2, CloseLemma, SoundWhenClosed, KeepsWhenLive
<1>6. CASE ~can_transition(d.run.state, t)
  BY Zenon, <1>6 DEF fail_run, Keeps, KeepsOutcome
<1> QED BY Zenon, <1>5, <1>6

\* The runtime reports an exit.
LEMMA ContainerExitLemma ==
  ASSUME NEW d, Sound(d), NEW a \in Attempts
  PROVE  Keeps(d, record_container_exit(d, a))
<1> DEFINE row == [d.att[a] EXCEPT !.exit = TRUE]
           recorded == SetAttempt(d, a, row)
<1>1. Typed(d) /\ d.att[a] \in Attempt
  BY Zenon, Parts DEF Sound, Typed
<1>2. row \in Attempt
  BY Zenon, <1>1, AttemptLemma
<1>3. record_container_exit(d, a) \in {d, recorded, fail_run(recorded, TRUE, "FAILED")}
  BY Zenon DEF record_container_exit
<1> HIDE DEF row
<1>4. Keeps(d, recorded) /\ recorded.run = d.run
  BY <1>1, <1>2, SetAttemptLemma, SameRunSound
<1>5. Keeps(recorded, fail_run(recorded, TRUE, "FAILED"))
  BY Zenon, <1>4, FailRunLemma DEF Keeps
<1>6. Keeps(d, d) /\ Keeps(d, fail_run(recorded, TRUE, "FAILED"))
  BY Zenon, <1>4, <1>5 DEF Keeps, KeepsOutcome
<1> QED BY Zenon, <1>3, <1>4, <1>6

\* The reconciler expires open questions of a waiting run.
LEMMA ExpireLemma ==
  ASSUME NEW d, Sound(d), d.run.state = "WAITING_INPUT", NEW due
  PROVE  Keeps(d, expire_inputs(d, due))
<1> DEFINE f == [k \in Keys |->
                   IF k \in due THEN Versioned(d.inp[k], "expired") ELSE d.inp[k]]
           e == SetInputs(d, f)
<1>1. Typed(d) /\ d.inp \in [Keys -> Input] /\ \A k \in Keys : d.inp[k] \in Input
  BY Zenon, Parts DEF Sound, Typed
<1>2. \A k \in Keys : Versioned(d.inp[k], "expired") \in Input
                      /\ Versioned(d.inp[k], "expired").st = "expired"
  BY Zenon, <1>1, VersionedLemma DEF InputStates
<1>3. f \in [Keys -> Input]
      /\ \A k \in Keys : f[k].st = "pending" => f[k] = d.inp[k]
  BY Zenon, <1>1, <1>2
<1>4. expire_inputs(d, due) = resume_if_no_pending(e)
  BY Zenon DEF expire_inputs
<1> HIDE DEF f
<1>5. Typed(e) /\ e.inp = f /\ e.run = d.run
  BY Zenon, <1>1, <1>3, SetInputsLemma
<1> HIDE DEF e
<1>6. \A k \in Keys : e.inp[k].st = "pending" => e.inp[k].att = e.run.cur
  BY Zenon, <1>3, <1>5 DEF Sound, InputsOK
<1>7. Sound(expire_inputs(d, due))
  BY Zenon, <1>4, <1>5, <1>6, ResumeLemma
<1> QED BY Zenon, <1>7, KeepsWhenLive DEF TERMINAL_STATES

\* The reconciler looks at the run.
LEMMA ReconcileLemma ==
  ASSUME NEW d, Sound(d), NEW due, NEW spent \in BOOLEAN
  PROVE  Keeps(d, reconcile_run(d, due, spent))
<1>1. Keeps(d, d)
  BY Zenon DEF Keeps, KeepsOutcome
<1>2. Keeps(d, fail_run(d, FALSE, "FAILED")) /\ Keeps(d, fail_run(d, TRUE, "INTERRUPTED"))
  BY Zenon, FailRunLemma
<1>3. d.run.state = "WAITING_INPUT" => Keeps(d, expire_inputs(d, due))
  BY Zenon, ExpireLemma
<1> QED BY Zenon, <1>1, <1>2, <1>3 DEF reconcile_run

\* A job of an ended attempt died: there is nothing to settle.
LEMMA DeadJobOfEnded ==
  ASSUME NEW d, d.run.state \in TERMINAL_STATES, NEW dead
  PROVE  on_dead_job(d, dead) = d
  BY Zenon DEF on_dead_job, TERMINAL_STATES

\* A job of the current attempt died.
LEMMA DeadJobLemma ==
  ASSUME NEW d, Sound(d), NEW dead
  PROVE  Keeps(d, on_dead_job(d, dead))
<1> DEFINE p == Moved(d, "PREPARING")
           c == MovedWith(d, "CANCELLED", "stop_failed", d.run.retryable)
<1>1. Keeps(d, d)
  BY Zenon DEF Keeps, KeepsOutcome
<1>2. d.run.state \in {"QUEUED", "PREPARING"} => Keeps(d, fail_run(p, TRUE, "FAILED"))
  <2> SUFFICES ASSUME d.run.state \in {"QUEUED", "PREPARING"}
               PROVE  Keeps(d, fail_run(p, TRUE, "FAILED"))
    BY Zenon
  <2>1. Sound(p)
    BY Zenon, MovedSound DEF RunState
  <2> HIDE DEF p
  <2>2. Sound(fail_run(p, TRUE, "FAILED"))
    BY Zenon, <2>1, FailRunLemma DEF Keeps
  <2> QED BY Zenon, <2>2, KeepsWhenLive DEF TERMINAL_STATES
<1>3. d.run.state = "CANCELLING" => Keeps(d, c)
  <2> SUFFICES ASSUME d.run.state = "CANCELLING" PROVE Keeps(d, c)
    BY Zenon
  <2>1. Typed(d) /\ d.run.retryable \in BOOLEAN /\ "CANCELLED" \in RunState
    BY Zenon, Parts DEF Sound, Typed, Run, RunState
  <2>2. Typed(c) /\ c.run.state = "CANCELLED" /\ c.inp = d.inp
    BY <2>1, MovedWithLemma
  <2> HIDE DEF c
  <2>3. NoneOpen(c)
    BY Zenon, <2>2, ClosedUnlessWaiting DEF NoneOpen
  <2> QED BY Zenon, <2>2, <2>3, SoundWhenClosed, KeepsWhenLive DEF TERMINAL_STATES
<1> QED BY Zenon, <1>1, <1>2, <1>3 DEF on_dead_job

\* A dispatch begins the attempt.
LEMMA BeginAttemptLemma ==
  ASSUME NEW d, Sound(d), d.run.state \in {"QUEUED", "PREPARING"}
  PROVE  LET e == begin_attempt(d)
         IN  Sound(e) /\ e.run.cur = d.run.cur /\ e.run.state = "PREPARING"
<1> DEFINE a == d.run.cur
           row == [row |-> TRUE, ref |-> FALSE, fresh |-> TRUE, ended |-> FALSE,
                   exit |-> FALSE, tok |-> 0]
           e == IF d.att[a].row THEN d ELSE SetAttempt(d, a, row)
<1>1. Typed(d) /\ a \in Attempts
  BY Zenon, Parts DEF Sound, Typed
<1>2. row \in Attempt
  BY Zenon DEF Attempt
<1>3. begin_attempt(d) = Moved(e, "PREPARING")
  BY Zenon DEF begin_attempt
<1> HIDE DEF row
<1>4. Keeps(d, SetAttempt(d, a, row)) /\ SetAttempt(d, a, row).run = d.run
  BY <1>1, <1>2, SetAttemptLemma, SameRunSound
<1>5. Sound(e) /\ e.run = d.run
  BY Zenon, <1>4 DEF Keeps
<1> HIDE DEF e
<1>6. Sound(Moved(e, "PREPARING"))
  BY Zenon, <1>5, MovedSound DEF RunState
<1>7. Moved(e, "PREPARING").run.cur = e.run.cur
      /\ Moved(e, "PREPARING").run.state = "PREPARING"
  BY Zenon, <1>5, MovedLemma DEF Sound, RunState
<1> QED BY Zenon, <1>3, <1>5, <1>6, <1>7

\* The cancel job marks a cancelling run cancelled.
LEMMA CancelledLemma ==
  ASSUME NEW d, Sound(d), d.run.state = "CANCELLING"
  PROVE  Keeps(d, Moved(Ended(d, d.run.cur), "CANCELLED"))
<1> DEFINE e == Ended(d, d.run.cur)
<1>1. Typed(d) /\ d.run.cur \in Attempts
  BY Zenon, Parts DEF Sound, Typed
<1>2. Typed(e) /\ e.run = d.run /\ e.inp = d.inp
  BY Zenon, <1>1, EndedLemma
<1> HIDE DEF e
<1>3. Sound(e)
  BY Zenon, <1>2, SameRunSound DEF Keeps
<1>4. Sound(Moved(e, "CANCELLED"))
  BY Zenon, <1>2, <1>3, MovedSound DEF RunState
<1> QED BY Zenon, <1>4, KeepsWhenLive DEF e, TERMINAL_STATES

\* A statement on one job row, by its lease holder.
LEMMA JobRowLemma ==
  ASSUME NEW r \in Job, NEW w \in Workers
  PROVE  /\ r.st = "available" /\ r.tries < MaxTries => ClaimedJob(r, w) \in Job
         /\ CompletedJob(r, w) \in Job
         /\ CompletedJob(r, w).st = "available" => CompletedJob(r, w) = r
         /\ FailedJob(r, w, TRUE) \in Job
         /\ FailedJob(r, w, TRUE).st = "available" =>
              FailedJob(r, w, TRUE) = r \/ FailedJob(r, w, TRUE).tries < MaxTries
         /\ ReapedJob(r) \in Job
         /\ ReapedJob(r).st = "available" => ReapedJob(r) = r \/ ReapedJob(r).tries < MaxTries
<1> USE MaxTriesAssumption
<1>1. r.st = "available" /\ r.tries < MaxTries => ClaimedJob(r, w) \in Job
  BY DEF ClaimedJob, Job, JobStates
<1>2. CompletedJob(r, w) \in Job
      /\ (CompletedJob(r, w).st = "available" => CompletedJob(r, w) = r)
  BY Zenon DEF CompletedJob, Unowned, Job, JobStates
<1>3. FailedJob(r, w, TRUE) \in Job
      /\ (FailedJob(r, w, TRUE).st = "available" =>
            FailedJob(r, w, TRUE) = r \/ FailedJob(r, w, TRUE).tries < MaxTries)
  BY Zenon DEF FailedJob, Unowned, Job, JobStates
<1>4. ReapedJob(r) \in Job
      /\ (ReapedJob(r).st = "available" => ReapedJob(r) = r \/ ReapedJob(r).tries < MaxTries)
  BY Zenon DEF ReapedJob, Unowned, Job, JobStates
<1> QED BY Zenon, <1>1, <1>2, <1>3, <1>4

\* A statement on one job row leaves the run and its questions alone.
LEMMA JobStepLemma ==
  ASSUME NEW d, Sound(d), NEW j \in Kinds \X Attempts, NEW r \in Job,
         r.st = "available" => r = d.jobs[j] \/ r.tries < MaxTries
  PROVE  Keeps(d, SetJob(d, j, r)) /\ SetJob(d, j, r).run = d.run
<1>1. Typed(d) /\ (r.st = "available" => r.tries < MaxTries)
  BY Zenon DEF Sound, Typed, JobsOK
<1> QED BY <1>1, SetJobLemma, SameRunSound

-----------------------------------------------------------------------------
(* The contract: what each function may do to the run row and the answers. *)

\* Moves of the state that one transaction makes.
Legal(s, t) ==
  \/ s = t
  \/ s \notin TERMINAL_STATES /\ can_transition(s, t)
  \/ <<s, t>> \in {<<"LOADING_MODEL", "SUCCEEDED">>, <<"WAITING_INPUT", "SUCCEEDED">>,
                   <<"QUEUED", "FAILED">>}

\* The run row explains its state.
Explained(r) ==
  /\ r.state = "SUCCEEDED" => r.result = "succeeded" /\ r.error = "none"
  /\ r.state \in {"FAILED", "INTERRUPTED"} => r.error \in {"agent", "platform"}
  /\ r.state \in {"CANCELLING", "CANCELLED"} <=> r.cancel
  /\ r.state \notin TERMINAL_STATES => r.result = "none" /\ r.error = "none"

\* No answer is added, lost or changed.
SameAnswers(d, e) ==
  \A k \in Keys : d.inp[k].st = "answered" \/ e.inp[k].st = "answered" => e.inp[k] = d.inp[k]

\* A move of the state, with the answers and the attempt as they were.
Moves(d, e) ==
  SameAnswers(d, e) /\ e.run.cur = d.run.cur /\ Legal(d.run.state, e.run.state)

\* The owner's retry.
Retries(d, e) ==
  /\ SameAnswers(d, e)
  /\ d.run.state \in {"FAILED", "INTERRUPTED"} /\ e.run.state = "QUEUED"
  /\ d.run.cur < MaxAttempt /\ e.run.cur = d.run.cur + 1

\* The owner's answer to question k, written for the version it had.
Answers(d, e, k) ==
  /\ d.inp[k].st = "pending" /\ e.inp[k].st = "answered"
  /\ e.inp[k].ans + 1 = e.inp[k].ver
  /\ \A m \in Keys : m # k => e.inp[m] = d.inp[m]
  /\ d.run.state = "WAITING_INPUT" /\ e.run.state \in {"WAITING_INPUT", "RUNNING"}
  /\ e.run.cur = d.run.cur

\* What every operation owes to the contract.
Obeys(d, e) ==
  Explained(e.run) /\ (Moves(d, e) \/ Retries(d, e) \/ \E k \in Keys : Answers(d, e, k))

\* The columns of the run row that explain its state, and what else the contract speaks of.
Row(d, state, result, error, cancel, cur, inp) ==
  /\ d.run.state = state /\ d.run.result = result /\ d.run.error = error
  /\ d.run.cancel = cancel /\ d.run.cur = cur /\ d.inp = inp

\* The run row after a move.
LEMMA MovedRow ==
  ASSUME NEW d, Typed(d), NEW t \in RunState
  PROVE  /\ Typed(Moved(d, t))
         /\ Row(Moved(d, t), t, d.run.result, d.run.error, d.run.cancel, d.run.cur, d.inp)
<1> DEFINE r == [d.run EXCEPT !.state = t]
<1>1. r \in Run /\ r.state = t /\ r.result = d.run.result /\ r.error = d.run.error
      /\ r.cancel = d.run.cancel /\ r.cur = d.run.cur
  BY Zenon, Parts DEF Typed, Run
<1>2. Moved(d, t) = SetRun(d, r)
  BY Zenon DEF Moved
<1> HIDE DEF r
<1> QED BY <1>1, <1>2, SetRunLemma DEF Row

\* The run row after a move with an error.
LEMMA MovedWithRow ==
  ASSUME NEW d, Typed(d), NEW t \in RunState,
         NEW error \in {"none", "agent", "platform", "stop_failed"}, NEW retryable \in BOOLEAN
  PROVE  LET e == MovedWith(d, t, error, retryable)
         IN  Typed(e) /\ Row(e, t, d.run.result, error, d.run.cancel, d.run.cur, d.inp)
<1> DEFINE r == [state |-> t, cur |-> d.run.cur, result |-> d.run.result,
                 error |-> error, retryable |-> retryable, cancel |-> d.run.cancel]
<1>1. r \in Run /\ r.state = t /\ r.result = d.run.result /\ r.error = error
      /\ r.cancel = d.run.cancel /\ r.cur = d.run.cur
  BY Zenon, Parts DEF Typed, Run
<1>2. MovedWith(d, t, error, retryable) = SetRun(d, r)
  BY Zenon DEF MovedWith
<1> HIDE DEF r
<1> QED BY <1>1, <1>2, SetRunLemma DEF Row

\* Closing questions keeps the run row and the answers.
LEMMA CloseAnswers ==
  ASSUME NEW d, Typed(d)
  PROVE  LET e == close_pending_inputs(d, "cancelled") IN e.run = d.run /\ SameAnswers(d, e)
<1> DEFINE g(k) == IF d.inp[k].st = "pending" THEN Versioned(d.inp[k], "cancelled")
                   ELSE d.inp[k]
           inp == [k \in Keys |-> g(k)]
<1>1. \A k \in Keys : d.inp[k] \in Input /\ g(k) \in Input
                      /\ (d.inp[k].st = "answered" \/ g(k).st = "answered" => g(k) = d.inp[k])
  BY Zenon, Parts, VersionedLemma DEF Typed, Versioned, InputStates
<1>2. inp \in [Keys -> Input]
  BY Zenon, <1>1
<1>3. close_pending_inputs(d, "cancelled") = SetInputs(d, inp)
  BY Zenon DEF close_pending_inputs
<1>4. \A k \in Keys : inp[k] = g(k)
  BY Zenon
<1> HIDE DEF inp
<1>5. SetInputs(d, inp).inp = inp /\ SetInputs(d, inp).run = d.run
  BY Zenon, <1>2, SetInputsLemma
<1> QED BY Zenon, <1>1, <1>3, <1>4, <1>5 DEF SameAnswers

\* A function that writes neither the run row nor the questions.
LEMMA SameRowsObey ==
  ASSUME NEW d, NEW e, Explained(d.run), e.run = d.run, e.inp = d.inp
  PROVE  Obeys(d, e)
  BY Zenon DEF Obeys, Moves, SameAnswers, Legal

\* The owner cancels.
LEMMA RequestCancelObeys ==
  ASSUME NEW d, Sound(d), Explained(d.run), d.run.state \in CANCELLABLE_STATES
  PROVE  Obeys(d, request_cancel(d))
<1> DEFINE a == d.run.cur
           r == [d.run EXCEPT !.cancel = TRUE]
           flagged == SetRun(d, r)
           j == <<"dispatch", a>>
           unqueued == SetJob(flagged, j, CancelledJob(d.jobs[j]))
           cancelling == Moved(flagged, "CANCELLING")
           moved == IF d.run.state = "QUEUED" THEN Moved(unqueued, "CANCELLED")
                    ELSE Enqueue(cancelling, "cancel", a)
           t == IF d.run.state = "QUEUED" THEN "CANCELLED" ELSE "CANCELLING"
<1>1. Typed(d) /\ a \in Attempts /\ j \in Kinds \X Attempts /\ d.jobs[j] \in Job
      /\ d.run \in Run
  BY Zenon, Parts DEF Sound, Typed, Kinds
<1>2. r \in Run /\ r.state = d.run.state /\ r.result = d.run.result /\ r.error = d.run.error
      /\ r.cancel = TRUE /\ r.cur = a
  BY Zenon, <1>1 DEF Run
<1>3. CancelledJob(d.jobs[j]) \in Job
      /\ (CancelledJob(d.jobs[j]).st = "available" => CancelledJob(d.jobs[j]).tries < MaxTries)
  BY Zenon, <1>1 DEF CancelledJob, Unowned, Job, JobStates, Typed, JobsOK
<1> HIDE DEF r
<1>4. Typed(flagged) /\ flagged.run = r /\ flagged.inp = d.inp
  BY Zenon, <1>1, <1>2, SetRunLemma
<1>5. request_cancel(d) = close_pending_inputs(moved, "cancelled")
  BY Zenon DEF request_cancel, r
<1> HIDE DEF flagged
<1>6. Typed(unqueued) /\ unqueued.run = r /\ unqueued.inp = d.inp
  BY <1>1, <1>3, <1>4, SetJobLemma
<1> HIDE DEF unqueued
<1>7. Typed(cancelling)
      /\ Row(cancelling, "CANCELLING", d.run.result, d.run.error, TRUE, a, d.inp)
  BY Zenon, <1>2, <1>4, MovedRow DEF RunState
<1> HIDE DEF cancelling
<1>8. Typed(moved) /\ Row(moved, t, d.run.result, d.run.error, TRUE, a, d.inp)
  <2>1. CASE d.run.state = "QUEUED"
    BY Zenon, <1>2, <1>6, <2>1, MovedRow DEF RunState
  <2>2. CASE d.run.state # "QUEUED"
    BY ZenonT(30), <2>2, <1>1, <1>7, EnqueueLemma DEF Kinds, Row
  <2> QED BY Zenon, <2>1, <2>2
<1> HIDE DEF moved
<1>9. request_cancel(d).run = moved.run /\ SameAnswers(d, request_cancel(d))
  BY <1>5, <1>8, CloseAnswers DEF SameAnswers, Row
<1>10. Legal(d.run.state, t)
  BY Zenon DEF Legal, CANCELLABLE_STATES, TERMINAL_STATES, can_transition, TRANSITIONS, RunState
<1> QED BY Zenon, <1>8, <1>9, <1>10
        DEF Obeys, Moves, Explained, Row, CANCELLABLE_STATES, TERMINAL_STATES

\* The owner retries.
LEMMA RetryObeys ==
  ASSUME NEW d, Sound(d), CanRetry(d), d.run.cur < MaxAttempt
  PROVE  Obeys(d, retry(d))
<1> DEFINE a == d.run.cur + 1
           r == [state |-> "QUEUED", cur |-> a, result |-> "none", error |-> "none",
                 retryable |-> FALSE, cancel |-> FALSE]
           e == SetRun(d, r)
<1>1. Typed(d) /\ a \in Attempts
  BY Parts, MaxAttemptAssumption DEF Sound, Typed, Attempts
<1>2. r \in Run /\ r.state = "QUEUED" /\ r.cur = a /\ Explained(r)
  BY Zenon, <1>1 DEF Run, RunState, Explained, TERMINAL_STATES
<1>3. retry(d) = Enqueue(e, "dispatch", a)
  BY Zenon DEF retry
<1> HIDE DEF r
<1>4. Typed(e) /\ e.run = r /\ e.inp = d.inp
  BY Zenon, <1>1, <1>2, SetRunLemma
<1> HIDE DEF e
<1>5. retry(d).run = r /\ retry(d).inp = d.inp
  BY SMTT(30), <1>1, <1>3, <1>4, EnqueueLemma DEF Kinds
<1> QED BY Zenon, <1>2, <1>5 DEF Obeys, Retries, SameAnswers, CanRetry

\* A run that goes on once nothing is open: the questions are as they were.
LEMMA ResumeRow ==
  ASSUME NEW d, Typed(d), Explained(d.run)
  PROVE  LET e == resume_if_no_pending(d)
         IN  /\ Explained(e.run) /\ e.run.cur = d.run.cur /\ e.inp = d.inp
             /\ e.run.state # d.run.state => d.run.state = "WAITING_INPUT"
                                             /\ e.run.state = "RUNNING"
<1>1. CASE resume_if_no_pending(d) = d
  BY Zenon, <1>1
<1>2. CASE resume_if_no_pending(d) = Moved(d, "RUNNING") /\ d.run.state = "WAITING_INPUT"
  BY <1>2, MovedRow DEF Row, RunState, Explained, TERMINAL_STATES
<1> QED BY Zenon, <1>1, <1>2 DEF resume_if_no_pending

\* The owner answers.
LEMMA AnswerObeys ==
  ASSUME NEW d, Sound(d), Explained(d.run), NEW k \in Keys, NEW v \in Nat, CanAnswer(d, k, v)
  PROVE  Obeys(d, answer(d, k, v))
<1> DEFINE i == [st |-> "answered", att |-> d.inp[k].att, ver |-> d.inp[k].ver + 1,
                 ans |-> v]
           e == SetInput(d, k, i)
<1>1. Typed(d) /\ d.inp[k] \in Input /\ d.run.state = "WAITING_INPUT" /\ d.inp[k].st = "pending"
  BY Zenon, Parts DEF Sound, Typed, InputsOK, CanAnswer
<1>2. i \in Input /\ i.st = "answered" /\ i.ans + 1 = i.ver
  BY <1>1 DEF Input, InputStates, CanAnswer
<1>3. answer(d, k, v) = resume_if_no_pending(e)
  BY Zenon DEF answer
<1> HIDE DEF i
<1>4. Typed(e) /\ e.inp[k] = i /\ e.run = d.run
      /\ \A m \in Keys : m # k => e.inp[m] = d.inp[m]
  BY <1>1, <1>2, SetInputLemma
<1> HIDE DEF e
<1> DEFINE f == answer(d, k, v)
<1>5. Explained(f.run) /\ f.run.cur = d.run.cur /\ f.inp = e.inp
      /\ f.run.state \in {"WAITING_INPUT", "RUNNING"}
  BY Zenon, <1>1, <1>3, <1>4, ResumeRow
<1> HIDE DEF f
<1>6. Answers(d, f, k)
  BY Zenon, <1>1, <1>2, <1>4, <1>5 DEF Answers
<1> QED BY Zenon, <1>5, <1>6 DEF Obeys, f

\* The agent asks; an answer that is there stays.
LEMMA AskObeys ==
  ASSUME NEW d, Sound(d), Explained(d.run), NEW a \in Attempts, NEW k \in Keys, CanAsk(d, a)
  PROVE  Obeys(d, ask(d, a, k))
<1> DEFINE i == [st |-> "pending", att |-> a, ver |-> d.inp[k].ver + 1, ans |-> d.inp[k].ans]
           opened == SetInput(d, k, i)
           opens == d.inp[k].st = "absent" \/ Reopens(d.inp[k], a)
           asked == IF opens THEN opened ELSE d
           waits == asked.inp[k].st = "pending" /\ d.run.state = "RUNNING"
<1>1. Typed(d) /\ d.inp[k] \in Input
  BY Zenon, Parts DEF Sound, Typed
<1>2. i \in Input /\ i.st = "pending"
  BY <1>1, MaxAttemptAssumption DEF Input, InputStates, Attempts
<1>3. ask(d, a, k) = IF waits THEN Moved(asked, "WAITING_INPUT") ELSE asked
  BY Zenon DEF ask
<1> HIDE DEF i
<1>4. Typed(opened) /\ opened.inp[k] = i /\ opened.run = d.run
      /\ \A m \in Keys : m # k => opened.inp[m] = d.inp[m]
  BY <1>1, <1>2, SetInputLemma
<1> HIDE DEF opened
<1>5. opens => d.inp[k].st # "answered"
  BY Zenon DEF Reopens
<1> HIDE DEF opens
<1>6. Typed(asked) /\ asked.run = d.run /\ SameAnswers(d, asked)
  BY <1>1, <1>2, <1>4, <1>5 DEF SameAnswers
<1> HIDE DEF asked
<1>7. CASE waits
  <2>1. Row(ask(d, a, k), "WAITING_INPUT", d.run.result, d.run.error, d.run.cancel,
            d.run.cur, asked.inp)
    BY Zenon, <1>3, <1>6, <1>7, MovedRow DEF RunState
  <2>2. Legal("RUNNING", "WAITING_INPUT")
    BY Zenon DEF Legal, can_transition, TRANSITIONS, RunState, TERMINAL_STATES
  <2> QED BY Zenon, <1>6, <1>7, <2>1, <2>2
          DEF Obeys, Moves, Row, SameAnswers, Explained, TERMINAL_STATES
<1>8. CASE ~waits
  BY Zenon, <1>3, <1>6, <1>8 DEF Obeys, Moves, Legal
<1> QED BY Zenon, <1>7, <1>8

\* A move along the table between states that end nothing and cancel nothing.
LEMMA WorkingMoveObeys ==
  ASSUME NEW d, Typed(d), Explained(d.run), NEW t \in RunState,
         d.run.state \notin TERMINAL_STATES \union {"CANCELLING"},
         t \notin TERMINAL_STATES \union {"CANCELLING"},
         Legal(d.run.state, t)
  PROVE  Obeys(d, Moved(d, t))
<1>1. Row(Moved(d, t), t, d.run.result, d.run.error, d.run.cancel, d.run.cur, d.inp)
  BY Zenon, MovedRow
<1> QED BY Zenon, <1>1 DEF Obeys, Moves, Row, SameAnswers, Explained, TERMINAL_STATES

\* The agent shakes hands.
LEMMA HandshakeObeys ==
  ASSUME NEW d, Sound(d), Explained(d.run), NEW a \in Attempts
  PROVE  Obeys(d, handshake(d, a))
<1> DEFINE m == IF d.run.state = "PREPARING" THEN Moved(d, "RUNNING") ELSE d
           row == [m.att[a] EXCEPT !.fresh = TRUE]
<1>1. Sound(m)
  BY Zenon, MovedSound DEF RunState
<1>2. Obeys(d, m)
  <2>1. Legal("PREPARING", "RUNNING")
    BY Zenon DEF Legal, can_transition, TRANSITIONS, RunState, TERMINAL_STATES
  <2> QED BY Zenon, <2>1, WorkingMoveObeys, SameRowsObey DEF Sound, RunState, TERMINAL_STATES
<1> HIDE DEF m
<1>3. row \in Attempt /\ Typed(m)
  BY Zenon, <1>1, Parts, AttemptLemma DEF Sound, Typed
<1>4. handshake(d, a) = SetAttempt(m, a, row)
  BY Zenon DEF handshake, Refreshed, m
<1> HIDE DEF row
<1>5. handshake(d, a).run = m.run /\ handshake(d, a).inp = m.inp
  BY <1>3, <1>4, SetAttemptLemma
<1> QED BY Zenon, <1>2, <1>5 DEF Obeys, Moves, Retries, Answers, SameAnswers

\* The gateway reports that the model loads, or has loaded.
LEMMA ModelLoadingObeys ==
  ASSUME NEW d, Sound(d), Explained(d.run), NEW a \in Attempts, NEW loading \in BOOLEAN
  PROVE  Obeys(d, set_model_loading(d, a, loading))
<1>1. Legal("RUNNING", "LOADING_MODEL") /\ Legal("LOADING_MODEL", "RUNNING")
  BY Zenon DEF Legal, can_transition, TRANSITIONS, RunState, TERMINAL_STATES
<1>2. d.run.state = "RUNNING" => Obeys(d, Moved(d, "LOADING_MODEL"))
  BY Zenon, <1>1, WorkingMoveObeys DEF Sound, RunState, TERMINAL_STATES
<1>3. d.run.state = "LOADING_MODEL" => Obeys(d, Moved(d, "RUNNING"))
  BY Zenon, <1>1, WorkingMoveObeys DEF Sound, RunState, TERMINAL_STATES
<1> QED BY Zenon, <1>2, <1>3, SameRowsObey DEF set_model_loading

\* The agent posts its result.
LEMMA FinishObeys ==
  ASSUME NEW d, Sound(d), Explained(d.run), NEW a \in Attempts,
         NEW status \in {"succeeded", "failed"}, NEW retryable \in BOOLEAN,
         CanFinish(d, a, status)
  PROVE  Obeys(d, finish(d, a, status, retryable))
<1> DEFINE ended == Ended(d, a)
           r == [d.run EXCEPT !.result = status]
           posted == SetRun(ended, r)
           t == IF status = "succeeded" THEN "SUCCEEDED" ELSE "FAILED"
           over == IF status = "succeeded" THEN Moved(posted, "SUCCEEDED")
                   ELSE MovedWith(posted, "FAILED", "agent", retryable)
<1>1. Typed(d) /\ d.run \in Run /\ d.run.state \in RunState
  BY Zenon, Parts DEF Sound, Typed, Run
<1>2. Typed(ended) /\ ended.run = d.run /\ ended.inp = d.inp
  BY Zenon, <1>1, EndedLemma
<1>3. r \in Run /\ r.state = d.run.state /\ r.result = status /\ r.error = d.run.error
      /\ r.cancel = d.run.cancel /\ r.cur = d.run.cur
  BY Zenon, <1>1 DEF Run
<1> HIDE DEF ended, r
<1>4. Typed(posted) /\ posted.run = r /\ posted.inp = d.inp
  BY Zenon, <1>2, <1>3, SetRunLemma
<1> HIDE DEF posted
<1>5. CASE d.run.state \in TERMINAL_STATES
  <2>1. finish(d, a, status, retryable) = ended
    BY Zenon, <1>5 DEF finish, ended, TERMINAL_STATES
  <2> QED BY Zenon, <1>2, <2>1, SameRowsObey
<1>6. CASE d.run.state = "CANCELLING"
  <2>1. finish(d, a, status, retryable) = Moved(posted, "CANCELLED")
    BY Zenon, <1>6 DEF finish, ended, posted, r, TERMINAL_STATES
  <2>2. Row(Moved(posted, "CANCELLED"), "CANCELLED", status, d.run.error, d.run.cancel,
            d.run.cur, d.inp)
    BY Zenon, <1>3, <1>4, MovedRow DEF RunState
  <2>3. Legal("CANCELLING", "CANCELLED")
    BY Zenon DEF Legal, can_transition, TRANSITIONS, RunState, TERMINAL_STATES
  <2> QED BY Zenon, <1>6, <2>1, <2>2, <2>3 DEF Obeys, Moves, Row, SameAnswers, Explained, TERMINAL_STATES
<1>7. CASE d.run.state \notin TERMINAL_STATES /\ d.run.state # "CANCELLING"
  <2>1. finish(d, a, status, retryable) = close_pending_inputs(over, "cancelled")
    BY Zenon, <1>7 DEF finish, ended, posted, r
  <2>2. Typed(over) /\ Row(over, t, status, IF status = "succeeded" THEN "none" ELSE "agent",
                           d.run.cancel, d.run.cur, d.inp)
    <3>1. CASE status = "succeeded"
      BY Zenon, <1>3, <1>4, <1>7, <3>1, MovedRow DEF RunState, Explained
    <3>2. CASE status # "succeeded"
      BY Zenon, <1>3, <1>4, <3>2, MovedWithRow DEF RunState
    <3> QED BY Zenon, <3>1, <3>2
  <2> HIDE DEF over
  <2>3. finish(d, a, status, retryable).run = over.run
        /\ SameAnswers(d, finish(d, a, status, retryable))
    BY <2>1, <2>2, CloseAnswers DEF SameAnswers, Row
  <2>4. Legal(d.run.state, t)
    BY Zenon, <1>1, <1>7 DEF Legal, CanFinish, can_transition, TRANSITIONS, RunState, TERMINAL_STATES
  <2> QED BY Zenon, <1>7, <2>2, <2>3, <2>4 DEF Obeys, Moves, Row, Explained, TERMINAL_STATES
<1> QED BY Zenon, <1>5, <1>6, <1>7

\* The run row after fail_run, from the state the caller may have moved it to.
LEMMA FailRunRow ==
  ASSUME NEW d, Sound(d), Explained(d.run), NEW retryable \in BOOLEAN,
         NEW t \in {"FAILED", "INTERRUPTED"}, can_transition(d.run.state, t)
  PROVE  LET e == fail_run(d, retryable, t)
         IN  /\ Explained(e.run) /\ e.run.state = t /\ e.run.cur = d.run.cur
             /\ SameAnswers(d, e) /\ d.run.state \notin TERMINAL_STATES
<1> DEFINE a == d.run.cur
           moved == MovedWith(d, t, "platform", retryable)
           ended == Ended(moved, a)
           stops == d.att[a].row /\ ~d.att[a].ended /\ d.att[a].ref
           e == IF stops THEN Enqueue(ended, "stop", a) ELSE ended
<1>1. Typed(d) /\ a \in Attempts /\ t \in RunState /\ d.run.state \in RunState
  BY Zenon, Parts DEF Sound, Typed, RunState, Run
<1>2. Typed(moved) /\ Row(moved, t, d.run.result, "platform", d.run.cancel, a, d.inp)
  BY Zenon, <1>1, MovedWithRow
<1>3. fail_run(d, retryable, t) = close_pending_inputs(e, "cancelled")
  BY Zenon DEF fail_run
<1> HIDE DEF moved
<1>4. Typed(ended) /\ ended.run = moved.run /\ ended.inp = moved.inp
  BY Zenon, <1>1, <1>2, EndedLemma
<1> HIDE DEF ended
<1>5. Typed(e) /\ e.run = moved.run /\ e.inp = moved.inp
  BY SMTT(30), <1>1, <1>4, EnqueueLemma DEF Kinds
<1> HIDE DEF e
<1>6. fail_run(d, retryable, t).run = moved.run /\ SameAnswers(d, fail_run(d, retryable, t))
  BY <1>2, <1>3, <1>5, CloseAnswers DEF SameAnswers, Row
<1>7. d.run.state \notin TERMINAL_STATES \union {"CANCELLING"}
  BY Zenon, <1>1 DEF can_transition, TRANSITIONS, TERMINAL_STATES, RunState
<1> QED BY Zenon, <1>2, <1>6, <1>7 DEF Row, Explained, TERMINAL_STATES

\* The platform fails or interrupts the run, if its state allows that.
LEMMA FailRunObeys ==
  ASSUME NEW d, Sound(d), Explained(d.run), NEW retryable \in BOOLEAN,
         NEW t \in {"FAILED", "INTERRUPTED"}
  PROVE  Obeys(d, fail_run(d, retryable, t))
<1>1. CASE can_transition(d.run.state, t)
  BY Zenon, <1>1, FailRunRow DEF Obeys, Moves, Legal
<1>2. CASE ~can_transition(d.run.state, t)
  BY Zenon, <1>2, SameRowsObey DEF fail_run
<1> QED BY Zenon, <1>1, <1>2

\* A dispatch begins the attempt.
LEMMA BeginAttemptObeys ==
  ASSUME NEW d, Sound(d), Explained(d.run), d.run.state \in {"QUEUED", "PREPARING"}
  PROVE  Obeys(d, begin_attempt(d)) /\ begin_attempt(d).inp = d.inp
<1> DEFINE a == d.run.cur
           row == [row |-> TRUE, ref |-> FALSE, fresh |-> TRUE, ended |-> FALSE,
                   exit |-> FALSE, tok |-> 0]
           e == IF d.att[a].row THEN d ELSE SetAttempt(d, a, row)
<1>1. Typed(d) /\ a \in Attempts
  BY Zenon, Parts DEF Sound, Typed
<1>2. row \in Attempt
  BY Zenon DEF Attempt
<1>3. begin_attempt(d) = Moved(e, "PREPARING")
  BY Zenon DEF begin_attempt
<1> HIDE DEF row
<1>4. Typed(e) /\ e.run = d.run /\ e.inp = d.inp
  BY Zenon, <1>1, <1>2, SetAttemptLemma
<1> HIDE DEF e
<1>5. Row(begin_attempt(d), "PREPARING", d.run.result, d.run.error, d.run.cancel, a, d.inp)
  BY Zenon, <1>3, <1>4, MovedRow DEF RunState
<1>6. Legal(d.run.state, "PREPARING")
  BY Zenon DEF Legal, can_transition, TRANSITIONS, RunState, TERMINAL_STATES
<1> QED BY Zenon, <1>5, <1>6 DEF Obeys, Moves, Row, SameAnswers, Explained, TERMINAL_STATES

\* A run that is queued or being prepared fails in one transaction, by way of PREPARING.
LEMMA FailPreparedObeys ==
  ASSUME NEW d, d.run.state \in {"QUEUED", "PREPARING"},
         NEW p, p.run.cur = d.run.cur, p.inp = d.inp,
         NEW e, Explained(e.run), e.run.state = "FAILED", e.run.cur = p.run.cur, SameAnswers(p, e)
  PROVE  Obeys(d, e)
<1>1. Legal(d.run.state, "FAILED")
  BY Zenon DEF Legal, can_transition, TRANSITIONS, RunState, TERMINAL_STATES
<1> QED BY Zenon, <1>1 DEF Obeys, Moves, SameAnswers

\* The runtime reports an exit.
LEMMA ContainerExitObeys ==
  ASSUME NEW d, Sound(d), Explained(d.run), NEW a \in Attempts
  PROVE  Obeys(d, record_container_exit(d, a))
<1> DEFINE row == [d.att[a] EXCEPT !.exit = TRUE]
           recorded == SetAttempt(d, a, row)
<1>1. Typed(d) /\ d.att[a] \in Attempt
  BY Zenon, Parts DEF Sound, Typed
<1>2. row \in Attempt
  BY Zenon, <1>1, AttemptLemma
<1>3. record_container_exit(d, a) \in {d, recorded, fail_run(recorded, TRUE, "FAILED")}
  BY Zenon DEF record_container_exit
<1> HIDE DEF row
<1>4. Sound(recorded) /\ recorded.run = d.run /\ recorded.inp = d.inp
  BY <1>1, <1>2, SetAttemptLemma, SameRunSound DEF Keeps
<1> HIDE DEF recorded
<1>5. Obeys(recorded, fail_run(recorded, TRUE, "FAILED"))
  BY Zenon, <1>4, FailRunObeys
<1>6. Obeys(d, fail_run(recorded, TRUE, "FAILED"))
  BY Zenon, <1>4, <1>5 DEF Obeys, Moves, Retries, Answers, SameAnswers
<1> QED BY Zenon, <1>3, <1>4, <1>6, SameRowsObey

\* The reconciler expires open questions.
LEMMA ExpireObeys ==
  ASSUME NEW d, Sound(d), Explained(d.run), NEW due, due \subseteq Pending(d)
  PROVE  Obeys(d, expire_inputs(d, due))
<1> DEFINE f == [k \in Keys |->
                   IF k \in due THEN Versioned(d.inp[k], "expired") ELSE d.inp[k]]
           e == SetInputs(d, f)
<1>1. Typed(d) /\ \A k \in Keys : d.inp[k] \in Input
  BY Zenon, Parts DEF Sound, Typed
<1>2. \A k \in Keys : Versioned(d.inp[k], "expired") \in Input
                      /\ Versioned(d.inp[k], "expired").st = "expired"
  BY Zenon, <1>1, VersionedLemma DEF InputStates
<1>3. f \in [Keys -> Input]
      /\ \A k \in Keys : d.inp[k].st = "answered" \/ f[k].st = "answered" => f[k] = d.inp[k]
  BY Zenon, <1>1, <1>2 DEF Pending
<1>4. expire_inputs(d, due) = resume_if_no_pending(e)
  BY Zenon DEF expire_inputs
<1> HIDE DEF f
<1>5. Typed(e) /\ e.inp = f /\ e.run = d.run
  BY Zenon, <1>1, <1>3, SetInputsLemma
<1> HIDE DEF e
<1>6. Legal("WAITING_INPUT", "RUNNING") /\ Legal(d.run.state, d.run.state)
  BY Zenon DEF Legal, can_transition, TRANSITIONS, RunState, TERMINAL_STATES
<1> DEFINE g == expire_inputs(d, due)
<1>7. Explained(g.run) /\ g.run.cur = d.run.cur /\ g.inp = f /\ Legal(d.run.state, g.run.state)
  BY Zenon, <1>4, <1>5, <1>6, ResumeRow
<1> HIDE DEF g
<1> QED BY Zenon, <1>3, <1>7 DEF Obeys, Moves, SameAnswers, g

\* The reconciler looks at the run.
LEMMA ReconcileObeys ==
  ASSUME NEW d, Sound(d), Explained(d.run), NEW due, due \subseteq Pending(d),
         NEW spent \in BOOLEAN
  PROVE  Obeys(d, reconcile_run(d, due, spent))
  BY Zenon, SameRowsObey, FailRunObeys, ExpireObeys DEF reconcile_run

\* A job of the current attempt died: the run ends, or nothing changes.
LEMMA DeadJobObeys ==
  ASSUME NEW d, Sound(d), Explained(d.run), NEW dead
  PROVE  LET e == on_dead_job(d, dead)
         IN  Obeys(d, e) /\ (e = d \/ e.run.state \in TERMINAL_STATES)
<1> DEFINE p == Moved(d, "PREPARING")
           c == MovedWith(d, "CANCELLED", "stop_failed", d.run.retryable)
<1>1. d.run.state \in {"QUEUED", "PREPARING"} =>
        /\ Obeys(d, fail_run(p, TRUE, "FAILED"))
        /\ fail_run(p, TRUE, "FAILED").run.state \in TERMINAL_STATES
  <2> SUFFICES ASSUME d.run.state \in {"QUEUED", "PREPARING"}
               PROVE  /\ Obeys(d, fail_run(p, TRUE, "FAILED"))
                      /\ fail_run(p, TRUE, "FAILED").run.state \in TERMINAL_STATES
    BY Zenon
  <2>1. Sound(p)
    BY Zenon, MovedSound DEF RunState
  <2>2. Row(p, "PREPARING", d.run.result, d.run.error, d.run.cancel, d.run.cur, d.inp)
    BY Zenon, MovedRow DEF Sound, RunState
  <2>3. Explained(p.run)
    BY Zenon, <2>2 DEF Row, Explained, TERMINAL_STATES
  <2> HIDE DEF p
  <2>4. p.run.state = "PREPARING" /\ p.run.cur = d.run.cur /\ p.inp = d.inp
    BY Zenon, <2>2 DEF Row
  <2>5. can_transition("PREPARING", "FAILED")
    BY Zenon DEF can_transition, TRANSITIONS, RunState
  <2> DEFINE e == fail_run(p, TRUE, "FAILED")
  <2>6. Explained(e.run) /\ e.run.state = "FAILED" /\ e.run.cur = p.run.cur /\ SameAnswers(p, e)
    BY Zenon, <2>1, <2>3, <2>4, <2>5, FailRunRow
  <2> HIDE DEF e
  <2>7. Obeys(d, e)
    BY <2>4, <2>6, FailPreparedObeys
  <2> QED BY Zenon, <2>6, <2>7 DEF e, TERMINAL_STATES
<1>2. d.run.state = "CANCELLING" => Obeys(d, c) /\ c.run.state \in TERMINAL_STATES
  <2> SUFFICES ASSUME d.run.state = "CANCELLING"
               PROVE  Obeys(d, c) /\ c.run.state \in TERMINAL_STATES
    BY Zenon
  <2>1. Typed(d) /\ d.run.retryable \in BOOLEAN /\ "CANCELLED" \in RunState
    BY Zenon, Parts DEF Sound, Typed, Run, RunState
  <2>2. Row(c, "CANCELLED", d.run.result, "stop_failed", d.run.cancel, d.run.cur, d.inp)
    BY Zenon, <2>1, MovedWithRow
  <2> HIDE DEF c
  <2>3. Legal("CANCELLING", "CANCELLED")
    BY Zenon DEF Legal, can_transition, TRANSITIONS, RunState, TERMINAL_STATES
  <2> QED BY Zenon, <2>2, <2>3 DEF Obeys, Moves, Row, SameAnswers, Explained, TERMINAL_STATES
<1> HIDE DEF p, c
<1>3. on_dead_job(d, dead) \in {d}
      \/ (d.run.state \in {"QUEUED", "PREPARING"}
          /\ on_dead_job(d, dead) = fail_run(p, TRUE, "FAILED"))
      \/ (d.run.state = "CANCELLING" /\ on_dead_job(d, dead) = c)
  BY Zenon DEF on_dead_job, p, c
<1> QED BY Zenon, <1>1, <1>2, <1>3, SameRowsObey

\* The cancel job marks a cancelling run cancelled.
LEMMA CancelledObeys ==
  ASSUME NEW d, Sound(d), Explained(d.run), d.run.state = "CANCELLING"
  PROVE  Obeys(d, Moved(Ended(d, d.run.cur), "CANCELLED"))
<1> DEFINE e == Ended(d, d.run.cur)
<1>1. Typed(d) /\ d.run.cur \in Attempts
  BY Zenon, Parts DEF Sound, Typed
<1>2. Typed(e) /\ e.run = d.run /\ e.inp = d.inp
  BY Zenon, <1>1, EndedLemma
<1> HIDE DEF e
<1>3. Row(Moved(e, "CANCELLED"), "CANCELLED", d.run.result, d.run.error, d.run.cancel,
          d.run.cur, d.inp)
  BY Zenon, <1>2, MovedRow DEF RunState
<1>4. Legal("CANCELLING", "CANCELLED")
  BY Zenon DEF Legal, can_transition, TRANSITIONS, RunState, TERMINAL_STATES
<1> QED BY Zenon, <1>3, <1>4 DEF Obeys, Moves, Row, SameAnswers, Explained, TERMINAL_STATES, e

-----------------------------------------------------------------------------
(* The job rows: which functions enqueue, and when.                        *)

\* Attempt a does no more work: a later one is current, or the run is ending or has ended.
Over(run, a) ==
  a < run.cur \/ (a = run.cur /\ run.state \in TERMINAL_STATES \union {"CANCELLING"})

\* The jobs that were ever enqueued.
Issued(d) == {j \in Kinds \X Attempts : d.jobs[j].st # "absent"}

\* Job j is of an attempt that has begun, and a stop job of one that is over.
Justified(d, j) == j[2] <= d.run.cur /\ (j[1] = "stop" => Over(d.run, j[2]))

\* What a function enqueues is justified by the run row it leaves.
Adds(d, e) == \A j \in Issued(e) : j \in Issued(d) \/ Justified(e, j)

\* A value with the parts of a database, and one with the same job rows.
Parted(d) == DOMAIN d = {"run", "att", "inp", "jobs"} /\ DOMAIN d.jobs = Kinds \X Attempts
Alike(d, e) == Parted(e) /\ e.jobs = d.jobs

\* Databases have their parts.
LEMMA HasParts == ASSUME NEW d, Sound(d) PROVE Parted(d) /\ Alike(d, d)
<1>1. DOMAIN d = {"run", "att", "inp", "jobs"}
  BY Zenon DEF Sound, Typed, Database
<1>2. DOMAIN d.jobs = Kinds \X Attempts
  BY Zenon, Parts DEF Sound, Typed
<1> QED BY Zenon, <1>1, <1>2 DEF Parted, Alike

\* The setters of the other rows leave the jobs alone.
LEMMA SettersAlike ==
  ASSUME NEW d, Parted(d), NEW a, NEW r
  PROVE  Alike(d, SetRun(d, r)) /\ Alike(d, SetAttempt(d, a, r)) /\ Alike(d, SetInputs(d, r))
<1>1. Alike(d, SetRun(d, r))
  BY Zenon DEF Parted, Alike, SetRun
<1>2. Alike(d, SetAttempt(d, a, r))
  <2> DEFINE f == [d.att EXCEPT ![a] = r]
  <2>1. SetAttempt(d, a, r) = [d EXCEPT !.att = f]
    BY Zenon DEF SetAttempt, Parted
  <2> HIDE DEF f
  <2> QED BY Zenon, <2>1 DEF Parted, Alike
<1>3. Alike(d, SetInputs(d, r))
  BY Zenon DEF Parted, Alike, SetInputs
<1> QED BY Zenon, <1>1, <1>2, <1>3

\* So do the moves of the state and what closes attempts and questions.
LEMMA MovesAlike ==
  ASSUME NEW d, Parted(d), NEW t, NEW error, NEW retryable, NEW a, NEW k
  PROVE  /\ Alike(d, Moved(d, t)) /\ Alike(d, MovedWith(d, t, error, retryable))
         /\ Alike(d, Ended(d, a)) /\ Alike(d, close_pending_inputs(d, t))
         /\ Alike(d, resume_if_no_pending(d)) /\ Alike(d, SetInput(d, k, t))
<1>1. Alike(d, Moved(d, t)) /\ Alike(d, MovedWith(d, t, error, retryable))
  BY Zenon, SettersAlike DEF Moved, MovedWith
<1>2. Alike(d, Ended(d, a))
  BY SettersAlike DEF Ended, Alike
<1>3. Alike(d, close_pending_inputs(d, t))
  BY Zenon, SettersAlike DEF close_pending_inputs
<1>4. Alike(d, resume_if_no_pending(d))
  <2>1. Alike(d, Moved(d, "RUNNING"))
    BY Zenon, SettersAlike DEF Moved
  <2> QED BY Zenon, <2>1 DEF resume_if_no_pending, Alike
<1>5. Alike(d, SetInput(d, k, t))
  BY Zenon, SettersAlike DEF SetInput
<1> QED BY Zenon, <1>1, <1>2, <1>3, <1>4, <1>5

\* And one after the other.
LEMMA AlikeThen == ASSUME NEW d, NEW e, NEW f, Alike(d, e), Alike(e, f) PROVE Alike(d, f)
  BY Zenon DEF Alike

\* A function that leaves the jobs alone enqueues nothing.
LEMMA AlikeAdds == ASSUME NEW d, NEW e, Alike(d, e) PROVE Adds(d, e)
  BY Zenon DEF Alike, Adds, Issued

\* What the agent and the owner's answer do: no jobs.
LEMMA AgentAlike ==
  ASSUME NEW d, Parted(d), NEW a, NEW k, NEW v, NEW status, NEW retryable
  PROVE  /\ Alike(d, answer(d, k, v)) /\ Alike(d, handshake(d, a)) /\ Alike(d, heartbeat(d, a))
         /\ Alike(d, set_model_loading(d, a, v)) /\ Alike(d, ask(d, a, k))
         /\ Alike(d, finish(d, a, status, retryable))
<1>1. Alike(d, answer(d, k, v))
  <2> DEFINE e == SetInput(d, k, [st |-> "answered", att |-> d.inp[k].att,
                                  ver |-> d.inp[k].ver + 1, ans |-> v])
  <2>1. Alike(d, e) /\ answer(d, k, v) = resume_if_no_pending(e)
    BY Zenon, MovesAlike DEF answer
  <2> HIDE DEF e
  <2> QED BY Zenon, <2>1, MovesAlike, AlikeThen DEF Alike
<1>2. Alike(d, handshake(d, a)) /\ Alike(d, heartbeat(d, a))
  <2> DEFINE e == IF d.run.state = "PREPARING" THEN Moved(d, "RUNNING") ELSE d
  <2>1. Alike(d, e) /\ Alike(d, d)
    BY Zenon, MovesAlike DEF Alike
  <2> HIDE DEF e
  <2>2. Alike(e, Refreshed(e, a)) /\ Alike(d, Refreshed(d, a))
    BY <2>1, SettersAlike DEF Refreshed, Alike
  <2>3. handshake(d, a) = Refreshed(e, a)
    BY Zenon DEF handshake, e
  <2> QED BY Zenon, <2>1, <2>2, <2>3, AlikeThen DEF heartbeat
<1>3. Alike(d, set_model_loading(d, a, v))
  BY Zenon, MovesAlike DEF set_model_loading, Alike
<1>4. Alike(d, ask(d, a, k))
  <2> DEFINE i == d.inp[k]
             opened == SetInput(d, k, [st |-> "pending", att |-> a, ver |-> i.ver + 1, ans |-> i.ans])
             asked == IF i.st = "absent" \/ Reopens(i, a) THEN opened ELSE d
  <2>1. Alike(d, asked)
    BY MovesAlike DEF Alike
  <2>2. ask(d, a, k) = IF asked.inp[k].st = "pending" /\ d.run.state = "RUNNING"
                       THEN Moved(asked, "WAITING_INPUT") ELSE asked
    BY Zenon DEF ask
  <2> HIDE DEF asked
  <2> QED BY <2>1, <2>2, MovesAlike, AlikeThen DEF Alike
<1>5. Alike(d, finish(d, a, status, retryable))
  <2> DEFINE ended == Ended(d, a)
             posted == SetRun(ended, [d.run EXCEPT !.result = status])
             m == IF status = "succeeded" THEN Moved(posted, "SUCCEEDED")
                  ELSE MovedWith(posted, "FAILED", "agent", retryable)
  <2>1. Alike(d, ended)
    BY Zenon, MovesAlike
  <2>2. finish(d, a, status, retryable) =
          CASE d.run.state \in TERMINAL_STATES -> ended
            [] d.run.state = "CANCELLING" -> Moved(posted, "CANCELLED")
            [] OTHER -> close_pending_inputs(m, "cancelled")
    BY Zenon DEF finish
  <2> HIDE DEF ended
  <2>3. Alike(d, posted)
    BY Zenon, <2>1, SettersAlike, AlikeThen DEF Alike
  <2> HIDE DEF posted
  <2>4. Alike(d, Moved(posted, "CANCELLED")) /\ Alike(d, m)
    BY <2>3, MovesAlike, AlikeThen DEF Alike
  <2> HIDE DEF m
  <2>5. Alike(d, close_pending_inputs(m, "cancelled"))
    BY SMTT(30), <2>4, MovesAlike, AlikeThen DEF Alike
  <2> QED BY Zenon, <2>1, <2>2, <2>4, <2>5
<1> QED BY Zenon, <1>1, <1>2, <1>3, <1>4, <1>5

\* What the platform does without ending the run.
LEMMA PlatformAlike ==
  ASSUME NEW d, Parted(d), NEW due
  PROVE  /\ Alike(d, begin_attempt(d)) /\ Alike(d, expire_inputs(d, due))
         /\ Alike(d, Moved(Ended(d, d.run.cur), "CANCELLED"))
<1>1. Alike(d, begin_attempt(d))
  <2> DEFINE e == IF d.att[d.run.cur].row THEN d
                  ELSE SetAttempt(d, d.run.cur, [row |-> TRUE, ref |-> FALSE, fresh |-> TRUE,
                                                 ended |-> FALSE, exit |-> FALSE, tok |-> 0])
  <2>1. Alike(d, e) /\ begin_attempt(d) = Moved(e, "PREPARING")
    BY SettersAlike DEF Alike, begin_attempt
  <2> HIDE DEF e
  <2> QED BY <2>1, MovesAlike, AlikeThen DEF Alike
<1>2. Alike(d, expire_inputs(d, due))
  <2> DEFINE e == SetInputs(d, [k \in Keys |->
                    IF k \in due THEN Versioned(d.inp[k], "expired") ELSE d.inp[k]])
  <2>1. Alike(d, e) /\ expire_inputs(d, due) = resume_if_no_pending(e)
    BY Zenon, SettersAlike DEF expire_inputs
  <2> HIDE DEF e
  <2> QED BY Zenon, <2>1, MovesAlike, AlikeThen DEF Alike
<1>3. Alike(d, Moved(Ended(d, d.run.cur), "CANCELLED"))
  <2> DEFINE e == Ended(d, d.run.cur)
  <2>1. Alike(d, e)
    BY Zenon, MovesAlike
  <2> HIDE DEF e
  <2>2. Alike(d, Moved(e, "CANCELLED"))
    BY Zenon, <2>1, MovesAlike, AlikeThen DEF Alike
  <2> QED BY Zenon, <2>2 DEF e
<1> QED BY Zenon, <1>1, <1>2, <1>3

\* A statement on one job row: no row appears but, perhaps, that one.
LEMMA SetJobIssued ==
  ASSUME NEW d, Parted(d), NEW j \in Kinds \X Attempts, NEW r
  PROVE  LET e == SetJob(d, j, r)
         IN  /\ Parted(e) /\ e.run = d.run /\ Issued(e) \subseteq Issued(d) \union {j}
             /\ (r.st # "absent" => d.jobs[j].st # "absent") => Issued(e) \subseteq Issued(d)
<1> DEFINE f == [d.jobs EXCEPT ![j] = r]
           e == [d EXCEPT !.jobs = f]
<1>1. DOMAIN f = Kinds \X Attempts /\ f[j] = r
      /\ \A i \in Kinds \X Attempts : i # j => f[i] = d.jobs[i]
  BY Zenon DEF Parted
<1>2. SetJob(d, j, r) = e
  BY Zenon DEF SetJob, SetJobs
<1> HIDE DEF f
<1>3. DOMAIN e = {"run", "att", "inp", "jobs"} /\ e.run = d.run /\ e.jobs = f
  BY Zenon DEF Parted
<1> HIDE DEF e
<1> QED BY Zenon, <1>1, <1>2, <1>3 DEF Parted, Issued

\* Enqueuing adds the job of that kind and attempt at most.
LEMMA EnqueueIssued ==
  ASSUME NEW d, Parted(d), NEW kind \in Kinds, NEW a \in Attempts
  PROVE  LET e == Enqueue(d, kind, a)
         IN  Parted(e) /\ e.run = d.run /\ Issued(e) \subseteq Issued(d) \union {<<kind, a>>}
<1>1. <<kind, a>> \in Kinds \X Attempts
  BY Zenon
<1> QED BY ZenonT(30), <1>1, SetJobIssued DEF Enqueue

\* A step that enqueues one job, after steps that enqueue none and before ones that do not.
LEMMA OneJobAdds ==
  ASSUME NEW d, NEW m, NEW e, NEW f, NEW j, Issued(m) \subseteq Issued(d),
         Issued(e) \subseteq Issued(m) \union {j}, Alike(e, f), Justified(f, j)
  PROVE  Adds(d, f)
  BY Zenon DEF Adds, Alike, Issued

\* Enqueuing after a step that enqueued nothing.
LEMMA ThenAdds ==
  ASSUME NEW d, NEW m, NEW e, Issued(m) \subseteq Issued(d), Adds(m, e)
  PROVE  Adds(d, e)
  BY Zenon DEF Adds

\* The owner cancels: the cancel job is of the current attempt.
LEMMA RequestCancelAdds ==
  ASSUME NEW d, Sound(d), Explained(d.run), d.run.state \in CANCELLABLE_STATES
  PROVE  Adds(d, request_cancel(d))
<1> DEFINE a == d.run.cur
           j == <<"dispatch", a>>
           flagged == SetRun(d, [d.run EXCEPT !.cancel = TRUE])
           unqueued == SetJob(flagged, j, CancelledJob(d.jobs[j]))
           cancelling == Moved(flagged, "CANCELLING")
           e == IF d.run.state = "QUEUED" THEN Moved(unqueued, "CANCELLED")
                ELSE Enqueue(cancelling, "cancel", a)
           f == close_pending_inputs(e, "cancelled")
<1>1. a \in Attempts /\ j \in Kinds \X Attempts /\ Parted(d)
  BY Zenon, Parts, HasParts DEF Sound, Typed, Kinds
<1>2. request_cancel(d) = f
  BY Zenon DEF request_cancel
<1>3. f.run.cur = a \/ f.run.cur = a + 1
  BY Zenon, <1>2, RequestCancelObeys DEF Obeys, Moves, Retries, Answers
<1>4. Alike(d, flagged)
  BY Zenon, <1>1, SettersAlike
<1>5. CancelledJob(d.jobs[j]).st # "absent" => d.jobs[j].st # "absent"
  BY Zenon DEF CancelledJob, Unowned
<1> HIDE DEF flagged
<1>6. Parted(unqueued) /\ Issued(unqueued) \subseteq Issued(d)
  <2> DEFINE r == CancelledJob(d.jobs[j])
  <2>1. Parted(flagged) /\ Issued(flagged) = Issued(d) /\ flagged.jobs = d.jobs
    BY Zenon, <1>4 DEF Alike, Issued
  <2> HIDE DEF r, j
  <2>2. r.st # "absent" => flagged.jobs[j].st # "absent"
    BY Zenon, <1>5, <2>1 DEF r
  <2>3. Parted(SetJob(flagged, j, r)) /\ Issued(SetJob(flagged, j, r)) \subseteq Issued(flagged)
    BY Zenon, <1>1, <2>1, <2>2, SetJobIssued
  <2> QED BY Zenon, <2>1, <2>3 DEF r
<1> HIDE DEF unqueued
<1>7. Alike(unqueued, Moved(unqueued, "CANCELLED"))
  BY Zenon, <1>6, MovesAlike
<1>8. Alike(d, cancelling)
  BY Zenon, <1>4, MovesAlike, AlikeThen DEF Alike
<1> HIDE DEF cancelling
<1>9. Parted(e) /\ Issued(e) \subseteq Issued(d) \union {<<"cancel", a>>}
  <2>1. CASE d.run.state = "QUEUED"
    BY Zenon, <1>6, <1>7, <2>1 DEF Alike, Issued
  <2>2. CASE d.run.state # "QUEUED"
    <3>1. Parted(cancelling) /\ Issued(cancelling) = Issued(d) /\ "cancel" \in Kinds
      BY Zenon, <1>8 DEF Alike, Issued, Kinds
    <3> QED BY Zenon, <1>1, <2>2, <3>1, EnqueueIssued
  <2> QED BY Zenon, <2>1, <2>2
<1> HIDE DEF e
<1>10. Alike(e, f)
  BY Zenon, <1>9, MovesAlike
<1>11. Justified(f, <<"cancel", a>>)
  BY <1>1, <1>3 DEF Justified, Attempts
<1> QED BY Zenon, <1>2, <1>9, <1>10, <1>11, OneJobAdds

\* The owner retries: the dispatch job is of the attempt that begins.
LEMMA RetryAdds ==
  ASSUME NEW d, Sound(d), CanRetry(d), d.run.cur < MaxAttempt
  PROVE  Adds(d, retry(d))
<1> DEFINE a == d.run.cur + 1
           r == [state |-> "QUEUED", cur |-> a, result |-> "none", error |-> "none",
                 retryable |-> FALSE, cancel |-> FALSE]
           m == SetRun(d, r)
           e == Enqueue(m, "dispatch", a)
<1>1. a \in Attempts /\ Parted(d) /\ retry(d) = e
  BY Parts, HasParts, MaxAttemptAssumption DEF Sound, Typed, Attempts, retry
<1>2. Alike(d, m) /\ m.run.cur = a
  BY Zenon, <1>1, SettersAlike DEF Parted, SetRun
<1> HIDE DEF m
<1>3. Parted(e) /\ e.run = m.run /\ Issued(e) \subseteq Issued(m) \union {<<"dispatch", a>>}
  BY Zenon, <1>1, <1>2, EnqueueIssued DEF Kinds, Alike
<1> HIDE DEF e
<1>4. Issued(m) = Issued(d) /\ Alike(e, e)
  BY Zenon, <1>2, <1>3 DEF Alike, Issued
<1>5. Justified(e, <<"dispatch", a>>)
  BY <1>1, <1>2, <1>3 DEF Justified, Attempts
<1> QED BY Zenon, <1>1, <1>3, <1>4, <1>5, OneJobAdds

\* The platform ends the run: the stop job is of the attempt it ends.
LEMMA FailRunAdds ==
  ASSUME NEW d, Sound(d), Explained(d.run), NEW retryable \in BOOLEAN,
         NEW t \in {"FAILED", "INTERRUPTED"}
  PROVE  Adds(d, fail_run(d, retryable, t))
<1> DEFINE a == d.run.cur
           moved == MovedWith(d, t, "platform", retryable)
           ended == Ended(moved, a)
           stops == d.att[a].row /\ ~d.att[a].ended /\ d.att[a].ref
           e == IF stops THEN Enqueue(ended, "stop", a) ELSE ended
           f == close_pending_inputs(e, "cancelled")
<1>1. a \in Attempts /\ Parted(d) /\ Alike(d, d)
  BY Zenon, Parts, HasParts DEF Sound, Typed
<1>2. CASE ~can_transition(d.run.state, t)
  BY Zenon, <1>1, <1>2, AlikeAdds DEF fail_run
<1>3. CASE can_transition(d.run.state, t)
  <2>1. fail_run(d, retryable, t) = f
    BY Zenon, <1>3 DEF fail_run
  <2>2. f.run.state = t /\ f.run.cur = a
    <3> HIDE DEF f
    <3> QED BY Zenon, <1>3, <2>1, FailRunRow
  <2>3. Alike(d, moved)
    BY Zenon, <1>1, MovesAlike
  <2> HIDE DEF moved
  <2>4. Alike(d, ended)
    BY <2>3, MovesAlike, AlikeThen DEF Alike
  <2> HIDE DEF ended
  <2>5. Parted(e) /\ Issued(e) \subseteq Issued(ended) \union {<<"stop", a>>}
    <3>1. Parted(ended) /\ "stop" \in Kinds
      BY Zenon, <2>4 DEF Alike, Kinds
    <3> HIDE DEF stops
    <3> QED BY Zenon, <1>1, <3>1, EnqueueIssued
  <2> HIDE DEF e
  <2>6. Alike(e, f) /\ Issued(ended) = Issued(d)
    BY Zenon, <2>4, <2>5, MovesAlike DEF Alike, Issued
  <2> HIDE DEF f
  <2>7. Justified(f, <<"stop", a>>)
    BY <1>1, <2>2 DEF Justified, Over, Attempts, TERMINAL_STATES
  <2> QED BY Zenon, <2>1, <2>5, <2>6, <2>7, OneJobAdds
<1> QED BY Zenon, <1>2, <1>3

\* An exit is recorded; it may end the run.
LEMMA ContainerExitAdds ==
  ASSUME NEW d, Sound(d), Explained(d.run), NEW a \in Attempts
  PROVE  Adds(d, record_container_exit(d, a))
<1> DEFINE r == [d.att[a] EXCEPT !.exit = TRUE]
           recorded == SetAttempt(d, a, r)
<1>1. Alike(d, recorded) /\ Alike(d, d)
  BY Zenon, HasParts, SettersAlike
<1>2. r \in Attempt /\ Typed(d)
  BY Zenon, Parts, AttemptLemma DEF Sound, Typed
<1>3. record_container_exit(d, a) \in {d, recorded, fail_run(recorded, TRUE, "FAILED")}
  BY Zenon DEF record_container_exit
<1> HIDE DEF r
<1>4. Sound(recorded) /\ recorded.run = d.run
  BY <1>2, SetAttemptLemma, SameRunSound DEF Keeps
<1> HIDE DEF recorded
<1>5. Adds(recorded, fail_run(recorded, TRUE, "FAILED")) /\ Issued(recorded) = Issued(d)
  BY Zenon, <1>1, <1>4, FailRunAdds DEF Alike, Issued
<1> QED BY Zenon, <1>1, <1>3, <1>5, AlikeAdds, ThenAdds

\* The reconciler looks at the run.
LEMMA ReconcileAdds ==
  ASSUME NEW d, Sound(d), Explained(d.run), NEW due, NEW spent \in BOOLEAN
  PROVE  Adds(d, reconcile_run(d, due, spent))
<1>1. Adds(d, expire_inputs(d, due)) /\ Adds(d, d)
  BY Zenon, HasParts, PlatformAlike, AlikeAdds
<1>2. Adds(d, fail_run(d, FALSE, "FAILED")) /\ Adds(d, fail_run(d, TRUE, "INTERRUPTED"))
  BY Zenon, FailRunAdds
<1>3. reconcile_run(d, due, spent) \in
        {d, expire_inputs(d, due), fail_run(d, FALSE, "FAILED"), fail_run(d, TRUE, "INTERRUPTED")}
  BY Zenon DEF reconcile_run
<1> QED BY Zenon, <1>1, <1>2, <1>3

\* A job of the current attempt died.
LEMMA DeadJobAdds ==
  ASSUME NEW d, Sound(d), Explained(d.run), NEW dead
  PROVE  Adds(d, on_dead_job(d, dead))
<1> DEFINE p == Moved(d, "PREPARING")
           c == MovedWith(d, "CANCELLED", "stop_failed", d.run.retryable)
           f == fail_run(p, TRUE, "FAILED")
<1>1. Alike(d, p) /\ Alike(d, c) /\ Alike(d, d)
  BY Zenon, HasParts, MovesAlike
<1>2. on_dead_job(d, dead) \in {d, c}
      \/ (on_dead_job(d, dead) = f /\ d.run.state \in {"QUEUED", "PREPARING"})
  BY Zenon DEF on_dead_job
<1>3. CASE d.run.state \in {"QUEUED", "PREPARING"}
  <2>1. Sound(p)
    BY Zenon, <1>3, MovedSound DEF RunState
  <2>2. Row(p, "PREPARING", d.run.result, d.run.error, d.run.cancel, d.run.cur, d.inp)
    BY Zenon, MovedRow DEF Sound, RunState
  <2>3. Explained(p.run)
    BY Zenon, <1>3, <2>2 DEF Row, Explained, TERMINAL_STATES
  <2> HIDE DEF p, c
  <2>4. Adds(p, f) /\ Issued(p) = Issued(d)
    BY Zenon, <1>1, <2>1, <2>3, FailRunAdds DEF Alike, Issued
  <2> HIDE DEF f
  <2> QED BY Zenon, <1>1, <1>2, <2>4, AlikeAdds, ThenAdds
<1>4. CASE d.run.state \notin {"QUEUED", "PREPARING"}
  <2> HIDE DEF c, f
  <2> QED BY Zenon, <1>1, <1>2, <1>4, AlikeAdds
<1> QED BY Zenon, <1>3, <1>4

\* What is over stays over, and what justifies a job goes on to do so.
LEMMA OverStays ==
  ASSUME NEW d, NEW e, d.run.cur \in Nat, d.run.state \in RunState, Obeys(d, e)
  PROVE  /\ d.run.cur <= e.run.cur /\ e.run.cur \in Nat
         /\ \A a \in Nat : Over(d.run, a) => Over(e.run, a)
         /\ d.run.state \in {"CANCELLING", "CANCELLED"} =>
              e.run.state \in {"CANCELLING", "CANCELLED"} /\ e.run.cur = d.run.cur
<1>1. CASE Moves(d, e)
  <2>1. d.run.state \in TERMINAL_STATES => e.run.state = d.run.state
    BY Zenon, <1>1 DEF Moves, Legal, TERMINAL_STATES
  <2>2. d.run.state = "CANCELLING" => e.run.state \in {"CANCELLING", "CANCELLED"}
    BY Zenon, <1>1 DEF Moves, Legal, can_transition, TRANSITIONS, RunState
  <2> QED BY <1>1, <2>1, <2>2 DEF Moves, Over, TERMINAL_STATES
<1>2. CASE Retries(d, e)
  BY <1>2 DEF Retries, Over, TERMINAL_STATES
<1>3. ASSUME NEW k \in Keys, Answers(d, e, k)
      PROVE  e.run.cur = d.run.cur /\ d.run.state = "WAITING_INPUT"
  BY Zenon, <1>3 DEF Answers
<1> QED BY <1>1, <1>2, <1>3 DEF Obeys, Over, TERMINAL_STATES

\* All jobs stay justified by a function that adds only justified ones.
LEMMA AllJustified ==
  ASSUME NEW d, NEW e, Sound(d), Obeys(d, e), Adds(d, e), \A j \in Issued(d) : Justified(d, j)
  PROVE  \A j \in Issued(e) : Justified(e, j)
<1>1. d.run.cur \in Nat /\ d.run.state \in RunState
  BY Parts, MaxAttemptAssumption DEF Sound, Typed, Run, Attempts
<1> SUFFICES ASSUME NEW j \in Kinds \X Attempts, j \in Issued(d), Justified(d, j)
             PROVE  Justified(e, j)
  BY Zenon DEF Adds, Issued
<1>2. j[2] \in Nat
  BY MaxAttemptAssumption DEF Attempts
<1> QED BY <1>1, <1>2, OverStays DEF Justified
=============================================================================
