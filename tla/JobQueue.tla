------------------------------ MODULE JobQueue ------------------------------
(***************************************************************************)
(* The durable job queue (crewquarters_shared/jobs.py) with the loops that *)
(* work it: the scheduler's workers (worker.py, execute) and the model     *)
(* gateway's (main.py, run_job_once) follow the same protocol.  Each SQL   *)
(* statement is one step; a handler is whatever happens between the claim  *)
(* and the statement that reports its outcome.                             *)
(*                                                                         *)
(* The loops of a process share its worker_id, and every statement of a    *)
(* lease holder is conditioned on that id only.                            *)
(***************************************************************************)
EXTENDS JobTable

CONSTANTS
  Rows,     \* bound on the rows ever inserted
  DKeys,    \* dedupe keys
  Loops,    \* the loops of all worker processes
  NoRow     \* a loop without a job

\* A worker process is given as the set of its loops.
ASSUME LoopsAssumption == \A l \in Loops : \E w \in Workers : l \in w
ASSUME NoRowAssumption == NoRow \notin Rows

\* The process of a loop; its loops share one worker_id.
ProcOf == [l \in Loops |-> CHOOSE w \in Workers : l \in w]

VARIABLES
  row,      \* the jobs table
  dkey,     \* each row's dedupe key (meaningless while the row is absent)
  lease,    \* lease_until > now()
  exec,     \* the row each loop executes
  outcome   \* its handler's outcome: "running", "ok", "error", "permanent"

vars == <<row, dkey, lease, exec, outcome>>

\* Rows, leases and loops have their types; no row is claimed more often than max_attempts.
TypeOK ==
  /\ row \in [Rows -> Job]
  /\ dkey \in [Rows -> DKeys]
  /\ lease \in [Rows -> BOOLEAN]
  /\ exec \in [Loops -> Rows \union {NoRow}]
  /\ outcome \in [Loops -> {"running", "ok", "error", "permanent"}]

Init ==
  /\ row = [r \in Rows |-> NoJob]
  /\ dkey \in [Rows -> DKeys]
  /\ lease = [r \in Rows |-> FALSE]
  /\ exec = [l \in Loops |-> NoRow]
  /\ outcome = [l \in Loops |-> "running"]

enqueue_NoConflict(r) ==
  /\ row[r].st = "absent"
  /\ row' = [row EXCEPT ![r] = EnqueuedJob]
  /\ UNCHANGED <<dkey, lease, exec, outcome>>

\* ON CONFLICT (dedupe_key) WHERE state IN ('available', 'claimed') DO NOTHING.
enqueue(r) ==
  /\ row[r].st = "absent"
  /\ \A s \in Rows : dkey[s] = dkey[r] => ~Live(row[s])
  /\ row' = [row EXCEPT ![r] = EnqueuedJob]
  /\ UNCHANGED <<dkey, lease, exec, outcome>>

claim(l, r) ==
  /\ exec[l] = NoRow /\ row[r].st = "available"
  /\ row' = [row EXCEPT ![r] = ClaimedJob(@, ProcOf[l])]
  /\ lease' = [lease EXCEPT ![r] = TRUE]
  /\ exec' = [exec EXCEPT ![l] = r]
  /\ outcome' = [outcome EXCEPT ![l] = "running"]
  /\ UNCHANGED dkey

\* The handler returns or raises.
Handled(l) ==
  /\ exec[l] # NoRow /\ outcome[l] = "running"
  /\ \E o \in {"ok", "error", "permanent"} : outcome' = [outcome EXCEPT ![l] = o]
  /\ UNCHANGED <<row, dkey, lease, exec>>

\* The loop's heartbeat task renews the lease, of whichever loop of the process it is.
heartbeat(l) ==
  /\ exec[l] # NoRow /\ Owned(row[exec[l]], ProcOf[l])
  /\ lease' = [lease EXCEPT ![exec[l]] = TRUE]
  /\ UNCHANGED <<row, dkey, exec, outcome>>

\* execute's last statement: jobs.complete or jobs.fail, by the handler's outcome.
Report(l) ==
  LET r == exec[l]
      w == ProcOf[l]
  IN  /\ r # NoRow /\ outcome[l] # "running"
      /\ row' = [row EXCEPT ![r] =
           IF outcome[l] = "ok" THEN CompletedJob(@, w)
           ELSE FailedJob(@, w, outcome[l] = "error")]
      /\ exec' = [exec EXCEPT ![l] = NoRow]
      /\ outcome' = [outcome EXCEPT ![l] = "running"]
      /\ lease' = [lease EXCEPT ![r] = @ /\ ~Owned(row[r], w)]
      /\ UNCHANGED dkey

\* lease_until passes, because the heartbeat died or the process stalled.
Expire(r) ==
  /\ row[r].st = "claimed" /\ lease[r]
  /\ lease' = [lease EXCEPT ![r] = FALSE]
  /\ UNCHANGED <<row, dkey, exec, outcome>>

reap_expired ==
  /\ \E r \in Rows : row[r].st = "claimed" /\ ~lease[r]
  /\ row' = [r \in Rows |-> IF lease[r] THEN row[r] ELSE ReapedJob(row[r])]
  /\ UNCHANGED <<dkey, lease, exec, outcome>>

cancel_by_dedupe(k) ==
  /\ \E r \in Rows : dkey[r] = k /\ row[r].st = "available"
  /\ row' = [r \in Rows |-> IF dkey[r] = k THEN CancelledJob(row[r]) ELSE row[r]]
  /\ UNCHANGED <<dkey, lease, exec, outcome>>

Crash(p) ==
  /\ \E l \in Loops : ProcOf[l] = p /\ exec[l] # NoRow
  /\ exec' = [l \in Loops |-> IF ProcOf[l] = p THEN NoRow ELSE exec[l]]
  /\ outcome' = [l \in Loops |-> IF ProcOf[l] = p THEN "running" ELSE outcome[l]]
  /\ UNCHANGED <<row, dkey, lease>>

Next ==
  \/ \E r \in Rows : enqueue(r) \/ Expire(r)
  \/ \E l \in Loops, r \in Rows : claim(l, r)
  \/ \E l \in Loops : Handled(l) \/ heartbeat(l) \/ Report(l)
  \/ reap_expired
  \/ \E k \in DKeys : cancel_by_dedupe(k)
  \/ \E p \in Workers : Crash(p)

Spec == Init /\ [][Next]_vars

\* Handlers end and report, free loops claim, the reaper ticks, and the lease of a row that
\* no loop of its owner executes is not renewed.
Fairness ==
  /\ \A l \in Loops : WF_vars(Handled(l)) /\ WF_vars(Report(l))
  /\ WF_vars(\E l \in Loops, r \in Rows : claim(l, r))
  /\ WF_vars(reap_expired)
  /\ \A r \in Rows : WF_vars(Expire(r) /\ \A l \in Loops : exec[l] # r)

FairSpec == Spec /\ Fairness

-----------------------------------------------------------------------------
\* At most one live row carries a dedupe key, though rows of the key come and go: requeued
\* by fail and reap_expired, dead, cancelled and enqueued anew.
OneLivePerKey ==
  \A r, s \in Rows : Live(row[r]) /\ Live(row[s]) /\ dkey[r] = dkey[s] => r = s

\* A job that waits in the queue has a try left, however it came back there (a failure, an
\* expired lease): it is never claimed more than max_attempts times.
TriesLeft == \A r \in Rows : row[r].st = "available" => row[r].tries < MaxTries

\* While a lease is valid, only a loop of the process that holds it ends it: a worker whose
\* job was reaped and claimed by another process can no longer complete or fail it.
LeaseIsFenced ==
  [][\A r \in Rows :
       row[r].st = "claimed" /\ lease[r] /\ row'[r].st # "claimed" =>
         \E l \in Loops : ProcOf[l] = row[r].owner /\ exec[l] = r]_vars

\* Every job that is enqueued finishes, through crashes and lost leases.
JobsFinish == \A r \in Rows : Live(row[r]) ~> ~Live(row[r])
=============================================================================
