------------------------------ MODULE JobTable ------------------------------
(***************************************************************************)
(* One row of the durable job queue (the `jobs` table) and what each SQL   *)
(* statement of crewquarters_shared/jobs.py does to it.  Every operator    *)
(* maps the row before the statement to the row after it; a statement      *)
(* whose WHERE clause does not match leaves the row as it is.              *)
(*                                                                         *)
(* Payload, error, timestamps and the backoff delay are left out: a job    *)
(* whose delay has not passed is simply one that nobody claims yet, and a  *)
(* lease that has run out is one that the caller picks for reaping.        *)
(*                                                                         *)
(* Here and in the other modules an operator Xxx_Yyy is Xxx with a mistake *)
(* named Yyy; no specification uses it.  It serves to see that a property  *)
(* notices the mistake.                                                    *)
(***************************************************************************)
EXTENDS Naturals

CONSTANTS
  MaxTries,   \* max_attempts of a job (5 unless the caller says otherwise)
  Workers,    \* lease owners: one worker_id per worker process
  Nobody      \* lease_owner IS NULL

ASSUME MaxTriesAssumption == MaxTries \in Nat \ {0}
ASSUME NobodyAssumption == Nobody \notin Workers

JobStates == {"absent", "available", "claimed", "succeeded", "dead", "cancelled"}

\* A row; "absent" stands for a row that was never inserted.
Job == [st: JobStates, tries: 0..MaxTries, owner: Workers \union {Nobody}]

NoJob == [st |-> "absent", tries |-> 0, owner |-> Nobody]

\* The rows the partial unique index on dedupe_key ranges over.
Live(j) == j.st \in {"available", "claimed"}

Owned_AnyOwner(j, w) == j.st = "claimed"

\* The WHERE clause every lease holder's statement carries.
Owned(j, w) == j.st = "claimed" /\ j.owner = w

\* A new row of enqueue (the caller checks the dedupe conflict).
EnqueuedJob == [st |-> "available", tries |-> 0, owner |-> Nobody]

ClaimedJob(j, w) == [st |-> "claimed", tries |-> j.tries + 1, owner |-> w]

\* Every statement that ends a lease clears lease_owner.
Unowned(j, state) == [st |-> state, tries |-> j.tries, owner |-> Nobody]

CompletedJob(j, w) == IF Owned(j, w) THEN Unowned(j, "succeeded") ELSE j

FailedJob_Forever(j, w, retryable) ==
  IF ~Owned(j, w) THEN j ELSE Unowned(j, IF retryable THEN "available" ELSE "dead")

FailedJob(j, w, retryable) ==
  IF ~Owned(j, w) THEN j
  ELSE Unowned(j, IF retryable /\ j.tries < MaxTries THEN "available" ELSE "dead")

ReapedJob_NeverDead(j) ==
  IF j.st = "claimed" /\ j.tries < MaxTries THEN Unowned(j, "available") ELSE j

\* reap_expired on a row whose lease_until has passed.
ReapedJob(j) ==
  IF j.st # "claimed" THEN j
  ELSE Unowned(j, IF j.tries < MaxTries THEN "available" ELSE "dead")

\* cancel_by_dedupe: only a job nobody has claimed is cancelled.
CancelledJob(j) == IF j.st = "available" THEN Unowned(j, "cancelled") ELSE j
=============================================================================
