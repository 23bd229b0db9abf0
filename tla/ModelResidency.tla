--------------------------- MODULE ModelResidency ---------------------------
(***************************************************************************)
(* Which models are in memory: crewquarters_gateway/manager.py with the    *)
(* gateway's worker and leader loops (main.py) and the daemon's serving    *)
(* containers (engine.py).                                                 *)
(*                                                                         *)
(* Holders (chats, runs, owner requests) lease models; a lease on a model  *)
(* that is not resident starts a load job.  One worker loop executes load  *)
(* and unload jobs, whose handlers consist of transactions and calls to    *)
(* the daemon.  The leader loop expires leases, drains idle models,        *)
(* notices crashed servers, recovers stuck jobs and stops containers       *)
(* nobody knows.  Both loops and all requests interleave.                  *)
(*                                                                         *)
(* A transaction is one step: acquire holds the admission lock and the     *)
(* instance row, everybody else the instance row.  The exception is a      *)
(* release, which counts the other leases before it touches the row.       *)
(* Time is not counted: a deadline or an idle period may pass whenever it  *)
(* runs.                                                                   *)
(***************************************************************************)
EXTENDS Naturals

CONSTANTS
  Models, Holders, Nothing,
  RunHolders,  \* the holders that are runs
  OneOff,      \* the holders that drop their lease after use (owner_caller)
  Generative,  \* the models with the chat capability
  Peak,        \* expected_memory_bytes
  Margin, MaxServing,
  MaxCrashes,  \* how often the gateway process may die
  MaxTries,    \* max_attempts of an unload job (3 in the code)
  MemFaults    \* what may go wrong, a subset of FaultKinds

VARIABLES
  minst,    \* model_instances
  leases,   \* model_leases with released_at null, as pairs <<model, holder>>
  rel,      \* a release between its count and its commit: the models it found unused
  loadJob,  \* the live load job of each model (max_attempts is 1)
  unloadJob,\* the live unload job of each model, and its attempts
  box,      \* the daemon's serving container of each model
  late,     \* start requests the daemon still serves although the gateway gave up
  use,      \* what each holder's request does
  act,      \* whether the control plane calls a run active
  worker,   \* the worker loop
  leader,   \* the leader loop
  crashes   \* how often the process died

memVars == <<minst, leases, rel, loadJob, unloadJob, box, late, use, act, worker, leader, crashes>>

RESIDENT == {"LOADING", "READY", "DRAINING"}
Absent == {"NOT_LOADED", "LOAD_ERROR", "RUNTIME_ERROR"}
Resident(m) == minst[m].st \in RESIDENT
Leased(m) == \E h \in Holders : <<m, h>> \in leases
Releasing(h) == rel[h].on
NotReleasing == [on |-> FALSE, unused |-> {}]


MemInit ==
  /\ minst = [m \in Models |->
       [st |-> "NOT_LOADED", drain |-> "none", res |-> 0, ep |-> FALSE, idle |-> FALSE]]
  /\ leases = {}
  /\ rel = [h \in Holders |-> NotReleasing]
  /\ loadJob = [m \in Models |-> "none"]
  /\ unloadJob = [m \in Models |-> [st |-> "none", tries |-> 0]]
  /\ box = [m \in Models |-> "absent"]
  /\ late = [m \in Models |-> FALSE]
  /\ use = [h \in Holders |-> [pc |-> "idle", m |-> Nothing]]
  /\ act = [h \in RunHolders |-> TRUE]
  /\ worker = [pc |-> "free", m |-> Nothing, kind |-> "load"]
  /\ leader = [pc |-> "jobs", todo |-> {}, draining |-> {}, m |-> Nothing]
  /\ crashes = 0

-----------------------------------------------------------------------------
(* Jobs: jobs.enqueue with a dedupe key leaves a live row alone. *)

EnqueueLoad(m) ==
  loadJob' = [loadJob EXCEPT ![m] = IF @ = "none" THEN "available" ELSE @]

EnqueuedUnload(j) == IF j.st = "none" THEN [st |-> "available", tries |-> 0] ELSE j

-----------------------------------------------------------------------------
(* Leases and admission. *)

\* The sum of w over the set s.
Total(w, s) ==
  LET sum[t \in SUBSET DOMAIN w] ==
        IF t = {} THEN 0 ELSE LET x == CHOOSE y \in t : TRUE IN w[x] + sum[t \ {x}]
  IN  sum[s]

ReservedBy(ms) == Total([m \in Models |-> minst[m].res], ms)

\* _admit of a version that forgets the models being drained.
_admit_LiveOnly(m) ==
  LET others == {o \in Models \ {m} : minst[o].st \in {"LOADING", "READY"}}
  IN  /\ m \in Generative => others \cap Generative = {}
      /\ ReservedBy(others) + Peak[m] + Margin <= MaxServing

\* The telemetry check is left open: a refusal is a step of the caller that changes nothing.
_admit(m) ==
  LET others == {o \in Models \ {m} : Resident(o)}
  IN  /\ m \in Generative => others \cap Generative = {}
      /\ ReservedBy(others) + Peak[m] + Margin <= MaxServing

\* The instance row after a lease on it was created or renewed.
acquire_row_KeepStopping(m) ==
  IF minst[m].st \in Absent
  THEN [minst[m] EXCEPT !.st = "LOADING", !.res = Peak[m], !.idle = FALSE]
  ELSE IF minst[m].st = "DRAINING"
  THEN [minst[m] EXCEPT !.st = "READY", !.drain = "none", !.idle = FALSE]
  ELSE [minst[m] EXCEPT !.idle = FALSE]

acquire_row(m) ==
  IF minst[m].st \in Absent
  THEN [minst[m] EXCEPT !.st = "LOADING", !.res = Peak[m], !.idle = FALSE]
  ELSE IF minst[m].st = "DRAINING" /\ minst[m].drain = "idle"
  THEN [minst[m] EXCEPT !.st = "READY", !.drain = "none", !.idle = FALSE]
  ELSE [minst[m] EXCEPT !.idle = FALSE]

acquire(h, m) ==
  /\ ~Releasing(h)
  /\ ~(minst[m].st = "DRAINING" /\ minst[m].drain = "manual")
  /\ minst[m].st \in Absent => _admit(m)
  /\ leases' = leases \union {<<m, h>>}
  /\ minst' = [minst EXCEPT ![m] = acquire_row(m)]
  /\ IF minst[m].st \in Absent THEN EnqueueLoad(m) ELSE UNCHANGED loadJob

\* _leased_local: lease the model, then wait for it.
MemRequest(h, m) ==
  /\ use[h].pc = "idle"
  /\ h \in RunHolders => act[h]
  /\ acquire(h, m)
  /\ use' = [use EXCEPT ![h] = [pc |-> "waiting", m |-> m]]
  /\ UNCHANGED <<rel, unloadJob, box, late, act, worker, leader, crashes>>

\* manual_load: lease and release at once, so that the idle timer decides.
manual_load(h, m) ==
  /\ use[h].pc = "idle" /\ h \in OneOff
  /\ acquire(h, m)
  /\ use' = [use EXCEPT ![h] = [pc |-> "loaded", m |-> m]]
  /\ UNCHANGED <<rel, unloadJob, box, late, act, worker, leader, crashes>>

\* One look of wait_ready at the row, which ends the wait or not.
WaitReady(h) ==
  LET i == minst[use[h].m]
  IN  /\ use[h].pc = "waiting"
      /\ \/ /\ i.st = "READY" /\ i.ep
            /\ use' = [use EXCEPT ![h].pc = "using"]
         \/ /\ \/ i.st \in Absent
               \/ i.st = "DRAINING" /\ i.drain = "manual"
            /\ use' = [use EXCEPT ![h].pc = "done"]
      /\ UNCHANGED <<minst, leases, rel, loadJob, unloadJob, box, late, act, worker, leader, crashes>>

\* wait_ready's deadline.
WaitTimesOut(h) ==
  /\ use[h].pc = "waiting"
  /\ use' = [use EXCEPT ![h].pc = "done"]
  /\ UNCHANGED <<minst, leases, rel, loadJob, unloadJob, box, late, act, worker, leader, crashes>>

\* The request to the model server returns or fails.
Served(h) ==
  /\ use[h].pc = "using"
  /\ use' = [use EXCEPT ![h].pc = "done"]
  /\ UNCHANGED <<minst, leases, rel, loadJob, unloadJob, box, late, act, worker, leader, crashes>>

\* A run or a chat keeps its lease for the next request.
KeepLease(h) ==
  /\ use[h].pc = "done" /\ h \notin OneOff
  /\ use' = [use EXCEPT ![h] = [pc |-> "idle", m |-> Nothing]]
  /\ UNCHANGED <<minst, leases, rel, loadJob, unloadJob, box, late, act, worker, leader, crashes>>

\* release and release_holder: lock the holder's leases, mark them released and count the
\* leases that are left on each model.  Nothing is visible to others yet.
BeginRelease(h) ==
  LET mine == {m \in Models : <<m, h>> \in leases}
  IN  /\ ~Releasing(h)
      /\ rel' = [rel EXCEPT ![h] =
           [on |-> TRUE, unused |-> {m \in mine : \A g \in Holders \ {h} : <<m, g>> \notin leases}]]

\* Then set idle_since of the models found unused, and commit.
_mark_idle_if_unused(m, unused) ==
  [minst[m] EXCEPT !.idle = @ \/ (m \in unused /\ minst[m].st = "READY")]

CommitRelease(h) ==
  /\ Releasing(h)
  /\ leases' = {l \in leases : l[2] # h}
  /\ minst' = [m \in Models |-> _mark_idle_if_unused(m, rel[h].unused)]
  /\ rel' = [rel EXCEPT ![h] = NotReleasing]
  /\ UNCHANGED <<loadJob, unloadJob, box, late, use, act, worker, leader, crashes>>

\* The holder lets go: a one-off request after use, a chat that is closed, manual_load.
ReleaseHolder(h) ==
  /\ use[h].pc \in {"loaded", "done", "idle"}
  /\ use[h].pc # "idle" => h \in OneOff
  /\ use[h].pc = "idle" => \E m \in Models : <<m, h>> \in leases
  /\ BeginRelease(h)
  /\ use' = [use EXCEPT ![h] = [pc |-> "idle", m |-> Nothing]]
  /\ UNCHANGED <<minst, leases, loadJob, unloadJob, box, late, act, worker, leader, crashes>>

\* The run ends; the owner may retry it.
RunEnds(h) ==
  /\ act[h] /\ use[h].pc = "idle"
  /\ act' = [act EXCEPT ![h] = FALSE]
  /\ UNCHANGED <<minst, leases, rel, loadJob, unloadJob, box, late, use, worker, leader, crashes>>

RunRetried(h) ==
  /\ "retry" \in MemFaults /\ ~act[h]
  /\ act' = [act EXCEPT ![h] = TRUE]
  /\ UNCHANGED <<minst, leases, rel, loadJob, unloadJob, box, late, use, worker, leader, crashes>>

\* The owner's unload; with force it drops the leases.  A release in progress holds its rows.
unload(m, force) ==
  /\ Resident(m) /\ (Leased(m) => force)
  /\ \A h \in Holders : <<m, h>> \in leases => ~Releasing(h)
  /\ leases' = {l \in leases : l[1] # m}
  /\ minst' = [minst EXCEPT ![m].st = "DRAINING", ![m].drain = "manual"]
  /\ unloadJob' = [unloadJob EXCEPT ![m] = EnqueuedUnload(@)]
  /\ UNCHANGED <<rel, loadJob, box, late, use, act, worker, leader, crashes>>

-----------------------------------------------------------------------------
(* The daemon: start_model, stop_model and the container's own exit. *)

Started(b) == "running"

ServerExits(m) ==
  /\ "server_exit" \in MemFaults /\ box[m] = "running"
  /\ box' = [box EXCEPT ![m] = "exited"]
  /\ UNCHANGED <<minst, leases, rel, loadJob, unloadJob, late, use, act, worker, leader, crashes>>

\* A start whose caller gave up takes effect, or comes to nothing.
LateStart(m) ==
  /\ late[m]
  /\ late' = [late EXCEPT ![m] = FALSE]
  /\ box' \in {box, [box EXCEPT ![m] = Started(@)]}
  /\ UNCHANGED <<minst, leases, rel, loadJob, unloadJob, use, act, worker, leader, crashes>>

\* A stop that fails at the caller has stopped the container or not.
StopOutcome(m) ==
  \/ box' = [box EXCEPT ![m] = "absent"]
  \/ "runtime" \in MemFaults /\ box' = box

-----------------------------------------------------------------------------
(* The worker loop: run_job_once, handle_load and handle_unload. *)

MemAt(pc) == worker.pc = pc
MemStep(pc) == worker' = [worker EXCEPT !.pc = pc]

ClaimLoad(m) ==
  /\ MemAt("free") /\ loadJob[m] = "available"
  /\ loadJob' = [loadJob EXCEPT ![m] = "claimed"]
  /\ worker' = [pc |-> "load", m |-> m, kind |-> "load"]
  /\ UNCHANGED <<minst, leases, rel, unloadJob, box, late, use, act, leader, crashes>>

ClaimUnload(m) ==
  /\ MemAt("free") /\ unloadJob[m].st = "available"
  /\ unloadJob' = [unloadJob EXCEPT ![m] = [st |-> "claimed", tries |-> @.tries + 1]]
  /\ worker' = [pc |-> "unload", m |-> m, kind |-> "unload"]
  /\ UNCHANGED <<minst, leases, rel, loadJob, box, late, use, act, leader, crashes>>

\* handle_load looks at the state without a lock; then it prepares and starts the container.
LoadBegins ==
  /\ MemAt("load")
  /\ MemStep(IF minst[worker.m].st = "LOADING" THEN "prepare" ELSE "ok")
  /\ UNCHANGED <<minst, leases, rel, loadJob, unloadJob, box, late, use, act, leader, crashes>>

LoadPrepares ==
  /\ MemAt("prepare")
  /\ \/ MemStep("start")
     \/ "runtime" \in MemFaults /\ MemStep("fail_stop")
  /\ UNCHANGED <<minst, leases, rel, loadJob, unloadJob, box, late, use, act, leader, crashes>>

LoadStarts ==
  /\ MemAt("start")
  /\ \/ MemStep("poll") /\ box' = [box EXCEPT ![worker.m] = Started(@)] /\ UNCHANGED late
     \/ /\ "runtime" \in MemFaults /\ MemStep("fail_stop") /\ UNCHANGED box
        /\ late' \in {late, [late EXCEPT ![worker.m] = TRUE]}
  /\ UNCHANGED <<minst, leases, rel, loadJob, unloadJob, use, act, leader, crashes>>

\* Healthy, gone, or the startup deadline has passed.
LoadPolls ==
  /\ MemAt("poll")
  /\ \/ box[worker.m] = "running" /\ MemStep("ready")
     \/ box[worker.m] # "running" /\ MemStep("fail_stop")
     \/ "runtime" \in MemFaults /\ MemStep("fail_stop")
  /\ UNCHANGED <<minst, leases, rel, loadJob, unloadJob, box, late, use, act, leader, crashes>>

LoadCommits_AnyState ==
  LET m == worker.m
  IN  /\ MemAt("ready") /\ MemStep("ok")
      /\ minst' = [minst EXCEPT ![m] = [@ EXCEPT !.st = "READY", !.ep = TRUE, !.idle = ~Leased(m)]]
      /\ UNCHANGED <<leases, rel, loadJob, unloadJob, box, late, use, act, leader, crashes>>

LoadCommits ==
  LET m == worker.m
  IN  /\ MemAt("ready") /\ MemStep("ok")
      /\ minst' = [minst EXCEPT ![m] =
           IF @.st = "LOADING"
           THEN [@ EXCEPT !.st = "READY", !.ep = TRUE, !.idle = ~Leased(m)] ELSE @]
      /\ UNCHANGED <<leases, rel, loadJob, unloadJob, box, late, use, act, leader, crashes>>

\* _fail_load: stop the container whatever the state is, then commit LOAD_ERROR.
FailedLoad(i) ==
  IF i.st = "LOADING" THEN [i EXCEPT !.st = "LOAD_ERROR", !.res = 0, !.ep = FALSE] ELSE i

LoadFailStops ==
  /\ MemAt("fail_stop") /\ MemStep("failed")
  /\ StopOutcome(worker.m)
  /\ UNCHANGED <<minst, leases, rel, loadJob, unloadJob, late, use, act, leader, crashes>>

LoadFailCommits ==
  /\ MemAt("failed") /\ MemStep("ok")
  /\ minst' = [minst EXCEPT ![worker.m] = FailedLoad(@)]
  /\ UNCHANGED <<leases, rel, loadJob, unloadJob, box, late, use, act, leader, crashes>>

\* handle_unload's first transaction.  A manual drain then waits for requests in flight, for
\* a bounded time that may end at any moment.
UnloadBegins ==
  LET m == worker.m
  IN  /\ MemAt("unload")
      /\ IF minst[m].st # "DRAINING" THEN MemStep("ok") /\ UNCHANGED minst
         ELSE IF minst[m].drain = "idle" /\ Leased(m)
         THEN /\ MemStep("ok")
              /\ minst' = [minst EXCEPT ![m].st = "READY", ![m].drain = "none"]
         ELSE /\ MemStep("stop")
              /\ minst' = [minst EXCEPT ![m].drain = IF @ = "manual" THEN @ ELSE "stopping"]
      /\ UNCHANGED <<leases, rel, loadJob, unloadJob, box, late, use, act, leader, crashes>>

\* runtime.stop reports the container removed, still present, or raises with either effect.
UnloadStops ==
  LET m == worker.m
  IN  /\ MemAt("stop")
      /\ \/ MemStep("removed") /\ box' = [box EXCEPT ![m] = "absent"]
         \/ "runtime" \in MemFaults /\ box[m] # "absent" /\ MemStep("present") /\ UNCHANGED box
         \/ "runtime" \in MemFaults /\ MemStep("err") /\ StopOutcome(m)
      /\ UNCHANGED <<minst, leases, rel, loadJob, unloadJob, late, use, act, leader, crashes>>

UnloadCommits_NoReload ==
  LET m == worker.m
      i == [minst[m] EXCEPT !.drain = "none", !.ep = FALSE, !.idle = FALSE]
  IN  /\ worker.pc \in {"removed", "present"} /\ MemStep("ok")
      /\ minst' = IF minst[m].st # "DRAINING" THEN minst
                 ELSE [minst EXCEPT ![m] =
                   [i EXCEPT !.res = 0, !.st = IF MemAt("removed") THEN "NOT_LOADED" ELSE "RUNTIME_ERROR"]]
      /\ UNCHANGED <<leases, rel, loadJob, unloadJob, box, late, use, act, leader, crashes>>

UnloadCommits ==
  LET m == worker.m
      i == [minst[m] EXCEPT !.drain = "none", !.ep = FALSE, !.idle = FALSE]
      reload == MemAt("removed") /\ Leased(m)
  IN  /\ worker.pc \in {"removed", "present"} /\ MemStep("ok")
      /\ IF minst[m].st # "DRAINING" THEN UNCHANGED <<minst, loadJob>>
         ELSE IF reload
         THEN /\ minst' = [minst EXCEPT ![m] = [i EXCEPT !.st = "LOADING", !.res = Peak[m]]]
              /\ EnqueueLoad(m)
         ELSE /\ minst' = [minst EXCEPT ![m] =
                   [i EXCEPT !.res = 0, !.st = IF MemAt("removed") THEN "NOT_LOADED" ELSE "RUNTIME_ERROR"]]
              /\ UNCHANGED loadJob
      /\ UNCHANGED <<leases, rel, unloadJob, box, late, use, act, leader, crashes>>

FailedUnload(j) ==
  IF j.st # "claimed" THEN j
  ELSE IF j.tries < MaxTries THEN [j EXCEPT !.st = "available"]
  ELSE [st |-> "none", tries |-> 0]

\* jobs.complete or jobs.fail, for a row this worker still holds.
MemReport ==
  LET m == worker.m
  IN  /\ worker.pc \in {"ok", "err"}
      /\ IF worker.kind = "load"
         THEN /\ loadJob' = [loadJob EXCEPT ![m] = IF @ = "claimed" THEN "none" ELSE @]
              /\ UNCHANGED unloadJob
         ELSE /\ unloadJob' = [unloadJob EXCEPT ![m] =
                   IF MemAt("err") THEN FailedUnload(@)
                   ELSE IF @.st = "claimed" THEN [st |-> "none", tries |-> 0] ELSE @]
              /\ UNCHANGED loadJob
      /\ worker' = [pc |-> "free", m |-> Nothing, kind |-> "load"]
      /\ UNCHANGED <<minst, leases, rel, box, late, use, act, leader, crashes>>

-----------------------------------------------------------------------------
(* The leader loop: jobs.reap_expired, then reap in its order. *)

Leads(pc) == leader.pc = pc
Lead(pc, todo) == leader' = [pc |-> pc, todo |-> todo, draining |-> {}, m |-> Nothing]
LeadWith(pc, m) == leader' = [leader EXCEPT !.pc = pc, !.todo = @ \ {m}, !.m = m]
LeadBack(pc) == leader' = [leader EXCEPT !.pc = pc, !.m = Nothing]

\* A lease on a job expires when nobody works on it, or when its loop stalls.
Lapsed(m, kind) ==
  \/ ~(worker.pc # "free" /\ worker.m = m /\ worker.kind = kind)
  \/ "lapse" \in MemFaults

reap_jobs ==
  /\ Leads("jobs") /\ Lead("expire", {})
  /\ \E L, U \in SUBSET Models :
       /\ \A m \in L : loadJob[m] = "claimed" /\ Lapsed(m, "load")
       /\ \A m \in U : unloadJob[m].st = "claimed" /\ Lapsed(m, "unload")
       /\ loadJob' = [m \in Models |-> IF m \in L THEN "none" ELSE loadJob[m]]
       /\ unloadJob' = [m \in Models |-> IF m \in U THEN FailedUnload(unloadJob[m]) ELSE unloadJob[m]]
  /\ UNCHANGED <<minst, leases, rel, box, late, use, act, worker, crashes>>

\* Expired leases, of any holder and at any time, except those a release has locked.
ExpireLeases ==
  /\ Leads("expire") /\ Lead("runs", {})
  /\ \E E \in SUBSET {l \in leases : ~Releasing(l[2])} :
       LET left == leases \ E
           unused == {m \in Models : /\ \E l \in E : l[1] = m
                                     /\ \A l \in left : l[1] # m}
       IN  /\ leases' = left
           /\ minst' = [m \in Models |-> _mark_idle_if_unused(m, unused)]
  /\ UNCHANGED <<rel, loadJob, unloadJob, box, late, use, act, worker, crashes>>

\* run_is_active is asked for every run that holds a lease; the releases follow.
FindEndedRuns ==
  /\ Leads("runs")
  /\ Lead("release", {h \in RunHolders : ~act[h] /\ \E m \in Models : <<m, h>> \in leases})
  /\ UNCHANGED <<minst, leases, rel, loadJob, unloadJob, box, late, use, act, worker, crashes>>

ReleaseEndedRun(h) ==
  /\ Leads("release") /\ h \in leader.todo
  /\ BeginRelease(h)
  /\ leader' = [leader EXCEPT !.todo = @ \ {h}]
  /\ UNCHANGED <<minst, leases, loadJob, unloadJob, box, late, use, act, worker, crashes>>

RunsReleased ==
  /\ Leads("release") /\ leader.todo = {} /\ Lead("idle", {})
  /\ UNCHANGED <<minst, leases, rel, loadJob, unloadJob, box, late, use, act, worker, crashes>>

\* Unused READY models start their idle clock; those whose clock ran out are drained.  A
\* row that is locked (outside of S) is skipped.
DrainIdle ==
  /\ Leads("idle")
  /\ \E S \in SUBSET {m \in Models : minst[m].st = "READY" /\ ~Leased(m)} :
     \E D \in SUBSET {m \in S : minst[m].idle} :
       /\ minst' = [m \in Models |->
            IF m \in D THEN [minst[m] EXCEPT !.st = "DRAINING", !.drain = "idle"]
            ELSE IF m \in S THEN [minst[m] EXCEPT !.idle = TRUE] ELSE minst[m]]
       /\ unloadJob' = [m \in Models |->
            IF m \in D THEN EnqueuedUnload(unloadJob[m]) ELSE unloadJob[m]]
  /\ Lead("probe", {m \in Models : minst'[m].st = "READY"})
  /\ UNCHANGED <<leases, rel, loadJob, box, late, use, act, worker, crashes>>

\* model_state of each model that was READY.
ProbeReady(m) ==
  /\ Leads("probe") /\ m \in leader.todo
  /\ IF box[m] = "running" THEN leader' = [leader EXCEPT !.todo = @ \ {m}]
     ELSE LeadWith("crashed", m)
  /\ UNCHANGED <<minst, leases, rel, loadJob, unloadJob, box, late, use, act, worker, crashes>>

MarkCrashed ==
  LET m == leader.m
  IN  /\ Leads("crashed")
      /\ IF minst[m].st # "READY" THEN LeadBack("probe") /\ UNCHANGED minst
         ELSE /\ leader' = [leader EXCEPT !.pc = "crash_stop"]
              /\ minst' = [minst EXCEPT ![m] =
                   [@ EXCEPT !.st = "RUNTIME_ERROR", !.res = 0, !.ep = FALSE]]
      /\ UNCHANGED <<leases, rel, loadJob, unloadJob, box, late, use, act, worker, crashes>>

StopCrashed ==
  /\ Leads("crash_stop") /\ LeadBack("probe")
  /\ StopOutcome(leader.m)
  /\ UNCHANGED <<minst, leases, rel, loadJob, unloadJob, late, use, act, worker, crashes>>

Probed ==
  /\ Leads("probe") /\ leader.todo = {}
  /\ leader' = [pc |-> "stuck", todo |-> {m \in Models : minst[m].st = "LOADING"},
                draining |-> {m \in Models : minst[m].st = "DRAINING"}, m |-> Nothing]
  /\ UNCHANGED <<minst, leases, rel, loadJob, unloadJob, box, late, use, act, worker, crashes>>

RecoverLoad_TrustsJob(m) ==
  /\ Leads("stuck") /\ m \in leader.todo
  /\ leader' = [leader EXCEPT !.todo = @ \ {m}]
  /\ UNCHANGED <<minst, leases, rel, loadJob, unloadJob, box, late, use, act, worker, crashes>>

\* _recover_stuck works on the states of its snapshot.  A load without a job is left alone
\* during its grace period, then adopted or failed.
RecoverLoad(m) ==
  /\ Leads("stuck") /\ m \in leader.todo
  /\ \/ leader' = [leader EXCEPT !.todo = @ \ {m}]
     \/ /\ loadJob[m] = "none"
        /\ LeadWith(IF box[m] = "running" THEN "adopt" ELSE "fail_stop", m)
     \/ /\ loadJob[m] = "none" /\ "runtime" \in MemFaults
        /\ LeadWith("fail_stop", m)
  /\ UNCHANGED <<minst, leases, rel, loadJob, unloadJob, box, late, use, act, worker, crashes>>

AdoptLoad ==
  /\ Leads("adopt") /\ LeadBack("stuck")
  /\ minst' = [minst EXCEPT ![leader.m] =
       IF @.st = "LOADING" THEN [@ EXCEPT !.st = "READY", !.ep = TRUE] ELSE @]
  /\ UNCHANGED <<leases, rel, loadJob, unloadJob, box, late, use, act, worker, crashes>>

RecoverFailStops ==
  /\ Leads("fail_stop") /\ leader' = [leader EXCEPT !.pc = "failed"]
  /\ StopOutcome(leader.m)
  /\ UNCHANGED <<minst, leases, rel, loadJob, unloadJob, late, use, act, worker, crashes>>

RecoverFailCommits ==
  /\ Leads("failed") /\ LeadBack("stuck")
  /\ minst' = [minst EXCEPT ![leader.m] = FailedLoad(@)]
  /\ UNCHANGED <<leases, rel, loadJob, unloadJob, box, late, use, act, worker, crashes>>

RecoverUnload_TrustsJob(m) ==
  /\ Leads("stuck") /\ m \in leader.draining
  /\ leader' = [leader EXCEPT !.draining = @ \ {m}]
  /\ UNCHANGED <<minst, leases, rel, loadJob, unloadJob, box, late, use, act, worker, crashes>>

RecoverUnload(m) ==
  /\ Leads("stuck") /\ m \in leader.draining
  /\ leader' = [leader EXCEPT !.draining = @ \ {m}]
  /\ unloadJob' = [unloadJob EXCEPT ![m] = EnqueuedUnload(@)]
  /\ UNCHANGED <<minst, leases, rel, loadJob, box, late, use, act, worker, crashes>>

Recovered_NotAfterError ==
  /\ Leads("stuck") /\ leader.todo = {} /\ leader.draining = {}
  /\ Lead("orphans", {m \in Models : minst[m].st = "NOT_LOADED"})
  /\ UNCHANGED <<minst, leases, rel, loadJob, unloadJob, box, late, use, act, worker, crashes>>

Recovered ==
  /\ Leads("stuck") /\ leader.todo = {} /\ leader.draining = {}
  /\ Lead("orphans", {m \in Models : minst[m].st \in Absent})
  /\ UNCHANGED <<minst, leases, rel, loadJob, unloadJob, box, late, use, act, worker, crashes>>

\* _stop_orphans: a container of a model that was not resident when the list was read.
FindOrphan(m) ==
  /\ Leads("orphans") /\ m \in leader.todo
  /\ IF box[m] = "absent" THEN leader' = [leader EXCEPT !.todo = @ \ {m}]
     ELSE LeadWith("orphan_stop", m)
  /\ UNCHANGED <<minst, leases, rel, loadJob, unloadJob, box, late, use, act, worker, crashes>>

StopOrphan ==
  /\ Leads("orphan_stop") /\ LeadBack("orphans")
  /\ StopOutcome(leader.m)
  /\ UNCHANGED <<minst, leases, rel, loadJob, unloadJob, late, use, act, worker, crashes>>

Reaped ==
  /\ Leads("orphans") /\ leader.todo = {} /\ Lead("jobs", {})
  /\ UNCHANGED <<minst, leases, rel, loadJob, unloadJob, box, late, use, act, worker, crashes>>

\* A daemon call of the leader raises: leader_loop logs it and begins anew.
LeaderError ==
  /\ "leader_error" \in MemFaults /\ leader.pc \in {"probe", "stuck", "orphans"}
  /\ Lead("jobs", {})
  /\ UNCHANGED <<minst, leases, rel, loadJob, unloadJob, box, late, use, act, worker, crashes>>

\* The gateway process dies: loops and requests are gone, open transactions roll back.
MemCrash ==
  /\ crashes < MaxCrashes /\ crashes' = crashes + 1
  /\ worker.pc # "free" \/ \E h \in Holders : use[h].pc # "idle"
  /\ worker' = [pc |-> "free", m |-> Nothing, kind |-> "load"]
  /\ leader' = [pc |-> "jobs", todo |-> {}, draining |-> {}, m |-> Nothing]
  /\ use' = [h \in Holders |-> [pc |-> "idle", m |-> Nothing]]
  /\ rel' = [h \in Holders |-> NotReleasing]
  /\ UNCHANGED <<minst, leases, loadJob, unloadJob, box, late, act>>

-----------------------------------------------------------------------------
WorkerNext ==
  \/ \E m \in Models : ClaimLoad(m) \/ ClaimUnload(m)
  \/ LoadBegins \/ LoadPrepares \/ LoadStarts \/ LoadPolls \/ LoadCommits
  \/ LoadFailStops \/ LoadFailCommits
  \/ UnloadBegins \/ UnloadStops \/ UnloadCommits
  \/ MemReport

LeaderNext ==
  \/ reap_jobs \/ ExpireLeases \/ FindEndedRuns \/ RunsReleased \/ DrainIdle
  \/ \E h \in Holders : ReleaseEndedRun(h)
  \/ \E m \in Models : ProbeReady(m) \/ RecoverLoad(m) \/ RecoverUnload(m) \/ FindOrphan(m)
  \/ MarkCrashed \/ StopCrashed \/ Probed
  \/ AdoptLoad \/ RecoverFailStops \/ RecoverFailCommits \/ Recovered
  \/ StopOrphan \/ Reaped \/ LeaderError

HolderNext ==
  \/ \E h \in Holders, m \in Models : MemRequest(h, m) \/ manual_load(h, m)
  \/ \E h \in Holders :
       WaitReady(h) \/ WaitTimesOut(h) \/ Served(h) \/ KeepLease(h) \/ ReleaseHolder(h) \/ CommitRelease(h)
  \/ \E h \in RunHolders : RunEnds(h) \/ RunRetried(h)
  \/ \E m \in Models, force \in BOOLEAN : unload(m, force)

MemNext == HolderNext \/ WorkerNext \/ LeaderNext \/ MemCrash \/ \E m \in Models : ServerExits(m) \/ LateStart(m)

MemSpec == MemInit /\ [][MemNext]_memVars

ReapAllStale ==
  /\ reap_jobs
  /\ \A m \in Models : /\ Lapsed(m, "load") => loadJob'[m] # "claimed"
                       /\ Lapsed(m, "unload") => unloadJob'[m].st # "claimed"

-----------------------------------------------------------------------------
(* Properties. *)

\* Models that are not resident reserve nothing, the others what they need at their peak.
ReservedWhileResident == \A m \in Models : minst[m].res = IF Resident(m) THEN Peak[m] ELSE 0

\* Two chat models are never resident together, also while one of them is drained or loaded
\* again for a lease that came late.
OneChatModel == \A m, n \in Generative : Resident(m) /\ Resident(n) => m = n

\* Memory is never promised twice: what the resident models have reserved fits with the
\* margin, whatever is loading, draining, reloading or being recovered.
MemoryFits ==
  /\ ReservedBy(Models) = 0 \/ ReservedBy(Models) + Margin <= MaxServing
  /\ ReservedWhileResident /\ OneChatModel

\* A reason to drain is there exactly while the model drains: a finished load, an adopted
\* server or a lease that ended an idle drain leaves none behind, and no drain lacks one.
DrainHasReason == \A m \in Models : (minst[m].st = "DRAINING") <=> (minst[m].drain # "none")

InUse(m) == \E h \in Holders : use[h] = [pc |-> "using", m |-> m] /\ <<m, h>> \in leases

\* When the unload job is about to stop the server, no request with an active lease uses it,
\* unless the owner unloads the model: leases that arrive up to that point end the drain,
\* later ones wait for the reload.
UnloadSparesUsers == worker.pc = "stop" /\ minst[worker.m].drain # "manual" => ~InUse(worker.m)

\* A lease is on a model that is loaded, loading, about to be loaded again or in error, never
\* on one that was quietly unloaded: a lease that arrives during the stop starts a reload.
LeasedIsNotUnloaded == \A m \in Models : Leased(m) => minst[m].st # "NOT_LOADED"

\* A model that is loading or draining; it gets somewhere, whatever dies or fails.
InTransit(m) == minst[m].st \in {"LOADING", "DRAINING"}

\* A caller that waits for a model.  It is answered without its own deadline: the model becomes
\* ready, is loaded again after a drain that was too late to stop, or fails.
Waiting(h) == use[h].pc = "waiting"

\* A server nobody accounts for (a start that outlived its load); it is stopped or adopted.
Orphan(m) == box[m] # "absent" /\ ~Resident(m)
=============================================================================
