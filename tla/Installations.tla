---------------------------- MODULE Installations ----------------------------
(***************************************************************************)
(* One installed agent: versions imported into the catalogue, approval of  *)
(* a version's permissions, enabling, uninstalling (routers/agents.py,     *)
(* catalog.py), and the requests that read the installation, wait for the  *)
(* readiness checks of other services and then commit a run or a schedule  *)
(* (routers/runs.py, routers/schedules.py, chaining.py).  A scheduled run  *)
(* is created in one step: the tick locks the schedule, which uninstalling *)
(* updates, and its insert waits for the lock on the installation.         *)
(***************************************************************************)
EXTENDS Naturals, FiniteSets, Sequences

CONSTANTS
  Versions,   \* version numbers of the agent
  Perms,      \* the sets of permissions a manifest may request
  Importers,  \* concurrent imports
  InstallRequests, \* concurrent requests of the owner
  MaxEdits,   \* bound on the installation's version
  MaxCreated  \* bound on runs

VARIABLES
  catalog,  \* the manifests stored, by version: a permission set, or none
  imp,      \* an import: where it is, its version and its manifest
  inst,     \* the row of agent_installations, or none
  sched,    \* a live schedule of the installation exists
  installRuns, \* runs: the version and permissions they carry, their state
  installReq, \* a request: where it is and what it read
  ready     \* the other readiness checks pass (connections, models, configuration)

installVars == <<catalog, imp, inst, sched, installRuns, installReq, ready>>

NoRow == [live |-> FALSE, version |-> 0, approved |-> "none", needs |-> FALSE, enabled |-> FALSE, edits |-> 0]
NoImport == [pc |-> "idle", version |-> 0, perms |-> "none"]
NoRequest == [pc |-> "idle", kind |-> "none", version |-> 0, perms |-> "none"]
Active == {"QUEUED", "RUNNING"}

InstallInit ==
  /\ catalog = [v \in Versions |-> "none"] /\ imp = [i \in Importers |-> NoImport]
  /\ inst = NoRow /\ sched = FALSE /\ installRuns = <<>> /\ installReq = [r \in InstallRequests |-> NoRequest]
  /\ ready = TRUE

-----------------------------------------------------------------------------
(* The catalogue: upsert_manifest looks the version up, then inserts it. *)

upsert_manifest(i) ==
  /\ imp[i].pc = "idle"
  /\ \E v \in Versions, m \in Perms :
       \* another manifest under a stored version is AGENT_VERSION_IMMUTABLE, the same one is a no-op
       /\ catalog[v] = "none"
       /\ imp' = [imp EXCEPT ![i] = [pc |-> "insert", version |-> v, perms |-> m]]
  /\ UNCHANGED <<catalog, inst, sched, installRuns, installReq, ready>>

\* With the mistake that the insert replaces a version stored in between.
InsertVersion_Upsert(i) ==
  /\ imp[i].pc = "insert" /\ imp' = [imp EXCEPT ![i] = NoImport]
  /\ catalog' = [catalog EXCEPT ![imp[i].version] = imp[i].perms]
  /\ UNCHANGED <<inst, sched, installRuns, installReq, ready>>

\* The unique constraint on (agent_id, version) fails the second insert, and its import with it.
InsertVersion(i) ==
  /\ imp[i].pc = "insert" /\ imp' = [imp EXCEPT ![i] = NoImport]
  /\ catalog' = [catalog EXCEPT ![imp[i].version] = IF @ = "none" THEN imp[i].perms ELSE @]
  /\ UNCHANGED <<inst, sched, installRuns, installReq, ready>>

-----------------------------------------------------------------------------
(* The installation; each request is one transaction that locks the row. *)

create_installation ==
  /\ inst = NoRow
  /\ \E v \in Versions : /\ catalog[v] # "none"
       /\ inst' = [live |-> TRUE, version |-> v, approved |-> catalog[v], needs |-> FALSE,
                   enabled |-> TRUE, edits |-> 1]
  /\ UNCHANGED <<catalog, imp, sched, installRuns, installReq, ready>>

Edited(row) ==
  /\ inst.live /\ inst.edits < MaxEdits /\ inst' = [row EXCEPT !.edits = @ + 1]
  /\ UNCHANGED <<catalog, imp, sched, installRuns, installReq, ready>>

\* With the mistake that a version with other permissions runs under the old approval.
update_version_Silent ==
  \E v \in Versions \ {inst.version} : catalog[v] # "none" /\ Edited([inst EXCEPT !.version = v])

\* PATCH with a new agentVersion: other permissions ask for approval again.  The flag is only set here.
update_version ==
  \E v \in Versions \ {inst.version} : /\ catalog[v] # "none"
    /\ Edited([inst EXCEPT !.version = v, !.needs = @ \/ inst.approved # catalog[v]])

\* PATCH with approvedPermissions: accepted when they are exactly those requested.
update_approval ==
  inst.live /\ Edited([inst EXCEPT !.approved = catalog[inst.version], !.needs = FALSE])

update_enabled == \E on \in BOOLEAN \ {inst.enabled} : Edited([inst EXCEPT !.enabled = on])

ActiveRuns == {i \in DOMAIN installRuns : installRuns[i].state \in Active}

\* Refused (INSTALLATION_IN_USE) while a run is active; the schedules are deleted too.
delete_installation ==
  /\ inst.live /\ ActiveRuns = {}
  /\ inst' = [inst EXCEPT !.live = FALSE, !.enabled = FALSE] /\ sched' = FALSE
  /\ UNCHANGED <<catalog, imp, installRuns, installReq, ready>>

-----------------------------------------------------------------------------
(* Requests that read the installation first. *)

Readiness == inst.enabled /\ ~inst.needs /\ ready

\* create_run, start_agent_run and retry read the row and the readiness; create_schedule the row.
ReadInstallation(r) ==
  /\ installReq[r].pc = "idle" /\ inst.live
  /\ \E kind \in {"run", "retry", "schedule"} :
       /\ kind = "schedule" \/ Readiness
       /\ installReq' = [installReq EXCEPT ![r] = [pc |-> "commit", kind |-> kind, version |-> inst.version,
                                     perms |-> inst.approved]]
  /\ UNCHANGED <<catalog, imp, inst, sched, installRuns, ready>>

NewRun(version, perms) == Append(installRuns, [version |-> version, perms |-> perms, state |-> "QUEUED"])

CommitRun(r) ==
  /\ installReq[r].pc = "commit" /\ installReq[r].kind = "run" /\ Len(installRuns) < MaxCreated
  /\ installRuns' = NewRun(installReq[r].version, installReq[r].perms) /\ installReq' = [installReq EXCEPT ![r] = NoRequest]
  /\ UNCHANGED <<catalog, imp, inst, sched, ready>>

\* service.retry under the run's lock: the run keeps the version and permissions it was created with.
CommitRetry(r) ==
  /\ installReq[r].pc = "commit" /\ installReq[r].kind = "retry"
  /\ installReq' = [installReq EXCEPT ![r] = NoRequest]
  /\ \/ \E i \in DOMAIN installRuns : installRuns[i].state = "FAILED" /\ installRuns' = [installRuns EXCEPT ![i].state = "QUEUED"]
     \/ (\A i \in DOMAIN installRuns : installRuns[i].state # "FAILED") /\ UNCHANGED installRuns
  /\ UNCHANGED <<catalog, imp, inst, sched, ready>>

CommitSchedule(r) ==
  /\ installReq[r].pc = "commit" /\ installReq[r].kind = "schedule"
  /\ sched' = TRUE /\ installReq' = [installReq EXCEPT ![r] = NoRequest]
  /\ UNCHANGED <<catalog, imp, inst, installRuns, ready>>

\* The tick of the scheduler: its own look at the row, without the other checks.
_fire ==
  /\ sched /\ inst.live /\ inst.enabled /\ ~inst.needs /\ Len(installRuns) < MaxCreated
  /\ installRuns' = NewRun(inst.version, inst.approved)
  /\ UNCHANGED <<catalog, imp, inst, sched, installReq, ready>>

InstallRunEnds ==
  /\ \E i \in ActiveRuns, s \in {"FAILED", "SUCCEEDED"} : installRuns' = [installRuns EXCEPT ![i].state = s]
  /\ UNCHANGED <<catalog, imp, inst, sched, installReq, ready>>

Unready == ready' = ~ready /\ UNCHANGED <<catalog, imp, inst, sched, installRuns, installReq>>

InstallNext ==
  \/ \E i \in Importers : upsert_manifest(i) \/ InsertVersion(i)
  \/ create_installation \/ update_version \/ update_approval \/ update_enabled
  \/ delete_installation \/ _fire \/ InstallRunEnds \/ Unready
  \/ \E r \in InstallRequests : ReadInstallation(r) \/ CommitRun(r) \/ CommitRetry(r) \/ CommitSchedule(r)

InstallSpec == InstallInit /\ [][InstallNext]_installVars

-----------------------------------------------------------------------------

\* Every run, manual or scheduled, carries exactly the permissions that its version's manifest
\* requests and the owner approved, whatever was imported, upgraded and approved between the read
\* and the insert ("Approve exactly the permissions this agent version requests").
RunsAsApproved == \A i \in DOMAIN installRuns : installRuns[i].perms = catalog[installRuns[i].version]

\* A stored version never changes, although imports check before they insert ("Versions are
\* immutable", catalog.py).
VersionsImmutable == \A v \in Versions : catalog[v] # "none" => catalog'[v] = catalog[v]
=============================================================================
