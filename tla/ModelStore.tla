----------------------------- MODULE ModelStore -----------------------------
(***************************************************************************)
(* The files of one model: the daemon's download store (downloads.py), the *)
(* engine's start and delete (engine.py), and the gateway's installation   *)
(* row that mirrors the daemon (manager.py).                               *)
(*                                                                         *)
(* Installed files, staged files and the state file live on disk and       *)
(* survive a restart of the daemon.  The download thread, a cancel request *)
(* and a delete request run in threads of their own; only the start of a   *)
(* download and its end take the store's lock.                             *)
(***************************************************************************)
EXTENDS Naturals

CONSTANTS
  StoreFaults \* a subset of FaultKinds

VARIABLES
  target,  \* models/<id>/<revision>: none, complete, only the manifest left, or no manifest
  staging, \* models/.staging/<id>-<revision>
  storeFile, \* "state" in the state file
  thread,  \* the download thread
  cancel,  \* its cancel event
  can,     \* a cancel request
  del,     \* a delete request
  storeRow, \* the gateway's model_installations.state
  mirror,  \* a state read from the daemon and not yet written to the row
  load     \* a load of the model: none, leased (resident), starting, serving

storeVars == <<target, staging, storeFile, thread, cancel, can, del, storeRow, mirror, load>>

StoreIdle == [pc |-> "none", held |-> "absent"]

StoreInit ==
  /\ target = "none" /\ staging = "none" /\ storeFile = "absent"
  /\ thread = StoreIdle /\ cancel = FALSE /\ can = "none" /\ del = "none"
  /\ storeRow = "NOT_INSTALLED" /\ mirror = "none" /\ load = "none"

-----------------------------------------------------------------------------
HasManifest == target \in {"complete", "only_manifest"}

state_NoInterruption ==
  IF HasManifest /\ storeFile # "DELETING" THEN "INSTALLED"
  ELSE IF ~HasManifest /\ storeFile \in {"absent", "INSTALLED"} THEN "NOT_INSTALLED"
  ELSE storeFile

state_ManifestWins ==
  IF HasManifest THEN "INSTALLED"
  ELSE IF storeFile \in {"absent", "INSTALLED"} THEN "NOT_INSTALLED"
  ELSE IF storeFile = "DOWNLOADING" /\ thread = StoreIdle THEN "DOWNLOAD_ERROR"
  ELSE storeFile

\* ModelStore.state: what the daemon reports, from the manifest, the state file and the thread.
state ==
  IF HasManifest /\ storeFile # "DELETING" THEN "INSTALLED"
  ELSE IF ~HasManifest /\ storeFile \in {"absent", "INSTALLED"} THEN "NOT_INSTALLED"
  ELSE IF storeFile = "DOWNLOADING" /\ thread = StoreIdle THEN "DOWNLOAD_ERROR"
  ELSE storeFile

StoreAt(pc) == thread.pc = pc
Go(pc) == thread' = [thread EXCEPT !.pc = pc]

\* The owner asks for a download: gateway install, then start_install under the lock.
start_install ==
  /\ state # "INSTALLED" /\ thread = StoreIdle /\ mirror = "none"
  /\ "overlap" \in StoreFaults \/ (del = "none" /\ can = "none")
  /\ storeFile' = "DOWNLOADING" /\ cancel' = FALSE /\ mirror' = "DOWNLOADING"
  /\ Go("plan")
  /\ UNCHANGED <<target, staging, can, del, storeRow, load>>

\* _plan, the disk check and the first state of the download; staged files are kept.
Plan ==
  /\ StoreAt("plan")
  /\ \/ Go("fetch") /\ storeFile' = "DOWNLOADING"
        /\ staging' = IF staging = "none" THEN "partial" ELSE staging
     \/ "error" \in StoreFaults /\ Go("failed") /\ UNCHANGED <<staging, storeFile>>
  /\ UNCHANGED <<target, cancel, can, del, storeRow, mirror, load>>

\* One more file or chunk.  A staging directory that was removed meanwhile is created again
\* for the next file, without the files fetched before.
Fetch ==
  /\ StoreAt("fetch")
  /\ \/ cancel /\ Go("failed") /\ UNCHANGED staging
     \/ "error" \in StoreFaults /\ Go("failed") /\ UNCHANGED staging
     \/ ~cancel /\ thread' = [pc |-> "progress", held |-> storeFile]
        /\ staging' = IF staging = "none" THEN "torn" ELSE staging
     \/ ~cancel /\ Go("last")
        /\ staging' = IF staging = "none" THEN "torn" ELSE IF staging = "partial" THEN "complete" ELSE staging
  /\ UNCHANGED <<target, storeFile, cancel, can, del, storeRow, mirror, load>>

\* _write_state reads the file and writes it back with the new progress, without a lock.
Progress ==
  /\ StoreAt("progress") /\ thread' = [pc |-> "fetch", held |-> "absent"]
  /\ storeFile' = thread.held
  /\ UNCHANGED <<target, staging, cancel, can, del, storeRow, mirror, load>>

\* The last file is hashed without a look at the cancel event; a mismatch removes it.
StoreVerify ==
  /\ StoreAt("last")
  /\ \/ Go("manifest") /\ UNCHANGED staging
     \/ "error" \in StoreFaults /\ Go("failed") /\ staging' = IF staging = "complete" THEN "partial" ELSE staging
  /\ UNCHANGED <<target, storeFile, cancel, can, del, storeRow, mirror, load>>

\* The manifest is written into the staging directory, if that is still there.
WriteManifest ==
  /\ StoreAt("manifest")
  /\ Go(IF staging = "none" THEN "failed" ELSE "rename")
  /\ UNCHANGED <<target, staging, storeFile, cancel, can, del, storeRow, mirror, load>>

\* The old target is removed and the staging directory renamed to it.
StorePublish ==
  /\ StoreAt("rename")
  /\ IF staging = "none" THEN Go("failed") /\ target' = "none" /\ UNCHANGED staging
     ELSE /\ Go("installed") /\ staging' = "none"
          /\ target' = IF staging = "complete" THEN "complete" ELSE "only_manifest"
  /\ UNCHANGED <<storeFile, cancel, can, del, storeRow, mirror, load>>

WriteInstalled ==
  /\ StoreAt("installed") /\ Go("end") /\ storeFile' = "INSTALLED"
  /\ UNCHANGED <<target, staging, cancel, can, del, storeRow, mirror, load>>

WriteError ==
  /\ StoreAt("failed") /\ Go("end") /\ storeFile' = "DOWNLOAD_ERROR"
  /\ UNCHANGED <<target, staging, cancel, can, del, storeRow, mirror, load>>

ThreadEnds ==
  /\ StoreAt("end") /\ thread' = StoreIdle /\ cancel' = FALSE
  /\ UNCHANGED <<target, staging, storeFile, can, del, storeRow, mirror, load>>

-----------------------------------------------------------------------------
(* cancel_install: set the event, join the thread for 30 s, clear. *)

CancelInstall ==
  /\ can = "none" /\ ("overlap" \in StoreFaults \/ del = "none")
  /\ cancel' = (thread # StoreIdle)
  /\ can' = "join"
  /\ UNCHANGED <<target, staging, storeFile, thread, del, storeRow, mirror, load>>

Joined(clear) ==
  /\ can = "join" /\ mirror = "none"
  /\ thread = StoreIdle \/ "slow_join" \in StoreFaults
  /\ can' = IF clear THEN "clear" ELSE "none"
  /\ mirror' = IF clear THEN "none" ELSE state
  /\ UNCHANGED <<target, staging, storeFile, thread, cancel, del, storeRow, load>>

\* rmtree follows the open directory: what was published meanwhile loses its files.
ClearStaging ==
  /\ can = "clear" /\ can' = "clear_state"
  /\ \/ staging' = "none" /\ UNCHANGED target
     \/ /\ StoreAt("rename") /\ staging # "none" /\ staging' = "torn" /\ UNCHANGED target
  /\ UNCHANGED <<storeFile, thread, cancel, del, storeRow, mirror, load>>

ClearState ==
  /\ can = "clear_state" /\ mirror = "none" /\ can' = "none"
  /\ storeFile' = "NOT_INSTALLED"
  /\ mirror' = IF HasManifest THEN "INSTALLED" ELSE "NOT_INSTALLED"
  /\ UNCHANGED <<target, staging, thread, cancel, del, storeRow, load>>

-----------------------------------------------------------------------------
(* delete_files: the gateway looks at its row, the engine for a container, the *)
(* store for a thread, all without a lock.                                     *)

DeleteFiles ==
  /\ del = "none" /\ load = "none" /\ thread = StoreIdle /\ mirror = "none"
  /\ "overlap" \in StoreFaults \/ can = "none"
  /\ del' = "mark"
  /\ UNCHANGED <<target, staging, storeFile, thread, cancel, can, storeRow, mirror, load>>

MarkDeleting ==
  /\ del = "mark" /\ del' = "target" /\ storeFile' = "DELETING"
  /\ UNCHANGED <<target, staging, thread, cancel, can, storeRow, mirror, load>>

\* rmtree of the target, in any order of its files, then of the staging directory.
RemoveSome ==
  /\ del = "target" /\ del' = "target_rest"
  /\ target' \in IF target = "complete" THEN {"only_manifest", "no_manifest"} ELSE {target}
  /\ UNCHANGED <<staging, storeFile, thread, cancel, can, storeRow, mirror, load>>

RemoveRest ==
  /\ del = "target_rest" /\ del' = "staging" /\ target' = "none"
  /\ UNCHANGED <<staging, storeFile, thread, cancel, can, storeRow, mirror, load>>

RemoveStaging ==
  /\ del = "staging" /\ del' = "finish" /\ staging' = "none"
  /\ UNCHANGED <<target, storeFile, thread, cancel, can, storeRow, mirror, load>>

Deleted ==
  /\ del = "finish" /\ mirror = "none" /\ del' = "none" /\ storeFile' = "NOT_INSTALLED"
  /\ mirror' = IF HasManifest THEN "INSTALLED" ELSE "NOT_INSTALLED"
  /\ UNCHANGED <<target, staging, thread, cancel, can, storeRow, load>>

-----------------------------------------------------------------------------
(* The gateway's mirror, and a load that uses the files. *)

\* _refresh_downloads: read the daemon's state while the row says DOWNLOADING.
ReadState ==
  /\ storeRow = "DOWNLOADING" /\ mirror = "none"
  /\ mirror' = state
  /\ UNCHANGED <<target, staging, storeFile, thread, cancel, can, del, storeRow, load>>

refresh_installation ==
  /\ mirror # "none" /\ storeRow' = mirror /\ mirror' = "none"
  /\ UNCHANGED <<target, staging, storeFile, thread, cancel, can, del, load>>

\* acquire makes the instance resident when the row says INSTALLED.
Lease ==
  /\ load = "none" /\ storeRow = "INSTALLED" /\ load' = "leased"
  /\ UNCHANGED <<target, staging, storeFile, thread, cancel, can, del, storeRow, mirror>>

\* start_model asks the store before it takes the model's lock and creates the container.
StartChecked ==
  /\ load = "leased" /\ load' = IF state = "INSTALLED" THEN "starting" ELSE "none"
  /\ UNCHANGED <<target, staging, storeFile, thread, cancel, can, del, storeRow, mirror>>

ContainerCreated ==
  /\ load = "starting" /\ load' = "serving"
  /\ UNCHANGED <<target, staging, storeFile, thread, cancel, can, del, storeRow, mirror>>

Unloaded ==
  /\ load = "serving" /\ load' = "none"
  /\ UNCHANGED <<target, staging, storeFile, thread, cancel, can, del, storeRow, mirror>>

\* The daemon restarts: its threads are gone, the disk stays.
StoreRestart ==
  /\ \/ "restart" \in StoreFaults /\ del = "none"
     \/ "torn" \in StoreFaults
  /\ thread # StoreIdle \/ can # "none" \/ del # "none"
  /\ thread' = StoreIdle /\ cancel' = FALSE /\ can' = "none" /\ del' = "none"
  /\ UNCHANGED <<target, staging, storeFile, storeRow, mirror, load>>

Download ==
  \/ Plan \/ Fetch \/ Progress \/ StoreVerify \/ WriteManifest \/ StorePublish
  \/ WriteInstalled \/ WriteError \/ ThreadEnds
Cancelling == (\E clear \in BOOLEAN : Joined(clear)) \/ ClearStaging \/ ClearState
Deleting == MarkDeleting \/ RemoveSome \/ RemoveRest \/ RemoveStaging \/ Deleted
Mirroring == ReadState \/ refresh_installation
Loading == Lease \/ StartChecked \/ ContainerCreated \/ Unloaded

StoreNext ==
  \/ start_install \/ CancelInstall \/ DeleteFiles
  \/ Download \/ Cancelling \/ Deleting \/ Mirroring \/ Loading \/ StoreRestart

StoreSpec == StoreInit /\ [][StoreNext]_storeVars

-----------------------------------------------------------------------------
\* What the daemon reports as INSTALLED is all there, through failed, cancelled, resumed and
\* interrupted downloads: files are staged, verified, and published by one rename.
InstalledIsComplete == state = "INSTALLED" => target = "complete"

\* The gateway's row says DOWNLOADING when nothing is downloaded.  It does not stay so: failure,
\* cancellation, deletion and a restart of the daemon all reach it.
MirrorStale == storeRow = "DOWNLOADING" /\ thread = StoreIdle
=============================================================================
