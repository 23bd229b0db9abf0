------------------------------- MODULE Backups -------------------------------
(***************************************************************************)
(* Backups of a platform that keeps running: requests of the owner that    *)
(* become jobs, backups made on the device, the archive written from one   *)
(* database snapshot while documents come and go, retention, and the       *)
(* listing that merges jobs and files.                                     *)
(***************************************************************************)
EXTENDS Integers, FiniteSets

CONSTANTS BackupDocs, MaxName,
          Keep,            \* CQ_BACKUP_RETENTION
          BackupFaults     \* crash, lapse, pg, purge

Names == 1..MaxName        \* a name starts with the time of the request

VARIABLES backDoc,   \* each document: none, file, row, deleted, purged
          next,      \* the name of the next backup
          backJob,   \* the job of each name: none (also: made on the device), available, claimed, succeeded, dead
          backW,     \* the name the API's worker is busy with, 0 if none
          mk,        \* the writing of each archive
          archive,   \* the archives in the directory: what was dumped, the documents, those counted missing
          sidecar,   \* names with a manifest next to the archive
          scratch,   \* names whose .tmp- directory is left
          list       \* the listing: pc, the jobs it read, what it shows

backupVars == <<backDoc, next, backJob, backW, mk, archive, sidecar, scratch, list>>

BackupIdle == [pc |-> "idle", paths |-> {}, dump |-> {}, todo |-> {}, got |-> {}, old |-> {}]
BackupAt(n, pc) == mk[n].pc = pc
BackupGoto(n, pc) == mk' = [mk EXCEPT ![n].pc = pc]
Hidden == [n \in Names |-> "none"]
NoList == [pc |-> "idle", jobs |-> Hidden, shown |-> Hidden]
BackupLive(s) == s \in {"available", "claimed"}

BackupInit ==
  /\ backDoc = [d \in BackupDocs |-> "none"] /\ next = 1 /\ backJob = Hidden /\ backW = 0
  /\ mk = [n \in Names |-> BackupIdle] /\ archive = <<>> /\ sidecar = {} /\ scratch = {} /\ list = NoList

-----------------------------------------------------------------------------
(* The knowledge service: the bytes are moved, then the row is committed; the
   row is deleted, then the purge job removes the bytes. *)
BackupRows == {d \in BackupDocs : backDoc[d] = "row"}
Files == {d \in BackupDocs : backDoc[d] \in {"file", "row", "deleted"}}

Document(d) ==
  /\ \/ backDoc[d] = "none" /\ backDoc' = [backDoc EXCEPT ![d] = "file"]
     \/ backDoc[d] = "file" /\ backDoc' = [backDoc EXCEPT ![d] = "row"]
     \/ backDoc[d] = "row" /\ backDoc' = [backDoc EXCEPT ![d] = "deleted"]
     \/ "purge" \in BackupFaults /\ backDoc[d] = "deleted" /\ backDoc' = [backDoc EXCEPT ![d] = "purged"]
  /\ UNCHANGED <<next, backJob, backW, mk, archive, sidecar, scratch, list>>

-----------------------------------------------------------------------------
(* POST /system/backups: refused while a job is live. *)
backup_enqueue ==
  /\ next <= MaxName /\ \A n \in Names : ~BackupLive(backJob[n])
  /\ backJob' = [backJob EXCEPT ![next] = "available"] /\ next' = next + 1
  /\ UNCHANGED <<backDoc, backW, mk, archive, sidecar, scratch, list>>

(* crewquarters backup create, in a process of its own. *)
backup_create ==
  /\ next <= MaxName /\ next' = next + 1 /\ BackupGoto(next, "start")
  /\ UNCHANGED <<backDoc, backJob, backW, archive, sidecar, scratch, list>>

backup_claim(n) ==
  /\ backW = 0 /\ backJob[n] = "available" /\ backJob' = [backJob EXCEPT ![n] = "claimed"]
  /\ backW' = n /\ BackupGoto(n, "start")
  /\ UNCHANGED <<backDoc, next, archive, sidecar, scratch, list>>

(* reap_expired with max_attempts = 1. A live worker extends its lease, unless
   its heartbeat has failed: nothing restarts that task. *)
reap_Again(n) ==
  /\ backJob[n] = "claimed" /\ (backW # n \/ "lapse" \in BackupFaults)
  /\ backJob' = [backJob EXCEPT ![n] = "available"]
  /\ UNCHANGED <<backDoc, next, backW, mk, archive, sidecar, scratch, list>>

backup_reap(n) ==
  /\ backJob[n] = "claimed" /\ (backW # n \/ "lapse" \in BackupFaults)
  /\ backJob' = [backJob EXCEPT ![n] = "dead"]
  /\ UNCHANGED <<backDoc, next, backW, mk, archive, sidecar, scratch, list>>

-----------------------------------------------------------------------------
(* create_backup. *)

(* The snapshot is exported and the paths are read in it. *)
Snapshot(n) ==
  /\ BackupAt(n, "start") /\ scratch' = scratch \cup {n}
  /\ mk' = [mk EXCEPT ![n] = [@ EXCEPT !.pc = "dump", !.paths = BackupRows, !.dump = BackupRows, !.todo = BackupRows]]
  /\ UNCHANGED <<backDoc, next, backJob, backW, archive, sidecar, list>>

(* pg_dump --snapshot. *)
Dump_Now(n) ==
  /\ BackupAt(n, "dump") /\ mk' = [mk EXCEPT ![n].pc = "tar", ![n].dump = BackupRows]
  /\ UNCHANGED <<backDoc, next, backJob, backW, archive, sidecar, scratch, list>>

Dump(n) ==
  /\ BackupAt(n, "dump") /\ BackupGoto(n, "tar")
  /\ UNCHANGED <<backDoc, next, backJob, backW, archive, sidecar, scratch, list>>

(* _tar_documents, for each path: is it a file, and then read it. *)
IsFile(n, d) ==
  /\ BackupAt(n, "tar") /\ d \in mk[n].todo
  /\ IF d \in Files THEN BackupGoto(n, d) ELSE mk' = [mk EXCEPT ![n].todo = @ \ {d}]
  /\ UNCHANGED <<backDoc, next, backJob, backW, archive, sidecar, scratch, list>>

(* The end of a backup that fails: the scratch directory goes, the job is dead
   unless the reaper has already said so. *)
Fail(n) ==
  /\ mk' = [mk EXCEPT ![n] = [BackupIdle EXCEPT !.pc = "failed"]] /\ scratch' = scratch \ {n}
  /\ backW' = IF backW = n THEN 0 ELSE backW
  /\ backJob' = IF backW = n /\ backJob[n] = "claimed" THEN [backJob EXCEPT ![n] = "dead"] ELSE backJob
  /\ UNCHANGED <<backDoc, next, archive, sidecar, list>>

AddFile(n, d) ==
  /\ BackupAt(n, d) /\ d \in Files
  /\ mk' = [mk EXCEPT ![n].pc = "tar", ![n].todo = @ \ {d}, ![n].got = @ \cup {d}]
  /\ UNCHANGED <<backDoc, next, backJob, backW, archive, sidecar, scratch, list>>

FileGone(n, d) == BackupAt(n, d) /\ d \notin Files /\ Fail(n)

PgError(n) == "pg" \in BackupFaults /\ (BackupAt(n, "start") \/ BackupAt(n, "dump")) /\ Fail(n)

WriteSidecar_Late(n) ==
  /\ BackupAt(n, "tar") /\ mk[n].todo = {} /\ BackupGoto(n, "publish")
  /\ UNCHANGED <<backDoc, next, backJob, backW, archive, sidecar, scratch, list>>

WriteSidecar(n) ==
  /\ BackupAt(n, "tar") /\ mk[n].todo = {} /\ sidecar' = sidecar \cup {n} /\ BackupGoto(n, "publish")
  /\ UNCHANGED <<backDoc, next, backJob, backW, archive, scratch, list>>

(* partial.replace(final), and the scratch directory goes. *)
BackupPublish(n) ==
  /\ BackupAt(n, "publish") /\ scratch' = scratch \ {n}
  /\ archive' = [m \in DOMAIN archive \cup {n} |->
       IF m # n THEN archive[m]
       ELSE [dump |-> mk[n].dump, docs |-> mk[n].got, missing |-> mk[n].paths \ mk[n].got]]
  /\ mk' = [mk EXCEPT ![n] = [BackupIdle EXCEPT !.pc = "prune"]]
  /\ UNCHANGED <<backDoc, next, backJob, backW, sidecar, list>>

-----------------------------------------------------------------------------
(* prune. *)

Newer(n, dir) == {m \in dir : m > n}

(* The listing, newest name first, without the first Keep. *)
Old_OffByOne(dir) == {n \in dir : Cardinality(Newer(n, dir)) >= Keep - 1}
Old(dir) == {n \in dir : Cardinality(Newer(n, dir)) >= Keep}

prune(n) ==
  /\ BackupAt(n, "prune")
  /\ mk' = [mk EXCEPT ![n].pc = "unlink", ![n].old = Old(DOMAIN archive)]
  /\ UNCHANGED <<backDoc, next, backJob, backW, archive, sidecar, scratch, list>>

(* On the device only --retention prunes; the model takes its number to be Keep. *)
NoRetention(n) ==
  /\ BackupAt(n, "prune") /\ backJob[n] = "none" /\ BackupGoto(n, "done")
  /\ UNCHANGED <<backDoc, next, backJob, backW, archive, sidecar, scratch, list>>

(* Newest of the old ones first; the archive and then its sidecar. *)
Target(n) == CHOOSE m \in mk[n].old : \A k \in mk[n].old : k <= m

Unlink(n) ==
  /\ BackupAt(n, "unlink") /\ mk[n].old # {} /\ BackupGoto(n, "unlink_sidecar")
  /\ archive' = [m \in DOMAIN archive \ {Target(n)} |-> archive[m]]
  /\ UNCHANGED <<backDoc, next, backJob, backW, sidecar, scratch, list>>

UnlinkSidecar(n) ==
  /\ BackupAt(n, "unlink_sidecar") /\ sidecar' = sidecar \ {Target(n)}
  /\ mk' = [mk EXCEPT ![n].pc = "unlink", ![n].old = @ \ {Target(n)}]
  /\ UNCHANGED <<backDoc, next, backJob, backW, archive, scratch, list>>

(* complete, refused once the reaper has ended the job. *)
Done(n) ==
  /\ BackupAt(n, "unlink") /\ mk[n].old = {} /\ BackupGoto(n, "done") /\ backW' = IF backW = n THEN 0 ELSE backW
  /\ backJob' = IF backW = n /\ backJob[n] = "claimed" THEN [backJob EXCEPT ![n] = "succeeded"] ELSE backJob
  /\ UNCHANGED <<backDoc, next, archive, sidecar, scratch, list>>

(* The API's process dies and starts again. The scratch directory is younger
   than an hour and stays. *)
BackupCrash ==
  /\ "crash" \in BackupFaults /\ backW # 0 /\ backW' = 0 /\ mk' = [mk EXCEPT ![backW] = [BackupIdle EXCEPT !.pc = "failed"]]
  /\ list' = NoList /\ UNCHANGED <<backDoc, next, backJob, archive, sidecar, scratch>>

-----------------------------------------------------------------------------
(* GET /system/backups: the jobs, and then the files in a thread. *)
ReadJobs ==
  /\ list.pc = "idle" /\ list' = [NoList EXCEPT !.pc = "files", !.jobs = backJob]
  /\ UNCHANGED <<backDoc, next, backJob, backW, mk, archive, sidecar, scratch>>

Status(s) == CASE s = "available" -> "queued" [] s = "claimed" -> "running"
               [] s = "succeeded" -> "succeeded" [] s = "dead" -> "failed" [] OTHER -> "none"

Merge_JobWins(jobs, dir) ==
  [n \in Names |-> IF n \in dir /\ jobs[n] = "none" THEN "succeeded"
                   ELSE IF jobs[n] = "succeeded" /\ n \notin dir THEN "none" ELSE Status(jobs[n])]

Merge(jobs, dir) ==
  [n \in Names |-> IF n \in dir THEN "succeeded"
                   ELSE IF jobs[n] = "succeeded" THEN "none" ELSE Status(jobs[n])]

list_backups ==
  /\ list.pc = "files"
  /\ list' = [pc |-> "shown", jobs |-> list.jobs, shown |-> Merge(list.jobs, DOMAIN archive)]
  /\ UNCHANGED <<backDoc, next, backJob, backW, mk, archive, sidecar, scratch>>

Read ==
  /\ list.pc = "shown" /\ list' = NoList
  /\ UNCHANGED <<backDoc, next, backJob, backW, mk, archive, sidecar, scratch>>

-----------------------------------------------------------------------------
Write(n) ==
  \/ Snapshot(n) \/ Dump(n) \/ WriteSidecar(n) \/ BackupPublish(n) \/ PgError(n)
  \/ prune(n) \/ NoRetention(n) \/ Unlink(n) \/ UnlinkSidecar(n) \/ Done(n)
  \/ \E d \in BackupDocs : IsFile(n, d) \/ AddFile(n, d) \/ FileGone(n, d)

BackupNext ==
  \/ \E d \in BackupDocs : Document(d)
  \/ backup_enqueue \/ backup_create \/ BackupCrash
  \/ \E n \in Names : backup_claim(n) \/ backup_reap(n) \/ Write(n)
  \/ ReadJobs \/ list_backups \/ Read

BackupSpec == BackupInit /\ [][BackupNext]_backupVars

-----------------------------------------------------------------------------
(* An archive is one state of the platform: each dumped row's document is in it or
   counted as missing, nothing else is, and what is missing was deleted by its
   owner since. *)
OneSnapshot ==
  \A n \in DOMAIN archive :
    /\ archive[n].docs \cup archive[n].missing = archive[n].dump
    /\ archive[n].missing \cap BackupRows = {}

(* The listing finds a manifest for each archive, also while backups are written
   and pruned: the sidecar is first to come and last to go. *)
ManifestForEach == DOMAIN archive \subseteq sidecar

(* Retention never deletes an archive unless Keep newer ones remain, also when two
   backups prune at once. *)
KeepsNewest ==
  \A n \in DOMAIN archive \ DOMAIN archive' : Cardinality(Newer(n, DOMAIN archive')) >= Keep

(* A request of the owner that has not ended.  Each ends, so that the next one is not refused for
   ever: a worker that dies leaves its job to the reaper. *)
Requested(n) == BackupLive(backJob[n])

(* A backup that is in the directory is shown as succeeded whatever its job said a
   moment before or says after a crash, and one that is queued or running is shown. *)
ShownAsIs ==
  list.pc = "files" /\ list'.pc = "shown" =>
    \A n \in Names : /\ (n \in DOMAIN archive) = (list'.shown[n] = "succeeded")
                     /\ BackupLive(backJob[n]) /\ list.jobs[n] # "none" => list'.shown[n] # "none"
=============================================================================
