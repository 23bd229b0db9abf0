--------------------------- MODULE StorageProofs ----------------------------
(***************************************************************************)
(* Proofs about what the platform stores: the documents of knowledge       *)
(* bases, the backups of a device and what a restore makes of them.        *)
(***************************************************************************)
EXTENDS Backups, KnowledgeIngest, Restore, Sequences, TLAPS

-----------------------------------------------------------------------------
(* Backups: what is in the archives and which of them stay.                *)

BackupStages == {"idle", "start", "dump", "tar", "publish", "prune", "unlink", "unlink_sidecar", "done", "failed"}
BackupPast == {"prune", "unlink", "unlink_sidecar", "done", "failed"}
BackupWriting == {"dump", "tar", "publish"} \cup BackupDocs

BackupJobs == {"none", "available", "claimed", "succeeded", "dead"}

BackupParameters == MaxName \in Nat /\ Keep \in Nat /\ BackupDocs \cap BackupStages = {}

(* Counting names.  The proofs in this module take this as given; BackupCounts in
   PlatformProofs shows it. *)
BackupSizes ==
  /\ \A n \in Nat : \A T \in SUBSET (0..n) : T # {} => \E x \in T : \A y \in T : y <= x
  /\ \A S \in SUBSET Names : Cardinality(S) \in Nat /\ \A T \in SUBSET S : Cardinality(T) <= Cardinality(S)

BackupGiven == BackupParameters /\ BackupSizes

BackupTypes ==
  /\ DOMAIN backDoc = BackupDocs /\ next \in Nat \ {0} /\ DOMAIN backJob = Names /\ backW \in Names \cup {0}
  /\ DOMAIN mk = Names /\ (backW # 0 => mk[backW].pc # "idle")
  /\ \A n \in Names : DOMAIN mk[n] = {"pc", "paths", "dump", "todo", "got", "old"}
  /\ DOMAIN archive \subseteq Names /\ \A n \in Names : backJob[n] \in BackupJobs

(* A name is given once, so an archive that is gone does not come back. *)
BackupName(n) ==
  /\ n >= next => backJob[n] = "none" /\ mk[n].pc = "idle"
  /\ backJob[n] = "available" => mk[n].pc = "idle"
  /\ n \in DOMAIN archive => mk[n].pc \in BackupPast
  /\ mk[n].pc = "publish" => n \in sidecar
  /\ mk[n].pc \in {"idle", "start"} => mk[n].got = {}

(* What is being written is of one snapshot: a document it has left out has
   been deleted and purged since. *)
BackupWrite(n) ==
  mk[n].pc \in BackupWriting =>
    /\ mk[n].dump = mk[n].paths /\ mk[n].todo \subseteq mk[n].paths /\ mk[n].got \subseteq mk[n].paths
    /\ \A d \in mk[n].paths : d \in BackupDocs /\ backDoc[d] \in {"row", "deleted", "purged"}
    /\ \A d \in mk[n].paths : d \in mk[n].todo \/ d \in mk[n].got \/ backDoc[d] = "purged"
    /\ mk[n].pc = "publish" => mk[n].todo = {}
    /\ mk[n].pc \in BackupDocs => mk[n].pc \in mk[n].todo

(* What a backup is going to remove was published, and enough newer archives
   than it remain, also after another backup has removed some of them. *)
BackupOld(n) ==
  /\ \A m \in mk[n].old : /\ m \in Names /\ mk[m].pc \in BackupPast
                          /\ Cardinality(Newer(m, DOMAIN archive)) >= Keep
  /\ mk[n].pc = "unlink_sidecar" => Target(n) \in mk[n].old /\ Target(n) \notin DOMAIN archive

BackupEach == \A n \in Names : BackupName(n) /\ BackupWrite(n) /\ BackupOld(n)

BackupArchives ==
  \A n \in DOMAIN archive : /\ archive[n].docs \cup archive[n].missing = archive[n].dump
                            /\ \A d \in archive[n].missing : d \in BackupDocs /\ backDoc[d] = "purged"

(* A listing knows of no success that was taken back. *)
BackupListed ==
  /\ DOMAIN list = {"pc", "jobs", "shown"}
  /\ list.pc = "files" =>
       \A n \in Names : list.jobs[n] \in BackupJobs /\ (list.jobs[n] = "succeeded" => backJob[n] = "succeeded")

BackupInv == BackupTypes /\ BackupEach /\ BackupArchives /\ BackupListed /\ ManifestForEach

LEMMA BackupStarts == ASSUME BackupGiven, BackupInit PROVE BackupInv
<1> USE DEF BackupInit, BackupIdle, Hidden, NoList
<1>1. BackupTypes
  BY DEF BackupTypes, BackupJobs, Names
<1>2. BackupEach
  <2> SUFFICES ASSUME NEW n \in Names PROVE BackupName(n) /\ BackupWrite(n) /\ BackupOld(n)
    BY Zenon DEF BackupEach
  <2>1. mk[n].pc = "idle" /\ mk[n].old = {} /\ mk[n].got = {} /\ backJob[n] = "none"
    BY Zenon
  <2>2. "idle" \notin BackupWriting
    BY Zenon DEF BackupGiven, BackupParameters, BackupWriting, BackupStages
  <2> QED BY <2>1, <2>2 DEF BackupName, BackupWrite, BackupOld, BackupPast
<1>3. BackupArchives /\ BackupListed /\ ManifestForEach
  BY DEF BackupArchives, BackupListed, ManifestForEach
<1> QED BY Zenon, <1>1, <1>2, <1>3 DEF BackupInv

(* Larger sets of archives have as many newer ones at least. *)
LEMMA BackupNewer ==
  ASSUME BackupGiven, NEW a, NEW b \in SUBSET Names, NEW m \in Names,
         \A x \in a : x > m => x \in b, a \subseteq Names,
         Cardinality(Newer(m, a)) >= Keep
  PROVE  Cardinality(Newer(m, b)) >= Keep
<1>1. Newer(m, a) \subseteq Newer(m, b) /\ Newer(m, b) \subseteq Names
  BY Zenon DEF Newer
<1>2. /\ Cardinality(Newer(m, a)) <= Cardinality(Newer(m, b))
      /\ Cardinality(Newer(m, a)) \in Nat /\ Cardinality(Newer(m, b)) \in Nat
  BY Zenon, <1>1 DEF BackupGiven, BackupSizes
<1> QED BY <1>2 DEF BackupGiven, BackupParameters

(* A step of one writer that leaves the archives as they are. *)
LEMMA BackupWriter ==
  ASSUME BackupGiven, BackupInv, NEW n \in Names, UNCHANGED <<backDoc, next, archive>>,
         DOMAIN mk' = Names, \A m \in Names : m # n => mk'[m] = mk[m],
         DOMAIN mk'[n] = {"pc", "paths", "dump", "todo", "got", "old"},
         mk[n].pc # "idle", mk[n].pc \in BackupPast => mk'[n].pc \in BackupPast,
         DOMAIN backJob' = Names, backW' \in {0, backW},
         \A m \in Names : backJob'[m] = backJob[m] \/ (backJob[m] = "claimed" /\ backJob'[m] \in {"succeeded", "dead"}),
         \A m \in Names : m \in sidecar => m \in sidecar' \/ (m \notin DOMAIN archive /\ mk[m].pc \in BackupPast),
         mk'[n].pc = "publish" => n \in sidecar', mk'[n].pc \notin {"idle", "start"}, BackupWrite(n)',
         \A m \in mk'[n].old : /\ m \in Names /\ mk[m].pc \in BackupPast
                               /\ Cardinality(Newer(m, DOMAIN archive)) >= Keep,
         mk'[n].pc = "unlink_sidecar" => Target(n)' \in mk'[n].old /\ Target(n)' \notin DOMAIN archive,
         UNCHANGED list \/ list' = NoList
  PROVE  BackupInv'
<1>0. BackupTypes /\ BackupEach /\ BackupArchives /\ BackupListed /\ ManifestForEach
  BY Zenon DEF BackupInv
<1>1. BackupTypes'
  BY Zenon, <1>0 DEF BackupTypes, BackupJobs, Names
<1>2. \A m \in Names : mk[m].pc \in BackupPast => mk'[m].pc \in BackupPast
  BY Zenon
<1>3. ASSUME NEW m \in Names PROVE BackupName(m)'
  <2>1. BackupName(m) /\ BackupName(n)
    BY Zenon, <1>0 DEF BackupEach
  <2>2. backJob'[m] = "available" => backJob[m] = "available"
    BY Zenon
  <2>3. backJob[m] = "none" => backJob'[m] = "none"
    BY Zenon
  <2>4. CASE m = n
    BY Zenon, <1>2, <2>1, <2>2, <2>3, <2>4 DEF BackupName
  <2>5. CASE m # n
    <3>1. mk'[m] = mk[m]
      BY Zenon, <2>5
    <3>2. mk[m].pc = "publish" => mk[m].pc \notin BackupPast
      BY Zenon DEF BackupPast
    <3> QED BY Zenon, <2>1, <2>2, <2>3, <3>1, <3>2 DEF BackupName
  <2> QED BY Zenon, <2>4, <2>5
<1>4. ASSUME NEW m \in Names PROVE BackupWrite(m)' /\ BackupOld(m)'
  <2>1. CASE m = n
    BY Zenon, <1>2, <2>1 DEF BackupOld
  <2>2. CASE m # n
    <3>1. mk'[m] = mk[m] /\ BackupWrite(m) /\ BackupOld(m)
      BY Zenon, <1>0, <2>2 DEF BackupEach
    <3>2. Target(m)' = Target(m)
      BY Zenon, <3>1 DEF Target
    <3> QED BY <1>2, <3>1, <3>2 DEF BackupWrite, BackupOld
  <2> QED BY Zenon, <2>1, <2>2
<1>5. BackupEach'
  BY Zenon, <1>3, <1>4 DEF BackupEach, Names
<1>6. BackupArchives'
  BY Zenon, <1>0 DEF BackupArchives
<1>7. BackupListed'
  BY <1>0 DEF BackupListed, NoList, Names
<1>8. ManifestForEach'
  BY Zenon, <1>0 DEF ManifestForEach, BackupTypes
<1> QED BY Zenon, <1>1, <1>5, <1>6, <1>7, <1>8 DEF BackupInv

(* The archives grow: what is going to be removed is still followed by enough. *)
LEMMA BackupPublishKeeps ==
  ASSUME BackupGiven, BackupInv, NEW n \in Names, BackupPublish(n) PROVE BackupInv'
<1> USE DEF BackupAt, BackupGoto
<1>0. BackupTypes /\ BackupEach /\ BackupArchives /\ BackupListed /\ ManifestForEach
  BY Zenon DEF BackupInv
<1>1. /\ DOMAIN mk' = Names /\ \A m \in Names : m # n => mk'[m] = mk[m]
      /\ DOMAIN mk'[n] = {"pc", "paths", "dump", "todo", "got", "old"}
      /\ mk'[n].pc = "prune" /\ mk'[n].old = {} /\ mk[n].pc = "publish"
  BY Zenon, <1>0 DEF BackupPublish, BackupTypes, BackupIdle
<1>2. /\ DOMAIN archive' = DOMAIN archive \cup {n} /\ \A m \in DOMAIN archive : m # n => archive'[m] = archive[m]
      /\ archive'[n].dump = mk[n].dump /\ archive'[n].docs = mk[n].got /\ archive'[n].missing = mk[n].paths \ mk[n].got
      /\ UNCHANGED <<backDoc, next, backJob, backW, sidecar, list>>
  BY Zenon DEF BackupPublish
<1>3. BackupTypes'
  BY Zenon, <1>0, <1>1, <1>2 DEF BackupTypes, Names
<1>4. BackupName(n) /\ BackupWrite(n) /\ n \in sidecar
  BY Zenon, <1>0, <1>1 DEF BackupEach, BackupName
<1>5. ASSUME NEW m \in Names PROVE BackupName(m)' /\ BackupWrite(m)' /\ BackupOld(m)'
  <2>1. CASE m = n
    <3>1. "prune" \notin BackupWriting
      BY Zenon DEF BackupGiven, BackupParameters, BackupWriting, BackupStages
    <3> QED BY Zenon, <1>1, <1>2, <1>4, <2>1, <3>1 DEF BackupName, BackupWrite, BackupOld, BackupPast
  <2>2. CASE m # n
    <3>1. mk'[m] = mk[m] /\ BackupName(m) /\ BackupWrite(m) /\ BackupOld(m)
      BY Zenon, <1>0, <1>1, <2>2 DEF BackupEach
    <3>2. Target(m)' = Target(m)
      BY Zenon, <3>1 DEF Target
    <3>3. ASSUME NEW k \in mk[m].old
          PROVE  /\ k \in Names /\ mk'[k].pc \in BackupPast /\ k # n
                 /\ Cardinality(Newer(k, DOMAIN archive')) >= Keep
      <4>1. k \in Names /\ mk[k].pc \in BackupPast /\ k # n /\ Cardinality(Newer(k, DOMAIN archive)) >= Keep
        BY Zenon, <1>1, <3>1 DEF BackupOld, BackupPast
      <4>2. DOMAIN archive' \subseteq Names /\ DOMAIN archive \subseteq Names
        BY Zenon, <1>0, <1>2 DEF BackupTypes
      <4>3. Cardinality(Newer(k, DOMAIN archive')) >= Keep
        BY Zenon, <1>2, <4>1, <4>2, BackupNewer
      <4> QED BY Zenon, <1>1, <4>1, <4>3
    <3> QED BY Zenon, <1>2, <2>2, <3>1, <3>2, <3>3 DEF BackupName, BackupWrite, BackupOld
  <2> QED BY Zenon, <2>1, <2>2
<1>6. BackupEach'
  BY Zenon, <1>5 DEF BackupEach, Names
<1>7. BackupArchives'
  <2> SUFFICES ASSUME NEW m \in DOMAIN archive'
               PROVE  /\ archive'[m].docs \cup archive'[m].missing = archive'[m].dump
                      /\ \A d \in archive'[m].missing : d \in BackupDocs /\ backDoc'[d] = "purged"
    BY Zenon DEF BackupArchives
  <2>1. CASE m = n
    <3>1. mk[n].pc \in BackupWriting
      BY Zenon, <1>1 DEF BackupWriting
    <3> QED BY Zenon, <1>1, <1>2, <1>4, <2>1, <3>1 DEF BackupWrite
  <2>2. CASE m # n
    BY Zenon, <1>0, <1>2, <2>2 DEF BackupArchives
  <2> QED BY Zenon, <2>1, <2>2
<1>8. BackupListed' /\ ManifestForEach'
  BY Zenon, <1>0, <1>2, <1>4 DEF BackupListed, ManifestForEach, Names
<1> QED BY Zenon, <1>3, <1>6, <1>7, <1>8 DEF BackupInv

(* An archive goes: those that are to go after it are older than it. *)
LEMMA BackupUnlink ==
  ASSUME BackupGiven, BackupInv, NEW n \in Names, Unlink(n)
  PROVE  BackupInv' /\ KeepsNewest
<1> USE DEF BackupAt, BackupGoto
<1> DEFINE t == Target(n)
<1>0. BackupTypes /\ BackupEach /\ BackupArchives /\ BackupListed /\ ManifestForEach
  BY Zenon DEF BackupInv
<1>1. /\ DOMAIN mk' = Names /\ \A m \in Names : m # n => mk'[m] = mk[m]
      /\ DOMAIN mk'[n] = {"pc", "paths", "dump", "todo", "got", "old"}
      /\ mk'[n].pc = "unlink_sidecar" /\ mk'[n].old = mk[n].old /\ mk[n].pc = "unlink" /\ mk[n].old # {}
  BY Zenon, <1>0 DEF Unlink, BackupTypes
<1>2. /\ DOMAIN archive' = DOMAIN archive \ {t} /\ \A m \in DOMAIN archive' : archive'[m] = archive[m]
      /\ UNCHANGED <<backDoc, next, backJob, backW, sidecar, list>>
  BY Zenon DEF Unlink
<1>3. /\ \A m \in Names : mk'[m].old = mk[m].old
      /\ \A m \in Names : mk[m].pc \in BackupPast => mk'[m].pc \in BackupPast
  BY Zenon, <1>1 DEF BackupPast
<1>4. BackupOld(n) /\ mk[n].old \subseteq Names
  BY Zenon, <1>0 DEF BackupEach, BackupOld
<1>5. t \in mk[n].old /\ \A k \in mk[n].old : k <= t
  <2>1. \E m \in mk[n].old : \A k \in mk[n].old : k <= m
    <3>1. mk[n].old \subseteq 0..MaxName /\ MaxName \in Nat
      BY <1>4 DEF Names, BackupGiven, BackupParameters
    <3> QED BY Zenon, <1>1, <3>1 DEF BackupGiven, BackupSizes
  <2> QED BY Zenon, <2>1 DEF Target
<1>6. t \in Names /\ mk[t].pc \in BackupPast /\ Cardinality(Newer(t, DOMAIN archive)) >= Keep
  BY Zenon, <1>4, <1>5 DEF BackupOld
<1>7. \A m \in Names : Target(m)' = Target(m)
  BY Zenon, <1>3 DEF Target
<1> HIDE DEF t
<1>8. DOMAIN archive' \subseteq Names /\ DOMAIN archive \subseteq Names
  BY Zenon, <1>0, <1>2 DEF BackupTypes
<1>9. Cardinality(Newer(t, DOMAIN archive')) >= Keep
  <2>1. \A x \in DOMAIN archive : x > t => x \in DOMAIN archive'
    BY <1>2, <1>6, <1>8 DEF Names
  <2> QED BY Zenon, <1>6, <1>8, <2>1, BackupNewer
<1>10. ASSUME NEW k \in Names, Cardinality(Newer(k, DOMAIN archive)) >= Keep
       PROVE  Cardinality(Newer(k, DOMAIN archive')) >= Keep
  <2>1. CASE k < t
    <3>1. \A x \in DOMAIN archive' : x > t => x \in DOMAIN archive'
      BY Zenon
    <3>2. Newer(t, DOMAIN archive') \subseteq Newer(k, DOMAIN archive')
      BY <1>6, <1>8, <2>1 DEF Newer, Names
    <3>3. Newer(k, DOMAIN archive') \subseteq Names
      BY Zenon, <1>8 DEF Newer
    <3>4. /\ Cardinality(Newer(t, DOMAIN archive')) <= Cardinality(Newer(k, DOMAIN archive'))
          /\ Cardinality(Newer(t, DOMAIN archive')) \in Nat /\ Cardinality(Newer(k, DOMAIN archive')) \in Nat
      BY Zenon, <3>2, <3>3 DEF BackupGiven, BackupSizes
    <3> QED BY <1>9, <3>4 DEF BackupGiven, BackupParameters
  <2>2. CASE k >= t
    <3>1. \A x \in DOMAIN archive : x > k => x \in DOMAIN archive'
      BY <1>2, <1>6, <1>8, <2>2 DEF Names
    <3> QED BY Zenon, <1>8, <1>10, <3>1, BackupNewer
  <2> QED BY <2>1, <2>2, <1>6 DEF Names
<1>11. BackupTypes'
  BY <1>0, <1>1, <1>2 DEF BackupTypes, Names
<1>12. ASSUME NEW m \in Names PROVE BackupName(m)' /\ BackupWrite(m)'
  <2>1. BackupName(m) /\ BackupWrite(m)
    BY Zenon, <1>0 DEF BackupEach
  <2>2. CASE m = n
    <3>1. "unlink_sidecar" \notin BackupWriting
      BY Zenon DEF BackupGiven, BackupParameters, BackupWriting, BackupStages
    <3> QED BY Zenon, <1>1, <1>2, <2>1, <2>2, <3>1 DEF BackupName, BackupWrite, BackupPast
  <2>3. CASE m # n
    BY Zenon, <1>1, <1>2, <2>1, <2>3 DEF BackupName, BackupWrite
  <2> QED BY Zenon, <2>2, <2>3
<1>13. ASSUME NEW m \in Names PROVE BackupOld(m)'
  <2>1. BackupOld(m)
    BY Zenon, <1>0 DEF BackupEach
  <2>2. \A k \in mk'[m].old : /\ k \in Names /\ mk'[k].pc \in BackupPast
                               /\ Cardinality(Newer(k, DOMAIN archive')) >= Keep
    BY Zenon, <1>3, <1>10, <2>1 DEF BackupOld
  <2>3. mk'[m].pc = "unlink_sidecar" => Target(m) \in mk'[m].old /\ Target(m) \notin DOMAIN archive'
    <3>1. CASE m = n
      BY Zenon, <1>2, <1>3, <1>5, <3>1 DEF t
    <3>2. CASE m # n
      BY Zenon, <1>1, <1>2, <2>1, <3>2 DEF BackupOld
    <3> QED BY Zenon, <3>1, <3>2
  <2> QED BY Zenon, <1>7, <2>2, <2>3 DEF BackupOld
<1>14. BackupEach'
  BY Zenon, <1>12, <1>13 DEF BackupEach, Names
<1>15. BackupArchives' /\ BackupListed' /\ ManifestForEach'
  BY Zenon, <1>0, <1>2 DEF BackupArchives, BackupListed, ManifestForEach, Names
<1>16. KeepsNewest
  <2>1. \A m \in DOMAIN archive \ DOMAIN archive' : m = t
    BY Zenon, <1>2
  <2> QED BY Zenon, <1>9, <2>1 DEF KeepsNewest
<1> QED BY Zenon, <1>11, <1>14, <1>15, <1>16 DEF BackupInv

(* The other steps of the writers. *)
LEMMA BackupWrites ==
  ASSUME BackupGiven, BackupInv, NEW n \in Names, Write(n),
         ~BackupPublish(n), ~Unlink(n)
  PROVE  BackupInv' /\ UNCHANGED <<archive, list>>
<1> USE DEF BackupAt, BackupGoto
<1> DEFINE Row == {"pc", "paths", "dump", "todo", "got", "old"}
<1>0. BackupTypes /\ BackupName(n) /\ BackupWrite(n) /\ BackupOld(n)
  BY Zenon DEF BackupInv, BackupEach
<1>s. /\ BackupDocs \cap BackupStages = {} /\ {"prune", "unlink", "unlink_sidecar", "done", "failed", "start", "idle"} \cap BackupWriting = {}
      /\ \A d \in BackupDocs : d \notin BackupPast /\ d \in BackupWriting /\ d \notin BackupStages
  BY Zenon DEF BackupGiven, BackupParameters, BackupWriting, BackupStages, BackupPast
<1>o. ASSUME mk'[n].old \subseteq mk[n].old
      PROVE  \A m \in mk'[n].old : /\ m \in Names /\ mk[m].pc \in BackupPast
                                    /\ Cardinality(Newer(m, DOMAIN archive)) >= Keep
  BY Zenon, <1>0, <1>o DEF BackupOld
<1>f. ASSUME Fail(n), mk[n].pc # "idle" PROVE BackupInv' /\ UNCHANGED <<archive, list>>
  <2>1. /\ DOMAIN mk' = Names /\ \A m \in Names : m # n => mk'[m] = mk[m]
        /\ mk'[n].pc = "failed" /\ mk'[n].old = {} /\ DOMAIN mk'[n] = Row
        /\ UNCHANGED <<backDoc, next, archive, sidecar, list>> /\ backW' \in {0, backW}
    BY Zenon, <1>0, <1>f DEF Fail, BackupIdle, BackupTypes
  <2>2. /\ DOMAIN backJob' = Names
        /\ \A m \in Names : backJob'[m] = backJob[m] \/ (backJob[m] = "claimed" /\ backJob'[m] \in {"succeeded", "dead"})
    BY Zenon, <1>0, <1>f DEF Fail, BackupTypes
  <2>3. BackupWrite(n)'
    BY Zenon, <1>s, <2>1 DEF BackupWrite
  <2>4. mk'[n].pc \in BackupPast
    BY Zenon, <2>1 DEF BackupPast
  <2> QED BY Zenon, <1>f, <2>1, <2>2, <2>3, <2>4, BackupWriter
<1>g. ASSUME UNCHANGED <<backDoc, next, backJob, backW, archive, list>>, sidecar \subseteq sidecar',
             DOMAIN mk' = Names, \A m \in Names : m # n => mk'[m] = mk[m], DOMAIN mk'[n] = Row,
             mk[n].pc # "idle", mk[n].pc \in BackupPast => mk'[n].pc \in BackupPast, mk'[n].pc # "unlink_sidecar",
             mk'[n].pc = "publish" => n \in sidecar', mk'[n].pc \notin {"idle", "start"},
             mk'[n].old = mk[n].old, BackupWrite(n)'
      PROVE  BackupInv'
  <2>1. \A m \in mk'[n].old : /\ m \in Names /\ mk[m].pc \in BackupPast
                              /\ Cardinality(Newer(m, DOMAIN archive)) >= Keep
    BY Zenon, <1>g, <1>o
  <2>2. DOMAIN backJob' = Names
    BY Zenon, <1>0, <1>g DEF BackupTypes
  <2> QED BY Zenon, <1>g, <2>1, <2>2, BackupWriter
<1>1. CASE Snapshot(n)
  <2>1. /\ DOMAIN mk' = Names /\ \A m \in Names : m # n => mk'[m] = mk[m]
        /\ mk'[n].pc = "dump" /\ mk'[n].paths = BackupRows /\ mk'[n].dump = BackupRows /\ mk'[n].todo = BackupRows
        /\ mk'[n].got = mk[n].got /\ mk'[n].old = mk[n].old /\ DOMAIN mk'[n] = Row /\ mk[n].pc = "start"
        /\ UNCHANGED <<backDoc, next, backJob, backW, archive, sidecar, list>>
    BY Zenon, <1>0, <1>1 DEF Snapshot, BackupTypes
  <2>2. mk[n].got = {} /\ "dump" \notin BackupDocs /\ "start" \notin BackupPast
    BY Zenon, <1>0, <1>s, <2>1 DEF BackupName, BackupStages, BackupPast
  <2>3. BackupWrite(n)'
    BY Zenon, <2>1, <2>2 DEF BackupWrite, BackupRows
  <2> QED BY Zenon, <1>g, <2>1, <2>2, <2>3
<1>2. CASE Dump(n)
  <2>1. /\ DOMAIN mk' = Names /\ \A m \in Names : m # n => mk'[m] = mk[m]
        /\ mk'[n].pc = "tar" /\ mk'[n].paths = mk[n].paths /\ mk'[n].dump = mk[n].dump /\ mk'[n].todo = mk[n].todo
        /\ mk'[n].got = mk[n].got /\ mk'[n].old = mk[n].old /\ DOMAIN mk'[n] = Row /\ mk[n].pc = "dump"
        /\ UNCHANGED <<backDoc, next, backJob, backW, archive, sidecar, list>>
    BY Zenon, <1>0, <1>2 DEF Dump, BackupTypes
  <2>2. "dump" \in BackupWriting /\ "tar" \notin BackupDocs /\ "dump" \notin BackupPast
    BY Zenon, <1>s DEF BackupStages, BackupPast, BackupWriting
  <2>3. BackupWrite(n)'
    BY Zenon, <1>0, <2>1, <2>2 DEF BackupWrite
  <2> QED BY Zenon, <1>g, <2>1, <2>2, <2>3
<1>3. CASE WriteSidecar(n)
  <2>1. /\ DOMAIN mk' = Names /\ \A m \in Names : m # n => mk'[m] = mk[m]
        /\ mk'[n].pc = "publish" /\ mk'[n].paths = mk[n].paths /\ mk'[n].dump = mk[n].dump /\ mk'[n].todo = mk[n].todo
        /\ mk'[n].got = mk[n].got /\ mk'[n].old = mk[n].old /\ DOMAIN mk'[n] = Row /\ mk[n].pc = "tar" /\ mk[n].todo = {}
        /\ UNCHANGED <<backDoc, next, backJob, backW, archive, list>> /\ sidecar' = sidecar \cup {n}
    BY Zenon, <1>0, <1>3 DEF WriteSidecar, BackupTypes
  <2>2. "tar" \in BackupWriting /\ "publish" \notin BackupDocs /\ "tar" \notin BackupPast
    BY Zenon, <1>s DEF BackupStages, BackupPast, BackupWriting
  <2>3. BackupWrite(n)'
    BY Zenon, <1>0, <2>1, <2>2 DEF BackupWrite
  <2> QED BY Zenon, <1>g, <2>1, <2>2, <2>3
<1>4. ASSUME NEW d \in BackupDocs, IsFile(n, d) PROVE BackupInv' /\ UNCHANGED <<archive, list>>
  <2>1. /\ DOMAIN mk' = Names /\ \A m \in Names : m # n => mk'[m] = mk[m]
        /\ mk'[n].paths = mk[n].paths /\ mk'[n].dump = mk[n].dump
        /\ mk'[n].got = mk[n].got /\ mk'[n].old = mk[n].old /\ DOMAIN mk'[n] = Row /\ mk[n].pc = "tar"
        /\ UNCHANGED <<backDoc, next, backJob, backW, archive, sidecar, list>> /\ d \in mk[n].todo
    BY <1>0, <1>4 DEF IsFile, BackupTypes
  <2>2. "tar" \in BackupWriting /\ "tar" \notin BackupDocs /\ "tar" \notin BackupPast
    BY Zenon, <1>s DEF BackupStages, BackupPast, BackupWriting
  <2>3. CASE d \in Files
    <3>1. mk'[n].pc = d /\ mk'[n].todo = mk[n].todo
      BY <1>0, <1>4, <2>3 DEF IsFile, BackupTypes
    <3>2. d \notin {"publish", "idle", "start", "unlink_sidecar"}
      BY Zenon, <1>s DEF BackupStages
    <3>3. BackupWrite(n)'
      BY Zenon, <1>0, <2>1, <2>2, <3>1, <3>2 DEF BackupWrite
    <3> QED BY Zenon, <1>g, <2>1, <2>2, <3>1, <3>2, <3>3
  <2>4. CASE d \notin Files
    <3>1. mk'[n].pc = "tar" /\ mk'[n].todo = mk[n].todo \ {d}
      BY <1>0, <1>4, <2>1, <2>4 DEF IsFile, BackupTypes
    <3>2. backDoc[d] = "purged"
      BY ZenonT(30), <1>0, <2>1, <2>2, <2>4 DEF BackupWrite, Files
    <3>3. BackupWrite(n)'
      BY Zenon, <1>0, <2>1, <2>2, <3>1, <3>2 DEF BackupWrite
    <3> QED BY Zenon, <1>g, <2>1, <2>2, <3>1, <3>3
  <2> QED BY Zenon, <2>3, <2>4
<1>5. ASSUME NEW d \in BackupDocs, AddFile(n, d) PROVE BackupInv' /\ UNCHANGED <<archive, list>>
  <2>1. /\ DOMAIN mk' = Names /\ \A m \in Names : m # n => mk'[m] = mk[m]
        /\ mk'[n].paths = mk[n].paths /\ mk'[n].dump = mk[n].dump /\ mk'[n].todo = mk[n].todo \ {d}
        /\ mk'[n].got = mk[n].got \cup {d} /\ mk'[n].old = mk[n].old /\ DOMAIN mk'[n] = Row /\ mk[n].pc = d
        /\ UNCHANGED <<backDoc, next, backJob, backW, archive, sidecar, list>> /\ mk'[n].pc = "tar"
    BY Zenon, <1>0, <1>5 DEF AddFile, BackupTypes
  <2>2. d \in BackupWriting /\ "tar" \notin BackupDocs /\ d \notin BackupPast /\ d # "idle"
    BY Zenon, <1>s DEF BackupStages
  <2>3. BackupWrite(n)'
    BY Zenon, <1>0, <2>1, <2>2 DEF BackupWrite
  <2> QED BY Zenon, <1>g, <2>1, <2>2, <2>3
<1>6. ASSUME NEW d \in BackupDocs, FileGone(n, d) PROVE BackupInv' /\ UNCHANGED <<archive, list>>
  <2>1. mk[n].pc # "idle" /\ Fail(n)
    BY Zenon, <1>6, <1>s DEF FileGone, BackupStages
  <2> QED BY Zenon, <1>f, <2>1
<1>7. CASE PgError(n)
  <2>1. mk[n].pc # "idle" /\ Fail(n)
    BY Zenon, <1>7 DEF PgError
  <2> QED BY Zenon, <1>f, <2>1
<1>8. CASE prune(n)
  <2>1. /\ DOMAIN mk' = Names /\ \A m \in Names : m # n => mk'[m] = mk[m]
        /\ mk'[n].old = Old(DOMAIN archive) /\ DOMAIN mk'[n] = Row /\ mk[n].pc = "prune"
        /\ UNCHANGED <<backDoc, next, backJob, backW, archive, sidecar, list>> /\ mk'[n].pc = "unlink"
    BY Zenon, <1>0, <1>8 DEF prune, BackupTypes
  <2>2. \A m \in mk'[n].old : m \in DOMAIN archive /\ Cardinality(Newer(m, DOMAIN archive)) >= Keep
    BY Zenon, <2>1 DEF Old
  <2>3. \A m \in DOMAIN archive : m \in Names /\ mk[m].pc \in BackupPast
    BY Zenon, <1>0 DEF BackupTypes, BackupInv, BackupEach, BackupName
  <2>4. BackupWrite(n)' /\ "unlink" \in BackupPast
    BY Zenon, <1>s, <2>1 DEF BackupWrite, BackupPast
  <2>5. DOMAIN backJob' = Names
    BY Zenon, <1>0, <2>1 DEF BackupTypes
  <2> QED BY Zenon, <2>1, <2>2, <2>3, <2>4, <2>5, BackupWriter
<1>9. CASE NoRetention(n)
  <2>1. /\ DOMAIN mk' = Names /\ \A m \in Names : m # n => mk'[m] = mk[m]
        /\ mk'[n].old = mk[n].old /\ DOMAIN mk'[n] = Row /\ mk[n].pc = "prune"
        /\ UNCHANGED <<backDoc, next, backJob, backW, archive, sidecar, list>> /\ mk'[n].pc = "done"
    BY Zenon, <1>0, <1>9 DEF NoRetention, BackupTypes
  <2>4. BackupWrite(n)' /\ "done" \in BackupPast
    BY Zenon, <1>s, <2>1 DEF BackupWrite, BackupPast
  <2> QED BY Zenon, <1>g, <2>1, <2>4
<1>10. CASE UnlinkSidecar(n)
  <2>1. /\ DOMAIN mk' = Names /\ \A m \in Names : m # n => mk'[m] = mk[m]
        /\ mk'[n].old \subseteq mk[n].old /\ DOMAIN mk'[n] = Row /\ mk[n].pc = "unlink_sidecar"
        /\ UNCHANGED <<backDoc, next, backJob, backW, archive, list>> /\ mk'[n].pc = "unlink"
        /\ sidecar' = sidecar \ {Target(n)}
    BY Zenon, <1>0, <1>10 DEF UnlinkSidecar, BackupTypes
  <2>2. Target(n) \notin DOMAIN archive /\ mk[Target(n)].pc \in BackupPast
    BY Zenon, <1>0, <2>1 DEF BackupOld
  <2>3. \A m \in mk'[n].old : /\ m \in Names /\ mk[m].pc \in BackupPast
                              /\ Cardinality(Newer(m, DOMAIN archive)) >= Keep
    BY Zenon, <1>o, <2>1
  <2>4. BackupWrite(n)' /\ "unlink" \in BackupPast
    BY Zenon, <1>s, <2>1 DEF BackupWrite, BackupPast
  <2>5. DOMAIN backJob' = Names
    BY Zenon, <1>0, <2>1 DEF BackupTypes
  <2>6. \A m \in Names : m \in sidecar => m \in sidecar' \/ (m \notin DOMAIN archive /\ mk[m].pc \in BackupPast)
    BY Zenon, <2>1, <2>2
  <2> QED BY Zenon, <2>1, <2>3, <2>4, <2>5, <2>6, BackupWriter
<1>11. CASE Done(n)
  <2>1. /\ DOMAIN mk' = Names /\ \A m \in Names : m # n => mk'[m] = mk[m]
        /\ mk'[n].old = mk[n].old /\ DOMAIN mk'[n] = Row /\ mk[n].pc = "unlink" /\ mk'[n].pc = "done"
        /\ UNCHANGED <<backDoc, next, archive, sidecar, list>> /\ backW' \in {0, backW}
    BY Zenon, <1>0, <1>11 DEF Done, BackupTypes
  <2>2. /\ DOMAIN backJob' = Names
        /\ \A m \in Names : backJob'[m] = backJob[m] \/ (backJob[m] = "claimed" /\ backJob'[m] \in {"succeeded", "dead"})
    BY Zenon, <1>0, <1>11 DEF Done, BackupTypes
  <2>3. BackupWrite(n)'
    BY Zenon, <1>s, <2>1 DEF BackupWrite
  <2>4. mk'[n].pc \in BackupPast
    BY Zenon, <2>1 DEF BackupPast
  <2>5. \A m \in mk'[n].old : /\ m \in Names /\ mk[m].pc \in BackupPast
                              /\ Cardinality(Newer(m, DOMAIN archive)) >= Keep
    BY Zenon, <1>o, <2>1
  <2> QED BY Zenon, <2>1, <2>2, <2>3, <2>4, <2>5, BackupWriter
<1>12. UNCHANGED <<archive, list>>
  BY Zenon DEF Write, Snapshot, Dump, WriteSidecar, PgError, prune,
         NoRetention,
         UnlinkSidecar, Done, IsFile, AddFile, FileGone, Fail
<1> QED BY Zenon, <1>1, <1>2, <1>3, <1>4, <1>5, <1>6, <1>7, <1>8, <1>9, <1>10, <1>11, <1>12 DEF Write

(* The documents of the owner, the requests and the API's worker. *)
LEMMA BackupOwner ==
  ASSUME BackupGiven, BackupInv,
         \/ \E d \in BackupDocs : Document(d)
         \/ backup_enqueue \/ backup_create \/ BackupCrash
         \/ \E n \in Names : backup_claim(n) \/ backup_reap(n)
         \/ ReadJobs \/ list_backups \/ Read
  PROVE  BackupInv' /\ UNCHANGED archive
<1> USE DEF BackupAt, BackupGoto
<1>0. BackupTypes /\ BackupEach /\ BackupArchives /\ BackupListed /\ ManifestForEach
  BY Zenon DEF BackupInv
<1>s. {"start", "idle"} \cap BackupWriting = {} /\ "start" \notin BackupPast /\ "idle" \notin BackupPast
  BY Zenon DEF BackupGiven, BackupParameters, BackupWriting, BackupStages, BackupPast
<1>1. ASSUME NEW d \in BackupDocs, Document(d) PROVE BackupInv' /\ UNCHANGED archive
  <2>1. /\ DOMAIN backDoc' = BackupDocs /\ UNCHANGED <<next, backJob, backW, mk, archive, sidecar, list>>
        /\ \A e \in BackupDocs : /\ backDoc[e] = "purged" => backDoc'[e] = "purged"
                                 /\ backDoc[e] \in {"row", "deleted", "purged"} => backDoc'[e] \in {"row", "deleted", "purged"}
    BY Zenon, <1>0, <1>1 DEF Document, BackupTypes
  <2>2. BackupTypes' /\ BackupArchives' /\ BackupListed' /\ ManifestForEach'
    BY Zenon, <1>0, <2>1 DEF BackupTypes, BackupArchives, BackupListed, ManifestForEach, Names
  <2>3. ASSUME NEW n \in Names PROVE BackupName(n)' /\ BackupWrite(n)' /\ BackupOld(n)'
    <3>1. BackupName(n) /\ BackupWrite(n) /\ BackupOld(n)
      BY Zenon, <1>0 DEF BackupEach
    <3>2. Target(n)' = Target(n)
      BY Zenon, <2>1 DEF Target
    <3> QED BY Zenon, <2>1, <3>1, <3>2 DEF BackupName, BackupWrite, BackupOld
  <2> QED BY Zenon, <2>1, <2>2, <2>3 DEF BackupInv, BackupEach, Names
<1>2. ASSUME NEW n \in Names, UNCHANGED <<backDoc, archive, sidecar, list>>, backW' = backW \/ (backW' = n /\ mk'[n].pc # "idle"),
             next' \in Nat, next' >= next, DOMAIN backJob' = Names, DOMAIN mk' = Names,
             \A m \in Names : m # n => backJob'[m] = backJob[m] /\ mk'[m] = mk[m],
             \A m \in Names : backJob[m] = "succeeded" => backJob'[m] = "succeeded",
             DOMAIN mk'[n] = {"pc", "paths", "dump", "todo", "got", "old"}, backJob'[n] \in BackupJobs,
             n < next', mk'[n].old = mk[n].old, mk'[n].got = mk[n].got,
             \/ mk'[n] = mk[n] /\ (backJob'[n] = "available" => mk[n].pc = "idle")
             \/ mk[n].pc = "idle" /\ mk'[n].pc = "start" /\ backJob'[n] # "available"
      PROVE  BackupInv'
  <2>1. BackupTypes' /\ BackupArchives' /\ BackupListed' /\ ManifestForEach'
    <3>1. BackupTypes'
      BY <1>0, <1>2 DEF BackupTypes, Names
    <3>2. BackupListed'
      BY Zenon, <1>0, <1>2 DEF BackupListed, Names
    <3> QED BY Zenon, <1>0, <1>2, <3>1, <3>2 DEF BackupArchives, ManifestForEach
  <2>2. ASSUME NEW m \in Names PROVE BackupName(m)' /\ BackupWrite(m)' /\ BackupOld(m)'
    <3>1. BackupName(m) /\ BackupWrite(m) /\ BackupOld(m) /\ mk'[m].old = mk[m].old
      BY Zenon, <1>0, <1>2 DEF BackupEach
    <3>2. Target(m)' = Target(m)
      BY Zenon, <3>1 DEF Target
    <3>3. \A k \in Names : mk[k].pc \in BackupPast => mk'[k].pc \in BackupPast
      BY ZenonT(30), <1>2, <1>s
    <3>4. BackupOld(m)'
      BY Zenon, <1>2, <3>1, <3>2, <3>3 DEF BackupOld
    <3>5. CASE m # n
      <4>1. m >= next' => m >= next
        BY <1>0, <1>2 DEF Names, BackupTypes
      <4> QED BY Zenon, <1>2, <3>1, <3>4, <3>5, <4>1 DEF BackupName, BackupWrite
    <3>6. CASE m = n
      <4>1. ~(m >= next')
        BY <1>2, <3>6 DEF Names
      <4>2. CASE mk'[n] = mk[n] /\ (backJob'[n] = "available" => mk[n].pc = "idle")
        BY Zenon, <1>2, <3>1, <3>4, <3>6, <4>1, <4>2 DEF BackupName, BackupWrite
      <4>3. CASE mk[n].pc = "idle" /\ mk'[n].pc = "start" /\ backJob'[n] # "available"
        BY ZenonT(30), <1>2, <1>s, <3>1, <3>4, <3>6, <4>1, <4>3 DEF BackupName, BackupWrite
      <4> QED BY ZenonT(30), <1>2, <4>2, <4>3
    <3> QED BY Zenon, <3>5, <3>6
  <2> QED BY Zenon, <2>1, <2>2 DEF BackupInv, BackupEach, Names
<1>3. CASE backup_enqueue
  <2>1. next \in Names
    BY <1>0, <1>3 DEF backup_enqueue, BackupTypes, Names, BackupGiven, BackupParameters
  <2>2. BackupName(next) /\ next >= next
    BY <1>0, <2>1 DEF BackupEach, BackupTypes
  <2>3. mk[next].pc = "idle"
    BY Zenon, <2>2 DEF BackupName
  <2>4. /\ DOMAIN backJob' = Names /\ \A m \in Names : m # next => backJob'[m] = backJob[m]
        /\ backJob'[next] = "available" /\ backJob[next] = "none" /\ next' = next + 1 /\ UNCHANGED <<backDoc, backW, mk, archive, sidecar, list>>
    BY ZenonT(30), <1>0, <1>3, <2>1, <2>2 DEF backup_enqueue, BackupTypes, BackupName
  <2>5. /\ next' \in Nat /\ next' >= next /\ next < next' /\ backJob'[next] \in BackupJobs
        /\ \A m \in Names : backJob[m] = "succeeded" => backJob'[m] = "succeeded"
    BY <1>0, <2>4 DEF BackupTypes, BackupJobs
  <2>6. DOMAIN mk' = Names /\ DOMAIN mk'[next] = {"pc", "paths", "dump", "todo", "got", "old"}
    BY Zenon, <1>0, <2>1, <2>4 DEF BackupTypes
  <2> QED BY ZenonT(30), <1>2, <2>1, <2>3, <2>4, <2>5, <2>6
<1>4. CASE backup_create
  <2>1. next \in Names
    BY <1>0, <1>4 DEF backup_create, BackupTypes, Names, BackupGiven, BackupParameters
  <2>2. BackupName(next) /\ next >= next
    BY <1>0, <2>1 DEF BackupEach, BackupTypes
  <2>3. mk[next].pc = "idle" /\ backJob[next] = "none"
    BY Zenon, <2>2 DEF BackupName
  <2>4. /\ DOMAIN mk' = Names /\ \A m \in Names : m # next => mk'[m] = mk[m]
        /\ mk'[next].pc = "start" /\ mk'[next].old = mk[next].old /\ mk'[next].got = mk[next].got
        /\ DOMAIN mk'[next] = {"pc", "paths", "dump", "todo", "got", "old"}
        /\ next' = next + 1 /\ UNCHANGED <<backDoc, backW, backJob, archive, sidecar, list>>
    BY Zenon, <1>0, <1>4, <2>1 DEF backup_create, BackupTypes
  <2>5. next' \in Nat /\ next' >= next /\ next < next' /\ backJob'[next] \in BackupJobs /\ backJob'[next] # "available"
    BY <1>0, <2>3, <2>4 DEF BackupTypes, BackupJobs
  <2> QED BY Zenon, <1>0, <1>2, <2>1, <2>3, <2>4, <2>5 DEF BackupTypes
<1>5. ASSUME NEW n \in Names, backup_claim(n) PROVE BackupInv' /\ UNCHANGED archive
  <2>1. /\ DOMAIN mk' = Names /\ DOMAIN backJob' = Names
        /\ \A m \in Names : m # n => mk'[m] = mk[m] /\ backJob'[m] = backJob[m]
        /\ mk'[n].pc = "start" /\ mk'[n].old = mk[n].old /\ mk'[n].got = mk[n].got
        /\ DOMAIN mk'[n] = {"pc", "paths", "dump", "todo", "got", "old"} /\ backJob[n] = "available" /\ backJob'[n] = "claimed"
        /\ backW' = n /\ UNCHANGED <<backDoc, next, archive, sidecar, list>>
    BY Zenon, <1>0, <1>5 DEF backup_claim, BackupTypes
  <2>2. BackupName(n)
    BY Zenon, <1>0 DEF BackupEach
  <2>3. mk[n].pc = "idle" /\ ~(n >= next)
    BY Zenon, <2>1, <2>2 DEF BackupName
  <2>4. next \in Nat /\ next' >= next /\ n < next' /\ backJob'[n] \in BackupJobs /\ next' \in Nat
    BY <1>0, <2>1, <2>3 DEF BackupTypes, BackupJobs, Names
  <2> QED BY Zenon, <1>2, <2>1, <2>3, <2>4
<1>6. ASSUME NEW n \in Names, backup_reap(n) PROVE BackupInv' /\ UNCHANGED archive
  <2>1. /\ DOMAIN backJob' = Names /\ \A m \in Names : m # n => backJob'[m] = backJob[m]
        /\ backJob[n] = "claimed" /\ backJob'[n] = "dead" /\ UNCHANGED <<backDoc, next, backW, mk, archive, sidecar, list>>
    BY Zenon, <1>0, <1>6 DEF backup_reap, BackupTypes
  <2>2. BackupName(n)
    BY Zenon, <1>0 DEF BackupEach
  <2>3. next \in Nat /\ next' >= next /\ n < next' /\ backJob'[n] \in BackupJobs /\ next' \in Nat
    BY <1>0, <2>1, <2>2 DEF BackupTypes, BackupJobs, Names, BackupName
  <2>4. DOMAIN mk' = Names /\ DOMAIN mk'[n] = {"pc", "paths", "dump", "todo", "got", "old"}
    BY Zenon, <1>0, <2>1 DEF BackupTypes
  <2>5. \A m \in Names : backJob[m] = "succeeded" => backJob'[m] = "succeeded"
    BY Zenon, <2>1
  <2> QED BY Zenon, <1>2, <2>1, <2>3, <2>4, <2>5
<1>7. CASE BackupCrash
  <2>0. PICK v \in Names : v = backW
    BY Zenon, <1>0, <1>7 DEF BackupCrash, BackupTypes
  <2>1. /\ v \in Names /\ DOMAIN mk' = Names /\ \A m \in Names : m # v => mk'[m] = mk[m]
        /\ mk'[v].pc = "failed" /\ mk'[v].old = {} /\ DOMAIN mk'[v] = {"pc", "paths", "dump", "todo", "got", "old"}
        /\ backW' = 0 /\ list' = NoList /\ UNCHANGED <<backDoc, next, backJob, archive, sidecar>>
    BY Zenon, <1>0, <1>7, <2>0 DEF BackupCrash, BackupTypes, BackupIdle
  <2>2. mk[v].pc # "idle" /\ DOMAIN backJob' = Names /\ "failed" \in BackupPast
    BY Zenon, <1>0, <1>7, <2>0, <2>1 DEF BackupCrash, BackupTypes, BackupPast
  <2>3. BackupWrite(v)'
    <3>1. "failed" \notin BackupWriting
      BY Zenon DEF BackupGiven, BackupParameters, BackupWriting, BackupStages
    <3> QED BY Zenon, <2>1, <3>1 DEF BackupWrite
  <2> QED BY Zenon, <2>1, <2>2, <2>3, BackupWriter
<1>8. CASE ReadJobs \/ list_backups \/ Read
  <2>1. UNCHANGED <<backDoc, next, backJob, backW, mk, archive, sidecar>>
    BY Zenon, <1>8 DEF ReadJobs, list_backups, Read
  <2>2. BackupListed'
    <3>1. CASE ReadJobs
      <4>1. DOMAIN list' = {"pc", "jobs", "shown"} /\ list'.jobs = backJob
        BY Zenon, <3>1 DEF ReadJobs, NoList
      <4> QED BY Zenon, <1>0, <2>1, <4>1 DEF BackupListed, BackupTypes, Names
    <3>2. CASE list_backups
      BY Zenon, <3>2 DEF list_backups, BackupListed
    <3>3. CASE Read
      BY Zenon, <3>3 DEF Read, NoList, BackupListed
    <3> QED BY Zenon, <1>8, <3>1, <3>2, <3>3
  <2>3. BackupTypes' /\ BackupArchives' /\ ManifestForEach'
    BY Zenon, <1>0, <2>1 DEF BackupTypes, BackupArchives, ManifestForEach, Names
  <2>4. ASSUME NEW n \in Names PROVE BackupName(n)' /\ BackupWrite(n)' /\ BackupOld(n)'
    <3>1. BackupName(n) /\ BackupWrite(n) /\ BackupOld(n)
      BY Zenon, <1>0 DEF BackupEach
    <3>2. Target(n)' = Target(n)
      BY Zenon, <2>1 DEF Target
    <3> QED BY Zenon, <2>1, <3>1, <3>2 DEF BackupName, BackupWrite, BackupOld
  <2> QED BY Zenon, <2>1, <2>2, <2>3, <2>4 DEF BackupInv, BackupEach, Names
<1>9. UNCHANGED archive
  BY Zenon DEF Document, backup_enqueue, backup_create, BackupCrash, backup_claim, backup_reap,
         ReadJobs,
         list_backups, Read
<1> QED BY Zenon, <1>1, <1>3, <1>4, <1>5, <1>6, <1>7, <1>8, <1>9

LEMMA BackupSteps ==
  ASSUME BackupGiven, BackupInv, [BackupNext]_backupVars
  PROVE  BackupInv' /\ KeepsNewest /\ ShownAsIs
<1>1. ASSUME UNCHANGED archive PROVE KeepsNewest
  BY Zenon, <1>1 DEF KeepsNewest
<1>2. CASE UNCHANGED backupVars
  <2>1. UNCHANGED <<backDoc, next, backJob, backW, mk, archive, sidecar, list>>
    BY Zenon, <1>2 DEF backupVars
  <2>2. BackupTypes' /\ BackupArchives' /\ BackupListed' /\ ManifestForEach'
    BY Zenon, <2>1 DEF BackupInv, BackupTypes, BackupArchives, BackupListed, ManifestForEach, Names
  <2>3. ASSUME NEW n \in Names PROVE BackupName(n)' /\ BackupWrite(n)' /\ BackupOld(n)'
    <3>1. BackupName(n) /\ BackupWrite(n) /\ BackupOld(n)
      BY Zenon DEF BackupInv, BackupEach
    <3>2. Target(n)' = Target(n)
      BY Zenon, <2>1 DEF Target
    <3> QED BY Zenon, <2>1, <3>1, <3>2 DEF BackupName, BackupWrite, BackupOld
  <2> QED BY Zenon, <1>1, <2>1, <2>2, <2>3 DEF BackupInv, BackupEach, Names, ShownAsIs
<1>3. ASSUME NEW n \in Names, Write(n) PROVE BackupInv' /\ KeepsNewest /\ UNCHANGED list
  <2>1. CASE BackupPublish(n)
    <3>1. UNCHANGED list /\ DOMAIN archive \subseteq DOMAIN archive'
      BY Zenon, <2>1 DEF BackupPublish
    <3>2. KeepsNewest
      BY Zenon, <3>1 DEF KeepsNewest
    <3> QED BY Zenon, <2>1, <3>1, <3>2, BackupPublishKeeps
  <2>2. CASE Unlink(n)
    <3>1. UNCHANGED list
      BY Zenon, <2>2 DEF Unlink
    <3> QED BY Zenon, <2>2, <3>1, BackupUnlink
  <2> QED BY Zenon, <1>1, <1>3, <2>1, <2>2, BackupWrites
<1>4. CASE ~\E n \in Names : Write(n)
  <2>1. CASE list_backups
    <3>1. BackupInv' /\ UNCHANGED archive
      BY Zenon, <2>1, BackupOwner
    <3>2. ShownAsIs
      <4> SUFFICES ASSUME NEW n \in Names
                   PROVE  /\ (n \in DOMAIN archive) = (list'.shown[n] = "succeeded")
                          /\ BackupLive(backJob[n]) /\ list.jobs[n] # "none" => list'.shown[n] # "none"
        BY Zenon DEF ShownAsIs
      <4>1. list.pc = "files" /\ list'.shown[n] = Merge(list.jobs, DOMAIN archive)[n]
        BY Zenon, <2>1 DEF list_backups
      <4>2. list.jobs[n] \in BackupJobs /\ (list.jobs[n] = "succeeded" => backJob[n] = "succeeded")
        BY Zenon, <4>1 DEF BackupInv, BackupListed
      <4>3. list'.shown[n] = IF n \in DOMAIN archive THEN "succeeded"
                             ELSE IF list.jobs[n] = "succeeded" THEN "none" ELSE Status(list.jobs[n])
        BY Zenon, <4>1 DEF Merge
      <4> QED BY <4>2, <4>3 DEF Status, BackupJobs, BackupLive
    <3> QED BY Zenon, <1>1, <3>1, <3>2
  <2>2. CASE ~list_backups /\ BackupNext
    <3>1. BackupInv' /\ UNCHANGED archive
      BY Zenon, <1>4, <2>2, BackupOwner DEF BackupNext
    <3>2. UNCHANGED list \/ list'.pc # "shown"
      <4>1. CASE BackupCrash \/ Read
        BY <4>1 DEF BackupCrash, Read, NoList
      <4>2. CASE ReadJobs
        <5>1. list' = [NoList EXCEPT !.pc = "files", !.jobs = backJob]
          BY Zenon, <4>2 DEF ReadJobs
        <5> QED BY Zenon, <5>1 DEF NoList
      <4>3. CASE \/ \E d \in BackupDocs : Document(d)
                 \/ backup_enqueue \/ backup_create
                 \/ \E n \in Names : backup_claim(n) \/ backup_reap(n)
        BY Zenon, <4>3 DEF Document, backup_enqueue, backup_create, backup_claim, backup_reap
      <4> QED BY Zenon, <1>4, <2>2, <4>1, <4>2, <4>3 DEF BackupNext
    <3> QED BY Zenon, <1>1, <3>1, <3>2 DEF ShownAsIs
  <2> QED BY Zenon, <1>2, <2>1, <2>2
<1> QED BY Zenon, <1>3, <1>4 DEF ShownAsIs

(* The invariant of the archives, the writers and the listing, and what their
   steps keep. *)
THEOREM BackupInvariant ==
  ASSUME BackupGiven
  PROVE  BackupSpec => []BackupInv /\ [][KeepsNewest]_backupVars /\ [][ShownAsIs]_backupVars
<1>1. BackupInit => BackupInv
  BY Zenon, BackupStarts
<1>2. BackupInv /\ [BackupNext]_backupVars => BackupInv' /\ [KeepsNewest]_backupVars /\ [ShownAsIs]_backupVars
  BY Zenon, BackupSteps
<1> QED BY <1>1, <1>2, PTL DEF BackupSpec

LEMMA BackupKept == ASSUME BackupInv PROVE OneSnapshot /\ ManifestForEach
  BY Zenon DEF BackupInv, BackupArchives, OneSnapshot, BackupRows

-----------------------------------------------------------------------------
(* KnowledgeIngest: rows, chunks and bytes of the documents.               *)

KnowTypes ==
  /\ DOMAIN doc = Docs /\ DOMAIN up = Docs /\ DOMAIN job = KnowKeys
  /\ \A k \in KnowKeys : DOMAIN job[k] = {"state", "tries"}
  /\ DOMAIN w = {"pc", "key", "mark"}

(* What the worker holds: a job that was made once, an ingest of a document
   except while it purges. *)
KnowWorker ==
  /\ w.pc # "idle" => w.key \in KnowKeys /\ job[w.key].state # "none"
  /\ w.pc \notin {"idle", "complete", "purge"} => w.key[1] = "ingest" /\ w.key[2] \in Docs
  /\ w.pc = "purge" => w.key[1] = "purge"
  /\ w.pc \in {"mark", "mark_then_complete"} => w.mark \in {"FAILED", "PENDING"}

(* A purge is asked for when the row has gone for good, and nothing but a purge
   takes the bytes of an upload that can still commit. *)
KnowPurges ==
  /\ \A d \in Docs : job[<<"purge", d>>].state # "none" => doc[d] = "none" /\ up[d] = "over"
  /\ job[<<"purge", KB>>].state # "none" => ~kb
  /\ ~kb => \A d \in Docs : doc[d] = "none"
  /\ \A d \in Docs : doc[d] # "none" => up[d] = "over"
  /\ \A d \in Docs : up[d] = "moved" => d \in file \/ ~kb

KnowInv == KnowTypes /\ KnowWorker /\ KnowPurges /\ ServedWhole /\ RowHasBytes

LEMMA KnowKeysKeeps ==
  /\ \A d \in Docs : <<"ingest", d>> \in KnowKeys /\ <<"purge", d>> \in KnowKeys
  /\ <<"purge", KB>> \in KnowKeys
  /\ \A k \in KnowKeys : k = <<k[1], k[2]>>
  /\ \A k \in KnowKeys : (k[1] = "ingest" /\ k[2] \in Docs) \/ (k[1] = "purge" /\ k[2] \in Docs \cup {KB})
BY DEF KnowKeys

LEMMA KnowStarts == ASSUME KnowInit PROVE KnowInv
<1> USE DEF KnowInit
<1>1. KnowTypes /\ KnowWorker
  BY Zenon DEF KnowTypes, KnowWorker, NoJob, KnowIdle
<1>2. KnowPurges
  BY Zenon, KnowKeysKeeps DEF KnowPurges, NoJob
<1>3. ServedWhole /\ RowHasBytes
  BY Zenon DEF ServedWhole, RowHasBytes
<1> QED BY Zenon, <1>1, <1>2, <1>3 DEF KnowInv

(* Jobs move on without being forgotten; rows and bytes stay as they are. *)
LEMMA KnowJobs ==
  ASSUME KnowInv, UNCHANGED <<kb, doc, chunks, file, up>>, DOMAIN job' = KnowKeys,
         \A k \in KnowKeys : DOMAIN job'[k] = {"state", "tries"},
         \A k \in KnowKeys : job'[k].state # "none" <=> job[k].state # "none",
         DOMAIN w' = {"pc", "key", "mark"}, KnowWorker'
  PROVE  KnowInv'
<1>0. KnowTypes /\ KnowPurges /\ ServedWhole /\ RowHasBytes
  BY Zenon DEF KnowInv
<1>1. KnowTypes'
  BY Zenon, <1>0 DEF KnowTypes, KnowKeys
<1>2. KnowPurges'
  BY Zenon, <1>0, KnowKeysKeeps DEF KnowPurges
<1>3. ServedWhole' /\ RowHasBytes'
  BY Zenon, <1>0 DEF ServedWhole, RowHasBytes
<1> QED BY Zenon, <1>1, <1>2, <1>3 DEF KnowInv

(* Rows change their state without coming or going. *)
LEMMA KnowStates ==
  ASSUME KnowInv, UNCHANGED <<kb, file, up, job>>, DOMAIN doc' = Docs,
         \A d \in Docs : doc'[d] # "none" <=> doc[d] # "none",
         ServedWhole', DOMAIN w' = {"pc", "key", "mark"}, KnowWorker'
  PROVE  KnowInv'
<1>0. KnowTypes /\ KnowPurges /\ RowHasBytes
  BY Zenon DEF KnowInv
<1>1. KnowTypes'
  BY Zenon, <1>0 DEF KnowTypes
<1>2. KnowPurges'
  BY Zenon, <1>0 DEF KnowPurges
<1>3. RowHasBytes'
  BY Zenon, <1>0 DEF RowHasBytes
<1> QED BY Zenon, <1>1, <1>2, <1>3 DEF KnowInv

LEMMA KnowEnqueue ==
  ASSUME KnowTypes, NEW k \in KnowKeys, job' = enqueue(job, k)
  PROVE  /\ DOMAIN job' = KnowKeys /\ \A j \in KnowKeys : DOMAIN job'[j] = {"state", "tries"}
         /\ \A j \in KnowKeys : job'[j].state # "none" <=> (j = k \/ job[j].state # "none")
BY Zenon DEF KnowTypes, enqueue, KnowLive

(* A request leaves the worker with a job that is still known. *)
LEMMA KnowRequestKeeps ==
  ASSUME KnowInv, UNCHANGED w, DOMAIN doc' = Docs, DOMAIN up' = Docs,
         DOMAIN job' = KnowKeys, \A j \in KnowKeys : DOMAIN job'[j] = {"state", "tries"},
         \A j \in KnowKeys : job[j].state # "none" => job'[j].state # "none",
         KnowPurges', ServedWhole', RowHasBytes'
  PROVE  KnowInv'
<1>0. KnowTypes /\ KnowWorker
  BY Zenon DEF KnowInv
<1>1. KnowTypes'
  BY Zenon, <1>0 DEF KnowTypes, KnowKeys
<1>2. KnowWorker'
  BY Zenon, <1>0 DEF KnowWorker, KnowKeys
<1> QED BY Zenon, <1>1, <1>2 DEF KnowInv

LEMMA KnowRequests ==
  ASSUME KnowInv, KB \notin Docs, KnowRequest
  PROVE  KnowInv'
<1> USE DEF KnowPurges, ServedWhole, RowHasBytes
<1>0. /\ KnowTypes /\ KnowPurges /\ ServedWhole /\ RowHasBytes
      /\ DOMAIN doc = Docs /\ DOMAIN up = Docs /\ DOMAIN job = KnowKeys
      /\ \A k \in KnowKeys : DOMAIN job[k] = {"state", "tries"}
  BY Zenon DEF KnowInv, KnowTypes
<1>1. ASSUME NEW d \in Docs, Check(d) \/ KnowMove(d) \/ UploadLost(d)
      PROVE  KnowInv'
  <2>1. /\ UNCHANGED <<kb, doc, chunks, job, w>> /\ DOMAIN up' = Docs
        /\ \A x \in Docs : x # d => up'[x] = up[x]
        /\ up[d] # "over" /\ (up'[d] = "moved" => d \in file') /\ \A x \in Docs : x \in file => x \in file'
    BY Zenon, <1>0, <1>1 DEF Check, KnowMove, UploadLost
  <2>2. KnowPurges'
    BY Zenon, <1>0, <2>1
  <2>3. ServedWhole' /\ RowHasBytes'
    BY Zenon, <1>0, <2>1
  <2> QED BY Zenon, <1>0, <2>1, <2>2, <2>3, KnowRequestKeeps
<1>2. ASSUME NEW d \in Docs, upload(d)
      PROVE  KnowInv'
  <2>1. /\ up[d] = "moved" /\ up'[d] = "over" /\ DOMAIN up' = Docs /\ UNCHANGED <<kb, chunks, w>>
        /\ \A x \in Docs : x # d => up'[x] = up[x]
    BY Zenon, <1>0, <1>2 DEF upload
  <2>2. CASE kb
    <3>1. UNCHANGED file /\ doc' = [doc EXCEPT ![d] = "PENDING"] /\ job' = enqueue(job, <<"ingest", d>>)
      BY Zenon, <1>2, <2>2 DEF upload
    <3>2. /\ DOMAIN job' = KnowKeys /\ \A j \in KnowKeys : DOMAIN job'[j] = {"state", "tries"}
          /\ \A j \in KnowKeys : job'[j].state # "none" <=> (j = <<"ingest", d>> \/ job[j].state # "none")
      BY ZenonT(30), <1>0, <3>1, KnowKeysKeeps, KnowEnqueue
    <3>3. job[<<"purge", d>>].state = "none"
      BY Zenon, <1>0, <2>1
    <3>4. KnowPurges'
      BY ZenonT(30), <1>0, <2>1, <2>2, <3>1, <3>2, <3>3, KnowKeysKeeps
    <3>5. ServedWhole' /\ RowHasBytes'
      BY Zenon, <1>0, <2>1, <2>2, <3>1
    <3> QED BY Zenon, <1>0, <2>1, <3>1, <3>2, <3>4, <3>5, KnowRequestKeeps
  <2>3. CASE ~kb
    <3>1. UNCHANGED <<doc, job>> /\ file' = file \ {d}
      BY Zenon, <1>2, <2>3 DEF upload
    <3>2. KnowPurges' /\ ServedWhole' /\ RowHasBytes'
      BY Zenon, <1>0, <2>1, <2>3, <3>1
    <3> QED BY Zenon, <1>0, <2>1, <3>1, <3>2, KnowRequestKeeps
  <2> QED BY Zenon, <2>2, <2>3
<1>3. ASSUME NEW d \in Docs, delete_document(d)
      PROVE  KnowInv'
  <2>1. /\ doc[d] # "none" /\ doc' = [doc EXCEPT ![d] = "none"] /\ chunks' = chunks \ {d}
        /\ job' = enqueue(job, <<"purge", d>>) /\ UNCHANGED <<kb, file, up, w>>
    BY Zenon, <1>3 DEF delete_document
  <2>2. /\ DOMAIN job' = KnowKeys /\ \A j \in KnowKeys : DOMAIN job'[j] = {"state", "tries"}
        /\ \A j \in KnowKeys : job'[j].state # "none" <=> (j = <<"purge", d>> \/ job[j].state # "none")
    BY ZenonT(30), <1>0, <2>1, KnowKeysKeeps, KnowEnqueue
  <2>3. KnowPurges'
    BY Zenon, <1>0, <2>1, <2>2, KnowKeysKeeps
  <2>4. ServedWhole' /\ RowHasBytes'
    BY Zenon, <1>0, <2>1
  <2> QED BY Zenon, <1>0, <2>1, <2>2, <2>3, <2>4, KnowRequestKeeps
<1>4. ASSUME NEW d \in Docs, reindex_document(d)
      PROVE  KnowInv'
  <2>1. /\ doc[d] # "none" /\ doc' = [doc EXCEPT ![d] = "PENDING"]
        /\ job' = enqueue(job, <<"ingest", d>>) /\ UNCHANGED <<kb, chunks, file, up, w>>
    BY Zenon, <1>4 DEF reindex_document
  <2>2. /\ DOMAIN job' = KnowKeys /\ \A j \in KnowKeys : DOMAIN job'[j] = {"state", "tries"}
        /\ \A j \in KnowKeys : job'[j].state # "none" <=> (j = <<"ingest", d>> \/ job[j].state # "none")
    BY Zenon, <1>0, <2>1, KnowKeysKeeps, KnowEnqueue
  <2>3. KnowPurges'
    BY ZenonT(30), <1>0, <2>1, <2>2, KnowKeysKeeps
  <2>4. ServedWhole' /\ RowHasBytes'
    BY Zenon, <1>0, <2>1
  <2> QED BY Zenon, <1>0, <2>1, <2>2, <2>3, <2>4, KnowRequestKeeps
<1>5. CASE delete_kb
  <2>1. /\ kb' = FALSE /\ doc' = [d \in Docs |-> "none"] /\ chunks' = {}
        /\ job' = enqueue(job, <<"purge", KB>>) /\ UNCHANGED <<file, up, w>>
    BY Zenon, <1>5 DEF delete_kb
  <2>2. /\ DOMAIN job' = KnowKeys /\ \A j \in KnowKeys : DOMAIN job'[j] = {"state", "tries"}
        /\ \A j \in KnowKeys : job'[j].state # "none" <=> (j = <<"purge", KB>> \/ job[j].state # "none")
    BY Zenon, <1>0, <2>1, KnowKeysKeeps, KnowEnqueue
  <2>3. KnowPurges'
    <3>1. \A d \in Docs : job'[<<"purge", d>>].state # "none" => up'[d] = "over"
      BY Zenon, <1>0, <2>1, <2>2, KnowKeysKeeps
    <3> QED BY Zenon, <2>1, <3>1
  <2>4. ServedWhole' /\ RowHasBytes'
    BY Zenon, <2>1
  <2> QED BY Zenon, <1>0, <2>1, <2>2, <2>3, <2>4, KnowRequestKeeps
<1> QED BY Zenon, <1>1, <1>2, <1>3, <1>4, <1>5 DEF KnowRequest

(* The worker's steps that move a job: it stays known. *)
LEMMA KnowJobSteps ==
  ASSUME KnowInv,
         \/ \E k \in KnowKeys : claim(k) \/ reap(k)
         \/ complete \/ fail \/ KnowPrepare \/ KnowCrash
  PROVE  KnowInv'
<1>0. /\ KnowTypes /\ KnowWorker /\ DOMAIN job = KnowKeys /\ DOMAIN w = {"pc", "key", "mark"}
      /\ \A k \in KnowKeys : DOMAIN job[k] = {"state", "tries"}
  BY Zenon DEF KnowInv, KnowTypes
<1>1. ASSUME NEW k \in KnowKeys, claim(k)
      PROVE  KnowInv'
  <2>1. /\ job[k].state = "available" /\ job' = [job EXCEPT ![k] = [state |-> "claimed", tries |-> @.tries + 1]]
        /\ w' = [pc |-> IF k[1] = "purge" THEN "purge" ELSE "read", key |-> k, mark |-> "none"]
        /\ UNCHANGED <<kb, doc, chunks, file, up>>
    BY Zenon, <1>1 DEF claim
  <2>2. /\ DOMAIN job' = KnowKeys /\ \A j \in KnowKeys : DOMAIN job'[j] = {"state", "tries"}
        /\ \A j \in KnowKeys : job'[j].state # "none" <=> job[j].state # "none"
        /\ job'[k].state # "none"
    BY Zenon, <1>0, <2>1
  <2>3. DOMAIN w' = {"pc", "key", "mark"} /\ KnowWorker'
    BY Zenon, <2>1, <2>2, KnowKeysKeeps DEF KnowWorker, KnowKeys
  <2> QED BY Zenon, <2>1, <2>2, <2>3, KnowJobs
<1>2. ASSUME NEW k \in KnowKeys, NEW s, s # "none", job[k].state # "none", job' = [job EXCEPT ![k].state = s]
      PROVE  /\ DOMAIN job' = KnowKeys /\ \A j \in KnowKeys : DOMAIN job'[j] = {"state", "tries"}
             /\ \A j \in KnowKeys : job'[j].state # "none" <=> job[j].state # "none"
  BY Zenon, <1>0, <1>2
<1>3. \A k \in KnowKeys, b \in BOOLEAN : Failed(k, b) \in {"available", "dead"}
  BY Zenon DEF Failed
<1>4. ASSUME NEW k \in KnowKeys, reap(k)
      PROVE  KnowInv'
  <2>1. /\ job[k].state # "none" /\ UNCHANGED <<kb, doc, chunks, file, up, w>>
        /\ job' = [job EXCEPT ![k].state = Failed(k, TRUE)]
    BY Zenon, <1>4 DEF reap
  <2>2. PICK s \in {"available", "dead"} : s = Failed(k, TRUE)
    BY Zenon, <1>3
  <2>3. /\ DOMAIN job' = KnowKeys /\ \A j \in KnowKeys : DOMAIN job'[j] = {"state", "tries"}
        /\ \A j \in KnowKeys : job'[j].state # "none" <=> job[j].state # "none"
    BY Zenon, <1>2, <2>1, <2>2
  <2>4. KnowWorker' /\ DOMAIN w' = {"pc", "key", "mark"}
    BY Zenon, <1>0, <2>1, <2>3 DEF KnowWorker, KnowKeys
  <2> QED BY Zenon, <2>1, <2>3, <2>4, KnowJobs
<1>5. CASE complete
  <2>1. /\ w.pc = "complete" /\ w' = KnowIdle /\ UNCHANGED <<kb, doc, chunks, file, up>>
        /\ UNCHANGED job \/ job' = [job EXCEPT ![w.key].state = "done"]
    BY Zenon, <1>5 DEF complete, KnowAt
  <2>2. w.key \in KnowKeys /\ job[w.key].state # "none"
    BY Zenon, <1>0, <2>1 DEF KnowWorker
  <2>3. /\ DOMAIN job' = KnowKeys /\ \A j \in KnowKeys : DOMAIN job'[j] = {"state", "tries"}
        /\ \A j \in KnowKeys : job'[j].state # "none" <=> job[j].state # "none"
    BY Zenon, <1>0, <1>2, <2>1, <2>2
  <2>4. DOMAIN w' = {"pc", "key", "mark"} /\ KnowWorker'
    BY Zenon, <2>1 DEF KnowWorker, KnowIdle
  <2> QED BY Zenon, <2>1, <2>3, <2>4, KnowJobs
<1>6. CASE fail
  <2>1. PICK s \in {"available", "dead"} : s = Failed(w.key, KnowAt("fail"))
    BY Zenon DEF Failed
  <2>2. /\ w.pc \in {"fail", "timeout"} /\ UNCHANGED <<kb, doc, chunks, file, up>>
        /\ UNCHANGED job \/ job' = [job EXCEPT ![w.key].state = s]
        /\ w' = KnowIdle \/ \E mark \in {"PENDING", "FAILED"} : KnowGoto("mark", mark)
    BY Zenon, <1>6, <2>1 DEF fail
  <2>3. w.key \in KnowKeys /\ job[w.key].state # "none" /\ w.key[1] = "ingest" /\ w.key[2] \in Docs
    BY Zenon, <1>0, <2>2 DEF KnowWorker
  <2>4. /\ DOMAIN job' = KnowKeys /\ \A j \in KnowKeys : DOMAIN job'[j] = {"state", "tries"}
        /\ \A j \in KnowKeys : job'[j].state # "none" <=> job[j].state # "none"
    BY Zenon, <1>0, <1>2, <2>2, <2>3
  <2>5. DOMAIN w' = {"pc", "key", "mark"} /\ KnowWorker'
    <3>1. CASE w' = KnowIdle
      BY Zenon, <3>1 DEF KnowWorker, KnowIdle
    <3>2. ASSUME NEW mark \in {"PENDING", "FAILED"}, KnowGoto("mark", mark)
          PROVE  DOMAIN w' = {"pc", "key", "mark"} /\ KnowWorker'
      <4>1. DOMAIN w' = {"pc", "key", "mark"} /\ w'.pc = "mark" /\ w'.mark = mark /\ w'.key = w.key
        BY Zenon, <1>0, <3>2 DEF KnowGoto
      <4> QED BY Zenon, <2>3, <2>4, <4>1 DEF KnowWorker, KnowKeys
    <3> QED BY Zenon, <2>2, <3>1, <3>2
  <2> QED BY Zenon, <2>2, <2>4, <2>5, KnowJobs
<1>7. CASE KnowPrepare
  <2>1. /\ w.pc = "prepare" /\ UNCHANGED <<kb, doc, chunks, file, up, job>>
        /\ \E pc \in {"index", "fail", "timeout", "mark_then_complete"}, mark \in {"none", "FAILED"} :
             KnowGoto(pc, mark) /\ (pc = "mark_then_complete" => mark = "FAILED")
    BY Zenon, <1>7 DEF KnowPrepare, KnowAt
  <2>2. PICK pc \in {"index", "fail", "timeout", "mark_then_complete"}, mark \in {"none", "FAILED"} :
          KnowGoto(pc, mark) /\ (pc = "mark_then_complete" => mark = "FAILED")
    BY Zenon, <2>1
  <2>3. DOMAIN w' = {"pc", "key", "mark"} /\ w'.pc = pc /\ w'.mark = mark /\ w'.key = w.key
    BY Zenon, <1>0, <2>2 DEF KnowGoto
  <2>4. KnowWorker'
    BY Zenon, <1>0, <2>1, <2>2, <2>3 DEF KnowWorker, KnowKeys
  <2> QED BY Zenon, <1>0, <2>1, <2>3, <2>4, KnowJobs
<1>8. CASE KnowCrash
  <2>1. w' = KnowIdle /\ UNCHANGED <<kb, doc, chunks, file, up, job>>
    BY Zenon, <1>8 DEF KnowCrash
  <2>2. DOMAIN w' = {"pc", "key", "mark"} /\ KnowWorker'
    BY Zenon, <2>1 DEF KnowWorker, KnowIdle
  <2> QED BY Zenon, <1>0, <2>1, <2>2, KnowJobs
<1> QED BY Zenon, <1>1, <1>4, <1>5, <1>6, <1>7, <1>8

(* The worker's and the sweep's transactions on the rows. *)
LEMMA KnowRowSteps ==
  ASSUME KnowInv, ReadDocument \/ Index \/ mark_failed \/ fail_abandoned
  PROVE  KnowInv'
<1> USE DEF ServedWhole
<1>0. /\ KnowTypes /\ KnowWorker /\ ServedWhole /\ DOMAIN doc = Docs /\ DOMAIN w = {"pc", "key", "mark"}
  BY Zenon DEF KnowInv, KnowTypes
<1>1. UNCHANGED <<kb, file, up, job>>
  BY Zenon DEF ReadDocument, Index, mark_failed, fail_abandoned
<1>2. CASE fail_abandoned
  <2>1. /\ UNCHANGED <<chunks, w>> /\ DOMAIN doc' = Docs
        /\ \A d \in Docs : doc'[d] = doc[d] \/ (doc[d] # "none" /\ doc'[d] = "FAILED")
    BY Zenon, <1>2 DEF fail_abandoned
  <2>2. KnowWorker'
    BY Zenon, <1>0, <1>1, <2>1 DEF KnowWorker, KnowKeys
  <2> QED BY Zenon, <1>0, <1>1, <2>1, <2>2, KnowStates
<1>3. ASSUME ReadDocument \/ Index \/ mark_failed
      PROVE  KnowInv'
  <2>1. w.pc \notin {"idle", "complete", "purge"}
    BY Zenon, <1>3 DEF ReadDocument, Index, mark_failed, KnowAt
  <2>2. w.key \in KnowKeys /\ job[w.key].state # "none" /\ w.key[1] = "ingest" /\ D \in Docs
    BY Zenon, <1>0, <2>1 DEF KnowWorker, D
  <2>3. DOMAIN w' = {"pc", "key", "mark"} /\ KnowWorker'
    <3>1. CASE w' = KnowIdle
      BY Zenon, <3>1 DEF KnowWorker, KnowIdle
    <3>2. CASE w' # KnowIdle
      <4>1. PICK pc \in {"complete", "prepare"} : \E mark : w' = [w EXCEPT !.pc = pc, !.mark = mark]
        <5>1. CASE mark_failed
          <6>1. w' = [w EXCEPT !.pc = "complete"]
            BY Zenon, <3>2, <5>1 DEF mark_failed
          <6>2. w' = [w EXCEPT !.pc = "complete", !.mark = w.mark]
            BY Zenon, <1>0, <6>1
          <6> QED BY Zenon, <6>2
        <5>2. CASE ReadDocument \/ Index
          BY Zenon, <5>2 DEF ReadDocument, Index, KnowGoto
        <5> QED BY Zenon, <1>3, <5>1, <5>2
      <4>2. DOMAIN w' = {"pc", "key", "mark"} /\ w'.pc = pc /\ w'.key = w.key
        BY Zenon, <1>0, <4>1
      <4> QED BY Zenon, <1>1, <2>2, <4>2 DEF KnowWorker, KnowKeys, D
    <3> QED BY Zenon, <3>1, <3>2
  <2>4. /\ DOMAIN doc' = Docs /\ \A d \in Docs : doc'[d] # "none" <=> doc[d] # "none"
        /\ ServedWhole'
    <3>1. CASE Index
      BY Zenon, <1>0, <2>2, <3>1 DEF Index
    <3>2. CASE ReadDocument
      BY Zenon, <1>0, <2>2, <3>2 DEF ReadDocument
    <3>3. CASE mark_failed
      <4>1. w.mark \in {"FAILED", "PENDING"} /\ UNCHANGED chunks
        BY Zenon, <1>0, <3>3 DEF mark_failed, KnowWorker
      <4> QED BY Zenon, <1>0, <2>2, <3>3, <4>1 DEF mark_failed, Marked
    <3> QED BY Zenon, <1>3, <3>1, <3>2, <3>3
  <2> QED BY Zenon, <1>1, <2>3, <2>4, KnowStates
<1> QED BY Zenon, <1>2, <1>3

(* The purge: the bytes of documents whose rows have gone. *)
LEMMA KnowPurge == ASSUME KnowInv, KB \notin Docs, purge PROVE KnowInv'
<1>0. /\ KnowTypes /\ KnowWorker /\ KnowPurges /\ DOMAIN job = KnowKeys /\ DOMAIN w = {"pc", "key", "mark"}
      /\ \A k \in KnowKeys : DOMAIN job[k] = {"state", "tries"}
  BY Zenon DEF KnowInv, KnowTypes
<1>1. w.pc = "purge" /\ w.key \in KnowKeys /\ job[w.key].state # "none" /\ w.key[1] = "purge"
  BY Zenon, <1>0 DEF purge, KnowAt, KnowWorker
<1>2. w.key = <<"purge", D>> /\ D \in Docs \cup {KB}
  BY Zenon, <1>1, KnowKeysKeeps DEF D
<1>3. CASE file' = Purged /\ KnowGoto("complete", "none") /\ UNCHANGED job
  <2>1. UNCHANGED <<kb, doc, chunks, up>>
    BY Zenon DEF purge
  <2>2. /\ DOMAIN w' = {"pc", "key", "mark"} /\ w'.pc = "complete" /\ w'.key = w.key
    BY Zenon, <1>0, <1>3 DEF KnowGoto
  <2>3. KnowTypes' /\ KnowWorker'
    BY Zenon, <1>0, <1>1, <1>3, <2>1, <2>2 DEF KnowTypes, KnowWorker, KnowKeys
  <2>4. \A d \in Docs : doc[d] # "none" \/ (up[d] = "moved" /\ kb) => (d \in file => d \in file')
    <3>1. CASE D = KB
      <4>1. ~kb
        BY Zenon, <1>0, <1>1, <1>2, <3>1 DEF KnowPurges
      <4> QED BY Zenon, <1>0, <4>1 DEF KnowPurges
    <3>2. CASE D # KB
      <4>1. D \in Docs /\ doc[D] = "none" /\ up[D] = "over" /\ file' = file \ {D}
        BY Zenon, <1>0, <1>1, <1>2, <1>3, <3>2 DEF KnowPurges, Purged
      <4> QED BY Zenon, <4>1
    <3> QED BY Zenon, <3>1, <3>2
  <2>5. KnowPurges'
    BY Zenon, <1>0, <1>3, <2>1, <2>4 DEF KnowPurges
  <2>6. ServedWhole' /\ RowHasBytes'
    BY Zenon, <2>1, <2>4 DEF KnowInv, ServedWhole, RowHasBytes
  <2> QED BY Zenon, <2>3, <2>5, <2>6 DEF KnowInv
<1>4. CASE w' = KnowIdle /\ UNCHANGED file
  <2>1. PICK s \in {"available", "dead"} : s = Failed(w.key, TRUE)
    BY Zenon DEF Failed
  <2>2. UNCHANGED <<kb, doc, chunks, up>> /\ (UNCHANGED job \/ job' = [job EXCEPT ![w.key].state = s])
    BY Zenon, <1>4, <2>1 DEF purge
  <2>3. /\ DOMAIN job' = KnowKeys /\ \A j \in KnowKeys : DOMAIN job'[j] = {"state", "tries"}
        /\ \A j \in KnowKeys : job'[j].state # "none" <=> job[j].state # "none"
    BY Zenon, <1>0, <1>1, <2>1, <2>2
  <2>4. DOMAIN w' = {"pc", "key", "mark"} /\ KnowWorker'
    BY Zenon, <1>4 DEF KnowWorker, KnowIdle
  <2> QED BY Zenon, <1>4, <2>2, <2>3, <2>4, KnowJobs
<1> QED BY Zenon, <1>3, <1>4 DEF purge

LEMMA KnowSteps == ASSUME KnowInv, KB \notin Docs, [KnowNext]_knowVars PROVE KnowInv'
<1>1. CASE UNCHANGED knowVars
  BY Zenon, <1>1 DEF knowVars, KnowInv, KnowTypes, KnowWorker, KnowPurges, ServedWhole, RowHasBytes,
              KnowKeys
<1> QED BY Zenon, <1>1, KnowRequests, KnowJobSteps, KnowRowSteps, KnowPurge DEF KnowNext, KnowWork

(* For every set of documents and whatever fails: a document shown as READY has
   a complete index, an index belongs to a document that exists, and the bytes
   of a document are there as long as its row is.  A document is not called
   what the key of a whole knowledge base is. *)
THEOREM KnowServed ==
  ASSUME KB \notin Docs
  PROVE  KnowSpec => [](ServedWhole /\ RowHasBytes)
<1>1. KnowInit => KnowInv
  BY Zenon, KnowStarts
<1>2. KnowInv /\ [KnowNext]_knowVars => KnowInv'
  BY Zenon, KnowSteps
<1>3. KnowInv => ServedWhole /\ RowHasBytes
  BY Zenon DEF KnowInv
<1> QED BY <1>1, <1>2, <1>3, PTL DEF KnowSpec

-----------------------------------------------------------------------------
(* Restore: the database, the documents and the key of one device.         *)

RestoredRows == {"clear", "extract", "move", "place", "upgrade", "key", "write_key", "secrets", "done"}
RestoredDocs == {"upgrade", "key", "write_key", "secrets", "done"}

(* What each step of a restore may rely on, whatever was interrupted before. *)
RestoredInv ==
  /\ DOMAIN db = {"rows", "secret", "status", "schema"} /\ DOMAIN op = {"pc", "archive", "withKey"}
  /\ op.pc \in RestoredRows => db.rows = A.rows /\ db.secret = A.secret
  /\ op.pc \in RestoredRows \ {"done"} => db.status = A.status
  /\ op.pc = "extract" => new = {} /\ old = {}
  /\ op.pc = "move" => new = A.docs
  /\ op.pc = "place" => docs \cup new = A.docs
  /\ op.pc \in RestoredDocs => docs = A.docs /\ new = {} /\ old = {}
  /\ op.pc \in RestoredDocs \ {"upgrade"} => db.schema = "head"
  /\ ConnectionsHonest

LEMMA RestoredSteps ==
  ASSUME RestoredInv, [RestoreNext]_restoreVars
  PROVE  RestoredInv'
<1> USE DEF A, RestoreAt, RestoredRows, RestoredDocs, ConnectionsHonest
<1>1. ASSUME DOMAIN db' = {"rows", "secret", "status", "schema"}, DOMAIN op' = {"pc", "archive", "withKey"}, op'.pc = "idle"
      PROVE  RestoredInv'
  BY Zenon, <1>1 DEF RestoredInv
<1>2. CASE RestoreReport \/ RestoreCrash \/ Connect \/ \E e \in Entries : Upload(e)
  <2>1. op'.pc = "idle" /\ DOMAIN op' = {"pc", "archive", "withKey"}
    BY <1>2 DEF RestoreReport, RestoreCrash, Connect, Upload, RestoreReady,
                RestoredInv
  <2>2. DOMAIN db' = {"rows", "secret", "status", "schema"}
    BY ZenonT(30), <1>2 DEF RestoreReport, RestoreCrash, Connect, Upload, RestoredInv
  <2> QED BY Zenon, <1>1, <2>1, <2>2
<1>3. CASE \E a \in Archives, withKey \in BOOLEAN : restore(a, withKey)
  BY <1>3 DEF restore, RestoredInv
<1>4. ASSUME NEW pc, RestoreGoto(pc)
      PROVE  DOMAIN op' = {"pc", "archive", "withKey"} /\ op'.pc = pc /\ op'.archive = op.archive
  BY Zenon, <1>4 DEF RestoreGoto, RestoredInv
<1>5. CASE DropSchema
  BY <1>4, <1>5 DEF DropSchema, Empty, RestoredInv
<1>6. CASE PgRestore
  <2>1. CASE RestoreGoto("clear")
    BY <1>4, <1>6, <2>1 DEF PgRestore, RestoreReady, RestoredInv
  <2>2. CASE op' = RestoreReady /\ UNCHANGED db
    BY Zenon, <1>1, <2>2 DEF RestoreReady, RestoredInv
  <2> QED BY Zenon, <1>6, <2>1, <2>2 DEF PgRestore
<1>7. CASE ClearLeftovers \/ Extract \/ OldMoved \/ Cleanup
  <2>1. CASE ClearLeftovers
    BY <1>4, <2>1 DEF ClearLeftovers, RestoredInv
  <2>2. CASE Extract
    BY <1>4, <2>2 DEF Extract, RestoredInv
  <2>3. CASE OldMoved
    BY <1>4, <2>3 DEF OldMoved, RestoredInv
  <2>4. CASE Cleanup
    BY <1>4, <2>4 DEF Cleanup, RestoredInv
  <2> QED BY Zenon, <1>7, <2>1, <2>2, <2>3, <2>4
<1>8. CASE \E e \in Entries : MoveOld(e) \/ MoveNew(e)
  BY Zenon, <1>8 DEF MoveOld, MoveNew, RestoredInv
<1>9. CASE Upgrade
  <2>1. PICK pc \in {"key", "secrets"} : RestoreGoto(pc)
    BY Zenon, <1>9 DEF Upgrade
  <2>2. /\ DOMAIN db' = {"rows", "secret", "status", "schema"} /\ db'.schema = "head"
        /\ db'.rows = db.rows /\ db'.secret = db.secret /\ db'.status = db.status
        /\ op.pc = "upgrade" /\ UNCHANGED <<docs, new, old, key>>
    BY Zenon, <1>9 DEF Upgrade, RestoredInv
  <2> QED BY Zenon, <1>4, <2>1, <2>2 DEF RestoredInv
<1>10. CASE TruncateKey \/ WriteKey
  <2>1. CASE TruncateKey
    BY <1>4, <2>1 DEF TruncateKey, RestoredInv
  <2>2. CASE WriteKey
    BY <1>4, <2>2 DEF WriteKey, RestoredInv
  <2> QED BY Zenon, <1>10, <2>1, <2>2
<1>11. CASE check_secrets
  <2>1. /\ DOMAIN db' = {"rows", "secret", "status", "schema"} /\ db'.schema = db.schema
        /\ db'.rows = db.rows /\ db'.secret = db.secret
        /\ db'.status = IF Unreadable THEN "attention" ELSE db.status
        /\ op.pc = "secrets" /\ UNCHANGED <<docs, new, old, key>> /\ RestoreGoto("done")
    BY Zenon, <1>11 DEF check_secrets, RestoredInv
  <2> QED BY <1>4, <2>1 DEF RestoredInv, Unreadable
<1>12. CASE UNCHANGED restoreVars
  BY Zenon, <1>12 DEF restoreVars, RestoredInv
<1> QED BY Zenon, <1>2, <1>3, <1>5, <1>6, <1>7, <1>8, <1>9, <1>10, <1>11, <1>12 DEF RestoreNext

(* For every set of archives and wherever restores are interrupted: one that
   reports success has the rows and exactly the documents of its archive, and
   shows as to be reconnected exactly the connections whose secrets the device
   key cannot read. *)
THEOREM RestoredHonest == RestoreSpec => [](RestoredWhole /\ ConnectionsHonest)
<1>1. RestoreInit => RestoredInv
  BY DEF RestoreInit, Empty, RestoreReady, RestoredInv, RestoredRows, RestoredDocs,
         ConnectionsHonest, RestoreAt
<1>2. RestoredInv /\ [RestoreNext]_restoreVars => RestoredInv'
  BY Zenon, RestoredSteps
<1>3. RestoredInv => RestoredWhole /\ ConnectionsHonest
  BY Zenon DEF RestoredInv, RestoredRows, RestoredDocs, RestoredWhole, RestoreAt
<1> QED BY <1>1, <1>2, <1>3, PTL DEF RestoreSpec
=============================================================================
