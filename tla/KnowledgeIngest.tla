--------------------------- MODULE KnowledgeIngest ---------------------------
(***************************************************************************)
(* The documents of one knowledge base: uploads that move bytes and then   *)
(* commit a row, the ingest and purge jobs, the worker that executes them  *)
(* in several transactions, deletion, re-indexing and the sweep.           *)
(***************************************************************************)
EXTENDS Integers, FiniteSets

CONSTANTS Docs,
          MaxIngest, MaxPurge,  \* max_attempts of the two kinds of job
          KnowFaults            \* crash, lapse, error, timeout, lost_upload, purge_error

VARIABLES kb,      \* the knowledge base's row exists
          doc,     \* documents.state, or none
          chunks,  \* documents with the chunks of a complete index
          file,    \* documents whose bytes are in the directory
          up,      \* each upload: new, checked, moved, over
          job,     \* by kind and document: none, available, claimed, done, dead; and tries
          w        \* the worker: pc, the kind and document of its job, the failure to record

knowVars == <<kb, doc, chunks, file, up, job, w>>

KB == "kb"                       \* the purge of the whole directory
KnowKeys == ({"ingest"} \X Docs) \cup ({"purge"} \X (Docs \cup {KB}))
NoJob == [state |-> "none", tries |-> 0]
KnowIdle == [pc |-> "idle", key |-> <<"purge", KB>>, mark |-> "none"]
KnowLive(j) == j.state \in {"available", "claimed"}
KnowMaxTries(k) == IF k[1] = "ingest" THEN MaxIngest ELSE MaxPurge

KnowInit ==
  /\ kb = TRUE /\ doc = [d \in Docs |-> "none"] /\ chunks = {} /\ file = {}
  /\ up = [d \in Docs |-> "new"] /\ job = [k \in KnowKeys |-> NoJob] /\ w = KnowIdle

-----------------------------------------------------------------------------
(* Requests. *)

(* get_kb, the staged and checked file; os.replace; the commit, which fails
   on the foreign key when the knowledge base has gone. *)
Check(d) == up[d] = "new" /\ kb /\ up' = [up EXCEPT ![d] = "checked"] /\ UNCHANGED <<kb, doc, chunks, file, job, w>>

KnowMove(d) ==
  /\ up[d] = "checked" /\ up' = [up EXCEPT ![d] = "moved"] /\ file' = file \cup {d}
  /\ UNCHANGED <<kb, doc, chunks, job, w>>

(* A dedupe key admits one live job. *)
enqueue(js, k) == IF KnowLive(js[k]) THEN js ELSE [js EXCEPT ![k] = [state |-> "available", tries |-> 0]]

upload_KeepsFile(d) ==
  /\ up[d] = "moved" /\ up' = [up EXCEPT ![d] = "over"]
  /\ IF kb
     THEN doc' = [doc EXCEPT ![d] = "PENDING"] /\ job' = enqueue(job, <<"ingest", d>>) /\ UNCHANGED file
     ELSE UNCHANGED <<doc, job, file>>
  /\ UNCHANGED <<kb, chunks, w>>

upload(d) ==
  /\ up[d] = "moved" /\ up' = [up EXCEPT ![d] = "over"]
  /\ IF kb
     THEN doc' = [doc EXCEPT ![d] = "PENDING"] /\ job' = enqueue(job, <<"ingest", d>>) /\ UNCHANGED file
     ELSE file' = file \ {d} /\ UNCHANGED <<doc, job>>
  /\ UNCHANGED <<kb, chunks, w>>

(* The process or its database connection dies before the commit. *)
UploadLost(d) ==
  /\ "lost_upload" \in KnowFaults /\ up[d] = "moved" /\ up' = [up EXCEPT ![d] = "over"]
  /\ UNCHANGED <<kb, doc, chunks, file, job, w>>

delete_document_UnlinksFirst(d) ==
  /\ doc[d] # "none" /\ file' = file \ {d} /\ job' = enqueue(job, <<"purge", d>>)
  /\ UNCHANGED <<kb, doc, chunks, up, w>>

delete_document(d) ==
  /\ doc[d] # "none" /\ doc' = [doc EXCEPT ![d] = "none"] /\ chunks' = chunks \ {d}
  /\ job' = enqueue(job, <<"purge", d>>)
  /\ UNCHANGED <<kb, file, up, w>>

delete_kb ==
  /\ kb /\ kb' = FALSE /\ doc' = [d \in Docs |-> "none"] /\ chunks' = {}
  /\ job' = enqueue(job, <<"purge", KB>>)
  /\ UNCHANGED <<file, up, w>>

reindex_document(d) ==
  /\ doc[d] # "none" /\ doc' = [doc EXCEPT ![d] = "PENDING"]
  /\ job' = enqueue(job, <<"ingest", d>>)
  /\ UNCHANGED <<kb, chunks, file, up, w>>

-----------------------------------------------------------------------------
(* The worker, one job at a time. *)

claim(k) ==
  /\ w.pc = "idle" /\ job[k].state = "available"
  /\ job' = [job EXCEPT ![k] = [state |-> "claimed", tries |-> @.tries + 1]]
  /\ w' = [pc |-> IF k[1] = "purge" THEN "purge" ELSE "read", key |-> k, mark |-> "none"]
  /\ UNCHANGED <<kb, doc, chunks, file, up>>

KnowAt(pc) == w.pc = pc
KnowGoto(pc, mark) == w' = [w EXCEPT !.pc = pc, !.mark = mark]
D == w.key[2]

(* The first transaction of ingest. *)
ReadDocument ==
  /\ KnowAt("read")
  /\ IF doc[D] = "none"
     THEN KnowGoto("complete", "none") /\ UNCHANGED doc
     ELSE doc' = [doc EXCEPT ![D] = "PROCESSING"] /\ KnowGoto("prepare", "none")
  /\ UNCHANGED <<kb, chunks, file, up, job>>

(* Extraction and embedding: done, a permanent problem, an error, or the deadline. *)
KnowPrepare ==
  /\ KnowAt("prepare")
  /\ \/ D \in file /\ KnowGoto("index", "none")
     \/ KnowGoto("mark_then_complete", "FAILED")
     \/ "error" \in KnowFaults /\ KnowGoto("fail", "none")
     \/ "timeout" \in KnowFaults /\ KnowGoto("timeout", "none")
  /\ UNCHANGED <<kb, doc, chunks, file, up, job>>


(* The last transaction of ingest, with the row locked. *)
Index ==
  /\ KnowAt("index") /\ KnowGoto("complete", "none")
  /\ IF doc[D] = "none"
     THEN UNCHANGED <<doc, chunks>>
     ELSE doc' = [doc EXCEPT ![D] = "READY"] /\ chunks' = chunks \cup {D}
  /\ UNCHANGED <<kb, file, up, job>>

Marked == IF doc[D] = "none" THEN doc ELSE [doc EXCEPT ![D] = w.mark]

mark_failed ==
  /\ w.pc \in {"mark_then_complete", "mark"}
  /\ doc' = Marked /\ w' = IF KnowAt("mark") THEN KnowIdle ELSE [w EXCEPT !.pc = "complete"]
  /\ UNCHANGED <<kb, chunks, file, up, job>>

(* Owner checks: a job whose lease was reaped is not touched. *)
complete ==
  /\ KnowAt("complete") /\ w' = KnowIdle
  /\ job' = IF job[w.key].state = "claimed" THEN [job EXCEPT ![w.key].state = "done"] ELSE job
  /\ UNCHANGED <<kb, doc, chunks, file, up>>

Failed(k, retryable) == IF retryable /\ job[k].tries < KnowMaxTries(k) THEN "available" ELSE "dead"

fail ==
  LET after == Failed(w.key, KnowAt("fail")) IN
  /\ w.pc \in {"fail", "timeout"}
  /\ IF job[w.key].state = "claimed"
     THEN /\ job' = [job EXCEPT ![w.key].state = after]
          /\ KnowGoto("mark", IF after = "available" THEN "PENDING" ELSE "FAILED")
     ELSE IF KnowAt("timeout") THEN KnowGoto("mark", "FAILED") /\ UNCHANGED job ELSE w' = KnowIdle /\ UNCHANGED job
  /\ UNCHANGED <<kb, doc, chunks, file, up>>

Purged == IF D = KB THEN {} ELSE file \ {D}

purge ==
  /\ KnowAt("purge")
  /\ \/ file' = Purged /\ KnowGoto("complete", "none") /\ UNCHANGED job
     \/ /\ "purge_error" \in KnowFaults /\ w' = KnowIdle /\ UNCHANGED file
        /\ job' = IF job[w.key].state = "claimed" THEN [job EXCEPT ![w.key].state = Failed(w.key, TRUE)] ELSE job
  /\ UNCHANGED <<kb, doc, chunks, up>>


(* The sweep runs in the worker's loop, between jobs. *)
fail_abandoned ==
  LET abandoned == {d \in Docs : doc[d] \in {"PENDING", "PROCESSING"} /\ ~KnowLive(job[<<"ingest", d>>])} IN
  /\ w.pc = "idle" /\ abandoned # {}
  /\ doc' = [d \in Docs |-> IF d \in abandoned THEN "FAILED" ELSE doc[d]]
  /\ UNCHANGED <<kb, chunks, file, up, job, w>>

KnowCrash == "crash" \in KnowFaults /\ w.pc # "idle" /\ w' = KnowIdle /\ UNCHANGED <<kb, doc, chunks, file, up, job>>

(* The scheduler's reaper, once a lease has expired: its holder is gone, or could not extend it. *)
reap(k) ==
  /\ job[k].state = "claimed" /\ (w.pc = "idle" \/ w.key # k \/ "lapse" \in KnowFaults)
  /\ job' = [job EXCEPT ![k].state = Failed(k, TRUE)]
  /\ UNCHANGED <<kb, doc, chunks, file, up, w>>

KnowWork ==
  \/ \E k \in KnowKeys : claim(k)
  \/ ReadDocument \/ KnowPrepare \/ Index \/ mark_failed \/ complete \/ fail \/ purge \/ fail_abandoned
KnowRequest ==
  \/ \E d \in Docs : Check(d) \/ KnowMove(d) \/ upload(d) \/ UploadLost(d) \/ delete_document(d) \/ reindex_document(d)
  \/ delete_kb
KnowNext == KnowWork \/ KnowRequest \/ KnowCrash \/ \E k \in KnowKeys : reap(k)

KnowSpec == KnowInit /\ [][KnowNext]_knowVars

-----------------------------------------------------------------------------

(* "only then is the document marked READY": what a query may return is a complete index of an
   existing document. *)
ServedWhole == \A d \in Docs : (doc[d] = "READY" => d \in chunks) /\ (d \in chunks => doc[d] # "none")

(* "bytes are removed only after the rows are gone". *)
RowHasBytes == \A d \in Docs : doc[d] # "none" => d \in file

(* A document that is being indexed; each comes to be indexed, failed with a reason, or deleted,
   however the worker dies. *)
Unsettled(d) == doc[d] \in {"PENDING", "PROCESSING"}

(* The bytes of a deleted knowledge base; none stay, those of uploads in progress included. *)
BytesLeft == ~kb /\ file # {}

=============================================================================
