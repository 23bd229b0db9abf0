------------------------------- MODULE Restore -------------------------------
(***************************************************************************)
(* A restore on the device: verification, the database, the documents, the *)
(* migrations, the master key, and the check of the stored secrets. It may *)
(* be interrupted anywhere and started again with another backup, and      *)
(* between two restores the platform is used.                              *)
(***************************************************************************)
EXTENDS FiniteSets

CONSTANTS Archives,   \* [rows, docs, secret, status, key, intact, known]
          Entries,    \* the top-level entries of the document store
          RestoreFaults \* crash, pg

VARIABLES db,     \* rows, the key of the stored secret (none: no connection), the connection's status, the schema
          docs,   \* the entries of the document store
          new,    \* .restore-new
          old,    \* .restore-old
          key,    \* the device master key: its name, or torn
          op      \* the operation: pc, the archive, whether the key is to be restored

restoreVars == <<db, docs, new, old, key, op>>

Empty == [rows |-> {}, secret |-> "none", status |-> "none", schema |-> "empty"]
RestoreReady == [pc |-> "idle", archive |-> CHOOSE a \in Archives : TRUE, withKey |-> FALSE]
RestoreAt(pc) == op.pc = pc
RestoreGoto(pc) == op' = [op EXCEPT !.pc = pc]
A == op.archive

RestoreInit ==
  /\ db = [Empty EXCEPT !.schema = "head"] /\ docs = {} /\ new = {} /\ old = {}
  /\ key = "mine" /\ op = RestoreReady

-----------------------------------------------------------------------------
(* The platform between two restores; the owner connects an account. *)
Upload(e) ==
  /\ RestoreAt("idle") /\ db.schema = "head" /\ e \notin docs /\ docs' = docs \cup {e}
  /\ db' = [db EXCEPT !.rows = @ \cup {e}] /\ UNCHANGED <<new, old, key, op>>

Connect ==
  /\ RestoreAt("idle") /\ db.schema = "head" /\ key # "torn"
  /\ db' = [db EXCEPT !.secret = key, !.status = "ok"] /\ UNCHANGED <<docs, new, old, key, op>>

-----------------------------------------------------------------------------
(* restore, up to the first change: checksums, migration head, the key asked for. *)
Accepted(a, withKey) == a.intact /\ a.known /\ (withKey => a.key # "none")

restore(a, withKey) ==
  /\ RestoreAt("idle") /\ Accepted(a, withKey)
  /\ op' = [pc |-> "drop", archive |-> a, withKey |-> withKey]
  /\ UNCHANGED <<db, docs, new, old, key>>

(* restore_database: the schema is dropped in a transaction of its own. *)
DropSchema == RestoreAt("drop") /\ db' = Empty /\ RestoreGoto("pg") /\ UNCHANGED <<docs, new, old, key>>

PgRestore ==
  /\ RestoreAt("pg")
  /\ \/ /\ db' = [rows |-> A.rows, secret |-> A.secret, status |-> A.status, schema |-> "archived"]
        /\ RestoreGoto("clear")
     \/ "pg" \in RestoreFaults /\ op' = RestoreReady /\ UNCHANGED db
  /\ UNCHANGED <<docs, new, old, key>>

(* restore_documents. *)
ClearLeftovers_Skipped == RestoreAt("clear") /\ RestoreGoto("extract") /\ UNCHANGED <<db, docs, new, old, key>>
ClearLeftovers == RestoreAt("clear") /\ new' = {} /\ old' = {} /\ RestoreGoto("extract") /\ UNCHANGED <<db, docs, key>>

Extract == RestoreAt("extract") /\ new' = new \cup A.docs /\ RestoreGoto("move") /\ UNCHANGED <<db, docs, old, key>>

MoveOld(e) ==
  /\ RestoreAt("move") /\ e \in docs /\ docs' = docs \ {e} /\ old' = old \cup {e}
  /\ UNCHANGED <<db, new, key, op>>

OldMoved == RestoreAt("move") /\ docs = {} /\ RestoreGoto("place") /\ UNCHANGED <<db, docs, new, old, key>>

MoveNew(e) ==
  /\ RestoreAt("place") /\ e \in new /\ new' = new \ {e} /\ docs' = docs \cup {e}
  /\ UNCHANGED <<db, old, key, op>>

Cleanup == RestoreAt("place") /\ new = {} /\ old' = {} /\ RestoreGoto("upgrade") /\ UNCHANGED <<db, docs, new, key>>

(* alembic upgrade head. *)
Upgrade ==
  /\ RestoreAt("upgrade") /\ db' = [db EXCEPT !.schema = "head"]
  /\ RestoreGoto(IF op.withKey THEN "key" ELSE "secrets") /\ UNCHANGED <<docs, new, old, key>>

(* The file is truncated, then written. *)
TruncateKey == RestoreAt("key") /\ key' = "torn" /\ RestoreGoto("write_key") /\ UNCHANGED <<db, docs, new, old>>
WriteKey == RestoreAt("write_key") /\ key' = A.key /\ RestoreGoto("secrets") /\ UNCHANGED <<db, docs, new, old>>

(* check_secrets; without a readable key every secret counts as unreadable. *)
Unreadable_NoKey == db.secret # "none" /\ key # "torn" /\ db.secret # key
Unreadable == db.secret # "none" /\ db.secret # key

check_secrets ==
  /\ RestoreAt("secrets") /\ db' = IF Unreadable THEN [db EXCEPT !.status = "attention"] ELSE db
  /\ RestoreGoto("done") /\ UNCHANGED <<docs, new, old, key>>

RestoreReport == RestoreAt("done") /\ op' = RestoreReady /\ UNCHANGED <<db, docs, new, old, key>>

RestoreCrash ==
  /\ "crash" \in RestoreFaults /\ op.pc \notin {"idle", "done"} /\ op' = RestoreReady
  /\ UNCHANGED <<db, docs, new, old, key>>

RestoreNext ==
  \/ Connect \/ DropSchema \/ PgRestore \/ ClearLeftovers \/ Extract \/ OldMoved \/ Cleanup
  \/ Upgrade \/ TruncateKey \/ WriteKey \/ check_secrets \/ RestoreReport \/ RestoreCrash
  \/ \E e \in Entries : Upload(e) \/ MoveOld(e) \/ MoveNew(e)
  \/ \E a \in Archives, withKey \in BOOLEAN : restore(a, withKey)

RestoreSpec == RestoreInit /\ [][RestoreNext]_restoreVars

-----------------------------------------------------------------------------
(* A restore that reports success has the rows and exactly the documents of its
   archive, whatever earlier restores left behind when they were interrupted. *)
RestoredWhole ==
  RestoreAt("done") => /\ db.rows = A.rows /\ db.secret = A.secret /\ db.schema = "head"
                       /\ docs = A.docs /\ new = {} /\ old = {}

(* After a restore a connection the device key can read keeps its status, and any
   other is shown to the owner as one to reconnect, also when an earlier restore
   died while it wrote the key. *)
ConnectionsHonest ==
  RestoreAt("done") /\ db.secret # "none" => db.status = IF db.secret = key THEN A.status ELSE "attention"
=============================================================================
