----------------------------- MODULE MCPlatform -----------------------------
(***************************************************************************)
(* Instances for TLC of the components behind the control API and of the   *)
(* model gateway.  subject names the component that moves; the others stay *)
(* in an initial state.  The components are the ones the proofs are about, *)
(* with the constants a configuration gives them: platform.cfg has what    *)
(* the proofs assume of a calm platform, faults.cfg what may fail without  *)
(* breaking a promise.                                                     *)
(***************************************************************************)
EXTENDS PlatformProofs, TLC

CONSTANT Subjects  \* the components of a run

VARIABLE subject   \* the component that moves; it never changes

\* What the theorems assume of the constants, on every instance.
ASSUME HttpKeys /\ HttpReliable /\ HttpHashed
ASSUME ChainParameters /\ BackupParameters /\ KB \notin Docs
ASSUME MemSizes /\ Generative \subseteq Models /\ StoreOrderly /\ LlmParameters
ASSUME Window \in Nat /\ Profiles \subseteq 0..2

-----------------------------------------------------------------------------
(* Constants. *)

\* The routes whose effect is a transaction of the API, and those another service carries out.
LocalRoutes ==
  {"create_run", "run_action", "acknowledge_run", "answer_input_request", "import_agent",
   "create_installation", "update_installation", "delete_installation", "create_schedule",
   "update_schedule", "delete_schedule", "create_session", "create_backup"}
ProxiedRoutes ==
  {"google_test", "google_disconnect", "twilio_save", "twilio_test", "twilio_test_call",
   "twilio_delete", "create_provider_profile", "delete_provider_profile",
   "test_provider_profile", "create_knowledge_base", "delete_knowledge_base",
   "delete_document", "reindex_document", "install_model", "cancel_model_install",
   "unload_model", "delete_model"}

\* Agents approved to start each other.
Others == [x \in Agents |-> Agents \ {x}]

\* Two consents, the second for less and without an account; a call that writes.
TwoAccounts == [c \in Logins |-> IF c = "c1" THEN "ada" ELSE NoAccount]
TwoScopes ==
  [c \in Logins |-> {"gmail.readonly"} \cup (IF c = "c1" THEN {"spreadsheets"} ELSE {})]
Appends == [u \in Users |-> "sheets_append"]

TwoEach == [m \in Models |-> 2]

\* The models are of one size and one kind, and no choice looks at which is which.
Alike == Permutations(Models)

R(h, k, b, s, p, e) == [holder |-> h, key |-> k, body |-> b, stream |-> s, provider |-> p, est |-> e]

\* one key: the request, its retry, another body; and a second key
KeyReq == [a  |-> R("run1", "k", "b1", FALSE, "local", 1),
           a2 |-> R("run1", "k", "b1", FALSE, "local", 1),
           a3 |-> R("run1", "k", "b2", FALSE, "local", 1),
           z  |-> R("run1", "m", "b1", FALSE, "local", 1)]
\* a request and its retry, and the stream of another run; both from a cloud provider
BudgetReq == [a  |-> R("run1", "k", "b1", FALSE, "openai", 2),
              a2 |-> R("run1", "k", "b1", FALSE, "openai", 2),
              c  |-> R("run2", NoKey, "b1", TRUE, "openai", 2)]
KeyRequests == DOMAIN KeyReq
BudgetRequests == DOMAIN BudgetReq

\* Backups of this device and of another, with and without the key, one that needs attention, a
\* damaged one and one of a newer version.
Base == [rows |-> {"e1", "e2"}, docs |-> {"e1", "e2"}, secret |-> "mine", status |-> "ok",
         key |-> "none", intact |-> TRUE, known |-> TRUE]
SixArchives ==
  { Base,
    [Base EXCEPT !.rows = {"e3"}, !.docs = {}, !.secret = "theirs", !.key = "theirs"],
    [Base EXCEPT !.rows = {"e3"}, !.docs = {"e3"}, !.secret = "theirs"],
    [Base EXCEPT !.status = "attention", !.key = "mine"],
    [Base EXCEPT !.intact = FALSE],
    [Base EXCEPT !.known = FALSE] }

\* Several holders share the models while nothing fails but runs, which may be retried; in
\* faults.cfg the failures meet one holder.
Shared == INSTANCE ModelResidency WITH MemFaults <- MemFaults \cap {"retry"}, MaxCrashes <- 0

-----------------------------------------------------------------------------
(* Of a component with several initial states, the one it rests in. *)
HttpRests ==
  /\ route = Routes[CHOOSE n \in Named : TRUE]
  /\ \A r \in HttpRequests : httpReq[r].key = HttpNoKey /\ httpReq[r].body = CHOOSE b \in Bodies(route) : TRUE
ChatRests == mode = (CHOOSE m \in Modes : TRUE) /\ \A t \in Toggles : toggle[t].op = "enable"

vars == <<subject,
  httpVars, chatVars, chainVars, installVars, memVars, storeVars,
  llmVars, cloudVars, googleVars, knowVars, backupVars, restoreVars>>

Init ==
  /\ subject \in Subjects
  /\ HttpInit /\ (subject # "http" => HttpRests)
  /\ ChatInit /\ (subject # "chat" => ChatRests)
  /\ ChainInit /\ InstallInit /\ MemInit /\ StoreInit /\ LlmInit
  /\ CloudInit /\ GoogleInit /\ KnowInit /\ BackupInit /\ RestoreInit

\* Only c moves.
Stay(c) ==
  /\ UNCHANGED subject
  /\ c # "http" => UNCHANGED httpVars
  /\ c # "chat" => UNCHANGED chatVars
  /\ c # "chain" => UNCHANGED chainVars
  /\ c # "installs" => UNCHANGED installVars
  /\ c # "memory" => UNCHANGED memVars
  /\ c # "store" => UNCHANGED storeVars
  /\ c # "llm" => UNCHANGED llmVars
  /\ c # "keys" => UNCHANGED cloudVars
  /\ c # "google" => UNCHANGED googleVars
  /\ c # "knowledge" => UNCHANGED knowVars
  /\ c # "backups" => UNCHANGED backupVars
  /\ c # "restore" => UNCHANGED restoreVars

\* Only holders that are not runs ask for models.
RunsRest == \A h \in RunHolders : use'[h] = use[h] /\ act'[h] = act[h]

Next ==
  \/ subject = "http" /\ HttpNext /\ Stay("http")
  \/ subject = "chat" /\ ChatNext /\ Stay("chat")
  \/ subject = "chain" /\ ChainNext /\ Stay("chain")
  \/ subject = "installs" /\ InstallNext /\ Stay("installs")
  \/ subject = "store" /\ StoreNext /\ Stay("store")
  \/ subject = "llm" /\ LlmNext /\ Stay("llm")
  \/ subject = "keys" /\ CloudNext /\ Stay("keys")
  \/ subject = "google" /\ GoogleNext /\ Stay("google")
  \/ subject = "knowledge" /\ KnowNext /\ Stay("knowledge")
  \/ subject = "backups" /\ BackupNext /\ Stay("backups")
  \/ subject = "restore" /\ RestoreNext /\ Stay("restore")
  \/ subject = "memory" /\ MemNext /\ RunsRest /\ Stay("memory")
  \/ subject = "sharing" /\ Shared!MemNext /\ Stay("memory")

Spec == Init /\ [][Next]_vars
=============================================================================
