-------------------------- MODULE HttpIdempotency ---------------------------
(***************************************************************************)
(* Requests of the owner that carry an Idempotency-Key                     *)
(* (control_api/idempotency.py).  begin() inserts a record under the key,  *)
(* finish() stores the answer in it and commits.  Both happen in one       *)
(* transaction with the effect of the request, unless the effect is a call *)
(* to another service (_proxied, _model_action, the knowledge routes).     *)
(*                                                                         *)
(* A request is one arrival at the server; a client that repeats itself is *)
(* another request with the same key.  The server may crash, and the       *)
(* answer of a service may be lost although the service did the work.      *)
(***************************************************************************)
EXTENDS Naturals, Sequences, FiniteSets

CONSTANTS HttpRequests, \* arrivals
          RequestKeys, \* values of the header
          Named,      \* names of the routes of an instance
          HttpFaults  \* a subset of {"crash", "lost"}

VARIABLES route,      \* the route the requests are for
          record,     \* the committed rows of idempotency_records
          httpReq,    \* the requests
          effects     \* what was executed under each key, in order

httpVars == <<route, record, httpReq, effects>>

(* What a route takes from the request, which of it goes into the hash,    *)
(* and whether the effect is another service's.  The path always does.     *)
Local(fields) == [fields |-> fields, hashed |-> fields, remote |-> FALSE]
Proxy(fields, hashed) == [fields |-> fields, hashed |-> hashed, remote |-> TRUE]
Whole == {"body"}

route_create_run == Local(Whole)
run_action == Local({})
acknowledge_run == Local({})
answer_input_request == Local(Whole)
import_agent == Local(Whole)
route_create_installation == Local(Whole)
update_installation == Local(Whole)
route_delete_installation == Local({})
create_schedule == Local(Whole)
update_schedule == Local(Whole)
delete_schedule == Local({})
create_session == Local(Whole)
create_backup == Local({})
google_test == Proxy({}, {})
google_disconnect == Proxy({}, {})
twilio_save == LET body == {"accountSid", "authToken", "fromNumber"} IN Proxy(body, body)
twilio_test == Proxy({}, {})
twilio_test_call == Proxy({"to", "confirm"}, {"to", "confirm"})
start_voice_call == Proxy({"to", "confirm", "voice", "instructions"}, {"to", "confirm", "voice"})
twilio_delete == Proxy({}, {})
create_provider_profile == Proxy({"payload", "apiKey"}, {"payload", "apiKey"})
delete_provider_profile == Proxy({}, {})
test_provider_profile == Proxy({}, {})
create_knowledge_base == Proxy(Whole, Whole)
delete_knowledge_base == Proxy({}, {})
route_delete_document == Proxy({}, {})
route_reindex_document == Proxy({}, {})
install_model == Proxy({}, {})
cancel_model_install == Proxy({"clear"}, {"clear"})
unload_model == Proxy({"force"}, {"force"})
delete_model == Proxy({}, {})

Routes ==
  [create_run |-> route_create_run, run_action |-> run_action, acknowledge_run |-> acknowledge_run,
   answer_input_request |-> answer_input_request, import_agent |-> import_agent,
   create_installation |-> route_create_installation, update_installation |-> update_installation,
   delete_installation |-> route_delete_installation, create_schedule |-> create_schedule,
   update_schedule |-> update_schedule, delete_schedule |-> delete_schedule,
   create_session |-> create_session, create_backup |-> create_backup,
   google_test |-> google_test, google_disconnect |-> google_disconnect,
   twilio_save |-> twilio_save, twilio_test |-> twilio_test,
   twilio_test_call |-> twilio_test_call, start_voice_call |-> start_voice_call,
   twilio_delete |-> twilio_delete, create_provider_profile |-> create_provider_profile,
   delete_provider_profile |-> delete_provider_profile,
   test_provider_profile |-> test_provider_profile,
   create_knowledge_base |-> create_knowledge_base,
   delete_knowledge_base |-> delete_knowledge_base, delete_document |-> route_delete_document,
   reindex_document |-> route_reindex_document, install_model |-> install_model,
   cancel_model_install |-> cancel_model_install, unload_model |-> unload_model,
   delete_model |-> delete_model]

-----------------------------------------------------------------------------
(* A body is a value for every field; two that differ in one field, or in  *)
(* the path alone, are enough to ask whether the hash tells them apart.    *)
Fields(r) == {"path"} \cup r.fields
Bodies(r) == LET plain == [f \in Fields(r) |-> 1]
             IN  {plain} \cup {[plain EXCEPT ![f] = 2] : f \in Fields(r)}

digest(body) == [f \in {"path"} \cup route.hashed |-> body[f]]

HttpNoKey == "no key"
NoRecord == [digest |-> <<>>, status |-> "absent", answer |-> 0]
Known(k) == IF k = HttpNoKey THEN FALSE ELSE record[k] # NoRecord
Pending(r, pc) == httpReq[r].pc = pc
Inserted(r) == httpReq[r].pc \in {"begun", "worked"}

HttpInit ==
  /\ \E n \in Named : route = Routes[n]
  /\ record = [k \in RequestKeys |-> NoRecord]
  /\ httpReq \in [HttpRequests -> {[pc |-> "new", key |-> k, body |-> b, answer |-> 0]
                             : k \in RequestKeys \cup {HttpNoKey}, b \in Bodies(route)}]
  /\ effects = [k \in RequestKeys \cup {HttpNoKey} |-> <<>>]

HttpAnswer(r, pc, n) == httpReq' = [httpReq EXCEPT ![r].pc = pc, ![r].answer = n]

(* begin(): the insert waits for a transaction that has inserted the key.  *)
begin_Committed(r) ==
  /\ Pending(r, "new")
  /\ LET k == httpReq[r].key
         d == digest(httpReq[r].body)
     IN  \/ /\ ~Known(k)
            /\ record' = IF k = HttpNoKey THEN record
                         ELSE [record EXCEPT ![k] = [digest |-> d, status |-> "none", answer |-> 0]]
            /\ HttpAnswer(r, "begun", 0)
         \/ /\ Known(k)
            /\ CASE record[k].digest # d -> HttpAnswer(r, "KEY_REUSED", 0)
                 [] record[k].status = "none" -> HttpAnswer(r, "IN_PROGRESS", 0)
                 [] OTHER -> HttpAnswer(r, "ok", record[k].answer)
            /\ UNCHANGED record
  /\ UNCHANGED <<route, effects>>

begin_NoWait(r) ==
  /\ Pending(r, "new")
  /\ LET k == httpReq[r].key
     IN  \/ ~Known(k) /\ HttpAnswer(r, "begun", 0)
         \/ /\ Known(k)
            /\ IF record[k].digest # digest(httpReq[r].body) THEN HttpAnswer(r, "KEY_REUSED", 0)
               ELSE HttpAnswer(r, "ok", record[k].answer)
  /\ UNCHANGED <<route, record, effects>>

begin_NoDigest(r) ==
  /\ Pending(r, "new")
  /\ LET k == httpReq[r].key
     IN  \/ /\ ~Known(k)
            /\ \A q \in HttpRequests : (Inserted(q) /\ httpReq[q].key = k) => k = HttpNoKey
            /\ HttpAnswer(r, "begun", 0)
         \/ /\ Known(k)
            /\ HttpAnswer(r, "ok", record[k].answer)
  /\ UNCHANGED <<route, record, effects>>

begin(r) ==
  /\ Pending(r, "new")
  /\ LET k == httpReq[r].key
     IN  \/ /\ ~Known(k)
            /\ \A q \in HttpRequests : (Inserted(q) /\ httpReq[q].key = k) => k = HttpNoKey
            /\ HttpAnswer(r, "begun", 0)
         \/ /\ Known(k)
            /\ CASE record[k].digest # digest(httpReq[r].body) -> HttpAnswer(r, "KEY_REUSED", 0)
                 [] record[k].status = "none" -> HttpAnswer(r, "IN_PROGRESS", 0)
                 [] OTHER -> HttpAnswer(r, "ok", record[k].answer)
  /\ UNCHANGED <<route, record, effects>>

Executed(r) == effects' = [effects EXCEPT ![httpReq[r].key] = Append(@, httpReq[r].body)]

(* The handler's own work; its rows are seen when finish() commits.  A     *)
(* handler that raises leaves nothing, its record included.                *)
HttpWork(r) ==
  /\ Pending(r, "begun") /\ ~route.remote
  /\ HttpAnswer(r, "worked", 0) \/ HttpAnswer(r, "refused", 0)
  /\ UNCHANGED <<route, record, effects>>

(* ServiceClient.request: the service did it, refused it, or did it and    *)
(* the answer did not arrive, which raises like a refusal.                 *)
Call_Retried(r) ==
  /\ Pending(r, "begun") /\ route.remote
  /\ effects' = [effects EXCEPT ![httpReq[r].key] = @ \o <<httpReq[r].body, httpReq[r].body>>]
  /\ HttpAnswer(r, "worked", Len(effects'[httpReq[r].key]))
  /\ UNCHANGED <<route, record>>

HttpCall(r) ==
  /\ Pending(r, "begun") /\ route.remote
  /\ \/ Executed(r) /\ HttpAnswer(r, "worked", Len(effects'[httpReq[r].key]))
     \/ HttpAnswer(r, "refused", 0) /\ UNCHANGED effects
     \/ "lost" \in HttpFaults /\ Executed(r) /\ HttpAnswer(r, "unavailable", 0)
  /\ UNCHANGED <<route, record>>

(* finish(): the answer is stored and everything commits.                  *)
finish(r) ==
  /\ Pending(r, "worked")
  /\ IF route.remote THEN HttpAnswer(r, "ok", httpReq[r].answer) /\ UNCHANGED effects
     ELSE Executed(r) /\ HttpAnswer(r, "ok", Len(effects'[httpReq[r].key]))
  /\ record' = IF httpReq[r].key = HttpNoKey THEN record
               ELSE [record EXCEPT ![httpReq[r].key] =
                       [digest |-> digest(httpReq[r].body), status |-> "ok",
                        answer |-> httpReq'[r].answer]]
  /\ UNCHANGED route

(* The process dies: open transactions roll back, callers get no answer.   *)
HttpCrash ==
  /\ "crash" \in HttpFaults
  /\ \E r \in HttpRequests : Inserted(r)
  /\ httpReq' = [r \in HttpRequests |-> IF Inserted(r) THEN [httpReq[r] EXCEPT !.pc = "no answer"]
                                ELSE httpReq[r]]
  /\ UNCHANGED <<route, record, effects>>

HttpNext ==
  \/ \E r \in HttpRequests : begin(r) \/ HttpWork(r) \/ HttpCall(r) \/ finish(r)
  \/ HttpCrash

HttpSpec == HttpInit /\ [][HttpNext]_httpVars

-----------------------------------------------------------------------------
(* Repeating a request under its key, at the same time or later, after an  *)
(* answer, an error or a crash, does not do it again: "never dials twice". *)
DoneOnce == \A k \in RequestKeys : Len(effects[k]) <= 1

(* "a retry with a different body is rejected": whoever is told that the   *)
(* request succeeded is told so of the request they made, in every field.  *)
AnswerFitsRequest ==
  \A r \in HttpRequests :
    Pending(r, "ok") => effects[httpReq[r].key][httpReq[r].answer] = httpReq[r].body

(* The effect and the record are one: what was done under a key is         *)
(* answered from the record, and a refused or crashed request leaves the   *)
(* key free for the next try instead of "still being processed".           *)
RecordMeansDone ==
  /\ \A k \in RequestKeys : (record[k] # NoRecord) <=> (Len(effects[k]) > 0)
  /\ \A r \in HttpRequests : ~Pending(r, "IN_PROGRESS")

=============================================================================
