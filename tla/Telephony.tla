------------------------------ MODULE Telephony ------------------------------
(***************************************************************************)
(* Fixed-script calls of one run: the rows in telephony_calls, the         *)
(* requests that create them, Twilio, and Twilio's signed callbacks.  The  *)
(* key of a call also stands for its CallSid.  Twilio is external: it may  *)
(* place a call whose answer is lost, and its callbacks come late, twice   *)
(* and in any order.                                                       *)
(***************************************************************************)
EXTENDS Integers, FiniteSets

CONSTANTS Keys,       \* idempotency keys
          Requests,   \* create_call requests of the agent
          KeyOf,      \* the key of a request
          Handlers,   \* deliveries of callbacks
          Ends,       \* how Twilio may end a call
          MaxCalls,   \* maxCalls of the installation
          Crashes     \* bound: deaths of the broker process

VARIABLES callRow,  \* telephony_calls by key: state, sid stored, transcript stored
          req, handler,
          dialled,  \* POSTs to Calls.json by key
          phone,    \* the call at Twilio: none, or its status
          posted,   \* callbacks Twilio has sent
          crashes

phoneVars == <<callRow, req, handler, dialled, phone, posted, crashes>>

TERMINAL == {"completed", "busy", "no-answer", "failed", "canceled"}

_RANK == [CREATING |-> 0, IN_DOUBT |-> 0, queued |-> 1, initiated |-> 2, ringing |-> 3, inprogress |-> 4]

Rank(s) == IF s \in DOMAIN _RANK THEN _RANK[s] ELSE 5

_advances(current, new) ==
  current \notin TERMINAL /\ (new \in TERMINAL \/ Rank(new) > Rank(current))

Exists(k) == callRow[k].state # "none"

NoCallback == [pc |-> "idle", cb |-> <<>>]

PhoneInit ==
  /\ callRow = [k \in Keys |-> [state |-> "none", sid |-> FALSE, speech |-> FALSE]]
  /\ req = [r \in Requests |-> "idle"]
  /\ handler = [h \in Handlers |-> NoCallback]
  /\ dialled = [k \in Keys |-> 0]
  /\ phone = [k \in Keys |-> "none"]
  /\ posted = {}
  /\ crashes = 0

-----------------------------------------------------------------------------
(* create_call. *)

CreateRow_NoLimit(r) ==
  LET k == KeyOf[r] IN
  /\ req[r] = "idle"
  /\ IF Exists(k)
     THEN /\ req' = [req EXCEPT ![r] = IF callRow[k].state = "IN_DOUBT" THEN "unknown" ELSE "done"]
          /\ UNCHANGED callRow
     ELSE /\ req' = [req EXCEPT ![r] = "dial"]
          /\ callRow' = [callRow EXCEPT ![k].state = "CREATING"]
  /\ UNCHANGED <<handler, dialled, phone, posted, crashes>>

CreateRow_RetriesDoubt(r) ==
  LET k == KeyOf[r] IN
  /\ req[r] = "idle"
  /\ IF Exists(k) /\ callRow[k].state # "IN_DOUBT"
     THEN req' = [req EXCEPT ![r] = "done"] /\ UNCHANGED callRow
     ELSE IF Cardinality({x \in Keys : Exists(x)}) >= MaxCalls /\ ~Exists(k)
     THEN req' = [req EXCEPT ![r] = "refused"] /\ UNCHANGED callRow
     ELSE /\ req' = [req EXCEPT ![r] = "dial"]
          /\ callRow' = [callRow EXCEPT ![k].state = "CREATING"]
  /\ UNCHANGED <<handler, dialled, phone, posted, crashes>>

(* One transaction under the run's advisory lock: a known key is answered from
   its row, a new one is counted and inserted. *)
CreateRow(r) ==
  LET k == KeyOf[r] IN
  /\ req[r] = "idle"
  /\ IF Exists(k)
     THEN /\ req' = [req EXCEPT ![r] = IF callRow[k].state = "IN_DOUBT" THEN "unknown" ELSE "done"]
          /\ UNCHANGED callRow
     ELSE IF Cardinality({x \in Keys : Exists(x)}) >= MaxCalls
     THEN req' = [req EXCEPT ![r] = "refused"] /\ UNCHANGED callRow
     ELSE /\ req' = [req EXCEPT ![r] = "dial"]
          /\ callRow' = [callRow EXCEPT ![k].state = "CREATING"]
  /\ UNCHANGED <<handler, dialled, phone, posted, crashes>>

(* The POST, placed or not, answered, refused or without a definite answer. *)
Dial(r) ==
  LET k == KeyOf[r] IN
  /\ req[r] = "dial"
  /\ dialled' = [dialled EXCEPT ![k] = @ + 1]
  /\ \/ req' = [req EXCEPT ![r] = "created"] /\ phone' = [phone EXCEPT ![k] = "queued"]
     \/ req' = [req EXCEPT ![r] = "rejected"] /\ UNCHANGED phone
     \/ /\ req' = [req EXCEPT ![r] = "doubt"]
        /\ phone' \in {phone, [phone EXCEPT ![k] = "queued"]}
  /\ UNCHANGED <<callRow, handler, posted, crashes>>

_created(r) ==
  LET k == KeyOf[r] IN
  /\ req[r] = "created" /\ req' = [req EXCEPT ![r] = "done"]
  /\ \E s \in {"queued", "initiated"} :   \* the status in Twilio's answer
       callRow' = [callRow EXCEPT ![k].sid = TRUE, ![k].state = IF _advances(@, s) THEN s ELSE @]
  /\ UNCHANGED <<handler, dialled, phone, posted, crashes>>

Rejected(r) ==
  /\ req[r] = "rejected" /\ req' = [req EXCEPT ![r] = "done"]
  /\ callRow' = [callRow EXCEPT ![KeyOf[r]].state = "failed"]
  /\ UNCHANGED <<handler, dialled, phone, posted, crashes>>

(* Nothing is marked if a callback has shown meanwhile that the call exists. *)
_in_doubt(r) ==
  LET k == KeyOf[r] IN
  /\ req[r] = "doubt"
  /\ callRow' = IF callRow[k].sid THEN callRow ELSE [callRow EXCEPT ![k].state = "IN_DOUBT"]
  /\ req' = [req EXCEPT ![r] = IF callRow'[k].state = "IN_DOUBT" THEN "unknown" ELSE "done"]
  /\ UNCHANGED <<handler, dialled, phone, posted, crashes>>

-----------------------------------------------------------------------------
(* Twilio moves on with a call and says so: a voice callback when it is
   answered, a gather callback when the callee has spoken, and every status. *)

Progress(k) ==
  /\ \E s \in Ends \cup {"initiated", "ringing", "inprogress"} :
       /\ phone[k] # "none" /\ phone[k] \notin TERMINAL
       /\ s \in TERMINAL \/ Rank(s) = Rank(phone[k]) + 1
       /\ phone' = [phone EXCEPT ![k] = s]
       /\ posted' = posted \cup {<<k, "status", s>>}
                           \cup (IF s = "inprogress" THEN {<<k, "voice", s>>, <<k, "gather", s>>} ELSE {})
  /\ UNCHANGED <<callRow, req, handler, dialled, crashes>>

Receive_OnlyCreating(h) ==
  /\ handler[h].pc = "idle"
  /\ \E cb \in posted : LET k == cb[1] IN
     /\ posted' \in {posted, posted \ {cb}}
     /\ handler' = [handler EXCEPT ![h] =
         IF callRow[k].sid THEN [pc |-> "apply", cb |-> cb]
         ELSE IF callRow[k].state = "CREATING" THEN [pc |-> "adopt", cb |-> cb] ELSE NoCallback]
  /\ UNCHANGED <<callRow, req, dialled, phone, crashes>>

(* _callback_call reads the row of a signed callback ... *)
Receive(h) ==
  /\ handler[h].pc = "idle"
  /\ \E cb \in posted : LET k == cb[1] IN
     /\ posted' \in {posted, posted \ {cb}}      \* kept: it will come again
     /\ handler' = [handler EXCEPT ![h] =
         [pc |-> IF ~callRow[k].sid /\ callRow[k].state \in {"CREATING", "IN_DOUBT"} THEN "adopt"
                 ELSE IF callRow[k].sid THEN "apply" ELSE "unknown",
          cb |-> cb]]
  /\ UNCHANGED <<callRow, req, dialled, phone, crashes>>


(* ... and a call without a CallSid adopts the callback's. *)
_adopt(h) ==
  LET k == handler[h].cb[1] IN
  /\ handler[h].pc = "adopt"
  /\ callRow' = IF callRow[k].sid THEN callRow ELSE [callRow EXCEPT ![k].sid = TRUE, ![k].state = "queued"]
  /\ handler' = [handler EXCEPT ![h].pc = "apply"]
  /\ UNCHANGED <<req, dialled, phone, posted, crashes>>

voice(h) ==
  /\ handler[h].pc = "apply" /\ handler[h].cb[2] = "voice"
  /\ handler' = [handler EXCEPT ![h] = NoCallback]
  /\ UNCHANGED <<callRow, req, dialled, phone, posted, crashes>>

gather(h) ==
  /\ handler[h].pc = "apply" /\ handler[h].cb[2] = "gather"
  /\ \/ callRow' = [callRow EXCEPT ![handler[h].cb[1]].speech = TRUE]
     \/ UNCHANGED callRow    \* nothing was understood
  /\ handler' = [handler EXCEPT ![h] = NoCallback]
  /\ UNCHANGED <<req, dialled, phone, posted, crashes>>

status_callback(h) ==
  LET k == handler[h].cb[1] new == handler[h].cb[3] IN
  /\ handler[h].pc = "apply" /\ handler[h].cb[2] = "status"
  /\ callRow' = [callRow EXCEPT ![k].state = IF _advances(@, new) THEN new ELSE @]
  /\ handler' = [handler EXCEPT ![h] = NoCallback]
  /\ UNCHANGED <<req, dialled, phone, posted, crashes>>

(* The broker dies: requests and callbacks in hand are gone. *)
PhoneCrash ==
  /\ crashes < Crashes /\ crashes' = crashes + 1
  /\ req' = [r \in Requests |-> IF req[r] = "idle" THEN "idle" ELSE "gone"]
  /\ handler' = [h \in Handlers |-> NoCallback]
  /\ UNCHANGED <<callRow, dialled, phone, posted>>

RequestStep(r) == Dial(r) \/ _created(r) \/ Rejected(r) \/ _in_doubt(r)
HandlerStep(h) == _adopt(h) \/ voice(h) \/ gather(h) \/ status_callback(h)

PhoneNext ==
  \/ \E r \in Requests : CreateRow(r) \/ RequestStep(r)
  \/ \E k \in Keys : Progress(k)
  \/ \E h \in Handlers : Receive(h) \/ HandlerStep(h)
  \/ PhoneCrash

PhoneSpec == PhoneInit /\ [][PhoneNext]_phoneVars

-----------------------------------------------------------------------------

(* "A retry returns the same call and never redials", and maxCalls "cannot [be]
   overshot" by concurrent requests, whatever is lost and whenever the broker dies. *)
NeverRedials == \A k \in Keys : dialled[k] <= 1

WithinMaxCalls == Cardinality({k \in Keys : dialled[k] > 0}) <= MaxCalls

(* A callback Twilio sent for a call it placed is never refused for an unknown
   CallSid, so that the callee hears the disclosure, however early it comes. *)
CallbackFindsCall == \A h \in Handlers : handler[h].pc # "unknown"

(* A call that ended at Twilio and is not reported as ended.  It is in the end, whichever answers
   were lost and in whatever order the callbacks came, each at least once. *)
Unreported(k) == phone[k] \in TERMINAL /\ callRow[k].state \notin TERMINAL
=============================================================================
