---------------------------- MODULE ChatSessions ----------------------------
(***************************************************************************)
(* One chat session of the owner (control_api/routers/chat.py) and the     *)
(* model lease it holds at the gateway.  Enabling, disabling, deleting and *)
(* sending lock the session's row and keep it locked across their call to  *)
(* another service; a reply streams after the lock is gone, and the        *)
(* gateway leases the model for every stream it prepares.                  *)
(***************************************************************************)
EXTENDS Naturals, FiniteSets

CONSTANTS Toggles,    \* requests to enable, disable or delete
          Messages,   \* messages sent
          Modes,      \* "none" or the retrieval mode of the knowledge base
          ChatFaults  \* a subset of {"lost", "expire", "crash", "unread"}

VARIABLES mode,       \* chat_sessions.retrieval_mode
          session,    \* chat_sessions: enabled, deleted
          lease,      \* the gateway holds a lease for (chat, session)
          toggle,     \* the requests
          send,       \* the requests to send a message, and their streams
          reply       \* chat_messages: the assistant's message of each

chatVars == <<mode, session, lease, toggle, send, reply>>

NoReply == [status |-> "none", by |-> "none", cited |-> FALSE]

ChatInit ==
  /\ mode \in Modes
  /\ session = [enabled |-> FALSE, deleted |-> FALSE]
  /\ lease = FALSE
  /\ toggle \in [Toggles -> [op : {"enable", "disable", "delete"}, pc : {"new"}]]
  /\ send = [m \in Messages |-> "new"]
  /\ reply = [m \in Messages |-> NoReply]

-----------------------------------------------------------------------------
(* _owned(lock=True): the row is locked, or the session does not exist.    *)
Free ==
  /\ \A t \in Toggles : toggle[t].pc \notin {"call", "commit"}
  /\ \A m \in Messages : send[m] \notin {"retrieve", "commit"}

ChatStep(t, pc) == toggle' = [toggle EXCEPT ![t].pc = pc]
ChatMove(m, pc) == send' = [send EXCEPT ![m] = pc]

(* The gateway is called only when the request changes something.          *)
Changes(op) == CASE op = "enable" -> ~session.enabled
                 [] op = "disable" -> session.enabled
                 [] op = "delete" -> session.enabled

owned_Unlocked(t) ==
  /\ toggle[t].pc = "new"
  /\ ChatStep(t, IF session.deleted THEN "end"
             ELSE IF Changes(toggle[t].op) THEN "call" ELSE "commit")
  /\ UNCHANGED <<mode, session, lease, send, reply>>

owned(t) ==
  /\ toggle[t].pc = "new" /\ Free
  /\ ChatStep(t, IF session.deleted THEN "end"
             ELSE IF Changes(toggle[t].op) THEN "call" ELSE "commit")
  /\ UNCHANGED <<mode, session, lease, send, reply>>

(* acquire_chat_lease and release_chat_lease; the gateway may refuse, or   *)
(* its answer may be lost, and the request fails and changes nothing.      *)
gateway_call(t) ==
  /\ toggle[t].pc = "call"
  /\ \/ lease' = (toggle[t].op = "enable") /\ ChatStep(t, "commit")
     \/ lease' = (toggle[t].op = "enable") /\ "lost" \in ChatFaults /\ ChatStep(t, "end")
     \/ UNCHANGED lease /\ ChatStep(t, "end")
  /\ UNCHANGED <<mode, session, send, reply>>

(* The rest of _toggle and delete_session; finish() commits.               *)
chat_finish(t) ==
  /\ toggle[t].pc = "commit"
  /\ session' = [session EXCEPT !.enabled = toggle[t].op = "enable",
                                !.deleted = toggle[t].op = "delete"]
  /\ ChatStep(t, "end")
  /\ UNCHANGED <<mode, lease, send, reply>>

-----------------------------------------------------------------------------
(* send_message, up to the question whether chat is enabled.               *)
send_message_Unlocked(m) ==
  /\ send[m] = "new"
  /\ ChatMove(m, IF session.deleted \/ ~session.enabled THEN "end"
             ELSE IF mode = "none" THEN "commit" ELSE "retrieve")
  /\ UNCHANGED <<mode, session, lease, toggle, reply>>

send_message(m) ==
  /\ send[m] = "new" /\ Free
  /\ ChatMove(m, IF session.deleted \/ ~session.enabled THEN "end"
             ELSE IF mode = "none" THEN "commit" ELSE "retrieve")
  /\ UNCHANGED <<mode, session, lease, toggle, reply>>

(* retrieve: passages, none, or an error, which fails the request.  Only   *)
(* an answer from the knowledge base alone may do without the model.       *)
AnswerLocally_WhenEmpty(found) == FALSE
AnswerLocally(found) == mode = "only_knowledge" /\ ~found

retrieve(m) ==
  /\ send[m] = "retrieve"
  /\ \/ \E found \in BOOLEAN :
          /\ reply' = [reply EXCEPT ![m].cited = found,
                         ![m].by = IF AnswerLocally(found) THEN "platform" ELSE "model"]
          /\ ChatMove(m, "commit")
     \/ ChatMove(m, "end") /\ UNCHANGED reply
  /\ UNCHANGED <<mode, session, lease, toggle>>

(* Both messages are stored, the assistant's as "streaming"; the lock is   *)
(* released by the commit.                                                 *)
commit(m) ==
  /\ send[m] = "commit"
  /\ reply' = [reply EXCEPT ![m].status = "streaming",
                            ![m].by = IF mode = "none" THEN "model" ELSE @]
  /\ ChatMove(m, "respond")
  /\ UNCHANGED <<mode, session, lease, toggle>>

-----------------------------------------------------------------------------
(* stream(): its first event.  A client that has gone by then never starts *)
(* the generator.                                                          *)
stream(m) ==
  /\ send[m] = "respond"
  /\ \/ ChatMove(m, IF reply[m].by = "platform" THEN "answer" ELSE "open")
     \/ "unread" \in ChatFaults /\ ChatMove(m, "end")
  /\ UNCHANGED <<mode, session, lease, toggle, reply>>

_finish(m, status) ==
  /\ reply' = [reply EXCEPT ![m].status = status]
  /\ ChatMove(m, "end")
  /\ UNCHANGED <<mode, session, toggle>>

(* NOT_FOUND_ANSWER, without the model.                                    *)
answer_locally(m) == send[m] = "answer" /\ _finish(m, "complete") /\ UNCHANGED lease

(* chat_stream: the gateway leases the model and streams, or refuses.      *)
chat_stream(m) ==
  /\ send[m] = "open"
  /\ \/ lease' = TRUE /\ ChatMove(m, "events") /\ UNCHANGED <<mode, session, toggle, reply>>
     \/ UNCHANGED lease /\ _finish(m, "failed")

(* The stream ends with done, with an error event or an interruption, or   *)
(* because the client closes the connection.                               *)
Ended_Raises(m) ==
  /\ send[m] = "events"
  /\ \/ \E status \in {"complete", "failed"} : _finish(m, status)
     \/ ChatMove(m, "end") /\ UNCHANGED <<mode, session, toggle, reply>>
  /\ UNCHANGED lease

Ended(m) ==
  /\ send[m] = "events"
  /\ \E status \in {"complete", "failed", "stopped"} : _finish(m, status)
  /\ UNCHANGED lease

(* CancelledError while the request to the gateway is being made.          *)
Stopped(m) == send[m] = "open" /\ _finish(m, "stopped") /\ UNCHANGED lease

-----------------------------------------------------------------------------
(* The reaper of the gateway, twelve hours after the lease was renewed.    *)
Expire_WhileEnabled ==
  /\ "expire" \in ChatFaults /\ lease /\ session.enabled
  /\ lease' = FALSE
  /\ UNCHANGED <<mode, session, toggle, send, reply>>

Expire ==
  /\ "expire" \in ChatFaults /\ lease
  /\ lease' = FALSE
  /\ UNCHANGED <<mode, session, toggle, send, reply>>

(* The control API dies: open transactions roll back, streams are gone.    *)
ChatCrash ==
  /\ "crash" \in ChatFaults
  /\ toggle' = [t \in Toggles |-> IF toggle[t].pc = "new" THEN toggle[t]
                                  ELSE [toggle[t] EXCEPT !.pc = "end"]]
  /\ send' = [m \in Messages |-> IF send[m] = "new" THEN "new" ELSE "end"]
  /\ reply' = [m \in Messages |-> IF send[m] = "commit" THEN NoReply ELSE reply[m]]
  /\ UNCHANGED <<mode, session, lease>>

Terminated ==
  /\ \A t \in Toggles : toggle[t].pc = "end"
  /\ \A m \in Messages : send[m] = "end"
  /\ UNCHANGED chatVars

ChatNext ==
  \/ \E t \in Toggles : owned(t) \/ gateway_call(t) \/ chat_finish(t)
  \/ \E m \in Messages :
       \/ send_message(m) \/ retrieve(m) \/ commit(m) \/ stream(m)
       \/ answer_locally(m) \/ chat_stream(m) \/ Ended(m) \/ Stopped(m)
  \/ Expire \/ ChatCrash \/ Terminated

ChatSpec == ChatInit /\ [][ChatNext]_chatVars

-----------------------------------------------------------------------------

(* An enabled session has its model: requests to enable and to disable     *)
(* that race never leave it enabled without the lease.                     *)
EnabledHasLease == (session.enabled /\ Free) => lease

(* A message is stored only in a session that is enabled and not deleted   *)
(* at that moment, although the check was made before the retrieval.       *)
StoredWhileEnabled ==
  \A m \in Messages :
    (reply[m].status = "none" /\ reply'[m].status = "streaming")
      => session'.enabled /\ ~session'.deleted

(* "only_knowledge answers not found without calling the model when        *)
(* nothing is retrieved": the model never writes an answer of its own into *)
(* such a session.                                                         *)
GroundedOrNotFound ==
  mode = "only_knowledge" =>
    \A m \in Messages : reply[m].by = "model" => reply[m].cited

(* A reply that is shown as "streaming".  Each settles as complete, failed  *)
(* or stopped, whatever the client and the gateway do ("Stop aborts the     *)
(* request, and the server keeps the partial reply as stopped").           *)
Streaming(m) == reply[m].status = "streaming"

(* A model leased for a session that is disabled.  It does not stay so,    *)
(* even when the answer to a release was lost or the process died.         *)
LeaseLeft == ~session.enabled /\ lease

=============================================================================
