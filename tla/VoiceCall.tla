------------------------------- MODULE VoiceCall -------------------------------
(***************************************************************************)
(* VoiceService of the broker: the owner's requests to start and to end a  *)
(* phone conversation, Twilio's status callbacks and its media stream.     *)
(* A handler is split where it awaits.  The conversation itself is the     *)
(* module VoiceConversation; here it lasts until somebody ends it.  Twilio *)
(* and the telephone are external.                                         *)
(***************************************************************************)
EXTENDS Integers, FiniteSets

CONSTANTS Calls,        \* the owner's requests, each with the session it creates
          TwilioFails   \* whether a request to Twilio may fail

TERMINAL_STATES == {"ended", "failed"}

VARIABLES session,  \* VoiceSession: state, twilio_sid, end_reason, hangup
          create,   \* create: idle, creds, post, done
          ending,   \* end: whether it awaits Twilio's answer
          stream,   \* accept_stream: none, handshake, talking, over
          phone,    \* Twilio's call: none, ringing, answered, over
          posted,   \* status callbacks on their way
          pressed   \* history: the owner hung up a conversation that went on

vars == <<session, create, ending, stream, phone, posted, pressed>>

Active(c) == session[c].state \notin TERMINAL_STATES \cup {"absent"}

Init ==
  /\ session = [c \in Calls |-> [state |-> "absent", sid |-> FALSE, reason |-> "none", hangup |-> FALSE]]
  /\ create = [c \in Calls |-> "idle"] /\ ending = [c \in Calls |-> FALSE]
  /\ stream = [c \in Calls |-> "none"] /\ phone = [c \in Calls |-> "none"]
  /\ posted = [c \in Calls |-> {}] /\ pressed = [c \in Calls |-> FALSE]

_end_NoHangup(s, state, reason) ==
  [s EXCEPT !.state = state, !.reason = IF @ = "none" THEN reason ELSE @]

(* end_reason and ended_at keep their first value. *)
_end(s, state, reason) ==
  [s EXCEPT !.state = state, !.reason = IF @ = "none" THEN reason ELSE @, !.hangup = TRUE]

Over(c) == phone' = [phone EXCEPT ![c] = "over"] /\ posted' = [posted EXCEPT ![c] = @ \cup {"final"}]

-----------------------------------------------------------------------------
(* create: sessions that ended long ago go, then the check for another call. *)
Create(c) ==
  /\ create[c] = "idle" /\ \A d \in Calls : ~Active(d)
  /\ create' = [create EXCEPT ![c] = "creds"]
  /\ \E old \in SUBSET {d \in Calls : session[d].state \in TERMINAL_STATES} :
       session' = [d \in Calls |-> IF d \in old THEN [session[d] EXCEPT !.state = "absent"] ELSE session[d]]
  /\ UNCHANGED <<ending, stream, phone, posted, pressed>>

(* Credentials loaded; the session exists and Twilio is asked. *)
Insert(c) ==
  /\ create[c] = "creds" /\ create' = [create EXCEPT ![c] = "post"]
  /\ session' = [session EXCEPT ![c].state = "dialing"]
  /\ UNCHANGED <<ending, stream, phone, posted, pressed>>

Refused(c) ==
  /\ create[c] = "creds" /\ create' = [create EXCEPT ![c] = "done"]
  /\ UNCHANGED <<session, ending, stream, phone, posted, pressed>>

Accepted(c) ==
  /\ create[c] = "post" /\ phone[c] # "none" /\ create' = [create EXCEPT ![c] = "done"]
  /\ session' = [session EXCEPT ![c].sid = TRUE]
  /\ UNCHANGED <<ending, stream, phone, posted, pressed>>

(* Twilio refused the call, or its answer was lost, call or not. *)
NotAccepted(c) ==
  /\ create[c] = "post" /\ TwilioFails /\ create' = [create EXCEPT ![c] = "done"]
  /\ phone' = [phone EXCEPT ![c] = IF @ = "none" THEN "over" ELSE @]
  /\ session' = [session EXCEPT ![c] = _end(@, "failed", "twilio")]
  /\ UNCHANGED <<ending, stream, posted, pressed>>

-----------------------------------------------------------------------------
(* end: the hang-up event, Twilio if it is known there, then the state. *)

HungUp(s) == IF s.state \in {"connected"} \cup TERMINAL_STATES THEN s ELSE _end(s, "ended", "owner")

End(c) ==
  /\ session[c].state # "absent" /\ ~ending[c] /\ ~session[c].hangup
  /\ LET s == [session[c] EXCEPT !.hangup = TRUE] IN
     IF s.sid /\ Active(c)
     THEN ending' = [ending EXCEPT ![c] = TRUE] /\ session' = [session EXCEPT ![c] = s]
     ELSE session' = [session EXCEPT ![c] = HungUp(s)] /\ UNCHANGED ending
  /\ pressed' = [pressed EXCEPT ![c] = stream[c] = "talking" /\ phone[c] = "answered"]
  /\ UNCHANGED <<create, stream, phone, posted>>

EndPosted(c) ==
  /\ ending[c] /\ ending' = [ending EXCEPT ![c] = FALSE]
  /\ Over(c) \/ (TwilioFails /\ UNCHANGED <<phone, posted>>)
  /\ session' = [session EXCEPT ![c] = HungUp(@)]
  /\ UNCHANGED <<create, stream, pressed>>

-----------------------------------------------------------------------------
(* Twilio and the telephone. *)

Rings(c) ==
  /\ create[c] = "post" /\ phone[c] = "none"
  /\ phone' = [phone EXCEPT ![c] = "ringing"] /\ posted' = [posted EXCEPT ![c] = {"ringing"}]
  /\ UNCHANGED <<session, create, ending, stream, pressed>>

Answers(c) ==
  /\ phone[c] = "ringing" /\ phone' = [phone EXCEPT ![c] = "answered"]
  /\ UNCHANGED <<session, create, ending, stream, posted, pressed>>

HangsUp(c) ==
  /\ phone[c] \in {"ringing", "answered"} /\ Over(c)
  /\ UNCHANGED <<session, create, ending, stream, pressed>>

(* status_callback; Twilio sends the last one until it is received. *)
status_callback_OnlyRinging(c, status) ==
  /\ status \in posted[c] /\ posted' = [posted EXCEPT ![c] = @ \ {status}]
  /\ session' = [session EXCEPT ![c] =
       IF status = "ringing" /\ @.state = "dialing" THEN [@ EXCEPT !.state = "ringing"]
       ELSE IF status = "final" /\ @.state = "ringing" THEN _end(@, "ended", "status")
       ELSE @]
  /\ UNCHANGED <<create, ending, stream, phone, pressed>>

status_callback(c, status) ==
  /\ status \in posted[c] /\ posted' = [posted EXCEPT ![c] = @ \ {status}]
  /\ \E last \in TERMINAL_STATES :
       session' = [session EXCEPT ![c] =
         IF status = "ringing" /\ @.state = "dialing" THEN [@ EXCEPT !.state = "ringing"]
         ELSE IF status = "final" /\ @.state \notin {"connected", "absent"} \cup TERMINAL_STATES
         THEN _end(@, last, "status")
         ELSE @]
  /\ UNCHANGED <<create, ending, stream, phone, pressed>>

-----------------------------------------------------------------------------
(* accept_stream.  A stream that is refused or closed lets Twilio hang up. *)

Refuse(c) ==
  /\ stream[c] = "none" /\ phone[c] = "answered" /\ ~Active(c)
  /\ stream' = [stream EXCEPT ![c] = "over"] /\ Over(c)
  /\ UNCHANGED <<session, create, ending, pressed>>

Connect(c) ==
  /\ stream[c] = "none" /\ phone[c] = "answered" /\ Active(c)
  /\ stream' = [stream EXCEPT ![c] = "handshake"]
  /\ UNCHANGED <<session, create, ending, phone, posted, pressed>>

(* The start message may have been sent before the caller hung up. *)
_handshake(c) ==
  /\ stream[c] = "handshake" /\ stream' = [stream EXCEPT ![c] = "talking"]
  /\ session' = [session EXCEPT ![c].sid = TRUE, ![c].state = "connected"]
  /\ UNCHANGED <<create, ending, phone, posted, pressed>>

HandshakeFails(c) ==
  /\ stream[c] = "handshake" /\ stream' = [stream EXCEPT ![c] = "over"] /\ Over(c)
  /\ UNCHANGED <<session, create, ending, pressed>>

TimeLimit(c) ==
  /\ stream[c] = "talking" /\ ~session[c].hangup
  /\ session' = [session EXCEPT ![c].reason = "time_limit", ![c].hangup = TRUE]
  /\ UNCHANGED <<create, ending, stream, phone, posted, pressed>>

(* Conversation.run returns, or raises: Twilio's call is over, or the hang-up
   event is set. *)
TalkEnds_OnlyUnexplained(c) ==
  /\ stream[c] = "talking" /\ (phone[c] = "over" \/ session[c].hangup)
  /\ stream' = [stream EXCEPT ![c] = "over"] /\ Over(c)
  /\ \E s \in {_end(session[c], "failed", "error"), _end(session[c], "ended", "caller")} :
       session' = [session EXCEPT ![c] = IF s.state = "failed" \/ session[c].reason = "none" THEN s ELSE @]
  /\ UNCHANGED <<create, ending, pressed>>

TalkEnds(c) ==
  /\ stream[c] = "talking" /\ (phone[c] = "over" \/ session[c].hangup)
  /\ stream' = [stream EXCEPT ![c] = "over"] /\ Over(c)
  /\ \E s \in {_end(session[c], "failed", "error"), _end(session[c], "ended", "caller")} :
       session' = [session EXCEPT ![c] = IF s.state = "failed" \/ Active(c) THEN s ELSE @]
  /\ UNCHANGED <<create, ending, pressed>>

CreateStep(c) == Insert(c) \/ Refused(c) \/ Accepted(c) \/ NotAccepted(c)
StreamStep(c) == Refuse(c) \/ Connect(c) \/ _handshake(c) \/ HandshakeFails(c) \/ TalkEnds(c)
Deliver(c) == \E status \in {"ringing", "final"} : status_callback(c, status)

Next ==
  \E c \in Calls :
    \/ Create(c) \/ CreateStep(c) \/ End(c) \/ EndPosted(c)
    \/ Rings(c) \/ Answers(c) \/ HangsUp(c) \/ Deliver(c) \/ StreamStep(c) \/ TimeLimit(c)

Spec == Init /\ [][Next]_vars

-----------------------------------------------------------------------------

(* A call that ended has its reason and its hang-up event, which is what stops the
   conversation, whichever of create, end, callback and stream ended it. *)
EndedIsHungUp ==
  \A c \in Calls : session[c].state \in TERMINAL_STATES => session[c].hangup /\ session[c].reason # "none"

=============================================================================
