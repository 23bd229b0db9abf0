------------------------------ MODULE FakeVoice ------------------------------
(***************************************************************************)
(* One voice call of the fake platform: the broker's routes and the three  *)
(* ways to place it, offline, through a SIP trunk and to a simulated       *)
(* callee.  Requests, the leg that rings and talks and the task that       *)
(* enforces the limits interleave.  LiveKit and the people are external.   *)
(***************************************************************************)
EXTENDS Naturals

CONSTANTS Requests,  \* requests to place the call, all with the same key
          Media,     \* the ways to place a call
          Overlap,   \* whether a request is repeated before the first one is answered
          Errors     \* whether LiveKit may fail

ENDED == {"completed", "busy", "no-answer", "failed", "canceled"}

VARIABLES media,   \* the backend in use
          state,   \* call.state; none while there is no record
          req,     \* the requests: idle, dial (in dial), done, error
          room,    \* the LiveKit room: none, open, deleted
          callee,  \* whether the callee is in it
          leg,     \* the background task of the leg: none, ring, connect, talk, over
          limits,  \* _enforce_limits: none, ring, talk, over
          dials    \* history: how often the number was dialled

vars == <<media, state, req, room, callee, leg, limits, dials>>

Init ==
  /\ media \in Media /\ state = "none" /\ req = [r \in Requests |-> "idle"]
  /\ room = "none" /\ callee = FALSE /\ leg = "none" /\ limits = "none" /\ dials = 0

set_ringing == IF state = "dialing" THEN "ringing" ELSE state
set_answered == IF state \in {"dialing", "ringing"} THEN "answered" ELSE state

set_ended(to) == IF state \in ENDED THEN state ELSE to

end_for_hangup == set_ended(IF state = "answered" THEN "completed" ELSE "canceled")

(* The room is deleted by the one who ended the call. *)
_delete_room ==
  IF state \in ENDED \/ room # "open" THEN UNCHANGED <<room, callee>>
  ELSE room' = "deleted" /\ callee' = FALSE

-----------------------------------------------------------------------------
InDial == \E r \in Requests : req[r] = "dial"

(* create_call up to the first await.  The offline backend has none. *)
create_call_Forgets(r) ==
  /\ req[r] = "idle" /\ (Overlap \/ ~InDial) /\ dials' = dials + 1 /\ UNCHANGED <<media, room, callee, limits>>
  /\ IF media = "offline"
     THEN state' = "ringing" /\ leg' = "ring" /\ req' = [req EXCEPT ![r] = "done"]
     ELSE state' = "dialing" /\ req' = [req EXCEPT ![r] = "dial"] /\ UNCHANGED leg

create_call(r) ==
  /\ req[r] = "idle" /\ (Overlap \/ ~InDial) /\ UNCHANGED <<media, room, callee, limits>>
  /\ IF state # "none" THEN req' = [req EXCEPT ![r] = "done"] /\ UNCHANGED <<state, leg, dials>>
     ELSE IF media = "offline"
     THEN /\ state' = "ringing" /\ leg' = "ring" /\ req' = [req EXCEPT ![r] = "done"] /\ dials' = dials + 1
     ELSE /\ state' = "dialing" /\ req' = [req EXCEPT ![r] = "dial"] /\ dials' = dials + 1 /\ UNCHANGED leg

(* The room exists: the call rings, its tasks are spawned and the request answered. *)
dial(r) ==
  /\ req[r] = "dial" /\ req' = [req EXCEPT ![r] = "done"]
  /\ state' = set_ringing /\ room' = "open" /\ leg' = "ring" /\ limits' = "ring"
  /\ UNCHANGED <<media, callee, dials>>

DialFails(r) ==
  /\ Errors /\ req[r] = "dial" /\ req' = [req EXCEPT ![r] = "error"] /\ state' = "failed"
  /\ UNCHANGED <<media, room, callee, leg, limits, dials>>

(* The agent knows the call from an answer to one of its requests. *)
hangup_LeavesRoom ==
  /\ \E r \in Requests : req[r] = "done"
  /\ state' = end_for_hangup /\ UNCHANGED <<media, room, callee, req, leg, limits, dials>>

hangup ==
  /\ \E r \in Requests : req[r] = "done"
  /\ state' = end_for_hangup /\ _delete_room /\ UNCHANGED <<media, req, leg, limits, dials>>

-----------------------------------------------------------------------------
(* OfflineVoiceBackend._progress: the scenario's outcome after the ringing, and the
   limit of the conversation. *)
_progress ==
  /\ media = "offline" /\ leg = "ring"
  /\ \/ state' = set_answered /\ leg' = IF state \in {"dialing", "ringing"} THEN "talk" ELSE "over"
     \/ \E outcome \in {"busy", "no-answer", "failed"} : state' = set_ended(outcome) /\ leg' = "over"
  /\ UNCHANGED <<media, req, room, callee, limits, dials>>

MaxDuration ==
  /\ media = "offline" /\ leg = "talk" /\ leg' = "over" /\ state' = set_ended("completed")
  /\ UNCHANGED <<media, req, room, callee, limits, dials>>

(* _dial_sip: the callee answers, or the trunk says why not. *)
_dial_sip ==
  /\ media = "sip" /\ leg = "ring" /\ leg' = "over"
  /\ \/ state' = set_answered /\ callee' = (room = "open") /\ UNCHANGED room
     \/ \E outcome \in {"busy", "no-answer", "failed"} : state' = set_ended(outcome) /\ _delete_room
  /\ UNCHANGED <<media, req, limits, dials>>

(* SimulatedCallee.run: it rings; then it declines or joins the room; then it plays
   its lines, may hang up after them, and leaves when the call or its time is over. *)
CalleeRings ==
  /\ media = "simulated" /\ leg = "ring"
  /\ IF state \notin {"dialing", "ringing"} THEN leg' = "over" /\ UNCHANGED state
     ELSE \/ leg' = "connect" /\ UNCHANGED state
          \/ \E outcome \in {"busy", "no-answer", "failed"} : state' = set_ended(outcome) /\ leg' = "over"
  /\ UNCHANGED <<media, req, room, callee, limits, dials>>

CalleeConnects ==
  /\ media = "simulated" /\ leg = "connect"
  /\ IF state \in {"dialing", "ringing"} /\ room = "open"
     THEN state' = set_answered /\ callee' = TRUE /\ leg' = "talk"
     ELSE leg' = "over" /\ UNCHANGED <<state, callee>>
  /\ UNCHANGED <<media, req, room, limits, dials>>

CalleeFails ==
  /\ Errors /\ media = "simulated" /\ leg \in {"connect", "talk"} /\ leg' = "over"
  /\ state' = set_ended("failed") /\ callee' = FALSE
  /\ UNCHANGED <<media, req, room, limits, dials>>

_play ==
  /\ media = "simulated" /\ leg = "talk" /\ state' = set_ended("completed")
  /\ UNCHANGED <<media, req, room, callee, leg, limits, dials>>

CalleeIsDone ==
  /\ media = "simulated" /\ leg = "talk" /\ leg' = "over" /\ callee' = FALSE
  /\ UNCHANGED <<media, state, req, room, limits, dials>>

(* The person on the trunk hangs up. *)
CalleeHangsUp ==
  /\ media = "sip" /\ callee /\ callee' = FALSE
  /\ UNCHANGED <<media, state, req, room, leg, limits, dials>>

-----------------------------------------------------------------------------
(* _enforce_limits: until the ringing is over or has lasted too long, then until the
   call is over, has lasted too long, or the callee on the trunk has left. *)
RingLimit_Trusts ==
  /\ limits = "ring" /\ state # "ringing" /\ limits' = (IF state = "answered" THEN "talk" ELSE "over")
  /\ UNCHANGED <<media, state, req, room, callee, leg, dials>>

RingLimit ==
  /\ limits = "ring" /\ UNCHANGED <<media, req, leg, dials>>
  /\ IF state = "ringing" THEN state' = set_ended("no-answer") /\ _delete_room /\ limits' = "over"
     ELSE limits' = (IF state = "answered" THEN "talk" ELSE "over") /\ UNCHANGED <<state, room, callee>>

_enforce_limits ==
  /\ limits = "talk" /\ limits' = "over" /\ UNCHANGED <<media, req, leg, dials>>
  /\ IF state = "answered" THEN state' = set_ended("completed") /\ _delete_room
     ELSE UNCHANGED <<state, room, callee>>

Leg == _progress \/ MaxDuration \/ _dial_sip \/ CalleeRings \/ CalleeConnects \/ CalleeIsDone

Next ==
  \/ \E r \in Requests : create_call(r) \/ dial(r) \/ DialFails(r)
  \/ hangup \/ Leg \/ CalleeFails \/ _play \/ CalleeHangsUp \/ RingLimit \/ _enforce_limits

Spec == Init /\ [][Next]_vars

-----------------------------------------------------------------------------
(* However often the request to place the call is repeated, also while the first one
   is under way, the number is dialled once (voice_keys). *)
OneDial == dials <= 1

(* Nobody is left in the room of an ended call: once all tasks of the call are over,
   the callee is out of it. *)
NobodyLeft == state \in ENDED /\ leg = "over" /\ limits = "over" => ~callee

(* A call that was placed and has not ended; each ends, also when the agent never hangs up. *)
GoesOn == state # "none" /\ state \notin ENDED
=============================================================================
