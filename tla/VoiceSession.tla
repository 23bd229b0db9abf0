----------------------------- MODULE VoiceSession -----------------------------
(***************************************************************************)
(* One call of the voice agent: LiveKitCallRunner from the room to the     *)
(* report, the detector of answering machines, and the outcome made of the *)
(* report.  The main coroutine, the task that says goodbye, the watcher of *)
(* the detector, the session's events, the callee and the broker all       *)
(* interleave.  LiveKit, the models and the callee are external.  Seconds  *)
(* are counted from on_answer, where the detector starts.                  *)
(***************************************************************************)
EXTENDS Integers, Sequences

CONSTANTS Early,       \* whether the callee may speak before the greeting is over
          Errors,      \* whether the session may fail
          Kinds,       \* what an utterance of the callee can be
          MaxTurns,    \* bound: utterances that are transcribed
          MaxTime      \* bound: seconds the detector watches

silence_limit == 2
monologue_limit == 3
MACHINE_REASONS == {"voicemail_reached", "ivr_reached"}

VARIABLES pc,        \* the main coroutine
          call,      \* the broker's call: ringing, answered, ended
          lost,      \* a hang-up failed
          present,   \* the callee is in the room
          speaking,  \* the callee speaks
          spoke,     \* they_spoke
          agent,     \* the agent speaks
          greeted,   \* agent.greeted
          det,       \* the detector
          now,       \* seconds since on_answer
          wrap,      \* the task of wrap_up: none, saying, over
          wrapping,  \* wrapping["flag"]
          done,      \* the future: why the call ended
          items,     \* utterances not yet in the transcript
          heard,     \* the callee's side of the transcript
          report,    \* the disposition in the result row
          hist       \* history: human, quiet, by (who found the machine), closers

vars == <<pc, call, lost, present, speaking, spoke, agent, greeted, det, now, wrap, wrapping,
          done, items, heard, report, hist>>

room == <<present, speaking, spoke, agent>>
ending == <<wrap, wrapping, done>>

-----------------------------------------------------------------------------
(* VoicemailDetector.  Times are -1 where the code has None. *)

Fresh == [answered |-> -1, started |-> -1, spoken |-> FALSE, disarmed |-> FALSE, since |-> -1, total |-> 0]

on_answer(at) == [Fresh EXCEPT !.answered = at]
on_agent_speech_start(d, at) == [d EXCEPT !.since = IF @ = -1 THEN at ELSE @]

on_agent_speech_end_NotBanked(d, at) == [d EXCEPT !.since = -1]

on_agent_speech_end(d, at) ==
  IF d.since = -1 THEN d ELSE [d EXCEPT !.total = @ + (at - d.since), !.since = -1]

on_remote_speech_start(d, at) == [d EXCEPT !.started = at, !.spoken = TRUE]


on_remote_speech_end(d) == [d EXCEPT !.started = -1, !.disarmed = @ \/ d.spoken]

check(d, at) ==
  CASE d.answered = -1 \/ d.disarmed \/ d.since # -1 -> "none"
    [] OTHER ->
       IF d.started # -1
       THEN IF at - d.started > monologue_limit THEN "ivr_reached" ELSE "none"
       ELSE IF ~d.spoken /\ at > d.answered + d.total + silence_limit THEN "voicemail_reached" ELSE "none"

-----------------------------------------------------------------------------
Init ==
  /\ pc = "join" /\ call = "ringing" /\ lost = FALSE
  /\ present = FALSE /\ speaking = FALSE /\ spoke = FALSE /\ agent = FALSE /\ greeted = FALSE
  /\ det = Fresh /\ now = 0 /\ wrap = "none" /\ wrapping = FALSE /\ done = "none"
  /\ items = <<>> /\ heard = <<>> /\ report = "none"
  /\ hist = [human |-> FALSE, quiet |-> 0, by |-> "none", closers |-> 0]

Finish(reason) == done' = IF done = "none" THEN reason ELSE done

outcome_for_unanswered(state) ==
  CASE state \in {"busy", "failed"} -> state [] state = "no-answer" -> "no_answer" [] OTHER -> "failed"

reconcile_ModelDecides(model) ==
  IF model \in {"no_answer", "busy", "failed"} THEN "completed" ELSE model

(* The rules that the model may not break. *)
reconcile(model) ==
  IF \E i \in DOMAIN heard : heard[i] = "dnc" THEN "dnc"
  ELSE IF model \in {"no_answer", "busy", "failed"} THEN "completed" ELSE model

(* _outcome of an answered call; model is what the model, or its absence, suggests. *)
_outcome(reason, model) ==
  CASE reason \in MACHINE_REASONS -> "voicemail"
    [] heard = <<>> -> "failed"
    [] reason = "error" -> "failed"
    [] OTHER -> reconcile(model)

-----------------------------------------------------------------------------
(* run_call: without a media server or a room the call is hung up. *)
NoRoom_LetsItRing ==
  /\ pc = "join" /\ call' = call /\ report' = "failed" /\ pc' = "over"
  /\ UNCHANGED <<lost, room, greeted, det, now, ending, items, heard, hist>>

NoRoom ==
  /\ pc = "join" /\ call' = "ended" /\ report' = "failed" /\ pc' = "over"
  /\ UNCHANGED <<lost, room, greeted, det, now, ending, items, heard, hist>>

Connect ==
  /\ pc = "join" /\ pc' = "ring"
  /\ UNCHANGED <<call, lost, room, greeted, det, now, ending, items, heard, report, hist>>

(* _wait_for_answer: the callee is in the room, the broker says the call has ended,
   or the deadline passes and the call is hung up. *)
Answered ==
  /\ pc = "ring" /\ present /\ pc' = "pickup"
  /\ UNCHANGED <<call, lost, room, greeted, det, now, ending, items, heard, report, hist>>

NotAnswered ==
  /\ pc = "ring" /\ ~present /\ pc' = "over" /\ call' = "ended"
  /\ \E state \in {"busy", "no-answer", "failed", "canceled", "completed"} :
       report' = outcome_for_unanswered(state)
  /\ UNCHANGED <<lost, room, greeted, det, now, ending, items, heard, hist>>

(* their_turn, the probe when nobody said anything, and a beat. *)
Pickup ==
  /\ pc = "pickup" /\ pc' = (IF spoke THEN "beat" ELSE "probe")
  /\ UNCHANGED <<call, lost, room, greeted, det, now, ending, items, heard, report, hist>>

Probe ==
  /\ pc = "probe" /\ pc' = "beat"
  /\ UNCHANGED <<call, lost, room, greeted, det, now, ending, items, heard, report, hist>>

Beat ==
  /\ pc = "beat" /\ pc' = IF done = "none" THEN "greet" ELSE "talk"
  /\ UNCHANGED <<call, lost, room, greeted, det, now, ending, items, heard, report, hist>>

(* The greeting was spoken: the detector starts, and its watcher. *)
Greet ==
  /\ pc = "greet" /\ pc' = "talk" /\ greeted' = TRUE /\ det' = on_answer(0) /\ agent' = FALSE
  /\ UNCHANGED <<call, lost, present, speaking, spoke, now, ending, items, heard, report, hist>>

(* The session reports an error it cannot recover from, or it or the room closes. *)
SessionFails(reason) ==
  /\ Errors /\ pc \in {"pickup", "probe", "beat", "greet", "talk", "last", "wait"} /\ Finish(reason)
  /\ UNCHANGED <<pc, call, lost, room, greeted, det, now, wrap, wrapping, items, heard, report, hist>>

(* Saying the greeting raised. *)
GreetFails ==
  /\ Errors /\ pc = "greet" /\ Finish("error") /\ pc' = "wait"
  /\ UNCHANGED <<call, lost, room, greeted, det, now, wrap, wrapping, items, heard, report, hist>>

-----------------------------------------------------------------------------
(* The callee and the agent's own voice, as the session's events tell of them. *)

InTalk == pc \in {"pickup", "probe", "beat", "greet", "talk", "last", "wait"} /\ present

(* A coroutine that awaits the future goes on at once when it is resolved. *)
Goes == done = "none" \/ pc \notin {"talk", "wait"}

CalleeSpeaks ==
  /\ InTalk /\ Goes /\ ~speaking /\ (greeted \/ Early) /\ speaking' = TRUE /\ spoke' = TRUE
  /\ det' = on_remote_speech_start(det, now)
  /\ UNCHANGED <<pc, call, lost, present, agent, greeted, now, ending, items, heard, report, hist>>

(* Noise leaves no text; before the greeting a turn is not answered and may or may
   not become an item. *)
CalleeStops(kind) ==
  /\ InTalk /\ Goes /\ speaking /\ speaking' = FALSE /\ det' = on_remote_speech_end(det)
  /\ items' \in (IF kind = "noise" \/ Len(items) + Len(heard) >= MaxTurns THEN {items}
                 ELSE IF greeted THEN {Append(items, kind)} ELSE {items, Append(items, kind)})
  /\ hist' = [hist EXCEPT !.human = TRUE]
  /\ UNCHANGED <<pc, call, lost, present, spoke, agent, greeted, now, ending, heard, report>>

AgentSpeaks ==
  /\ greeted /\ InTalk /\ done = "none" /\ agent' = ~agent
  /\ det' = IF agent THEN on_agent_speech_end(det, now) ELSE on_agent_speech_start(det, now)
  /\ UNCHANGED <<pc, call, lost, present, speaking, spoke, greeted, now, ending, items, heard, report, hist>>

(* conversation_item_added for an utterance of the callee. *)
_on_item ==
  /\ InTalk /\ items # <<>> /\ items' = Tail(items) /\ heard' = Append(heard, Head(items))
  /\ IF Head(items) = "voicemail" /\ Len(heard') <= 2
     THEN Finish("voicemail_reached") /\ hist' = [hist EXCEPT !.by = "text"] /\ UNCHANGED <<wrap, wrapping>>
     ELSE IF Head(items) \in {"bye", "dnc"} /\ ~wrapping /\ done = "none"
     THEN wrap' = "saying" /\ wrapping' = TRUE /\ hist' = [hist EXCEPT !.closers = @ + 1] /\ UNCHANGED done
     ELSE UNCHANGED <<ending, hist>>
  /\ UNCHANGED <<pc, call, lost, room, greeted, det, now, report>>

(* The closer was said and a beat has passed. *)
WrapUp ==
  /\ wrap = "saying" /\ pc \notin {"close", "over"} /\ wrap' = "over" /\ Finish("callee_ended")
  /\ UNCHANGED <<pc, call, lost, room, greeted, det, now, wrapping, items, heard, report, hist>>

(* The model calls end_call after its goodbye. *)
end_call ==
  /\ greeted /\ pc = "talk" /\ Finish("agent_ended")
  /\ UNCHANGED <<pc, call, lost, room, greeted, det, now, wrap, wrapping, items, heard, report, hist>>

CalleeLeaves ==
  /\ InTalk /\ present' = FALSE /\ speaking' = FALSE /\ Finish("callee_hung_up")
  /\ UNCHANGED <<pc, call, lost, spoke, agent, greeted, det, now, wrap, wrapping, items, heard, report, hist>>

(* A second passes, and the watcher asks the detector. *)
_watch_for_machine ==
  /\ greeted /\ done = "none" /\ InTalk /\ now < MaxTime /\ now' = now + 1
  /\ LET verdict == check(det, now') IN
       /\ done' = verdict
       /\ hist' = [hist EXCEPT !.quiet = IF speaking \/ agent THEN @ ELSE @ + 1,
                               !.by = IF verdict = "none" THEN @ ELSE "audio"]
  /\ UNCHANGED <<pc, call, lost, room, greeted, det, wrap, wrapping, items, heard, report>>

-----------------------------------------------------------------------------
(* The end.  At the time limit wrap_up does nothing if it is already under way. *)
TimeLimit_NoFlag ==
  /\ pc = "talk" /\ done = "none" /\ pc' = "last" /\ wrapping' = TRUE
  /\ hist' = [hist EXCEPT !.closers = @ + 1]
  /\ UNCHANGED <<call, lost, room, greeted, det, now, wrap, done, items, heard, report>>

TimeLimit ==
  /\ pc = "talk" /\ done = "none" /\ pc' = IF wrapping THEN "wait" ELSE "last"
  /\ wrapping' = TRUE /\ hist' = [hist EXCEPT !.closers = IF wrapping THEN @ ELSE @ + 1]
  /\ UNCHANGED <<call, lost, room, greeted, det, now, wrap, done, items, heard, report>>

OutOfTime ==
  /\ pc = "last" /\ Finish("time_limit") /\ pc' = "wait"
  /\ UNCHANGED <<call, lost, room, greeted, det, now, wrap, wrapping, items, heard, report, hist>>

(* The tasks are cancelled and the session is closed. *)
Close_Forgets(to) ==
  /\ pc = "talk" /\ done # "none" /\ pc' = to /\ wrap' = "over"
  /\ UNCHANGED <<call, lost, room, greeted, det, now, wrapping, done, items, heard, report, hist>>

Close(to) ==
  /\ pc \in {"talk", "wait"} /\ done # "none" /\ pc' = to /\ wrap' = "over"
  /\ UNCHANGED <<call, lost, room, greeted, det, now, wrapping, done, items, heard, report, hist>>

(* The call is hung up; a failure is logged.  Then the outcome. *)
HangUp ==
  /\ pc = "close" /\ pc' = "over"
  /\ \/ call' = "ended" /\ UNCHANGED lost
     \/ lost' = TRUE /\ UNCHANGED call
  /\ \E model \in {"completed", "declined", "failed"} : report' = _outcome(done, model)
  /\ UNCHANGED <<room, greeted, det, now, ending, items, heard, hist>>

(* The broker's side: the callee answers, or the broker ends the call. *)
CalleeJoins ==
  /\ pc \in {"join", "ring"} /\ call = "ringing" /\ ~present /\ call' = "answered" /\ present' = TRUE
  /\ UNCHANGED <<pc, lost, speaking, spoke, agent, greeted, det, now, ending, items, heard, report, hist>>

Next ==
  \/ NoRoom \/ Connect \/ Answered \/ NotAnswered \/ Pickup \/ Probe \/ Beat \/ Greet \/ GreetFails
  \/ CalleeSpeaks \/ AgentSpeaks \/ _on_item \/ WrapUp \/ end_call \/ CalleeLeaves
  \/ _watch_for_machine \/ TimeLimit \/ OutOfTime \/ Close("close") \/ HangUp \/ CalleeJoins
  \/ \E kind \in Kinds : CalleeStops(kind)
  \/ \E reason \in {"error", "session_closed", "room_closed"} : SessionFails(reason)

Spec == Init /\ [][Next]_vars

(* What the coroutine awaits ends in time: speech is played out, waits have a
   timeout, and the time limit passes. *)
Steps == Connect \/ Answered \/ NotAnswered \/ Pickup \/ Probe \/ Beat \/ Greet \/ OutOfTime \/ Close("close") \/ HangUp


-----------------------------------------------------------------------------

(* The detector finds a voicemail only after silence_limit seconds in which neither
   side spoke; the agent's own speech does not count. *)
OnlyRealSilence == hist.by = "audio" /\ done = "voicemail_reached" => hist.quiet > silence_limit

(* A request not to be called again that was transcribed decides the disposition,
   whatever the model says. *)
DncRecorded == report # "none" /\ (\E i \in DOMAIN heard : heard[i] = "dnc") => report = "dnc"

(* The callee hears one closing line, although a goodbye and the time limit may
   meet. *)
OneCloser == hist.closers <= 1

(* When there is a result row the call is over, unless hanging up failed. *)
ReportedIsOver == report # "none" => call = "ended" \/ lost

(* A call without its report; each comes to one, the future is always resolved. *)
GoesOn == pc # "over"
=============================================================================
