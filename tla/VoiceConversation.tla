--------------------------- MODULE VoiceConversation ---------------------------
(***************************************************************************)
(* One connected voice call: the tasks of Conversation.run (the receive    *)
(* loop, the agent, its reply, the time limit), the queue of utterances,   *)
(* and Twilio's buffer of audio and marks.  A caller's utterance is a unit;*)
(* the models behind it are external and may fail or take for ever.        *)
(***************************************************************************)
EXTENDS Integers, Sequences

CONSTANTS MaxTurns,   \* bound: utterances of the caller
          ModelFails  \* whether the speech or chat model may fail

Speakers == {"reply", "goodbye"}   \* the agent's reply task, the timer's last words

VARIABLES main,     \* receive, timer, reply, agent (what run's finally waits for), over
          agent,    \* wait, get, transcribe, dead, ended
          timer,    \* sleep, say, after, ended
          speech,   \* per speaker: none, open, audio, done, cancelled, failed
          q,        \* utterances: "turn" or None
          turns,    \* utterances put so far
          hangup, gone,  \* the hang-up event; the caller's end is closed
          speaking, marks,
          buffer,   \* what Twilio has yet to play or return: "audio" and "mark"
          replies,  \* reply tasks created so far
          held      \* the reply task run's finally has in its tuple

vars == <<main, agent, timer, speech, q, turns, hangup, gone, speaking, marks, buffer, replies, held>>

Running(s) == speech[s] \in {"open", "audio"}

(* The agent has begun its greeting. *)
Init ==
  /\ main = "receive" /\ agent = "wait" /\ timer = "sleep"
  /\ speech = [reply |-> "open", goodbye |-> "none"]
  /\ q = <<>> /\ turns = 0 /\ hangup = FALSE /\ gone = FALSE
  /\ speaking = FALSE /\ marks = 0 /\ buffer = <<>> /\ replies = 1 /\ held = 0

-----------------------------------------------------------------------------
(* _receive. *)

Receiving == main = "receive" /\ ~hangup /\ ~gone

(* Outside its own speech the assistant hears an utterance to its end. *)
Utterance ==
  /\ Receiving /\ ~speaking /\ turns < MaxTurns
  /\ q' = Append(q, "turn") /\ turns' = turns + 1
  /\ UNCHANGED <<main, agent, timer, speech, hangup, gone, speaking, marks, buffer, replies, held>>

(* The reply is cancelled and Twilio clears its buffer; it returns the marks
   of what it dropped. *)
_interrupt ==
  /\ speech' = [speech EXCEPT !["reply"] = IF Running("reply") THEN "cancelled" ELSE @]
  /\ speaking' = FALSE /\ marks' = 0
  /\ buffer' = SelectSeq(buffer, LAMBDA x : x = "mark")

BargeIn ==
  /\ Receiving /\ speaking /\ _interrupt
  /\ UNCHANGED <<main, agent, timer, q, turns, hangup, gone, replies, held>>

(* Twilio plays what it has, and returns a mark that comes to the front. *)
Play ==
  /\ buffer # <<>> /\ Head(buffer) = "audio" /\ buffer' = Tail(buffer)
  /\ UNCHANGED <<main, agent, timer, speech, q, turns, hangup, gone, speaking, marks, replies, held>>

Mark ==
  /\ Receiving /\ buffer # <<>> /\ Head(buffer) = "mark" /\ buffer' = Tail(buffer)
  /\ marks' = IF marks <= 1 THEN 0 ELSE marks - 1
  /\ speaking' = IF marks <= 1 THEN FALSE ELSE speaking
  /\ UNCHANGED <<main, agent, timer, speech, q, turns, hangup, gone, replies, held>>

(* The caller hangs up, or Twilio's TimeLimit ends the call; the owner hangs up. *)
CallerGone ==
  /\ ~gone /\ gone' = TRUE
  /\ UNCHANGED <<main, agent, timer, speech, q, turns, hangup, speaking, marks, buffer, replies, held>>

OwnerHangsUp ==
  /\ ~hangup /\ main # "over" /\ hangup' = TRUE
  /\ UNCHANGED <<main, agent, timer, speech, q, turns, gone, speaking, marks, buffer, replies, held>>

Cancelled(spk, which) == [s \in Speakers |-> IF s \in which /\ spk[s] \in {"open", "audio"} THEN "cancelled" ELSE spk[s]]

Sentinel_Forgotten(queue) == queue

Sentinel(queue) == Append(queue, "None")

(* run's finally: the agent is told to end, and the timer is cancelled.  Cancelling
   its last words closes a connection, which takes time; a timer that sleeps ends
   at once, and the reply of that moment is cancelled next. *)
Leave ==
  /\ main = "receive" /\ (hangup \/ gone)
  /\ hangup' = TRUE /\ q' = Sentinel(q) /\ timer' = "ended" /\ held' = replies
  /\ IF Running("goodbye")
     THEN main' = "timer" /\ speech' = Cancelled(speech, {"goodbye"})
     ELSE main' = "reply" /\ speech' = Cancelled(speech, {"reply"})
  /\ UNCHANGED <<agent, turns, gone, speaking, marks, buffer, replies>>

CancelReply ==
  /\ main = "timer" /\ main' = "reply"
  /\ speech' = IF held = replies THEN Cancelled(speech, {"reply"}) ELSE speech
  /\ UNCHANGED <<agent, timer, q, turns, hangup, gone, speaking, marks, buffer, replies, held>>

(* Then the agent, once it has seen its reply end and has taken what is queued.  A
   cancellation that finds it waiting for a newer reply cancels that and is swallowed. *)
CancelAgent ==
  /\ main = "reply" /\ main' = "agent"
  /\ ~(agent = "wait" /\ ~Running("reply")) /\ ~(agent = "get" /\ q # <<>>)
  /\ speech' = IF agent = "wait" THEN Cancelled(speech, {"reply"}) ELSE speech
  /\ agent' = IF agent = "wait" THEN "get" ELSE IF agent = "dead" THEN "dead" ELSE "ended"
  /\ UNCHANGED <<timer, q, turns, hangup, gone, speaking, marks, buffer, replies, held>>

Return ==
  /\ main = "agent" /\ agent \in {"ended", "dead"} /\ main' = "over"
  /\ UNCHANGED <<agent, timer, speech, q, turns, hangup, gone, speaking, marks, buffer, replies, held>>

-----------------------------------------------------------------------------
(* _agent. *)

ReplyOver_StopsOnInterrupt ==
  /\ agent = "wait" /\ ~Running("reply")
  /\ agent' = IF speech["reply"] \in {"failed", "cancelled"} THEN "dead" ELSE "get"
  /\ UNCHANGED <<main, timer, speech, q, turns, hangup, gone, speaking, marks, buffer, replies, held>>

(* A reply that was cancelled is passed over; one that failed ends the task. *)
ReplyOver ==
  /\ agent = "wait" /\ ~Running("reply")
  /\ agent' = IF speech["reply"] = "failed" THEN "dead" ELSE "get"
  /\ UNCHANGED <<main, timer, speech, q, turns, hangup, gone, speaking, marks, buffer, replies, held>>

Take ==
  /\ agent = "get" /\ q # <<>> /\ q' = Tail(q)
  /\ agent' = IF Head(q) = "None" THEN "ended" ELSE "transcribe"
  /\ UNCHANGED <<main, timer, speech, turns, hangup, gone, speaking, marks, buffer, replies, held>>

(* Nothing understood, or an error status: the next utterance.  A connection
   that breaks raises.  An answer does not come between the end of the reply, which
   run waits for too, and the agent's cancellation. *)
_transcribe ==
  /\ agent = "transcribe" /\ main # "reply"
  /\ \/ agent' = "get" /\ UNCHANGED <<speech, replies>>
     \/ agent' = "wait" /\ speech' = [speech EXCEPT !["reply"] = "open"] /\ replies' = replies + 1
     \/ ModelFails /\ agent' = "dead" /\ UNCHANGED <<speech, replies>>
  /\ UNCHANGED <<main, timer, q, turns, hangup, gone, speaking, marks, buffer, held>>

-----------------------------------------------------------------------------
(* _speak, for either speaker. *)

Audio(s) ==
  /\ speech[s] = "open" /\ speech' = [speech EXCEPT ![s] = "audio"]
  /\ speaking' = TRUE /\ buffer' = Append(buffer, "audio")
  /\ UNCHANGED <<main, agent, timer, q, turns, hangup, gone, marks, replies, held>>

SendMark(s) ==
  /\ Running(s) /\ speech' = [speech EXCEPT ![s] = "done"]
  /\ marks' = marks + 1 /\ buffer' = Append(buffer, "mark")
  /\ UNCHANGED <<main, agent, timer, q, turns, hangup, gone, speaking, replies, held>>

SpeechFails(s) ==
  /\ ModelFails /\ Running(s) /\ speech' = [speech EXCEPT ![s] = "failed"]
  /\ UNCHANGED <<main, agent, timer, q, turns, hangup, gone, speaking, marks, buffer, replies, held>>

(* _time_limit: cancel the reply, say goodbye, wait, hang up. *)
LimitReached ==
  /\ timer = "sleep" /\ timer' = "say"
  /\ speech' = [reply |-> IF Running("reply") THEN "cancelled" ELSE speech["reply"], goodbye |-> "open"]
  /\ UNCHANGED <<main, agent, q, turns, hangup, gone, speaking, marks, buffer, replies, held>>

Goodbye ==
  /\ timer = "say" /\ ~Running("goodbye")
  /\ timer' = IF speech["goodbye"] = "done" THEN "after" ELSE "ended"
  /\ UNCHANGED <<main, agent, speech, q, turns, hangup, gone, speaking, marks, buffer, replies, held>>

LimitHangsUp ==
  /\ timer = "after" /\ timer' = "ended" /\ hangup' = TRUE
  /\ UNCHANGED <<main, agent, speech, q, turns, gone, speaking, marks, buffer, replies, held>>

AgentStep == ReplyOver \/ Take \/ _transcribe
RunStep == Leave \/ CancelReply \/ CancelAgent \/ Return
SpeechStep(s) == Audio(s) \/ SendMark(s) \/ SpeechFails(s)

Next ==
  \/ Utterance \/ BargeIn \/ Play \/ Mark \/ CallerGone \/ OwnerHangsUp
  \/ AgentStep \/ RunStep \/ \E s \in Speakers : SpeechStep(s)
  \/ LimitReached \/ Goodbye \/ LimitHangsUp

Spec == Init /\ [][Next]_vars

-----------------------------------------------------------------------------

(* Somebody hung up and run has not returned.  "A call ends when the caller hangs up, the owner
   presses Hang up": it does, although cancellations are swallowed on the way. *)
Ending == (hangup \/ gone) /\ main # "over"

(* An utterance waits for the agent.  "For each caller turn" the agent goes on: it is taken from
   the queue unless the call ends, although replies before it were interrupted. *)
TurnWaits == q # <<>> /\ ~hangup /\ ~gone
=============================================================================
