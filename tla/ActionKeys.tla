------------------------------ MODULE ActionKeys ------------------------------
(***************************************************************************)
(* One action key of a run: the SDK's `once` around a side effect, the     *)
(* retries of its requests, and claim_action and complete_action in the    *)
(* run service.  Requests and answers may be lost, late and repeated; an   *)
(* attempt may die anywhere and the owner may retry the run.               *)
(***************************************************************************)
EXTENDS Integers

CONSTANTS Calls,      \* calls of once with this key, each in an attempt
          AttemptOf,  \* the attempt that makes a call
          MaxSends,   \* bound: times a request is sent
          Resume      \* the calls made with resume_in_progress

None == "none"
Kinds == {"claim", "complete"}

VARIABLES onceRow,  \* IdempotencyAction: state, attempt, token, result
          attempt,  \* the run's current attempt
          pc,       \* per call: idle, claim, fn, complete, returned, raised
          sends,    \* times the present request was sent
          net,      \* copies of each request on their way
          answer,   \* answers on their way: [call, status, result]
          effects,  \* history: the calls whose side effect happened
          value     \* per call: what once returned

onceVars == <<onceRow, attempt, pc, sends, net, answer, effects, value>>

OnceInit ==
  /\ onceRow = [state |-> None, attempt |-> 0, token |-> None, result |-> None]
  /\ attempt = 1 /\ pc = [c \in Calls |-> "idle"] /\ sends = [c \in Calls |-> 0]
  /\ net = [c \in Calls |-> [k \in Kinds |-> 0]] /\ answer = {} /\ effects = {}
  /\ value = [c \in Calls |-> None]

-----------------------------------------------------------------------------
(* The SDK. *)

Send(c, kind) == net' = [net EXCEPT ![c][kind] = @ + 1]

once(c) ==
  /\ pc[c] = "idle" /\ AttemptOf[c] = attempt /\ pc' = [pc EXCEPT ![c] = "claim"]
  /\ sends' = [sends EXCEPT ![c] = 1] /\ Send(c, "claim")
  /\ UNCHANGED <<onceRow, attempt, answer, effects, value>>

(* No answer in time, or the connection broke: the same request again, with the
   same token, or the error is raised. *)

Retry(c) ==
  /\ pc[c] \in Kinds /\ sends[c] < MaxSends
  /\ sends' = [sends EXCEPT ![c] = @ + 1] /\ Send(c, pc[c])
  /\ UNCHANGED <<onceRow, attempt, pc, answer, effects, value>>

GiveUp(c) ==
  /\ pc[c] \in Kinds \cup {"fn"} /\ pc' = [pc EXCEPT ![c] = "raised"]
  /\ UNCHANGED <<onceRow, attempt, sends, net, answer, effects, value>>

ClaimAnswered(c) ==
  \E a \in answer :
    /\ a.call = c /\ a.kind = "claim" /\ pc[c] = "claim"
    /\ pc' = [pc EXCEPT ![c] =
         IF a.status = "completed" THEN "returned"
         ELSE IF a.status = "rejected" \/ (a.status = "in_doubt" /\ c \notin Resume) THEN "raised"
         ELSE "fn"]
    /\ value' = [value EXCEPT ![c] = IF a.status = "completed" THEN a.result ELSE @]
    /\ answer' = answer \ {a}
    /\ UNCHANGED <<onceRow, attempt, sends, net, effects>>

(* fn takes effect; the process may die before it completes the key. *)
Act_CompletesOnError(c) ==
  /\ pc[c] = "fn" /\ effects' \in {effects, effects \cup {c}} /\ pc' = [pc EXCEPT ![c] = "complete"]
  /\ sends' = [sends EXCEPT ![c] = 1] /\ Send(c, "complete")
  /\ UNCHANGED <<onceRow, attempt, answer, value>>

Act(c) ==
  /\ pc[c] = "fn" /\ effects' = effects \cup {c} /\ pc' = [pc EXCEPT ![c] = "complete"]
  /\ sends' = [sends EXCEPT ![c] = 1] /\ Send(c, "complete")
  /\ UNCHANGED <<onceRow, attempt, answer, value>>

CompleteAnswered(c) ==
  \E a \in answer :
    /\ a.call = c /\ a.kind = "complete" /\ pc[c] = "complete" /\ answer' = answer \ {a}
    /\ pc' = [pc EXCEPT ![c] = IF a.status = "rejected" THEN "raised" ELSE "returned"]
    /\ value' = [value EXCEPT ![c] = IF a.status = "rejected" THEN @ ELSE c]
    /\ UNCHANGED <<onceRow, attempt, sends, net, effects>>

-----------------------------------------------------------------------------
(* The service; the token of a claim is its call. *)

Claimed(c) == [onceRow EXCEPT !.state = "claimed", !.attempt = AttemptOf[c], !.token = c]

SameClaimant_SameAttempt(c) == onceRow.state = "claimed" /\ onceRow.attempt = AttemptOf[c]

SameClaimant(c) == onceRow.state = "claimed" /\ onceRow.token = c /\ onceRow.attempt = AttemptOf[c]

claim_action(c) ==
  LET status == IF attempt # AttemptOf[c] THEN "rejected"
                ELSE IF onceRow.state = None \/ SameClaimant(c) THEN "claimed"
                ELSE IF onceRow.state = "completed" THEN "completed"
                ELSE "in_doubt" IN
  /\ net[c]["claim"] > 0 /\ net' = [net EXCEPT ![c]["claim"] = @ - 1]
  /\ onceRow' = IF status = "claimed" THEN Claimed(c)
            ELSE IF status = "in_doubt" THEN [onceRow EXCEPT !.state = "in_doubt", !.attempt = AttemptOf[c]]
            ELSE onceRow
  /\ answer' \in {answer, answer \cup {[call |-> c, kind |-> "claim", status |-> status, result |-> onceRow.result]}}
  /\ UNCHANGED <<attempt, pc, sends, effects, value>>

complete_action(c) ==
  LET ok == attempt = AttemptOf[c] /\ onceRow.state # None IN
  /\ net[c]["complete"] > 0 /\ net' = [net EXCEPT ![c]["complete"] = @ - 1]
  /\ onceRow' = IF ok /\ onceRow.state # "completed" THEN [onceRow EXCEPT !.state = "completed", !.result = c] ELSE onceRow
  /\ answer' \in {answer, answer \cup {[call |-> c, kind |-> "complete", result |-> onceRow'.result,
                                         status |-> IF ok THEN "completed" ELSE "rejected"]}}
  /\ UNCHANGED <<attempt, pc, sends, effects, value>>

(* A request that never arrives. *)
Lost(c, kind) ==
  /\ net[c][kind] > 0 /\ net' = [net EXCEPT ![c][kind] = @ - 1]
  /\ UNCHANGED <<onceRow, attempt, pc, sends, answer, effects, value>>

(* The owner retries a run whose attempt has ended; its process may still work. *)
RetryRun ==
  /\ \E c \in Calls : AttemptOf[c] > attempt
  /\ attempt' = attempt + 1
  /\ UNCHANGED <<onceRow, pc, sends, net, answer, effects, value>>

OnceNext ==
  \/ RetryRun
  \/ \E c \in Calls :
       \/ once(c) \/ Retry(c) \/ GiveUp(c) \/ ClaimAnswered(c) \/ Act(c) \/ CompleteAnswered(c)
       \/ claim_action(c) \/ complete_action(c) \/ \E kind \in Kinds : Lost(c, kind)

OnceSpec == OnceInit /\ [][OnceNext]_onceVars

-----------------------------------------------------------------------------

(* "Run fn at most once per key for this run, across attempts": whatever is lost,
   late or repeated, and whichever attempts and tasks call once. *)
AtMostOnce == \A c, d \in effects : c = d \/ c \in Resume \/ d \in Resume

(* A stored result is that of a side effect that happened, and a call that
   returns without acting returns it. *)
ResultHappened ==
  /\ onceRow.state = "completed" => onceRow.result \in effects
  /\ \A c \in Calls : pc[c] = "returned" => value[c] \in effects
=============================================================================
