---------------------------- MODULE AgentProcess ----------------------------
(***************************************************************************)
(* An agent's process in the SDK (Agent.execute): its task, the heartbeat  *)
(* beside it, the last events and the result after it, over a connection   *)
(* to the broker that has outages.  Times are ages and delays in ticks; an *)
(* exchange with a broker that is up takes no time.                        *)
(***************************************************************************)
EXTENDS Integers

CONSTANTS Interval,   \* heartbeatIntervalSeconds
          Budget,     \* outage_budget(Interval)
          Cap,        \* _OUTAGE_BACKOFF_CAP
          MaxOutage,  \* bound: an outage's length
          Pause,      \* bound: the time between two outages is longer
          Slow        \* how long the last events may take although the broker is up

Lease == 3 * Interval   \* heartbeat_timeout_seconds

VARIABLES run,     \* agent_runs.state
          since,   \* ticks since the lease was extended
          asked,   \* ticks since the owner cancelled
          broker,  \* up or not, and for how long
          task,    \* running, stopping (cancel() was called), returned, raised, cancelled
          hb,      \* the heartbeat: sleep, try, off; ticks to its next step; ticks since the first failure
          fin,     \* _finish: no, events, result, exit; as hb
          exit     \* the process's exit code, 9 while it runs

vars == <<run, since, asked, broker, task, hb, fin, exit>>

Terminal == {"SUCCEEDED", "FAILED", "CANCELLED", "INTERRUPTED"}
Ended == task \in {"returned", "raised", "cancelled"}
CancelBound == Interval + MaxOutage + Cap
Smaller(a, b) == IF a < b THEN a ELSE b
At(pc, timer) == [pc |-> pc, timer |-> timer, out |-> 0]

(* After the handshake, which extends the lease. A configuration that does not fit
   goes straight to _finish. *)
Init ==
  /\ run = "RUNNING" /\ since = 0 /\ asked = 0 /\ broker = [up |-> TRUE, for |-> 0] /\ exit = 9
  /\ \/ task = "running" /\ hb = At("sleep", Interval) /\ fin = At("no", 0)
     \/ task = "raised" /\ hb = At("off", 0) /\ fin = At("events", 0)

-----------------------------------------------------------------------------
(* outage_retry: the delays before the next try, while the budget lasts. *)
Delays(req) == 1..Smaller(Cap, Budget - req.out)

-----------------------------------------------------------------------------
(* The heartbeat's task. *)
HbDue == hb.pc # "off" /\ hb.timer = 0

(* service.heartbeat extends the lease of a run that has not ended. *)
CancelRequested_Never == FALSE
CancelRequested == run \in Terminal \cup {"CANCELLING"}

Beat ==
  /\ HbDue /\ broker.up /\ ~Ended
  /\ since' = IF run \in Terminal THEN since ELSE 0
  /\ IF CancelRequested
     THEN hb' = At("off", 0) /\ task' = "stopping"
     ELSE hb' = At("sleep", Interval) /\ UNCHANGED task
  /\ UNCHANGED <<run, asked, broker, fin, exit>>


BeatFails ==
  /\ HbDue /\ ~broker.up /\ ~Ended
  /\ IF hb.out < Budget
     THEN \E d \in Delays(hb) : hb' = [hb EXCEPT !.pc = "try", !.timer = d]
     ELSE hb' = At("sleep", Interval)
  /\ UNCHANGED <<run, since, asked, broker, task, fin, exit>>

-----------------------------------------------------------------------------
(* The agent's function ends, of itself or because it was cancelled. *)
TaskEnds ==
  /\ ~Ended
  /\ \/ task = "running" /\ task' \in {"returned", "raised"}
     \/ task = "stopping" /\ task' \in {"returned", "raised", "cancelled"}
  /\ hb' = At("off", 0) /\ \E d \in 0..Slow : fin' = At("events", d)
  /\ UNCHANGED <<run, since, asked, broker, exit>>

FinDue == fin.pc \in {"events", "result"} /\ fin.timer = 0

(* events.aclose: the last batch is delivered, or given up. *)
EventsDone ==
  /\ FinDue /\ fin.pc = "events"
  /\ IF broker.up \/ fin.out >= Budget
     THEN fin' = At("result", 0)
     ELSE \E d \in Delays(fin) : fin' = [fin EXCEPT !.timer = d]
  /\ UNCHANGED <<run, since, asked, broker, task, hb, exit>>

(* service.finish: the first outcome wins; a result during cancellation ends it. *)
finish(r) ==
  IF r \in Terminal THEN r
  ELSE IF r = "CANCELLING" THEN "CANCELLED"
  ELSE IF task = "returned" THEN "SUCCEEDED" ELSE "FAILED"

ExitCode_OfTask(state) == IF task = "returned" THEN 0 ELSE 1
ExitCode(state) == IF state = "SUCCEEDED" THEN 0 ELSE 1

PostResult ==
  /\ FinDue /\ fin.pc = "result" /\ broker.up
  /\ run' = finish(run) /\ exit' = ExitCode(finish(run)) /\ fin' = At("exit", 0)
  /\ UNCHANGED <<since, asked, broker, task, hb>>

(* The broker goes down with the answer; the request is sent again. *)
ResultLost ==
  /\ FinDue /\ fin.pc = "result" /\ broker.up /\ broker.for > Pause /\ MaxOutage > 0
  /\ run' = finish(run) /\ broker' = [up |-> FALSE, for |-> 0]
  /\ UNCHANGED <<since, asked, task, hb, fin, exit>>

ResultFails_NoRetry ==
  /\ FinDue /\ fin.pc = "result" /\ ~broker.up /\ fin' = At("exit", 0) /\ exit' = 2
  /\ UNCHANGED <<run, since, asked, broker, task, hb>>

ResultFails ==
  /\ FinDue /\ fin.pc = "result" /\ ~broker.up
  /\ IF fin.out < Budget
     THEN \E d \in Delays(fin) : fin' = [fin EXCEPT !.timer = d] /\ UNCHANGED exit
     ELSE fin' = At("exit", 0) /\ exit' = 2
  /\ UNCHANGED <<run, since, asked, broker, task, hb>>

-----------------------------------------------------------------------------
(* The owner, the reconciler, and SIGTERM from a stop of the container. *)
Cancel ==
  /\ run = "RUNNING" /\ run' = "CANCELLING" /\ asked' = 0
  /\ UNCHANGED <<since, broker, task, hb, fin, exit>>

Interrupt ==
  /\ run = "RUNNING" /\ since >= Lease /\ run' = "INTERRUPTED"
  /\ UNCHANGED <<since, asked, broker, task, hb, fin, exit>>

Sigterm ==
  /\ run \in Terminal \cup {"CANCELLING"} /\ task = "running" /\ task' = "stopping"
  /\ UNCHANGED <<run, since, asked, broker, hb, fin, exit>>

GoesDown ==
  /\ broker.up /\ broker.for > Pause /\ MaxOutage > 0 /\ broker' = [up |-> FALSE, for |-> 0]
  /\ UNCHANGED <<run, since, asked, task, hb, fin, exit>>

ComesBack ==
  /\ ~broker.up /\ broker' = [up |-> TRUE, for |-> 0]
  /\ UNCHANGED <<run, since, asked, task, hb, fin, exit>>

(* A tick: nothing that is due is left undone. *)
Down(req) == [req EXCEPT !.timer = IF @ > 0 THEN @ - 1 ELSE 0,
                         !.out = IF req.pc \in {"try", "events", "result"} /\ ~broker.up
                                 THEN Smaller(@ + 1, Budget) ELSE @]

Tick ==
  /\ ~(HbDue /\ ~Ended) /\ ~FinDue /\ exit = 9 /\ (broker.up \/ broker.for < MaxOutage)
  /\ since' = Smaller(since + 1, Lease)
  /\ asked' = IF run = "CANCELLING" THEN Smaller(asked + 1, CancelBound + 1) ELSE 0
  /\ broker' = [broker EXCEPT !.for = Smaller(@ + 1, IF broker.up THEN Pause + 1 ELSE MaxOutage)]
  /\ hb' = Down(hb) /\ fin' = Down(fin) /\ UNCHANGED <<run, task, exit>>

Next ==
  \/ Beat \/ BeatFails \/ TaskEnds \/ EventsDone \/ PostResult \/ ResultLost \/ ResultFails
  \/ Cancel \/ Interrupt \/ Sigterm \/ GoesDown \/ ComesBack \/ Tick

Spec == Init /\ [][Next]_vars

-----------------------------------------------------------------------------
(* "Ride out broker restarts for as long as the heartbeat lease can survive them":
   an agent that works, or delivers its outcome, keeps its lease through every
   outage of at most MaxOutage. *)
KeepsLease == run = "RUNNING" /\ exit = 9 => since < Lease

(* An agent learns of a cancellation within one interval and an outage. *)
CancelReaches == run = "CANCELLING" /\ task = "running" => asked <= CancelBound

(* The exit code tells what the platform recorded, also when the agent's outcome was
   not the first one, and when the answer to the result was lost. *)
ExitTellsTruth == /\ exit = 0 => run = "SUCCEEDED"
                  /\ exit = 1 => run \in Terminal \ {"SUCCEEDED"}

(* "event delivery must never prevent the outcome from being posted": what the
   agent's function came to is what the run came to, unless the owner cancelled. *)
OutcomeRecorded ==
  exit # 9 /\ run # "CANCELLED" =>
     run = IF task = "returned" THEN "SUCCEEDED" ELSE "FAILED"
=============================================================================
