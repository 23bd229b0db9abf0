---------------------------- MODULE FakePlatform ----------------------------
(***************************************************************************)
(* The in-memory platform that agents are developed and tested against     *)
(* (packages/fake_platform), with one run.  It has no transactions: every  *)
(* handler is atomic because it does not await, and one that raises leaves *)
(* behind what it did before.  The question is whether an agent meets      *)
(* there what the platform promises it, RunContract.                       *)
(***************************************************************************)
EXTENDS RunStates, Naturals, FiniteSets

CONSTANTS MaxAttempt, Keys, Actions,
          Delays,   \* a fault may hold a request back after it was authenticated
          Early,    \* an agent may post its result before its handshake
          Watched   \* a client follows the event stream

VARIABLES run,      \* the Run and its current Attempt; by: the attempt whose agent posted the outcome
          inp,      \* input requests by key
          act,      \* action keys; n: how many calls were told "claimed" (up to 2)
          cold,     \* the model is not loaded
          loads,    \* attempts with a request that waits for the model
          held,     \* requests a fault holds back: <<operation, attempt>>
          auto,     \* keys with an automatic answer on its way
          live,     \* attempts whose process runs
          greeted,  \* attempts whose handshake was answered
          stream    \* a client of the event stream; news: events it was not sent

vars == <<run, inp, act, cold, loads, held, auto, live, greeted, stream>>
rest == <<act, cold, loads, auto, live, greeted>>

Attempts == 1..MaxAttempt
ACTIVE == ACTIVE_STATES \ {"CANCELLING"}

Init ==
  /\ run = [state |-> "QUEUED", cur |-> 1, row |-> FALSE, outcome |-> "none", by |-> 0,
            retryable |-> FALSE, exited |-> FALSE]
  /\ inp = [k \in Keys |-> [st |-> "absent", att |-> 0]]
  /\ act = [x \in Actions |-> [st |-> "absent", n |-> 0]]
  /\ cold = TRUE /\ loads = {} /\ held = {} /\ auto = {} /\ live = {} /\ greeted = {}
  /\ stream = [pc |-> "off", news |-> TRUE]

Pending == {k \in Keys : inp[k].st = "pending"}
Moved(state) == [run EXCEPT !.state = state]
Appended == stream' = [stream EXCEPT !.news = TRUE]

\* close_pending_inputs and expire_if_due: the requests in ks leave "pending".
Closed(ks, st) == [k \in Keys |-> IF k \in ks THEN [inp[k] EXCEPT !.st = st] ELSE inp[k]]

\* resume_if_no_pending after the requests in ks are closed.
resume_if_no_pending(ks) ==
  IF run.state = "WAITING_INPUT" /\ Pending \subseteq ks THEN Moved("RUNNING") ELSE run

-----------------------------------------------------------------------------
(* Requests of an agent.  run_auth checks the token; a fault may then hold *)
(* the request back, and `require` is part of the operation itself.        *)

run_auth_NoAttempt(a) == a \in live
run_auth(a) == a \in live /\ a = run.cur

Operations == {<<"handshake">>, <<"events">>, <<"chat">>}
                \union {<<"result", r>> : r \in {"succeeded", "failed", "fatal"}}
                \union {<<op, k>> : op \in {"ask", "get"}, k \in Keys}
                \union {<<op, x>> : op \in {"claim", "complete"}, x \in Actions}

\* Agents built with the SDK do nothing before their handshake is answered.
Sends(op, a) == run_auth(a) /\ (op = <<"handshake">> \/ Early \/ a \in greeted)

Hold(op, a) ==
  /\ Delays /\ held = {} /\ Sends(op, a)
  /\ held' = {<<op, a>>}
  /\ UNCHANGED <<run, inp, rest, stream>>

Runs(op, a) ==
  \/ Sends(op, a) /\ UNCHANGED held
  \/ <<op, a>> \in held /\ held' = held \ {<<op, a>>}

\* require, without and with a capability.
Accepted == run.state \in ACTIVE_STATES
Allowed == run.state \in ACTIVE

handshake(a) ==
  /\ Runs(<<"handshake">>, a) /\ Accepted
  /\ run' = IF run.state = "PREPARING" THEN Moved("RUNNING") ELSE run
  /\ greeted' = greeted \union {a}
  /\ IF run' = run THEN UNCHANGED stream ELSE Appended
  /\ UNCHANGED <<inp, act, cold, loads, auto, live>>

post_events(a) ==
  /\ Runs(<<"events">>, a) /\ Accepted
  /\ Appended
  /\ UNCHANGED <<run, inp, rest>>

\* A success posted before the handshake cannot be recorded: the transition raises, after
\* the outcome was.
finish(r, a) ==
  LET posted == [run EXCEPT !.outcome = r, !.by = a]
  IN  CASE run.state \in TERMINAL_STATES -> run
        [] run.state = "CANCELLING" -> [posted EXCEPT !.state = "CANCELLED"]
        [] run.state = "PREPARING" /\ r = "succeeded" -> posted
        [] OTHER -> [posted EXCEPT !.state = IF r = "succeeded" THEN "SUCCEEDED" ELSE "FAILED",
                                   !.retryable = (r = "failed")]

post_result(r, a) ==
  /\ Runs(<<"result", r>>, a)
  /\ run.state \in TERMINAL_STATES \/ Accepted
  /\ run' = finish(r, a)
  /\ inp' = IF run'.state \in {"SUCCEEDED", "FAILED"} THEN Closed(Pending, "cancelled") ELSE inp
  /\ IF run' = run THEN UNCHANGED stream ELSE Appended
  /\ UNCHANGED rest

Expire(ks) ==
  /\ ks # {} /\ ks \subseteq Pending
  /\ inp' = Closed(ks, "expired")
  /\ run' = resume_if_no_pending(ks)
  /\ Appended

Reopens(i) == i.st \in {"cancelled", "expired"} /\ i.att < run.cur

\* A deadline that has passed is noticed first; the request is then an expired one of this
\* attempt.  An automatic answer is scheduled when a rule matches the key.
ask(k, a) ==
  /\ Runs(<<"ask", k>>, a) /\ run.state \in {"RUNNING", "WAITING_INPUT"}
  /\ \/ Expire({k}) /\ UNCHANGED auto
     \/ /\ inp[k].st = "absent" \/ Reopens(inp[k])
        /\ inp' = [inp EXCEPT ![k] = [st |-> "pending", att |-> run.cur]]
        /\ run' = Moved("WAITING_INPUT")
        /\ auto' \in {auto, auto \union {k}}
        /\ Appended
     \/ /\ inp[k].st # "absent" /\ ~Reopens(inp[k])
        /\ run' = IF k \in Pending THEN Moved("WAITING_INPUT") ELSE run
        /\ IF run' = run THEN UNCHANGED stream ELSE Appended
        /\ UNCHANGED <<inp, auto>>
  /\ UNCHANGED <<act, cold, loads, live, greeted>>

get_input(k, a) ==
  /\ Runs(<<"get", k>>, a) /\ Allowed
  /\ Expire({k})
  /\ UNCHANGED rest

claim_Again(x) == IF act[x].st = "completed" THEN "completed" ELSE "claimed"
claim_reply(x) ==
  CASE act[x].st = "absent" -> "claimed"
    [] act[x].st = "completed" -> "completed"
    [] OTHER -> "in_doubt"

claim(x, a) ==
  /\ Runs(<<"claim", x>>, a) /\ Accepted
  /\ act' = [act EXCEPT ![x] = [st |-> claim_reply(x),
                                n |-> IF claim_reply(x) = "claimed" /\ @.n < 2 THEN @.n + 1 ELSE @.n]]
  /\ UNCHANGED <<run, inp, cold, loads, auto, live, greeted, stream>>

complete(x, a) ==
  /\ Runs(<<"complete", x>>, a) /\ Accepted /\ act[x].st # "absent"
  /\ act' = [act EXCEPT ![x].st = "completed"]
  /\ UNCHANGED <<run, inp, cold, loads, auto, live, greeted, stream>>

\* prepare_profile of a local model that is not loaded, before and after its sleep.
chat(a) ==
  /\ Runs(<<"chat">>, a) /\ Allowed /\ cold /\ a \notin loads
  /\ loads' = loads \union {a}
  /\ run' = IF run.state = "RUNNING" THEN Moved("LOADING_MODEL") ELSE run
  /\ IF run' = run THEN UNCHANGED stream ELSE Appended
  /\ UNCHANGED <<inp, act, cold, auto, live, greeted>>

Ready_AnyState(a) == a \in loads /\ run' = Moved("RUNNING")
Ready(a) ==
  a \in loads /\ run' = IF run.state = "LOADING_MODEL" THEN Moved("RUNNING") ELSE run

ModelReady(a) ==
  /\ Ready(a)
  /\ loads' = loads \ {a} /\ cold' = FALSE
  /\ IF run' = run THEN UNCHANGED stream ELSE Appended
  /\ UNCHANGED <<inp, act, held, auto, live, greeted>>

-----------------------------------------------------------------------------
(* The owner, and the launcher that runs the attempts.                     *)

dispatch ==
  /\ run.state = "QUEUED"
  /\ run' = [run EXCEPT !.state = "PREPARING", !.row = TRUE]
  /\ live' = live \union {run.cur}
  /\ Appended
  /\ UNCHANGED <<inp, act, cold, loads, held, auto, greeted>>

\* The process of attempt a ends; its exit is recorded if the attempt is the current one.
exit_state_Ignores == run.state
exit_state ==
  CASE run.outcome # "none" -> run.state
    [] run.state = "CANCELLING" -> "CANCELLED"
    [] run.state \in ACTIVE -> "INTERRUPTED"
    [] OTHER -> run.state

report_exit(a) ==
  /\ a \in live
  /\ live' = live \ {a}
  /\ IF a # run.cur THEN UNCHANGED <<run, inp, stream>>
     ELSE /\ run' = [run EXCEPT !.exited = TRUE, !.state = exit_state]
          /\ inp' = IF run'.state = "INTERRUPTED" THEN Closed(Pending, "cancelled") ELSE inp
          /\ IF run'.state = run.state THEN UNCHANGED stream ELSE Appended
  /\ UNCHANGED <<act, cold, loads, held, auto, greeted>>

cancel_run_KeepsInputs == inp
cancel_inputs == Closed(Pending, "cancelled")

cancel_run ==
  /\ run.state \in CANCELLABLE_STATES
  /\ run' = Moved(IF run.state = "QUEUED" THEN "CANCELLED" ELSE "CANCELLING")
  /\ inp' = cancel_inputs
  /\ Appended
  /\ UNCHANGED <<held, rest>>

retry_run ==
  /\ run.state = "INTERRUPTED" \/ (run.state = "FAILED" /\ run.retryable)
  /\ run.cur < MaxAttempt
  /\ run' = [state |-> "QUEUED", cur |-> run.cur + 1, row |-> FALSE, outcome |-> "none", by |-> 0,
             retryable |-> FALSE, exited |-> FALSE]
  /\ Appended
  /\ UNCHANGED <<inp, held, rest>>

list_inputs(ks) == Expire(ks) /\ UNCHANGED <<held, rest>>

answer_input(k) == inp[k].st = "pending"

Answered(k) ==
  /\ answer_input(k)
  /\ inp' = Closed({k}, "answered")
  /\ run' = resume_if_no_pending({k})
  /\ Appended

Answer(k) == Answered(k) /\ UNCHANGED <<held, rest>>

\* The rule's delay is over; the question may have been closed, or asked again, meanwhile.
auto_answer(k) ==
  /\ k \in auto /\ auto' = auto \ {k}
  /\ \/ Answered(k)
     \/ inp[k].st # "pending" /\ UNCHANGED <<run, inp, stream>>
  /\ UNCHANGED <<act, cold, loads, held, live, greeted>>

-----------------------------------------------------------------------------
(* stream_run_events: the events after the last one sent are listed and    *)
(* sent one by one, each an await; then the run's state is looked at.      *)

List ==
  /\ Watched
  /\ stream.pc = "off" \/ (stream.pc = "waiting" /\ stream.news)
  /\ stream' = [pc |-> "sending", news |-> FALSE]
  /\ UNCHANGED <<run, inp, held, rest>>

Sent ==
  /\ stream.pc = "sending"
  /\ stream' = [stream EXCEPT !.pc = IF run.state \in TERMINAL_STATES THEN "closed" ELSE "waiting"]
  /\ UNCHANGED <<run, inp, held, rest>>

Next ==
  \/ \E a \in Attempts :
       \/ handshake(a) \/ post_events(a) \/ chat(a) \/ ModelReady(a) \/ report_exit(a)
       \/ \E op \in Operations : Hold(op, a)
       \/ \E r \in {"succeeded", "failed", "fatal"} : post_result(r, a)
       \/ \E k \in Keys : ask(k, a) \/ get_input(k, a)
       \/ \E x \in Actions : claim(x, a) \/ complete(x, a)
  \/ dispatch \/ cancel_run \/ retry_run
  \/ \E ks \in SUBSET Keys : list_inputs(ks)
  \/ \E k \in Keys : Answer(k) \/ auto_answer(k)
  \/ List \/ Sent

Spec == Init /\ [][Next]_vars

-----------------------------------------------------------------------------
(* What the fake keeps of the platform's promises.                         *)

\* The run waits for input exactly while a question is open, and the question is one of its
\* current attempt, whatever closes it: an answer, a deadline, a result, an exit, a
\* cancellation or an automatic answer that comes late.
WaitsWhileAsked ==
  /\ (run.state = "WAITING_INPUT") = (Pending # {})
  /\ \A k \in Pending : inp[k].att = run.cur

\* Of all claims of an action key, by any attempt, one at most is told to go ahead.
ClaimedOnce == \A x \in Actions : act[x].n <= 1

\* The outcome recorded for an attempt was posted by that attempt's agent.
OwnOutcome == run.outcome # "none" => run.by = run.cur

\* Once the launcher has reported the exit of the current attempt, the run is over.
ExitSettles == run.exited => run.state \notin ACTIVE_STATES

=============================================================================
