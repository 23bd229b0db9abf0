---------------------------- MODULE BrokerClient ----------------------------
(***************************************************************************)
(* One call of the SDK's transport (BrokerClient.request): the request is  *)
(* sent again after an outage until the outage budget is spent, and after  *)
(* other retryable answers at most MaxAttempts times.  The operation runs  *)
(* at a provider behind the broker, so a request whose answer is lost may  *)
(* have run, or may still run after the caller has given up.               *)
(*                                                                         *)
(* Time is counted in units in which the first outage delay is 1.          *)
(***************************************************************************)
EXTENDS Naturals

CONSTANTS
  Budget,        \* outage_budget
  Cap,           \* _OUTAGE_BACKOFF_CAP
  MaxAttempts,   \* max_attempts
  Latency,       \* the times a failing exchange may take
  RetryAfters,   \* the values of a Retry-After header
  Faults,        \* what may go wrong: a subset of AllFaults
  MaxSends       \* bound on the requests of one call

AllFaults == {"refused", "broken", "slow", "upstream", "limited", "provider", "lost_reply"}

VARIABLES
  idempotent,  \* the argument of request()
  pc,          \* "send" (the next pass of the loop) or "done"
  attempt, outages, began, slept,   \* the locals of request(); began = 0 is None
  now,         \* self._clock()
  sends,       \* requests that left this process
  applied,     \* how often the operation ran at the provider
  late,        \* requests the caller gave up that may still run
  result       \* what request() returned or raised

vars == <<idempotent, pc, attempt, outages, began, slept, now, sends, applied, late, result>>

None == "none"

Init ==
  /\ idempotent \in BOOLEAN
  /\ pc = "send" /\ result = None
  /\ attempt = 0 /\ outages = 0 /\ began = 0 /\ slept = 0
  /\ now = 1 /\ sends = 0 /\ applied = 0 /\ late = 0

-----------------------------------------------------------------------------
(* What a request may meet.  "ran" says whether the operation has run,     *)
(* "no" or "yes", or may still run ("late").                               *)

Refused == {[kind |-> "not_sent", status |-> 0, code |-> None, ran |-> "no"]}
Broken  == [kind : {"lost"}, status : {0}, code : {None}, ran : {"no", "yes", "late"}]
Slow    == [kind : {"timeout"}, status : {0}, code : {None}, ran : {"no", "yes", "late"}]
Done    == [kind : {"reply"}, status : {200}, code : {None}, ran : {"yes"}]
Denied  == [kind : {"reply"}, status : {409}, code : {"NEEDS_CONNECTION"}, ran : {"no"}]
Upstream == [kind : {"reply"}, status : {502}, code : {"UPSTREAM_ERROR"}, ran : {"no"}]
            \cup [kind : {"reply"}, status : {503}, code : {None}, ran : {"no"}]
Limited == [kind : {"reply"}, status : {429}, code : {"RATE_LIMITED"}, ran : {"no"}]
           \cup [kind : {"reply"}, status : {503}, code : {"MODEL_UNAVAILABLE"}, ran : {"no"}]

(* The connectors turn every failure of their own request into 503
   PROVIDER_UNAVAILABLE and every refusal into 502 PROVIDER_ERROR. *)
Provider == [kind : {"reply"}, status : {503}, code : {"PROVIDER_UNAVAILABLE"}, ran : {"no"}]
            \cup [kind : {"reply"}, status : {502}, code : {"PROVIDER_ERROR"}, ran : {"no"}]
            \cup [kind : {"reply"}, status : {504}, code : {"TIMEOUT"}, ran : {"no", "late"}]
LostReply == [kind : {"reply"}, status : {503}, code : {"PROVIDER_UNAVAILABLE"}, ran : {"yes"}]

Exchanges ==
  Done \cup Denied
  \cup (IF "refused" \in Faults THEN Refused ELSE {})
  \cup (IF "broken" \in Faults THEN Broken ELSE {})
  \cup (IF "slow" \in Faults THEN Slow ELSE {})
  \cup (IF "upstream" \in Faults THEN Upstream ELSE {})
  \cup (IF "limited" \in Faults THEN Limited ELSE {})
  \cup (IF "provider" \in Faults THEN Provider ELSE {})
  \cup (IF "lost_reply" \in Faults THEN LostReply ELSE {})

-----------------------------------------------------------------------------
Retryable == {429, 502, 503, 504}

_platform_unavailable(x) ==
  x.status \in {502, 503} /\ x.code \in {None, "UPSTREAM_ERROR", "BROKER_UNAVAILABLE"}

Larger(a, b) == IF a > b THEN a ELSE b
Smaller(a, b) == IF a < b THEN a ELSE b

(* The error that error_from_response builds: its class. *)
ErrorOf(x) ==
  CASE x.code = "MODEL_UNAVAILABLE" -> "ModelUnavailable"
    [] x.code = "RATE_LIMITED" -> "RateLimited"
    [] x.code = "NEEDS_CONNECTION" -> "NeedsConnection"
    [] OTHER -> "ProviderError"

(* outage_retry: sleep and go on, or give up as r once the budget is spent. *)
outage_retry_FromStart(t, retryAfter, r) ==
  /\ LET start == IF began = 0 THEN t ELSE began
         spent == Larger(t - 1, slept)
     IN /\ began' = start
        /\ IF spent >= Budget
           THEN pc' = "done" /\ result' = r /\ now' = t /\ UNCHANGED <<outages, slept>>
           ELSE \E delay \in IF retryAfter = None THEN {Smaller(Cap, 2 ^ outages)} ELSE RetryAfters :
                  LET d == Smaller(delay, Budget - spent)
                  IN /\ outages' = outages + 1 /\ slept' = slept + d /\ now' = t + d
                     /\ UNCHANGED <<pc, result>>
  /\ UNCHANGED attempt

outage_retry(t, retryAfter, r) ==
  /\ LET start == IF began = 0 THEN t ELSE began
         spent == Larger(t - start, slept)
     IN /\ began' = start
        /\ IF spent >= Budget
           THEN pc' = "done" /\ result' = r /\ now' = t /\ UNCHANGED <<outages, slept>>
           ELSE \E delay \in IF retryAfter = None THEN {Smaller(Cap, 2 ^ outages)} ELSE RetryAfters :
                  LET d == Smaller(delay, Budget - spent)
                  IN /\ outages' = outages + 1 /\ slept' = slept + d /\ now' = t + d
                     /\ UNCHANGED <<pc, result>>
  /\ UNCHANGED attempt

Again_Uncounted(t, r) ==
  now' = t /\ UNCHANGED <<attempt, pc, result, outages, began, slept>>

(* A retry counted against max_attempts, or the end of the call as r. *)
Again(t, r) ==
  /\ attempt' = attempt + 1
  /\ now' = t
  /\ IF attempt + 1 < MaxAttempts THEN UNCHANGED <<pc, result>> ELSE pc' = "done" /\ result' = r
  /\ UNCHANGED <<outages, began, slept>>

Finish(t, r) ==
  /\ pc' = "done" /\ result' = r /\ now' = t
  /\ UNCHANGED <<attempt, outages, began, slept>>

(* What request() does with what it met. *)
Handle_LostRetried(x, t) ==
  CASE x.kind \in {"not_sent", "lost"} -> outage_retry(t, None, "Unavailable")
    [] x.kind = "timeout" /\ ~idempotent -> Finish(t, "OutcomeUnknown")
    [] x.kind = "timeout" -> Again(t, "Unavailable")
    [] x.status < 400 -> Finish(t, "returned")
    [] OTHER -> Finish(t, ErrorOf(x))


Handle(x, t) ==
  CASE x.kind = "not_sent" -> outage_retry(t, None, "Unavailable")
    [] x.kind \in {"lost", "timeout"} /\ ~idempotent -> Finish(t, "OutcomeUnknown")
    [] x.kind = "lost" -> outage_retry(t, None, "Unavailable")
    [] x.kind = "timeout" -> Again(t, "Unavailable")
    [] x.kind = "reply" /\ x.status < 400 -> Finish(t, "returned")
    [] x.kind = "reply" /\ x.status >= 400 ->
         CASE idempotent /\ _platform_unavailable(x) ->
                \E h \in {None, "given"} : outage_retry(t, h, ErrorOf(x))
           [] idempotent /\ ~_platform_unavailable(x)
              /\ x.status \in Retryable /\ ErrorOf(x) # "ModelUnavailable" -> Again(t, ErrorOf(x))
           [] ~idempotent /\ x.status = 504 -> Finish(t, "OutcomeUnknown")
           [] OTHER -> Finish(t, ErrorOf(x))

(* One exchange of request()'s loop, with the sleep that follows it. *)
request ==
  /\ pc = "send" /\ sends < MaxSends
  /\ \E x \in Exchanges, d \in Latency :
       /\ sends' = IF x.kind = "not_sent" THEN sends ELSE sends + 1
       /\ applied' = IF x.ran = "yes" THEN applied + 1 ELSE applied
       /\ late' = IF x.ran = "late" THEN late + 1 ELSE late
       /\ Handle(x, now + d)
  /\ UNCHANGED idempotent

(* The broker was still at work on a request nobody waits for. *)
RunsLate ==
  /\ late > 0
  /\ late' = late - 1 /\ applied' = applied + 1
  /\ UNCHANGED <<idempotent, pc, attempt, outages, began, slept, now, sends, result>>

Next == request \/ RunsLate

Spec == Init /\ [][Next]_vars

-----------------------------------------------------------------------------

(* A non-idempotent operation runs at most once, whatever is lost: the
   requests that ran and the ones that may still run are at most one. *)
RunsAtMostOnce == ~idempotent => applied + late <= 1

(* A non-idempotent call that fails with anything but OutcomeUnknown has not
   run and never will, so the agent may call again. *)
FailureIsDefinite ==
  (~idempotent /\ result \notin {None, "returned", "OutcomeUnknown"}) => applied + late = 0

(* An outage ends the call only once the whole budget has passed since the
   first failure of the call, however long the call had waited before. *)
BudgetIsSpent == result = "Unavailable" /\ attempt < MaxAttempts => now - began >= Budget

(* A call that has not ended; each one does, even in an outage that never ends. *)
GoesOn == pc # "done"
=============================================================================
