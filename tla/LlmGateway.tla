----------------------------- MODULE LlmGateway -----------------------------
(***************************************************************************)
(* One /llm/chat request after another in the model gateway: the key it    *)
(* claims in the idempotency store, the tokens it reserves, the budget     *)
(* checks, the provider's answer, the usage row.  The gateway is one       *)
(* process; a step is what a handler does between two awaits, so requests  *)
(* interleave only at database, credential and provider calls.             *)
(* Prompts, profiles and latencies are left out; a result is a number of   *)
(* tokens, never more than the request's estimate.                         *)
(***************************************************************************)
EXTENDS Integers, FiniteSets, Sequences

CONSTANTS Requests,    \* HTTP requests; a retry of the SDK is another one
          Req,         \* r |-> [holder, key, body, stream, provider, est]
          Runs,        \* the holders that are runs (others are chats, calls)
          Cloud,       \* cloud providers
          NoKey,       \* the request has no idempotencyKey
          RunLimit,    \* per_run_token_limit
          PerRun,      \* perRunTokens of the provider's profile
          Daily,       \* min of the daily budgets
          MaxEntries,  \* of the idempotency store
          LlmFaults    \* subset of {"expire","cancel","abandon","restart","provider"}

LlmHolders == {Req[r].holder : r \in Requests}
Providers == {Req[r].provider : r \in Requests}

VARIABLES rq,        \* each request: where its handler is
          entries,   \* the store's OrderedDict, each entry with its place in the order
          fut,       \* the future of the entry a request created
          reserved,  \* _reserved and _reserved_provider
          usage,     \* llm_usage: tokens by holder and provider
          rows       \* llm_usage: number of rows a request wrote for a result

llmVars == <<rq, entries, fut, reserved, usage, rows>>

LlmIdle == [pc |-> "new", i |-> 0, read |-> -1, tok |-> 0, from |-> NoKey, answer |-> "none"]

LlmInit ==
  /\ rq = [r \in Requests |-> LlmIdle]
  /\ entries = {}
  /\ fut = [r \in Requests |-> "pending"]
  /\ reserved = [x \in LlmHolders \cup Providers |-> 0]
  /\ usage = [x \in LlmHolders \X Providers |-> 0]
  /\ rows = [r \in Requests |-> 0]

LlmAt(r, pc) == rq[r].pc = pc
LlmGoto(r, pc) == rq' = [rq EXCEPT ![r].pc = pc]
LlmAnswer(r, a) == rq' = [rq EXCEPT ![r].pc = "done", ![r].answer = a]

-----------------------------------------------------------------------------
(* The idempotency store.  A key stands for the holder and the key of a     *)
(* request.  An entry is identified by the request that created it, `nth`  *)
(* in the order of arrival; `done` says that its expiry is set.            *)

Entry(r) == [key |-> Req[r].key, body |-> Req[r].body, by |-> r,
             nth |-> Cardinality({s \in Requests : ~LlmAt(s, "new")}),
             streaming |-> Req[r].stream, done |-> FALSE]

Keyed(es, k) == {e \in es : e.key = k}

MayGo(e) == "expire" \in LlmFaults /\ (e.done \/ e.streaming)

(* What _evict may leave: any finished entry, and any stream's claim, may
   have reached its time. *)
_evict == {es \in SUBSET entries : \A e \in entries \ es : MayGo(e)}

(* Room is made from the oldest finished entries; running ones stay. *)
_add(es, e) ==
  LET over == Cardinality(es) - MaxEntries + 1
      old  == {x \in es : x.done}
      drop == {x \in old : Cardinality({y \in old : y.nth < x.nth}) < over}
  IN  (es \ drop) \cup {e}

_forget(r) == entries' = {e \in entries : e.by # r}

Same(e, r) == e.body = Req[r].body

(* IdempotencyStore.run up to its first await: refuse, wait for the entry's
   future, or take the key and go on. *)
RunKeyed(r) ==
  /\ LlmAt(r, "new") /\ ~Req[r].stream /\ Req[r].key # NoKey
  /\ \E es \in _evict :
       LET found == Keyed(es, Req[r].key)
       IN  IF found = {}
           THEN entries' = _add(es, Entry(r)) /\ LlmGoto(r, "resolve")
           ELSE /\ entries' = es
                /\ \E e \in found :
                     IF ~Same(e, r) THEN LlmAnswer(r, "INVALID_REQUEST")
                     ELSE IF e.streaming THEN LlmAnswer(r, "REQUEST_IN_PROGRESS")
                     ELSE rq' = [rq EXCEPT ![r].pc = "wait", ![r].from = e.by]
  /\ UNCHANGED <<fut, reserved, usage, rows>>

(* The future resolves: replay the outcome. *)
Replay(r) ==
  /\ LlmAt(r, "wait") /\ fut[rq[r].from] # "pending"
  /\ LlmAnswer(r, fut[rq[r].from])
  /\ UNCHANGED <<entries, fut, reserved, usage, rows>>

(* claim_stream: a running entry refuses; beside a stored result the stream
   runs without a claim. *)
ClaimStream(r) ==
  /\ LlmAt(r, "new") /\ Req[r].stream /\ Req[r].key # NoKey
  /\ \E es \in _evict :
       LET found == Keyed(es, Req[r].key)
       IN  \/ /\ \E e \in found : ~e.done
              /\ entries' = es /\ LlmAnswer(r, "REQUEST_IN_PROGRESS")
           \/ /\ found # {} /\ \A e \in found : e.done
              /\ entries' = es /\ LlmGoto(r, "resolve")
           \/ /\ found = {}
              /\ entries' = _add(es, Entry(r)) /\ LlmGoto(r, "resolve")
  /\ UNCHANGED <<fut, reserved, usage, rows>>

Unkeyed(r) ==
  /\ LlmAt(r, "new") /\ Req[r].key = NoKey
  /\ LlmGoto(r, "resolve") /\ UNCHANGED <<entries, fut, reserved, usage, rows>>

Settle_FinalForgotten(r, a) ==
  /\ LlmAnswer(r, a)
  /\ fut' = [fut EXCEPT ![r] = a]
  /\ IF a = "ok" /\ ~Req[r].stream
     THEN entries' = {IF e.by = r THEN [e EXCEPT !.done = TRUE] ELSE e : e \in entries}
     ELSE _forget(r)

Settle_KeepsWaiters(r, a) ==
  /\ LlmAnswer(r, a)
  /\ IF a \in {"ok", "final"}
     THEN /\ fut' = [fut EXCEPT ![r] = a]
          /\ entries' = {IF e.by = r THEN [e EXCEPT !.done = TRUE] ELSE e : e \in entries}
     ELSE _forget(r) /\ UNCHANGED fut

(* How IdempotencyStore.run leaves: a result and a FinalError keep the entry
   until it expires; every other exception gives the key back. *)
Settle(r, a) ==
  /\ LlmAnswer(r, a)
  /\ fut' = [fut EXCEPT ![r] = a]
  /\ IF a \in {"ok", "final"} /\ ~Req[r].stream
     THEN entries' = {IF e.by = r THEN [e EXCEPT !.done = TRUE] ELSE e : e \in entries}
     ELSE _forget(r)

-----------------------------------------------------------------------------
(* Inference: reserve, check, obtain an adapter, call, record. *)

_reserve(r) ==
  reserved' = [x \in DOMAIN reserved |->
                 reserved[x] + IF x \in {Req[r].holder, Req[r].provider}
                               THEN Req[r].est ELSE 0]

_unreserve_HolderOnly(r) ==
  reserved' = [x \in DOMAIN reserved |->
                 reserved[x] - IF x = Req[r].holder THEN Req[r].est ELSE 0]

_unreserve(r) ==
  reserved' = [x \in DOMAIN reserved |->
                 reserved[x] - IF x \in {Req[r].holder, Req[r].provider}
                               THEN Req[r].est ELSE 0]

_record(r, t) ==
  /\ usage' = [usage EXCEPT ![<<Req[r].holder, Req[r].provider>>] = @ + t]
  /\ rows' = [rows EXCEPT ![r] = @ + 1]

(* prepare until its reservation: the profile is not allowed or not known, or
   the tokens are reserved ahead of the checks. *)
LlmPrepare(r) ==
  /\ LlmAt(r, "resolve")
  /\ \/ /\ Settle(r, "error") /\ UNCHANGED reserved
     \/ /\ LlmGoto(r, "check") /\ _reserve(r) /\ UNCHANGED <<entries, fut>>
  /\ UNCHANGED <<usage, rows>>

(* The weights of the elements of s together. *)
Sum(w, s) ==
  LET sum[t \in SUBSET DOMAIN w] ==
        IF t = {} THEN 0 ELSE LET x == CHOOSE y \in t : TRUE IN w[x] + sum[t \ {x}]
  IN  sum[s]

(* The three checks of _check_budgets, each a query and then a comparison
   with the reservations as they are when the query has returned. *)
Checks(r) ==
  LET run == Req[r].holder \in Runs  cloud == Req[r].provider \in Cloud
  IN  (IF run THEN <<"run">> ELSE <<>>)
        \o (IF run /\ cloud THEN <<"perRun">> ELSE <<>>)
        \o (IF cloud THEN <<"daily">> ELSE <<>>)

Used(r, c) ==
  CASE c = "run"    -> Sum([p \in Providers |-> usage[<<Req[r].holder, p>>]], Providers)
    [] c = "perRun" -> usage[<<Req[r].holder, Req[r].provider>>]
    [] c = "daily"  -> Sum([h \in LlmHolders |-> usage[<<h, Req[r].provider>>]], LlmHolders)

Over(r, c, used) ==
  CASE c = "run"    -> used + reserved[Req[r].holder] > RunLimit
    [] c = "perRun" -> used + reserved[Req[r].holder] > PerRun
    [] c = "daily"  -> used + reserved[Req[r].provider] > Daily

Query(r) ==
  /\ LlmAt(r, "check") /\ rq[r].i < Len(Checks(r)) /\ rq[r].read = -1
  /\ rq' = [rq EXCEPT ![r].read = Used(r, Checks(r)[rq[r].i + 1])]
  /\ UNCHANGED <<entries, fut, reserved, usage, rows>>

Decide(r) ==
  /\ LlmAt(r, "check") /\ rq[r].read # -1
  /\ IF Over(r, Checks(r)[rq[r].i + 1], rq[r].read)
     THEN Settle(r, "error") /\ _unreserve(r)
     ELSE /\ rq' = [rq EXCEPT ![r].i = @ + 1, ![r].read = -1]
          /\ UNCHANGED <<entries, fut, reserved>>
  /\ UNCHANGED <<usage, rows>>

(* _local_adapter or _cloud_adapter: the lease and the load, or the key. *)
Adapter(r) ==
  /\ LlmAt(r, "check") /\ rq[r].i = Len(Checks(r))
  /\ \/ /\ LlmGoto(r, IF Req[r].stream THEN "ready" ELSE "call")
        /\ UNCHANGED <<entries, fut, reserved>>
     \/ /\ "provider" \in LlmFaults
        /\ Settle(r, "error") /\ _unreserve(r)
  /\ UNCHANGED <<usage, rows>>

(* chat: the provider has answered.  The reservation goes in the finally
   clause, before _finish records the usage. *)
ChatReturns(r) ==
  /\ LlmAt(r, "call") /\ ~Req[r].stream
  /\ \E t \in 0 .. Req[r].est, a \in {"ok", "final"} :
       rq' = [rq EXCEPT ![r].pc = "record", ![r].tok = t, ![r].answer = a]
  /\ _unreserve(r) /\ UNCHANGED <<entries, fut, usage, rows>>

ChatFails(r) ==
  /\ LlmAt(r, "call") /\ ~Req[r].stream /\ "provider" \in LlmFaults
  /\ Settle(r, "error") /\ _unreserve(r) /\ UNCHANGED <<usage, rows>>

ChatRecords(r) ==
  /\ LlmAt(r, "record") /\ ~Req[r].stream
  /\ _record(r, rq[r].tok) /\ Settle(r, rq[r].answer) /\ UNCHANGED reserved

(* The response's body iterator starts. *)
StreamBegins(r) ==
  /\ LlmAt(r, "ready") /\ LlmGoto(r, "call")
  /\ UNCHANGED <<entries, fut, reserved, usage, rows>>

StreamReturns(r) ==
  /\ LlmAt(r, "call") /\ Req[r].stream
  /\ \E t \in 0 .. Req[r].est :
       rq' = [rq EXCEPT ![r].pc = "record", ![r].tok = t]
  /\ UNCHANGED <<entries, fut, reserved, usage, rows>>

(* _finish inside the stream, then the "done" event is handed out. *)
StreamRecords(r) ==
  /\ LlmAt(r, "record") /\ Req[r].stream
  /\ _record(r, rq[r].tok) /\ LlmGoto(r, "sent") /\ UNCHANGED <<entries, fut, reserved>>

StreamEnds(r) ==
  /\ LlmAt(r, "sent")
  /\ Settle(r, "ok") /\ _unreserve(r) /\ UNCHANGED <<usage, rows>>

(* The provider fails, or the client goes away: what was produced so far is
   estimated and recorded, then the reservation goes. *)
StreamBreaks(r) ==
  /\ Req[r].stream
  /\ \/ LlmAt(r, "call") /\ LlmFaults \cap {"provider", "cancel"} # {}
     \/ LlmAt(r, "sent") /\ "cancel" \in LlmFaults
  /\ \E t \in 0 .. Req[r].est : _record(r, t)
  /\ Settle(r, "error") /\ _unreserve(r)

(* A handler that is cancelled.  A waiter just leaves: its await is shielded. *)
LlmCancel(r) ==
  /\ "cancel" \in LlmFaults
  /\ \/ LlmAt(r, "wait") /\ LlmAnswer(r, "cancelled") /\ UNCHANGED <<entries, fut, reserved>>
     \/ /\ LlmAt(r, "check") \/ (LlmAt(r, "call") /\ ~Req[r].stream)
        /\ Settle(r, "lost") /\ _unreserve(r)
     \/ LlmAt(r, "record") /\ ~Req[r].stream /\ Settle(r, "lost") /\ UNCHANGED reserved
  /\ \/ UNCHANGED <<usage, rows>>
     \/ LlmAt(r, "record") /\ _record(r, rq[r].tok) \* the commit was on its way

(* The client goes away before the body iterator has started: nobody runs
   the generator's finally clauses. *)
Abandon(r) ==
  /\ "abandon" \in LlmFaults /\ LlmAt(r, "ready")
  /\ LlmAnswer(r, "cancelled") /\ UNCHANGED <<entries, fut, reserved, usage, rows>>

(* The gateway restarts: only the usage rows survive. *)
LlmRestart ==
  /\ "restart" \in LlmFaults
  /\ \E r \in Requests : rq[r].pc \notin {"new", "done"}
  /\ rq' = [r \in Requests |-> IF LlmAt(r, "new") THEN rq[r]
                               ELSE [rq[r] EXCEPT !.pc = "done"]]
  /\ entries' = {}
  /\ reserved' = [x \in DOMAIN reserved |-> 0]
  /\ UNCHANGED <<fut, usage, rows>>

LlmStep(r) ==
  \/ RunKeyed(r) \/ ClaimStream(r) \/ Unkeyed(r) \/ Replay(r) \/ LlmPrepare(r)
  \/ Query(r) \/ Decide(r) \/ Adapter(r) \/ ChatReturns(r) \/ ChatFails(r)
  \/ ChatRecords(r) \/ StreamBegins(r) \/ StreamReturns(r) \/ StreamRecords(r)
  \/ StreamEnds(r) \/ StreamBreaks(r)

LlmNext == (\E r \in Requests : LlmStep(r) \/ LlmCancel(r) \/ Abandon(r)) \/ LlmRestart

LlmSpec == LlmInit /\ [][LlmNext]_llmVars

-----------------------------------------------------------------------------

(* What the requests rs may cost together. *)
Estimate(rs) == Sum([r \in Requests |-> Req[r].est], rs)

Working(r) == rq[r].pc \in {"resolve", "check", "ready", "call", "record", "sent"}

Holding(r) ==
  \/ rq[r].pc \in {"check", "ready", "call", "sent"}
  \/ LlmAt(r, "record") /\ Req[r].stream

(* "Tokens reserved by in-flight requests": each counter is exactly what the
   requests between prepare's reservation and their finally clause hold, so
   no path forgets to give tokens back or gives them back twice. *)
ReservedIsInFlight ==
  \A x \in DOMAIN reserved :
    reserved[x] = Estimate({r \in Requests : Holding(r) /\ x \in {Req[r].holder, Req[r].provider}})

(* "Reserve before the (awaiting) budget check so parallel requests see each
   other": what a run's calls in progress may cost together, and what all calls
   of a provider may cost together, is within the budget, whatever the order
   in which their checks interleaved. *)
AdmittedFit ==
  LET admitted == {r \in Requests : rq[r].pc \in {"ready", "call"}}
  IN  /\ \A h \in LlmHolders \cap Runs :
           Estimate({r \in admitted : Req[r].holder = h}) <= RunLimit
      /\ \A p \in Providers \cap Cloud :
           Estimate({r \in admitted : Req[r].provider = p}) <= Daily

(* run: "Run call once per key": two requests with one key never work at
   the same time, unless one of them is a stream. *)
OneWorksPerKey ==
  \A r, s \in Requests :
    Working(r) /\ Working(s) /\ r # s /\ Req[r].key = Req[s].key /\ Req[r].key # NoKey
      => Req[r].stream \/ Req[s].stream

(* A replayed answer comes from a request with the same key and body, and a
   provider result, even one that was refused afterwards, is paid for once per
   key as long as nothing expires: retries get the stored outcome. *)
PaidOnce ==
  \A r, s \in Requests :
    /\ rq[r].from = s => Req[r].key = Req[s].key /\ Req[r].body = Req[s].body
    /\ rows[r] > 0 /\ rows[s] > 0 /\ r # s /\ Req[r].key = Req[s].key /\ Req[r].key # NoKey
         => Req[r].stream \/ Req[s].stream

(* A request that waits for another one's outcome.  It is answered: the future of every entry is
   resolved on every way out of run. *)
Waits(r) == LlmAt(r, "wait")
=============================================================================
