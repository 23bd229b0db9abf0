--------------------------- MODULE DeliveryProofs ---------------------------
(***************************************************************************)
(* Proofs about what is to happen once although workers die and messages   *)
(* are repeated: the jobs of the queue, the external actions an agent      *)
(* takes under a key, and telephone calls.  Each component has a section   *)
(* with its inductive invariant, a lemma for each group of actions, and    *)
(* its theorems.  What a theorem assumes of the constants stands in its    *)
(* ASSUME.                                                                 *)
(***************************************************************************)
EXTENDS JobQueue, ActionKeys, Telephony, FiniteSetTheorems, TLAPS

-----------------------------------------------------------------------------
(* Proofs of the two safety properties.                                    *)

\* What the induction needs: a claim stays within the type of `tries` because TriesLeft.
IInv == TypeOK /\ TriesLeft /\ OneLivePerKey

\* No step but an enqueue makes a row live, and none moves a row to another key.
NoneRevived == \A r \in Rows : Live(row'[r]) => Live(row[r])

\* The process of a loop is one of the worker processes.
LEMMA ProcOfType == ProcOf \in [Loops -> Workers]
<1>1. ASSUME NEW l \in Loops PROVE (CHOOSE w \in Workers : l \in w) \in Workers
  BY Zenon, LoopsAssumption
<1>2. QED
  BY Zenon, <1>1 DEF ProcOf

\* Such a step keeps the live rows of a key unique.
LEMMA KeptUnique ==
  ASSUME OneLivePerKey, NoneRevived, UNCHANGED dkey
  PROVE  OneLivePerKey'
  BY Zenon DEF OneLivePerKey, NoneRevived

\* What complete, fail, reap_expired or cancel_by_dedupe makes of a row.
Rewritten(j, i) ==
  \/ i \in {j, ReapedJob(j), CancelledJob(j)}
  \/ \E w \in Workers : i \in {CompletedJob(j, w), FailedJob(j, w, TRUE), FailedJob(j, w, FALSE)}

\* Such a row is well-typed, has a try left if it waits, and is live only if it was.
LEMMA RowLemma ==
  ASSUME NEW j \in Job, j.st = "available" => j.tries < MaxTries, NEW i, Rewritten(j, i)
  PROVE  i \in Job /\ (i.st = "available" => i.tries < MaxTries) /\ (Live(i) => Live(j))
<1> USE MaxTriesAssumption DEF Unowned, Live, Job, JobStates
<1>1. CASE i \in {j, ReapedJob(j), CancelledJob(j)}
  BY <1>1 DEF ReapedJob, CancelledJob
<1>2. ASSUME NEW w \in Workers,
             i \in {CompletedJob(j, w), FailedJob(j, w, TRUE), FailedJob(j, w, FALSE)}
      PROVE  i \in Job /\ (i.st = "available" => i.tries < MaxTries) /\ (Live(i) => Live(j))
  BY <1>2 DEF CompletedJob, FailedJob, Owned
<1> QED BY Zenon, <1>1, <1>2 DEF Rewritten

\* Statements that only rewrite rows keep types, tries and uniqueness.
LEMMA RowsStep ==
  ASSUME IInv, UNCHANGED dkey, NEW f, row' = [r \in Rows |-> f[r]],
         \A r \in Rows : Rewritten(row[r], f[r])
  PROVE  row' \in [Rows -> Job] /\ TriesLeft' /\ OneLivePerKey'
<1>1. \A r \in Rows : row[r] \in Job /\ (row[r].st = "available" => row[r].tries < MaxTries)
  BY Zenon DEF IInv, TypeOK, TriesLeft
<1>2. \A r \in Rows : f[r] \in Job /\ (f[r].st = "available" => f[r].tries < MaxTries)
                      /\ (Live(f[r]) => Live(row[r]))
  BY Zenon, <1>1, RowLemma
<1>3. row' \in [Rows -> Job] /\ TriesLeft' /\ NoneRevived
  BY Zenon, <1>2 DEF TriesLeft, NoneRevived
<1> QED BY Zenon, <1>3, KeptUnique DEF IInv

\* Every step keeps the invariant.
LEMMA NextKeeps == ASSUME IInv, Next PROVE IInv'
<1> USE DEF IInv
<1>1. ASSUME NEW r \in Rows, enqueue(r) PROVE IInv'
  <2>1. EnqueuedJob \in Job /\ EnqueuedJob.tries < MaxTries
    BY MaxTriesAssumption DEF EnqueuedJob, Job, JobStates
  <2>2. row' \in [Rows -> Job] /\ row'[r] = EnqueuedJob
        /\ \A s \in Rows : s # r => row'[s] = row[s]
    BY Zenon, <1>1, <2>1 DEF enqueue, TypeOK
  <2>3. TypeOK' /\ TriesLeft'
    BY Zenon, <1>1, <2>1, <2>2 DEF enqueue, TypeOK, TriesLeft
  <2>4. OneLivePerKey'
    BY Zenon, <1>1, <2>2 DEF enqueue, OneLivePerKey
  <2> QED BY Zenon, <2>3, <2>4
<1>2. ASSUME NEW r \in Rows, Expire(r) PROVE IInv'
  BY Zenon, <1>2 DEF Expire, TypeOK, TriesLeft, OneLivePerKey
<1>3. ASSUME NEW l \in Loops, NEW r \in Rows, claim(l, r) PROVE IInv'
  <2> DEFINE j == ClaimedJob(row[r], ProcOf[l])
  <2>1. row[r] \in Job /\ row[r].tries < MaxTries /\ ProcOf[l] \in Workers /\ Live(row[r])
    BY Zenon, <1>3, ProcOfType, NoRowAssumption DEF claim, TypeOK, TriesLeft, Live
  <2>2. j \in Job /\ j.st = "claimed"
    BY <2>1, MaxTriesAssumption DEF ClaimedJob, Job, JobStates
  <2>3. row' = [row EXCEPT ![r] = j]
    BY Zenon, <1>3 DEF claim
  <2> HIDE DEF j
  <2>4. row' \in [Rows -> Job] /\ row'[r] = j /\ \A s \in Rows : s # r => row'[s] = row[s]
    BY Zenon, <2>2, <2>3 DEF TypeOK
  <2>5. TypeOK' /\ TriesLeft'
    BY Zenon, <1>3, <2>2, <2>4 DEF claim, TypeOK, TriesLeft
  <2>6. OneLivePerKey'
    BY Zenon, <1>3, <2>1, <2>4, KeptUnique DEF claim, NoneRevived
  <2> QED BY Zenon, <2>5, <2>6
<1>4. ASSUME NEW l \in Loops, Handled(l) \/ heartbeat(l) PROVE IInv'
  BY Zenon, <1>4 DEF Handled, heartbeat, TypeOK, TriesLeft, OneLivePerKey
<1>5. ASSUME NEW l \in Loops, Report(l) PROVE IInv'
  <2> DEFINE r == exec[l]
             w == ProcOf[l]
             j == IF outcome[l] = "ok" THEN CompletedJob(row[r], w)
                  ELSE FailedJob(row[r], w, outcome[l] = "error")
             f == [row EXCEPT ![r] = j]
  <2>1. r \in Rows /\ w \in Workers
    BY Zenon, <1>5, ProcOfType, NoRowAssumption DEF Report, TypeOK
  <2>2. row' = f
    BY Zenon, <1>5 DEF Report
  <2>3. Rewritten(row[r], j)
    <3>1. CASE outcome[l] = "ok"
      BY Zenon, <2>1, <3>1 DEF Rewritten
    <3>2. CASE outcome[l] # "ok" /\ outcome[l] = "error"
      <4>1. j = FailedJob(row[r], w, TRUE)
        BY Zenon, <3>2 DEF FailedJob
      <4> HIDE DEF j, w
      <4> QED BY Zenon, <2>1, <4>1 DEF Rewritten
    <3>3. CASE outcome[l] # "ok" /\ outcome[l] # "error"
      <4>1. j = FailedJob(row[r], w, FALSE)
        BY Zenon, <3>3 DEF FailedJob
      <4> HIDE DEF j, w
      <4> QED BY Zenon, <2>1, <4>1 DEF Rewritten
    <3> QED BY Zenon, <3>1, <3>2, <3>3
  <2> HIDE DEF j
  <2>4. f = [s \in Rows |-> f[s]] /\ \A s \in Rows : Rewritten(row[s], f[s])
    BY Zenon, <2>1, <2>3 DEF TypeOK, Rewritten
  <2> HIDE DEF f
  <2>5. row' \in [Rows -> Job] /\ TriesLeft' /\ OneLivePerKey'
    BY Zenon, <1>5, <2>2, <2>4, RowsStep DEF Report
  <2>6. exec' \in [Loops -> Rows \union {NoRow}] /\ lease' \in [Rows -> BOOLEAN]
        /\ outcome' \in [Loops -> {"running", "ok", "error", "permanent"}] /\ UNCHANGED dkey
    BY Zenon, <1>5, <2>1 DEF Report, TypeOK
  <2> QED BY Zenon, <2>5, <2>6 DEF TypeOK
<1>6. CASE reap_expired
  <2> DEFINE f == [r \in Rows |-> IF lease[r] THEN row[r] ELSE ReapedJob(row[r])]
  <2>1. row' = f /\ UNCHANGED <<dkey, lease, exec, outcome>>
        /\ \A r \in Rows : Rewritten(row[r], f[r])
    BY Zenon, <1>6 DEF reap_expired, Rewritten
  <2>2. f = [r \in Rows |-> f[r]]
    BY Zenon
  <2> HIDE DEF f
  <2>3. row' \in [Rows -> Job] /\ TriesLeft' /\ OneLivePerKey'
    BY Zenon, <2>1, <2>2, RowsStep
  <2> QED BY Zenon, <2>1, <2>3 DEF TypeOK
<1>7. ASSUME NEW k \in DKeys, cancel_by_dedupe(k) PROVE IInv'
  <2> DEFINE f == [r \in Rows |-> IF dkey[r] = k THEN CancelledJob(row[r]) ELSE row[r]]
  <2>1. row' = f /\ UNCHANGED <<dkey, lease, exec, outcome>>
        /\ \A r \in Rows : Rewritten(row[r], f[r])
    BY Zenon, <1>7 DEF cancel_by_dedupe, Rewritten
  <2>2. f = [r \in Rows |-> f[r]]
    BY Zenon
  <2> HIDE DEF f
  <2>3. row' \in [Rows -> Job] /\ TriesLeft' /\ OneLivePerKey'
    BY Zenon, <2>1, <2>2, RowsStep
  <2> QED BY Zenon, <2>1, <2>3 DEF TypeOK
<1>8. ASSUME NEW p \in Workers, Crash(p) PROVE IInv'
  BY Zenon, <1>8 DEF Crash, TypeOK, TriesLeft, OneLivePerKey
<1> QED BY Zenon, <1>1, <1>2, <1>3, <1>4, <1>5, <1>6, <1>7, <1>8 DEF Next

\* The empty table satisfies it.
LEMMA InitHolds == Init => IInv
<1>1. NoJob \in Job /\ NoJob.st = "absent" /\ ~Live(NoJob)
  BY MaxTriesAssumption DEF NoJob, Job, JobStates, Live
<1> QED BY Zenon, <1>1 DEF Init, IInv, TypeOK, TriesLeft, OneLivePerKey

\* The invariant holds in every reachable state.
LEMMA Invariant == Spec => []IInv
<1>1. IInv /\ [Next]_vars => IInv'
  BY Zenon, NextKeeps DEF vars, IInv, TypeOK, TriesLeft, OneLivePerKey
<1> QED BY InitHolds, <1>1, PTL DEF Spec

\* At most one live job per dedupe key, for any number of rows, keys, workers and loops:
\* enqueue's conflict clause is enough, because no other statement makes a row live again
\* that was finished (requeueing turns a claimed row back, never a finished one).
THEOREM UniquePerKey == Spec => []OneLivePerKey
  BY Invariant, PTL DEF IInv

\* A valid lease is ended by its own process only: a late complete or fail of another
\* process matches no row, and the reaper and cancel_by_dedupe pass over valid leases.
THEOREM Fenced == Spec => LeaseIsFenced
<1>1. IInv /\ [Next]_vars =>
        [\A r \in Rows :
           row[r].st = "claimed" /\ lease[r] /\ row'[r].st # "claimed" =>
             \E l \in Loops : ProcOf[l] = row[r].owner /\ exec[l] = r]_vars
  <2> SUFFICES ASSUME IInv, Next, NEW r \in Rows,
                      row[r].st = "claimed", lease[r], row'[r].st # "claimed"
               PROVE  \E l \in Loops : ProcOf[l] = row[r].owner /\ exec[l] = r
    BY Zenon
  <2>1. row'[r] # row[r] /\ row \in [Rows -> Job]
    BY Zenon DEF IInv, TypeOK
  <2>2. ASSUME NEW s \in Rows, enqueue(s) \/ Expire(s) PROVE FALSE
    BY Zenon, <2>1, <2>2 DEF enqueue, Expire
  <2>3. ASSUME NEW l \in Loops, NEW s \in Rows, claim(l, s) PROVE FALSE
    BY Zenon, <2>1, <2>3 DEF claim
  <2>4. ASSUME NEW l \in Loops, Handled(l) \/ heartbeat(l) PROVE FALSE
    BY Zenon, <2>1, <2>4 DEF Handled, heartbeat
  <2>5. ASSUME NEW l \in Loops, Report(l) PROVE ProcOf[l] = row[r].owner /\ exec[l] = r
    BY Zenon, <2>1, <2>5 DEF Report, CompletedJob, FailedJob, Owned
  <2>6. CASE reap_expired
    BY Zenon, <2>1, <2>6 DEF reap_expired
  <2>7. ASSUME NEW k \in DKeys, cancel_by_dedupe(k) PROVE FALSE
    BY Zenon, <2>1, <2>7 DEF cancel_by_dedupe, CancelledJob
  <2>8. ASSUME NEW p \in Workers, Crash(p) PROVE FALSE
    BY Zenon, <2>1, <2>8 DEF Crash
  <2> QED BY Zenon, <2>2, <2>3, <2>4, <2>5, <2>6, <2>7, <2>8 DEF Next
<1> QED BY Invariant, <1>1, PTL DEF Spec, LeaseIsFenced

-----------------------------------------------------------------------------
(* ActionKeys: what an agent does at most once under a key.                *)

(* Both properties hold for any calls, attempts and numbers of sends, with or
   without resume_in_progress.  The claim of a key stays with one token. *)

OnceStatuses == {"claimed", "completed", "in_doubt", "rejected"}

OnceTyped ==
  /\ onceRow \in [state: {None, "claimed", "completed", "in_doubt"}, token: Calls \cup {None},
             attempt: {0} \cup {AttemptOf[c] : c \in Calls}, result: Calls \cup {None}]
  /\ pc \in [Calls -> {"idle", "claim", "fn", "complete", "returned", "raised"}]
  /\ net \in [Calls -> [Kinds -> Nat]]
  /\ answer \subseteq [call: Calls, kind: Kinds, status: OnceStatuses, result: Calls \cup {None}]
  /\ effects \subseteq Calls
  /\ value \in [Calls -> Calls \cup {None}]

(* Calls that may act, or have acted, without resuming another's claim. *)
OnceActing(c) ==
  \/ pc[c] = "fn" \/ c \in effects
  \/ \E a \in answer : a.call = c /\ a.kind = "claim" /\ a.status = "claimed"

(* They hold the key. *)
OnceHoldsKey == \A c \in Calls \ Resume : OnceActing(c) => onceRow.state # None /\ onceRow.token = c

(* Whoever completes the key has acted, and so has the call whose result is stored, *)
(* sent or returned.                                                               *)
OnceEarned ==
  /\ \A c \in Calls : pc[c] = "complete" \/ net[c]["complete"] > 0 => c \in effects
  /\ onceRow.state = "completed" => onceRow.result \in effects
  /\ \A a \in answer : a.kind = "claim" /\ a.status = "completed" => a.result \in effects
  /\ \A c \in Calls : pc[c] = "returned" => value[c] \in effects

OnceInv == OnceTyped /\ OnceHoldsKey /\ OnceEarned

LEMMA OnceInitHolds == OnceInit => OnceInv
  BY DEF OnceInit, OnceInv, OnceTyped, OnceHoldsKey, OnceEarned, OnceActing, None, Kinds

(* Claiming a key keeps its token unless it was free. *)
LEMMA OnceClaimKeeps ==
  ASSUME OnceInv, NEW c \in Calls, claim_action(c)
  PROVE  OnceInv'
<1>1. \/ UNCHANGED onceRow
      \/ /\ onceRow.state = None \/ onceRow.token = c
         /\ attempt = AttemptOf[c]
         /\ onceRow'.token = c /\ onceRow'.state = "claimed"
      \/ /\ onceRow.state # None /\ onceRow'.token = onceRow.token /\ onceRow'.state = "in_doubt"
  BY Zenon DEF claim_action, Claimed, SameClaimant, OnceInv, OnceTyped, None
<1>2. /\ onceRow' \in [state: {None, "claimed", "completed", "in_doubt"}, token: Calls \cup {None},
                  attempt: {0} \cup {AttemptOf[d] : d \in Calls}, result: Calls \cup {None}]
      /\ onceRow'.result = onceRow.result
  BY Zenon DEF claim_action, Claimed, OnceInv, OnceTyped, None
<1> QED
  BY <1>1, <1>2 DEF claim_action, Claimed, SameClaimant, OnceInv, OnceTyped, OnceHoldsKey,
                    OnceEarned, OnceActing, None, Kinds, OnceStatuses

LEMMA OnceCompleteKeeps ==
  ASSUME OnceInv, NEW c \in Calls, complete_action(c)
  PROVE  OnceInv'
<1>1. /\ onceRow' \in [state: {None, "claimed", "completed", "in_doubt"}, token: Calls \cup {None},
                  attempt: {0} \cup {AttemptOf[d] : d \in Calls}, result: Calls \cup {None}]
      /\ onceRow'.token = onceRow.token /\ (onceRow.state # None => onceRow'.state # None)
  BY Zenon DEF complete_action, OnceInv, OnceTyped, None
<1>2. onceRow'.state = "completed" => onceRow'.result \in {onceRow.result, c} /\ (onceRow'.result = c \/ onceRow.state = "completed")
  BY Zenon DEF complete_action, OnceInv, OnceTyped, None
<1>3. /\ answer' \subseteq [call: Calls, kind: Kinds, status: OnceStatuses, result: Calls \cup {None}]
      /\ \A a \in answer' : a.kind = "claim" => a \in answer
  BY <1>1 DEF complete_action, OnceInv, OnceTyped, Kinds, OnceStatuses
<1>4. c \in effects /\ UNCHANGED <<pc, effects, value>> /\ net' \in [Calls -> [Kinds -> Nat]]
      /\ \A d \in Calls : net'[d]["complete"] > 0 => net[d]["complete"] > 0
  BY DEF complete_action, OnceInv, OnceTyped, OnceEarned, Kinds
<1>5. OnceTyped'
  BY Zenon, <1>1, <1>3, <1>4 DEF OnceInv, OnceTyped
<1>6. OnceHoldsKey'
  BY Zenon, <1>1, <1>3, <1>4 DEF OnceInv, OnceHoldsKey, OnceActing
<1>7. OnceEarned'
  BY Zenon, <1>1, <1>2, <1>3, <1>4 DEF OnceInv, OnceEarned
<1> QED
  BY Zenon, <1>5, <1>6, <1>7 DEF OnceInv

LEMMA OnceAgentKeeps ==
  ASSUME OnceInv, NEW c \in Calls,
         once(c) \/ Retry(c) \/ GiveUp(c) \/ ClaimAnswered(c) \/ Act(c) \/ CompleteAnswered(c)
  PROVE  OnceInv'
<1>1. CASE once(c)
  BY <1>1 DEF once, Send, OnceInv, OnceTyped, OnceHoldsKey, OnceEarned, OnceActing, None,
              Kinds, OnceStatuses
<1>2. CASE Retry(c)
  BY <1>2 DEF Retry, Send, OnceInv, OnceTyped, OnceHoldsKey, OnceEarned, OnceActing, None,
              Kinds, OnceStatuses
<1>3. CASE GiveUp(c)
  BY Zenon, <1>3 DEF GiveUp, OnceInv, OnceTyped, OnceHoldsKey, OnceEarned, OnceActing, None, Kinds,
              OnceStatuses
<1>4. CASE ClaimAnswered(c)
  BY <1>4 DEF ClaimAnswered, OnceInv, OnceTyped, OnceHoldsKey, OnceEarned, OnceActing, None,
              Kinds, OnceStatuses
<1>5. CASE Act(c)
  BY <1>5 DEF Act, Send, OnceInv, OnceTyped, OnceHoldsKey, OnceEarned, OnceActing, None,
              Kinds, OnceStatuses
<1>6. CASE CompleteAnswered(c)
  BY <1>6 DEF CompleteAnswered, OnceInv, OnceTyped, OnceHoldsKey, OnceEarned, OnceActing, None,
              Kinds, OnceStatuses
<1> QED
  BY Zenon, <1>1, <1>2, <1>3, <1>4, <1>5, <1>6

LEMMA OnceNextKeeps == OnceInv /\ [OnceNext]_onceVars => OnceInv'
<1> SUFFICES ASSUME OnceInv, [OnceNext]_onceVars PROVE OnceInv'
  BY Zenon
<1>1. CASE UNCHANGED onceVars
  BY Zenon, <1>1 DEF onceVars, OnceInv, OnceTyped, OnceHoldsKey, OnceEarned, OnceActing
<1>2. CASE RetryRun
  BY Zenon, <1>2 DEF RetryRun, OnceInv, OnceTyped, OnceHoldsKey, OnceEarned, OnceActing
<1>3. ASSUME NEW c \in Calls, NEW kind \in Kinds, Lost(c, kind) PROVE OnceInv'
  BY <1>3 DEF Lost, OnceInv, OnceTyped, OnceHoldsKey, OnceEarned, OnceActing, Kinds
<1> QED
  BY Zenon, <1>1, <1>2, <1>3, OnceAgentKeeps, OnceClaimKeeps, OnceCompleteKeeps DEF OnceNext

(* Of the calls with one key that do not resume, one at most takes effect, for any calls,
   attempts, losses and repetitions (claim_action keeps the token of the first claim). *)
THEOREM OncePerKey == OnceSpec => []AtMostOnce
<1>1. OnceInv => AtMostOnce
  BY DEF OnceInv, OnceTyped, OnceHoldsKey, OnceActing, AtMostOnce
<1> QED
  BY <1>1, OnceInitHolds, OnceNextKeeps, PTL DEF OnceSpec

(* A stored or returned result is that of an effect that happened (complete_action only
   follows fn in once). *)
THEOREM ResultsAreReal == OnceSpec => []ResultHappened
<1>1. OnceInv => ResultHappened
  BY Zenon DEF OnceInv, OnceEarned, ResultHappened
<1> QED
  BY <1>1, OnceInitHolds, OnceNextKeeps, PTL DEF OnceSpec

-----------------------------------------------------------------------------
(* Telephony: the calls of a run. *)

(* NeverRedials and CallbackFindsCall hold for any keys, requests, handlers and numbers of crashes.
   A key is dialled by the request that inserted its row, and a call that Twilio may have placed
   has a row that knows it or will adopt it. *)

PhoneConstants == KeyOf \in [Requests -> Keys] /\ Ends \subseteq TERMINAL

PhoneShown == TERMINAL \cup {"queued", "initiated", "ringing", "inprogress"}
PhoneRowStates == PhoneShown \cup {"none", "CREATING", "IN_DOUBT"}
PhoneReqStates == {"idle", "dial", "created", "rejected", "doubt", "done", "unknown", "refused", "gone"}
PhoneCallbacks == Keys \X {"status", "voice", "gather"} \X PhoneShown

PhoneTyped ==
  /\ callRow \in [Keys -> [state: PhoneRowStates, sid: BOOLEAN, speech: BOOLEAN]]
  /\ req \in [Requests -> PhoneReqStates]
  /\ handler \in [Handlers -> [pc: {"idle", "adopt", "apply", "unknown"}, cb: PhoneCallbacks \cup {<<>>}]]
  /\ dialled \in [Keys -> Nat] /\ phone \in [Keys -> PhoneShown \cup {"none"}] /\ posted \subseteq PhoneCallbacks

(* A key is dialled once: by the one request that is about to, before which it was not. *)
PhoneOneDialer ==
  /\ \A k \in Keys : ~Exists(k) => dialled[k] = 0
  /\ \A r \in Requests : req[r] = "dial" => dialled[KeyOf[r]] = 0 /\ callRow[KeyOf[r]].state = "CREATING"
  /\ \A r, s \in Requests : req[r] = "dial" /\ req[s] = "dial" /\ KeyOf[r] = KeyOf[s] => r = s
  /\ \A r \in Requests : req[r] \in {"created", "rejected", "doubt"} => dialled[KeyOf[r]] > 0

(* The row of a call that is at Twilio has its CallSid or takes it from a callback. *)
PhoneKnown(k) == callRow[k].sid \/ callRow[k].state \in {"CREATING", "IN_DOUBT"}
PhoneFindable ==
  /\ \A k \in Keys : phone[k] # "none" => dialled[k] > 0 /\ PhoneKnown(k)
  /\ \A r \in Requests : req[r] = "rejected" => phone[KeyOf[r]] = "none"
  /\ \A cb \in posted : phone[cb[1]] # "none"
  /\ \A h \in Handlers : handler[h].pc \in {"adopt", "apply"} =>
       handler[h].cb \in PhoneCallbacks /\ phone[handler[h].cb[1]] # "none"
  /\ \A h \in Handlers : handler[h].pc = "apply" => callRow[handler[h].cb[1]].sid

PhoneInv == PhoneTyped /\ PhoneOneDialer /\ PhoneFindable /\ NeverRedials /\ CallbackFindsCall

LEMMA PhoneStarts == PhoneInit => PhoneInv
<1> SUFFICES ASSUME PhoneInit PROVE PhoneInv
  BY Zenon
<1>1. NoCallback \in [pc: {"idle", "adopt", "apply", "unknown"}, cb: PhoneCallbacks \cup {<<>>}]
  BY Zenon DEF NoCallback
<1>2. PhoneTyped
  BY Zenon, <1>1 DEF PhoneInit, PhoneTyped, PhoneRowStates, PhoneReqStates
<1>3. PhoneOneDialer /\ PhoneFindable /\ NeverRedials /\ CallbackFindsCall
  BY DEF PhoneInit, PhoneOneDialer, PhoneFindable, Exists, NeverRedials,
         CallbackFindsCall, NoCallback
<1> QED
  BY Zenon, <1>2, <1>3 DEF PhoneInv

LEMMA PhoneRequestKeeps ==
  ASSUME PhoneConstants, PhoneInv, NEW r \in Requests, CreateRow(r) \/ RequestStep(r)
  PROVE  PhoneInv'
<1> DEFINE k == KeyOf[r]
<1>0. k \in Keys
  BY Zenon DEF PhoneConstants
<1>1. CASE CreateRow(r)
  <2>1. UNCHANGED <<handler, dialled, phone, posted>>
    BY Zenon, <1>1 DEF CreateRow
  <2>2. CASE UNCHANGED callRow /\ \E v \in {"unknown", "done", "refused"} : req' = [req EXCEPT ![r] = v]
    <3>a. PhoneTyped'
      BY <1>0, <2>1, <2>2 DEF PhoneConstants, PhoneInv, PhoneTyped, PhoneRowStates, PhoneReqStates,
                              PhoneShown, TERMINAL
    <3>b. PhoneOneDialer'
      BY <1>0, <2>1, <2>2 DEF PhoneConstants, PhoneInv, PhoneTyped, PhoneOneDialer, PhoneFindable,
                              Exists
    <3>c. PhoneFindable'
      BY <1>0, <2>1, <2>2 DEF PhoneConstants, PhoneInv, PhoneTyped, PhoneOneDialer, PhoneFindable,
                              PhoneKnown, PhoneCallbacks
    <3>d. NeverRedials' /\ CallbackFindsCall'
      BY Zenon, <1>0, <2>1, <2>2 DEF PhoneConstants, PhoneInv, PhoneTyped, PhoneOneDialer, PhoneFindable,
                              PhoneKnown, NeverRedials, CallbackFindsCall
    <3> QED
      BY Zenon, <3>a, <3>b, <3>c, <3>d DEF PhoneInv
  <2>3. CASE /\ ~Exists(k) /\ req' = [req EXCEPT ![r] = "dial"]
             /\ callRow' = [callRow EXCEPT ![k].state = "CREATING"]
    <3>a. PhoneTyped'
      BY <1>0, <2>1, <2>3 DEF PhoneConstants, PhoneInv, PhoneTyped, PhoneRowStates, PhoneReqStates,
                              PhoneShown, TERMINAL
    <3>b. PhoneOneDialer'
      BY <1>0, <2>1, <2>3 DEF PhoneConstants, PhoneInv, PhoneTyped, PhoneOneDialer, PhoneFindable,
                              Exists
    <3>c. PhoneFindable'
      BY <1>0, <2>1, <2>3 DEF PhoneConstants, PhoneInv, PhoneTyped, PhoneOneDialer, PhoneFindable,
                              PhoneKnown, PhoneCallbacks
    <3>d. NeverRedials' /\ CallbackFindsCall'
      BY Zenon, <1>0, <2>1, <2>3 DEF PhoneConstants, PhoneInv, PhoneTyped, PhoneOneDialer, PhoneFindable,
                              PhoneKnown, NeverRedials, CallbackFindsCall
    <3> QED
      BY Zenon, <3>a, <3>b, <3>c, <3>d DEF PhoneInv
  <2> QED
    BY Zenon, <1>1, <2>2, <2>3 DEF CreateRow
<1>2. CASE Dial(r)
  <2>1. /\ req[r] = "dial" /\ dialled' = [dialled EXCEPT ![k] = @ + 1] /\ UNCHANGED <<callRow, handler, posted>>
        /\ \E v \in {"created", "rejected", "doubt"} : req' = [req EXCEPT ![r] = v]
        /\ phone' = phone \/ phone' = [phone EXCEPT ![k] = "queued"]
        /\ req'[r] = "rejected" => phone' = phone
    BY Zenon, <1>2 DEF Dial, PhoneInv, PhoneTyped
  <2>a. PhoneTyped'
    <3>1. dialled' \in [Keys -> Nat]
      BY <1>0, <2>1 DEF PhoneInv, PhoneTyped
    <3>2. req' \in [Requests -> PhoneReqStates]
      BY Zenon, <2>1 DEF PhoneInv, PhoneTyped, PhoneReqStates
    <3>3. phone' \in [Keys -> PhoneShown \cup {"none"}]
      BY Zenon, <1>0, <2>1 DEF PhoneInv, PhoneTyped, PhoneShown
    <3> QED BY Zenon, <2>1, <3>1, <3>2, <3>3 DEF PhoneInv, PhoneTyped
  <2>b. PhoneOneDialer'
    <3>1. dialled[k] = 0 /\ callRow[k].state = "CREATING" /\ dialled'[k] = 1
      BY <1>0, <2>1 DEF PhoneInv, PhoneTyped, PhoneOneDialer
    <3>2. \A s \in Requests : s # r => req'[s] = req[s] /\ (req[s] = "dial" => KeyOf[s] # k)
      BY Zenon, <2>1 DEF PhoneInv, PhoneTyped, PhoneOneDialer
    <3>3. \A j \in Keys : j # k => dialled'[j] = dialled[j]
      BY Zenon, <1>0, <2>1 DEF PhoneInv, PhoneTyped
    <3>4. req'[r] \in {"created", "rejected", "doubt"}
      BY Zenon, <2>1 DEF PhoneInv, PhoneTyped
    <3> QED
      BY <1>0, <2>1, <3>1, <3>2, <3>3, <3>4 DEF PhoneConstants, PhoneInv, PhoneOneDialer, Exists
  <2>c. PhoneFindable'
    <3>1. dialled'[k] > 0 /\ callRow[k].state = "CREATING"
      BY <1>0, <2>1 DEF PhoneInv, PhoneTyped, PhoneOneDialer
    <3>2. \A j \in Keys : j # k => dialled'[j] = dialled[j] /\ phone'[j] = phone[j]
      BY Zenon, <1>0, <2>1 DEF PhoneInv, PhoneTyped
    <3>3. \A j \in Keys : phone'[j] = "none" => phone[j] = "none"
      BY Zenon, <1>0, <2>1 DEF PhoneInv, PhoneTyped
    <3>4. \A j \in Keys : phone'[j] # "none" => dialled'[j] > 0 /\ PhoneKnown(j)'
      BY Zenon, <1>0, <2>1, <3>1, <3>2 DEF PhoneInv, PhoneFindable, PhoneKnown
    <3>5. phone[k] = "none"
      BY <1>0, <2>1 DEF PhoneInv, PhoneTyped, PhoneOneDialer, PhoneFindable
    <3>6. \A s \in Requests : req'[s] = "rejected" => phone'[KeyOf[s]] = "none"
      <4> SUFFICES ASSUME NEW s \in Requests, req'[s] = "rejected" PROVE phone'[KeyOf[s]] = "none"
        BY Zenon
      <4>1. CASE s = r
        BY Zenon, <2>1, <3>5, <4>1
      <4>2. CASE s # r
        <5>1. req[s] = "rejected"
          BY Zenon, <2>1, <4>2 DEF PhoneInv, PhoneTyped
        <5>2. KeyOf[s] \in Keys /\ phone[KeyOf[s]] = "none" /\ dialled[KeyOf[s]] > 0
          BY Zenon, <5>1 DEF PhoneConstants, PhoneInv, PhoneFindable, PhoneOneDialer
        <5>3. KeyOf[s] # k
          BY <2>1, <5>2 DEF PhoneInv, PhoneOneDialer
        <5> QED BY Zenon, <3>2, <5>2, <5>3
      <4> QED BY Zenon, <4>1, <4>2
    <3>7. \A cb \in posted : cb \in PhoneCallbacks /\ cb[1] \in Keys
      BY Zenon DEF PhoneInv, PhoneTyped, PhoneCallbacks
    <3>8. \A cb \in PhoneCallbacks : cb[1] \in Keys
      BY Zenon DEF PhoneCallbacks
    <3>9. UNCHANGED <<callRow, handler, posted>>
      BY Zenon, <2>1
    <3> QED BY Zenon, <3>3, <3>4, <3>6, <3>7, <3>8, <3>9 DEF PhoneInv, PhoneFindable, PhoneCallbacks
  <2>d. NeverRedials' /\ CallbackFindsCall'
    BY <1>0, <1>2 DEF Dial, PhoneConstants, PhoneInv, PhoneTyped, PhoneOneDialer, PhoneFindable,
                      PhoneKnown, NeverRedials, CallbackFindsCall
  <2> QED
    BY Zenon, <2>a, <2>b, <2>c, <2>d DEF PhoneInv
<1>3. CASE _created(r)
  <2> PICK s \in {"queued", "initiated"} :
        callRow' = [callRow EXCEPT ![k].sid = TRUE, ![k].state = IF _advances(@, s) THEN s ELSE @]
    BY Zenon, <1>3 DEF _created
  <2> QED
    <3>1. callRow' \in [Keys -> [state: PhoneRowStates, sid: BOOLEAN, speech: BOOLEAN]]
      BY ZenonT(30), <1>0 DEF PhoneInv, PhoneTyped, PhoneRowStates, PhoneShown
    <3>a. PhoneTyped'
      BY Zenon, <1>0, <1>3, <3>1 DEF _created, PhoneInv, PhoneTyped, PhoneReqStates
    <3>b. PhoneOneDialer'
      BY <1>0, <1>3 DEF _created, PhoneConstants, PhoneInv, PhoneTyped, PhoneOneDialer,
                        PhoneFindable, Exists
    <3>c. PhoneFindable'
      BY <1>0, <1>3 DEF _created, PhoneConstants, PhoneInv, PhoneTyped, PhoneOneDialer,
                        PhoneFindable, PhoneKnown, PhoneCallbacks
    <3>d. NeverRedials' /\ CallbackFindsCall'
      BY Zenon, <1>0, <1>3 DEF _created, PhoneConstants, PhoneInv, PhoneTyped, PhoneOneDialer,
                        PhoneFindable, PhoneKnown, NeverRedials, CallbackFindsCall
    <3> QED
      BY Zenon, <3>a, <3>b, <3>c, <3>d DEF PhoneInv
<1>4. CASE Rejected(r)
  <2>a. PhoneTyped'
    BY ZenonT(30), <1>0, <1>4 DEF Rejected, PhoneConstants, PhoneInv, PhoneTyped, PhoneRowStates, PhoneReqStates,
                      PhoneShown, TERMINAL
  <2>b. PhoneOneDialer'
    BY <1>0, <1>4 DEF Rejected, PhoneConstants, PhoneInv, PhoneTyped, PhoneOneDialer, PhoneFindable,
                      Exists
  <2>c. PhoneFindable'
    BY <1>0, <1>4 DEF Rejected, PhoneConstants, PhoneInv, PhoneTyped, PhoneOneDialer, PhoneFindable,
                      PhoneKnown, PhoneCallbacks
  <2>d. NeverRedials' /\ CallbackFindsCall'
    BY Zenon, <1>0, <1>4 DEF Rejected, PhoneConstants, PhoneInv, PhoneTyped, PhoneOneDialer, PhoneFindable,
                      PhoneKnown, NeverRedials, CallbackFindsCall
  <2> QED
    BY Zenon, <2>a, <2>b, <2>c, <2>d DEF PhoneInv
<1>5. CASE _in_doubt(r)
  <2>a. PhoneTyped'
    BY ZenonT(30), <1>0, <1>5 DEF _in_doubt, PhoneConstants, PhoneInv, PhoneTyped, PhoneRowStates,
                      PhoneReqStates, PhoneShown, TERMINAL
  <2>b. PhoneOneDialer'
    BY <1>0, <1>5 DEF _in_doubt, PhoneConstants, PhoneInv, PhoneTyped, PhoneOneDialer, PhoneFindable,
                      Exists
  <2>c. PhoneFindable'
    BY <1>0, <1>5 DEF _in_doubt, PhoneConstants, PhoneInv, PhoneTyped, PhoneOneDialer, PhoneFindable,
                      PhoneKnown, PhoneCallbacks
  <2>d. NeverRedials' /\ CallbackFindsCall'
    BY Zenon, <1>0, <1>5 DEF _in_doubt, PhoneConstants, PhoneInv, PhoneTyped, PhoneOneDialer, PhoneFindable,
                      PhoneKnown, NeverRedials, CallbackFindsCall
  <2> QED
    BY Zenon, <2>a, <2>b, <2>c, <2>d DEF PhoneInv
<1> QED
  BY Zenon, <1>1, <1>2, <1>3, <1>4, <1>5 DEF RequestStep

LEMMA PhoneTwilioKeeps ==
  ASSUME PhoneConstants, PhoneInv, NEW k \in Keys, Progress(k)
  PROVE  PhoneInv'
<1>1. PICK s \in Ends \cup {"initiated", "ringing", "inprogress"} :
        /\ phone[k] # "none" /\ phone' = [phone EXCEPT ![k] = s]
        /\ posted' = posted \cup {<<k, "status", s>>}
                           \cup (IF s = "inprogress" THEN {<<k, "voice", s>>, <<k, "gather", s>>} ELSE {})
  BY Zenon DEF Progress
<1>2. UNCHANGED <<callRow, req, handler, dialled>> /\ s \in PhoneShown /\ s # "none"
  BY Zenon DEF Progress, PhoneConstants, PhoneShown, TERMINAL
<1>3. posted' \subseteq PhoneCallbacks /\ \A cb \in posted' : cb \in posted \/ cb[1] = k
  BY <1>1, <1>2 DEF PhoneInv, PhoneTyped, PhoneCallbacks
<1>4. \A j \in Keys : phone'[j] # "none" <=> phone[j] # "none"
  BY Zenon, <1>1, <1>2 DEF PhoneInv, PhoneTyped
<1>5. PhoneTyped'
  BY Zenon, <1>1, <1>2, <1>3 DEF PhoneInv, PhoneTyped
<1>6. PhoneOneDialer' /\ NeverRedials' /\ CallbackFindsCall'
  BY Zenon, <1>2 DEF PhoneInv, PhoneOneDialer, Exists, NeverRedials, CallbackFindsCall
<1>7. \A cb \in posted' : phone'[cb[1]] # "none"
  BY Zenon, <1>1, <1>3, <1>4 DEF PhoneInv, PhoneTyped, PhoneFindable, PhoneCallbacks
<1>8. \A h \in Handlers : handler'[h].pc \in {"adopt", "apply"} =>
        handler'[h].cb \in PhoneCallbacks /\ phone'[handler'[h].cb[1]] # "none"
  BY Zenon, <1>2, <1>4 DEF PhoneInv, PhoneFindable, PhoneCallbacks
<1>9. PhoneFindable'
  BY Zenon, <1>2, <1>4, <1>7, <1>8 DEF PhoneConstants, PhoneInv, PhoneFindable, PhoneKnown
<1> QED
  BY Zenon, <1>5, <1>6, <1>9 DEF PhoneInv

(* A step of a callback's handler leaves a call that exists with its CallSid. *)
LEMMA PhoneHandledKeeps ==
  ASSUME PhoneConstants, PhoneInv, NEW h \in Handlers, NEW k \in Keys, phone[k] # "none",
         callRow' \in [Keys -> [state: PhoneRowStates, sid: BOOLEAN, speech: BOOLEAN]],
         callRow'[k].sid, callRow'[k].state # "none", \A j \in Keys : j # k => callRow'[j] = callRow[j],
         handler' \in [Handlers -> [pc: {"idle", "adopt", "apply", "unknown"}, cb: PhoneCallbacks \cup {<<>>}]],
         handler'[h].pc \in {"idle", "apply"},
         handler'[h].pc = "apply" => handler'[h].cb \in PhoneCallbacks /\ handler'[h].cb[1] = k,
         \A g \in Handlers : g # h => handler'[g] = handler[g],
         UNCHANGED <<req, dialled, phone, posted>>
  PROVE  PhoneInv'
<1>1. PhoneTyped'
  BY Zenon DEF PhoneInv, PhoneTyped
<1>4. \A r \in Requests : req[r] = "dial" => KeyOf[r] # k
  BY DEF PhoneInv, PhoneTyped, PhoneOneDialer, PhoneFindable
<1>5. PhoneOneDialer'
  BY <1>4 DEF PhoneConstants, PhoneInv, PhoneOneDialer, PhoneFindable, Exists
<1>6. PhoneFindable'
  <2>1. \A j \in Keys : phone'[j] # "none" => dialled'[j] > 0 /\ PhoneKnown(j)'
    BY Zenon DEF PhoneInv, PhoneFindable, PhoneKnown
  <2>2. \A g \in Handlers : handler'[g].pc \in {"adopt", "apply"} =>
          handler'[g].cb \in PhoneCallbacks /\ phone'[handler'[g].cb[1]] # "none"
    BY DEF PhoneInv, PhoneFindable
  <2>3. \A g \in Handlers : handler'[g].pc = "apply" => callRow'[handler'[g].cb[1]].sid
    BY <2>2 DEF PhoneInv, PhoneFindable, PhoneCallbacks
  <2> QED
    BY Zenon, <2>1, <2>2, <2>3 DEF PhoneInv, PhoneFindable
<1>7. NeverRedials' /\ CallbackFindsCall'
  BY Zenon DEF PhoneInv, NeverRedials, CallbackFindsCall
<1> QED
  BY Zenon, <1>1, <1>5, <1>6, <1>7 DEF PhoneInv

LEMMA PhoneHandlerKeeps ==
  ASSUME PhoneConstants, PhoneInv, NEW h \in Handlers, Receive(h) \/ HandlerStep(h)
  PROVE  PhoneInv'
<1> DEFINE k == handler[h].cb[1]
           t == handler[h].cb[3]
<1>0. handler[h].pc \in {"adopt", "apply"} =>
        /\ handler[h].cb \in PhoneCallbacks /\ k \in Keys /\ t \in PhoneShown /\ t # "none"
        /\ phone[k] # "none" /\ dialled[k] > 0 /\ Exists(k)
        /\ callRow[k] \in [state: PhoneRowStates, sid: BOOLEAN, speech: BOOLEAN]
  BY DEF PhoneInv, PhoneTyped, PhoneFindable, PhoneOneDialer, Exists, PhoneCallbacks, PhoneShown,
         TERMINAL
<1>a. handler[h].pc = "apply" => callRow[k].sid = TRUE
  BY Zenon, <1>0 DEF PhoneInv, PhoneTyped, PhoneFindable
<1>b. NoCallback \in [pc: {"idle", "apply"}, cb: PhoneCallbacks \cup {<<>>}] /\ NoCallback.pc = "idle"
  BY Zenon DEF NoCallback
<1>1. CASE Receive(h)
  <2>1. PICK cb \in posted :
          /\ posted' \in {posted, posted \ {cb}}
          /\ handler' = [handler EXCEPT ![h] =
               [pc |-> IF ~callRow[cb[1]].sid /\ callRow[cb[1]].state \in {"CREATING", "IN_DOUBT"} THEN "adopt"
                       ELSE IF callRow[cb[1]].sid THEN "apply" ELSE "unknown",
                cb |-> cb]]
    BY Zenon, <1>1 DEF Receive
  <2>2. cb \in PhoneCallbacks /\ cb[1] \in Keys /\ phone[cb[1]] # "none" /\ PhoneKnown(cb[1])
    BY Zenon DEF PhoneInv, PhoneTyped, PhoneFindable, PhoneCallbacks
  <2>3. /\ handler'[h].cb = cb /\ handler'[h].pc \in {"adopt", "apply"}
        /\ handler'[h].pc = "apply" => callRow[cb[1]].sid
        /\ \A g \in Handlers : g # h => handler'[g] = handler[g]
    BY Zenon, <2>1, <2>2 DEF PhoneInv, PhoneTyped, PhoneKnown
  <2>4. UNCHANGED <<callRow, req, dialled, phone>>
    BY Zenon, <1>1 DEF Receive
  <2>a. PhoneTyped'
    BY Zenon, <2>1, <2>2, <2>4 DEF PhoneInv, PhoneTyped
  <2>b. PhoneOneDialer'
    BY Zenon, <2>4 DEF PhoneInv, PhoneOneDialer, Exists
  <2>c. PhoneFindable'
    BY <2>1, <2>2, <2>3, <2>4 DEF PhoneInv, PhoneFindable, PhoneKnown
  <2>d. NeverRedials' /\ CallbackFindsCall'
    BY Zenon, <2>3, <2>4 DEF PhoneInv, NeverRedials, CallbackFindsCall
  <2> QED
    BY Zenon, <2>a, <2>b, <2>c, <2>d DEF PhoneInv
<1>2. CASE _adopt(h)
  <2>1. callRow' \in [Keys -> [state: PhoneRowStates, sid: BOOLEAN, speech: BOOLEAN]] /\ \A j \in Keys : j # k => callRow'[j] = callRow[j]
    BY Zenon, <1>0, <1>2 DEF _adopt, PhoneInv, PhoneTyped, PhoneRowStates, PhoneShown
  <2>2. callRow'[k].sid /\ callRow'[k].state # "none"
    BY Zenon, <1>0, <1>a, <1>2 DEF _adopt, PhoneInv, PhoneTyped, Exists
  <2>3. /\ handler' \in [Handlers -> [pc: {"idle", "adopt", "apply", "unknown"}, cb: PhoneCallbacks \cup {<<>>}]]
        /\ handler'[h].pc = "apply" /\ handler'[h].cb = handler[h].cb /\ \A g \in Handlers : g # h => handler'[g] = handler[g]
    BY Zenon, <1>0, <1>b, <1>2 DEF _adopt, PhoneInv, PhoneTyped
  <2>4. k \in Keys /\ phone[k] # "none" /\ handler[h].cb \in PhoneCallbacks /\ UNCHANGED <<req, dialled, phone, posted>>
    BY Zenon, <1>0, <1>2 DEF _adopt
  <2> QED
    BY Zenon, <2>1, <2>2, <2>3, <2>4, PhoneHandledKeeps
<1>3. CASE voice(h)
  <2>1. callRow' \in [Keys -> [state: PhoneRowStates, sid: BOOLEAN, speech: BOOLEAN]] /\ \A j \in Keys : j # k => callRow'[j] = callRow[j]
    BY Zenon, <1>0, <1>3 DEF voice, PhoneInv, PhoneTyped, PhoneRowStates, PhoneShown
  <2>2. callRow'[k].sid /\ callRow'[k].state # "none"
    BY Zenon, <1>0, <1>a, <1>3 DEF voice, PhoneInv, PhoneTyped, Exists
  <2>3. /\ handler' \in [Handlers -> [pc: {"idle", "adopt", "apply", "unknown"}, cb: PhoneCallbacks \cup {<<>>}]]
        /\ handler'[h].pc = "idle" /\ \A g \in Handlers : g # h => handler'[g] = handler[g]
    BY Zenon, <1>0, <1>b, <1>3 DEF voice, PhoneInv, PhoneTyped
  <2>4. k \in Keys /\ phone[k] # "none" /\ handler[h].cb \in PhoneCallbacks /\ UNCHANGED <<req, dialled, phone, posted>>
    BY Zenon, <1>0, <1>3 DEF voice
  <2> QED
    BY Zenon, <2>1, <2>2, <2>3, <2>4, PhoneHandledKeeps
<1>4. CASE gather(h)
  <2>1. callRow' \in [Keys -> [state: PhoneRowStates, sid: BOOLEAN, speech: BOOLEAN]] /\ \A j \in Keys : j # k => callRow'[j] = callRow[j]
    <3>1. CASE UNCHANGED callRow
      BY Zenon, <3>1 DEF PhoneInv, PhoneTyped
    <3>2. CASE callRow' = [callRow EXCEPT ![k].speech = TRUE]
      BY Zenon, <1>0, <1>4, <3>2 DEF gather, PhoneInv, PhoneTyped
    <3> QED
      BY Zenon, <1>4, <3>1, <3>2 DEF gather
  <2>2. callRow'[k].sid /\ callRow'[k].state # "none"
    BY <1>0, <1>a, <1>4 DEF gather, PhoneInv, PhoneTyped, Exists
  <2>3. /\ handler' \in [Handlers -> [pc: {"idle", "adopt", "apply", "unknown"}, cb: PhoneCallbacks \cup {<<>>}]]
        /\ handler'[h].pc = "idle" /\ \A g \in Handlers : g # h => handler'[g] = handler[g]
    BY Zenon, <1>0, <1>b, <1>4 DEF gather, PhoneInv, PhoneTyped
  <2>4. k \in Keys /\ phone[k] # "none" /\ handler[h].cb \in PhoneCallbacks /\ UNCHANGED <<req, dialled, phone, posted>>
    BY Zenon, <1>0, <1>4 DEF gather
  <2> QED
    BY Zenon, <2>1, <2>2, <2>3, <2>4, PhoneHandledKeeps
<1>5. CASE status_callback(h)
  <2>1. callRow' \in [Keys -> [state: PhoneRowStates, sid: BOOLEAN, speech: BOOLEAN]] /\ \A j \in Keys : j # k => callRow'[j] = callRow[j]
    BY Zenon, <1>0, <1>5 DEF status_callback, PhoneInv, PhoneTyped, PhoneRowStates, PhoneShown
  <2>2. callRow'[k].sid /\ callRow'[k].state # "none"
    BY Zenon, <1>0, <1>a, <1>5 DEF status_callback, PhoneInv, PhoneTyped, Exists
  <2>3. /\ handler' \in [Handlers -> [pc: {"idle", "adopt", "apply", "unknown"}, cb: PhoneCallbacks \cup {<<>>}]]
        /\ handler'[h].pc = "idle" /\ \A g \in Handlers : g # h => handler'[g] = handler[g]
    BY Zenon, <1>0, <1>b, <1>5 DEF status_callback, PhoneInv, PhoneTyped
  <2>4. k \in Keys /\ phone[k] # "none" /\ handler[h].cb \in PhoneCallbacks /\ UNCHANGED <<req, dialled, phone, posted>>
    BY Zenon, <1>0, <1>5 DEF status_callback
  <2> QED
    BY Zenon, <2>1, <2>2, <2>3, <2>4, PhoneHandledKeeps
<1> QED
  BY Zenon, <1>1, <1>2, <1>3, <1>4, <1>5 DEF HandlerStep

LEMMA PhoneNextKeeps ==
  ASSUME PhoneConstants
  PROVE  PhoneInv /\ [PhoneNext]_phoneVars => PhoneInv'
<1> SUFFICES ASSUME PhoneInv, [PhoneNext]_phoneVars PROVE PhoneInv'
  BY Zenon
<1>1. CASE UNCHANGED phoneVars
  BY Zenon, <1>1 DEF phoneVars, PhoneInv, PhoneTyped, PhoneOneDialer, PhoneFindable, PhoneKnown,
              NeverRedials, CallbackFindsCall, Exists
<1>2. CASE PhoneCrash
  <2>a. PhoneTyped'
    BY Zenon, <1>2 DEF PhoneCrash, NoCallback, PhoneInv, PhoneTyped, PhoneRowStates, PhoneReqStates,
                PhoneShown, TERMINAL
  <2>b. PhoneOneDialer'
    BY Zenon, <1>2 DEF PhoneCrash, NoCallback, PhoneInv, PhoneTyped, PhoneOneDialer, PhoneFindable,
                Exists
  <2>c. PhoneFindable'
    BY Zenon, <1>2 DEF PhoneCrash, NoCallback, PhoneInv, PhoneTyped, PhoneOneDialer, PhoneFindable,
                PhoneKnown, PhoneCallbacks
  <2>d. NeverRedials' /\ CallbackFindsCall'
    BY Zenon, <1>2 DEF PhoneCrash, NoCallback, PhoneInv, PhoneTyped, PhoneOneDialer, PhoneFindable,
                PhoneKnown, NeverRedials, CallbackFindsCall
  <2> QED
    BY Zenon, <2>a, <2>b, <2>c, <2>d DEF PhoneInv
<1> QED
  BY Zenon, <1>1, <1>2, PhoneRequestKeeps, PhoneTwilioKeeps, PhoneHandlerKeeps DEF PhoneNext

(* No key is dialled twice, for any requests, losses and crashes: the row is inserted before the
   POST, in a transaction that answers a known key from its row. *)
THEOREM DialledOnce == ASSUME PhoneConstants PROVE PhoneSpec => []NeverRedials
<1>1. PhoneInv => NeverRedials
  BY Zenon DEF PhoneInv
<1> QED
  BY <1>1, PhoneStarts, PhoneNextKeeps, PTL DEF PhoneSpec

(* No callback of a call that Twilio placed is refused, however early it comes and whatever became
   of the answer to the POST (_callback_call adopts the CallSid). *)
THEOREM CallbacksFindCalls == ASSUME PhoneConstants PROVE PhoneSpec => []CallbackFindsCall
<1>1. PhoneInv => CallbackFindsCall
  BY Zenon DEF PhoneInv
<1> QED
  BY <1>1, PhoneStarts, PhoneNextKeeps, PTL DEF PhoneSpec

(* The rows of the run, which CreateRow counts before it inserts one. *)
PhoneRows == {k \in Keys : Exists(k)}

PhoneSizes == IsFiniteSet(Keys) /\ MaxCalls \in Nat

PhoneInserts ==
  \E k \in Keys : ~(Cardinality(PhoneRows) >= MaxCalls) /\ PhoneRows' = PhoneRows \cup {k}

(* No step but CreateRow makes a row, and none deletes one. *)
LEMMA PhoneRowsKept ==
  ASSUME PhoneConstants, PhoneInv, [PhoneNext]_phoneVars
  PROVE  PhoneRows' = PhoneRows \/ PhoneInserts
<1>0. callRow \in [Keys -> [state: PhoneRowStates, sid: BOOLEAN, speech: BOOLEAN]]
  BY Zenon DEF PhoneInv, PhoneTyped
<1>1. CASE UNCHANGED callRow
  BY Zenon, <1>1 DEF PhoneRows, Exists
<1>2. ASSUME NEW k \in Keys, Exists(k),
             \A j \in Keys : j # k => callRow'[j].state = callRow[j].state,
             callRow'[k].state # "none"
      PROVE  PhoneRows' = PhoneRows
  BY Zenon, <1>2 DEF PhoneRows, Exists
<1>3. ASSUME NEW r \in Requests, CreateRow(r)
      PROVE  PhoneRows' = PhoneRows \/ PhoneInserts
  <2>1. KeyOf[r] \in Keys
    BY Zenon DEF PhoneConstants
  <2>2. CASE UNCHANGED callRow
    BY Zenon, <1>1, <2>2
  <2>3. CASE ~UNCHANGED callRow
    <3>1. ~(Cardinality(PhoneRows) >= MaxCalls) /\ callRow' = [callRow EXCEPT ![KeyOf[r]].state = "CREATING"]
      BY Zenon, <1>3, <2>3 DEF CreateRow, PhoneRows
    <3>2. callRow'[KeyOf[r]].state = "CREATING" /\ \A j \in Keys : j # KeyOf[r] => callRow'[j] = callRow[j]
      BY Zenon, <1>0, <2>1, <3>1
    <3>3. PhoneRows' = PhoneRows \cup {KeyOf[r]}
      BY Zenon, <2>1, <3>2 DEF PhoneRows, Exists
    <3> QED BY Zenon, <2>1, <3>1, <3>3 DEF PhoneInserts
  <2> QED BY Zenon, <2>2, <2>3
<1>4. ASSUME NEW r \in Requests, _created(r) \/ Rejected(r) \/ _in_doubt(r)
      PROVE  PhoneRows' = PhoneRows
  <2> DEFINE k == KeyOf[r]
  <2>1. k \in Keys /\ dialled[k] > 0 /\ dialled[k] \in Nat /\ callRow[k].state # "none"
    BY <1>4 DEF PhoneConstants, PhoneInv, PhoneTyped, PhoneOneDialer, Exists, _created,
       Rejected, _in_doubt
  <2>2. /\ \A j \in Keys : j # k => callRow'[j].state = callRow[j].state
        /\ callRow'[k].state \in {callRow[k].state, "queued", "initiated", "failed", "IN_DOUBT"}
    BY <1>0, <1>4, <2>1 DEF _created, Rejected, _in_doubt
  <2> HIDE DEF k
  <2> QED BY Zenon, <1>2, <2>1, <2>2 DEF Exists
<1>5. ASSUME NEW h \in Handlers, HandlerStep(h) PROVE PhoneRows' = PhoneRows
  <2> DEFINE k == handler[h].cb[1]
  <2>1. handler[h].cb \in PhoneCallbacks /\ phone[k] # "none"
    BY Zenon, <1>5 DEF PhoneInv, PhoneFindable, HandlerStep, _adopt, voice, gather,
       status_callback
  <2>2. k \in Keys /\ handler[h].cb[3] \in PhoneShown
    BY Zenon, <2>1 DEF PhoneCallbacks
  <2>3. dialled[k] > 0 /\ dialled[k] \in Nat /\ callRow[k].state # "none"
    BY <2>1, <2>2 DEF PhoneInv, PhoneTyped, PhoneFindable, PhoneOneDialer, Exists
  <2>4. /\ \A j \in Keys : j # k => callRow'[j].state = callRow[j].state
        /\ callRow'[k].state \in {callRow[k].state, "queued", handler[h].cb[3]}
    BY ZenonT(30), <1>0, <1>5, <2>2 DEF HandlerStep, _adopt, voice, gather,
                            status_callback
  <2>5. callRow'[k].state # "none"
    BY Zenon, <2>2, <2>3, <2>4 DEF PhoneShown, TERMINAL
  <2> HIDE DEF k
  <2> QED BY Zenon, <1>2, <2>2, <2>3, <2>4, <2>5 DEF Exists
<1>6. CASE \/ UNCHANGED phoneVars \/ PhoneCrash
           \/ \E r \in Requests : Dial(r)
           \/ \E k \in Keys : Progress(k)
           \/ \E h \in Handlers : Receive(h)
  BY Zenon, <1>1, <1>6 DEF phoneVars, PhoneCrash, Dial, Progress, Receive
<1> QED BY Zenon, <1>3, <1>4, <1>5, <1>6 DEF PhoneNext, RequestStep

(* No more numbers are dialled than the grant allows, however many requests of the run are under
   way at once: CreateRow counts and inserts under the run's advisory lock, and only the request
   that inserted the row dials. *)
THEOREM CallsLimited ==
  ASSUME PhoneConstants, PhoneSizes
  PROVE  PhoneSpec => []WithinMaxCalls
<1> DEFINE Few == Cardinality(PhoneRows) <= MaxCalls
<1>0. IsFiniteSet(PhoneRows) /\ Cardinality(PhoneRows) \in Nat
  BY Zenon, FS_Subset, FS_CardinalityType DEF PhoneRows, PhoneSizes
<1>1. PhoneInit => Few
  <2> SUFFICES ASSUME PhoneInit PROVE PhoneRows = {}
    BY FS_EmptySet DEF PhoneSizes
  <2> QED BY Zenon DEF PhoneInit, PhoneRows, Exists
<1>2. PhoneInv /\ Few /\ [PhoneNext]_phoneVars => Few'
  <2> SUFFICES ASSUME PhoneInv, Few, [PhoneNext]_phoneVars PROVE Few'
    BY Zenon
  <2>1. CASE PhoneRows' = PhoneRows
    BY Zenon, <2>1
  <2>2. CASE PhoneInserts
    <3> PICK k \in Keys : ~(Cardinality(PhoneRows) >= MaxCalls) /\ PhoneRows' = PhoneRows \cup {k}
      BY Zenon, <2>2 DEF PhoneInserts
    <3>1. Cardinality(PhoneRows \cup {k}) \in {Cardinality(PhoneRows), Cardinality(PhoneRows) + 1}
      BY Zenon, <1>0, FS_AddElement
    <3> QED BY <1>0, <3>1 DEF PhoneSizes
  <2> QED BY Zenon, <2>1, <2>2, PhoneRowsKept
<1>3. PhoneInv /\ Few => WithinMaxCalls
  <2> SUFFICES ASSUME PhoneInv, Few PROVE WithinMaxCalls
    BY Zenon
  <2> DEFINE called == {k \in Keys : dialled[k] > 0}
  <2>1. called \subseteq PhoneRows
    BY DEF PhoneInv, PhoneOneDialer, PhoneRows
  <2>2. Cardinality(called) <= Cardinality(PhoneRows) /\ Cardinality(called) \in Nat
    BY Zenon, <1>0, <2>1, FS_Subset, FS_CardinalityType
  <2> QED BY <1>0, <2>2 DEF PhoneSizes, WithinMaxCalls
<1> QED
  BY <1>1, <1>2, <1>3, PhoneStarts, PhoneNextKeeps, PTL DEF PhoneSpec
=============================================================================
