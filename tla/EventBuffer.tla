----------------------------- MODULE EventBuffer -----------------------------
(***************************************************************************)
(* An agent's events on their way to the run's log: the SDK's buffer, its  *)
(* flush, which holds a lock but not the buffer while it posts, and the    *)
(* control API's record_agent_event_batch.  Events are numbered in the     *)
(* order they are emitted; those in Bad do not fit the schema.             *)
(***************************************************************************)
EXTENDS Integers, Sequences, FiniteSets, SequencesExt

CONSTANTS N,          \* bound: events emitted
          Bad,        \* events the control API rejects
          MaxBatch, MaxBuffer

VARIABLES emitted,  \* events emitted so far
          buffer, dropped,
          flush,    \* idle, post, salvage (posting batch[at] alone), closed
          batch, at,
          late,     \* batches given up by the client and still on their way
          log       \* run_events: the client ids in sequence order

vars == <<emitted, buffer, dropped, flush, batch, at, late, log>>

Init ==
  /\ emitted = 0 /\ buffer = <<>> /\ dropped = 0
  /\ flush = "idle" /\ batch = <<>> /\ at = 0 /\ late = {} /\ log = <<>>

-----------------------------------------------------------------------------
(* The control API: all or nothing, skipping what is stored. *)

Rejected(events) == Range(events) \cap Bad # {}


Fresh(events) == SelectSeq(events, LAMBDA e : e \notin Range(log))

record_agent_event_batch(events) == log' = IF Rejected(events) THEN log ELSE log \o Fresh(events)

Late ==
  /\ \E events \in late : record_agent_event_batch(events) /\ late' = late \ {events}
  /\ UNCHANGED <<emitted, buffer, dropped, flush, batch, at>>

-----------------------------------------------------------------------------
(* The SDK. *)

_add_Uncounted ==
  LET longer == Append(buffer, emitted + 1)
      overflow == IF Len(longer) > MaxBuffer THEN Len(longer) - MaxBuffer ELSE 0 IN
  /\ flush # "closed" /\ emitted < N /\ emitted' = emitted + 1
  /\ buffer' = SubSeq(longer, overflow + 1, Len(longer))
  /\ UNCHANGED <<dropped, flush, batch, at, late, log>>

(* Any task of the agent, also while another one flushes. *)
_add ==
  LET longer == Append(buffer, emitted + 1)
      overflow == IF Len(longer) > MaxBuffer THEN Len(longer) - MaxBuffer ELSE 0 IN
  /\ flush # "closed" /\ emitted < N /\ emitted' = emitted + 1
  /\ buffer' = SubSeq(longer, overflow + 1, Len(longer)) /\ dropped' = dropped + overflow
  /\ UNCHANGED <<flush, batch, at, late, log>>

First(buf) == SubSeq(buf, 1, IF Len(buf) < MaxBatch THEN Len(buf) ELSE MaxBatch)

(* del self._buffer[: len(batch)], and round the loop. *)
Sent(buf) ==
  LET rest == SubSeq(buf, Len(batch) + 1, Len(buf)) IN
  /\ buffer' = rest /\ at' = 0 /\ batch' = First(rest)
  /\ flush' = IF rest = <<>> THEN "idle" ELSE "post"

Flush ==
  /\ flush = "idle" /\ buffer # <<>> /\ flush' = "post" /\ batch' = First(buffer) /\ at' = 0
  /\ UNCHANGED <<emitted, buffer, dropped, late, log>>

Posted ==
  /\ flush = "post" /\ ~Rejected(batch) /\ record_agent_event_batch(batch) /\ Sent(buffer)
  /\ UNCHANGED <<emitted, dropped, late>>

(* 422: _salvage sends each event of a larger batch alone. *)
Refused ==
  /\ flush = "post" /\ Rejected(batch)
  /\ IF Len(batch) = 1
     THEN Sent(buffer)
     ELSE flush' = "salvage" /\ at' = 1 /\ UNCHANGED <<buffer, batch>>
  /\ UNCHANGED <<emitted, dropped, late, log>>

_salvage_StopsAtRejected ==
  /\ flush = "salvage" /\ record_agent_event_batch(<<batch[at]>>)
  /\ IF at = Len(batch) \/ batch[at] \in Bad THEN Sent(buffer) ELSE at' = at + 1 /\ UNCHANGED <<buffer, batch, flush>>
  /\ UNCHANGED <<emitted, dropped, late>>

_salvage ==
  /\ flush = "salvage" /\ record_agent_event_batch(<<batch[at]>>)
  /\ IF at = Len(batch) THEN Sent(buffer) ELSE at' = at + 1 /\ UNCHANGED <<buffer, batch, flush>>
  /\ UNCHANGED <<emitted, dropped, late>>

Deferred_Deletes ==
  LET events == IF flush = "post" THEN batch ELSE <<batch[at]>> IN
  /\ flush \in {"post", "salvage"} /\ Sent(buffer)
  /\ \/ record_agent_event_batch(events) /\ UNCHANGED late
     \/ UNCHANGED <<log, late>>
     \/ late' = late \cup {events} /\ UNCHANGED log
  /\ UNCHANGED <<emitted, dropped>>

Deferred_Requeues ==
  LET events == IF flush = "post" THEN batch ELSE <<batch[at]>> IN
  /\ flush \in {"post", "salvage"} /\ flush' = "idle" /\ batch' = <<>> /\ at' = 0
  /\ buffer' = SubSeq(buffer, Len(batch) + 1, Len(buffer)) \o batch
  /\ \/ record_agent_event_batch(events) /\ UNCHANGED late
     \/ UNCHANGED <<log, late>>
  /\ UNCHANGED <<emitted, dropped>>

(* A retryable error after the transport's retries, or the periodic task is
   cancelled by aclose: the request was handled, or is lost, or arrives later. *)
Deferred ==
  LET events == IF flush = "post" THEN batch ELSE <<batch[at]>> IN
  /\ flush \in {"post", "salvage"} /\ flush' = "idle" /\ batch' = <<>> /\ at' = 0
  /\ \/ record_agent_event_batch(events) /\ UNCHANGED late
     \/ UNCHANGED <<log, late>>
     \/ late' = late \cup {events} /\ UNCHANGED log
  /\ UNCHANGED <<emitted, buffer, dropped>>

(* The last flush of aclose has come back, in success or not. *)
aclose ==
  /\ flush = "idle" /\ flush' = "closed"
  /\ UNCHANGED <<emitted, buffer, dropped, batch, at, late, log>>

FlushStep == Flush \/ Posted \/ Refused \/ _salvage
Next == _add \/ FlushStep \/ Deferred \/ Late \/ aclose

Spec == Init /\ [][Next]_vars

-----------------------------------------------------------------------------

(* "a retried batch never duplicates events": whatever was posted twice, salvaged or
   arrives late, an event has one place in the log. *)
StoredOnce == Cardinality(Range(log)) = Len(log)

(* The owner's timeline shows an agent's events in the order it emitted them. *)
InOrder == \A i, j \in DOMAIN log : i < j => log[i] < log[j]

(* "Rejected events are dropped; retryable failures keep them for a later flush": an event that
   fits is stored, or still in the buffer, or counted as dropped. *)
NothingLost ==
  Cardinality({e \in (1..emitted) \ Bad : e \notin Range(log) \cup Range(buffer)}) <= dropped

(* An event that is still to be delivered.  Each one that fits is in the end, although others in
   its batch are rejected. *)
Undelivered(e) == e \notin Bad /\ emitted >= e /\ e \notin Range(log) /\ flush # "closed"
=============================================================================
