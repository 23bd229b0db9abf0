----------------------------- MODULE EventStream -----------------------------
(***************************************************************************)
(* A run's page following its events: the control API's event stream, the  *)
(* browser's EventSource, the page's subscription with its fallback to     *)
(* polling, and the query that holds the run's state.                      *)
(***************************************************************************)
EXTENDS Integers, Sequences, FiniteSets, SequencesExt

CONSTANTS MaxLog,            \* bound: events of the run
          Limit,             \* events read at a time
          MaxErrors, PollsBeforeRetry,
          Retries            \* where the run is retried: on this page, on another one

VARIABLES log,       \* run_events: "event", "terminal" or "queued" (a retry), by sequence
          gen,       \* the server's generator: pc, cursor, the state it read
          wire,      \* sequence numbers sent and not received; End is the 'end' event
          sub,       \* the page's subscription
          poll,      \* the answer of a poll, or none
          terminalSeen,
          ui,        \* what the page holds: the run is terminal, the effect saw that, a refetch, the timeline
          twice      \* an event was handed to the page a second time

vars == <<log, gen, wire, sub, poll, terminalSeen, ui, twice>>

End == 0
None == [sent |-> FALSE, items |-> <<>>]
Terminal(l) == l # <<>> /\ Last(l) = "terminal"
Off == [pc |-> "off", cursor |-> 0, terminal |-> FALSE]
Subscribed(cursor) ==
  [mode |-> "sse", status |-> "connecting", cursor |-> cursor, url |-> cursor, last |-> 0, errors |-> 0, polls |-> 0]

Init ==
  /\ log = <<"queued">> /\ gen = Off /\ wire = <<>> /\ poll = None /\ terminalSeen = FALSE /\ twice = FALSE
  /\ sub = Subscribed(0)
  /\ ui = [terminal |-> FALSE, effect |-> FALSE, fetch |-> "none", timeline |-> {}]

-----------------------------------------------------------------------------
(* The run. *)

append_event ==
  /\ Len(log) < MaxLog /\ ~Terminal(log)
  /\ \E type \in {"event", "terminal"} : log' = Append(log, type)
  /\ UNCHANGED <<gen, wire, sub, poll, terminalSeen, ui, twice>>

(* The owner retries the run on this page, which stores the answer and reads
   the run again, or on another page. *)
retry ==
  /\ Len(log) < MaxLog /\ Terminal(log) /\ log' = Append(log, "queued")
  /\ \/ "here" \in Retries /\ ui.terminal /\ ui.effect /\ ui' = [ui EXCEPT !.terminal = FALSE, !.fetch = "asked"]
     \/ "elsewhere" \in Retries /\ UNCHANGED ui
  /\ UNCHANGED <<gen, wire, sub, poll, terminalSeen, twice>>

-----------------------------------------------------------------------------
(* The stream. *)

After(cursor) == [i \in 1..(IF Len(log) - cursor < Limit THEN Len(log) - cursor ELSE Limit) |-> cursor + i]

stream_run_events ==
  /\ sub.mode = "sse" /\ gen.pc = "off"
  /\ gen' = [Off EXCEPT !.pc = "state", !.cursor = IF sub.last # 0 THEN sub.last ELSE sub.url]
  /\ sub' = [sub EXCEPT !.errors = 0, !.status = "live"]
  /\ UNCHANGED <<log, wire, poll, terminalSeen, ui, twice>>

ReadState ==
  /\ gen.pc = "state" /\ gen' = [gen EXCEPT !.pc = "events", !.terminal = Terminal(log)]
  /\ UNCHANGED <<log, wire, sub, poll, terminalSeen, ui, twice>>

_event_stream ==
  LET events == After(gen.cursor)
      end == events = <<>> /\ gen.terminal IN
  /\ gen.pc = "events" /\ wire' = wire \o IF end THEN <<End>> ELSE events
  /\ gen' = [gen EXCEPT !.pc = IF end THEN "done" ELSE "state", !.cursor = @ + Len(events)]
  /\ UNCHANGED <<log, sub, poll, terminalSeen, ui, twice>>

-----------------------------------------------------------------------------
(* The page.  Events reach it in order of delivery. *)

applyEvent(old, n) ==
  LET shown == [old EXCEPT !.timeline = @ \cup {n}] IN
  IF log[n] = "event" THEN shown
  ELSE [shown EXCEPT !.terminal = log[n] = "terminal", !.fetch = "asked"]

onItem(items) ==
  /\ ui' = FoldLeft(applyEvent, ui, items)
  /\ terminalSeen' = (terminalSeen \/ \E i \in DOMAIN items : log[items[i]] = "terminal")
  /\ twice' = (twice \/ \E i \in DOMAIN items : items[i] \in ui.timeline)

(* finish('ended') reads the run again. *)
finish ==
  /\ sub' = [sub EXCEPT !.mode = "closed", !.status = "ended"] /\ gen' = Off /\ wire' = <<>>

handle ==
  /\ sub.mode = "sse" /\ wire # <<>> /\ Head(wire) # End
  /\ wire' = Tail(wire)
  /\ sub' = [sub EXCEPT !.errors = 0, !.status = "live", !.last = Head(wire),
                        !.cursor = IF Head(wire) <= @ THEN @ ELSE Head(wire)]
  /\ onItem(IF Head(wire) <= sub.cursor THEN <<>> ELSE <<Head(wire)>>)
  /\ UNCHANGED <<log, gen, poll>>

EndReceived ==
  /\ sub.mode = "sse" /\ wire # <<>> /\ Head(wire) = End /\ finish
  /\ ui' = [ui EXCEPT !.fetch = "asked"]
  /\ UNCHANGED <<log, poll, terminalSeen, twice>>

(* The connection breaks or is refused.  The browser connects again by itself
   unless it gave up. *)
onerror ==
  /\ sub.mode = "sse" /\ gen' = Off /\ wire' = <<>>
  /\ \/ /\ sub.errors + 1 < MaxErrors
        /\ sub' = [sub EXCEPT !.errors = @ + 1, !.status = "reconnecting"]
     \/ sub' = [sub EXCEPT !.errors = @ + 1, !.mode = "poll", !.status = "polling", !.polls = 0]
  /\ UNCHANGED <<log, poll, terminalSeen, ui, twice>>

Poll ==
  /\ sub.mode = "poll" /\ ~poll.sent /\ poll' = [sent |-> TRUE, items |-> After(sub.cursor)]
  /\ UNCHANGED <<log, gen, wire, sub, terminalSeen, ui, twice>>

open_FromStart(s) == IF s.polls >= PollsBeforeRetry THEN Subscribed(0) ELSE s

(* After some polls a new EventSource, from the cursor. *)
open(s) ==
  IF s.polls >= PollsBeforeRetry
  THEN [Subscribed(s.cursor) EXCEPT !.status = "reconnecting"]
  ELSE s

tick_AdvancesOnError ==
  /\ sub.mode = "poll" /\ poll.sent /\ poll' = None
  /\ sub' = open([sub EXCEPT !.cursor = @ + Len(poll.items), !.polls = @ + 1])
  /\ (onItem(poll.items) \/ UNCHANGED <<terminalSeen, ui, twice>>)
  /\ UNCHANGED <<log, gen, wire>>

tick_EmptyEnds ==
  /\ sub.mode = "poll" /\ poll.sent /\ poll' = None
  /\ \/ /\ poll.items = <<>> /\ finish /\ ui' = [ui EXCEPT !.fetch = "asked"]
        /\ UNCHANGED <<terminalSeen, twice>>
     \/ /\ poll.items # <<>> /\ onItem(poll.items)
        /\ sub' = open([sub EXCEPT !.cursor = @ + Len(poll.items), !.polls = @ + 1])
        /\ UNCHANGED <<gen, wire>>
  /\ UNCHANGED log

tick ==
  /\ sub.mode = "poll" /\ poll.sent /\ poll' = None
  /\ \/ /\ poll.items = <<>> /\ terminalSeen /\ finish /\ ui' = [ui EXCEPT !.fetch = "asked"]
        /\ UNCHANGED <<terminalSeen, twice>>
     \/ /\ ~(poll.items = <<>> /\ terminalSeen) /\ onItem(poll.items)
        /\ sub' = open([sub EXCEPT !.cursor = @ + Len(poll.items), !.polls = @ + 1])
        /\ UNCHANGED <<gen, wire>>
     \/ sub' = open([sub EXCEPT !.polls = @ + 1]) /\ UNCHANGED <<gen, wire, terminalSeen, ui, twice>>  \* it failed
  /\ UNCHANGED log

(* The run's query is read again and its answer stored. *)
Refetch ==
  /\ ui.fetch = "asked" /\ ui' = [ui EXCEPT !.fetch = IF Terminal(log) THEN "terminal" ELSE "active"]
  /\ UNCHANGED <<log, gen, wire, sub, poll, terminalSeen, twice>>

Refetched ==
  /\ ui.fetch \in {"terminal", "active"}
  /\ ui' = [ui EXCEPT !.fetch = "none", !.terminal = ui.fetch = "terminal"]
  /\ UNCHANGED <<log, gen, wire, sub, poll, terminalSeen, twice>>

(* The effect of useRunEvents runs when terminal has changed between two renderings.
   A poll of the closed subscription is forgotten. *)
useRunEvents ==
  /\ ui.terminal # ui.effect /\ ui' = [ui EXCEPT !.effect = ui.terminal]
  /\ IF ui.terminal
     THEN finish /\ UNCHANGED terminalSeen
     ELSE /\ sub' = Subscribed(Cardinality(ui.timeline)) /\ gen' = Off /\ wire' = <<>>
          /\ terminalSeen' = FALSE
  /\ poll' = None
  /\ UNCHANGED <<log, twice>>

PageStep == handle \/ EndReceived \/ Poll \/ Refetch \/ Refetched \/ useRunEvents
Next == append_event \/ retry \/ stream_run_events \/ ReadState \/ _event_stream \/ onerror \/ tick \/ PageStep

Spec == Init /\ [][Next]_vars

-----------------------------------------------------------------------------

(* Resuming by Last-Event-ID, by ?after= and by polling, the timeline never skips an event. *)
NoGaps == ui.timeline = 1..Cardinality(ui.timeline)

(* "a reconnect never repeats a timeline entry and never re-triggers anything". *)
NeverTwice == ~twice

(* The page does not show yet whether the run is over; however often the stream breaks, it does
   in the end. *)
OutcomeHidden == ui.terminal # Terminal(log)
=============================================================================
