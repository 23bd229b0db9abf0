----------------------------- MODULE Schedules ------------------------------
(***************************************************************************)
(* Schedules: the owner's edits (routers/schedules.py), the evaluation     *)
(* that turns due schedules into runs (scheduler.py), and the election of  *)
(* the process that evaluates (leader_loop and _lead in the scheduler's    *)
(* main.py).  A tick is one transaction with the due rows locked; the      *)
(* instant it evaluates was read before.  A request refused for a stale    *)
(* version, an unknown row or an invalid expression changes nothing and is *)
(* left out.                                                               *)
(***************************************************************************)
EXTENDS Integers, FiniteSets, FiniteSetsExt

(***************************************************************************)
(* Cron evaluation in a time zone (shared_python/cron.py).  An instant and *)
(* a wall-clock time are minutes.  A zone is a record of its offset from   *)
(* UTC and of one change of that offset: from the instant `at' on, the     *)
(* wall clock is `by' further ahead (by > 0 is a gap in wall-clock time,   *)
(* by < 0 an overlap).  A cron expression is the set of the wall-clock     *)
(* times it matches.                                                       *)
(***************************************************************************)

\* The wall clock of a zone at an instant (astimezone).
Local(z, u) == u + z.offset + (IF u < z.at THEN 0 ELSE z.by)

\* The instant of a wall-clock time read with fold=0 (zoneinfo): the offset before the change
\* holds in an overlap and in a gap.
ToUTC(z, w) ==
  w - z.offset - (IF w < z.at + z.offset + (IF z.by > 0 THEN z.by ELSE 0) THEN 0 ELSE z.by)

_is_valid_local(w, z) == Local(z, ToUTC(z, w)) = w

\* With the mistake that a wall-clock time in a gap is taken as it is.
_resolve_local_Gap(w, z) == ToUTC(z, w)

\* The first valid wall-clock minute from w on, as an instant.
_resolve_local(w, z) ==
  ToUTC(z, Min({p \in w..(w + (IF z.by > 0 THEN z.by ELSE 0)) : _is_valid_local(p, z)}))

\* The loop over the matching times after the local start: the first whose instant is later.
next_occurrence(expr, z, after) ==
  _resolve_local(Min({w \in expr : w > Local(z, after) /\ _resolve_local(w, z) > after}), z)

latest_occurrence_at_or_before(expr, z, start, now) ==
  LET latest[t \in start..now] ==
        LET nxt == next_occurrence(expr, z, t) IN IF nxt > now THEN t ELSE latest[nxt]
  IN latest[start]

-----------------------------------------------------------------------------

CONSTANTS
  Procs,     \* scheduler processes
  Scheds,    \* schedules
  Specs,     \* records of an expression and a zone an edit may choose
  Policies,  \* among "fire_once" and "skip"
  Grace,     \* misfire_grace_seconds
  Limit,     \* the rows one tick takes
  Horizon,   \* the last instant of the model
  Edits,     \* bound on edits
  Faults     \* among "drop" (lock connection lost), "crash", "back" (clock set back),
             \* "agent" (installations disabled and enabled, uninstalled)

None == -1

VARIABLES
  now,     \* the clock
  d,       \* the rows: schedules, runs created (by schedule and occurrence), audit records
  inst,    \* the installation of the schedules: "ok", "off" or "deleted"
  lock,    \* the process that holds the advisory lock
  proc,    \* each process's leader loop: where it is, and the instant it read
  armed,   \* history: the instant from which a schedule owes its occurrences
  edits,   \* edits made
  faults   \* faults of this kind left

vars == <<now, d, inst, lock, proc, armed, edits, faults>>

Instants == 0..Horizon
NoRow == [live |-> FALSE, enabled |-> FALSE, next |-> None, spec |-> CHOOSE p \in Specs : TRUE, policy |-> "fire_once"]
Out == [pc |-> "out", now |-> 0]

Init ==
  /\ now = 0 /\ inst = "ok" /\ lock = "none" /\ edits = 0 /\ faults = Faults
  /\ d = [row |-> [s \in Scheds |-> NoRow],
          runs |-> [s \in Scheds |-> [o \in Instants |-> 0]], audit |-> {}]
  /\ proc = [p \in Procs |-> Out] /\ armed = [s \in Scheds |-> 0]

-----------------------------------------------------------------------------
(* The owner. *)

NextRun(enabled, spec) == IF enabled THEN next_occurrence(spec.cron, spec.zone, now) ELSE None
Owner(s, row) ==
  /\ edits < Edits /\ edits' = edits + 1
  /\ d' = [d EXCEPT !.row[s] = row] /\ armed' = [armed EXCEPT ![s] = now]

create_schedule(s) ==
  /\ d.row[s] = NoRow /\ inst # "deleted"
  /\ \E spec \in Specs, policy \in Policies :
       Owner(s, [live |-> TRUE, enabled |-> TRUE, next |-> NextRun(TRUE, spec), spec |-> spec,
                 policy |-> policy])
  /\ UNCHANGED <<now, inst, lock, proc, faults>>

\* With the mistake that only a new expression or enabling moves next_run_at.
update_schedule_ZoneKeeps(s) ==
  /\ d.row[s].live
  /\ \/ \E spec \in Specs \ {d.row[s].spec} : Owner(s, [d.row[s] EXCEPT !.spec = spec])
     \/ \E on \in BOOLEAN :
          Owner(s, [d.row[s] EXCEPT !.enabled = on, !.next = NextRun(on, d.row[s].spec)])
  /\ UNCHANGED <<now, inst, lock, proc, faults>>

\* A new expression or zone, or enabling and disabling: next_run_at is computed anew.
update_schedule(s) ==
  /\ d.row[s].live
  /\ \E spec \in Specs, on \in BOOLEAN :
       /\ spec # d.row[s].spec \/ on # d.row[s].enabled
       /\ Owner(s, [d.row[s] EXCEPT !.spec = spec, !.enabled = on, !.next = NextRun(on, spec)])
  /\ UNCHANGED <<now, inst, lock, proc, faults>>

delete_schedule(s) ==
  /\ d.row[s].live
  /\ Owner(s, [d.row[s] EXCEPT !.live = FALSE, !.enabled = FALSE, !.next = None])
  /\ UNCHANGED <<now, inst, lock, proc, faults>>

\* update_installation, as far as a schedule sees it.
update_installation ==
  /\ "agent" \in faults /\ inst # "deleted" /\ edits < Edits /\ edits' = edits + 1
  /\ inst' = IF inst = "ok" THEN "off" ELSE "ok"
  /\ UNCHANGED <<now, d, lock, proc, armed, faults>>

\* Uninstalling deletes the schedules too, but leaves their next_run_at.
delete_installation ==
  /\ "agent" \in faults /\ inst # "deleted" /\ inst' = "deleted"
  /\ edits < Edits /\ edits' = edits + 1
  /\ d' = [d EXCEPT !.row = [s \in Scheds |-> [d.row[s] EXCEPT !.live = FALSE, !.enabled = FALSE]]]
  /\ UNCHANGED <<now, lock, proc, armed, faults>>

-----------------------------------------------------------------------------
(* Evaluation. *)

\* With the mistake that the unique index on (schedule_id, scheduled_for) is missing.
create_run_NoIndex(e, s, o) == [e EXCEPT !.runs[s][o] = @ + 1]

\* ON CONFLICT DO NOTHING against the unique index on (schedule_id, scheduled_for).
create_run(e, s, o) == IF e.runs[s][o] > 0 THEN e ELSE [e EXCEPT !.runs[s][o] = @ + 1]

Audit(e, kind, s, from, through) == [e EXCEPT !.audit = @ \cup {<<kind, s, from, through>>}]

\* With the mistake that a skipped misfire returns before next_run_at moves.
_fire_SkipStays(e, s, n) ==
  LET r == e.row[s]  due == r.next  late == n - due > Grace
      for == IF late THEN latest_occurrence_at_or_before(r.spec.cron, r.spec.zone, due, n) ELSE due
      moved == [e EXCEPT !.row[s].next = next_occurrence(r.spec.cron, r.spec.zone, IF late THEN n ELSE for)]
  IN CASE late /\ r.policy = "skip" -> Audit(e, "misfire_skipped", s, due, for)
       [] inst # "ok" -> Audit(moved, "skipped", s, for, for)
       [] OTHER -> create_run(moved, s, for)


\* With the mistake that a misfire records the occurrence it fires only.
_fire_Unrecorded(e, s, n) ==
  LET r == e.row[s]  due == r.next  late == n - due > Grace
      for == IF late THEN latest_occurrence_at_or_before(r.spec.cron, r.spec.zone, due, n) ELSE due
      moved == [e EXCEPT !.row[s].next = next_occurrence(r.spec.cron, r.spec.zone, n)]
  IN IF late /\ r.policy = "skip" THEN Audit(moved, "misfire_skipped", s, due, for)
     ELSE create_run(moved, s, for)

\* One due schedule at the instant n.
_fire(e, s, n) ==
  LET r == e.row[s]
      due == r.next
      late == n - due > Grace
      for == IF late THEN latest_occurrence_at_or_before(r.spec.cron, r.spec.zone, due, n) ELSE due
      moved == [e EXCEPT !.row[s].next =
                  next_occurrence(r.spec.cron, r.spec.zone, IF late THEN n ELSE for)]
  IN CASE late /\ r.policy = "skip" -> Audit(moved, "misfire_skipped", s, due, for)
       [] inst # "ok" -> Audit(moved, "skipped", s, for, for)
       [] OTHER -> LET ran == create_run(moved, s, for)
                   IN IF late THEN Audit(ran, "misfire_fired_once", s, due, for) ELSE ran

\* The due schedules at the instant n, and the choices of Limit of them that are longest due.
Due(n) ==
  {s \in Scheds : d.row[s].live /\ d.row[s].enabled /\ d.row[s].next # None /\ d.row[s].next <= n}
Taken(n) ==
  {T \in kSubset(Min({Limit, Cardinality(Due(n))}), Due(n)) :
     \A s \in T, t \in Due(n) \ T : d.row[s].next <= d.row[t].next}

tick(n, T) == FoldSet(LAMBDA s, e : _fire(e, s, n), d, T)

-----------------------------------------------------------------------------
(* The leader. *)

Acquire(p) ==
  /\ proc[p].pc = "out" /\ lock = "none"
  /\ lock' = p /\ proc' = [proc EXCEPT ![p].pc = "clock"]
  /\ UNCHANGED <<now, d, inst, armed, edits, faults>>

ReadClock(p) ==
  /\ proc[p].pc = "clock" /\ proc' = [proc EXCEPT ![p] = [pc |-> "tick", now |-> now]]
  /\ UNCHANGED <<now, d, inst, lock, armed, edits, faults>>

Tick(p) ==
  /\ proc[p].pc = "tick" /\ \E T \in Taken(proc[p].now) : d' = tick(proc[p].now, T)
  /\ proc' = [proc EXCEPT ![p] = [pc |-> "ping", now |-> 0]]
  /\ UNCHANGED <<now, inst, lock, armed, edits, faults>>

\* "SELECT 1" on the lock's connection: a leader that lost it leaves _lead.
Ping(p) ==
  /\ proc[p].pc = "ping"
  /\ proc' = [proc EXCEPT ![p] = IF lock = p THEN [@ EXCEPT !.pc = "clock"] ELSE Out]
  /\ UNCHANGED <<now, d, inst, lock, armed, edits, faults>>

Advance ==
  /\ now < Horizon /\ now' = now + 1
  /\ UNCHANGED <<d, inst, lock, proc, armed, edits, faults>>

\* The database drops the lock's connection and the lock with it; the leader notices at its next ping.
Drop(p) ==
  /\ "drop" \in faults /\ lock = p /\ lock' = "none" /\ faults' = faults \ {"drop"}
  /\ UNCHANGED <<now, d, inst, proc, armed, edits>>

Crash(p) ==
  /\ "crash" \in faults /\ proc[p].pc # "out" /\ faults' = faults \ {"crash"}
  /\ proc' = [proc EXCEPT ![p] = Out] /\ lock' = IF lock = p THEN "none" ELSE lock
  /\ UNCHANGED <<now, d, inst, armed, edits>>

SetBack ==
  /\ "back" \in faults /\ now > 1 /\ now' = now - 2 /\ faults' = faults \ {"back"}
  /\ UNCHANGED <<d, inst, lock, proc, armed, edits>>

Lead(p) == Acquire(p) \/ ReadClock(p) \/ Tick(p) \/ Ping(p)

Next ==
  \/ \E s \in Scheds : create_schedule(s) \/ update_schedule(s) \/ delete_schedule(s)
  \/ update_installation \/ delete_installation \/ Advance \/ SetBack
  \/ \E p \in Procs : Lead(p) \/ Drop(p) \/ Crash(p)

Spec == Init /\ [][Next]_vars

-----------------------------------------------------------------------------
\* The occurrences by the rules at the head of cron.py: a time in a gap of the wall clock fires at
\* the first instant after it, a repeated one at its first instant.
Occurrences(spec) ==
  LET all == 0..(Horizon + 20)
      FiresAt(w) == LET same == {u \in all : Local(spec.zone, u) = w}
                    IN Min(IF same # {} THEN same ELSE {u \in all : Local(spec.zone, u) > w})
  IN {FiresAt(w) : w \in spec.cron} \cap Instants

\* An occurrence has one run at most, although two leaders may overlap after a lost connection and
\* the clock may be set back before an edit re-arms the schedule ("creates at most one run per
\* occurrence", scheduler.py).
OneRunPerOccurrence == \A s \in Scheds, o \in Instants : d.runs[s][o] <= 1

\* Every occurrence since the schedule was last armed and before the next one has a run, or lies
\* in a range that the audit log records as missed; crashes and changes of leader included
\* (_fire moves next_run_at in the transaction that makes the run).
NothingSilentlyMissed ==
  \A s \in Scheds : d.row[s].live /\ d.row[s].enabled =>
    \A o \in Occurrences(d.row[s].spec) : armed[s] < o /\ o < d.row[s].next =>
      \/ d.runs[s][o] > 0
      \/ \E a \in d.audit : a[2] = s /\ a[3] <= o /\ o <= a[4]

Started(s, o) == d'.runs[s][o] > d.runs[s][o]


\* A run is made within the grace of its occurrence, or its occurrence is the last that had
\* passed: downtime is not replayed ("Replay-all is not included", PLAN.md 7.1), and no run is early.
NoReplay ==
  \A s \in Scheds, o \in Instants, p \in Procs : Started(s, o) /\ proc[p].pc # proc'[p].pc =>
    LET n == proc[p].now
    IN /\ o <= n
       /\ n - o <= Grace \/ next_occurrence(d.row[s].spec.cron, d.row[s].spec.zone, o) > n

\* A schedule that is due does not stay due: some leader evaluates it, although a tick takes
\* Limit rows only (due rows are taken in the order of next_run_at).
IsDue(s) == d.row[s].live /\ d.row[s].enabled /\ d.row[s].next <= now
=============================================================================
