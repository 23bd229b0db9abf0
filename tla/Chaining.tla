------------------------------ MODULE Chaining ------------------------------
(***************************************************************************)
(* Agents that start agents (control_api/chaining.py).  A call names the   *)
(* agent to start and a key; the SDK resends it until it hears an answer,  *)
(* and a new attempt of the run makes the same calls again.  The control   *)
(* API handles a call in one transaction that locks the calling run.       *)
(***************************************************************************)
EXTENDS Naturals, FiniteSets, Sequences

CONSTANTS
  Agents,      \* agent ids
  Starts,      \* [Agents -> SUBSET Agents]: the starts the owner approved
  Ready,       \* agents with an installation that is enabled, ready and accepts the trigger
  StartKeys,   \* start keys
  MaxDepth,    \* agent_chain_max_depth
  StartsPerRun, \* agent_starts_per_run
  MaxAttempt,  \* bound on attempts of a run
  MaxRoots,    \* bound on runs that no agent started
  MaxRuns,     \* bound on runs
  MaxWire      \* bound on calls on their way

ChainNone == 0

VARIABLES
  runs,  \* the rows of agent_runs, by number: agent, parent, start key, state, attempt
  wire,  \* calls on their way; a call stays as long as the SDK may resend it
  told   \* history: the answers each run's agents were given, by run, agent and key

chainVars == <<runs, wire, told>>

Run(agent, parent, key) ==
  [agent |-> agent, parent |-> parent, key |-> key, state |-> "QUEUED", attempt |-> 1]
Ids == DOMAIN runs

ChainInit == runs = <<>> /\ wire = {} /\ told = {}

-----------------------------------------------------------------------------
(* The platform around it: runs begin, are dispatched, end, are retried. *)

create_run(agent) ==
  /\ Len(runs) < MaxRuns /\ Cardinality({r \in Ids : runs[r].parent = ChainNone}) < MaxRoots
  /\ runs' = Append(runs, Run(agent, ChainNone, "none"))
  /\ UNCHANGED <<wire, told>>

ChainMove(r, from, to) == runs[r].state \in from /\ runs' = [runs EXCEPT ![r].state = to]

Dispatch(r) == ChainMove(r, {"QUEUED"}, "RUNNING") /\ UNCHANGED <<wire, told>>
End(r) == ChainMove(r, {"RUNNING"}, "FAILED") /\ UNCHANGED <<wire, told>>
ChainCancel(r) == ChainMove(r, {"QUEUED", "RUNNING"}, "CANCELLED") /\ UNCHANGED <<wire, told>>

retry(r) ==
  /\ runs[r].state = "FAILED" /\ runs[r].attempt < MaxAttempt
  /\ runs' = [runs EXCEPT ![r].state = "QUEUED", ![r].attempt = @ + 1]
  /\ UNCHANGED <<wire, told>>

\* The agent of the current attempt calls ctx.agents.start; the broker's check of the
\* capability agents.start:<id> comes first.
ChainCall(r, agent, key) ==
  /\ runs[r].state = "RUNNING" /\ agent \in Starts[runs[r].agent] /\ Cardinality(wire) < MaxWire
  /\ wire' = wire \cup {[run |-> r, attempt |-> runs[r].attempt, agent |-> agent, key |-> key]}
  /\ UNCHANGED <<runs, told>>

Drop(c) == wire' = wire \ {c} /\ UNCHANGED <<runs, told>>

-----------------------------------------------------------------------------
(* start_agent_run. *)

\* With the mistake that the walk stops at the run that started this one.
_ancestors_Parent(r) ==
  {runs[r].agent} \cup (IF runs[r].parent = ChainNone THEN {} ELSE {runs[runs[r].parent].agent})

\* The runs from r up to the one that was not started by an agent.
Chain(r) ==
  LET up[q \in Ids] == IF runs[q].parent = ChainNone THEN {q} ELSE {q} \cup up[runs[q].parent]
  IN up[r]
_ancestors(r) == {runs[q].agent : q \in Chain(r)}

Children(r) == {q \in Ids : runs[q].parent = r}

\* The checks of a call that starts a run, in the code's order; the first that fails refuses it.
\* With the mistake that the depth is that of the caller.
Allowed_Deeper(c) ==
  /\ c.agent \in Starts[runs[c.run].agent] /\ c.agent \notin _ancestors(c.run)
  /\ Cardinality(Chain(c.run)) - 1 <= MaxDepth
  /\ Cardinality(Children(c.run)) < StartsPerRun /\ c.agent \in Ready

\* With the mistake of an inclusive bound on the runs started.
Allowed_OneMore(c) ==
  /\ c.agent \in Starts[runs[c.run].agent] /\ c.agent \notin _ancestors(c.run)
  /\ Cardinality(Chain(c.run)) <= MaxDepth
  /\ Cardinality(Children(c.run)) <= StartsPerRun /\ c.agent \in Ready

Allowed(c) ==
  /\ c.agent \in Starts[runs[c.run].agent]
  /\ c.agent \notin _ancestors(c.run)
  /\ Cardinality(Chain(c.run)) <= MaxDepth
  /\ Cardinality(Children(c.run)) < StartsPerRun
  /\ c.agent \in Ready

ChainAnswer(c, child) == told' = told \cup {<<c.run, c.agent, c.key, child>>}

\* With the mistake that the key is looked up among the starts of this agent that still go on.
start_agent_run_Finished(c) ==
  /\ runs[c.run].attempt = c.attempt /\ runs[c.run].state = "RUNNING"
  /\ LET replay == {q \in Children(c.run) : runs[q].key = c.key /\ runs[q].state # "FAILED"}
     IN IF replay # {}
        THEN (\E q \in replay : runs[q].agent = c.agent /\ ChainAnswer(c, q)) /\ UNCHANGED runs
        ELSE /\ Allowed(c) /\ Len(runs) < MaxRuns
             /\ runs' = Append(runs, Run(c.agent, c.run, c.key)) /\ ChainAnswer(c, Len(runs) + 1)
  /\ UNCHANGED wire

\* A stale attempt, a run that ended or is being cancelled, and a key used for another agent are
\* refused; a key that has started a run returns it; otherwise a run is created.
start_agent_run(c) ==
  /\ runs[c.run].attempt = c.attempt /\ runs[c.run].state = "RUNNING"
  /\ LET replay == {q \in Children(c.run) : runs[q].key = c.key}
     IN IF replay # {}
        THEN (\E q \in replay : runs[q].agent = c.agent /\ ChainAnswer(c, q)) /\ UNCHANGED runs
        ELSE /\ Allowed(c) /\ Len(runs) < MaxRuns
             /\ runs' = Append(runs, Run(c.agent, c.run, c.key)) /\ ChainAnswer(c, Len(runs) + 1)
  /\ UNCHANGED wire

-----------------------------------------------------------------------------
ChainNext ==
  \/ \E a \in Agents : create_run(a)
  \/ \E r \in Ids : \/ Dispatch(r) \/ End(r) \/ ChainCancel(r) \/ retry(r)
                    \/ \E a \in Agents, k \in StartKeys : ChainCall(r, a, k)
  \/ \E c \in wire : Drop(c) \/ start_agent_run(c)

ChainSpec == ChainInit /\ [][ChainNext]_chainVars

-----------------------------------------------------------------------------
\* "a chain never revisits an agent, so A -> B -> A is refused" (chaining.py): along any chain of
\* starts, however the runs were retried, every agent appears once.
NoAgentTwice ==
  \A r \in Ids : \A p, q \in Chain(r) : p # q => runs[p].agent # runs[q].agent

\* "A manual run is depth 0; its child is 1. Deeper starts are refused" (agent-chaining.md), at
\* the limit itself too.
DepthBounded == \A r \in Ids : Cardinality(Chain(r)) <= MaxDepth + 1

\* One run starts at most PerRun runs in all its attempts together (agent_starts_per_run).
StartsBounded == \A r \in Ids : Cardinality(Children(r)) <= StartsPerRun

\* A key names one started run for good: whatever was lost, resent or called again by a later
\* attempt, all calls with it are answered with the same run ("so a retry or restarted attempt
\* starts it once").
KeyNamesOneRun ==
  \A x, y \in told : x[1] = y[1] /\ x[3] = y[3] => x[2] = y[2] /\ x[4] = y[4]
=============================================================================
