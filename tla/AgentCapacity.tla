---------------------------- MODULE AgentCapacity ---------------------------
(***************************************************************************)
(* Editing the capacity of an Agent (internal/controller/                  *)
(* agent_capacity.go).  The Controller owns the desired value and hands it *)
(* out in the headers of the answers to registrations and heartbeats; the  *)
(* Agent enforces it, and acknowledges it by its revision in the next      *)
(* report.  Reports may be late, so an old one can cross several edits.    *)
(*                                                                         *)
(* One Agent.  The Agent sends one report at a time (heartbeatMu); one it  *)
(* has given up may still arrive.  A Controller that restarts loses its    *)
(* connections, its inventory and the revisions, but not the overrides.    *)
(* Revisions are drawn from a counter: only their equality is used.        *)
(***************************************************************************)
EXTENDS Naturals

CONSTANTS
  Capacity,       \* the values a user may set
  Default,        \* the CLI default of the Agent
  MaxRevisions, MaxStarts, MaxReports   \* bounds: revisions, Agent starts, reports of one instance

\* Capacities are positive.
CapacityConstants == Capacity \subseteq Nat \ {0} /\ Default \in Nat \ {0}

VARIABLES
  override,    \* agentCapacityOverrides: 0 is none (durable)
  revision,    \* agentCapacityRevisions: 0 is none
  revisions,   \* revisions ever drawn
  stored,      \* the Agent in the inventory
  reported,    \* agentReportedCapacities
  latest,      \* agentSnapshots
  agent,       \* the Agent: started, capacityLimit, capacityRevision, reports sent
  waiting,     \* the report the Agent waits for, 0 if none
  net,         \* reports under way
  answers      \* answers to reports, with the headers

vars == <<override, revision, revisions, stored, reported, latest, agent, waiting, net, answers>>

Unknown == [started |-> 0, capacity |-> 0, revision |-> 0, pending |-> FALSE]

Desired == IF override > 0 THEN override ELSE Default
CapacityLocked == IF agent.limit > 0 THEN agent.limit ELSE Default

Lower(a, b) == IF a < b THEN a ELSE b

Init ==
  /\ override = 0 /\ revision = 0 /\ revisions = 0
  /\ stored = Unknown /\ reported = 0 /\ latest = 0
  /\ agent = [started |-> 1, limit |-> 0, revision |-> 0, sent |-> 0]
  /\ waiting = 0 /\ net = {} /\ answers = {}
-----------------------------------------------------------------------------
\* Mutant: a matching number is taken for an acknowledgment.
ApplyByNumber(report, cap, rev, desired) ==
  LET pending == cap # desired
      limit == IF cap <= 0 \/ desired < cap THEN desired ELSE cap
  IN  [started |-> report.started, revision |-> report.revision, pending |-> pending,
       capacity |-> IF pending /\ stored.capacity > 0 THEN Lower(limit, stored.capacity) ELSE limit]

\* applyAgentCapacityLocked: reductions limit placement immediately, increases
\* wait for the acknowledgment of the current revision.
Apply(report, cap, rev, desired) ==
  LET pending == cap # desired \/ report.revision # rev
      limit == IF cap <= 0 \/ desired < cap THEN desired ELSE cap
  IN  [started |-> report.started, revision |-> report.revision, pending |-> pending,
       capacity |-> IF pending /\ stored.capacity > 0 THEN Lower(limit, stored.capacity) ELSE limit]

\* setAgentCapacity: durable first, then a new revision.
SetCapacity(value) ==
  /\ stored # Unknown /\ revisions < MaxRevisions
  /\ override' = value
  /\ revision' = revisions + 1 /\ revisions' = revisions + 1
  /\ stored' = Apply(stored, reported, revision', IF value > 0 THEN value ELSE Default)
  /\ UNCHANGED <<reported, latest, agent, waiting, net, answers>>

\* register, or a heartbeat
Report(kind) ==
  /\ waiting = 0 /\ agent.sent < MaxReports
  /\ agent' = [agent EXCEPT !.sent = @ + 1]
  /\ waiting' = agent.sent + 1
  /\ net' = net \cup {[kind |-> kind, started |-> agent.started, at |-> agent.sent + 1,
                       capacity |-> CapacityLocked, revision |-> agent.revision]}
  /\ UNCHANGED <<override, revision, revisions, stored, reported, latest, answers>>

\* The Agent gives up; the report may still arrive.
GiveUp ==
  /\ waiting # 0 /\ waiting' = 0
  /\ UNCHANGED <<override, revision, revisions, stored, reported, latest, agent, net, answers>>

\* registerAgent, or the state of a heartbeat: an instance is replaced by a newer
\* one only, a heartbeat of another instance or an older one than the last is not
\* applied.
Accepted(m) ==
  IF m.kind = "register" THEN m.started >= stored.started
  ELSE m.started = stored.started /\ m.at > latest

\* observeAgentCapacityLocked
Observe(m) ==
  /\ m \in net /\ Accepted(m)
  /\ revision # 0 \/ revisions < MaxRevisions
  /\ revision' = IF revision = 0 THEN revisions + 1 ELSE revision
  /\ revisions' = IF revision = 0 THEN revisions + 1 ELSE revisions
  /\ reported' = m.capacity
  /\ stored' = Apply(m, m.capacity, revision', Desired)
  /\ latest' = IF m.started # stored.started \/ m.at > latest THEN m.at ELSE latest
  /\ net' = net \ {m}
  /\ answers' = answers \cup {[started |-> m.started, at |-> m.at, done |-> FALSE, limit |-> 0, revision |-> 0]}
  /\ UNCHANGED <<override, agent, waiting>>

\* writeAgentCapacityHeader: under a lock of its own, after the merge.
WriteHeader(a) ==
  /\ a \in answers /\ ~a.done
  /\ answers' = (answers \ {a}) \cup {[a EXCEPT !.done = TRUE, !.limit = Desired, !.revision = revision]}
  /\ UNCHANGED <<override, revision, revisions, stored, reported, latest, agent, waiting, net>>

\* Refused, or lost.
Drop(m) ==
  /\ m \in net /\ net' = net \ {m}
  /\ UNCHANGED <<override, revision, revisions, stored, reported, latest, agent, waiting, answers>>

\* postData: the headers of an answer that is still awaited.
Receive(a) ==
  /\ a \in answers /\ a.done
  /\ IF a.started = agent.started /\ a.at = waiting
     THEN agent' = [agent EXCEPT !.limit = a.limit, !.revision = a.revision] /\ waiting' = 0
     ELSE UNCHANGED <<agent, waiting>>
  /\ answers' = answers \ {a}
  /\ UNCHANGED <<override, revision, revisions, stored, reported, latest, net>>

RestartAgent ==
  /\ agent.started < MaxStarts
  /\ agent' = [started |-> agent.started + 1, limit |-> 0, revision |-> 0, sent |-> 0]
  /\ waiting' = 0
  /\ UNCHANGED <<override, revision, revisions, stored, reported, latest, net, answers>>

\* newState: the overrides are loaded, the rest is observed again.
RestartController ==
  /\ stored # Unknown
  /\ revision' = 0 /\ stored' = Unknown /\ reported' = 0 /\ latest' = 0 /\ net' = {} /\ answers' = {}
  /\ UNCHANGED <<override, revisions, agent, waiting>>

Next ==
  \/ \E v \in Capacity \cup {0} : SetCapacity(v)
  \/ \E k \in {"register", "heartbeat"} : Report(k)
  \/ GiveUp \/ RestartAgent \/ RestartController
  \/ \E m \in net : Observe(m) \/ Drop(m)
  \/ \E a \in answers : WriteHeader(a) \/ Receive(a)

Spec == Init /\ [][Next]_vars
-----------------------------------------------------------------------------
\* The inventory and the Agent have their types.
TypeOK ==
  /\ stored.capacity \in Capacity \cup {0, Default} /\ stored.pending \in BOOLEAN
  /\ override \in Capacity \cup {0} /\ CapacityLocked \in Capacity \cup {Default}
  /\ revision <= revisions /\ agent.revision <= revisions

\* "Only acknowledgment of the current revision may raise the last safe placement
\* limit" (agent_capacity.go:72): whatever edits, late reports, lost answers and
\* restarts do, the limit the Controller places by never exceeds the one which the
\* registered instance enforces.
LimitIsEnforced ==
  stored.started = agent.started => stored.capacity <= CapacityLocked

\* An Agent that is not pending enforces what the user has set.
SettledIsDesired ==
  stored # Unknown /\ ~stored.pending =>
    /\ stored.capacity = Desired
    /\ stored.started = agent.started => CapacityLocked = Desired

\* The setting is well formed, placement stays within the enforced limit, and a
\* settled setting is the one enforced.
CapacityIsEnforced == TypeOK /\ LimitIsEnforced /\ SettledIsDesired
=============================================================================
