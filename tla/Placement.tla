----------------------------- MODULE Placement -----------------------------
(***************************************************************************)
(* The Controller's inventory of Agents and Peers and the placement of new *)
(* Peers (internal/controller/state.go, runner.go, create_retry.go,        *)
(* agent_capacity.go), against Agents that create Peers, lose responses,   *)
(* restart, and report through heartbeats and status snapshots that cross  *)
(* in flight.                                                              *)
(*                                                                         *)
(* A Peer occupies a slot of an Agent from its reservation, through the    *)
(* create request (whose answer may be lost), until the Agent reports it   *)
(* gone.  The Agent side is the external view of AgentAdmission: fences,   *)
(* one admission per node ID, refusal of requests for another instance.    *)
(***************************************************************************)
EXTENDS Integers, FiniteSets

CONSTANTS Agent, Node, NoAgent,
  Capacity,     \* of every Agent
  MaxReports,   \* bound: reports an Agent captures
  MaxInFlight,  \* bound: reports on the way
  MaxRestarts   \* bound: restarts of all Agents

VARIABLES
  \* Agents
  inst, peers, retired, fenced, clock, restarts,
  \* on the way: reports, create requests and their answers, confirmed
  \* stops of a run on an Agent and of single Peers
  net, wire, reply, stopAck, marks,
  \* Controller: state.agents, state.nodes, state.reservations,
  \* state.uncertainCreates, state.agentSnapshots, and the create calls
  agents, nodes, res, uncertain, snap, create, ended

agentVars == <<inst, peers, retired, fenced, clock, restarts>>
netVars == <<net, wire, reply, stopAck, marks>>
ctrlVars == <<agents, nodes, res, uncertain, snap, create, ended>>
vars == <<agentVars, netVars, ctrlVars>>

Occupying == {"live", "stopping", "leaked"}
Occupied(a) == Cardinality({n \in Node : peers[a][n] \in Occupying})

\* Node states: "leaked" is failed with its container still to be removed,
\* "failed" and "stopped" carry cleanupComplete, "inferred" is a stop that the
\* Controller derived from a full inventory or marked without that evidence.
NoNode == [st |-> "none", owner |-> NoAgent]
Final == {"inferred", "stopped", "failed"}
Departed == {"stopping", "leaked"} \cup Final

\* The bounds that are left may differ: an Agent that has no report left never
\* registers, and a Peer whose creation is done is not created.
Init ==
  /\ inst = [a \in Agent |-> 0]
  /\ peers = [a \in Agent |-> [n \in Node |-> "none"]]
  /\ retired = [a \in Agent |-> {}]
  /\ fenced = {}
  /\ clock \in [Agent -> 0..MaxReports]
  /\ restarts \in 0..MaxRestarts
  /\ net = {} /\ wire = {} /\ reply = [n \in Node |-> "none"] /\ stopAck = {}
  /\ marks = {}
  /\ agents = [a \in Agent |-> [known |-> FALSE, inst |-> 0, online |-> FALSE,
                                open |-> TRUE, active |-> 0]]
  /\ nodes = [n \in Node |-> NoNode]
  /\ res = [n \in Node |-> NoAgent]
  /\ uncertain = {}
  /\ snap = [a \in Agent |-> 0]
  /\ create \in [Node -> {[pc |-> p, agent |-> NoAgent, inst |-> 0, again |-> FALSE] : p \in {"idle", "done"}}]
  /\ ended = FALSE
-----------------------------------------------------------------------------
(***************************************************************************)
(* The Agent: create, exit, report, restart                                *)
(***************************************************************************)
\* admitNode: the request is for this instance, not fenced, there is room, and no
\* telemetry backlog defers the admission; a replay returns the same Peer.
AgentCreates(n, a, i, busy) ==
  /\ <<n, a, i>> \in wire
  /\ wire' = wire \ {<<n, a, i>>}
  /\ LET refused == i # inst[a] \/ a \in fenced
         full == Occupied(a) >= Capacity
         old == peers[a][n]
     IN  /\ peers' = IF refused \/ full \/ busy \/ old # "none" THEN peers
                     ELSE [peers EXCEPT ![a][n] = "live"]
         /\ reply' = [reply EXCEPT ![n] =
              IF create[n].pc # "sent" \/ create[n].agent # a \/ create[n].inst # i THEN @
              ELSE IF old # "none" /\ i = inst[a] THEN "created"
              ELSE IF refused THEN "refused" ELSE IF full THEN "full"
              ELSE IF busy THEN "busy" ELSE "created"]
  /\ UNCHANGED <<inst, retired, fenced, clock, restarts, net, stopAck, marks, ctrlVars>>

\* The answer is lost.
ReplyLost(n) ==
  /\ reply[n] # "none"
  /\ reply' = [reply EXCEPT ![n] = "none"]
  /\ UNCHANGED <<agentVars, net, wire, stopAck, marks, ctrlVars>>

\* finishProcess: a Peer exits by itself or because it was stopped.
PeerExits(a, n, outcome) ==
  /\ peers[a][n] \in {"live", "stopping"}
  /\ peers' = [peers EXCEPT ![a][n] = outcome]
  /\ UNCHANGED <<inst, retired, fenced, clock, restarts, netVars, ctrlVars>>

\* snapshot / snapshotWithHistory: a full status lists every process in memory,
\* a heartbeat batch any part of them and of the replayed history.
Report(a, full, S) ==
  /\ clock[a] < MaxReports
  /\ Cardinality(net) < MaxInFlight
  /\ S \subseteq {n \in Node : peers[a][n] # "none"}
  /\ full => S = {n \in Node : peers[a][n] # "none"} \ retired[a]
  /\ clock' = [clock EXCEPT ![a] = @ + 1]
  /\ net' = net \cup {[kind |-> IF full THEN "full" ELSE "partial", agent |-> a,
                       inst |-> inst[a], at |-> clock[a] + 1, active |-> Occupied(a),
                       nodes |-> [n \in S |-> peers[a][n]]]}
  /\ UNCHANGED <<inst, peers, retired, fenced, restarts, wire, reply, stopAck, marks, ctrlVars>>

Registers(a) ==
  /\ clock[a] < MaxReports
  /\ Cardinality(net) < MaxInFlight
  /\ clock' = [clock EXCEPT ![a] = @ + 1]
  /\ net' = net \cup {[kind |-> "register", agent |-> a, inst |-> inst[a],
                       at |-> clock[a] + 1, active |-> Occupied(a), nodes |-> [n \in {} |-> ""]]}
  /\ UNCHANGED <<inst, peers, retired, fenced, restarts, wire, reply, stopAck, marks, ctrlVars>>

\* reclaimHistory: a terminal Peer the Controller has acknowledged leaves memory.
Retires(a, n) ==
  /\ peers[a][n] \in {"stopped", "failed"} /\ n \notin retired[a]
  /\ nodes[n].st \in Final
  /\ retired' = [retired EXCEPT ![a] = @ \cup {n}]
  /\ UNCHANGED <<inst, peers, fenced, clock, restarts, netVars, ctrlVars>>

\* A new instance: containers are removed, memory is lost, the history stays.
\* An instance that never registered had no Peers; its restart is left out.
AgentRestarts(a) ==
  /\ agents[a].known /\ restarts < MaxRestarts
  /\ restarts' = restarts + 1
  /\ inst' = [inst EXCEPT ![a] = @ + 1]
  /\ peers' = [peers EXCEPT ![a] = [n \in Node |-> IF n \in retired[a] THEN @[n] ELSE "none"]]
  /\ fenced' = fenced \ {a}
  /\ UNCHANGED <<retired, clock, netVars, ctrlVars>>

ReportLost(m) ==
  /\ m \in net
  /\ net' = net \ {m}
  /\ UNCHANGED <<agentVars, wire, reply, stopAck, marks, ctrlVars>>
-----------------------------------------------------------------------------
(***************************************************************************)
(* registerAgent and heartbeat                                             *)
(***************************************************************************)
Reserved(r, a) == {n \in Node : r[n] = a}

Larger(x, y) == IF x > y THEN x ELSE y

Register(m) ==
  LET a == m.agent
      old == agents[a]
      restarted == old.known /\ m.inst # old.inst
      active == IF restarted THEN m.active
                ELSE IF old.known THEN Larger(m.active, old.active)
                ELSE m.active + Cardinality(Reserved(res, a))
  IN  /\ m \in net /\ m.kind = "register"
      /\ net' = net \ {m}
      /\ IF restarted /\ (m.inst < old.inst \/ old.online)
         THEN UNCHANGED <<agents, nodes, res, uncertain, snap>>
         ELSE /\ agents' = [agents EXCEPT ![a] = [known |-> TRUE, inst |-> m.inst, online |-> TRUE,
                                                  open |-> old.open, active |-> active]]
              /\ IF restarted
                 THEN /\ res' = [n \in Node |-> IF res[n] = a THEN NoAgent ELSE res[n]]
                      /\ uncertain' = uncertain \ Reserved(res, a)
                      /\ nodes' = [n \in Node |->
                           IF nodes[n].owner = a /\ nodes[n].st \in {"live", "stopping"}
                           THEN [nodes[n] EXCEPT !.st = "leaked"] ELSE nodes[n]]
                      /\ snap' = [snap EXCEPT ![a] = m.at]
                 ELSE /\ UNCHANGED <<nodes, res, uncertain>>
                      /\ snap' = [snap EXCEPT ![a] = Larger(@, m.at)]
      /\ UNCHANGED <<agentVars, wire, reply, stopAck, marks, create, ended>>

\* Mutant: a late report of a live Peer undoes a stop.
MergedLate(old, st) ==
  IF old \in {"failed", "stopped", "inferred"} /\ st \notin {"stopped", "failed"} THEN old ELSE st

\* The merge of a reported state with the recorded one: a departed Peer is
\* never revived, and confirmed outcomes are kept.
Merged(old, st) ==
  CASE old \in {"stopped"} /\ st # "stopped" -> old
    [] old = "inferred" /\ st \notin {"stopped", "failed"} -> old
    [] old = "failed" -> old
    [] old = "leaked" /\ st = "live" -> old
    [] old = "stopping" /\ st = "live" -> old
    [] OTHER -> st

\* Mutant: a full status is applied whatever its age.
IgnoredNever(m) == FALSE

\* A full status that is not newer than the last report is ignored.
Ignored(m) == m.kind = "full" /\ m.at <= snap[m.agent]

\* Mutant: an old batch may also bring live states.
ApplicableAll(m) == DOMAIN m.nodes

\* An older batch can still bring terminal records, nothing else.
Applicable(m) ==
  IF m.at < snap[m.agent] THEN {n \in DOMAIN m.nodes : m.nodes[n] \in {"stopped", "failed"}}
  ELSE DOMAIN m.nodes

\* max(reported, observed) plus the reservations that are still open.
OccupancyAfter(a, active, observed, r) == Larger(active, observed) + Cardinality(Reserved(r, a))

\* A full status ends the Peers it omits, unless their create is not yet reported.
Omitted(m, n, r) ==
  /\ n \notin DOMAIN m.nodes /\ nodes[n].owner = m.agent
  /\ nodes[n].st \notin {"stopped", "inferred", "failed"}
  /\ r[n] # m.agent

Heartbeat(m) ==
  LET a == m.agent
      old == agents[a]
      stale == m.at < snap[a]
      S == Applicable(m)
      foreign == \E n \in DOMAIN m.nodes :
                   nodes[n].owner \notin {a, NoAgent} \/ res[n] \notin {a, NoAgent}
      merged == [n \in Node |->
        IF n \in S THEN [st |-> Merged(nodes[n].st, m.nodes[n]), owner |-> a] ELSE nodes[n]]
      r == [n \in Node |-> IF n \in S /\ res[n] = a THEN NoAgent ELSE res[n]]
      released == Cardinality({n \in S : res[n] = a})
      observed == Cardinality({n \in IF m.kind = "full" THEN S
                                     ELSE {k \in Node : merged[k].owner = a /\ r[k] # a} :
                                 merged[n].st = "live"})
      accepted == /\ old.known /\ m.inst = old.inst
                  /\ ~Ignored(m) /\ ~foreign
  IN  /\ m \in net /\ m.kind # "register"
      /\ net' = net \ {m}
      /\ IF ~accepted
         THEN UNCHANGED <<agents, nodes, res, uncertain, snap>>
         ELSE /\ res' = r
              /\ uncertain' = {n \in uncertain : r[n] = res[n]}
              /\ nodes' = [n \in Node |->
                   IF m.kind = "full" /\ Omitted(m, n, r) THEN [merged[n] EXCEPT !.st = "inferred"]
                   ELSE merged[n]]
              /\ snap' = [snap EXCEPT ![a] = Larger(@, m.at)]
              /\ agents' = [agents EXCEPT ![a] =
                   IF stale THEN [old EXCEPT !.active = Larger(0, @ - released)]
                   ELSE [old EXCEPT !.online = TRUE,
                                    !.active = OccupancyAfter(a, m.active, observed, r)]]
      /\ UNCHANGED <<agentVars, wire, reply, stopAck, marks, create, ended>>

\* markStaleAgents, and the Dashboard's availability switch or an admission
\* deferral that closes and reopens the Agent for placement.
MarkStale(a) ==
  /\ agents[a].known /\ agents[a].online
  /\ agents' = [agents EXCEPT ![a].online = FALSE]
  /\ UNCHANGED <<agentVars, netVars, nodes, res, uncertain, snap, create, ended>>

SetOpen(a, open) ==
  /\ agents[a].known /\ agents[a].open # open
  /\ agents' = [agents EXCEPT ![a].open = open]
  /\ UNCHANGED <<agentVars, netVars, nodes, res, uncertain, snap, create, ended>>
-----------------------------------------------------------------------------
(***************************************************************************)
(* createReservedNode                                                      *)
(***************************************************************************)
Eligible(a) ==
  agents[a].known /\ agents[a].online /\ agents[a].open /\ agents[a].active < Capacity

\* tryReserveAgentWithPlacement: some Agent with room; which one is the
\* placement policy.
Reserve(n, a) ==
  /\ ~ended /\ create[n].pc = "idle" /\ res[n] = NoAgent
  /\ Eligible(a)
  /\ agents' = [agents EXCEPT ![a].active = @ + 1]
  /\ res' = [res EXCEPT ![n] = a]
  /\ create' = [create EXCEPT ![n] = [pc |-> "reserved", agent |-> a, inst |-> agents[a].inst,
                                             again |-> FALSE]]
  /\ UNCHANGED <<agentVars, netVars, nodes, uncertain, snap, ended>>

\* releaseReservation, of the Agents as
Released(n, as) ==
  /\ res' = [res EXCEPT ![n] = NoAgent]
  /\ agents' = IF res[n] = NoAgent THEN as
               ELSE [as EXCEPT ![res[n]].active = Larger(0, @ - 1)]

\* deferAgentAdmission, if the registered instance is still the one that answered.
Deferred(c) ==
  IF agents[c.agent].inst = c.inst THEN [agents EXCEPT ![c.agent].open = FALSE] ELSE agents

Available(n) ==
  LET c == create[n]
  IN  agents[c.agent].known /\ agents[c.agent].open /\ agents[c.agent].online
      /\ agents[c.agent].inst = c.inst

\* The reservation is rechecked before the request is sent.
Dispatch(n) ==
  /\ create[n].pc = "reserved"
  /\ IF Available(n)
     THEN /\ wire' = wire \cup {<<n, create[n].agent, create[n].inst>>}
          /\ create' = [create EXCEPT ![n].pc = "sent"]
          /\ UNCHANGED <<agents, res>>
     ELSE /\ Released(n, agents)
          /\ create' = [create EXCEPT ![n].pc = "idle"]
          /\ UNCHANGED wire
  /\ UNCHANGED <<agentVars, net, reply, stopAck, marks, nodes, uncertain, snap, ended>>

\* createOnAgent repeats an interrupted request on the same instance.
Resend(n) ==
  /\ create[n].pc = "sent" /\ reply[n] = "none"
  /\ agents[create[n].agent].inst = create[n].inst
  /\ wire' = wire \cup {<<n, create[n].agent, create[n].inst>>}
  /\ create' = [create EXCEPT ![n].again = TRUE]
  /\ UNCHANGED <<agentVars, net, reply, stopAck, marks, agents, nodes, res, uncertain, snap, ended>>

\* retainUncertainCreate: the slot is kept unless a heartbeat has taken it over.
RetainUncertain(n) ==
  /\ uncertain' = IF res[n] = create[n].agent THEN uncertain \cup {n} ELSE uncertain
  /\ UNCHANGED <<agents, res>>

\* The first answer, or "created": recordCreatedNode, a new placement (429 and
\* the deferral prove that nothing was created), or the end of the create.
CreateAnswered(n) ==
  LET c == create[n]
      again == reply[n] \in {"full", "busy"}
  IN  /\ c.pc = "sent" /\ reply[n] # "none"
      /\ reply' = [reply EXCEPT ![n] = "none"]
      /\ IF reply[n] = "created" /\ agents[c.agent].inst = c.inst
         THEN /\ create' = [create EXCEPT ![n].pc = "done"]
              /\ nodes' = IF nodes[n] = NoNode
                          THEN [nodes EXCEPT ![n] = [st |-> "live", owner |-> c.agent]]
                          ELSE nodes
              /\ UNCHANGED <<agents, res, uncertain>>
         ELSE /\ create' = [create EXCEPT ![n].pc = IF again /\ ~c.again THEN "idle" ELSE "done"]
              /\ IF c.again /\ reply[n] # "created" THEN RetainUncertain(n)
                 ELSE /\ Released(n, IF reply[n] = "busy" THEN Deferred(c) ELSE agents)
                      /\ UNCHANGED uncertain
              /\ UNCHANGED nodes
      /\ UNCHANGED <<agentVars, net, wire, stopAck, marks, snap, ended>>

\* The request was interrupted for good (or its answer proves nothing).
CreateUncertain(n) ==
  /\ create[n].pc = "sent"
  /\ reply' = [reply EXCEPT ![n] = "none"]
  /\ create' = [create EXCEPT ![n].pc = "done"]
  /\ RetainUncertain(n)
  /\ UNCHANGED <<agentVars, net, wire, stopAck, marks, nodes, snap, ended>>
-----------------------------------------------------------------------------
(***************************************************************************)
(* Stopping one Peer, and the run's generation                             *)
(***************************************************************************)
Stopping(st) == IF st \in {"live", "leaked"} THEN "stopping" ELSE st

\* stopNodesWithPolicy: DELETE of one live Peer; the Agent knows it.
StopNode(n) ==
  LET a == nodes[n].owner
  IN  /\ nodes[n].st = "live" /\ peers[a][n] # "none" /\ n \notin retired[a]
      /\ n \notin marks
      /\ peers' = [peers EXCEPT ![a][n] = Stopping(@)]
      /\ marks' = marks \cup {n}
      /\ UNCHANGED <<inst, retired, fenced, clock, restarts, net, wire, reply, stopAck, ctrlVars>>

\* markNodeStoppingAndReleaseCapacity: the record, not the occupancy, changes;
\* the slot is reused only after a report.
MarkStopping(S) ==
  /\ nodes' = [n \in Node |-> IF n \in S /\ nodes[n].st = "live"
                              THEN [nodes[n] EXCEPT !.st = "stopping"] ELSE nodes[n]]
  /\ res' = [n \in Node |-> IF n \in S THEN NoAgent ELSE res[n]]

\* The DELETE succeeded, and its answer arrives.
StopAnswered(n) ==
  /\ n \in marks
  /\ marks' = marks \ {n}
  /\ MarkStopping({n})
  /\ UNCHANGED <<agentVars, net, wire, reply, stopAck, agents, uncertain, snap, create, ended>>

\* The run ends: its creates have returned, and no further one is started.
EndRun ==
  /\ ~ended
  /\ \A n \in Node : create[n].pc \in {"idle", "done"}
  /\ ended' = TRUE
  /\ UNCHANGED <<agentVars, netVars, agents, nodes, res, uncertain, snap, create>>

\* The Agent fences the generation, stops its Peers, and answers when all are gone.
AgentFences(a) ==
  /\ ended /\ agents[a].known /\ a \notin fenced
  /\ fenced' = fenced \cup {a}
  /\ peers' = [peers EXCEPT ![a] = [n \in Node |-> Stopping(@[n])]]
  /\ UNCHANGED <<inst, retired, clock, restarts, netVars, ctrlVars>>

AgentConfirms(a) ==
  /\ a \in fenced \ stopAck /\ Occupied(a) = 0
  /\ stopAck' = stopAck \cup {a}
  /\ UNCHANGED <<agentVars, net, wire, reply, marks, ctrlVars>>

UncertainOf(a) == {n \in uncertain : create[n].agent = a}

\* stopRunGeneration, for one Agent that succeeded: mark its live Peers, then
\* releaseUncertainCreates.
StopConfirmed(a) ==
  LET S == {n \in Node : nodes[n] = [st |-> "live", owner |-> a]}
      U == {n \in UncertainOf(a) : n \notin S /\ res[n] = create[n].agent}
  IN  /\ a \in stopAck
      /\ stopAck' = stopAck \ {a}
      /\ nodes' = [n \in Node |-> IF n \in S THEN [nodes[n] EXCEPT !.st = "stopping"] ELSE nodes[n]]
      /\ res' = [n \in Node |-> IF n \in S \cup U THEN NoAgent ELSE res[n]]
      /\ agents' = [b \in Agent |->
           [agents[b] EXCEPT !.active = Larger(0, @ - Cardinality({n \in U : res[n] = b}))]]
      /\ uncertain' = uncertain \ UncertainOf(a)
      /\ UNCHANGED <<agentVars, net, wire, reply, marks, snap, create, ended>>
-----------------------------------------------------------------------------
Next ==
  \/ \E n \in Node, a \in Agent, i \in 0..MaxRestarts, busy \in BOOLEAN :
       AgentCreates(n, a, i, busy)
  \/ \E n \in Node : ReplyLost(n) \/ Dispatch(n) \/ Resend(n) \/ CreateAnswered(n) \/ CreateUncertain(n)
                    \/ StopNode(n) \/ StopAnswered(n)
  \/ \E a \in Agent, n \in Node :
       Retires(a, n) \/ Reserve(n, a)
       \/ \E outcome \in {"stopped", "failed", "leaked"} : PeerExits(a, n, outcome)
  \/ \E a \in Agent, full \in BOOLEAN, S \in SUBSET Node : Report(a, full, S)
  \/ \E a \in Agent : Registers(a) \/ AgentRestarts(a) \/ MarkStale(a) \/ SetOpen(a, TRUE) \/ SetOpen(a, FALSE)
                      \/ AgentFences(a) \/ AgentConfirms(a) \/ StopConfirmed(a)
  \/ \E m \in net : ReportLost(m) \/ Register(m) \/ Heartbeat(m)
  \/ EndRun

Spec == Init /\ [][Next]_vars
-----------------------------------------------------------------------------
\* The Controller's records have the shape of state.agents, state.nodes and
\* state.reservations.
TypeOK ==
  /\ agents \in [Agent -> [known : BOOLEAN, inst : Nat, online : BOOLEAN, open : BOOLEAN, active : Nat]]
  /\ nodes \in [Node -> [st : {"none", "live"} \cup Departed, owner : Agent \cup {NoAgent}]]
  /\ res \in [Node -> Agent \cup {NoAgent}]
  /\ uncertain \subseteq Node

\* "An interrupted POST may still create a Peer. Keep its slot until the Agent
\* reports that Peer or acknowledges the run fence" (create_retry.go:92): a Peer
\* that runs on the registered instance, or that a request on the way could still
\* start there, is known to the Controller by its reservation or its record.
PeersAccounted ==
  \A a \in Agent, n \in Node :
    /\ agents[a].known /\ agents[a].inst = inst[a]
    /\ \/ peers[a][n] = "live"
       \/ <<n, a, inst[a]>> \in wire /\ a \notin fenced /\ peers[a][n] = "none"
    => res[n] = a \/ (nodes[n].owner = a /\ nodes[n].st \notin Final)

\* "ActiveNodes also includes reservations and containers still being removed"
\* (runner.go:990): the occupancy that placement compares with the capacity
\* covers every reservation and every live Peer on record, however reports,
\* registrations, lost answers and stops interleave.
OccupancyCovers ==
  \A a \in Agent : agents[a].known =>
    agents[a].active >= Cardinality(Reserved(res, a))
                        + Cardinality({n \in Node : nodes[n] = [st |-> "live", owner |-> a]
                                                    /\ res[n] # a})

\* "Node IDs are never reused. Completed exits cannot be revived by a late
\* report" (state.go:289): a Peer on record never returns to a live state, and
\* a confirmed outcome never changes.
NoRevival ==
  \A n \in Node : /\ nodes[n].st \in Departed => nodes'[n].st \in Departed
                  /\ nodes[n].st \in {"stopped", "failed"} => nodes'[n].st = nodes[n].st

\* A slot is reserved at most on one Agent, and a Peer runs on at most one: the
\* create request is placed again only if the first Agent has not created it.
OnePlacement ==
  \A n \in Node, a, b \in Agent :
    a # b => ~(peers[a][n] = "live" /\ peers[b][n] = "live")

\* Records are well formed, no Peer runs on two Agents, and none is forgotten.
PlacementConsistent == TypeOK /\ OnePlacement /\ PeersAccounted
=============================================================================
