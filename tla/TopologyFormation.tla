-------------------------- MODULE TopologyFormation --------------------------
(***************************************************************************)
(* Topology and mesh-freeze phases: the Controller selects a cohort, plans  *)
(* one undirected mesh, lets every Peer prepare it and then apply it        *)
(* (internal/controller/topology_formation.go, topology_dispatch.go,        *)
(* mesh_freeze.go); the Agents proxy the commands and check the incarnation *)
(* twice (internal/agent/topology_command.go, mesh_freeze.go); the Peers    *)
(* connect, install and freeze their mesh (internal/peer/topology.go,       *)
(* topology_connect.go, mesh_freeze.go) with the operations of the patched  *)
(* GossipSub router (third_party/go-libp2p-pubsub/mesh_plan.go).            *)
(*                                                                          *)
(* A plan is a function from its targets to their neighbours; the plan's    *)
(* identity is a digest of exactly this.  The phases of a run follow one    *)
(* another, but Peers leave at any time, a timed-out command goes on at its *)
(* Peer, and a repeated prepare may overtake it.                            *)
(***************************************************************************)
EXTENDS Naturals, FiniteSets

CONSTANTS Peer,         \* the nodes of the run
          Graphs,       \* the plans that may be generated
          Groups,       \* the cohorts a mesh-freeze phase may select
          Attempts,     \* topologyPrepareAttempts
          MaxPhases,    \* bound on the phases of the run
          MaxFaults     \* bound on failures, timeouts and departures

ASSUME FormationConstants ==
  /\ Groups \subseteq SUBSET Peer
  /\ \A plan \in Graphs : DOMAIN plan \subseteq Peer /\ plan \in [DOMAIN plan -> SUBSET Peer]
  /\ {Attempts, MaxPhases, MaxFaults} \subseteq Nat

VARIABLES ctl,      \* the phase in progress
          node,     \* the Controller's view of every node
          agent,    \* the Agent's process record of every node
          peer,     \* the Peers
          links,    \* connected pairs with the topic subscribed
          cmds,     \* commands on their way to a Peer or executed there
          answers,  \* answers on their way back
          faults,
          history   \* who prepared what, which phases succeeded

vars == <<ctl, node, agent, peer, links, cmds, answers, faults, history>>

None == <<>>
Idle == [stage |-> "idle", plan |-> None, targets |-> {},
         try |-> [n \in Peer |-> 0], acked |-> {}]
NewPeer == [mesh |-> {}, frozen |-> FALSE, prepared |-> None, applied |-> FALSE,
            recorded |-> FALSE, events |-> 0]

Init ==
  /\ ctl = Idle
  /\ node = [n \in Peer |-> "starting"]
  /\ agent = [n \in Peer |-> [ready |-> FALSE, gone |-> FALSE, frozen |-> FALSE]]
  /\ peer = [n \in Peer |-> NewPeer]
  /\ links = {} /\ cmds = {} /\ answers = {}
  /\ faults = 0
  /\ history = [prepared |-> {}, formed |-> {}, phases |-> 0]

Fault == faults < MaxFaults /\ faults' = faults + 1

-----------------------------------------------------------------------------
(* The nodes come and go *)

PeerReady(n) ==
  /\ node[n] = "starting"
  /\ node' = [node EXCEPT ![n] = "ready"]
  /\ agent' = [agent EXCEPT ![n].ready = TRUE]
  /\ UNCHANGED <<ctl, peer, links, cmds, answers, faults, history>>

\* A background leave phase, or the end of a lifetime.
Leave(n) ==
  /\ node[n] = "ready" /\ Fault
  /\ node' = [node EXCEPT ![n] = "gone"]
  /\ UNCHANGED <<ctl, agent, peer, links, cmds, answers, history>>

\* The process exits: after a leave, after the run failed, or by itself
\* before any report tells the Controller.
PeerExits(n) ==
  /\ agent[n].ready
  /\ IF node[n] = "gone" \/ ctl.stage = "failed" THEN UNCHANGED faults ELSE Fault
  /\ agent' = [agent EXCEPT ![n] = [ready |-> FALSE, gone |-> TRUE, frozen |-> FALSE]]
  /\ peer' = [peer EXCEPT ![n] = NewPeer]
  /\ links' = {l \in links : n \notin l}
  /\ cmds' = {c \in cmds : c.n # n}
  /\ UNCHANGED <<ctl, node, answers, history>>

-----------------------------------------------------------------------------
(* The router of a Peer *)

\* Discovery connects two Peers.
Discover(n, m) ==
  /\ n # m /\ agent[n].ready /\ agent[m].ready /\ {n, m} \notin links
  /\ links' = links \union {{n, m}}
  /\ UNCHANGED <<ctl, node, agent, peer, cmds, answers, faults, history>>

Disconnect(l) ==
  /\ Fault
  /\ links' = links \ {l}
  /\ UNCHANGED <<ctl, node, agent, peer, cmds, answers, history>>

\* GRAFT and PRUNE move a link in and out of the mesh of an unfrozen Peer.
Graft(n, m) ==
  /\ {n, m} \in links /\ n # m /\ ~peer[n].frozen
  /\ peer' = [peer EXCEPT ![n].mesh = IF m \in @ THEN @ \ {m} ELSE @ \union {m}]
  /\ UNCHANGED <<ctl, node, agent, links, cmds, answers, faults, history>>

\* Mutant: a frozen mesh accepts any plan.
InstallableFrozen(n, plan) == peer[n].frozen \/ \A m \in plan[n] : {n, m} \in links

\* validateMeshPlan: a frozen mesh accepts only itself, an unfrozen one needs
\* every neighbour connected and subscribed.
Installable(n, plan) ==
  IF peer[n].frozen THEN peer[n].mesh = plan[n]
  ELSE \A m \in plan[n] : {n, m} \in links

\* SetMeshAndFreeze on a plan that can be installed.
Installed(n, plan) ==
  IF peer[n].frozen THEN peer[n] ELSE [peer[n] EXCEPT !.mesh = plan[n], !.frozen = TRUE]

-----------------------------------------------------------------------------
(* The Controller *)

Active(G) == {n \in G : node[n] # "gone"}

\* meshFreezeTargets and topologyTargets: every active node of the cohort must
\* be ready, or the phase fails before anything was sent.
Selectable(G) == Active(G) # {} /\ \A n \in Active(G) : node[n] = "ready"

Phase(stage, plan, T) ==
  /\ ctl.stage = "idle" /\ history.phases < MaxPhases
  /\ ctl' = [Idle EXCEPT !.stage = stage, !.plan = plan, !.targets = T]
  /\ history' = [history EXCEPT !.phases = @ + 1]
  /\ UNCHANGED <<node, agent, peer, links, cmds, answers, faults>>

RunMeshFreeze(G) == Selectable(G) /\ Phase("freeze", None, Active(G))

\* runTopology: the plan is generated over exactly the selected nodes.
RunTopology(plan) ==
  \E G \in Groups :
    /\ Selectable(G) /\ Active(G) = DOMAIN plan
    /\ Phase("prepare", plan, DOMAIN plan)

\* A cohort that is not ready, or is empty, fails the phase and the run.
SelectionFails(G) ==
  /\ ctl.stage = "idle" /\ history.phases < MaxPhases /\ ~Selectable(G)
  /\ ctl' = [Idle EXCEPT !.stage = "failed"]
  /\ UNCHANGED <<node, agent, peer, links, cmds, answers, faults, history>>

\* currentTopologyAgent, and the Agent's validateMeshFreezeTargetLocked.
Current(n) == node[n] = "ready"
TargetReady(n) == agent[n].ready

\* One more command: a first one, or the next attempt of a failed prepare.
Dispatch(n) ==
  /\ ctl.stage \in {"freeze", "prepare", "apply"}
  /\ n \in ctl.targets \ ctl.acked /\ ctl.try[n] = 0
  /\ Current(n) /\ TargetReady(n)
  /\ ctl' = [ctl EXCEPT !.try[n] = 1]
  /\ cmds' = cmds \union {[n |-> n, stage |-> ctl.stage, plan |-> ctl.plan,
                           try |-> 1, live |-> TRUE, at |-> "queued"]}
  /\ UNCHANGED <<node, agent, peer, links, answers, faults, history>>

\* The first failure cancels the other operations and fails the phase, and
\* with it the run; commands already at a Peer may still be executed.
Failed ==
  /\ ctl' = [Idle EXCEPT !.stage = "failed"]
  /\ cmds' = {[c EXCEPT !.live = FALSE] : c \in cmds}
  /\ answers' = {}

Working == ctl.stage \notin {"idle", "failed"}

\* A target left, the phase timed out, or an event could not be stored.
PhaseFails ==
  /\ Working
  /\ IF \E n \in ctl.targets : ~Current(n) THEN UNCHANGED faults ELSE Fault
  /\ Failed
  /\ UNCHANGED <<node, agent, peer, links, history>>

StageDone ==
  /\ Working /\ ctl.acked = ctl.targets
  /\ ctl' = IF ctl.stage = "prepare"
              THEN [Idle EXCEPT !.stage = "apply", !.plan = ctl.plan,
                                !.targets = ctl.targets]
              ELSE Idle
  /\ history' = IF ctl.stage = "apply"
                  THEN [history EXCEPT !.formed = @ \union {ctl.plan}] ELSE history
  /\ UNCHANGED <<node, agent, peer, links, cmds, answers, faults>>

Awaited(m) == Working /\ ctl.stage = m.stage /\ ctl.try[m.n] = m.try

\* retryTopologyPrepare: only a prepare is repeated, after a transport error,
\* 503 or 504.
Retryable(m) == m.stage = "prepare" /\ m.try < Attempts

\* The answer to m is an error, or is lost.  Nobody waits for it any more:
\* the context of the command at the Peer ends some time later.
CommandFails(m, transient, rest) ==
  IF ~m.live THEN cmds' = rest /\ UNCHANGED <<ctl, answers>>
  ELSE IF transient /\ Retryable(m) /\ Current(m.n) /\ TargetReady(m.n)
    THEN /\ ctl' = [ctl EXCEPT !.try[m.n] = @ + 1]
         /\ cmds' = rest \union {[n |-> m.n, stage |-> "prepare", plan |-> ctl.plan,
                                  try |-> m.try + 1, live |-> TRUE, at |-> "queued"]}
         /\ answers' = {a \in answers : a.n # m.n}
    ELSE /\ ctl' = [Idle EXCEPT !.stage = "failed"]
         /\ cmds' = {[c EXCEPT !.live = FALSE] : c \in rest}
         /\ answers' = {}

\* A request or its answer is lost, or a hop times out.
Lost(c) ==
  /\ c.live /\ Fault
  /\ CommandFails(c, TRUE, (cmds \ {c}) \union {[c EXCEPT !.live = FALSE]})
  /\ UNCHANGED <<node, agent, peer, links, history>>

\* The Agent accepts an answer only for the process it asked, and records a
\* frozen mesh; the Controller counts it while the node is still current.
AgentAnswers(a) ==
  /\ IF a.ok /\ TargetReady(a.n)
       THEN /\ agent' = [agent EXCEPT ![a.n].frozen = @ \/ a.frozen]
            /\ IF Awaited(a) /\ Current(a.n)
                 THEN /\ ctl' = [ctl EXCEPT !.acked = @ \union {a.n}]
                      /\ answers' = answers \ {a} /\ UNCHANGED cmds
                 ELSE IF Awaited(a) THEN Failed
                 ELSE answers' = answers \ {a} /\ UNCHANGED <<ctl, cmds>>
       ELSE /\ UNCHANGED agent
            /\ IF Awaited(a) THEN Failed
               ELSE answers' = answers \ {a} /\ UNCHANGED <<ctl, cmds>>
  /\ UNCHANGED <<node, peer, links, faults, history>>

-----------------------------------------------------------------------------
(* The Peer *)

Answer(c, ok, frozen) ==
  /\ cmds' = cmds \ {c}
  /\ answers' = IF c.live THEN answers \union {[n |-> c.n, stage |-> c.stage,
                                 try |-> c.try, ok |-> ok, frozen |-> frozen]}
                ELSE answers

\* recordMeshFrozen
Recorded(p) == [p EXCEPT !.recorded = TRUE]

\* recordTopologyApplied, once for the plan
Applied(p) == IF p.applied THEN Recorded(p)
              ELSE [Recorded(p) EXCEPT !.applied = TRUE, !.events = @ + 1]

\* The mesh-freeze command pins the present mesh.
Freeze(c) ==
  /\ c.stage = "freeze"
  /\ peer' = [peer EXCEPT ![c.n] = Recorded([@ EXCEPT !.frozen = TRUE])]
  /\ Answer(c, TRUE, TRUE)
  /\ UNCHANGED <<ctl, node, agent, links, faults, history>>

\* publicationGate: one topology command at a time.
GateFree(n) == \A c \in cmds : c.n = n => c.at = "queued"

\* Another plan, when this one is applied.  (The identity of a plan is its
\* digest, so one identity never stands for two plans.)
Conflicts(c) ==
  LET p == peer[c.n] IN p.prepared # None /\ p.prepared # c.plan /\ p.applied

Refuse(c) ==
  /\ c.stage # "freeze" /\ c.at = "queued" /\ GateFree(c.n)
  /\ \/ Conflicts(c)
     \/ c.stage = "apply" /\ (peer[c.n].prepared # c.plan \/ ~Installable(c.n, c.plan))
  /\ Answer(c, FALSE, FALSE)
  /\ UNCHANGED <<ctl, node, agent, peer, links, faults, history>>

\* A prepare forgets the previous plan first, unless that one is applied.
BeginPrepare(c) ==
  /\ c.stage = "prepare" /\ c.at = "queued" /\ GateFree(c.n) /\ ~Conflicts(c)
  /\ peer' = [peer EXCEPT ![c.n].prepared = IF peer[c.n].applied THEN @ ELSE None]
  /\ cmds' = (cmds \ {c}) \union {[c EXCEPT !.at = "connecting"]}
  /\ UNCHANGED <<ctl, node, agent, links, answers, faults, history>>

\* connectTopologyPeers, one neighbour at a time, with retries.
Connect(c, m) ==
  /\ c.at = "connecting" /\ ~peer[c.n].frozen
  /\ m \in c.plan[c.n] /\ agent[m].ready /\ {c.n, m} \notin links
  /\ links' = links \union {{c.n, m}}
  /\ UNCHANGED <<ctl, node, agent, peer, cmds, answers, faults, history>>

\* waitTopologyReady, and the plan becomes eligible for apply.
Prepared(c) ==
  /\ c.at = "connecting" /\ Installable(c.n, c.plan)
  /\ peer' = [peer EXCEPT ![c.n].prepared = IF peer[c.n].applied THEN @ ELSE c.plan]
  /\ history' = [history EXCEPT !.prepared = @ \union {<<c.n, c.plan>>}]
  /\ Answer(c, TRUE, peer[c.n].frozen)
  /\ UNCHANGED <<ctl, node, agent, links, faults>>

\* The prepare ends without a plan: a permanent dial error or a conflict of
\* the frozen mesh (not repeated), a deadline (504), or a canceled request.
PrepareFails(c) ==
  /\ c.at = "connecting"
  /\ \/ /\ peer[c.n].frozen /\ ~Installable(c.n, c.plan) /\ UNCHANGED faults
        /\ CommandFails(c, FALSE, cmds \ {c})
     \/ /\ c.live /\ Fault
        /\ \E transient \in BOOLEAN : CommandFails(c, transient, cmds \ {c})
     \/ /\ ~c.live /\ UNCHANGED faults
        /\ CommandFails(c, FALSE, cmds \ {c})
  /\ UNCHANGED <<node, agent, peer, links, history>>

Apply(c) ==
  /\ c.stage = "apply" /\ GateFree(c.n)
  /\ peer[c.n].prepared = c.plan /\ Installable(c.n, c.plan)
  /\ peer' = [peer EXCEPT ![c.n] = Applied(Installed(c.n, c.plan))]
  /\ Answer(c, TRUE, TRUE)
  /\ UNCHANGED <<ctl, node, agent, links, faults, history>>

\* recoverTopologyApplication: a canceled apply is recorded only when the
\* mesh is frozen and is the planned one.
Recovered(p, n, plan) == IF p.frozen /\ p.mesh = plan[n] THEN Applied(p) ELSE p

\* The request is canceled while the event loop may or may not have installed
\* the mesh; the recovery itself may time out.
ApplyCanceled(c) ==
  /\ c.stage = "apply" /\ GateFree(c.n) /\ peer[c.n].prepared = c.plan
  /\ IF c.live THEN Fault ELSE UNCHANGED faults
  /\ \E p \in {peer[c.n]} \union
              (IF Installable(c.n, c.plan) THEN {Installed(c.n, c.plan)} ELSE {}) :
       peer' \in {[peer EXCEPT ![c.n] = q] : q \in {p, Recovered(p, c.n, c.plan)}}
  /\ CommandFails(c, FALSE, cmds \ {c})
  /\ UNCHANGED <<node, agent, links, history>>

\* A command whose caller hung up before the Peer looked at it.
Drop(c) ==
  /\ ~c.live /\ c.at = "queued"
  /\ cmds' = cmds \ {c}
  /\ UNCHANGED <<ctl, node, agent, peer, links, answers, faults, history>>

\* observeMeshFreezeStatus: a status report of a frozen Peer.
Status(n) ==
  /\ agent[n].ready /\ peer[n].frozen /\ ~agent[n].frozen
  /\ peer' = [peer EXCEPT ![n] = Recorded(@)]
  /\ agent' = [agent EXCEPT ![n].frozen = TRUE]
  /\ UNCHANGED <<ctl, node, links, cmds, answers, faults, history>>

-----------------------------------------------------------------------------

Next ==
  \/ \E n \in Peer : PeerReady(n) \/ Leave(n) \/ PeerExits(n) \/ Dispatch(n) \/ Status(n)
  \/ \E n, m \in Peer : Discover(n, m) \/ Graft(n, m)
  \/ \E l \in links : Disconnect(l)
  \/ \E G \in Groups : RunMeshFreeze(G) \/ SelectionFails(G)
  \/ \E plan \in Graphs : RunTopology(plan)
  \/ PhaseFails \/ StageDone
  \/ \E a \in answers : AgentAnswers(a)
  \/ \E c \in cmds :
       \/ Lost(c) \/ Freeze(c) \/ Refuse(c) \/ BeginPrepare(c) \/ Prepared(c)
       \/ PrepareFails(c) \/ Apply(c) \/ ApplyCanceled(c) \/ Drop(c)
       \/ \E m \in Peer : Connect(c, m)

Spec == Init /\ [][Next]_vars

-----------------------------------------------------------------------------
(* Properties *)

Alive(n) == agent[n].ready

\* A topology phase that succeeded has formed its mesh: from then on every
\* target that is still running has exactly its planned neighbours, so the
\* links of the mesh are mutual, whatever later phases, late commands, GRAFT
\* and PRUNE do.  And no Peer records a plan as applied before all of its
\* targets had prepared it: "Complete every connection preflight before
\* installing any mesh."
MeshIsPlanned ==
  /\ \A plan \in history.formed : \A n \in DOMAIN plan : Alive(n) =>
       peer[n].frozen /\ peer[n].mesh = plan[n]
  /\ \A n \in Peer : peer[n].applied =>
       \A m \in DOMAIN peer[n].prepared : <<m, peer[n].prepared>> \in history.prepared

\* What is recorded of a Peer is true: a mesh that the Peer or its Agent
\* reports frozen is frozen, a plan recorded as applied (also by the recovery
\* of a canceled request) is the mesh in force, and it is recorded once.
FrozenRecords ==
  \A n \in Peer :
    /\ agent[n].frozen \/ peer[n].recorded => peer[n].frozen
    /\ peer[n].applied => peer[n].frozen /\ peer[n].mesh = peer[n].prepared[n]
    /\ peer[n].events <= 1

\* A formed mesh is the planned one, and its records are true.
MeshIsSound == MeshIsPlanned /\ FrozenRecords
=============================================================================
