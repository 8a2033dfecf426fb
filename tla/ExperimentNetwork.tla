-------------------------- MODULE ExperimentNetwork --------------------------
(***************************************************************************)
(* The fresh overlay network of every experiment attempt: the Controller's *)
(* preparation (internal/controller/experiment_network.go), the Agents'    *)
(* fence and activation (internal/agent/experiment_network.go) and the     *)
(* network-manager (internal/experimentnet), with the Peers of the runs.   *)
(*                                                                         *)
(* An attempt is named by its epoch, a number that also orders RequestedAt *)
(* and names the run.  Calls may be served after the caller gave up.  The  *)
(* Swarm manager's list of networks lags behind removals and creations.    *)
(* Agents and the network-manager restart; the manager keeps its files.    *)
(***************************************************************************)
EXTENDS Naturals, FiniteSets, FiniteSetsExt

CONSTANTS
  Agent,
  MaxAttempts,   \* bound: preparations
  MaxNets,       \* bound: networks ever made
  MaxFaults,     \* bound: failing commands and waits that time out
  MaxRestarts    \* bound: restarts of Agents and of the network-manager

VARIABLES
  ctl,       \* the Controller's attempt: number, phase, what it waits for
  runNet,    \* the PeerNetworkID of each run, 0 before it is prepared
  calls,     \* calls on their way
  ag,        \* each Agent: incarnation, network request, active network
  peer,      \* the Peer of a run on an Agent
  mgr,       \* the preparation holding the manager's mutex
  file,      \* request.json, active.json, allocation.json
  net,       \* Docker networks: those that exist, the lag of the list, their epochs
  gw,        \* the network the gateway container is attached to, 0 without gateway
  faults, restarts

vars == <<ctl, runNet, calls, ag, peer, mgr, file, net, gw, faults, restarts>>

Attempt == 1..MaxAttempts
None == 0
Foreign == MaxAttempts + 1   \* the epoch of a network somebody else made
NoPeer == [st |-> "none", net |-> 0]
Idle == [pc |-> "idle", k |-> 0, old |-> 0, id |-> 0]

Init ==
  /\ ctl = [k |-> 0, phase |-> "idle", await |-> {}, id |-> 0, inc |-> [a \in Agent |-> 0]]
  /\ runNet = [k \in Attempt |-> 0] /\ calls = {}
  /\ ag = [a \in Agent |-> [inc |-> 0, req |-> 0, run |-> 0, net |-> 0, busy |-> 0]]
  /\ peer = [a \in Agent |-> [k \in Attempt |-> NoPeer]]
  /\ mgr = Idle
  /\ file = [req |-> 0, act |-> <<0, 0>>, alloc |-> FALSE]
  /\ net = [live |-> {1}, ghost |-> {}, hidden |-> {}, epoch |-> <<0>>]
  /\ gw = 0 /\ faults = 0 /\ restarts = 0

Fault == faults < MaxFaults /\ faults' = faults + 1
Send(msgs) == calls' = calls \cup msgs
-----------------------------------------------------------------------------
(***************************************************************************)
(* Controller: prepareExperimentNetwork                                    *)
(***************************************************************************)
\* The fence goes to every registered Agent, disabled ones included.
Begin ==
  /\ ctl.phase \in {"idle", "failed", "ended"} /\ ctl.k < MaxAttempts
  /\ ctl' = [k |-> ctl.k + 1, phase |-> "fencing", await |-> Agent, id |-> 0,
            inc |-> [a \in Agent |-> ag[a].inc]]
  /\ Send({[op |-> "fence", a |-> a, k |-> ctl.k + 1, id |-> 0] : a \in Agent})
  /\ UNCHANGED <<runNet, ag, peer, mgr, file, net, gw, faults, restarts>>

\* The answer of agent a to a call of attempt k reaches the Controller.
Answered(a, k, phase) == ctl.k = k /\ ctl.phase = phase /\ a \in ctl.await
Refuse(k) == ctl' = IF ctl.k = k /\ ctl.phase \in {"fencing", "preparing", "activating"}
                    THEN [ctl EXCEPT !.phase = "failed"] ELSE ctl
Accept(a, k, phase) == ctl' = IF Answered(a, k, phase) THEN [ctl EXCEPT !.await = @ \ {a}] ELSE ctl

Prepare ==
  /\ ctl.phase = "fencing" /\ ctl.await = {}
  /\ ctl' = [ctl EXCEPT !.phase = "preparing"]
  /\ Send({[op |-> "prepare", a |-> None, k |-> ctl.k, id |-> 0]})
  /\ UNCHANGED <<runNet, ag, peer, mgr, file, net, gw, faults, restarts>>

Activated ==
  /\ ctl.phase = "activating" /\ ctl.await = {}
  /\ ctl' = [ctl EXCEPT !.phase = "ready"]
  /\ runNet' = [runNet EXCEPT ![ctl.k] = ctl.id]
  /\ UNCHANGED <<calls, ag, peer, mgr, file, net, gw, faults, restarts>>

\* A call times out or the run is canceled; the calls it made may still be served.
GiveUp ==
  /\ ctl.phase \in {"fencing", "preparing", "activating"} /\ Fault
  /\ ctl' = [ctl EXCEPT !.phase = "failed"]
  /\ UNCHANGED <<runNet, calls, ag, peer, mgr, file, net, gw, restarts>>

EndRun ==
  /\ ctl.phase = "ready" /\ ctl' = [ctl EXCEPT !.phase = "ended"]
  /\ UNCHANGED <<runNet, calls, ag, peer, mgr, file, net, gw, faults, restarts>>
-----------------------------------------------------------------------------
(***************************************************************************)
(* Agents                                                                  *)
(***************************************************************************)
Unfinished(a) == {k \in Attempt : peer[a][k].st \in {"admitted", "created", "up"}}
Containers(a) == {k \in Attempt : peer[a][k].st \in {"created", "up", "left"}}

\* fenceExperimentNetwork: not stale, and every Peer's removal is finished.
Fenceable(a, k) == ag[a].req <= k /\ Unfinished(a) = {}

FenceAgent(m) ==
  /\ m \in calls /\ m.op = "fence" /\ ag[m.a].busy = 0 /\ Fenceable(m.a, m.k)
  /\ calls' = calls \ {m}
  /\ ag' = [ag EXCEPT ![m.a].req = m.k, ![m.a].run = 0, ![m.a].net = 0, ![m.a].busy = m.k]
  /\ UNCHANGED <<ctl, runNet, peer, mgr, file, net, gw, faults, restarts>>

\* Then Docker's inventory is asked, which also sees what an interrupted create left.
FenceInventory(a) ==
  LET k == ag[a].busy IN
  /\ k # 0
  /\ IF Containers(a) = {} THEN Accept(a, k, "fencing") ELSE Refuse(k)
  /\ ag' = [ag EXCEPT ![a].busy = 0]
  /\ UNCHANGED <<runNet, calls, peer, mgr, file, net, gw, faults, restarts>>

\* networkMu is taken, the request is stale, or Peers are left.
RefuseFence(m) ==
  /\ m \in calls /\ m.op = "fence" /\ (ag[m.a].busy # 0 \/ ~Fenceable(m.a, m.k))
  /\ calls' = calls \ {m} /\ Refuse(m.k)
  /\ UNCHANGED <<runNet, ag, peer, mgr, file, net, gw, faults, restarts>>

\* activateExperimentNetwork: only the preparation that fenced the Agent last.
Activatable(a, k) == ag[a].req = k

ActivateAgent(m) ==
  /\ m \in calls /\ m.op = "activate" /\ ag[m.a].busy = 0
  /\ Activatable(m.a, m.k) /\ gw # 0
  /\ calls' = calls \ {m}
  /\ ag' = [ag EXCEPT ![m.a].run = m.k, ![m.a].net = m.id]
  /\ Accept(m.a, m.k, "activating")
  /\ UNCHANGED <<runNet, peer, mgr, file, net, gw, faults, restarts>>

\* Superseded, without gateway, or known to the Controller to have restarted.
RefuseActivate(m) ==
  /\ m \in calls /\ m.op = "activate"
  /\ \/ ag[m.a].busy # 0 \/ ~Activatable(m.a, m.k) \/ gw = 0
     \/ m.k = ctl.k /\ ag[m.a].inc # ctl.inc[m.a]
  /\ calls' = calls \ {m} /\ Refuse(m.k)
  /\ UNCHANGED <<runNet, ag, peer, mgr, file, net, gw, faults, restarts>>

\* A Peer of run k is admitted if the Agent's network was prepared for that run.
Admit(a, k) ==
  /\ runNet[k] # 0 /\ peer[a][k] = NoPeer
  /\ ag[a].run = k /\ ag[a].net = runNet[k]
  /\ peer' = [peer EXCEPT ![a][k] = [st |-> "admitted", net |-> runNet[k]]]
  /\ UNCHANGED <<ctl, runNet, calls, ag, mgr, file, net, gw, faults, restarts>>

\* createWithAdmission: docker create binds the network's ID, docker start attaches.
CreateContainer(a, k) ==
  /\ peer[a][k].st \in {"admitted", "orphan"}
  /\ peer' = [peer EXCEPT ![a][k].st = IF @ = "admitted" THEN "created" ELSE "left"]
  /\ UNCHANGED <<ctl, runNet, calls, ag, mgr, file, net, gw, faults, restarts>>

StartContainer(a, k) ==
  /\ peer[a][k].st = "created"
  /\ peer' = [peer EXCEPT ![a][k] = IF @.net \in net.live THEN [@ EXCEPT !.st = "up"] ELSE [@ EXCEPT !.st = "gone"]]
  /\ UNCHANGED <<ctl, runNet, calls, ag, mgr, file, net, gw, faults, restarts>>

RemovePeer(a, k) ==
  /\ peer[a][k].st \in {"admitted", "created", "up"}
  /\ peer' = [peer EXCEPT ![a][k].st = "gone"]
  /\ UNCHANGED <<ctl, runNet, calls, ag, mgr, file, net, gw, faults, restarts>>

\* An Agent forgets its network; it removes the containers it finds before it serves
\* again, but a create in flight may still be carried out.
RestartAgent(a) ==
  /\ restarts < MaxRestarts /\ restarts' = restarts + 1
  /\ ag' = [ag EXCEPT ![a] = [inc |-> @.inc + 1, req |-> 0, run |-> 0, net |-> 0, busy |-> 0]]
  /\ peer' = [peer EXCEPT ![a] = [k \in Attempt |->
                IF @[k].st = "admitted" THEN [@[k] EXCEPT !.st = "orphan"]
                ELSE IF @[k].st \in {"created", "up", "left"} THEN [@[k] EXCEPT !.st = "gone"] ELSE @[k]]]
  /\ UNCHANGED <<ctl, runNet, calls, mgr, file, net, gw, faults>>
-----------------------------------------------------------------------------
(***************************************************************************)
(* network-manager                                                         *)
(***************************************************************************)
\* networkIDs: what the list may show while the Swarm converges.
Views == {v \in SUBSET (net.live \cup net.ghost) : net.live \ net.hidden \subseteq v}
Ours(id) == id \in net.live /\ net.epoch[id] # Foreign
Attached(id) == \E a \in Agent, k \in Attempt : peer[a][k].st = "up" /\ peer[a][k].net = id

AbortPrepare == mgr' = Idle /\ Refuse(mgr.k)

NotStale(k) == k >= file.req

\* The request is persisted before anything changes.
PrepareCall(m) ==
  /\ m \in calls /\ m.op = "prepare"
  /\ IF mgr.pc = "idle" /\ NotStale(m.k)
     THEN /\ mgr' = [Idle EXCEPT !.pc = "inspect", !.k = m.k]
          /\ file' = [file EXCEPT !.req = m.k]
          /\ UNCHANGED <<calls, ctl>>
     ELSE /\ calls' = calls \ {m} /\ Refuse(m.k) /\ UNCHANGED <<mgr, file>>
  /\ UNCHANGED <<runNet, ag, peer, net, gw, faults, restarts>>

\* The network found, and the allocation a new one must have.
Allocation == [file EXCEPT !.alloc = TRUE]

Inspect(v) ==
  /\ mgr.pc = "inspect" /\ v \in Views
  /\ \/ \E id \in v :
          /\ v = {id} /\ Ours(id)
          /\ IF net.epoch[id] = mgr.k
             THEN /\ UNCHANGED file
                  /\ IF file.act = <<mgr.k, id>> /\ gw = id
                     THEN mgr' = [mgr EXCEPT !.pc = "done", !.id = id] /\ UNCHANGED ctl
                     ELSE AbortPrepare
             ELSE /\ file' = Allocation
                  /\ mgr' = [mgr EXCEPT !.pc = "gateway", !.old = id] /\ UNCHANGED ctl
     \/ v = {} /\ file.alloc /\ mgr' = [mgr EXCEPT !.pc = "gateway"] /\ UNCHANGED <<file, ctl>>
     \/ /\ (v = {} /\ ~file.alloc) \/ Cardinality(v) > 1 \/ (\E id \in v : ~Ours(id))
        /\ AbortPrepare /\ UNCHANGED file
  /\ UNCHANGED <<runNet, calls, ag, peer, net, gw, faults, restarts>>

RemoveGateway ==
  /\ mgr.pc = "gateway" /\ gw' = 0
  /\ mgr' = [mgr EXCEPT !.pc = IF mgr.old = 0 THEN "removed" ELSE "remove"]
  /\ UNCHANGED <<ctl, runNet, calls, ag, peer, file, net, faults, restarts>>

\* unusedNetwork looks for endpoints on its own host, and Docker refuses to
\* remove a network that has any.
RemoveNetwork ==
  /\ mgr.pc = "remove"
  /\ IF mgr.old \in net.live /\ ~Attached(mgr.old)
     THEN /\ net' = [net EXCEPT !.live = @ \ {mgr.old}, !.ghost = @ \cup {mgr.old}, !.hidden = @ \ {mgr.old}]
          /\ mgr' = [mgr EXCEPT !.pc = "removed"] /\ UNCHANGED ctl
     ELSE AbortPrepare /\ UNCHANGED net
  /\ UNCHANGED <<runNet, calls, ag, peer, file, gw, faults, restarts>>

\* waitNetworkRemoved: seen gone, or replaced by something else.
WaitRemoved(v) ==
  /\ mgr.pc = "removed" /\ v \in Views /\ v # {mgr.old}
  /\ IF v = {} THEN mgr' = [mgr EXCEPT !.pc = "create"] /\ UNCHANGED ctl ELSE AbortPrepare
  /\ UNCHANGED <<runNet, calls, ag, peer, file, net, gw, faults, restarts>>

\* docker network create makes a network unless the name is taken, or seems to be.
NewId == Cardinality({i \in 1..MaxNets : i \in DOMAIN net.epoch}) + 1
WithNet(e) == [net EXCEPT !.live = @ \cup {NewId}, !.hidden = @ \cup {NewId},
                          !.epoch = [i \in DOMAIN @ \cup {NewId} |-> IF i = NewId THEN e ELSE @[i]]]
CreateNetwork ==
  /\ mgr.pc = "create"
  /\ \/ /\ net.live = {} /\ NewId <= MaxNets /\ net' = WithNet(mgr.k)
        /\ \/ mgr' = [mgr EXCEPT !.pc = "fresh", !.id = NewId] /\ UNCHANGED faults
           \/ mgr' = [mgr EXCEPT !.pc = "reconcile"] /\ Fault
     \/ net.live \cup net.ghost # {} /\ mgr' = [mgr EXCEPT !.pc = "taken"] /\ UNCHANGED <<net, faults>>
     \/ mgr' = [mgr EXCEPT !.pc = "reconcile"] /\ Fault /\ UNCHANGED net
  /\ UNCHANGED <<ctl, runNet, calls, ag, peer, file, gw, restarts>>

\* Mutant: whatever network is found after an unclear answer is adopted.
FreshAny(id) == id \in net.live
\* verifyFreshNetwork: owner, epoch, and not the old identity.
Fresh(id) == id \in net.live /\ id # mgr.old /\ net.epoch[id] = mgr.k

\* The answer was an error: a network that is ours and fresh is adopted.
Reconcile(v) ==
  /\ mgr.pc \in {"reconcile", "taken"} /\ v \in Views
  /\ IF v = {} \/ v = {mgr.old}
     THEN IF mgr.pc = "taken" THEN mgr' = [mgr EXCEPT !.pc = "removed"] /\ UNCHANGED ctl ELSE AbortPrepare
     ELSE IF \E id \in v : v = {id} /\ Fresh(id) /\ ~Attached(id)
          THEN mgr' = [mgr EXCEPT !.pc = "attach", !.id = CHOOSE id \in v : TRUE] /\ UNCHANGED ctl
          ELSE AbortPrepare
  /\ UNCHANGED <<runNet, calls, ag, peer, file, net, gw, faults, restarts>>

\* waitFreshNetwork: the new network alone, or an unexpected one.
WaitFresh(v) ==
  /\ mgr.pc = "fresh" /\ v \in Views
  /\ \/ v = {mgr.id} /\ Fresh(mgr.id) /\ mgr' = [mgr EXCEPT !.pc = "attach"] /\ UNCHANGED ctl
     \/ ~(v \subseteq {mgr.id, mgr.old}) /\ AbortPrepare
  /\ UNCHANGED <<runNet, calls, ag, peer, file, net, gw, faults, restarts>>

\* createGateway; an attempt that fails half way may leave a container behind.
CreateGateway ==
  /\ mgr.pc = "attach"
  /\ IF mgr.id \in net.live
     THEN \/ gw' = mgr.id /\ mgr' = [mgr EXCEPT !.pc = "active"] /\ UNCHANGED <<ctl, faults>>
          \/ gw' \in {0, mgr.id} /\ AbortPrepare /\ Fault
     ELSE AbortPrepare /\ UNCHANGED <<gw, faults>>
  /\ UNCHANGED <<runNet, calls, ag, peer, file, net, restarts>>

SaveActive ==
  /\ mgr.pc = "active"
  /\ \/ file' = [file EXCEPT !.act = <<mgr.k, mgr.id>>] /\ mgr' = [mgr EXCEPT !.pc = "done"] /\ UNCHANGED <<ctl, faults>>
     \/ AbortPrepare /\ Fault /\ UNCHANGED file
  /\ UNCHANGED <<runNet, calls, ag, peer, net, gw, restarts>>

\* The answer: the Controller activates the network on every Agent.
Reply ==
  /\ mgr.pc = "done"
  /\ mgr' = Idle
  /\ calls' = {m \in calls : ~(m.op = "prepare" /\ m.k = mgr.k)} \cup
              (IF ctl.k = mgr.k /\ ctl.phase = "preparing"
               THEN {[op |-> "activate", a |-> a, k |-> mgr.k, id |-> mgr.id] : a \in Agent} ELSE {})
  /\ ctl' = IF ctl.k = mgr.k /\ ctl.phase = "preparing"
            THEN [ctl EXCEPT !.phase = "activating", !.await = Agent, !.id = mgr.id] ELSE ctl
  /\ UNCHANGED <<runNet, ag, peer, file, net, gw, faults, restarts>>

\* A command fails, or a wait reaches its deadline.
ManagerFails ==
  /\ mgr.pc \notin {"idle", "done"} /\ Fault /\ AbortPrepare
  /\ UNCHANGED <<runNet, calls, ag, peer, file, net, gw, restarts>>

RestartManager ==
  /\ mgr.pc # "idle" /\ restarts < MaxRestarts /\ restarts' = restarts + 1 /\ AbortPrepare
  /\ UNCHANGED <<runNet, calls, ag, peer, file, net, gw, faults>>

\* The Swarm converges; somebody else makes a network of the same name.
Converge ==
  /\ net.ghost \cup net.hidden # {}
  /\ \E g \in SUBSET net.ghost, h \in SUBSET net.hidden : net' = [net EXCEPT !.ghost = g, !.hidden = h]
  /\ UNCHANGED <<ctl, runNet, calls, ag, peer, mgr, file, gw, faults, restarts>>

ForeignNetwork ==
  /\ net.live = {} /\ NewId <= MaxNets /\ net' = WithNet(Foreign) /\ Fault
  /\ UNCHANGED <<ctl, runNet, calls, ag, peer, mgr, file, gw, restarts>>

Manager ==
  \/ RemoveGateway \/ RemoveNetwork \/ CreateNetwork \/ CreateGateway \/ SaveActive \/ Reply \/ ManagerFails
  \/ RestartManager \/ Converge \/ ForeignNetwork
  \/ \E v \in SUBSET DOMAIN net.epoch : Inspect(v) \/ WaitRemoved(v) \/ Reconcile(v) \/ WaitFresh(v)

Next ==
  \/ Begin \/ Prepare \/ Activated \/ GiveUp \/ EndRun \/ Manager
  \/ \E m \in calls : FenceAgent(m) \/ RefuseFence(m) \/ ActivateAgent(m) \/ RefuseActivate(m) \/ PrepareCall(m)
  \/ \E a \in Agent : FenceInventory(a) \/ RestartAgent(a)
  \/ \E a \in Agent, k \in Attempt :
       Admit(a, k) \/ CreateContainer(a, k) \/ StartContainer(a, k) \/ RemovePeer(a, k)

Spec == Init /\ [][Next]_vars
-----------------------------------------------------------------------------
(* Runs never share a network: a Peer runs on the network that was made for its
   run, and once an attempt is ready only its own Peers are running. *)
PeerIsolation ==
  \A a \in Agent, k \in Attempt : peer[a][k].st = "up" =>
    /\ peer[a][k].net \in net.live /\ net.epoch[peer[a][k].net] = k
    /\ ctl.phase = "ready" => k = ctl.k

(* An attempt the Controller takes as prepared is: its network exists with its
   gateway, and every Agent that has not restarted accepts its Peers and no others. *)
ReadyIsReal ==
  ctl.phase = "ready" =>
    /\ runNet[ctl.k] \in net.live /\ net.epoch[runNet[ctl.k]] = ctl.k /\ gw = runNet[ctl.k]
    /\ \A a \in Agent : ag[a].inc = ctl.inc[a] => ag[a].run = ctl.k /\ ag[a].net = runNet[ctl.k]

(* A reset interrupted anywhere can be repeated: while the network is missing its
   allocation is on disk, and a newer request is never undone by an older one. *)
ResetRecoverable ==
  /\ net.live = {} => file.alloc
  /\ \A id \in net.live : net.epoch[id] # Foreign => net.epoch[id] <= file.req

(* Isolation, readiness and recoverability together. *)
NetworkIsSound == PeerIsolation /\ ReadyIsReal /\ ResetRecoverable
=============================================================================
