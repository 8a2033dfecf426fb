--------------------------- MODULE SwarmLifecycle ---------------------------
(***************************************************************************)
(* The operator commands `kpl swarm deploy | restart | add-node |          *)
(* remove-node | remove` (internal/master) against a Docker Swarm that     *)
(* schedules, loses and restarts tasks on its own, and against another     *)
(* operator who may replace a service while a command waits.  One stack,   *)
(* one command at a time; a command is a sequence of docker calls, any of  *)
(* which may fail and end it where it stands.                              *)
(***************************************************************************)
EXTENDS Naturals, Sequences, FiniteSets

CONSTANTS Node, Control,   \* Swarm nodes; the node that holds the Controller
          NoNode,          \* a task the scheduler has not placed yet
          MinAgents,       \* KPL_MIN_AGENTS
          MaxTasks, MaxCommands, MaxFaults

VARIABLES svc,     \* stack services: immutable id (0: absent), owner, placement,
                   \* and (history) the command's step at which another operator made it
          task,    \* every task the Swarm made, oldest first
          node,    \* node availability: active, drain or down
          label,   \* nodes carrying the Agent placement label
          network, \* the Peer network exists
          gateway, \* the gateway container exists on the control node
          cmd,     \* the running command
          budget,  \* services made, commands started, faults
          left     \* history: nodes whose Agents remove-node reported as stopped, of the
                   \* Agent service that it began with, not labelled since

vars == <<svc, task, node, label, network, gateway, cmd, budget, left>>

Comp == {"controller", "agent", "network-manager"}
Idle == [name |-> "none", pc |-> "idle", nodes |-> {}, rest |-> {}, tasks |-> {},
         hold |-> {}, todo |-> <<>>, ids |-> [c \in Comp |-> 0], ready |-> FALSE]
Absent == [id |-> 0, owner |-> "none", paused |-> FALSE, exclude |-> {}, since |-> "idle"]
Present(c) == svc[c].id # 0
Task(c, s, n) == [comp |-> c, svc |-> s, node |-> n, st |-> "pending", stop |-> FALSE]

\* A fresh Swarm, or a stack that is running on every node.
Init ==
  /\ node = [n \in Node |-> "active"]
  /\ gateway = TRUE /\ cmd = Idle /\ left = {}
  /\ \/ /\ svc = [c \in Comp |-> Absent] /\ task = <<>>
        /\ label = {} /\ network = FALSE
        /\ budget = [svc |-> 0, cmd |-> 0, fault |-> 0]
     \/ \E ids \in {[c \in Comp |-> CASE c = "controller" -> 1 [] c = "agent" -> 2 [] OTHER -> 3]},
           agents \in {s \in [1..Cardinality(Node) -> Node] : \A n \in Node : \E k \in DOMAIN s : s[k] = n} :
          /\ svc = [c \in Comp |-> [Absent EXCEPT !.id = ids[c], !.owner = "kpl"]]
          /\ task = <<[Task("controller", 1, Control) EXCEPT !.st = "running"],
                      [Task("network-manager", 3, Control) EXCEPT !.st = "running"]>>
                    \o [k \in DOMAIN agents |-> [Task("agent", 2, agents[k]) EXCEPT !.st = "running"]]
          /\ label = Node /\ network = TRUE
          /\ budget = [svc |-> 3, cmd |-> 0, fault |-> 0]

-----------------------------------------------------------------------------
(* The Swarm: placement, task life, node availability (external).          *)

Alive(t) == t.st \in {"pending", "running"}

Eligible(sv, lab, nst, c, n) ==
  /\ sv[c].id # 0 /\ ~sv[c].paused /\ nst[n] = "active"
  /\ IF c = "agent" THEN n \in lab \ sv[c].exclude ELSE n = Control

Wanted(sv, lab, nst, t) ==
  /\ sv[t.comp].id = t.svc
  /\ IF t.node = NoNode THEN sv[t.comp].id # 0 /\ ~sv[t.comp].paused
                        ELSE Eligible(sv, lab, nst, t.comp, t.node)

\* A task the placement no longer wants is told to stop, for good.
Enforce(sv, lab, nst) ==
  [i \in DOMAIN task |-> IF Wanted(sv, lab, nst, task[i]) THEN task[i]
                         ELSE [task[i] EXCEPT !.stop = TRUE]]

\* Global Agent tasks are born on a node; the others wait for the scheduler.
NewTask(c) ==
  /\ Present(c) /\ ~svc[c].paused /\ Len(task) < MaxTasks
  /\ \E n \in IF c = "agent" THEN Node ELSE {NoNode} :
       /\ n # NoNode => Eligible(svc, label, node, c, n)
       /\ ~\E i \in DOMAIN task : task[i].comp = c /\ Alive(task[i]) /\ (c = "agent" => task[i].node = n)
       /\ task' = Append(task, Task(c, svc[c].id, n))
  /\ UNCHANGED <<svc, node, label, network, gateway, cmd, budget, left>>

Start(i) ==
  /\ task[i].st = "pending"
  /\ \/ /\ ~task[i].stop
        /\ LET n == IF task[i].node = NoNode THEN Control ELSE task[i].node
           IN  node[n] = "active" /\ task' = [task EXCEPT ![i].st = "running", ![i].node = n]
     \/ /\ task[i].stop   \* stopped before a container exists
        /\ task' = [task EXCEPT ![i].st = IF task[i].node = NoNode THEN "void" ELSE "dirty"]
  /\ UNCHANGED <<svc, node, label, network, gateway, cmd, budget, left>>

\* "dirty" stands for every end but a clean one: failed, rejected, orphaned,
\* or a shutdown with an exit code or an error.
Exit(i) ==
  /\ task[i].st = "running" /\ node[task[i].node] # "down"
  /\ \E st \in {"clean", "dirty"} :
       /\ task' = [task EXCEPT ![i].st = st, ![i].stop = TRUE]
       /\ IF task[i].stop /\ st = "clean" THEN UNCHANGED budget
          ELSE /\ budget.fault < MaxFaults
               /\ budget' = [budget EXCEPT !.fault = @ + 1]
  /\ UNCHANGED <<svc, node, label, network, gateway, cmd, left>>

NodeChanges(n) ==
  /\ \E st \in {"active", "drain", "down"} \ {node[n]} :
       /\ node' = [node EXCEPT ![n] = st]
       /\ IF st = "active" THEN UNCHANGED budget
          ELSE /\ budget.fault < MaxFaults
               /\ budget' = [budget EXCEPT !.fault = @ + 1]
  /\ task' = Enforce(svc, label, node')
  /\ UNCHANGED <<svc, label, network, gateway, cmd, left>>

\* Another operator puts a service of the same name in place of this one.
Replace(c) ==
  /\ budget.fault < MaxFaults
  /\ budget' = [budget EXCEPT !.fault = @ + 1, !.svc = @ + 1]
  /\ \E o \in {"kpl", "other"} :
       svc' = [svc EXCEPT ![c] = [Absent EXCEPT !.id = budget.svc + 1, !.owner = o, !.since = cmd.pc]]
  /\ task' = Enforce(svc', label, node)
  /\ UNCHANGED <<node, label, network, gateway, cmd, left>>

-----------------------------------------------------------------------------
(* What a command reads.                                                   *)

Owned == \A c \in Comp : Present(c) => svc[c].owner = "kpl"
Inventory == [c \in Comp |-> svc[c].id]

\* Tasks of the service, on one of these nodes or (all) not placed yet.
History(c, ns) == {i \in DOMAIN task : task[i].comp = c /\ task[i].svc = svc[c].id
                                         /\ task[i].node \in ns}
All == Node \cup {NoNode}

\* Mutant: only the newest task of a node counts.
IncludedNewest(c, ns) ==
  {i \in History(c, ns) : /\ task[i].node # NoNode
                          /\ ~\E j \in History(c, ns) : j > i /\ task[j].node = task[i].node}

\* Newest first, a clean task is skipped when a newer one of its node was seen.
Included(c, ns) ==
  {i \in History(c, ns) : /\ task[i].node # NoNode
                          /\ ~(task[i].st = "clean"
                               /\ \E j \in History(c, ns) : j > i /\ task[j].node = task[i].node)}
CaptureOK(c, ns) == /\ Present(c) /\ History(c, ns) # {}
                    /\ \A i \in Included(c, ns) : node[task[i].node] # "down"

Active(ns) == \A n \in ns : node[n] = "active"
PlacementOK(ns) == Cardinality({n \in label \cup ns : node[n] = "active"}) >= MinAgents

\* Explicit names, or a selector over the candidates (with or without self).
CommandNodes(name) ==
  LET candidates == IF name = "remove-node" THEN label ELSE {n \in Node : node[n] = "active"}
      selected   == {candidates, candidates \ {Control}} \ {{}}
  IN  selected \cup {ns \in SUBSET Node : ns = {} => name \in {"deploy", "restart"}}

Captured == UNION {Included(c, All) : c \in {d \in Comp : Present(d)}}
RestartOK(ns) ==
  /\ Present("controller") /\ Present("agent") /\ PlacementOK(ns)
  /\ \A c \in Comp : Present(c) => CaptureOK(c, All)
  /\ \A i \in Captured : task[i].st # "dirty"

-----------------------------------------------------------------------------
(* The commands.                                                           *)

Goto(pc) == cmd' = [cmd EXCEPT !.pc = pc]
OnlyCmd == UNCHANGED <<svc, task, node, label, network, gateway, budget, left>>

First(name) == CASE name \in {"deploy", "restart"} -> "plan"
                 [] name = "add-node" -> "add"
                 [] name = "remove-node" -> "capture"
                 [] OTHER -> IF Present("network-manager") THEN "gateway" ELSE "delete"

RunSwarm ==
  /\ cmd = Idle /\ budget.cmd < MaxCommands /\ Owned
  /\ \E name \in {"deploy", "restart", "add-node", "remove-node", "remove"} :
       cmd' = [Idle EXCEPT !.name = name, !.pc = First(name), !.ids = Inventory]
  /\ budget' = [budget EXCEPT !.cmd = @ + 1]
  /\ UNCHANGED <<svc, task, node, label, network, gateway, left>>

InGateway == cmd.pc \in {"gateway", "gpause", "gwait", "gagain", "gwait2"}

\* A docker call fails or times out, or a check refuses: nothing is undone.
\* A failure of the gateway preparation only keeps the gateway.
Fails ==
  /\ cmd # Idle
  /\ cmd' = IF InGateway THEN [cmd EXCEPT !.pc = "delete", !.tasks = {}] ELSE Idle
  /\ OnlyCmd

Plan ==
  /\ cmd.pc = "plan" /\ node[Control] = "active"
  /\ \E ns \in CommandNodes(cmd.name) :
       /\ Active(ns)
       /\ IF cmd.name = "restart" THEN RestartOK(ns) ELSE PlacementOK(ns)
       /\ cmd' = [cmd EXCEPT !.pc = "image", !.nodes = ns, !.rest = ns]
  /\ OnlyCmd

\* The image is resolved, which may take minutes, and ownership is read again;
\* deploy makes a missing Peer network, restart refuses it.
ResolveImage ==
  /\ cmd.pc = "image" /\ Owned
  /\ \/ /\ cmd.name = "deploy" /\ network' = TRUE
        /\ cmd' = [cmd EXCEPT !.pc = "label", !.ids = Inventory]
     \/ /\ cmd.name = "restart" /\ network /\ RestartOK(cmd.nodes)
        /\ cmd' = [cmd EXCEPT !.pc = "stop", !.ids = Inventory, !.hold = Captured,
                              !.todo = <<"controller", "agent">> \o
                                       IF Present("network-manager") THEN <<"network-manager">> ELSE <<>>]
        /\ UNCHANGED network
  /\ UNCHANGED <<svc, task, node, label, gateway, budget, left>>

StopService ==
  /\ cmd.pc = "stop" /\ cmd.todo # <<>> /\ CaptureOK(Head(cmd.todo), All)
  /\ cmd' = [cmd EXCEPT !.pc = "pause", !.tasks = Included(Head(cmd.todo), All)]
  /\ OnlyCmd

\* The two contradicting role constraints no node can meet.
PauseService(c) ==
  /\ Present(c)
  /\ svc' = [svc EXCEPT ![c].paused = TRUE]
  /\ task' = Enforce(svc', label, node)
  /\ UNCHANGED <<node, label, network, gateway, budget, left>>
Pause == /\ cmd.pc = "pause" /\ Goto("wait") /\ PauseService(Head(cmd.todo))

Waiting == cmd.pc \in {"wait", "wait2", "wait3", "restwait", "rwait", "gwait", "gwait2"}

\* One captured task is seen clean, on a node that still answers.
WaitTask(i) ==
  /\ Waiting /\ i \in cmd.tasks
  /\ task[i].st = "clean" /\ node[task[i].node] # "down"
  /\ svc[task[i].comp].id = task[i].svc
  /\ cmd' = [cmd EXCEPT !.tasks = @ \ {i}]
  /\ OnlyCmd

Waited(pc) == cmd.pc = pc /\ cmd.tasks = {}

\* The history is read once more after the first wait.
StopAgain ==
  /\ Waited("wait") /\ CaptureOK(Head(cmd.todo), All)
  /\ cmd' = [cmd EXCEPT !.pc = "wait2", !.tasks = Included(Head(cmd.todo), All)]
  /\ OnlyCmd

NextService ==
  /\ Waited("wait2")
  /\ cmd' = [cmd EXCEPT !.todo = Tail(@),
                        !.pc = IF Len(cmd.todo) = 1 THEN "wait3" ELSE "stop",
                        !.tasks = IF Len(cmd.todo) = 1 THEN cmd.hold ELSE {}]
  /\ OnlyCmd

AllStopped == /\ Waited("wait3") /\ Goto("label") /\ OnlyCmd

\* deploy, restart and add-node label one node after another.
AddLabel ==
  /\ cmd.pc = "label"
  /\ \E n \in cmd.rest :
       /\ label' = label \cup {n}
       /\ cmd' = [cmd EXCEPT !.rest = @ \ {n}]
       /\ left' = left \ {n}
  /\ task' = Enforce(svc, label', node)
  /\ UNCHANGED <<svc, node, network, gateway, budget>>

Preflight ==
  /\ cmd.pc = "label" /\ cmd.rest = {} /\ cmd.name # "add-node"
  /\ node[Control] = "active" /\ network /\ label # {} /\ PlacementOK({})
  /\ Goto("submit") /\ OnlyCmd

\* `docker stack deploy` rewrites the services of these names; a changed image
\* replaces every task.
StackDeploy ==
  /\ cmd.pc = "submit"
  /\ LET absent == {c \in Comp : ~Present(c)}
         number == CHOOSE f \in [absent -> (budget.svc + 1)..(budget.svc + Cardinality(absent))] :
                     \A c, d \in absent : f[c] = f[d] => c = d
     IN  /\ svc' = [c \in Comp |-> [Absent EXCEPT !.owner = "kpl",
                                      !.id = IF c \in absent THEN number[c] ELSE svc[c].id]]
         /\ budget' = [budget EXCEPT !.svc = @ + Cardinality(absent)]
  /\ \E rolled \in BOOLEAN :
       task' = IF rolled THEN [i \in DOMAIN task |-> [task[i] EXCEPT !.stop = TRUE]]
                         ELSE Enforce(svc', label, node)
  /\ cmd' = Idle
  /\ UNCHANGED <<node, label, network, gateway, left>>

AddNodes ==
  /\ cmd.pc = "add" /\ Present("agent")
  /\ \E ns \in CommandNodes(cmd.name) :
       /\ Active(ns)
       /\ cmd' = [cmd EXCEPT !.pc = "label", !.nodes = ns, !.rest = ns]
  /\ OnlyCmd

\* The end of add-node and of remove-node: the exclusions of these nodes go.
RemoveExclusions ==
  /\ \/ cmd.pc = "label" /\ cmd.rest = {} /\ cmd.name = "add-node"
     \/ cmd.pc = "unlabel" /\ cmd.rest = {}
  /\ Present("agent")
  /\ svc' = [svc EXCEPT !["agent"].exclude = @ \ cmd.nodes]
  /\ task' = Enforce(svc', label, node)
  /\ left' = IF cmd.name = "remove-node" /\ svc["agent"].id = cmd.ids["agent"]
             THEN left \cup cmd.nodes ELSE left
  /\ cmd' = Idle
  /\ UNCHANGED <<node, label, network, gateway, budget>>

RemoveNodes ==
  /\ cmd.pc = "capture" /\ Present("agent")
  /\ \E ns \in CommandNodes(cmd.name) :
       /\ \A n \in ns : node[n] # "down" /\ CaptureOK("agent", {n})
       /\ cmd' = [cmd EXCEPT !.pc = "exclude", !.nodes = ns, !.rest = ns,
                             !.tasks = UNION {Included("agent", {n}) : n \in ns}]
  /\ OnlyCmd

AddExclusions ==
  /\ cmd.pc = "exclude" /\ Present("agent")
  /\ svc' = [svc EXCEPT !["agent"].exclude = @ \cup cmd.nodes]
  /\ task' = Enforce(svc', label, node)
  /\ Goto("rwait")
  /\ UNCHANGED <<node, label, network, gateway, budget, left>>

\* Every node's history is read again, and waited for, one node at a time.
Remaining ==
  /\ Waited("rwait")
  /\ \/ \E n \in cmd.rest :
          /\ CaptureOK("agent", {n})
          /\ cmd' = [cmd EXCEPT !.rest = @ \ {n}, !.tasks = Included("agent", {n})]
     \/ cmd.rest = {} /\ cmd' = [cmd EXCEPT !.pc = "unlabel", !.rest = cmd.nodes]
  /\ OnlyCmd

RemoveLabel ==
  /\ cmd.pc = "unlabel"
  /\ \E n \in cmd.rest :
       /\ label' = label \ {n}
       /\ cmd' = [cmd EXCEPT !.rest = @ \ {n}]
  /\ task' = Enforce(svc, label', node)
  /\ UNCHANGED <<svc, node, network, gateway, budget, left>>

-----------------------------------------------------------------------------
(* remove: the gateway is prepared, the services go, then the stack.       *)

GatewayTasks == Included("network-manager", All) \cup Included("agent", All)
CaptureGateway == /\ CaptureOK("network-manager", All) /\ CaptureOK("agent", All)

PrepareGateway ==
  /\ cmd.pc = "gateway" /\ CaptureGateway
  /\ cmd' = [cmd EXCEPT !.pc = "gpause", !.tasks = GatewayTasks, !.todo = <<"network-manager", "agent">>]
  /\ OnlyCmd

PauseGateway ==
  /\ cmd.pc = "gpause"
  /\ cmd' = [cmd EXCEPT !.todo = Tail(@), !.pc = IF Len(cmd.todo) = 1 THEN "gwait" ELSE "gpause"]
  /\ PauseService(Head(cmd.todo))

GatewayAgain ==
  /\ Waited("gwait") /\ CaptureGateway
  /\ cmd' = [cmd EXCEPT !.pc = "gwait2", !.tasks = GatewayTasks]
  /\ OnlyCmd

GatewayReady ==
  /\ Waited("gwait2")
  /\ cmd' = [cmd EXCEPT !.pc = "delete", !.ready = TRUE]
  /\ OnlyCmd

\* `docker service rm` of the verified ids; one that is no longer there fails
\* the command after the others are gone.
DeleteServices ==
  /\ cmd.pc = "delete"
  /\ svc' = [c \in Comp |-> IF svc[c].id = cmd.ids[c] THEN Absent ELSE svc[c]]
  /\ task' = Enforce(svc', label, node)
  /\ cmd' = IF \E c \in Comp : cmd.ids[c] # 0 /\ svc[c].id # cmd.ids[c] THEN Idle
            ELSE [cmd EXCEPT !.pc = "gone"]
  /\ UNCHANGED <<node, label, network, gateway, budget, left>>

NoServices == \A c \in Comp : ~Present(c)

\* Mutant: the inventory is not read again after the gateway.
ServicesGoneOnce ==
  /\ \/ cmd.pc = "gone"  /\ NoServices /\ Goto(IF cmd.ready THEN "ungateway" ELSE "gone2")
     \/ cmd.pc = "gone2" /\ Goto("stackrm")
     \/ cmd.pc = "gone3" /\ NoServices /\ Goto("unmark")
  /\ OnlyCmd

\* waitRemovedServices, after the deletion, after the gateway, at the end.
ServicesGone ==
  /\ NoServices
  /\ \/ cmd.pc = "gone"  /\ Goto(IF cmd.ready THEN "ungateway" ELSE "gone2")
     \/ cmd.pc = "gone2" /\ Goto("stackrm")
     \/ cmd.pc = "gone3" /\ Goto("unmark")
  /\ OnlyCmd

\* A Peer container left on the control node, or any error, keeps the gateway.
RemoveGateway ==
  /\ cmd.pc = "ungateway"
  /\ gateway' \in IF NoServices THEN {gateway, FALSE} ELSE {gateway}
  /\ Goto("gone2")
  /\ UNCHANGED <<svc, task, node, label, network, budget, left>>

StackRm ==
  /\ cmd.pc = "stackrm"
  /\ svc' = [c \in Comp |-> Absent]
  /\ task' = Enforce(svc', label, node)
  /\ Goto("gone3")
  /\ UNCHANGED <<node, label, network, gateway, budget, left>>

\* A label that cannot be cleared is reported and stays.
ClearLabels ==
  /\ cmd.pc = "unmark"
  /\ label' \in SUBSET label
  /\ task' = Enforce(svc, label', node)
  /\ cmd' = Idle
  /\ UNCHANGED <<svc, node, network, gateway, budget, left>>

Swarm ==
  \/ \E c \in Comp : NewTask(c) \/ Replace(c)
  \/ \E i \in DOMAIN task : Start(i) \/ Exit(i)
  \/ \E n \in Node : NodeChanges(n)

Command ==
  \/ RunSwarm \/ Fails \/ Plan \/ ResolveImage \/ StopService \/ Pause
  \/ (\E i \in cmd.tasks : WaitTask(i)) \/ StopAgain \/ NextService \/ AllStopped
  \/ AddLabel \/ Preflight \/ StackDeploy \/ AddNodes \/ RemoveExclusions
  \/ RemoveNodes \/ AddExclusions \/ Remaining \/ RemoveLabel
  \/ PrepareGateway \/ PauseGateway \/ GatewayAgain \/ GatewayReady
  \/ DeleteServices \/ ServicesGone \/ RemoveGateway \/ StackRm \/ ClearLabels

Next == Swarm \/ Command

Spec == Init /\ [][Next]_vars

-----------------------------------------------------------------------------
(* Properties.                                                             *)

\* All tasks exited cleanly; one that was stopped unplaced never ran.
Settled(s) ==
  \A i \in DOMAIN task : task[i].svc = s =>
     task[i].st \in {"clean", "void"} \/ (task[i].node = NoNode /\ task[i].stop)

\* Stops are verified.  A restart submits the new deployment only when every
\* task in the history of the services it stopped has exited cleanly and none
\* can start; the gateway is removed only when that holds of the Agent and of
\* the network manager; and a node that remove-node reported as stopped runs no
\* Agent task until some command labels it again, unless another operator
\* replaced the Agent service meanwhile: the command ends with the same report
\* (swarm_lifecycle.go:454), although the new service had its tasks there.
StopsAreClean ==
  /\ cmd.name = "restart" /\ cmd.pc \in {"label", "submit"}
       => \A c \in Comp : Present(c) /\ svc[c].id = cmd.ids[c] => Settled(svc[c].id)
  /\ cmd.pc = "ungateway" => Settled(cmd.ids["agent"]) /\ Settled(cmd.ids["network-manager"])
  /\ \A i \in DOMAIN task :
       task[i].comp = "agent" /\ task[i].node \in left /\ task[i].svc = svc["agent"].id
         => ~Alive(task[i])

\* Replacements survive.  A service that another operator put in place while a
\* removal waited is not deleted with the stack, in whatever step of the command
\* it appeared ("Refuse a replacement created in that interval before asking
\* Docker's name-based stack removal", swarm_lifecycle.go:512); and one that
\* appeared while a deployment was planned and its image resolved is never
\* rewritten by it ("Do not overwrite a new owner", :287).  What the commands
\* cannot see are the replacements made after their last inventory: between
\* the one of line 514 and `docker stack rm` (517), and between the one of line
\* 289 or 333 and `docker stack deploy` (366).
ReplacementsSurvive ==
  \A c \in Comp :
    /\ cmd.name = "remove" /\ Present(c) /\ svc'[c].id = 0
         => svc[c].id = cmd.ids[c] \/ svc[c].since = "stackrm"
    /\ cmd.name \in {"deploy", "restart"} /\ svc[c].since \in {"plan", "image"}
         => svc[c].owner = "kpl" \/ svc'[c] = svc[c] \/ svc'[c].id # svc[c].id
=============================================================================
