---------------------------- MODULE MCExperiment ----------------------------
(***************************************************************************)
(* What an experiment stands on: the stack that the Master deploys, the     *)
(* preparation and the reset of the Peer network, the graph that is         *)
(* generated, the mesh that is formed and frozen and the profile changes    *)
(* of its Peers.  A behaviour looks at one of them (focus); the others      *)
(* rest.                                                                    *)
(*                                                                          *)
(* The stack is checked with one command on two servers or with two on one; *)
(* profiles with two Peers and a fault, with two Peers and reports, or with *)
(* one Peer and one change more; meshes with two Peers, three phases and    *)
(* faults (the module that is extended), or with three Peers and two phases.*)
(***************************************************************************)
EXTENDS TopologyFormation, TLC

CONSTANTS
  s1, s2, Control, NoNode,                       \* stack
  Agent, MaxAttempts, MaxNets, MaxRestarts,      \* network
  Gateways, HostBits,                            \* reset
  p1, p2, p3,                                    \* profiles, mesh
  MaxNodes, MaxEdges                             \* graph

VARIABLES
  focus,
  \* SwarmLifecycle
  sSvc, sTask, sNode, sLabel, sNetwork, sGateway, sCmd, sBudget, sLeft,
  \* ExperimentNetwork
  nCtl, nRunNet, nCalls, nAg, nPeer, nMgr, nFile, nNet, nGw, nFaults, nRestarts,
  \* PeerNetworkReset
  rNet, rView, rBusy, rCmd, rFaults,
  \* ProfileSchedule
  pCtl, pNode, pAgent, pPeer, pCmds, pAnswers, pReports, pFaults, pHistory,
  \* TopologyGenerate
  gCfg, gGraph, gPc, gDegree

Wide == INSTANCE SwarmLifecycle WITH
       Node <- {s1, s2}, MinAgents <- 1, MaxTasks <- 5, MaxCommands <- 1, MaxFaults <- 1,
       svc <- sSvc, task <- sTask, node <- sNode, label <- sLabel, network <- sNetwork,
       gateway <- sGateway, cmd <- sCmd, budget <- sBudget, left <- sLeft

Long == INSTANCE SwarmLifecycle WITH
       Node <- {Control}, MinAgents <- 1, MaxTasks <- 3, MaxCommands <- 2, MaxFaults <- 1,
       svc <- sSvc, task <- sTask, node <- sNode, label <- sLabel, network <- sNetwork,
       gateway <- sGateway, cmd <- sCmd, budget <- sBudget, left <- sLeft

Network == INSTANCE ExperimentNetwork WITH
       MaxFaults <- 2, ctl <- nCtl, runNet <- nRunNet, calls <- nCalls, ag <- nAg,
       peer <- nPeer, mgr <- nMgr, file <- nFile, net <- nNet, gw <- nGw, faults <- nFaults,
       restarts <- nRestarts

Reset == INSTANCE PeerNetworkReset WITH
       MaxNets <- 4, MaxFaults <- 3, net <- rNet, view <- rView, busy <- rBusy, cmd <- rCmd,
       faults <- rFaults

Cohort == INSTANCE ProfileSchedule WITH
       Peer <- {p1, p2}, Cohorts <- {{p1, p2}, {p1}}, MaxRevision <- 2, MaxFaults <- 1,
       MaxStatus <- 0, ctl <- pCtl, node <- pNode, agent <- pAgent, peer <- pPeer,
       cmds <- pCmds, answers <- pAnswers, reports <- pReports, faults <- pFaults,
       history <- pHistory

Reports == INSTANCE ProfileSchedule WITH
       Peer <- {p1, p2}, Cohorts <- {{p1, p2}, {p1}}, MaxRevision <- 2, MaxFaults <- 0,
       MaxStatus <- 1, ctl <- pCtl, node <- pNode, agent <- pAgent, peer <- pPeer,
       cmds <- pCmds, answers <- pAnswers, reports <- pReports, faults <- pFaults,
       history <- pHistory

Changes == INSTANCE ProfileSchedule WITH
       Peer <- {p1}, Cohorts <- {{p1}}, MaxRevision <- 3, MaxFaults <- 1, MaxStatus <- 1,
       ctl <- pCtl, node <- pNode, agent <- pAgent, peer <- pPeer, cmds <- pCmds,
       answers <- pAnswers, reports <- pReports, faults <- pFaults, history <- pHistory

Pair == (p1 :> {p2}) @@ (p2 :> {p1})
Alone == p1 :> {}
MCGraphs == {Pair, Alone}
MCGroups == {{p1, p2}, {p1}}

Chain == (p1 :> {p2}) @@ (p2 :> {p1, p3}) @@ (p3 :> {p2})
Three == INSTANCE TopologyFormation WITH
       Peer <- {p1, p2, p3}, Graphs <- {Chain}, Groups <- {{p1, p2, p3}}, MaxPhases <- 2,
       MaxFaults <- 0

Graph == INSTANCE TopologyGenerate WITH
       cfg <- gCfg, graph <- gGraph, pc <- gPc, degree <- gDegree

sVars == <<sSvc, sTask, sNode, sLabel, sNetwork, sGateway, sCmd, sBudget, sLeft>>
nVars == <<nCtl, nRunNet, nCalls, nAg, nPeer, nMgr, nFile, nNet, nGw, nFaults, nRestarts>>
rVars == <<rNet, rView, rBusy, rCmd, rFaults>>
pVars == <<pCtl, pNode, pAgent, pPeer, pCmds, pAnswers, pReports, pFaults, pHistory>>
gVars == <<gCfg, gGraph, gPc, gDegree>>
allVars == <<focus, vars, sVars, nVars, rVars, pVars, gVars>>

\* Parts that rest; TopologyFormation rests in its initial state.
RestS ==
  /\ sSvc = 0 /\ sTask = 0 /\ sNode = 0 /\ sLabel = 0 /\ sNetwork = 0 /\ sGateway = 0
  /\ sCmd = 0 /\ sBudget = 0 /\ sLeft = 0
RestN ==
  /\ nCtl = 0 /\ nRunNet = 0 /\ nCalls = 0 /\ nAg = 0 /\ nPeer = 0 /\ nMgr = 0 /\ nFile = 0
  /\ nNet = 0 /\ nGw = 0 /\ nFaults = 0 /\ nRestarts = 0
RestR ==
  /\ rNet = 0 /\ rView = 0 /\ rBusy = 0 /\ rCmd = 0 /\ rFaults = 0
RestP ==
  /\ pCtl = 0 /\ pNode = 0 /\ pAgent = 0 /\ pPeer = 0 /\ pCmds = 0 /\ pAnswers = 0
  /\ pReports = 0 /\ pFaults = 0 /\ pHistory = 0
RestG ==
  /\ gCfg = 0 /\ gGraph = 0 /\ gPc = 0 /\ gDegree = 0

MCInit ==
  /\ \/ focus = "wide" /\ Wide!Init /\ RestN /\ RestR /\ RestP /\ RestG
     \/ focus = "long" /\ Long!Init /\ RestN /\ RestR /\ RestP /\ RestG
     \/ focus = "network" /\ Network!Init /\ RestS /\ RestR /\ RestP /\ RestG
     \/ focus = "reset" /\ Reset!Init /\ RestS /\ RestN /\ RestP /\ RestG
     \/ focus = "cohort" /\ Cohort!Init /\ RestS /\ RestN /\ RestR /\ RestG
     \/ focus = "reports" /\ Reports!Init /\ RestS /\ RestN /\ RestR /\ RestG
     \/ focus = "changes" /\ Changes!Init /\ RestS /\ RestN /\ RestR /\ RestG
     \/ focus \in {"mesh", "three"} /\ RestS /\ RestN /\ RestR /\ RestP /\ RestG
     \/ focus = "graph" /\ Graph!Init /\ RestS /\ RestN /\ RestR /\ RestP
  /\ IF focus = "three" THEN Three!Init ELSE Init

MCNext ==
  \/ focus = "wide" /\ Wide!Next /\ UNCHANGED <<focus, vars, nVars, rVars, pVars, gVars>>
  \/ focus = "long" /\ Long!Next /\ UNCHANGED <<focus, vars, nVars, rVars, pVars, gVars>>
  \/ focus = "network" /\ Network!Next /\ UNCHANGED <<focus, vars, sVars, rVars, pVars, gVars>>
  \/ focus = "reset" /\ Reset!Next /\ UNCHANGED <<focus, vars, sVars, nVars, pVars, gVars>>
  \/ focus = "cohort" /\ Cohort!Next /\ UNCHANGED <<focus, vars, sVars, nVars, rVars, gVars>>
  \/ focus = "reports" /\ Reports!Next /\ UNCHANGED <<focus, vars, sVars, nVars, rVars, gVars>>
  \/ focus = "changes" /\ Changes!Next /\ UNCHANGED <<focus, vars, sVars, nVars, rVars, gVars>>
  \/ focus = "mesh" /\ Next /\ UNCHANGED <<focus, sVars, nVars, rVars, pVars, gVars>>
  \/ focus = "three" /\ Three!Next /\ UNCHANGED <<focus, sVars, nVars, rVars, pVars, gVars>>
  \/ focus = "graph" /\ Graph!Next /\ UNCHANGED <<focus, vars, sVars, nVars, rVars, pVars>>

MCSpec == MCInit /\ [][MCNext]_allVars
-----------------------------------------------------------------------------
\* A restart waits for every task of the incarnations that it stops
\* (internal/master/swarm_lifecycle.go).
StopsAreClean ==
  /\ focus = "wide" => Wide!StopsAreClean
  /\ focus = "long" => Long!StopsAreClean

\* A removal or a deployment leaves the services alone that another operator put
\* in place while it waited, up to its last inventory
\* (internal/master/swarm_lifecycle.go).
ReplacementsSurvive ==
  [][(focus = "wide" => Wide!ReplacementsSurvive) /\ (focus = "long" => Long!ReplacementsSurvive)]_allVars

\* Runs do not share a network, a prepared network is what it is taken for, and
\* an interrupted reset can be repeated (experiment_network.go, experimentnet/manager.go).
NetworkIsSound == focus = "network" => Network!NetworkIsSound

\* A reset that is reported has replaced the Peer network and no other
\* (internal/master/swarm_network.go).
ResetIsExact == [][focus = "reset" => Reset!ResetIsExact]_allVars

\* A cohort changes together, and the Agents' records are true
\* (profile_schedule.go, agent/profile_update.go).
ProfilesAreSound ==
  /\ focus = "cohort" => Cohort!ProfilesAreSound
  /\ focus = "reports" => Reports!ProfilesAreSound
  /\ focus = "changes" => Changes!ProfilesAreSound

\* Generated graphs are exact, and so is the sampling they are made by
\* (internal/topology).
GraphIsSound == focus = "graph" => Graph!GraphIsSound
=============================================================================
