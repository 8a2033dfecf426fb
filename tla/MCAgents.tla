------------------------------ MODULE MCAgents ------------------------------
(***************************************************************************)
(* What the Controller knows of Agents and their hosts: reboots and the     *)
(* placement of Peers.  A behaviour looks at one of them (focus); the other *)
(* rests.                                                                   *)
(*                                                                          *)
(* Reboot: two operations on one host, or one whose outcomes may not be     *)
(* written.  Placement: one Peer on one Agent with three reports or with    *)
(* two and a restart, two Peers on one Agent, one Peer on two Agents.       *)
(***************************************************************************)
EXTENDS MCHostReboot

CONSTANTS
  Agent, Node, NoAgent, Capacity, MaxSnapshots, MaxInFlight  \* placement

VARIABLES
  focus,
  \* Placement
  pInst, pPeers, pRetired, pFenced, pClock, pRestarts, pNet, pWire, pReply, pStopAck,
  pMarks, pAgents, pNodes, pRes, pUncertain, pSnap, pCreate, pEnded

P == INSTANCE Placement WITH
       MaxReports <- MaxSnapshots, inst <- pInst, peers <- pPeers,
       retired <- pRetired, fenced <- pFenced, clock <- pClock, restarts <- pRestarts, net <- pNet,
       wire <- pWire, reply <- pReply, stopAck <- pStopAck, marks <- pMarks,
       agents <- pAgents, nodes <- pNodes, res <- pRes, uncertain <- pUncertain,
       snap <- pSnap, create <- pCreate, ended <- pEnded

pVars == <<pInst, pPeers, pRetired, pFenced, pClock, pRestarts, pNet, pWire, pReply,
           pStopAck, pMarks, pAgents, pNodes, pRes, pUncertain, pSnap, pCreate, pEnded>>
allVars == <<focus, vars, pVars>>

\* Parts that rest.
RestP ==
  /\ pInst = 0 /\ pPeers = 0 /\ pRetired = 0 /\ pFenced = 0 /\ pClock = 0 /\ pRestarts = 0
  /\ pNet = 0 /\ pWire = 0 /\ pReply = 0 /\ pStopAck = 0 /\ pMarks = 0 /\ pAgents = 0
  /\ pNodes = 0 /\ pRes = 0 /\ pUncertain = 0 /\ pSnap = 0 /\ pCreate = 0 /\ pEnded = 0
RestR == SmallInit /\ ~writesFail

Reporting == {a \in Agent : pClock[a] < MaxSnapshots}
Wanted == {n \in Node : pCreate[n].pc = "idle"}

PlacementChosen ==
  \/ /\ Cardinality(Wanted) = 1 /\ Cardinality(Reporting) = 1
     /\ pRestarts = 0 /\ \A a \in Reporting : pClock[a] = 1
  \/ /\ Cardinality(Wanted) = 1 /\ Cardinality(Reporting) = 1
     /\ pRestarts = MaxRestarts /\ \A a \in Reporting : pClock[a] = 0
  \/ /\ Cardinality(Wanted) = 2 /\ Cardinality(Reporting) = 1
     /\ pRestarts = MaxRestarts /\ \A a \in Reporting : pClock[a] = 1
  \/ /\ Cardinality(Wanted) = 1 /\ Cardinality(Reporting) = 2
     /\ pRestarts = MaxRestarts /\ \A a \in Reporting : pClock[a] = 2

MCInit ==
  \/ focus = "reboot" /\ SmallInit /\ RestP
  \/ focus = "placement" /\ P!Init /\ PlacementChosen /\ RestR

MCNext ==
  \/ focus = "reboot" /\ Next /\ UNCHANGED <<focus, pVars>>
  \/ focus = "placement" /\ P!Next /\ UNCHANGED <<focus, vars>>

MCSpec == MCInit /\ [][MCNext]_allVars

\* Reservations, records, live Peers and requests on the way agree
\* (create_retry.go:92, "Keep its slot until the Agent reports that Peer").
PlacementConsistent == focus = "placement" => P!PlacementConsistent

\* The occupancy compared with the capacity covers every reservation and every
\* live Peer on record (runner.go:990).
OccupancyCovers == focus = "placement" => P!OccupancyCovers

\* A Peer on record never returns to a live state (state.go:289).
NoRevival == [][focus = "placement" => P!NoRevival]_allVars
=============================================================================
