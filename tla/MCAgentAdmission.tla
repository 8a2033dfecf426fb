------------------------- MODULE MCAgentAdmission -------------------------
(* Every operation of AgentAdmission concerns one run, so one run is enough.
   All nodes belong to generation CreateGen. *)
EXTENDS AgentAdmission, TLC

CONSTANT CreateGen

MCNodeRun == [n \in Node |-> CHOOSE r \in Run : TRUE]
MCNodeGen == [n \in Node |-> CreateGen]
Interchangeable == Permutations(Node) \cup Permutations(Handler)
=============================================================================
