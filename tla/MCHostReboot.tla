---------------------------- MODULE MCHostReboot ----------------------------
(* HostReboot with two operations on one host, or with one whose outcomes may
   not be written. *)
EXTENDS HostReboot, TLC

Sym == Permutations(Op)

SmallInit == Init /\ (writesFail <=> \E o \in Op : pc[o] = "done")
SmallSpec == SmallInit /\ [][Next]_vars
=============================================================================
