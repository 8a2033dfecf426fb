----------------------------- MODULE BatchGroup -----------------------------
(***************************************************************************)
(* What a reader of saved results sees of a group of runs: the attempts    *)
(* that belong to it.  An admission adds all the attempts it was asked for *)
(* at once or none of them; otherwise an attempt only disappears by being  *)
(* deleted, and then for good.  One exception: when every attempt of the   *)
(* group has been deleted, attempts of an admission that was not completed *)
(* may come to light.                                                      *)
(***************************************************************************)
CONSTANT Run

VARIABLES
  members,   \* attempts of the group that can be read
  asked,     \* attempts the admission in progress will add
  erased     \* attempts that were deleted

vars == <<members, asked, erased>>

\* A group from an earlier version of the Controller already has attempts.
Init == members \in SUBSET Run /\ asked = {} /\ erased = {}

Ask(S) ==
  /\ asked = {} /\ S \cap (members \cup erased) = {}
  /\ asked' = S /\ UNCHANGED <<members, erased>>
Abandon == asked' = {} /\ UNCHANGED <<members, erased>>
Admit == members' = members \cup asked /\ asked' \in {asked, {}} /\ UNCHANGED erased
Delete(S) ==
  /\ asked = {} /\ members' = members \ S /\ erased' = erased \cup S
  /\ UNCHANGED asked

\* What a failed admission left behind is shown, once the group itself is gone.
Reveal(S) ==
  /\ asked = {} /\ members = {} /\ erased # {} /\ S \cap erased = {}
  /\ members' = S /\ UNCHANGED <<asked, erased>>

Next ==
  \/ \E S \in SUBSET Run : Ask(S) \/ Delete(S) \/ Reveal(S)
  \/ Abandon \/ Admit

Spec == Init /\ [][Next]_vars
=============================================================================
