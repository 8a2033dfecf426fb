---------------------------- MODULE MCWorkQueue ----------------------------
(***************************************************************************)
(* WorkQueue with an experiment and what follows it: an analysis, a retry,  *)
(* or more iterations; and with a repeated batch that is resumed.           *)
(***************************************************************************)
EXTENDS WorkQueue

CONSTANTS w1, w2, r1, r2

Item(kind, fresh) == [kind |-> kind, of |-> w1, fresh |-> fresh]
Pair(first, second) == [w \in Work |-> IF w = w1 THEN first ELSE second]

SmallPlans == {
  Pair(Item("new", <<r1>>), Item("new", <<>>)),
  Pair(Item("new", <<r1>>), Item("retry", <<r2>>)),
  Pair(Item("new", <<r1>>), Item("append", <<r2>>)),
  Pair(Item("new", <<r1, r2>>), Item("resume", <<>>))}
=============================================================================
