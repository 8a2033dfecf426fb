-------------------------- MODULE TopologyGenerate ---------------------------
(***************************************************************************)
(* The graph generators of topology phases (internal/topology/generate.go)  *)
(* under the configurations that TopologyConfig.Validate accepts            *)
(* (internal/model/topology.go).  Every random draw is a choice, so a       *)
(* behaviour is a run of the generator with some seed; a step is one        *)
(* iteration of its loops.  Canceled generations return no graph and are    *)
(* left out.  Nodes are 0 .. n - 1.                                         *)
(***************************************************************************)
EXTENDS Integers, FiniteSets, Sequences, SequencesExt, FiniteSetsExt

CONSTANTS MaxNodes,   \* bound on the cohort
          MaxEdges    \* MaxTopologyEdges

VARIABLES cfg,    \* the configuration and the number of nodes
          graph,  \* the builder: neighbour sets, edge counter, limit error
          pc,     \* the loop and its counters
          degree  \* the degreeTree and the targets chosen for a new node

vars == <<cfg, graph, pc, degree>>

Node == 0 .. cfg.n - 1

-----------------------------------------------------------------------------
(* Configurations *)

\* The number of edges Validate computes for the models that fix it; er with p = 1
\* and rgg with a radius of at least the square root of 2 are "complete".
PredictedEdges(c) ==
  CASE c.model = "ws" -> (c.n * c.k) \div 2
    [] c.model = "ba" -> c.m * (c.n - c.m)
    [] c.model = "complete" -> (c.n * (c.n - 1)) \div 2
    [] OTHER -> 0

Validate(c) ==
  /\ c.model = "ws" => c.k >= 2 /\ c.k % 2 = 0 /\ c.k < c.n
  /\ c.model = "ba" => c.m >= 1 /\ c.m < c.n
  /\ c.model \in {"grid", "triangular"} => c.rows * c.columns = c.n
  /\ PredictedEdges(c) <= MaxEdges

Size == 1 .. MaxNodes
Config ==
  {c \in [model : {"pairs", "complete"}, n : Size] \union [model : {"ws"}, n : Size, k : Size]
         \union [model : {"ba"}, n : Size, m : Size]
         \union [model : {"grid", "triangular"}, n : Size, rows : Size, columns : Size] :
     Validate(c)}

Start(c) ==
  CASE c.model \in {"pairs", "complete"} -> [at |-> "pairs", i |-> 0, j |-> 1]
    [] c.model = "ws" -> [at |-> "ring", i |-> 1, j |-> 0]
    [] c.model = "ba" -> [at |-> "star", i |-> 1, j |-> 0]
    [] OTHER -> [at |-> "lattice", i |-> 0, j |-> 0]

Init ==
  /\ cfg \in Config
  /\ graph = [nbr |-> [u \in Node |-> {}], edges |-> 0, err |-> FALSE]
  /\ pc = Start(cfg)
  /\ degree = [tree |-> [i \in 1 .. cfg.n |-> 0], total |-> 0, targets |-> <<>>]

\* builder.add: an edge is added once, in both neighbour sets.
Added(g, u, v) ==
  IF g.err \/ v \in g.nbr[u] THEN g
  ELSE IF u = v \/ g.edges >= MaxEdges THEN [g EXCEPT !.err = TRUE]
  ELSE [g EXCEPT !.nbr[u] = @ \union {v}, !.nbr[v] = @ \union {u}, !.edges = @ + 1]

At(loop) == pc.at = loop /\ ~graph.err
Goto(loop, i, j) == pc' = [at |-> loop, i |-> i, j |-> j]

-----------------------------------------------------------------------------
(* er, rgg and waxman: builder.pairs with any set of included pairs, or all *)

Pair ==
  /\ At("pairs")
  /\ \/ /\ pc.j < cfg.n
        /\ \/ graph' = Added(graph, pc.i, pc.j)
           \/ cfg.model # "complete" /\ UNCHANGED graph
        /\ Goto("pairs", pc.i, pc.j + 1)
     \/ /\ pc.j >= cfg.n
        /\ IF pc.i + 1 < cfg.n THEN Goto("pairs", pc.i + 1, pc.i + 2) ELSE Goto("done", 0, 0)
        /\ UNCHANGED graph
  /\ UNCHANGED <<cfg, degree>>

-----------------------------------------------------------------------------
(* wattsStrogatz: i is the offset, j the node *)

NextOffset(loop, after) ==
  IF pc.j + 1 < cfg.n THEN Goto(loop, pc.i, pc.j + 1)
  ELSE IF pc.i + 1 <= cfg.k \div 2 THEN Goto(loop, pc.i + 1, 0)
  ELSE Goto(after, 1, 0)

Ring ==
  /\ At("ring")
  /\ graph' = Added(graph, pc.j, (pc.j + pc.i) % cfg.n)
  /\ NextOffset("ring", "rewire")
  /\ UNCHANGED <<cfg, degree>>

\* The nodes a clockwise edge of u may be moved to: any of them may be hit by one
\* of the 16 draws.
Candidates(u) == Node \ (graph.nbr[u] \union {u})

\* When none of the draws hits, a rank is drawn, and the candidate of that rank is
\* found by counting.
Ranks(u) == 0 .. cfg.n - 1 - Cardinality(graph.nbr[u]) - 1
Ranked(u, rank) ==
  LET scan[c \in Nat, r \in Nat] ==
        IF c = cfg.n THEN -1
        ELSE IF c \notin Candidates(u) THEN scan[c + 1, r]
        ELSE IF r = 0 THEN c ELSE scan[c + 1, r - 1]
  IN  scan[0, rank]

Rewired(u, v, w) ==
  Added([graph EXCEPT !.nbr[u] = @ \ {v}, !.nbr[v] = @ \ {u}, !.edges = @ - 1], u, w)

Rewire ==
  /\ At("rewire")
  /\ \/ UNCHANGED graph
     \/ /\ Cardinality(graph.nbr[pc.j]) # cfg.n - 1
        /\ \E w \in Candidates(pc.j) \union {Ranked(pc.j, r) : r \in Ranks(pc.j)} :
             graph' = Rewired(pc.j, (pc.j + pc.i) % cfg.n, w)
  /\ NextOffset("rewire", "done")
  /\ UNCHANGED <<cfg, degree>>

-----------------------------------------------------------------------------
(* barabasiAlbert: a Fenwick tree of degrees *)

\* i & -i
LowBit(i) ==
  LET f[k \in Nat] == IF k % 2 = 1 THEN 1 ELSE 2 * f[k \div 2] IN f[i]

\* degreeTree.add
TreeAdd(d, index, delta) ==
  LET chain[i \in Nat] == IF i > cfg.n THEN {} ELSE {i} \union chain[i + LowBit(i)]
  IN  [d EXCEPT !.total = @ + delta,
                !.tree = [i \in 1 .. cfg.n |-> IF i \in chain[index + 1]
                                               THEN d.tree[i] + delta ELSE d.tree[i]]]

\* degreeTree.choose: descend by powers of two.
ChooseFrom(d, ticket, first) ==
  LET down[s \in Nat, index \in Nat, t \in Nat] ==
        IF s = 0 THEN index
        ELSE LET next == index + s IN
             IF next <= cfg.n /\ d.tree[next] <= t
               THEN down[s \div 2, next, t - d.tree[next]]
               ELSE down[s \div 2, index, t]
  IN  down[first, 0, ticket]

\* The smallest power of two that is not below the length of the tree, halved.
TopStep == LET up[s \in Nat] == IF s < cfg.n + 1 THEN up[2 * s] ELSE s IN up[1] \div 2

\* Mutant: the descent starts one step too low.
ChosenShort(d, ticket) == ChooseFrom(d, ticket, TopStep \div 2)
Chosen(d, ticket) == ChooseFrom(d, ticket, TopStep)

Degree(g, u) == Cardinality(g.nbr[u])

\* The m + 1 nodes of the star, and their degrees.
Star ==
  /\ At("star")
  /\ IF pc.i <= cfg.m
       THEN /\ graph' = Added(graph, 0, pc.i)
            /\ Goto("star", pc.i + 1, 0) /\ UNCHANGED degree
       ELSE /\ degree' = FoldLeft(LAMBDA d, v : TreeAdd(d, v, Degree(graph, v)),
                                  degree, [v \in 1 .. cfg.m + 1 |-> v - 1])
            /\ Goto("attach", cfg.m + 1, 0) /\ UNCHANGED graph
  /\ UNCHANGED cfg

\* Node i draws its j-th target, which cannot be drawn again.
Draw ==
  /\ At("attach") /\ pc.i < cfg.n /\ pc.j < cfg.m
  /\ \E ticket \in 0 .. degree.total - 1 :
       LET t == Chosen(degree, ticket) IN
       degree' = [TreeAdd(degree, t, -Degree(graph, t)) EXCEPT !.targets = Append(@, t)]
  /\ Goto("attach", pc.i, pc.j + 1)
  /\ UNCHANGED <<cfg, graph>>

\* Node i is linked to its targets, whose weights are restored and grow.
Attach ==
  /\ At("attach")
  /\ \/ /\ pc.i < cfg.n /\ pc.j = cfg.m
        /\ graph' = FoldLeft(LAMBDA g, t : Added(g, pc.i, t), graph, degree.targets)
        /\ degree' = TreeAdd(FoldLeft(LAMBDA d, t : TreeAdd(d, t, Degree(graph', t)),
                                      [degree EXCEPT !.targets = <<>>], degree.targets),
                             pc.i, cfg.m)
        /\ Goto("attach", pc.i + 1, 0)
     \/ /\ pc.i = cfg.n
        /\ Goto("done", 0, 0) /\ UNCHANGED <<graph, degree>>
  /\ UNCHANGED cfg

-----------------------------------------------------------------------------
(* lattice: i is the row, j the column *)

\* The node in the next row a triangular lattice adds, which depends on the
\* parity of the row.
Diagonal(row, column) == IF row % 2 = 1 THEN column + 1 ELSE column - 1

Lattice ==
  /\ At("lattice")
  /\ LET u == pc.i * cfg.columns + pc.j
         right == IF pc.j + 1 < cfg.columns THEN Added(graph, u, u + 1) ELSE graph
         down == IF pc.i + 1 < cfg.rows THEN Added(right, u, u + cfg.columns) ELSE right
         next == Diagonal(pc.i, pc.j)
     IN  graph' = IF /\ cfg.model = "triangular" /\ pc.i + 1 < cfg.rows
                     /\ next >= 0 /\ next < cfg.columns
                  THEN Added(down, u, (pc.i + 1) * cfg.columns + next) ELSE down
  /\ IF pc.j + 1 < cfg.columns THEN Goto("lattice", pc.i, pc.j + 1)
     ELSE IF pc.i + 1 < cfg.rows THEN Goto("lattice", pc.i + 1, 0)
     ELSE Goto("done", 0, 0)
  /\ UNCHANGED <<cfg, degree>>

-----------------------------------------------------------------------------

Next == Pair \/ Ring \/ Rewire \/ Star \/ Draw \/ Attach \/ Lattice

Spec == Init /\ [][Next]_vars

-----------------------------------------------------------------------------
(* Properties *)

Done == pc.at = "done" /\ ~graph.err

\* The positions of a lattice: twice x, and y in rows.
Column2(u) ==
  2 * (u % cfg.columns) + IF cfg.model = "triangular" THEN (u \div cfg.columns) % 2 ELSE 0
Row(u) == u \div cfg.columns
Distant(a, b) == IF a > b THEN a - b ELSE b - a

\* Two nodes of the lattice are neighbours exactly when their positions are
\* at distance one.
AtDistanceOne(u, v) ==
  LET dx == Distant(Column2(u), Column2(v))
      dy == Distant(Row(u), Row(v))
  IN  \/ dy = 0 /\ dx = 2
      \/ dy = 1 /\ dx = IF cfg.model = "triangular" THEN 1 ELSE 0

\* The graph is always simple and undirected and its counter is its number of
\* edges.  Models whose number of edges Validate predicts have exactly that
\* number at the end ("preserves a simple graph and the original edge count")
\* and so never hit the limit half way, every node that was attached has m
\* neighbours, and a lattice joins exactly the nodes at distance one.
GraphIsExact ==
  /\ \A u \in Node : u \notin graph.nbr[u] /\ \A v \in graph.nbr[u] : u \in graph.nbr[v]
  /\ 2 * graph.edges = MapThenSumSet(LAMBDA u : Degree(graph, u), Node)
  /\ cfg.model \in {"ws", "ba", "complete"} => ~graph.err /\ (Done => graph.edges = PredictedEdges(cfg))
  /\ Done /\ cfg.model = "ba" => \A u \in Node \ 0 .. cfg.m : Degree(graph, u) >= cfg.m
  /\ Done /\ cfg.model \in {"grid", "triangular"} =>
       \A u, v \in Node : v \in graph.nbr[u] <=> AtDistanceOne(u, v)

\* A rank that is drawn for a rewired edge meets each candidate exactly once: "an
\* exact uniform rank among valid targets".  And
\* whenever a target is drawn there is something to draw, and the tickets fall
\* on the earlier nodes in proportion to their degrees, never on a node that
\* was drawn already or is not attached yet: "m distinct existing nodes with
\* probability proportional to their degrees".
SamplingIsExact ==
  /\ pc.at = "rewire" /\ Cardinality(graph.nbr[pc.j]) # cfg.n - 1 =>
       \A w \in -1 .. cfg.n - 1 :
         Cardinality({r \in Ranks(pc.j) : Ranked(pc.j, r) = w})
           = IF w \in Candidates(pc.j) THEN 1 ELSE 0
  /\ pc.at = "attach" /\ pc.i < cfg.n /\ pc.j < cfg.m =>
       /\ degree.total > 0
       /\ \A u \in Node :
            Cardinality({t \in 0 .. degree.total - 1 : Chosen(degree, t) = u})
              = IF u >= pc.i \/ u \in Range(degree.targets) THEN 0 ELSE Degree(graph, u)

\* The graph and the sampling that made it are exact.
GraphIsSound == GraphIsExact /\ SamplingIsExact
=============================================================================
