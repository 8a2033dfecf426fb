-------------------------- MODULE WorkQueueProofs --------------------------
(***************************************************************************)
(* QueueIsolates and CleanupRemembered for any work and continuations of   *)
(* it, any runs, restarts and failed writes: the queue, the records, the   *)
(* steps of the head, the steps beside it, and the theorems.               *)
(***************************************************************************)
EXTENDS WorkQueue, SequenceTheorems, TLAPS

Pcs == {"new", "wait", "scan", "merge", "drain", "seal", "clear", "retire", "leave", "start", "analyze",
        "phases", "stop", "final", "exit", "done", "dead"}
Before == {"new", "wait", "scan", "merge", "drain", "seal", "clear", "retire", "leave"}  \* no run has begun
Running == {"phases", "stop", "final"}                                 \* a run has begun
Past == Pcs \ {"new", "wait", "exit", "done", "dead"}                  \* past the turn
Owned == Pcs \ {"new", "done", "dead"}                                 \* owned by a worker

Records ==
  [state : {"none", "queued", "running", "canceled", "interrupted", "completed", "failed"},
   cleanup : {"", "pending", "running", "failed", "retained", "complete"},
   data : {"", "pending", "collecting", "complete", "incomplete", "unverified"},
   started : BOOLEAN, agents : BOOLEAN]

Shape ==
  /\ plan \in Plans /\ runsOf \in [Work -> Seq(Run)] /\ repetitions \in [Work -> Nat]
  /\ attempts \in [Work -> Seq(Run)] /\ previous \in [Run -> SUBSET Run]
  /\ cleanupRuns \in [Work -> SUBSET Run]
  /\ queue \in Seq(Work) /\ pc \in [Work -> Pcs] /\ opened \subseteq Work
  /\ idx \in [Work -> Nat \ {0}] /\ closed \in [Work -> BOOLEAN] /\ bad \in [Work -> BOOLEAN]
  /\ mem \in [Run -> Records] /\ disk \in [Run -> Records]
  /\ candidates \subseteq Run /\ queueCleanup \subseteq Run /\ markers \subseteq Run
  /\ live \subseteq Run /\ forgotten \subseteq Run

\* The queue holds the slots of present workers, each once; those behind the head
\* wait, and a slot that was opened is the head until its worker has left.
Ordered ==
  /\ \A i, j \in DOMAIN queue : queue[i] = queue[j] => i = j
  /\ \A i \in DOMAIN queue : pc[queue[i]] \in Owned /\ (i > 1 => pc[queue[i]] = "wait")
  /\ \A w \in opened : pc[w] \in {"done", "dead"} \/ IsHead(w)
  /\ \A w \in Work : pc[w] \in Past => IsHead(w)

\* The Peers of an item exist only after its turn, and are forgotten only at its end.
Unborn ==
  \A w \in Work :
    /\ pc[w] \in Before => live \cap Members(w) = {}
    /\ pc[w] \notin {"exit", "done", "dead"} => forgotten \cap Members(w) = {}

\* Nobody knows the IDs that an item will draw.
Own(w) == Range(plan[w].fresh)
Fresh ==
  \A w \in Work : pc[w] = "new" =>
    /\ runsOf[w] = <<>> /\ idx[w] = 1
    /\ \A r \in Own(w) : r \notin deleted /\ disk[r] = NoRun /\ mem[r] = NoRun
    /\ \A r \in Own(w) : r \notin live /\ r \notin forgotten
    /\ \A b \in Work : Own(w) \cap Range(attempts[b]) = {}

\* A worker has a current run, or none.
Iterates ==
  \A w \in Work :
    /\ runsOf[w] # <<>> => idx[w] <= Len(runsOf[w])
    /\ pc[w] \in Running => runsOf[w] # <<>>
    /\ Len(runsOf[w]) <= repetitions[w]

\* No run is in the hands of two workers, or twice in those of one.
Separate ==
  /\ \A w \in Work : IsInjective(runsOf[w]) /\ IsInjective(attempts[w])
  /\ \A v, w \in Work : v # w /\ pc[v] \in Owned /\ pc[w] \in Owned => Members(v) \cap Members(w) = {}

\* The records of an item exist until its worker has left; a deleted one never again.
Recorded ==
  /\ \A w \in Work : pc[w] \in Owned => \A r \in Members(w) : r \notin deleted /\ mem[r] # NoRun
  /\ \A r \in Run : r \in deleted => disk[r] = NoRun /\ mem[r] = NoRun

\* A run that has, or had, Peers is recorded as started: it is never resumed.
Started(run) == run = NoRun \/ run.started
Marked == \A r \in live \cup forgotten : Started(mem[r]) /\ Started(disk[r])

\* The Peers that a worker past its turn may find.
Confined(w) ==
  /\ pc[w] \in {"scan", "merge"} => live \cap scheduled = {}
  /\ pc[w] = "merge" => live \subseteq forgotten \cup (candidates \ scheduled) \cup queueCleanup
  /\ pc[w] = "drain" => live \subseteq forgotten \cup queueCleanup
  /\ pc[w] \in {"seal", "clear"} => live \subseteq forgotten \cup (queueCleanup \ ids)
  /\ pc[w] \in {"retire", "start", "analyze"} => live \subseteq forgotten
  /\ pc[w] \in Running => live \subseteq forgotten \cup {Current(w)}

\* The record in memory of a run that has begun says so, and the one on disk, once
\* an Agent is known.
Begun(w) ==
  pc[w] \in Running =>
    LET r == Current(w)
    IN  /\ mem[r].started /\ mem[r].data = "collecting" /\ mem[r].cleanup \in {"pending", "running"}
        /\ mem[r].agents => /\ disk[r].started /\ disk[r].data = "collecting"
                            /\ disk[r].cleanup \in {"pending", "running"}
        /\ r \in live => mem[r].agents /\ ~closed[w]
        /\ pc[w] = "final" => ~bad[w] /\ ~Repeated(w)

\* The runs that a worker has not begun have no Agents.
Ahead(w) ==
  pc[w] \in Owned \ {"exit"} =>
    \A i \in DOMAIN runsOf[w] :
      i > idx[w] \/ (i = idx[w] /\ pc[w] \notin Running) => ~mem[runsOf[w][i]].agents

IInv ==
  /\ Shape /\ Ordered /\ Unborn /\ Fresh /\ Iterates /\ Separate /\ Recorded /\ Marked
  /\ \A w \in Work : Confined(w) /\ Begun(w) /\ Ahead(w)
  /\ CleanupRemembered
-----------------------------------------------------------------------------
(* Sequences and runs *)

\* slices.Delete of one element.
RemoveAt(s, i) == SubSeq(s, 1, i - 1) \o SubSeq(s, i + 1, Len(s))

LEMMA RemoveAtFacts ==
  ASSUME NEW S, NEW s \in Seq(S), NEW i \in 1..Len(s)
  PROVE  /\ RemoveAt(s, i) \in Seq(S) /\ Len(RemoveAt(s, i)) = Len(s) - 1
         /\ \A j \in 1..(Len(s) - 1) : RemoveAt(s, i)[j] = IF j < i THEN s[j] ELSE s[j + 1]
<1>3. Len(s) \in Nat /\ DOMAIN s = 1..Len(s) /\ \A j \in 1..Len(s) : s[j] \in S
  OBVIOUS
<1>1. PICK a \in Seq(S) : a = SubSeq(s, 1, i - 1)
  <2>1. \A j \in 1..(i - 1) : s[j] \in S
    BY <1>3
  <2>2. SubSeq(s, 1, i - 1) \in Seq(S)
    BY <2>1, <1>3, SubSeqProperties
  <2> QED
    BY <2>2, Zenon
<1>2. PICK b \in Seq(S) : b = SubSeq(s, i + 1, Len(s))
  <2>1. \A j \in (i + 1)..Len(s) : s[j] \in S
    BY <1>3
  <2>2. SubSeq(s, i + 1, Len(s)) \in Seq(S)
    BY <2>1, <1>3, SubSeqProperties
  <2> QED
    BY <2>2, Zenon
<1>4. Len(a) = i - 1 /\ \A j \in 1..(i - 1) : a[j] = s[j]
  BY <1>1, <1>3, SubSeqProperties
<1>5. Len(b) = Len(s) - i /\ \A j \in 1..(Len(s) - i) : b[j] = s[i + j]
  <2>1. \A j \in (i + 1)..Len(s) : s[j] \in S
    BY <1>3
  <2>2. i + 1 \in Int /\ Len(s) \in Int
    BY <1>3
  <2>3. /\ Len(b) = IF i + 1 <= Len(s) THEN Len(s) - (i + 1) + 1 ELSE 0
        /\ \A j \in 1..(Len(s) - (i + 1) + 1) : b[j] = s[i + 1 + j - 1]
    BY <1>2, <2>1, <2>2, SubSeqProperties
  <2>4. Len(b) = Len(s) - i
    <3>1. PICK n \in Nat : n = Len(s) /\ i \in 1..n
      BY <1>3, Zenon
    <3>2. Len(b) = IF i + 1 <= n THEN n - (i + 1) + 1 ELSE 0
      BY <2>3, <3>1, Zenon
    <3> QED
      BY <3>1, <3>2
  <2>5. Len(s) - (i + 1) + 1 = Len(s) - i /\ \A j \in 1..(Len(s) - i) : i + 1 + j - 1 = i + j
    BY <1>3
  <2> QED
    BY <2>3, <2>4, <2>5, Zenon
<1>6. /\ a \o b \in Seq(S) /\ Len(a \o b) = Len(a) + Len(b)
      /\ \A j \in 1..(Len(a) + Len(b)) : (a \o b)[j] = IF j <= Len(a) THEN a[j] ELSE b[j - Len(a)]
  BY ConcatProperties, Zenon
<1>7. RemoveAt(s, i) = a \o b
  BY <1>1, <1>2, Zenon DEF RemoveAt
<1>8. Len(a) + Len(b) = Len(s) - 1
  BY <1>3, <1>4, <1>5
<1>9. ASSUME NEW j \in 1..(Len(s) - 1)
      PROVE  (a \o b)[j] = IF j < i THEN s[j] ELSE s[j + 1]
  <2>1. CASE j < i
    BY <1>3, <1>4, <1>6, <1>8, <2>1
  <2>2. CASE ~(j < i)
    <3>1. (a \o b)[j] = b[j - (i - 1)]
      BY <1>3, <1>4, <1>6, <1>8, <2>2
    <3>2. j - (i - 1) \in 1..(Len(s) - i) /\ i + (j - (i - 1)) = j + 1
      BY <1>3, <2>2
    <3> QED
      BY <1>5, <2>2, <3>1, <3>2, Zenon
  <2> QED
    BY <2>1, <2>2, Zenon
<1> QED
  BY <1>6, <1>7, <1>8, <1>9, Zenon

LEMMA MembersFacts ==
  ASSUME Shape
  PROVE  \A w \in Work : /\ runsOf[w] \in Seq(Run) /\ Members(w) \subseteq Run
                         /\ DOMAIN runsOf[w] = 1..Len(runsOf[w]) /\ Len(runsOf[w]) \in Nat
<1>1. \A w \in Work : runsOf[w] \in Seq(Run)
  BY Zenon DEF Shape
<1>2. ASSUME NEW s \in Seq(Run)
      PROVE  (\A i \in DOMAIN s : s[i] \in Run) /\ DOMAIN s = 1..Len(s) /\ Len(s) \in Nat
  OBVIOUS
<1> QED
  BY <1>1, <1>2, Zenon DEF Members, Range

\* The IDs that an item draws are random.
LEMMA OwnFacts ==
  ASSUME Shape, NEW w \in Work
  PROVE  /\ plan[w].fresh \in Seq(Run) /\ IsInjective(plan[w].fresh) /\ plan[w].of \in Work
         /\ Own(w) \subseteq Run /\ \A v \in Work : v # w => Own(v) \cap Own(w) = {}
<1>1. plan \in Plans
  BY Zenon DEF Shape
<1>2. plan \in [Work -> [kind : Kinds, of : Work, fresh : Seq(Run)]]
  BY <1>1, WorkQueueConstants, Zenon
<1>3. plan[w].fresh \in Seq(Run) /\ plan[w].of \in Work
  BY <1>2, Zenon
<1>4. ASSUME NEW s \in Seq(Run) PROVE \A i \in DOMAIN s : s[i] \in Run
  OBVIOUS
<1>5. Own(w) \subseteq Run
  BY <1>3, <1>4, Zenon DEF Own, Range
<1>6. IsInjective(plan[w].fresh) /\ \A v \in Work : v # w => Own(v) \cap Own(w) = {}
  BY <1>1, WorkQueueConstants, Zenon DEF Own
<1> QED
  BY <1>3, <1>5, <1>6, Zenon

\* The current run of a worker is one of its submission.
LEMMA CurrentFacts ==
  ASSUME Shape, Iterates, NEW w \in Work, runsOf[w] # <<>>
  PROVE  Current(w) \in Members(w) /\ Current(w) \in Run /\ idx[w] \in DOMAIN runsOf[w]
<1>1. runsOf[w] \in Seq(Run) /\ Members(w) \subseteq Run
  BY MembersFacts, Zenon
<1>2. idx[w] \in 1..Len(runsOf[w])
  BY <1>1 DEF Shape, Iterates
<1>3. idx[w] \in DOMAIN runsOf[w]
  BY <1>1, <1>2
<1> QED
  BY <1>1, <1>3, Zenon DEF Current, Members, Range

\* The runs of two workers are different.
LEMMA OwnedApart ==
  ASSUME IInv, NEW v \in Work, NEW w \in Work, v # w, pc[v] \in Owned, pc[w] \in Owned
  PROVE  \A r \in Members(v) : r \notin Members(w)
BY Zenon DEF IInv, Separate

\* The runs of a worker are recorded, and those that another item will draw are not.
LEMMA OwnedIsRecorded ==
  ASSUME IInv, NEW w \in Work, pc[w] \in Owned, NEW r \in Members(w)
  PROVE  /\ r \in Run /\ r \notin deleted /\ mem[r] # NoRun
         /\ \A v \in Work : pc[v] = "new" => r \notin Own(v)
<1>1. r \in Run
  BY MembersFacts, Zenon DEF IInv
<1>2. r \notin deleted /\ mem[r] # NoRun
  BY Zenon DEF IInv, Recorded
<1>3. \A v \in Work : pc[v] = "new" => r \notin Own(v)
  BY <1>2, Zenon DEF IInv, Fresh
<1> QED
  BY <1>1, <1>2, <1>3, Zenon
-----------------------------------------------------------------------------
(* The queue *)

LEMMA HeadFacts ==
  ASSUME Shape, NEW w
  PROVE  /\ IsHead(w) <=> Len(queue) > 0 /\ queue[1] = w
         /\ DOMAIN queue = 1..Len(queue) /\ Len(queue) \in Nat
         /\ \A i \in DOMAIN queue : queue[i] \in Work
<1>1. queue \in Seq(Work)
  BY Zenon DEF Shape
<1>2. ASSUME NEW q \in Seq(Work)
      PROVE  /\ q # <<>> <=> Len(q) > 0
             /\ q # <<>> => Head(q) = q[1]
             /\ DOMAIN q = 1..Len(q) /\ Len(q) \in Nat
             /\ \A i \in DOMAIN q : q[i] \in Work
  OBVIOUS
<1> QED
  BY <1>1, <1>2, Zenon DEF IsHead

\* The head's worker takes a step.
LEMMA MoveKeepsOrder ==
  ASSUME Shape, Ordered, NEW w \in Work, IsHead(w), pc[w] \in Owned,
         NEW to \in Past \cup {"exit"}, pc' = [pc EXCEPT ![w] = to], UNCHANGED <<queue, opened>>
  PROVE  /\ Ordered' /\ pc'[w] = to
         /\ \A v \in Work : v # w => pc'[v] = pc[v] /\ pc[v] \notin Past
<1>1. /\ pc'[w] = to /\ \A v \in Work : v # w => pc'[v] = pc[v]
  BY Zenon DEF Shape
<1>2. Len(queue) > 0 /\ queue[1] = w /\ DOMAIN queue = 1..Len(queue) /\ Len(queue) \in Nat
      /\ \A i \in DOMAIN queue : queue[i] \in Work
  BY HeadFacts, Zenon
<1>3. \A v : IsHead(v)' <=> IsHead(v)
  BY Zenon DEF IsHead
<1>4. \A v \in Work : v # w => pc[v] \notin Past
  BY Zenon DEF Ordered, IsHead
<1>5. ASSUME NEW i \in DOMAIN queue
      PROVE  pc'[queue[i]] \in Owned /\ (i > 1 => pc'[queue[i]] = "wait")
  <2>1. CASE queue[i] = w
    <3>1. i = 1
      BY <1>2, <2>1 DEF Ordered
    <3> QED
      BY <1>1, <2>1, <3>1 DEF Past, Owned, Pcs
  <2>2. CASE queue[i] # w
    BY <1>1, <1>2, <2>2, Zenon DEF Ordered
  <2> QED
    BY <2>1, <2>2, Zenon
<1>6. \A v \in opened : pc'[v] \in {"done", "dead"} \/ IsHead(v)
  BY <1>1, Zenon DEF Ordered, Shape
<1>7. \A v \in Work : pc'[v] \in Past => IsHead(v)
  BY <1>1, <1>4, Zenon
<1> QED
  BY <1>1, <1>3, <1>4, <1>5, <1>6, <1>7, Zenon DEF Ordered

\* A slot that is not in the queue, or not yet its worker's, leaves it.
LEMMA RemoveKeepsOrder ==
  ASSUME Shape, Ordered, NEW w \in Work, RemoveWork(w), NEW to \in Pcs \ Past,
         pc' = [pc EXCEPT ![w] = to],
         IsHead(w) => to \in {"done", "dead"}, to = "new" => FALSE
  PROVE  queue' \in Seq(Work) /\ opened' \subseteq Work /\ Ordered'
<1>1. PICK i \in 1..Len(queue) :
        /\ queue[i] = w /\ queue' = RemoveAt(queue, i)
        /\ OpenHead(queue')
  BY Zenon DEF RemoveWork, RemoveAt
<1>2. /\ queue' \in Seq(Work) /\ Len(queue') = Len(queue) - 1
      /\ \A j \in 1..(Len(queue) - 1) : queue'[j] = IF j < i THEN queue[j] ELSE queue[j + 1]
  <2>1. queue \in Seq(Work)
    BY Zenon DEF Shape
  <2> QED
    BY <1>1, <2>1, RemoveAtFacts, Zenon
<1>3. /\ DOMAIN queue = 1..Len(queue) /\ Len(queue) \in Nat
      /\ \A j \in DOMAIN queue : queue[j] \in Work
      /\ \A v : IsHead(v) <=> Len(queue) > 0 /\ queue[1] = v
  BY HeadFacts, Zenon
<1>4. /\ DOMAIN queue' = 1..(Len(queue) - 1)
      /\ \A v : IsHead(v)' <=> Len(queue) - 1 > 0 /\ queue'[1] = v
  <2>1. ASSUME NEW q \in Seq(Work)
        PROVE  /\ q # <<>> <=> Len(q) > 0
               /\ q # <<>> => Head(q) = q[1]
               /\ DOMAIN q = 1..Len(q)
    OBVIOUS
  <2> QED
    BY <1>2, <2>1, Zenon DEF IsHead
<1>5. pc'[w] = to /\ \A v \in Work : v # w => pc'[v] = pc[v]
  BY Zenon DEF Shape
<1>6. \A j \in DOMAIN queue' : \E k \in DOMAIN queue :
        /\ queue'[j] = queue[k] /\ k # i /\ k = IF j < i THEN j ELSE j + 1
  <2> SUFFICES ASSUME NEW j \in 1..(Len(queue) - 1)
               PROVE  \E k \in DOMAIN queue :
                        queue'[j] = queue[k] /\ k # i /\ k = IF j < i THEN j ELSE j + 1
    BY <1>4, Zenon
  <2>1. CASE j < i
    BY <1>2, <1>3, <2>1
  <2>2. CASE ~(j < i)
    BY <1>2, <1>3, <2>2
  <2> QED
    BY <2>1, <2>2, Zenon
<1>7. ASSUME NEW j \in DOMAIN queue', NEW k \in DOMAIN queue', queue'[j] = queue'[k]
      PROVE  j = k
  <2>1. PICK a \in DOMAIN queue : queue'[j] = queue[a] /\ a = IF j < i THEN j ELSE j + 1
    BY <1>6, Zenon
  <2>2. PICK b \in DOMAIN queue : queue'[k] = queue[b] /\ b = IF k < i THEN k ELSE k + 1
    BY <1>6, Zenon
  <2>3. a = b
    BY <1>7, <2>1, <2>2, Zenon DEF Ordered
  <2>4. j \in Nat /\ k \in Nat /\ i \in Nat
    BY <1>3, <1>4
  <2> QED
    BY <2>1, <2>2, <2>3, <2>4
<1>8. ASSUME NEW j \in DOMAIN queue'
      PROVE  pc'[queue'[j]] \in Owned /\ (j > 1 => pc'[queue'[j]] = "wait")
  <2>1. PICK k \in DOMAIN queue : queue'[j] = queue[k] /\ k # i /\ k = IF j < i THEN j ELSE j + 1
    BY <1>6, Zenon
  <2>2. queue[k] # w /\ queue[k] \in Work
    BY <1>1, <1>3, <2>1, Zenon DEF Ordered
  <2>3. j > 1 => k > 1
    BY <1>3, <1>4, <2>1
  <2> QED
    BY <1>5, <2>1, <2>2, <2>3, Zenon DEF Ordered
<1>9. \A v \in Work : IsHead(v) /\ v # w => IsHead(v)'
  BY <1>1, <1>2, <1>3, <1>4
<1>10. opened' = opened \/ \E v \in Work : opened' = opened \cup {v} /\ IsHead(v)'
  <2>1. CASE queue' = <<>>
    BY <1>1, <2>1, Zenon DEF OpenHead
  <2>2. CASE queue' # <<>>
    <3>1. Head(queue') \in Work
      BY <1>2, <2>2
    <3> QED
      BY <1>1, <2>2, <3>1, Zenon DEF OpenHead, IsHead
  <2> QED
    BY <2>1, <2>2, Zenon
<1>11. opened' \subseteq Work
  BY <1>10, Zenon DEF Shape
<1>12. \A v \in opened' : pc'[v] \in {"done", "dead"} \/ IsHead(v)'
  <2>1. \A v \in opened : pc'[v] \in {"done", "dead"} \/ IsHead(v)'
    <3>1. pc[w] \notin {"done", "dead"}
      BY <1>1, <1>3, Zenon DEF Ordered, Owned
    <3>2. ASSUME NEW v \in opened, v # w PROVE pc'[v] \in {"done", "dead"} \/ IsHead(v)'
      BY <1>5, <1>9, <3>2, Zenon DEF Ordered, Shape
    <3>3. w \in opened => pc'[w] \in {"done", "dead"}
      BY <1>5, <3>1, Zenon DEF Ordered
    <3> QED
      BY <3>2, <3>3, Zenon
  <2> QED
    BY <1>10, <2>1, Zenon
<1>13. \A v \in Work : pc'[v] \in Past => IsHead(v)'
  BY <1>5, <1>9, Zenon DEF Ordered
<1> QED
  BY <1>2, <1>7, <1>8, <1>11, <1>12, <1>13, Zenon DEF Ordered

\* A worker that is not in the queue stops without disturbing it.
LEMMA OutsideKeepsOrder ==
  ASSUME Shape, Ordered, NEW w \in Work, UNCHANGED <<queue, opened>>, w \notin Range(queue),
         \A v \in Work : v # w => pc'[v] = pc[v], pc'[w] \notin Past,
         w \in opened => pc'[w] \in {"done", "dead"}
  PROVE  queue' \in Seq(Work) /\ opened' \subseteq Work /\ Ordered'
<1>1. \A i \in DOMAIN queue : queue[i] # w /\ queue[i] \in Work
  BY HeadFacts, Zenon DEF Range
<1>2. \A v : IsHead(v)' <=> IsHead(v)
  BY Zenon DEF IsHead
<1>3. \A i \in DOMAIN queue' : pc'[queue'[i]] \in Owned /\ (i > 1 => pc'[queue'[i]] = "wait")
  BY <1>1, Zenon DEF Ordered
<1>4. opened \subseteq Work
  BY Zenon DEF Shape
<1>5. \A v \in opened' : pc'[v] \in {"done", "dead"} \/ IsHead(v)'
  BY <1>2, <1>4, Zenon DEF Ordered
<1>6. \A v \in Work : pc'[v] \in Past => IsHead(v)'
  BY <1>2, Zenon DEF Ordered
<1>7. \A i, j \in DOMAIN queue' : queue'[i] = queue'[j] => i = j
  BY Zenon DEF Ordered
<1>8. queue \in Seq(Work)
  BY Zenon DEF Shape
<1> QED
  BY <1>3, <1>4, <1>5, <1>6, <1>7, <1>8, Zenon DEF Ordered

-----------------------------------------------------------------------------
(* The records *)

\* No record appears, and none of a run that was started loses that.
Gentle ==
  \A r \in Run :
    /\ mem[r] = NoRun /\ disk[r] = NoRun => mem'[r] = NoRun /\ disk'[r] = NoRun
    /\ mem[r] = NoRun /\ disk[r] = NoRun /\ r \in deleted' => r \in deleted
    /\ Started(mem[r]) /\ Started(disk[r]) => Started(mem'[r]) /\ Started(disk'[r])

\* Records are rewritten, but none appears or disappears; those outside X name no
\* new Agents.
Kept(X) ==
  /\ deleted' = deleted /\ mem' \in [Run -> Records] /\ disk' \in [Run -> Records] /\ Gentle
  /\ \A r \in Run : /\ mem[r] # NoRun => mem'[r] # NoRun
                    /\ r \notin X /\ mem[r] # NoRun /\ ~mem[r].agents => ~mem'[r].agents

LEMMA RecordedIsKept ==
  ASSUME Shape, Recorded, NEW X, Kept(X), UNCHANGED batches,
         \A v \in Work : pc'[v] \in Owned => pc[v] \in Owned
  PROVE  Recorded'
<1>1. \A v \in Work : Members(v)' = Members(v) /\ Members(v) \subseteq Run
  BY MembersFacts, Zenon DEF Members, batches
<1> QED
  BY <1>1, Zenon DEF Recorded, Kept, Gentle

LEMMA NothingWritten ==
  ASSUME Shape, UNCHANGED <<mem, disk, deleted>>
  PROVE  Kept({})
BY Zenon DEF Shape, Kept, Gentle

\* What updateExperiment may write: records that keep the start and the Agents.
Revision(new) ==
  /\ new \in [Run -> Records]
  /\ \A r \in Run : new[r] # NoRun /\ (mem[r].started => new[r].started) /\ new[r].agents = mem[r].agents

\* updateExperiment
LEMMA UpdateFacts ==
  ASSUME Shape, NEW S, NEW new, Revision(new), Update(S, new), deleted' = deleted
  PROVE  /\ Kept({})
         /\ \A r \in Run : r \notin S => mem'[r] = mem[r] /\ disk'[r] = disk[r]
         /\ \A r \in Run : r \in S /\ r \notin deleted /\ mem[r] # NoRun => mem'[r] = new[r]
         /\ \A r \in Run : disk'[r] = disk[r] \/ (r \in S /\ disk'[r] = new[r])
<1> DEFINE T == {r \in S : r \notin deleted /\ mem[r] # NoRun}
<1>0. PICK W \in SUBSET T :
        /\ mem' = [r \in Run |-> IF r \in T THEN new[r] ELSE mem[r]]
        /\ disk' = [r \in Run |-> IF r \in W THEN new[r] ELSE disk[r]]
  BY Zenon DEF Update
<1>1. /\ \A r \in Run : r \in T <=> (r \in S /\ r \notin deleted /\ mem[r] # NoRun)
      /\ \A r \in Run : r \in W => r \in T
      /\ mem' = [r \in Run |-> IF r \in T THEN new[r] ELSE mem[r]]
      /\ disk' = [r \in Run |-> IF r \in W THEN new[r] ELSE disk[r]]
  BY <1>0, Zenon
<1> HIDE DEF T
<1>2. mem' \in [Run -> Records] /\ disk' \in [Run -> Records]
  BY <1>1, Zenon DEF Shape, Revision
<1>3. \A r \in Run : /\ mem'[r] = IF r \in T THEN new[r] ELSE mem[r]
                     /\ disk'[r] = IF r \in W THEN new[r] ELSE disk[r]
  BY <1>1, Zenon
<1>4. \A r \in Run : r \in T => mem[r] # NoRun /\ new[r] # NoRun
  BY <1>1, Zenon DEF Revision
<1>5. Gentle
  <2>1. \A r \in Run : r \in T /\ Started(mem[r]) => Started(new[r])
    BY <1>4, Zenon DEF Started, Revision
  <2> QED
    BY <1>1, <1>3, <1>4, <2>1, Zenon DEF Gentle
<1> QED
  BY <1>1, <1>2, <1>3, <1>4, <1>5, Zenon DEF Kept, Revision

LEMMA UpdateOne ==
  ASSUME Shape, NEW r \in Run, r \notin deleted, mem[r] # NoRun, NEW new, Revision(new),
         Update({r}, new), deleted' = deleted
  PROVE  Kept({}) /\ mem'[r] = new[r] /\ (disk'[r] = disk[r] \/ disk'[r] = new[r])
<1>1. PICK S : S = {r}
  BY Zenon
<1>2. Update(S, new) /\ r \in S
  BY <1>1, Zenon
<1> QED
  BY <1>2, UpdateFacts, Zenon

-----------------------------------------------------------------------------
(* The steps of the worker whose turn it is *)

\* The runs that are still ahead of the head, when it moves or a record changes.
LEMMA AheadKeeps ==
  ASSUME IInv, NEW w \in Work, pc[w] \in Owned \ {"exit"}, NEW to \in Pcs, pc'[w] = to,
         UNCHANGED batches, NEW X, Kept(X),
         X = {} \/ (X = {Current(w)} /\ to \in Running /\ idx'[w] = idx[w]),
         to \in Running => runsOf[w] # <<>>,
         idx'[w] = idx[w] \/ idx'[w] = idx[w] + 1,
         to \notin Running \cup {"exit"} /\ pc[w] \in Running => idx'[w] = idx[w] + 1
  PROVE  Ahead(w)'
<1> SUFFICES ASSUME pc'[w] \in Owned \ {"exit"}, NEW i \in DOMAIN runsOf[w],
                    i > idx'[w] \/ (i = idx'[w] /\ pc'[w] \notin Running)
             PROVE  ~mem'[runsOf[w][i]].agents
  BY Zenon DEF Ahead, batches
<1>1. runsOf[w] \in Seq(Run) /\ DOMAIN runsOf[w] = 1..Len(runsOf[w]) /\ Len(runsOf[w]) \in Nat
  BY MembersFacts, Zenon DEF IInv
<1>2. i \in Nat /\ idx[w] \in Nat
  BY <1>1 DEF IInv, Shape
<1>3. i > idx[w] \/ (i = idx[w] /\ pc[w] \notin Running)
  BY <1>2
<1>4. ~mem[runsOf[w][i]].agents
  BY <1>3, Zenon DEF IInv, Ahead
<1>5. runsOf[w][i] \in Members(w)
  BY Zenon DEF Members, Range
<1>6. runsOf[w][i] \in Run /\ mem[runsOf[w][i]] # NoRun
  BY <1>5, OwnedIsRecorded, Zenon
<1>7. runsOf[w][i] \notin X
  <2>1. CASE X = {}
    BY <2>1, Zenon
  <2>2. CASE X = {Current(w)} /\ to \in Running /\ idx'[w] = idx[w]
    <3>1. i # idx[w]
      BY <1>2, <2>2
    <3>2. idx[w] \in DOMAIN runsOf[w]
      BY <2>2, CurrentFacts, Zenon DEF IInv
    <3>3. IsInjective(runsOf[w])
      BY Zenon DEF IInv, Separate
    <3>4. runsOf[w][i] # Current(w)
      BY <3>1, <3>2, <3>3, Zenon DEF IsInjective, Current
    <3> QED
      BY <2>2, <3>4, Zenon
  <2> QED
    BY <2>1, <2>2, Zenon
<1> QED
  BY <1>4, <1>6, <1>7, Zenon DEF Kept

\* An item that was not submitted has no runs.
LEMMA FreshIsEmpty ==
  ASSUME IInv, NEW w \in Work, pc[w] = "new"
  PROVE  Members(w) = {}
<1>1. runsOf[w] = <<>>
  BY Zenon DEF IInv, Fresh
<1>2. DOMAIN <<>> = {}
  OBVIOUS
<1> QED
  BY <1>1, <1>2, Zenon DEF Members, Range

LEMMA HeadKeeps ==
  ASSUME IInv, NEW w \in Work, IsHead(w), pc[w] \in Past \cup {"wait"},
         NEW to \in Past \cup {"exit"}, pc' = [pc EXCEPT ![w] = to],
         to \in Before => pc[w] \in Before,
         UNCHANGED <<batches, queue, opened>>, NEW X, Kept(X),
         X = {} \/ (X = {Current(w)} /\ to \in Running /\ idx'[w] = idx[w]),
         idx' \in [Work -> Nat \ {0}], \A v \in Work : v # w => idx'[v] = idx[v],
         idx'[w] = idx[w] \/ idx'[w] = idx[w] + 1,
         to \notin Running \cup {"exit"} /\ pc[w] \in Running => idx'[w] = idx[w] + 1,
         runsOf[w] # <<>> => idx'[w] <= Len(runsOf[w]),
         closed' \in [Work -> BOOLEAN], bad' \in [Work -> BOOLEAN],
         candidates' \subseteq Run, queueCleanup' \subseteq Run, markers' \subseteq Run,
         \/ live' \subseteq live
         \/ /\ live' = live \cup {Current(w)} /\ to \in Running
            /\ Started(mem'[Current(w)]) /\ Started(disk'[Current(w)]),
         forgotten' = forgotten \/ (to = "exit" /\ forgotten' \subseteq forgotten \cup (Members(w) \cap live)),
         to \in Running => runsOf[w] # <<>>,
         Confined(w)', Begun(w)', CleanupRemembered'
  PROVE  IInv'
<1>1. /\ Ordered' /\ pc'[w] = to /\ pc[w] \in Owned \ {"exit"}
      /\ \A v \in Work : v # w => pc'[v] = pc[v] /\ pc[v] \notin Past
  BY MoveKeepsOrder, Zenon DEF IInv, Past, Owned, Pcs
<1>2. \A v \in Work : Members(v)' = Members(v) /\ Members(v) \subseteq Run
  BY MembersFacts, Zenon DEF Members, IInv, batches
<1>3. to \in Running => Current(w) \in Members(w)
  BY CurrentFacts, Zenon DEF IInv
<1>4. live' \subseteq Run /\ forgotten' \subseteq Run
  <2>1. live \subseteq Run /\ forgotten \subseteq Run
    BY Zenon DEF IInv, Shape
  <2> QED
    BY <1>2, <1>3, <2>1, Zenon
<1>5. Shape'
  <2>1. pc' \in [Work -> Pcs]
    BY Zenon DEF IInv, Shape, Past, Pcs
  <2> QED
    BY <1>4, <2>1, Zenon DEF IInv, Shape, Kept, batches
<1>a. /\ \A r \in Run : r \in live' /\ r \notin Members(w) => r \in live
      /\ \A r \in Run : r \in forgotten' /\ r \notin Members(w) => r \in forgotten
  BY <1>3, Zenon
<1>6. Unborn'
  <2>1. /\ pc'[w] \in Before => live' \cap Members(w) = {}
        /\ pc'[w] \notin {"exit", "done", "dead"} => forgotten' \cap Members(w) = {}
    BY <1>1, Zenon DEF IInv, Unborn, Running, Before, Past, Pcs
  <2>2. ASSUME NEW v \in Work, v # w
        PROVE  /\ pc'[v] \in Before => live' \cap Members(v) = {}
               /\ pc'[v] \notin {"exit", "done", "dead"} => forgotten' \cap Members(v) = {}
    <3>1. pc[v] \in Owned => \A r \in Members(v) : r \notin Members(w)
      BY <1>1, <2>2, OwnedApart, Zenon
    <3>2. CASE pc[v] \in Owned
      <4>1. /\ pc[v] \in Before => live \cap Members(v) = {}
            /\ pc[v] \notin {"exit", "done", "dead"} => forgotten \cap Members(v) = {}
        BY Zenon DEF IInv, Unborn
      <4>2. \A r \in Members(v) : (r \in live' => r \in live) /\ (r \in forgotten' => r \in forgotten)
        BY <1>2, <1>a, <3>1, <3>2, Zenon
      <4> QED
        BY <1>1, <2>2, <4>1, <4>2, Zenon
    <3>3. CASE pc[v] = "new"
      BY <3>3, FreshIsEmpty, Zenon
    <3>4. CASE pc[v] \in {"done", "dead"}
      BY <1>1, <2>2, <3>4, Zenon DEF Before
    <3>5. pc[v] \in Pcs
      BY Zenon DEF IInv, Shape
    <3> QED
      BY <3>2, <3>3, <3>4, <3>5, Zenon DEF Owned
  <2> QED
    BY <1>2, <2>1, <2>2, Zenon DEF Unborn
<1>7. Iterates'
  BY <1>1, Zenon DEF IInv, Iterates, Past, Running, Pcs, batches
<1>8. Recorded'
  <2>1. \A v \in Work : pc'[v] \in Owned => pc[v] \in Owned
    BY <1>1, Zenon
  <2> QED
    BY <2>1, RecordedIsKept, Zenon DEF IInv
<1>9. ASSUME NEW v \in Work, v # w PROVE Confined(v)' /\ Begun(v)' /\ Ahead(v)'
  <2>1. Confined(v)' /\ Begun(v)'
    BY <1>1, <1>9, Zenon DEF Confined, Begun, Past, Pcs, Running
  <2>2. ASSUME pc[v] \in Owned \ {"exit"}, NEW i \in DOMAIN runsOf[v],
               i > idx[v] \/ (i = idx[v] /\ pc[v] \notin Running)
        PROVE  ~mem'[runsOf[v][i]].agents
    <3>1. runsOf[v][i] \in Members(v) /\ ~mem[runsOf[v][i]].agents
      BY <2>2, Zenon DEF Members, Range, IInv, Ahead
    <3>2. runsOf[v][i] \notin Members(w)
      BY <1>1, <1>9, <2>2, <3>1, OwnedApart, Zenon
    <3>3. runsOf[v][i] \in Run /\ mem[runsOf[v][i]] # NoRun
      BY <2>2, <3>1, OwnedIsRecorded, Zenon
    <3> QED
      BY <1>3, <3>1, <3>2, <3>3, Zenon DEF Kept
  <2>3. pc'[v] = pc[v] /\ idx'[v] = idx[v] /\ runsOf' = runsOf
    BY <1>1, <1>9, Zenon DEF batches
  <2>4. Ahead(v)'
    BY <2>2, <2>3, Zenon DEF Ahead
  <2> QED
    BY <2>1, <2>4, Zenon
<1>10. Ahead(w)'
  <2>1. to \in Pcs /\ UNCHANGED batches
    BY Zenon DEF Past, Pcs
  <2> QED
    BY <1>1, <2>1, AheadKeeps, Zenon
<1>11. Separate'
  BY <1>1, <1>2, Zenon DEF IInv, Separate, batches
<1>12. Marked'
  <2>1. \A r \in Run : Started(mem[r]) /\ Started(disk[r]) => Started(mem'[r]) /\ Started(disk'[r])
    BY Zenon DEF Kept, Gentle
  <2>2. \A r \in live \cup forgotten : r \in Run /\ Started(mem[r]) /\ Started(disk[r])
    BY Zenon DEF IInv, Shape, Marked
  <2> QED
    BY <2>1, <2>2, Zenon DEF Marked
<1>13. Fresh'
  <2>1. ASSUME NEW v \in Work, pc'[v] = "new"
        PROVE  /\ pc[v] = "new" /\ v # w
               /\ \A r \in Own(v) : r \in Run /\ r \notin Members(w)
    <3>1. pc[v] = "new" /\ v # w
      BY <1>1, <2>1, Zenon DEF Past, Pcs
    <3>2. Own(v) \subseteq Run
      BY OwnFacts, Zenon DEF IInv
    <3> QED
      BY <1>1, <3>1, <3>2, OwnedIsRecorded, Zenon
  <2>2. \A v \in Work : Own(v)' = Own(v) /\ runsOf'[v] = runsOf[v] /\ attempts'[v] = attempts[v]
    BY Zenon DEF Own, batches
  <2>3. deleted' = deleted /\ \A r \in Run : mem[r] = NoRun /\ disk[r] = NoRun => mem'[r] = NoRun /\ disk'[r] = NoRun
    BY Zenon DEF Kept, Gentle
  <2>4. Fresh
    BY Zenon DEF IInv
  <2>5. plan' = plan /\ attempts' = attempts
    BY Zenon DEF batches
  <2> QED
    <3> SUFFICES ASSUME NEW v \in Work, pc'[v] = "new"
                 PROVE  /\ runsOf'[v] = <<>> /\ idx'[v] = 1
                        /\ \A r \in Own(v) : r \notin deleted' /\ disk'[r] = NoRun /\ mem'[r] = NoRun
                        /\ \A r \in Own(v) : r \notin live' /\ r \notin forgotten'
                        /\ \A b \in Work : Own(v) \cap Range(attempts[b]) = {}
      BY <2>5, Zenon DEF Fresh, Own
    <3>1. /\ runsOf[v] = <<>> /\ idx[v] = 1
          /\ \A r \in Own(v) : r \notin deleted /\ disk[r] = NoRun /\ mem[r] = NoRun
          /\ \A r \in Own(v) : r \notin live /\ r \notin forgotten
          /\ \A b \in Work : Own(v) \cap Range(attempts[b]) = {}
      BY <2>1, <2>4, Zenon DEF Fresh
    <3>2. \A r \in Own(v) : r \in Run /\ r \notin Members(w)
      BY <2>1, Zenon
    <3>3. runsOf'[v] = <<>> /\ idx'[v] = 1
      BY <2>1, <2>2, <3>1, Zenon
    <3>4. \A r \in Own(v) : r \notin deleted' /\ disk'[r] = NoRun /\ mem'[r] = NoRun
      BY <2>3, <3>1, <3>2, Zenon
    <3>5. \A r \in Own(v) : r \notin live' /\ r \notin forgotten'
      BY <1>a, <3>1, <3>2, Zenon
    <3> QED
      BY <3>1, <3>3, <3>4, <3>5, Zenon
<1> QED
  BY <1>1, <1>5, <1>6, <1>7, <1>8, <1>9, <1>10, <1>11, <1>12, <1>13, Zenon DEF IInv

\* A step that leaves the iteration alone.
LEMMA StepKeeps ==
  ASSUME IInv, NEW w \in Work, IsHead(w), pc[w] \in Past \cup {"wait"},
         NEW to \in Past \cup {"exit"}, pc' = [pc EXCEPT ![w] = to],
         to \in Before => pc[w] \in Before, to \in Running => runsOf[w] # <<>>,
         pc[w] \in Running => to \in Running,
         UNCHANGED <<batches, queue, opened, idx, forgotten>>, Kept({}),
         closed' \in [Work -> BOOLEAN], bad' \in [Work -> BOOLEAN],
         candidates' \subseteq Run, queueCleanup' \subseteq Run, markers' \subseteq Run,
         live' \subseteq live, Confined(w)', Begun(w)', CleanupRemembered'
  PROVE  IInv'
<1>1. /\ idx' \in [Work -> Nat \ {0}] /\ \A v \in Work : v # w => idx'[v] = idx[v]
      /\ runsOf[w] # <<>> => idx'[w] <= Len(runsOf[w])
      /\ idx'[w] = idx[w]
  BY Zenon DEF IInv, Shape, Iterates
<1> QED
  BY <1>1, HeadKeeps, Zenon

LEMMA PastIsHead ==
  ASSUME IInv, NEW w \in Work, pc[w] \in Past
  PROVE  IsHead(w)
BY Zenon DEF IInv, Ordered

LEMMA RecoverBeginKeeps ==
  ASSUME IInv, NEW w \in Work, RecoverBegin(w)
  PROVE  IInv'
<1>1. /\ pc[w] = "wait" /\ w \in opened /\ pc' = [pc EXCEPT ![w] = "scan"]
      /\ scheduled' = UNION {Members(v) : v \in Range(queue)}
      /\ UNCHANGED <<batches, queue, opened, idx, forgotten, closed, bad, candidates, mem, disk, deleted>>
      /\ UNCHANGED <<queueCleanup, markers, live>>
  BY Zenon DEF RecoverBegin, Ready, records, barrier
<1>2. IsHead(w) /\ pc'[w] = "scan"
  BY <1>1, Zenon DEF IInv, Ordered, Shape
<1>3. \A i \in DOMAIN queue : queue[i] \in Work /\ pc[queue[i]] = "wait"
  <2>1. queue[1] = w /\ DOMAIN queue = 1..Len(queue) /\ Len(queue) \in Nat
        /\ \A i \in DOMAIN queue : queue[i] \in Work
    BY <1>2, HeadFacts, Zenon DEF IInv
  <2> QED
    BY <1>1, <2>1 DEF IInv, Ordered
<1>4. \A v \in Range(queue) : live \cap Members(v) = {}
  BY <1>3, Zenon DEF Range, IInv, Unborn, Before
<1>5. Confined(w)' /\ Begun(w)'
  BY <1>1, <1>2, <1>4, Zenon DEF Confined, Begun, Running
<1>6. CleanupRemembered'
  BY <1>1, Zenon DEF IInv, CleanupRemembered
<1>7. Kept({}) /\ UNCHANGED <<batches, queue, opened, idx, forgotten>>
  BY <1>1, NothingWritten, Zenon DEF IInv
<1>8. /\ closed' \in [Work -> BOOLEAN] /\ bad' \in [Work -> BOOLEAN]
      /\ candidates' \subseteq Run /\ queueCleanup' \subseteq Run /\ markers' \subseteq Run
  BY <1>1, Zenon DEF IInv, Shape
<1>9. "scan" \in Past /\ "scan" \notin Running /\ pc[w] \in Before /\ live' \subseteq live
      /\ pc[w] \notin Running
  BY <1>1, Zenon DEF Past, Pcs, Running, Before
<1> QED
  BY <1>1, <1>2, <1>5, <1>6, <1>7, <1>8, <1>9, StepKeeps, Zenon

LEMMA RecoverScanKeeps ==
  ASSUME IInv, NEW w \in Work, NEW seen \in SUBSET Run, RecoverScan(w, seen)
  PROVE  IInv'
<1>1. /\ pc[w] = "scan" /\ \E read \in BOOLEAN : pc' = [pc EXCEPT ![w] = IF read THEN "merge" ELSE "leave"]
      /\ restored' = {r \in Run \ scheduled : NeedsRecoveredCleanup(disk[r])}
      /\ candidates' = markers \cup (seen \ scheduled) \cup restored'
                       \cup {r \in Run \ scheduled : NeedsRecoveredCleanup(mem[r])}
      /\ UNCHANGED <<batches, queue, opened, idx, forgotten, closed, bad, scheduled, mem, disk, deleted>>
      /\ UNCHANGED <<queueCleanup, markers, live>>
  BY Zenon DEF RecoverScan, records, barrier
<1>0. PICK to \in {"merge", "leave"} : pc' = [pc EXCEPT ![w] = to]
  BY <1>1, Zenon
<1>2. IsHead(w) /\ pc'[w] = to
  BY <1>0, <1>1, PastIsHead, Zenon DEF IInv, Shape, Past, Pcs
<1>3. live \cap scheduled = {}
  BY <1>1, Zenon DEF IInv, Confined
<1>4. \A r \in live \ forgotten : r \in candidates' \ scheduled
  <2>1. \A r \in live : r \in Run /\ r \notin scheduled
    BY <1>3, Zenon DEF IInv, Shape
  <2>2. \A r \in live \ forgotten : r \in markers \/ r \in restored'
    BY <1>1, <2>1, Zenon DEF IInv, CleanupRemembered
  <2> QED
    BY <1>1, <2>1, <2>2, Zenon
<1>5. Confined(w)' /\ Begun(w)'
  BY <1>1, <1>2, <1>3, <1>4, Zenon DEF Confined, Begun, Running
<1>6. CleanupRemembered'
  BY <1>1, Zenon DEF IInv, CleanupRemembered
<1>7. Kept({}) /\ UNCHANGED <<batches, queue, opened, idx, forgotten>>
  BY <1>1, NothingWritten, Zenon DEF IInv
<1>8. /\ closed' \in [Work -> BOOLEAN] /\ bad' \in [Work -> BOOLEAN]
      /\ candidates' \subseteq Run /\ queueCleanup' \subseteq Run /\ markers' \subseteq Run
  BY <1>1, Zenon DEF IInv, Shape
<1>9. pc[w] \in Past /\ to \in Past /\ to \notin Running /\ pc[w] \in Before /\ live' \subseteq live
      /\ pc[w] \notin Running
  BY <1>1, Zenon DEF Past, Pcs, Running, Before
<1> QED
  BY <1>0, <1>1, <1>2, <1>5, <1>6, <1>7, <1>8, <1>9, StepKeeps, Zenon

LEMMA RecoverMergeKeeps ==
  ASSUME IInv, NEW w \in Work, RecoverMerge(w)
  PROVE  IInv'
<1> DEFINE C == candidates \ scheduled
           back == {r \in C \cap restored : mem[r] = NoRun /\ r \notin deleted}
           interrupted(run) == IF run.state \in {"running", "queued"}
                               THEN [run EXCEPT !.state = "interrupted"] ELSE run
<1>1. /\ pc[w] = "merge" /\ mem' = [r \in Run |-> IF r \in back THEN interrupted(disk[r]) ELSE mem[r]]
      /\ queueCleanup' = queueCleanup \cup C
      /\ \E S \in SUBSET queueCleanup' :
           /\ markers' = markers \cup S
           /\ pc' = [pc EXCEPT ![w] = IF ~(queueCleanup' \subseteq markers') THEN "leave"
                                      ELSE IF queueCleanup' = {} THEN Drained(w) ELSE "drain"]
      /\ UNCHANGED <<batches, queue, opened, idx, forgotten, closed, bad, scheduled, candidates>>
      /\ UNCHANGED <<disk, deleted, live>>
  BY Zenon DEF RecoverMerge
<1>2. PICK to \in {"leave", "retire", "start", "drain"} :
        /\ pc' = [pc EXCEPT ![w] = to]
        /\ to \in {"retire", "start"} => queueCleanup' = {}
  <2>1. Drained(w) \in {"retire", "start"}
    BY Zenon DEF Drained
  <2> QED
    BY <1>1, <2>1, Zenon
<1>3. IsHead(w) /\ pc' = [pc EXCEPT ![w] = to] /\ pc'[w] = to /\ to \in Past
  BY <1>1, <1>2, PastIsHead, Zenon DEF IInv, Shape, Past, Pcs
<1>4. /\ \A run \in Records : interrupted(run) \in Records /\ (Started(run) => Started(interrupted(run)))
      /\ interrupted(NoRun) = NoRun
  <2>1. ASSUME NEW run \in Records
        PROVE  interrupted(run) \in Records /\ (run.started => interrupted(run).started)
    BY Zenon DEF Records
  <2>2. NoRun.state = "none"
    BY Zenon DEF NoRun
  <2> QED
    BY <2>1, <2>2, Zenon DEF Started
<1> HIDE DEF interrupted
<1>5. Kept({})
  <2>1. mem' \in [Run -> Records] /\ disk' \in [Run -> Records]
    BY <1>1, <1>4, Zenon DEF IInv, Shape
  <2>2. \A r \in Run : mem'[r] = IF r \in back THEN interrupted(disk[r]) ELSE mem[r]
    BY <1>1, Zenon
  <2>3. \A r \in Run : disk[r] \in Records
    BY Zenon DEF IInv, Shape
  <2> QED
    <3>1. Gentle
      BY <1>1, <1>4, <2>2, <2>3, Zenon DEF Gentle
    <3> QED
      BY <1>1, <2>1, <2>2, <3>1, Zenon DEF Kept
<1>6. live \subseteq forgotten \cup queueCleanup'
  BY <1>1, Zenon DEF IInv, Confined
<1>7. Confined(w)' /\ Begun(w)'
  BY <1>1, <1>2, <1>3, <1>6, Zenon DEF Confined, Begun, Running
<1>8. CleanupRemembered'
  BY <1>1, Zenon DEF IInv, CleanupRemembered
<1>9. /\ closed' \in [Work -> BOOLEAN] /\ bad' \in [Work -> BOOLEAN]
      /\ candidates' \subseteq Run /\ queueCleanup' \subseteq Run /\ markers' \subseteq Run
  BY <1>1, Zenon DEF IInv, Shape
<1>10. pc[w] \in Past /\ to \notin Running /\ pc[w] \in Before /\ live' \subseteq live
      /\ pc[w] \notin Running
  BY <1>1, <1>2, Zenon DEF Past, Pcs, Running, Before
<1>11. UNCHANGED <<batches, queue, opened, idx, forgotten>>
  BY <1>1, Zenon
<1> QED
  BY <1>3, <1>5, <1>7, <1>8, <1>9, <1>10, <1>11, StepKeeps, Zenon

LEMMA DrainKeeps ==
  ASSUME IInv, NEW w \in Work, DrainConfirmed(w) \/ \E S \in SUBSET Run : DrainFails(w, S)
  PROVE  IInv'
<1>1. PICK to \in {"drain", "seal"} :
        /\ pc[w] = "drain" /\ pc' = [pc EXCEPT ![w] = to] /\ live' \subseteq live
        /\ to = "seal" => live' = live \ ids
        /\ UNCHANGED <<batches, queue, opened, idx, forgotten, closed, bad, candidates, mem, disk, deleted>>
        /\ UNCHANGED <<queueCleanup, markers, ids>>
  <2>1. CASE DrainConfirmed(w)
    BY <2>1, Zenon DEF DrainConfirmed, records, barrier, head
  <2>2. ASSUME NEW S \in SUBSET Run, DrainFails(w, S)
        PROVE  /\ pc[w] = "drain" /\ pc' = [pc EXCEPT ![w] = "drain"] /\ live' \subseteq live
               /\ UNCHANGED <<batches, queue, opened, idx, forgotten, closed, bad, candidates>>
               /\ UNCHANGED <<queueCleanup, markers, ids, mem, disk, deleted>>
    BY <2>2, Zenon DEF DrainFails, workers, records, barrier, head, IInv, Shape
  <2> QED
    BY <2>1, <2>2, Zenon
<1>2. IsHead(w) /\ pc'[w] = to
  BY <1>1, PastIsHead, Zenon DEF IInv, Shape, Past, Pcs
<1>3. live \subseteq forgotten \cup queueCleanup
  BY <1>1, Zenon DEF IInv, Confined
<1>4. Confined(w)' /\ Begun(w)'
  BY <1>1, <1>2, <1>3, Zenon DEF Confined, Begun, Running
<1>5. CleanupRemembered'
  BY <1>1, Zenon DEF IInv, CleanupRemembered
<1>6. Kept({}) /\ UNCHANGED <<batches, queue, opened, idx, forgotten>>
  BY <1>1, NothingWritten, Zenon DEF IInv
<1>7. /\ closed' \in [Work -> BOOLEAN] /\ bad' \in [Work -> BOOLEAN]
      /\ candidates' \subseteq Run /\ queueCleanup' \subseteq Run /\ markers' \subseteq Run
  BY <1>1, Zenon DEF IInv, Shape
<1>8. pc[w] \in Past /\ to \in Past /\ to \notin Running /\ pc[w] \in Before /\ live' \subseteq live
      /\ pc[w] \notin Running
  BY <1>1, Zenon DEF Past, Pcs, Running, Before
<1> QED
  BY <1>1, <1>2, <1>4, <1>5, <1>6, <1>7, <1>8, StepKeeps, Zenon

LEMMA SealKeeps ==
  ASSUME IInv, NEW w \in Work, Seal(w)
  PROVE  IInv'
<1>1. PICK new :
        /\ new = [r \in Run |-> [mem[r] EXCEPT !.cleanup = "complete",
                                              !.data = IF @ = "collecting" THEN "complete" ELSE @]]
        /\ Update(ids, new)
  BY Zenon DEF Seal
<1>2. /\ pc[w] = "seal" /\ pc' = [pc EXCEPT ![w] = "clear"]
      /\ UNCHANGED <<batches, queue, opened, idx, forgotten, closed, bad, candidates, deleted>>
      /\ UNCHANGED <<queueCleanup, markers, ids, live>>
  BY Zenon DEF Seal, barrier, head
<1>3. Revision(new)
  <2>1. ASSUME NEW r \in Run 
        PROVE  /\ new[r] \in Records /\ new[r].cleanup = "complete"
               /\ new[r].started = mem[r].started /\ new[r].agents = mem[r].agents
    <3>1. mem[r] \in Records
      BY Zenon DEF IInv, Shape
    <3>2. PICK d \in {"", "pending", "collecting", "complete", "incomplete", "unverified"} :
            d = IF mem[r].data = "collecting" THEN "complete" ELSE mem[r].data
      BY <3>1, Zenon DEF Records
    <3>3. new[r] = [mem[r] EXCEPT !.cleanup = "complete", !.data = d]
      BY <1>1, <3>2, Zenon
    <3> QED
      BY <3>1, <3>3, Zenon DEF Records
  <2>2. NoRun.cleanup = ""
    BY Zenon DEF NoRun
  <2> QED
    BY <1>1, <2>1, <2>2, Zenon DEF Revision
<1>4. Kept({}) /\ \A r \in Run : r \notin ids => disk'[r] = disk[r]
  BY <1>1, <1>2, <1>3, UpdateFacts, Zenon DEF IInv
<1>5. IsHead(w) /\ pc'[w] = "clear"
  BY <1>2, PastIsHead, Zenon DEF IInv, Shape, Past, Pcs
<1>6. live \subseteq forgotten \cup (queueCleanup \ ids) /\ live \subseteq Run
  BY <1>2, Zenon DEF IInv, Confined, Shape
<1>7. Confined(w)' /\ Begun(w)'
  BY <1>2, <1>5, <1>6, Zenon DEF Confined, Begun, Running
<1>8. CleanupRemembered'
  BY <1>2, <1>4, <1>6, Zenon DEF IInv, CleanupRemembered
<1>9. /\ closed' \in [Work -> BOOLEAN] /\ bad' \in [Work -> BOOLEAN]
      /\ candidates' \subseteq Run /\ queueCleanup' \subseteq Run /\ markers' \subseteq Run
  BY <1>2, Zenon DEF IInv, Shape
<1>10. pc[w] \in Past /\ "clear" \in Past /\ "clear" \notin Running /\ pc[w] \in Before /\ live' \subseteq live
      /\ pc[w] \notin Running
  BY <1>2, Zenon DEF Past, Pcs, Running, Before
<1>11. UNCHANGED <<batches, queue, opened, idx, forgotten>>
  BY <1>2, Zenon
<1> QED
  BY <1>2, <1>4, <1>5, <1>7, <1>8, <1>9, <1>10, <1>11, StepKeeps, Zenon

LEMMA ClearKeeps ==
  ASSUME IInv, NEW w \in Work, Clear(w)
  PROVE  IInv'
<1>1. /\ pc[w] = "clear" /\ markers' = markers \ ids /\ queueCleanup' = queueCleanup \ ids
      /\ ids' = queueCleanup'
      /\ pc' = [pc EXCEPT ![w] = IF queueCleanup' = {} THEN Drained(w) ELSE "drain"]
      /\ UNCHANGED <<batches, queue, opened, idx, forgotten, closed, bad, candidates, live, mem, disk, deleted>>
  BY Zenon DEF Clear, records
<1>2. PICK to \in {"retire", "start", "drain"} :
        /\ pc' = [pc EXCEPT ![w] = to]
        /\ to \in {"retire", "start"} => queueCleanup' = {}
  <2>1. Drained(w) \in {"retire", "start"}
    BY Zenon DEF Drained
  <2> QED
    BY <1>1, <2>1, Zenon
<1>3. IsHead(w) /\ pc' = [pc EXCEPT ![w] = to] /\ pc'[w] = to /\ to \in Past
  BY <1>1, <1>2, PastIsHead, Zenon DEF IInv, Shape, Past, Pcs
<1>4. live \subseteq forgotten \cup (queueCleanup \ ids)
  BY <1>1, Zenon DEF IInv, Confined
<1>5. Confined(w)' /\ Begun(w)'
  BY <1>1, <1>2, <1>3, <1>4, Zenon DEF Confined, Begun, Running
<1>6. CleanupRemembered'
  BY <1>1, <1>4, Zenon DEF IInv, CleanupRemembered
<1>7. Kept({}) /\ UNCHANGED <<batches, queue, opened, idx, forgotten>>
  BY <1>1, NothingWritten, Zenon DEF IInv
<1>8. /\ closed' \in [Work -> BOOLEAN] /\ bad' \in [Work -> BOOLEAN]
      /\ candidates' \subseteq Run /\ queueCleanup' \subseteq Run /\ markers' \subseteq Run
  BY <1>1, Zenon DEF IInv, Shape
<1>9. pc[w] \in Past /\ to \notin Running /\ pc[w] \in Before /\ live' \subseteq live
      /\ pc[w] \notin Running
  BY <1>1, <1>2, Zenon DEF Past, Pcs, Running, Before
<1> QED
  BY <1>3, <1>5, <1>6, <1>7, <1>8, <1>9, StepKeeps, Zenon

\* A step to a place where nothing is claimed of the Peers that exist.
LEMMA GiveUpKeeps ==
  ASSUME IInv, NEW w \in Work, IsHead(w), pc[w] \in Past \cup {"wait"}, pc[w] \notin Running,
         NEW to \in {"leave", "exit"}, pc' = [pc EXCEPT ![w] = to], to = "leave" => pc[w] \in Before,
         UNCHANGED <<batches, queue, opened, idx, forgotten, closed, bad, candidates>>, Kept({}),
         queueCleanup' \subseteq Run, markers' \subseteq markers, live' \subseteq live, CleanupRemembered'
  PROVE  IInv'
<1>1. pc'[w] = to /\ to \in Past \cup {"exit"} /\ to \notin Running /\ (to \in Before => pc[w] \in Before)
  BY Zenon DEF Before, Past, Pcs, Running, IInv, Shape
<1>2. Confined(w)' /\ Begun(w)'
  BY <1>1, Zenon DEF Confined, Begun, Running
<1>3. /\ closed' \in [Work -> BOOLEAN] /\ bad' \in [Work -> BOOLEAN]
      /\ candidates' \subseteq Run /\ queueCleanup' \subseteq Run /\ markers' \subseteq Run
  BY Zenon DEF IInv, Shape
<1>4. UNCHANGED <<batches, queue, opened, idx, forgotten>>
  BY Zenon
<1> QED
  BY <1>1, <1>2, <1>3, <1>4, StepKeeps, Zenon

LEMMA ClearFailsKeeps ==
  ASSUME IInv, NEW w \in Work, NEW S \in SUBSET Run, ClearFails(w, S)
  PROVE  IInv'
<1>1. /\ pc[w] = "clear" /\ S \subseteq ids /\ markers' = markers \ S /\ pc' = [pc EXCEPT ![w] = "leave"]
      /\ UNCHANGED <<batches, queue, opened, idx, forgotten, closed, bad, candidates>>
      /\ UNCHANGED <<mem, disk, deleted, live, queueCleanup>>
  BY Zenon DEF ClearFails, head, records
<1>2. live \subseteq forgotten \cup (queueCleanup \ ids)
  BY <1>1, Zenon DEF IInv, Confined
<1>3. CleanupRemembered'
  BY <1>1, <1>2, Zenon DEF IInv, CleanupRemembered
<1>4. Kept({}) /\ queueCleanup' \subseteq Run /\ markers' \subseteq markers /\ live' \subseteq live
  BY <1>1, NothingWritten, Zenon DEF IInv, Shape
<1>5. pc[w] \in Past /\ pc[w] \in Before /\ pc[w] \notin Running
  BY <1>1, Zenon DEF Past, Pcs, Before, Running
<1>6. IsHead(w) /\ UNCHANGED <<batches, queue, opened, idx, forgotten, closed, bad, candidates>>
  BY <1>1, <1>5, PastIsHead, Zenon
<1> QED
  BY <1>1, <1>3, <1>4, <1>5, <1>6, GiveUpKeeps, Zenon

\* cancelQueuedIterations rewrites records of the submission alone.
LEMMA CancelIterationsFacts ==
  ASSUME IInv, NEW w \in Work, CancelIterations(w), deleted' = deleted
  PROVE  Kept({}) /\ \A r \in Run : r \notin Members(w) => mem'[r] = mem[r] /\ disk'[r] = disk[r]
<1>1. PICK S : /\ S = {runsOf[w][i] : i \in {i \in 1..Len(runsOf[w]) : i >= idx[w]}}
               /\ Update(S, [r \in Run |-> [mem[r] EXCEPT !.state = "canceled"]])
  BY Zenon DEF CancelIterations
<1>2. PICK new : new = [r \in Run |-> [mem[r] EXCEPT !.state = "canceled"]]
  BY Zenon
<1>3. Revision(new)
  <2>1. ASSUME NEW r \in Run
        PROVE  /\ new[r] \in Records /\ new[r].state = "canceled"
               /\ new[r].started = mem[r].started /\ new[r].agents = mem[r].agents
    <3>1. mem[r] \in Records
      BY Zenon DEF IInv, Shape
    <3>2. new[r] = [mem[r] EXCEPT !.state = "canceled"]
      BY <1>2, Zenon
    <3> QED
      BY <3>1, <3>2, Zenon DEF Records
  <2>2. NoRun.state = "none"
    BY Zenon DEF NoRun
  <2> QED
    BY <1>2, <2>1, <2>2, Zenon DEF Revision
<1>4. Update(S, new)
  BY <1>1, <1>2, Zenon
<1>5. Kept({}) /\ \A r \in Run : r \notin S => mem'[r] = mem[r] /\ disk'[r] = disk[r]
  BY <1>3, <1>4, UpdateFacts, Zenon DEF IInv
<1>6. S \subseteq Members(w)
  <2>1. DOMAIN runsOf[w] = 1..Len(runsOf[w])
    BY MembersFacts, Zenon DEF IInv
  <2> QED
    BY <1>1, <2>1, Zenon DEF Members, Range
<1> QED
  BY <1>5, <1>6, Zenon

\* A worker whose turn it is gives up.
LEMMA LeaveKeeps ==
  ASSUME IInv, NEW w \in Work, IsHead(w), pc[w] \in Before \/ pc[w] = "start", pc[w] # "new", Leave(w),
         UNCHANGED <<batches, queue, opened, idx, forgotten, closed, bad, candidates>>,
         UNCHANGED <<deleted, live, queueCleanup, markers>>
  PROVE  IInv'
<1>1. pc' = [pc EXCEPT ![w] = "exit"] /\ CancelIterations(w)
  BY Zenon DEF Leave
<1>2. Kept({}) /\ \A r \in Run : r \notin Members(w) => disk'[r] = disk[r]
  BY <1>1, CancelIterationsFacts, Zenon
<1>3. pc[w] \in Past \cup {"wait"} /\ pc[w] \notin Running
  BY Zenon DEF Before, Past, Pcs, Running
<1>4. \A r \in live \ forgotten : r \in Run /\ r \notin Members(w)
  BY Zenon DEF IInv, Shape, Unborn, Confined
<1>5. CleanupRemembered'
  BY <1>2, <1>4, Zenon DEF IInv, CleanupRemembered
<1>6. queueCleanup' \subseteq Run /\ markers' \subseteq markers /\ live' \subseteq live
  BY Zenon DEF IInv, Shape
<1> QED
  BY <1>1, <1>2, <1>3, <1>5, <1>6, GiveUpKeeps, Zenon

\* cleanupBeforeResume of earlier attempts, which confirms their removal or fails.
LEMMA RetireKeeps ==
  ASSUME IInv, NEW w \in Work, Retire(w)
  PROVE  IInv'
<1>1. /\ pc[w] = "retire" /\ pc' = [pc EXCEPT ![w] = "start"] /\ live' \subseteq live
      /\ UNCHANGED <<batches, queue, opened, idx, forgotten, closed, bad, candidates, mem, disk, deleted>>
      /\ UNCHANGED <<queueCleanup, markers>>
  BY Zenon DEF Retire, records, barrier, head
<1>2. IsHead(w) /\ pc'[w] = "start"
  BY <1>1, PastIsHead, Zenon DEF IInv, Shape, Past, Pcs
<1>3. live \subseteq forgotten
  BY <1>1, Zenon DEF IInv, Confined
<1>4. Confined(w)' /\ Begun(w)'
  BY <1>1, <1>2, <1>3, Zenon DEF Confined, Begun, Running
<1>5. CleanupRemembered'
  BY <1>1, <1>3, Zenon DEF CleanupRemembered
<1>6. Kept({}) /\ UNCHANGED <<batches, queue, opened, idx, forgotten>>
  BY <1>1, NothingWritten, Zenon DEF IInv
<1>7. /\ closed' \in [Work -> BOOLEAN] /\ bad' \in [Work -> BOOLEAN]
      /\ candidates' \subseteq Run /\ queueCleanup' \subseteq Run /\ markers' \subseteq Run
  BY <1>1, Zenon DEF IInv, Shape
<1>8. /\ pc[w] \in Past /\ pc[w] \notin Running
      /\ "start" \in Past /\ "start" \notin Before /\ "start" \notin Running
  BY <1>1, Zenon DEF Past, Pcs, Running, Before
<1> QED
  BY <1>1, <1>2, <1>4, <1>5, <1>6, <1>7, <1>8, StepKeeps, Zenon

LEMMA RetireFailsKeeps ==
  ASSUME IInv, NEW w \in Work, NEW S \in SUBSET Run, RetireFails(w, S)
  PROVE  IInv'
<1>1. PICK new : /\ new = [r \in Run |-> [mem[r] EXCEPT !.cleanup = "failed", !.data = "unverified"]]
                 /\ Update(Members(w), new)
  BY Zenon DEF RetireFails
<1>2. /\ pc[w] = "retire" /\ pc' = [pc EXCEPT ![w] = "leave"] /\ live' \subseteq live
      /\ queueCleanup' = queueCleanup \cup cleanupRuns[w] /\ markers' = markers /\ deleted' = deleted
      /\ UNCHANGED <<batches, queue, opened, idx, forgotten, closed, bad, candidates>>
  BY Zenon DEF RetireFails, head
<1>3. Revision(new)
  <2>1. ASSUME NEW r \in Run
        PROVE  /\ new[r] \in Records /\ new[r].cleanup = "failed"
               /\ new[r].started = mem[r].started /\ new[r].agents = mem[r].agents
    <3>1. mem[r] \in Records
      BY Zenon DEF IInv, Shape
    <3>2. new[r] = [mem[r] EXCEPT !.cleanup = "failed", !.data = "unverified"]
      BY <1>1, Zenon
    <3> QED
      BY <3>1, <3>2, Zenon DEF Records
  <2>2. NoRun.cleanup = ""
    BY Zenon DEF NoRun
  <2> QED
    BY <1>1, <2>1, <2>2, Zenon DEF Revision
<1>4. Kept({})
  BY <1>1, <1>2, <1>3, UpdateFacts, Zenon DEF IInv
<1>5. live \subseteq forgotten
  BY <1>2, Zenon DEF IInv, Confined
<1>6. CleanupRemembered'
  BY <1>2, <1>5, Zenon DEF CleanupRemembered
<1>7. queueCleanup' \subseteq Run /\ markers' \subseteq markers
  BY <1>2, Zenon DEF IInv, Shape
<1>8. pc[w] \in Past /\ pc[w] \in Before /\ pc[w] \notin Running
  BY <1>2, Zenon DEF Past, Pcs, Before, Running
<1>9. IsHead(w) /\ UNCHANGED <<batches, queue, opened, idx, forgotten, closed, bad, candidates>>
  BY <1>2, <1>8, PastIsHead, Zenon
<1> QED
  BY <1>2, <1>4, <1>6, <1>7, <1>8, <1>9, GiveUpKeeps, Zenon

LEMMA StartWorkKeeps ==
  ASSUME IInv, NEW w \in Work, StartWork(w)
  PROVE  IInv'
<1>1. /\ pc[w] = "start" /\ closed' = [closed EXCEPT ![w] = FALSE]
      /\ UNCHANGED <<batches, queue, opened, idx, forgotten, bad, candidates, deleted, live>>
      /\ UNCHANGED <<queueCleanup, markers, ids>>
  BY Zenon DEF StartWork, head, barrier
<1>2. IsHead(w) /\ pc[w] \in Past /\ pc[w] \notin Running
  BY <1>1, PastIsHead, Zenon DEF Past, Pcs, Running
<1>3. live \subseteq forgotten
  BY <1>1, Zenon DEF IInv, Confined
<1>4. CleanupRemembered'
  BY <1>1, <1>3, Zenon DEF CleanupRemembered
<1>5. /\ closed' \in [Work -> BOOLEAN] /\ bad' \in [Work -> BOOLEAN]
      /\ candidates' \subseteq Run /\ queueCleanup' \subseteq Run /\ markers' \subseteq Run
  BY <1>1, Zenon DEF IInv, Shape
<1>6. live' \subseteq live /\ UNCHANGED <<batches, queue, opened, idx, forgotten>>
  BY <1>1, Zenon
<1>7. CASE runsOf[w] = <<>>
  <2>1. pc' = [pc EXCEPT ![w] = "analyze"] /\ UNCHANGED <<mem, disk>>
    BY <1>7, Zenon DEF StartWork
  <2>2. pc'[w] = "analyze" /\ "analyze" \in Past /\ "analyze" \notin Before \cup Running
    BY <2>1, Zenon DEF IInv, Shape, Past, Pcs, Before, Running
  <2>3. Kept({})
    BY <1>1, <2>1, NothingWritten, Zenon DEF IInv
  <2>4. Confined(w)' /\ Begun(w)'
    BY <1>1, <1>3, <2>2, Zenon DEF Confined, Begun, Running
  <2> QED
    BY <1>2, <1>4, <1>5, <1>6, <2>1, <2>2, <2>3, <2>4, StepKeeps, Zenon
<1>8. CASE runsOf[w] # <<>>
  <2>1. PICK new : new = [r \in Run |-> [mem[r] EXCEPT !.state = "running", !.started = TRUE,
                                                       !.cleanup = "pending", !.data = "collecting"]]
    BY Zenon
  <2>2. pc' = [pc EXCEPT ![w] = "phases"] /\ Update({Current(w)}, new)
    BY <1>8, <2>1, Zenon DEF StartWork
  <2>3. ASSUME NEW r \in Run
        PROVE  /\ new[r] \in Records /\ new[r].started /\ new[r].cleanup = "pending"
               /\ new[r].data = "collecting" /\ new[r].agents = mem[r].agents
    <3>1. mem[r] \in Records
      BY Zenon DEF IInv, Shape
    <3>2. new[r] = [mem[r] EXCEPT !.state = "running", !.started = TRUE, !.cleanup = "pending",
                                  !.data = "collecting"]
      BY <2>1, Zenon
    <3> QED
      BY <3>1, <3>2, Zenon DEF Records
  <2>4. Revision(new)
    <3>1. NoRun.cleanup = ""
      BY Zenon DEF NoRun
    <3> QED
      BY <2>1, <2>3, <3>1, Zenon DEF Revision
  <2>5. PICK r \in Run : r = Current(w) /\ r \in Members(w) /\ idx[w] \in DOMAIN runsOf[w]
    BY <1>8, CurrentFacts, Zenon DEF IInv
  <2>6. r \notin deleted /\ mem[r] # NoRun /\ r \notin live /\ ~mem[r].agents
    <3>1. r \notin deleted /\ mem[r] # NoRun /\ r \notin live
      BY <1>1, <1>3, <2>5, Zenon DEF IInv, Recorded, Owned, Pcs, Unborn
    <3>2. ~mem[r].agents
      BY <1>1, <1>2, <2>5, Zenon DEF IInv, Ahead, Current, Owned, Pcs
    <3> QED
      BY <3>1, <3>2, Zenon
  <2>7. Kept({}) /\ mem'[r] = new[r]
    <3>1. Shape /\ deleted' = deleted /\ Update({r}, new)
      BY <1>1, <2>2, <2>5, Zenon DEF IInv
    <3> QED
      BY <2>4, <2>6, <3>1, UpdateOne, Zenon
  <2>8. pc'[w] = "phases" /\ "phases" \in Past /\ "phases" \notin Before
    BY <2>2, Zenon DEF IInv, Shape, Past, Pcs, Before
  <2>9. Current(w)' = r
    BY <1>1, <2>5, Zenon DEF Current, batches
  <2>10. Confined(w)' /\ Begun(w)'
    BY <1>1, <1>3, <2>3, <2>6, <2>7, <2>8, <2>9, Zenon DEF Confined, Begun, Running
  <2> QED
    BY <1>2, <1>4, <1>5, <1>6, <1>8, <2>2, <2>7, <2>8, <2>10, StepKeeps, Zenon
<1> QED
  BY <1>7, <1>8, Zenon

LEMMA AnalyzedKeeps ==
  ASSUME IInv, NEW w \in Work, Analyzed(w)
  PROVE  IInv'
<1>1. /\ pc[w] = "analyze" /\ pc' = [pc EXCEPT ![w] = "exit"]
      /\ UNCHANGED <<batches, queue, opened, idx, forgotten, closed, bad, candidates, mem, disk, deleted>>
      /\ UNCHANGED <<queueCleanup, markers, live>>
  BY Zenon DEF Analyzed, records, barrier, head
<1>2. IsHead(w) /\ pc[w] \in Past /\ pc[w] \notin Running /\ pc'[w] = "exit" /\ "exit" \notin Before \cup Running
  BY <1>1, PastIsHead, Zenon DEF IInv, Shape, Past, Pcs, Before, Running
<1>3. Confined(w)' /\ Begun(w)'
  BY <1>2, Zenon DEF Confined, Begun, Running
<1>4. CleanupRemembered'
  BY <1>1, Zenon DEF IInv, CleanupRemembered
<1>5. Kept({}) /\ UNCHANGED <<batches, queue, opened, idx, forgotten>> /\ live' \subseteq live
  BY <1>1, NothingWritten, Zenon DEF IInv
<1>6. /\ closed' \in [Work -> BOOLEAN] /\ bad' \in [Work -> BOOLEAN]
      /\ candidates' \subseteq Run /\ queueCleanup' \subseteq Run /\ markers' \subseteq Run
  BY <1>1, Zenon DEF IInv, Shape
<1> QED
  BY <1>1, <1>2, <1>3, <1>4, <1>5, <1>6, StepKeeps, Zenon

\* What a worker in the midst of a run knows.
LEMMA RunningFacts ==
  ASSUME IInv, NEW w \in Work, pc[w] \in Running
  PROVE  /\ IsHead(w) /\ pc[w] \in Past /\ pc[w] \notin Before /\ runsOf[w] # <<>>
         /\ Current(w) \in Members(w) /\ Current(w) \in Run
         /\ Current(w) \notin deleted /\ mem[Current(w)] # NoRun
         /\ mem[Current(w)] \in Records
         /\ mem[Current(w)].agents => /\ disk[Current(w)].started /\ disk[Current(w)].data = "collecting"
                                      /\ disk[Current(w)].cleanup \in {"pending", "running"}
         /\ mem[Current(w)].started /\ mem[Current(w)].data = "collecting"
         /\ mem[Current(w)].cleanup \in {"pending", "running"}
         /\ Current(w) \in live => mem[Current(w)].agents /\ ~closed[w]
         /\ live \subseteq forgotten \cup {Current(w)}
<1>1. pc[w] \in Past /\ pc[w] \in Owned /\ pc[w] \notin Before
  BY Zenon DEF Running, Past, Owned, Before, Pcs
<1>2. IsHead(w) /\ runsOf[w] # <<>>
  BY <1>1, PastIsHead, Zenon DEF IInv, Iterates
<1>3. Current(w) \in Members(w) /\ Current(w) \in Run
  BY <1>2, CurrentFacts, Zenon DEF IInv
<1>4. Current(w) \notin deleted /\ mem[Current(w)] # NoRun /\ mem[Current(w)] \in Records
  BY <1>1, <1>3, Zenon DEF IInv, Recorded, Shape
<1>5. Begun(w) /\ Confined(w)
  BY Zenon DEF IInv
<1>6. /\ mem[Current(w)].agents => /\ disk[Current(w)].started /\ disk[Current(w)].data = "collecting"
                                   /\ disk[Current(w)].cleanup \in {"pending", "running"}
      /\ mem[Current(w)].started /\ mem[Current(w)].data = "collecting"
      /\ mem[Current(w)].cleanup \in {"pending", "running"}
      /\ Current(w) \in live => mem[Current(w)].agents /\ ~closed[w]
  BY <1>5, Zenon DEF Begun
<1>7. live \subseteq forgotten \cup {Current(w)}
  BY <1>5, Zenon DEF Confined
<1> QED
  BY <1>1, <1>2, <1>3, <1>4, <1>6, <1>7, Zenon

LEMMA CreatePeersKeeps ==
  ASSUME IInv, NEW w \in Work, CreatePeers(w)
  PROVE  IInv'
<1>1. Remember(Current(w))
  BY Zenon DEF CreatePeers
<1>2. /\ pc[w] = "phases" /\ live' = live \cup {Current(w)} /\ closed' = [closed EXCEPT ![w] = FALSE]
      /\ UNCHANGED <<batches, queue, opened, idx, forgotten, bad, candidates, deleted>>
      /\ UNCHANGED <<pc, queueCleanup, markers>>
  BY Zenon DEF CreatePeers, head, barrier
<1>3. pc[w] \in Running /\ "phases" \in Past /\ "phases" \in Running /\ "phases" \notin Before
  BY <1>2, Zenon DEF Running, Past, Pcs, Before
<1>4. PICK r \in Run :
        /\ r = Current(w) /\ r \in Members(w) /\ r \notin deleted /\ mem[r] # NoRun /\ mem[r] \in Records
        /\ mem[r].started /\ mem[r].data = "collecting" /\ mem[r].cleanup \in {"pending", "running"}
        /\ mem[r].agents => /\ disk[r].started /\ disk[r].data = "collecting"
                            /\ disk[r].cleanup \in {"pending", "running"}
        /\ live \subseteq forgotten \cup {r} /\ IsHead(w) /\ runsOf[w] # <<>>
  BY <1>3, RunningFacts, Zenon
<1>5. /\ mem' \in [Run -> Records] /\ disk' \in [Run -> Records]
      /\ mem'[r].started /\ mem'[r].data = "collecting" /\ mem'[r].cleanup \in {"pending", "running"}
      /\ mem'[r].agents
      /\ disk'[r].started /\ disk'[r].data = "collecting" /\ disk'[r].cleanup \in {"pending", "running"}
      /\ \A k \in Run : k # r => mem'[k] = mem[k] /\ disk'[k] = disk[k]
  <2>1. mem \in [Run -> Records] /\ disk \in [Run -> Records]
    BY Zenon DEF IInv, Shape
  <2>2. CASE mem[r].agents
    <3>1. UNCHANGED <<mem, disk>>
      BY <1>1, <1>4, <2>2, Zenon DEF Remember
    <3> QED
      BY <1>4, <2>1, <2>2, <3>1, Zenon
  <2>3. CASE ~mem[r].agents
    <3>1. PICK new : new = [mem[r] EXCEPT !.agents = TRUE]
      BY Zenon
    <3>2. /\ new \in Records /\ new.started = mem[r].started /\ new.data = mem[r].data
          /\ new.cleanup = mem[r].cleanup /\ new.agents
      BY <1>4, <3>1, Zenon DEF Records
    <3>3. mem' = [mem EXCEPT ![r] = new]
      BY <1>1, <1>4, <2>3, <3>1, Zenon DEF Remember
    <3>4. disk' = [disk EXCEPT ![r] = new]
      <4>1. disk' = [disk EXCEPT ![r] = mem'[r]]
        BY <1>1, <1>4, <2>3, Zenon DEF Remember
      <4>2. mem'[r] = new
        BY <2>1, <3>3, Zenon
      <4> QED
        BY <4>1, <4>2, Zenon
    <3> QED
      BY <1>4, <2>1, <3>2, <3>3, <3>4, Zenon
  <2> QED
    BY <2>2, <2>3, Zenon
<1>6. mem'[r] # NoRun
  <2>1. ~NoRun.agents
    BY Zenon DEF NoRun
  <2> QED
    BY <1>5, <2>1, Zenon
<1>7. Kept({Current(w)}) /\ Started(mem'[r]) /\ Started(disk'[r])
  <2>1. Gentle
    BY <1>2, <1>4, <1>5, Zenon DEF Gentle, Started
  <2> QED
    BY <1>2, <1>4, <1>5, <1>6, <2>1, Zenon DEF Kept, Started
<1>8. Current(w)' = r /\ ~closed'[w] /\ closed' \in [Work -> BOOLEAN]
  BY <1>2, <1>4, Zenon DEF Current, IInv, Shape, batches
<1>9. Confined(w)'
  BY <1>2, <1>4, <1>8, Zenon DEF Confined, Running
<1>10. Begun(w)'
  BY <1>2, <1>5, <1>8, Zenon DEF Begun
<1>11. NeedsRecoveredCleanup(disk'[r])
  BY <1>5, Zenon DEF NeedsRecoveredCleanup
<1>12. CleanupRemembered'
  BY <1>2, <1>4, <1>11, Zenon DEF CleanupRemembered
<1>13. /\ bad' \in [Work -> BOOLEAN]
       /\ candidates' \subseteq Run /\ queueCleanup' \subseteq Run /\ markers' \subseteq Run
       /\ pc' = [pc EXCEPT ![w] = "phases"]
  BY <1>2, Zenon DEF IInv, Shape
<1>14. /\ UNCHANGED <<batches, queue, opened>> /\ pc[w] \in Past /\ forgotten' = forgotten
       /\ idx' \in [Work -> Nat \ {0}] /\ idx' = idx /\ idx'[w] <= Len(runsOf[w])
       /\ live' = live \cup {Current(w)} /\ Started(mem'[Current(w)]) /\ Started(disk'[Current(w)])
  BY <1>2, <1>3, <1>4, <1>7, Zenon DEF IInv, Iterates, Shape
<1> QED
  BY <1>3, <1>4, <1>7, <1>8, <1>9, <1>10, <1>12, <1>13, <1>14, HeadKeeps, Zenon

LEMMA StopAllPhaseKeeps ==
  ASSUME IInv, NEW w \in Work, StopAllPhase(w)
  PROVE  IInv'
<1>1. /\ pc[w] = "phases" /\ live' = live \ {Current(w)} /\ closed' = [closed EXCEPT ![w] = TRUE]
      /\ UNCHANGED <<batches, queue, opened, idx, forgotten, bad, candidates, mem, disk, deleted>>
      /\ UNCHANGED <<pc, queueCleanup, markers>>
  BY Zenon DEF StopAllPhase, records, head, barrier
<1>2. pc[w] \in Running /\ "phases" \in Past /\ "phases" \in Running /\ "phases" \notin Before
  BY <1>1, Zenon DEF Running, Past, Pcs, Before
<1>3. live \subseteq forgotten \cup {Current(w)} /\ IsHead(w) /\ runsOf[w] # <<>>
  BY <1>2, RunningFacts, Zenon
<1>4. live' \subseteq forgotten' /\ Current(w)' = Current(w) /\ Current(w) \notin live'
  BY <1>1, <1>3, Zenon DEF Current, batches
<1>5. Confined(w)'
  BY <1>1, <1>4, Zenon DEF Confined
<1>6. Begun(w)'
  <2>1. Begun(w)
    BY Zenon DEF IInv
  <2> QED
    BY <1>1, <1>2, <1>4, <2>1, Zenon DEF Begun, Repeated, batches
<1>7. CleanupRemembered'
  BY <1>4, Zenon DEF CleanupRemembered
<1>8. /\ bad' \in [Work -> BOOLEAN] /\ closed' \in [Work -> BOOLEAN]
      /\ candidates' \subseteq Run /\ queueCleanup' \subseteq Run /\ markers' \subseteq Run
      /\ pc' = [pc EXCEPT ![w] = "phases"]
  BY <1>1, Zenon DEF IInv, Shape
<1>9. Kept({}) /\ UNCHANGED <<batches, queue, opened, idx, forgotten>> /\ pc[w] \in Past /\ live' \subseteq live
  BY <1>1, <1>2, NothingWritten, Zenon DEF IInv
<1> QED
  BY <1>2, <1>3, <1>5, <1>6, <1>7, <1>8, <1>9, StepKeeps, Zenon

LEMMA EndPhasesKeeps ==
  ASSUME IInv, NEW w \in Work, NEW failed \in BOOLEAN, EndPhases(w, failed)
  PROVE  IInv'
<1>1. PICK new : new = [r \in Run |-> [mem[r] EXCEPT !.cleanup = "running"]]
  BY Zenon
<1>2. /\ pc[w] = "phases"
      /\ UNCHANGED <<batches, queue, opened, idx, forgotten, closed, candidates, deleted>>
      /\ UNCHANGED <<queueCleanup, markers, live>>
      /\ \/ /\ pc' = [pc EXCEPT ![w] = "stop"] /\ Update({Current(w)}, new)
            /\ bad' = [bad EXCEPT ![w] = failed \/ canceled[w]]
         \/ /\ pc' = [pc EXCEPT ![w] = "final"] /\ UNCHANGED <<mem, disk>> /\ ~Repeated(w)
            /\ bad' = [bad EXCEPT ![w] = FALSE]
  <2> DEFINE b == failed \/ canceled[w]
  <2>1. CASE b \/ Repeated(w)
    BY <1>1, <2>1, Zenon DEF EndPhases, head, barrier
  <2>2. CASE ~(b \/ Repeated(w))
    <3>1. b = FALSE
      BY <2>2, Zenon
    <3> QED
      BY <2>2, <3>1, Zenon DEF EndPhases, head, barrier
  <2> QED
    BY <2>1, <2>2, Zenon
<1>3. pc[w] \in Running
  BY <1>2, Zenon DEF Running
<1>4. PICK r \in Run :
        /\ r = Current(w) /\ r \in Members(w) /\ r \notin deleted /\ mem[r] # NoRun /\ mem[r] \in Records
        /\ mem[r].agents => /\ disk[r].started /\ disk[r].data = "collecting"
                            /\ disk[r].cleanup \in {"pending", "running"}
        /\ mem[r].started /\ mem[r].data = "collecting" /\ mem[r].cleanup \in {"pending", "running"}
        /\ r \in live => mem[r].agents /\ ~closed[w]
        /\ live \subseteq forgotten \cup {r} /\ IsHead(w) /\ runsOf[w] # <<>> /\ pc[w] \in Past
  BY <1>3, RunningFacts, Zenon
<1>5. Current(w)' = r /\ Repeated(w)' = Repeated(w)
  BY <1>2, <1>4, Zenon DEF Current, Repeated, batches
<1>6. UNCHANGED <<batches, queue, opened, idx, forgotten>> /\ live' \subseteq live
  BY <1>2, Zenon
<1>7. /\ closed' \in [Work -> BOOLEAN]
      /\ candidates' \subseteq Run /\ queueCleanup' \subseteq Run /\ markers' \subseteq Run
  BY <1>2, Zenon DEF IInv, Shape
<1>8. CASE pc' = [pc EXCEPT ![w] = "stop"] /\ Update({Current(w)}, new)
           /\ bad' = [bad EXCEPT ![w] = failed \/ canceled[w]]
  <2>1. ASSUME NEW k \in Run
        PROVE  /\ new[k] \in Records /\ new[k].agents = mem[k].agents /\ new[k].started = mem[k].started
               /\ new[k].data = mem[k].data /\ new[k].cleanup = "running"
    <3>1. mem[k] \in Records
      BY Zenon DEF IInv, Shape
    <3>2. new[k] = [mem[k] EXCEPT !.cleanup = "running"]
      BY <1>1, Zenon
    <3> QED
      BY <3>1, <3>2, Zenon DEF Records
  <2>2. Revision(new)
    <3>1. NoRun.cleanup = ""
      BY Zenon DEF NoRun
    <3> QED
      BY <1>1, <2>1, <3>1, Zenon DEF Revision
  <2>3. Kept({}) /\ mem'[r] = new[r] /\ (disk'[r] = disk[r] \/ disk'[r] = new[r])
    <3>1. Shape /\ deleted' = deleted /\ Update({r}, new)
      BY <1>2, <1>4, <1>8, Zenon DEF IInv
    <3> QED
      BY <1>4, <2>2, <3>1, UpdateOne, Zenon
  <2>a. mem[r].agents => /\ disk'[r].started /\ disk'[r].data = "collecting"
                         /\ disk'[r].cleanup \in {"pending", "running"}
    BY <1>4, <2>1, <2>3, Zenon
  <2>4. pc'[w] = "stop" /\ "stop" \in Past /\ "stop" \in Running /\ "stop" \notin Before
    BY <1>8, Zenon DEF IInv, Shape, Past, Pcs, Running, Before
  <2>5. Confined(w)'
    BY <1>2, <1>4, <1>5, <2>4, Zenon DEF Confined, Running
  <2>6. Begun(w)'
    <3>1. /\ mem'[r].started /\ mem'[r].data = "collecting" /\ mem'[r].cleanup = "running"
          /\ mem'[r].agents = mem[r].agents
      BY <1>4, <2>1, <2>3, Zenon
    <3>2. r \in live' => mem[r].agents /\ ~closed'[w]
      BY <1>2, <1>4, Zenon
    <3>3. pc'[w] # "final"
      BY <2>4, Zenon
    <3> QED
      BY <1>5, <2>a, <3>1, <3>2, <3>3, Zenon DEF Begun
  <2>7. mem[r].agents => NeedsRecoveredCleanup(disk'[r])
    BY <2>a, Zenon DEF NeedsRecoveredCleanup
  <2>8. CleanupRemembered'
    BY <1>2, <1>4, <2>7, Zenon DEF CleanupRemembered
  <2>9. bad' \in [Work -> BOOLEAN]
    <3>1. (failed \/ canceled[w]) \in BOOLEAN
      BY Zenon
    <3> QED
      BY <1>8, <3>1, Zenon DEF IInv, Shape
  <2> QED
    BY <1>3, <1>4, <1>6, <1>7, <1>8, <2>3, <2>4, <2>5, <2>6, <2>8, <2>9, StepKeeps, Zenon
<1>9. CASE pc' = [pc EXCEPT ![w] = "final"] /\ UNCHANGED <<mem, disk>> /\ ~Repeated(w)
           /\ bad' = [bad EXCEPT ![w] = FALSE]
  <2>1. pc'[w] = "final" /\ "final" \in Past /\ "final" \in Running /\ "final" \notin Before
    BY <1>9, Zenon DEF IInv, Shape, Past, Pcs, Running, Before
  <2>2. bad' \in [Work -> BOOLEAN] /\ ~bad'[w]
    BY <1>9, Zenon DEF IInv, Shape
  <2>3. Confined(w)'
    BY <1>2, <1>4, <1>5, <2>1, Zenon DEF Confined, Running
  <2>4. Begun(w)'
    BY <1>2, <1>4, <1>5, <1>9, <2>1, <2>2, Zenon DEF Begun
  <2>5. CleanupRemembered'
    BY <1>2, <1>9, Zenon DEF IInv, CleanupRemembered
  <2>6. Kept({})
    BY <1>2, <1>9, NothingWritten, Zenon DEF IInv
  <2> QED
    BY <1>4, <1>6, <1>7, <1>9, <2>1, <2>2, <2>3, <2>4, <2>5, <2>6, StepKeeps, Zenon
<1> QED
  BY <1>2, <1>8, <1>9, Zenon

\* The final record of a run, and the end of the others if it is the last.
LEMMA FinishFacts ==
  ASSUME IInv, NEW w \in Work, pc[w] \in Running, NEW confirmed \in BOOLEAN, NEW drained \in BOOLEAN,
         Finish(w, confirmed, drained), deleted' = deleted
  PROVE  /\ Kept({})
         /\ \E next \in BOOLEAN :
              /\ pc' = [pc EXCEPT ![w] = IF next THEN "start" ELSE "exit"]
              /\ next => confirmed /\ Repeated(w) /\ idx'[w] = idx[w] + 1
         /\ idx' \in [Work -> Nat \ {0}] /\ (\A v \in Work : v # w => idx'[v] = idx[v])
         /\ idx'[w] <= Len(runsOf[w]) /\ (idx'[w] = idx[w] \/ idx'[w] = idx[w] + 1)
         /\ ~confirmed /\ mem[Current(w)].agents => NeedsRecoveredCleanup(disk'[Current(w)])
         /\ confirmed /\ drained /\ ~bad[w] /\ ~Repeated(w) /\ ~closed[w] /\ mem[Current(w)].agents =>
              NeedsRecoveredCleanup(disk'[Current(w)])
<1> DEFINE r == Current(w)
           ok == confirmed /\ drained /\ ~bad[w]
           retained == ok /\ ~Repeated(w) /\ ~closed[w] /\ mem[r].agents
           rest == {runsOf[w][i] : i \in {i \in 1..Len(runsOf[w]) : i > idx[w]}}
           final(run) == [run EXCEPT
             !.state = IF ok THEN "completed" ELSE IF canceled[w] THEN "canceled" ELSE "failed",
             !.cleanup = IF ~confirmed THEN "failed" ELSE IF retained THEN "retained" ELSE "complete",
             !.data = IF retained THEN "collecting" ELSE IF confirmed /\ drained THEN "complete" ELSE "incomplete"]
           drop(run) == [run EXCEPT !.state = "canceled"]
           Next1(p) == ok /\ p /\ idx[w] < Len(runsOf[w])
           Done(p) == IF Repeated(w) /\ ~p THEN [final(mem[r]) EXCEPT !.state = "failed"] ELSE final(mem[r])
<1>0. PICK persisted \in BOOLEAN, W \in SUBSET (rest \cup {r}) :
      /\ mem' = [k \in Run |-> IF k = r THEN Done(persisted)
                               ELSE IF ~Next1(persisted) /\ k \in rest THEN drop(mem[k]) ELSE mem[k]]
      /\ disk' = [k \in Run |-> IF k \notin W THEN disk[k] ELSE IF k = r THEN final(mem[k]) ELSE drop(mem[k])]
      /\ pc' = [pc EXCEPT ![w] = IF Next1(persisted) THEN "start" ELSE "exit"]
      /\ idx' = [idx EXCEPT ![w] = IF Next1(persisted) THEN @ + 1 ELSE @]
  BY Zenon DEF Finish
<1> DEFINE next == Next1(persisted)
           done == Done(persisted)
<1>1. /\ mem' = [k \in Run |-> IF k = r THEN done ELSE IF ~next /\ k \in rest THEN drop(mem[k]) ELSE mem[k]]
      /\ disk' = [k \in Run |-> IF k \notin W THEN disk[k] ELSE IF k = r THEN final(mem[k]) ELSE drop(mem[k])]
      /\ pc' = [pc EXCEPT ![w] = IF next THEN "start" ELSE "exit"]
      /\ idx' = [idx EXCEPT ![w] = IF next THEN @ + 1 ELSE @]
  BY <1>0, Zenon
<1>2. /\ r \in Run /\ r \in Members(w) /\ mem[r] # NoRun /\ mem[r] \in Records /\ mem[r].started
      /\ runsOf[w] # <<>> /\ mem[r].cleanup # "complete"
      /\ mem[r].agents => /\ disk[r].started /\ disk[r].data = "collecting"
                          /\ disk[r].cleanup \in {"pending", "running"}
  BY RunningFacts, Zenon
<1>3. ASSUME NEW run \in Records
      PROVE  /\ final(run) \in Records /\ final(run).started = run.started /\ final(run) # NoRun
             /\ final(run).agents = run.agents
             /\ final(run).cleanup = IF ~confirmed THEN "failed" ELSE IF retained THEN "retained" ELSE "complete"
             /\ drop(run) \in Records /\ drop(run) # NoRun /\ drop(run).started = run.started
             /\ drop(run).agents = run.agents
  <2>1. PICK s \in {"completed", "canceled", "failed"} :
          s = IF ok THEN "completed" ELSE IF canceled[w] THEN "canceled" ELSE "failed"
    BY Zenon
  <2>2. PICK c \in {"failed", "retained", "complete"} :
          c = IF ~confirmed THEN "failed" ELSE IF retained THEN "retained" ELSE "complete"
    BY Zenon
  <2>3. PICK d \in {"collecting", "complete", "incomplete"} :
          d = IF retained THEN "collecting" ELSE IF confirmed /\ drained THEN "complete" ELSE "incomplete"
    BY Zenon
  <2>4. final(run) = [run EXCEPT !.state = s, !.cleanup = c, !.data = d]
    BY <2>1, <2>2, <2>3, Zenon
  <2>5. /\ final(run) \in Records /\ final(run).started = run.started /\ final(run).cleanup = c
        /\ final(run).agents = run.agents
    BY <2>4, Zenon DEF Records
  <2>6. /\ drop(run) \in Records /\ drop(run).state = "canceled" /\ drop(run).started = run.started
        /\ drop(run).agents = run.agents
    BY Zenon DEF Records
  <2>7. NoRun.cleanup = "" /\ NoRun.state = "none"
    BY Zenon DEF NoRun
  <2> QED
    BY <2>2, <2>5, <2>6, <2>7, Zenon
<1>4. \A k \in rest : k \in Members(w)
  <2>1. DOMAIN runsOf[w] = 1..Len(runsOf[w])
    BY MembersFacts, Zenon DEF IInv
  <2> QED
    BY <2>1, Zenon DEF Members, Range
<1>5. \A k \in Members(w) : mem[k] # NoRun
  BY Zenon DEF IInv, Recorded, Running, Owned, Pcs
<1>6. next => confirmed /\ Repeated(w)
  <2>1. Len(runsOf[w]) \in Nat /\ idx[w] \in Nat \ {0} /\ repetitions[w] \in Nat /\ Len(runsOf[w]) <= repetitions[w]
    BY MembersFacts, Zenon DEF IInv, Shape, Iterates
  <2>2. idx[w] < Len(runsOf[w]) => Repeated(w)
    BY <2>1 DEF Repeated
  <2> QED
    BY <2>2, Zenon
<1>7. /\ idx' \in [Work -> Nat \ {0}] /\ (\A v \in Work : v # w => idx'[v] = idx[v])
      /\ idx'[w] <= Len(runsOf[w])
      /\ idx'[w] = IF next THEN idx[w] + 1 ELSE idx[w]
  <2>1. Len(runsOf[w]) \in Nat /\ idx \in [Work -> Nat \ {0}] /\ idx[w] <= Len(runsOf[w])
    BY <1>2, MembersFacts, Zenon DEF IInv, Shape, Iterates
  <2>2. PICK n \in Nat \ {0} : n = (IF next THEN idx[w] + 1 ELSE idx[w]) /\ n <= Len(runsOf[w])
    <3>1. next => idx[w] + 1 <= Len(runsOf[w])
      BY <2>1
    <3> HIDE DEF next
    <3> QED
      BY <2>1, <3>1
  <2>3. idx' = [idx EXCEPT ![w] = n]
    BY <1>1, <2>2, Zenon
  <2> QED
    BY <2>1, <2>2, <2>3, Zenon
<1>8. \A k \in Run : mem[k] \in Records /\ disk[k] \in Records
  BY Zenon DEF IInv, Shape
<1>9. done \in Records /\ done # NoRun /\ done.started /\ done.agents = mem[r].agents
  <2>1. CASE Repeated(w) /\ ~persisted
    <3> HIDE DEF final
    <3>1. done = [final(mem[r]) EXCEPT !.state = "failed"]
      BY <2>1, Zenon
    <3>a. PICK f \in Records : f = final(mem[r]) /\ f.started = mem[r].started /\ f.agents = mem[r].agents
      BY <1>2, <1>3, Zenon
    <3>2. /\ done \in Records /\ done.state = "failed" /\ done.started = mem[r].started
          /\ done.agents = mem[r].agents
      <4>1. done = [f EXCEPT !.state = "failed"]
        BY <3>1, <3>a, Zenon
      <4> HIDE DEF done
      <4> QED
        BY <3>a, <4>1, Zenon DEF Records
    <3>3. NoRun.state = "none"
      BY Zenon DEF NoRun
    <3> QED
      BY <1>2, <3>2, <3>3, Zenon
  <2>2. CASE ~(Repeated(w) /\ ~persisted)
    <3> HIDE DEF final
    <3>1. done = final(mem[r])
      BY <2>2, Zenon
    <3> QED
      BY <1>2, <1>3, <3>1, Zenon
  <2> QED
    BY <2>1, <2>2, Zenon
<1> HIDE DEF ok, retained, next, rest, final, drop, done, r
<1>10. /\ \A k \in Run : mem'[k] = IF k = r THEN done ELSE IF ~next /\ k \in rest THEN drop(mem[k]) ELSE mem[k]
       /\ \A k \in Run : disk'[k] = IF k \notin W THEN disk[k] ELSE IF k = r THEN final(mem[k]) ELSE drop(mem[k])
  BY <1>1, Zenon
<1>11. Kept({})
  <2>1. mem' \in [Run -> Records] /\ disk' \in [Run -> Records]
    BY <1>1, <1>3, <1>8, <1>9, Zenon
  <2>2. \A k \in Run : mem[k] = NoRun => k # r /\ k \notin rest /\ k \notin W
    BY <1>2, <1>4, <1>5, Zenon
  <2>3. \A k \in Run : k # r /\ k \notin rest => k \notin W
    BY Zenon
  <2>4. \A k \in Run : mem[k] # NoRun /\ Started(mem[k]) =>
                         /\ Started(mem'[k])
                         /\ Started(disk[k]) => Started(disk'[k])
    <3> SUFFICES ASSUME NEW k \in Run, mem[k] # NoRun, mem[k].started
                 PROVE  Started(mem'[k]) /\ (Started(disk[k]) => Started(disk'[k]))
      BY Zenon DEF Started
    <3>1. final(mem[k]).started /\ drop(mem[k]).started
      BY <1>3, <1>8, Zenon
    <3>2. mem'[k] = done \/ mem'[k] = drop(mem[k]) \/ mem'[k] = mem[k]
      BY <1>10, Zenon
    <3>3. disk'[k] = disk[k] \/ disk'[k] = final(mem[k]) \/ disk'[k] = drop(mem[k])
      BY <1>10, Zenon
    <3> QED
      BY <1>9, <3>1, <3>2, <3>3, Zenon DEF Started
  <2>5. Gentle
    BY <1>10, <2>2, <2>4, Zenon DEF Gentle
  <2>6. \A k \in Run : /\ mem[k] # NoRun => mem'[k] # NoRun
                       /\ mem[k] # NoRun /\ ~mem[k].agents => ~mem'[k].agents
    <3> SUFFICES ASSUME NEW k \in Run, mem[k] # NoRun
                 PROVE  mem'[k] # NoRun /\ (~mem[k].agents => ~mem'[k].agents)
      BY Zenon
    <3>1. drop(mem[k]) # NoRun /\ drop(mem[k]).agents = mem[k].agents
      BY <1>3, <1>8, Zenon
    <3>2. (k = r /\ mem'[k] = done) \/ mem'[k] = drop(mem[k]) \/ mem'[k] = mem[k]
      BY <1>10, Zenon
    <3> QED
      BY <1>9, <3>1, <3>2, Zenon
  <2> QED
    BY <2>1, <2>5, <2>6, Zenon DEF Kept
<1>12. (~confirmed \/ retained) /\ mem[r].agents => NeedsRecoveredCleanup(disk'[r])
  <2>1. CASE r \in W
    <3>1. disk'[r] = final(mem[r])
      BY <1>2, <1>10, <2>1, Zenon
    <3> QED
      BY <1>2, <1>3, <3>1, Zenon DEF NeedsRecoveredCleanup
  <2>2. CASE r \notin W
    <3>1. disk'[r] = disk[r]
      BY <1>2, <1>10, <2>2, Zenon
    <3> QED
      BY <1>2, <3>1, Zenon DEF NeedsRecoveredCleanup
  <2> QED
    BY <2>1, <2>2, Zenon
<1>13. \E n \in BOOLEAN : /\ pc' = [pc EXCEPT ![w] = IF n THEN "start" ELSE "exit"]
                          /\ n => confirmed /\ Repeated(w) /\ idx'[w] = idx[w] + 1
  <2>1. CASE next
    BY <1>1, <1>6, <1>7, <2>1, Zenon
  <2>2. CASE ~next
    BY <1>1, <2>2, Zenon
  <2> QED
    BY <2>1, <2>2, Zenon
<1>14. idx'[w] = idx[w] \/ idx'[w] = idx[w] + 1
  BY <1>7, Zenon
<1> QED
  BY <1>7, <1>11, <1>12, <1>13, <1>14, Zenon DEF retained, ok, r

LEMMA StopPeersKeeps ==
  ASSUME IInv, NEW w \in Work, NEW confirmed \in BOOLEAN, NEW drained \in BOOLEAN,
         StopPeers(w, confirmed, drained)
  PROVE  IInv'
<1>1. /\ pc[w] = "stop" /\ Finish(w, confirmed, drained)
      /\ live' = IF confirmed THEN live \ {Current(w)} ELSE live
      /\ UNCHANGED <<batches, queue, opened, forgotten, closed, bad, candidates, deleted>>
      /\ UNCHANGED <<queueCleanup, markers>>
  BY Zenon DEF StopPeers, head, barrier
<1>2. pc[w] \in Running
  BY <1>1, Zenon DEF Running
<1>3. /\ IsHead(w) /\ pc[w] \in Past /\ Current(w) \in Run /\ runsOf[w] # <<>>
      /\ live \subseteq forgotten \cup {Current(w)}
      /\ Current(w) \in live => mem[Current(w)].agents
  BY <1>2, RunningFacts, Zenon
<1>4. /\ Kept({}) /\ idx' \in [Work -> Nat \ {0}] /\ (\A v \in Work : v # w => idx'[v] = idx[v])
      /\ idx'[w] <= Len(runsOf[w])
      /\ idx'[w] = idx[w] \/ idx'[w] = idx[w] + 1
      /\ ~confirmed /\ mem[Current(w)].agents => NeedsRecoveredCleanup(disk'[Current(w)])
  BY <1>1, <1>2, FinishFacts, Zenon
<1>5. PICK to \in {"start", "exit"} : pc' = [pc EXCEPT ![w] = to] /\ (to = "start" => confirmed /\ idx'[w] = idx[w] + 1)
  BY <1>1, <1>2, FinishFacts, Zenon
<1>6. /\ to \in Past \cup {"exit"} /\ to \notin Before \cup Running /\ pc'[w] = to
  BY <1>5, Zenon DEF Past, Pcs, Before, Running, IInv, Shape
<1>7. Confined(w)' /\ Begun(w)'
  BY <1>1, <1>3, <1>5, <1>6, Zenon DEF Confined, Begun, Running
<1>8. CleanupRemembered'
  BY <1>1, <1>3, <1>4, Zenon DEF CleanupRemembered
<1>9. /\ bad' \in [Work -> BOOLEAN] /\ closed' \in [Work -> BOOLEAN]
      /\ candidates' \subseteq Run /\ queueCleanup' \subseteq Run /\ markers' \subseteq Run
  BY <1>1, Zenon DEF IInv, Shape
<1>10. UNCHANGED <<batches, queue, opened>> /\ live' \subseteq live /\ forgotten' = forgotten
  BY <1>1, Zenon
<1> QED
  BY <1>3, <1>4, <1>5, <1>6, <1>7, <1>8, <1>9, <1>10, HeadKeeps, Zenon

LEMMA EndSingleKeeps ==
  ASSUME IInv, NEW w \in Work, NEW drained \in BOOLEAN, EndSingle(w, drained)
  PROVE  IInv'
<1>1. /\ pc[w] = "final" /\ Finish(w, TRUE, drained)
      /\ forgotten' = IF drained THEN forgotten ELSE forgotten \cup ({Current(w)} \cap live)
      /\ UNCHANGED <<batches, queue, opened, closed, bad, candidates, deleted, live>>
      /\ UNCHANGED <<queueCleanup, markers>>
  BY Zenon DEF EndSingle, head, barrier
<1>2. pc[w] \in Running
  BY <1>1, Zenon DEF Running
<1>3. /\ IsHead(w) /\ pc[w] \in Past /\ Current(w) \in Run /\ Current(w) \in Members(w) /\ runsOf[w] # <<>>
      /\ live \subseteq forgotten \cup {Current(w)}
      /\ Current(w) \in live => mem[Current(w)].agents /\ ~closed[w]
  BY <1>2, RunningFacts, Zenon
<1>4. ~bad[w] /\ ~Repeated(w)
  BY <1>1, Zenon DEF IInv, Begun, Running
<1>5. /\ Kept({}) /\ idx' \in [Work -> Nat \ {0}] /\ (\A v \in Work : v # w => idx'[v] = idx[v])
      /\ idx'[w] <= Len(runsOf[w]) /\ (idx'[w] = idx[w] \/ idx'[w] = idx[w] + 1)
      /\ drained /\ ~bad[w] /\ ~Repeated(w) /\ ~closed[w] /\ mem[Current(w)].agents =>
           NeedsRecoveredCleanup(disk'[Current(w)])
  BY <1>1, <1>2, FinishFacts, Zenon
<1>6. pc' = [pc EXCEPT ![w] = "exit"]
  BY <1>1, <1>2, <1>4, FinishFacts, Zenon
<1>7. "exit" \notin Before \cup Running /\ pc'[w] = "exit"
  BY <1>6, Zenon DEF Past, Pcs, Before, Running, IInv, Shape
<1>8. Confined(w)' /\ Begun(w)'
  BY <1>7, Zenon DEF Confined, Begun, Running
<1>9. CleanupRemembered'
  BY <1>1, <1>3, <1>4, <1>5, Zenon DEF CleanupRemembered
<1>10. /\ bad' \in [Work -> BOOLEAN] /\ closed' \in [Work -> BOOLEAN]
       /\ candidates' \subseteq Run /\ queueCleanup' \subseteq Run /\ markers' \subseteq Run
  BY <1>1, Zenon DEF IInv, Shape
<1>11. /\ UNCHANGED <<batches, queue, opened>> /\ live' \subseteq live
       /\ forgotten' \subseteq forgotten \cup (Members(w) \cap live)
  BY <1>1, <1>3, Zenon
<1> QED
  BY <1>3, <1>5, <1>6, <1>7, <1>8, <1>9, <1>10, <1>11, HeadKeeps, Zenon

-----------------------------------------------------------------------------
(* The other steps *)

\* A step beside the worker whose turn it is.
LEMMA BesideKeeps ==
  ASSUME IInv, Shape', Ordered', Recorded', CleanupRemembered', Gentle,
         UNCHANGED <<batches, live, forgotten, idx, scheduled, candidates, ids, closed, bad>>,
         queueCleanup \subseteq queueCleanup',
         \A v \in Work :
           /\ pc'[v] = pc[v] \/ pc'[v] \in {"exit", "done", "dead"}
           /\ pc'[v] \in Owned => pc[v] \in Owned
           /\ pc[v] \in Owned /\ pc'[v] = pc[v] =>
                \A r \in Members(v) : mem'[r] = mem[r] /\ disk'[r] = disk[r]
  PROVE  IInv'
<1>1. \A v \in Work : /\ Members(v)' = Members(v) /\ Current(v)' = Current(v)
                      /\ Repeated(v)' = Repeated(v) /\ Own(v)' = Own(v)
  BY Zenon DEF Members, Current, Repeated, Own, batches
<1>2. \A v \in Work : pc'[v] \in Past \cup Before => pc'[v] = pc[v]
  BY Zenon DEF Past, Before
<1>3. Unborn'
  BY <1>1, <1>2, Zenon DEF IInv, Unborn
<1>4. Running \subseteq Past
  BY Zenon DEF Running, Past, Pcs
<1>5. Iterates' /\ Separate'
  BY <1>1, <1>2, <1>4, Zenon DEF IInv, Iterates, Separate, batches
<1>6. Marked'
  <2>1. \A r \in live \cup forgotten : r \in Run /\ Started(mem[r]) /\ Started(disk[r])
    BY Zenon DEF IInv, Shape, Marked
  <2>2. \A r \in Run : Started(mem[r]) /\ Started(disk[r]) => Started(mem'[r]) /\ Started(disk'[r])
    BY Zenon DEF Gentle
  <2> QED
    BY <2>1, <2>2, Zenon DEF Marked
<1>7. Fresh'
  <2> SUFFICES ASSUME NEW v \in Work, pc'[v] = "new"
               PROVE  /\ runsOf[v] = <<>> /\ idx[v] = 1
                      /\ \A r \in Own(v) : r \notin deleted' /\ disk'[r] = NoRun /\ mem'[r] = NoRun
                      /\ \A r \in Own(v) : r \notin live /\ r \notin forgotten
                      /\ \A b \in Work : Own(v) \cap Range(attempts[b]) = {}
    BY Zenon DEF Fresh, Own, batches
  <2>1. pc[v] = "new"
    BY <1>2, Zenon DEF Before
  <2>2. /\ runsOf[v] = <<>> /\ idx[v] = 1
        /\ \A r \in Own(v) : r \notin deleted /\ disk[r] = NoRun /\ mem[r] = NoRun
        /\ \A r \in Own(v) : r \notin live /\ r \notin forgotten
        /\ \A b \in Work : Own(v) \cap Range(attempts[b]) = {}
    BY <2>1, Zenon DEF IInv, Fresh
  <2>3. \A r \in Own(v) : r \in Run
    BY OwnFacts, Zenon DEF IInv
  <2> QED
    BY <2>2, <2>3, Zenon DEF Gentle
<1>8. ASSUME NEW v \in Work PROVE Confined(v)' /\ Begun(v)' /\ Ahead(v)'
  <2>0. Running \subseteq Owned /\ Past \subseteq Owned
    BY Zenon DEF Running, Past, Owned, Pcs
  <2>1. Confined(v)' /\ Begun(v)'
    <3>1. CASE pc'[v] \notin Past
      BY <3>1, Zenon DEF Confined, Begun, Running, Past, Pcs
    <3>2. CASE pc'[v] \in Past
      <4>1. pc'[v] = pc[v] /\ Confined(v) /\ Begun(v)
        BY <1>2, <3>2, Zenon DEF IInv
      <4>2. Confined(v)'
        BY <1>1, <4>1, Zenon DEF Confined
      <4>3. CASE pc[v] \in Running
        <5>1. Current(v) \in Members(v)
          BY <4>3, RunningFacts, Zenon
        <5>2. mem'[Current(v)] = mem[Current(v)] /\ disk'[Current(v)] = disk[Current(v)]
          BY <2>0, <4>1, <4>3, <5>1, Zenon
        <5>3. Begun(v)'
          BY <1>1, <4>1, <5>2, Zenon DEF Begun
        <5> QED
          BY <4>2, <5>3, Zenon
      <4>4. CASE pc[v] \notin Running
        BY <4>1, <4>2, <4>4, Zenon DEF Begun
      <4> QED
        BY <4>3, <4>4, Zenon
    <3> QED
      BY <3>1, <3>2, Zenon
  <2>2. Ahead(v)'
    <3> SUFFICES ASSUME pc'[v] \in Owned \ {"exit"}, NEW i \in DOMAIN runsOf[v],
                        i > idx[v] \/ (i = idx[v] /\ pc'[v] \notin Running)
                 PROVE  ~mem'[runsOf[v][i]].agents
      BY Zenon DEF Ahead, batches
    <3>1. pc'[v] = pc[v]
      BY Zenon DEF Owned
    <3>2. runsOf[v][i] \in Members(v) /\ ~mem[runsOf[v][i]].agents
      BY <3>1, Zenon DEF Members, Range, IInv, Ahead
    <3> QED
      BY <3>1, <3>2, Zenon
  <2> QED
    BY <2>1, <2>2, Zenon
<1> QED
  BY <1>3, <1>5, <1>6, <1>7, <1>8, Zenon DEF IInv

\* A new slot at the end of the queue.
LEMMA AppendKeepsOrder ==
  ASSUME Shape, Ordered, NEW w \in Work, pc[w] = "new", pc' = [pc EXCEPT ![w] = "wait"],
         queue' = Append(queue, w), OpenHead(queue')
  PROVE  queue' \in Seq(Work) /\ opened' \subseteq Work /\ Ordered'
<1>1. /\ queue' \in Seq(Work) /\ Len(queue') = Len(queue) + 1 /\ Len(queue) \in Nat
      /\ \A i \in 1..Len(queue) : queue'[i] = queue[i]
      /\ queue'[Len(queue) + 1] = w
      /\ DOMAIN queue = 1..Len(queue) /\ DOMAIN queue' = 1..(Len(queue) + 1)
      /\ queue' # <<>> /\ Head(queue') = queue'[1]
  <2>1. ASSUME NEW q \in Seq(Work)
        PROVE  /\ Append(q, w) \in Seq(Work) /\ Len(Append(q, w)) = Len(q) + 1 /\ Len(q) \in Nat
               /\ \A i \in 1..Len(q) : Append(q, w)[i] = q[i]
               /\ Append(q, w)[Len(q) + 1] = w
               /\ DOMAIN q = 1..Len(q) /\ DOMAIN Append(q, w) = 1..(Len(q) + 1)
               /\ Append(q, w) # <<>> /\ Head(Append(q, w)) = Append(q, w)[1]
    OBVIOUS
  <2> QED
    BY <2>1, Zenon DEF Shape
<1>2. /\ \A j \in DOMAIN queue : queue[j] \in Work /\ queue[j] # w
      /\ \A v : IsHead(v) <=> Len(queue) > 0 /\ queue[1] = v
  BY HeadFacts, Zenon DEF Ordered, Owned
<1>3. \A v : IsHead(v)' <=> queue'[1] = v
  BY <1>1, Zenon DEF IsHead
<1>4. pc'[w] = "wait" /\ \A v \in Work : v # w => pc'[v] = pc[v]
  BY Zenon DEF Shape
<1>5. \A i, j \in DOMAIN queue' : queue'[i] = queue'[j] => i = j
  <2>1. ASSUME NEW i \in DOMAIN queue'
        PROVE  \/ i \in DOMAIN queue /\ queue'[i] = queue[i]
               \/ i = Len(queue) + 1 /\ queue'[i] = w
    <3>1. i \in 1..Len(queue) \/ i = Len(queue) + 1
      BY <1>1
    <3> QED
      BY <1>1, <3>1, Zenon
  <2> QED
    BY <1>2, <2>1 DEF Ordered
<1>6. \A i \in DOMAIN queue' : pc'[queue'[i]] \in Owned /\ (i > 1 => pc'[queue'[i]] = "wait")
  <2>1. ASSUME NEW i \in DOMAIN queue
        PROVE  pc'[queue'[i]] \in Owned /\ (i > 1 => pc'[queue'[i]] = "wait")
    BY <1>1, <1>2, <1>4 DEF Ordered
  <2>2. pc'[queue'[Len(queue) + 1]] = "wait" /\ "wait" \in Owned
    BY <1>1, <1>4, Zenon DEF Owned, Pcs
  <2> QED
    BY <1>1, <2>1, <2>2
<1>7. \A v \in Work : IsHead(v) => IsHead(v)'
  BY <1>1, <1>2, <1>3
<1>8. opened' = opened \cup {queue'[1]} /\ queue'[1] \in Work
  BY <1>1, <1>2 DEF OpenHead
<1>9. \A v \in opened' : pc'[v] \in {"done", "dead"} \/ IsHead(v)'
  <2>1. w \notin opened
    BY <1>1, <1>2 DEF Ordered
  <2> QED
    BY <1>3, <1>4, <1>7, <1>8, <2>1, Zenon DEF Ordered, Shape
<1>10. \A v \in Work : pc'[v] \in Past => IsHead(v)'
  BY <1>4, <1>7, Zenon DEF Ordered, Past
<1> QED
  BY <1>1, <1>5, <1>6, <1>8, <1>9, <1>10, Zenon DEF Ordered, Shape

\* The IDs that an item draws are free.
LEMMA FreshIsFree ==
  ASSUME IInv, NEW w \in Work, pc[w] = "new", NEW r \in Own(w)
  PROVE  /\ r \in Run /\ r \notin live /\ r \notin forgotten /\ r \notin deleted
         /\ \A v \in Work : v # w => (pc[v] \in Owned => r \notin Members(v)) /\ (pc[v] = "new" => r \notin Own(v))
<1>1. r \in Run /\ \A v \in Work : v # w => r \notin Own(v)
  BY OwnFacts, Zenon DEF IInv
<1>2. r \notin live /\ r \notin forgotten /\ r \notin deleted /\ mem[r] = NoRun
  BY Zenon DEF IInv, Fresh
<1>3. \A v \in Work : pc[v] \in Owned => r \notin Members(v)
  BY <1>2, OwnedIsRecorded, Zenon
<1> QED
  BY <1>1, <1>2, <1>3, Zenon

\* An item is admitted with runs that are nobody's.
LEMMA AdmitKeeps ==
  ASSUME IInv, NEW w \in Work, pc[w] = "new", NEW s \in Seq(Run), NEW n \in Nat, Enqueue(w, s, n),
         IsInjective(s), Len(s) <= n,
         mem' \in [Run -> Records], disk' \in [Run -> Records],
         \A r \in Run : r \notin Range(s) => mem'[r] = mem[r] /\ disk'[r] = disk[r],
         \A r \in Range(s) : mem'[r] # NoRun /\ ~mem'[r].agents,
         \A r \in Range(s) : r \notin live /\ r \notin forgotten /\ r \notin deleted,
         \A r \in Range(s), v \in Work :
           v # w => (pc[v] \in Owned => r \notin Members(v)) /\ (pc[v] = "new" => r \notin Own(v)),
         attempts' \in [Work -> Seq(Run)], previous' \in [Run -> SUBSET Run],
         cleanupRuns' \in [Work -> SUBSET Run],
         \A b \in Work : /\ IsInjective(attempts'[b])
                         /\ \A r \in Range(attempts'[b]) : r \in Range(attempts[b]) \/ r \in Own(w)
  PROVE  IInv'
<1>1. /\ pc' = [pc EXCEPT ![w] = "wait"] /\ queue' = Append(queue, w) /\ OpenHead(queue')
      /\ runsOf' = [runsOf EXCEPT ![w] = s] /\ repetitions' = [repetitions EXCEPT ![w] = n]
      /\ UNCHANGED <<plan, live, forgotten, idx, scheduled, candidates, ids, closed, bad>>
      /\ UNCHANGED <<deleted, queueCleanup, markers>>
  BY Zenon DEF Enqueue, head, barrier
<1>2. queue' \in Seq(Work) /\ opened' \subseteq Work /\ Ordered'
  BY <1>1, AppendKeepsOrder, Zenon DEF IInv
<1>3. /\ pc'[w] = "wait" /\ runsOf'[w] = s /\ repetitions'[w] = n
      /\ \A v \in Work : v # w => /\ pc'[v] = pc[v] /\ runsOf'[v] = runsOf[v]
                                  /\ repetitions'[v] = repetitions[v]
  BY <1>1, Zenon DEF IInv, Shape
<1>4. /\ Members(w)' = Range(s)
      /\ \A v \in Work : v # w => Members(v)' = Members(v) /\ Repeated(v)' = Repeated(v) /\ Current(v)' = Current(v)
      /\ \A v \in Work : Own(v)' = Own(v)
  BY <1>1, <1>3, Zenon DEF Members, Repeated, Current, Own
<1>5. Range(s) \subseteq Run /\ \A v \in Work : Members(v) \subseteq Run
  <2>1. ASSUME NEW t \in Seq(Run) PROVE \A i \in DOMAIN t : t[i] \in Run
    OBVIOUS
  <2> QED
    BY <2>1, MembersFacts, Zenon DEF Range, IInv
<1>6. Shape'
  <2>1. pc' \in [Work -> Pcs] /\ runsOf' \in [Work -> Seq(Run)] /\ repetitions' \in [Work -> Nat]
    BY <1>1, Zenon DEF IInv, Shape, Pcs
  <2> QED
    BY <1>1, <1>2, <2>1, Zenon DEF IInv, Shape
<1>7. Unborn'
  <2>1. ASSUME NEW v \in Work
        PROVE  /\ pc'[v] \in Before => live \cap Members(v)' = {}
               /\ pc'[v] \notin {"exit", "done", "dead"} => forgotten \cap Members(v)' = {}
    <3>1. CASE v = w
      BY <1>4, <3>1, Zenon
    <3>2. CASE v # w
      BY <1>3, <1>4, <3>2, Zenon DEF IInv, Unborn
    <3> QED
      BY <3>1, <3>2, Zenon
  <2> QED
    BY <1>1, <2>1, Zenon DEF Unborn
<1>8. \A v \in Work : v # w /\ pc[v] \in Owned => \A r \in Members(v) : r \in Run /\ r \notin Range(s)
  BY <1>5, Zenon
<1>9. Fresh'
  <2> SUFFICES ASSUME NEW v \in Work, pc'[v] = "new"
               PROVE  /\ runsOf'[v] = <<>> /\ idx'[v] = 1
                      /\ \A r \in Own(v) : r \notin deleted' /\ disk'[r] = NoRun /\ mem'[r] = NoRun
                      /\ \A r \in Own(v) : r \notin live' /\ r \notin forgotten'
                      /\ \A b \in Work : Own(v) \cap Range(attempts'[b]) = {}
    BY <1>1, Zenon DEF Fresh, Own
  <2>1. v # w /\ pc[v] = "new"
    BY <1>3, Zenon
  <2>2. /\ runsOf[v] = <<>> /\ idx[v] = 1
        /\ \A r \in Own(v) : r \notin deleted /\ disk[r] = NoRun /\ mem[r] = NoRun
        /\ \A r \in Own(v) : r \notin live /\ r \notin forgotten
        /\ \A b \in Work : Own(v) \cap Range(attempts[b]) = {}
    BY <2>1, Zenon DEF IInv, Fresh
  <2>3. \A r \in Own(v) : r \in Run /\ r \notin Own(w) /\ r \notin Range(s)
    BY <2>1, OwnFacts, Zenon DEF IInv
  <2>4. \A r \in Own(v) : r \notin deleted' /\ disk'[r] = NoRun /\ mem'[r] = NoRun
    BY <1>1, <2>2, <2>3, Zenon
  <2>5. \A b \in Work : Own(v) \cap Range(attempts'[b]) = {}
    BY <2>2, <2>3, Zenon
  <2> QED
    BY <1>1, <1>3, <2>1, <2>2, <2>4, <2>5, Zenon
<1>10. Iterates'
  <2>1. ASSUME NEW v \in Work
        PROVE  /\ runsOf'[v] # <<>> => idx[v] <= Len(runsOf'[v])
               /\ pc'[v] \in Running => runsOf'[v] # <<>>
               /\ Len(runsOf'[v]) <= repetitions'[v]
    <3>1. CASE v = w
      <4>1. s # <<>> => 1 <= Len(s)
        OBVIOUS
      <4>2. idx[w] = 1
        BY Zenon DEF IInv, Fresh
      <4> QED
        BY <1>3, <3>1, <4>1, <4>2, Zenon DEF Running
    <3>2. CASE v # w
      BY <1>3, <3>2, Zenon DEF IInv, Iterates
    <3> QED
      BY <3>1, <3>2, Zenon
  <2> QED
    BY <1>1, <2>1, Zenon DEF Iterates
<1>11. Separate'
  <2>1. \A v \in Work : IsInjective(runsOf'[v])
    BY <1>3, Zenon DEF IInv, Separate
  <2>2. ASSUME NEW u \in Work, NEW v \in Work, u # v, pc'[u] \in Owned, pc'[v] \in Owned
        PROVE  Members(u)' \cap Members(v)' = {}
    <3>1. CASE u = w
      BY <1>3, <1>4, <1>8, <2>2, <3>1, Zenon
    <3>2. CASE v = w
      BY <1>3, <1>4, <1>8, <2>2, <3>2, Zenon
    <3>3. CASE u # w /\ v # w
      BY <1>3, <1>4, <2>2, <3>3, Zenon DEF IInv, Separate
    <3> QED
      BY <3>1, <3>2, <3>3, Zenon
  <2> QED
    BY <2>1, <2>2, Zenon DEF Separate
<1>12. Recorded'
  <2>1. ASSUME NEW v \in Work, pc'[v] \in Owned, NEW r \in Members(v)'
        PROVE  r \notin deleted /\ mem'[r] # NoRun
    <3>1. CASE v = w
      BY <1>4, <2>1, <3>1, Zenon
    <3>2. CASE v # w
      <4>1. r \in Members(v) /\ pc[v] \in Owned
        BY <1>3, <1>4, <2>1, <3>2, Zenon
      <4> QED
        BY <1>8, <3>2, <4>1, OwnedIsRecorded, Zenon
    <3> QED
      BY <3>1, <3>2, Zenon
  <2>2. \A r \in Run : r \in deleted => disk'[r] = NoRun /\ mem'[r] = NoRun
    BY Zenon DEF IInv, Recorded
  <2> QED
    BY <1>1, <2>1, <2>2, Zenon DEF Recorded
<1>13. \A r \in live \cup forgotten : r \in Run /\ mem'[r] = mem[r] /\ disk'[r] = disk[r]
  BY Zenon DEF IInv, Shape
<1>14. Marked' /\ CleanupRemembered'
  BY <1>1, <1>13, Zenon DEF IInv, Marked, CleanupRemembered
<1>15. ASSUME NEW v \in Work PROVE Confined(v)' /\ Begun(v)' /\ Ahead(v)'
  <2>1. CASE v = w
    <3>1. Confined(v)' /\ Begun(v)'
      BY <1>3, <2>1, Zenon DEF Confined, Begun, Running
    <3>2. Ahead(v)'
      <4>1. \A i \in DOMAIN s : s[i] \in Range(s)
        BY Zenon DEF Range
      <4> QED
        BY <1>3, <2>1, <4>1, Zenon DEF Ahead
    <3> QED
      BY <3>1, <3>2, Zenon
  <2>2. CASE v # w
    <3>1. Confined(v)'
      BY <1>1, <1>3, <1>4, <2>2, Zenon DEF IInv, Confined
    <3>2. pc[v] \in Owned => \A r \in Members(v) : mem'[r] = mem[r] /\ disk'[r] = disk[r]
      BY <1>8, <2>2, Zenon
    <3>3. Begun(v)'
      <4>1. CASE pc[v] \in Running
        <5>1. Current(v) \in Members(v) /\ pc[v] \in Owned
          BY <4>1, RunningFacts, Zenon DEF Past, Owned
        <5>2. mem'[Current(v)] = mem[Current(v)] /\ disk'[Current(v)] = disk[Current(v)]
          BY <3>2, <5>1, Zenon
        <5>3. Begun(v)
          BY Zenon DEF IInv
        <5> QED
          BY <1>1, <1>3, <1>4, <2>2, <5>2, <5>3, Zenon DEF Begun
      <4>2. CASE pc[v] \notin Running
        BY <1>3, <2>2, <4>2, Zenon DEF Begun
      <4> QED
        BY <4>1, <4>2, Zenon
    <3>4. Ahead(v)'
      <4> SUFFICES ASSUME pc[v] \in Owned \ {"exit"}, NEW i \in DOMAIN runsOf[v],
                          i > idx[v] \/ (i = idx[v] /\ pc[v] \notin Running)
                   PROVE  ~mem'[runsOf[v][i]].agents
        BY <1>1, <1>3, <2>2, Zenon DEF Ahead
      <4>1. runsOf[v][i] \in Members(v) /\ ~mem[runsOf[v][i]].agents
        BY Zenon DEF Members, Range, IInv, Ahead
      <4> QED
        BY <3>2, <4>1, Zenon
    <3> QED
      BY <3>1, <3>3, <3>4, Zenon
  <2> QED
    BY <2>1, <2>2, Zenon
<1> QED
  BY <1>2, <1>6, <1>7, <1>9, <1>10, <1>11, <1>12, <1>14, <1>15, Zenon DEF IInv

\* New records, where nobody else has one.
LEMMA ReserveFacts ==
  ASSUME Shape, NEW S, NEW rec \in Records, Reserve(S, rec)
  PROVE  /\ mem' \in [Run -> Records] /\ disk' \in [Run -> Records]
         /\ \A r \in Run : r \notin S => mem'[r] = mem[r] /\ disk'[r] = disk[r]
         /\ \A r \in Run : r \in S => mem'[r] = rec
<1>1. /\ mem' = [r \in Run |-> IF r \in S THEN rec ELSE mem[r]]
      /\ disk' = [r \in Run |-> IF r \in S THEN rec ELSE disk[r]]
  BY Zenon DEF Reserve
<1> QED
  BY <1>1, Zenon DEF Shape

LEMMA QueuedFacts ==
  /\ Queued \in Records /\ Queued # NoRun /\ ~Queued.agents
  /\ LET run == [Queued EXCEPT !.state = "running", !.started = TRUE]
     IN  run \in Records /\ run # NoRun /\ ~run.agents
  /\ LET run == [Queued EXCEPT !.cleanup = "pending", !.data = "pending"]
     IN  run \in Records /\ run # NoRun /\ ~run.agents
BY DEF Queued, NoRun, Records

\* The elements of a sequence at some of its indices, in order.
Increasing(k, t) == \A i, j \in 1..k : i < j => t[i] < t[j]
TakenFrom(s, a, I) == \A r \in Range(s) : \E i \in I : r = a[i]

LEMMA IncreasingFacts ==
  ASSUME NEW a \in Seq(Run), IsInjective(a), NEW I \in SUBSET DOMAIN a, NEW k \in Nat, NEW t \in [1..k -> I],
         Increasing(k, t),
         NEW s \in [1..k -> Run], \A j \in 1..k : s[j] = a[t[j]]
  PROVE  s \in Seq(Run) /\ IsInjective(s) /\ Len(s) = k /\ TakenFrom(s, a, I)
<1>1. s \in Seq(Run) /\ Len(s) = k /\ DOMAIN s = 1..k
  OBVIOUS
<1>2. \A i \in I : i \in Nat
  <2>1. DOMAIN a = 1..Len(a) /\ Len(a) \in Nat
    OBVIOUS
  <2> QED
    BY <2>1
<1>3. IsInjective(s)
  <2> SUFFICES ASSUME NEW i \in 1..k, NEW j \in 1..k, s[i] = s[j] PROVE i = j
    BY <1>1, Zenon DEF IsInjective
  <2>1. t[i] \in I /\ t[j] \in I /\ s[i] = a[t[i]] /\ s[j] = a[t[j]]
    BY Zenon
  <2>2. t[i] = t[j]
    BY <2>1, Zenon DEF IsInjective
  <2> QED
    BY <1>2, <2>1, <2>2 DEF Increasing
<1>4. ASSUME NEW r \in Range(s) PROVE \E i \in I : r = a[i]
  <2>1. PICK i \in 1..k : r = s[i]
    BY <1>1, <1>4, Zenon DEF Range
  <2> QED
    BY <2>1, Zenon
<1> QED
  BY <1>1, <1>3, <1>4, Zenon DEF TakenFrom

LEMMA Selection ==
  ASSUME NEW a \in Seq(Run), IsInjective(a), NEW I \in SUBSET DOMAIN a, NEW n \in Nat, NEW t \in Order(I, n)
  PROVE  \A s : s = [k \in DOMAIN t |-> a[t[k]]] =>
           s \in Seq(Run) /\ IsInjective(s) /\ Len(s) <= n /\ TakenFrom(s, a, I)
<1>1. /\ t \in UNION {[1..k -> I] : k \in 0..n}
      /\ \A i, j \in DOMAIN t : i < j => t[i] < t[j]
  BY Zenon DEF Order
<1>2. PICK k \in 0..n : t \in [1..k -> I]
  BY <1>1, Zenon
<1>3. DOMAIN t = 1..k /\ k \in Nat /\ k <= n
  BY <1>2
<1>4. \A i \in I : a[i] \in Run
  OBVIOUS
<1>6. ASSUME NEW s \in [1..k -> Run], \A j \in 1..k : s[j] = a[t[j]]
      PROVE  s \in Seq(Run) /\ IsInjective(s) /\ Len(s) = k /\ TakenFrom(s, a, I)
  <2>1. Increasing(k, t)
    BY <1>1, <1>3, Zenon DEF Increasing
  <2> QED
    BY <1>2, <1>3, <1>6, <2>1, IncreasingFacts, Zenon
<1> TAKE s
<1> HAVE s = [j \in DOMAIN t |-> a[t[j]]]
<1>5. s \in [1..k -> Run] /\ \A j \in 1..k : s[j] = a[t[j]]
  <2>1. s = [j \in 1..k |-> a[t[j]]]
    BY <1>3, Zenon
  <2>2. \A j \in 1..k : a[t[j]] \in Run
    BY <1>2, <1>4, Zenon
  <2>3. \A j \in 1..k : s[j] = a[t[j]]
    BY <2>1, Zenon
  <2>4. s \in [1..k -> Run]
    BY <2>1, <2>2, Zenon
  <2> QED
    BY <2>3, <2>4, Zenon
<1>7. s \in Seq(Run) /\ IsInjective(s) /\ Len(s) = k /\ TakenFrom(s, a, I)
  BY <1>5, <1>6, Zenon
<1> QED
  BY <1>3, <1>7, Zenon

\* What a continuation finds.
LEMMA BatchFacts ==
  ASSUME IInv, NEW b \in Work
  PROVE  /\ attempts[b] \in Seq(Run) /\ IsInjective(attempts[b]) /\ Len(attempts[b]) \in Nat
         /\ \A i \in DOMAIN attempts[b] : attempts[b][i] \in Run /\ attempts[b][i] \in Range(attempts[b])
         /\ AllMembers(b) \subseteq Run /\ \A r \in Run : previous[r] \subseteq Run
         /\ \A i \in Iterations(b) : i \in DOMAIN attempts[b] /\ attempts[b][i] \in AllMembers(b)
<1>1. attempts[b] \in Seq(Run) /\ IsInjective(attempts[b]) /\ \A r \in Run : previous[r] \subseteq Run
  BY Zenon DEF IInv, Shape, Separate
<1>2. ASSUME NEW t \in Seq(Run) PROVE (\A i \in DOMAIN t : t[i] \in Run) /\ Len(t) \in Nat
  OBVIOUS
<1>3. \A i \in DOMAIN attempts[b] : attempts[b][i] \in Run /\ attempts[b][i] \in Range(attempts[b])
  BY <1>1, <1>2, Zenon DEF Range
<1>4. Range(attempts[b]) \subseteq Run
  BY <1>3, Zenon DEF Range
<1>5. AllMembers(b) \subseteq Run
  BY <1>1, <1>4, Zenon DEF AllMembers
<1>6. \A i \in Iterations(b) : i \in DOMAIN attempts[b] /\ attempts[b][i] \in AllMembers(b)
  BY <1>3, Zenon DEF Iterations, AllMembers
<1> QED
  BY <1>1, <1>2, <1>3, <1>5, <1>6, Zenon

LEMMA CleanFirstFacts ==
  ASSUME IInv, NEW w \in Work, NEW S \in SUBSET Run, CleanFirst(w, S)
  PROVE  cleanupRuns' \in [Work -> SUBSET Run]
<1>1. plan[w].of \in Work
  BY OwnFacts, Zenon DEF IInv
<1>2. PICK T : /\ T = S \cup UNION {previous[r] : r \in AllMembers(plan[w].of)}
               /\ cleanupRuns' = [cleanupRuns EXCEPT ![w] = T]
  BY Zenon DEF CleanFirst
<1>3. T \subseteq Run
  BY <1>1, <1>2, BatchFacts, Zenon
<1> QED
  BY <1>2, <1>3, Zenon DEF IInv, Shape

\* Nobody works on a batch that is continued.
LEMMA ContinuableFacts ==
  ASSUME IInv, NEW w \in Work, Continuable(w), NEW r \in AllMembers(plan[w].of), NEW v \in Work,
         pc[v] \in Owned
  PROVE  r \notin Members(v)
<1>1. ~Busy(r)
  BY Zenon DEF Continuable
<1>2. Present(v)
  BY Zenon DEF Present, Owned
<1> QED
  BY <1>1, <1>2, Zenon DEF Busy, Held

LEMMA SubmitKeeps ==
  ASSUME IInv, NEW w \in Work, Submit(w)
  PROVE  IInv'
<1> DEFINE running == [Queued EXCEPT !.state = "running", !.started = TRUE]
           put(s, f, first) == [r \in Run |-> IF r \notin Range(s) THEN f[r]
                                              ELSE IF first /\ r = s[1] THEN running ELSE Queued]
<1>0. PICK s : s = plan[w].fresh
  BY Zenon
<1> DEFINE now == queue = <<>> /\ queueCleanup = {} /\ s # <<>>
<1>1. /\ Enqueue(w, s, Len(s)) /\ pc[w] = "new"
      /\ attempts' = [attempts EXCEPT ![w] = s] /\ UNCHANGED <<previous, cleanupRuns>>
      /\ mem' = put(s, mem, now)
      /\ \E written \in BOOLEAN : disk' = put(s, disk, now /\ written)
  BY <1>0, Zenon DEF Submit
<1>2. s \in Seq(Run) /\ IsInjective(s) /\ Range(s) = Own(w)
  BY <1>0, OwnFacts, Zenon DEF IInv, Own
<1>3. Len(s) \in Nat /\ Len(s) <= Len(s)
  BY <1>2
<1>4. running \in Records /\ running # NoRun /\ ~running.agents
  BY QueuedFacts, Zenon
<1>5. Queued \in Records /\ Queued # NoRun /\ ~Queued.agents
  BY QueuedFacts, Zenon
<1> HIDE DEF running, now
<1>6. /\ mem' \in [Run -> Records] /\ disk' \in [Run -> Records]
      /\ \A r \in Run : r \notin Range(s) => mem'[r] = mem[r] /\ disk'[r] = disk[r]
      /\ \A r \in Run : r \in Range(s) => mem'[r] = running \/ mem'[r] = Queued
  BY <1>1, <1>4, <1>5, Zenon DEF IInv, Shape
<1>7. \A r \in Range(s) :
        /\ r \in Run /\ r \notin live /\ r \notin forgotten /\ r \notin deleted
        /\ \A v \in Work : v # w => (pc[v] \in Owned => r \notin Members(v)) /\ (pc[v] = "new" => r \notin Own(v))
  BY <1>1, <1>2, FreshIsFree, Zenon
<1>8. \A r \in Range(s) : mem'[r] # NoRun /\ ~mem'[r].agents
  BY <1>4, <1>5, <1>6, <1>7, Zenon
<1>9. /\ attempts' \in [Work -> Seq(Run)] /\ previous' \in [Run -> SUBSET Run]
      /\ cleanupRuns' \in [Work -> SUBSET Run]
  BY <1>1, <1>2, Zenon DEF IInv, Shape
<1>10. \A b \in Work : /\ IsInjective(attempts'[b])
                       /\ \A r \in Range(attempts'[b]) : r \in Range(attempts[b]) \/ r \in Own(w)
  <2>1. attempts'[w] = s /\ \A b \in Work : b # w => attempts'[b] = attempts[b]
    BY <1>1, Zenon DEF IInv, Shape
  <2> QED
    BY <1>2, <2>1, Zenon DEF IInv, Separate
<1> QED
  BY <1>1, <1>2, <1>3, <1>6, <1>7, <1>8, <1>9, <1>10, AdmitKeeps, Zenon

\* ResumeScenarioBatch reuses IDs, of runs that never had Peers and that nobody holds.
LEMMA ResumeKeeps ==
  ASSUME IInv, NEW w \in Work, Resume(w)
  PROVE  IInv'
<1>1. PICK b \in Work : b = plan[w].of
  BY OwnFacts, Zenon DEF IInv
<1> DEFINE I == {i \in Iterations(b) :
                   /\ \A j \in Iterations(b) : Began(attempts[b][j]) => j < i
                   /\ Saved(attempts[b][i]) \in {"canceled", "interrupted"}}
           rec == [Queued EXCEPT !.cleanup = "pending", !.data = "pending"]
<1>a. PICK t \in Order(I, Len(attempts[b])) :
        /\ Enqueue(w, [k \in DOMAIN t |-> attempts[b][t[k]]], Len(attempts[b]))
        /\ Reserve(Range([k \in DOMAIN t |-> attempts[b][t[k]]]), rec)
  BY <1>1, Zenon DEF Resume
<1>3. /\ Continuable(w) /\ UNCHANGED <<attempts, previous>>
      /\ CleanFirst(w, {r \in AllMembers(b) : Began(r) /\ Saved(r) # "completed"})
  BY <1>1, Zenon DEF Resume
<1>4. /\ attempts[b] \in Seq(Run) /\ IsInjective(attempts[b]) /\ Len(attempts[b]) \in Nat
      /\ \A i \in DOMAIN attempts[b] : attempts[b][i] \in Run /\ attempts[b][i] \in Range(attempts[b])
      /\ AllMembers(b) \subseteq Run
      /\ \A i \in Iterations(b) : i \in DOMAIN attempts[b] /\ attempts[b][i] \in AllMembers(b)
  BY BatchFacts, Zenon
<1>5. I \subseteq DOMAIN attempts[b]
  BY <1>4, Zenon
<1>6. ASSUME NEW i \in I
      PROVE  /\ attempts[b][i] \in Run /\ attempts[b][i] \in Range(attempts[b])
             /\ attempts[b][i] \in AllMembers(b)
             /\ disk[attempts[b][i]] # NoRun /\ ~disk[attempts[b][i]].started
  <2>1. i \in Iterations(b) /\ (Began(attempts[b][i]) => i < i)
    BY Zenon
  <2>2. ~(i < i)
    <3>1. DOMAIN attempts[b] = 1..Len(attempts[b])
      BY <1>4
    <3>2. i \in 1..Len(attempts[b])
      BY <1>5, <3>1, Zenon
    <3> HIDE DEF I
    <3> QED
      BY <1>4, <3>2
  <2> QED
    BY <1>4, <2>1, <2>2, Zenon DEF Began, Iterations
<1>7. rec \in Records /\ rec # NoRun /\ ~rec.agents
  BY QueuedFacts, Zenon
<1> HIDE DEF I, rec
<1>b. PICK s : s = [k \in DOMAIN t |-> attempts[b][t[k]]]
  BY Zenon
<1>c. s \in Seq(Run) /\ IsInjective(s) /\ Len(s) <= Len(attempts[b]) /\ TakenFrom(s, attempts[b], I)
  BY <1>4, <1>5, <1>b, Selection, Zenon
<1>8. /\ s \in Seq(Run) /\ IsInjective(s) /\ Len(s) <= Len(attempts[b])
      /\ \A r \in Range(s) : \E i \in I : r = attempts[b][i]
  BY <1>c, Zenon DEF TakenFrom
<1>2. Enqueue(w, s, Len(attempts[b])) /\ Reserve(Range(s), rec)
  BY <1>a, <1>b, Zenon
<1>9. /\ mem' \in [Run -> Records] /\ disk' \in [Run -> Records]
      /\ \A r \in Run : r \notin Range(s) => mem'[r] = mem[r] /\ disk'[r] = disk[r]
      /\ \A r \in Run : r \in Range(s) => mem'[r] = rec
  BY <1>2, <1>7, ReserveFacts, Zenon DEF IInv
<1>10. ASSUME NEW r \in Range(s)
       PROVE  /\ r \in Run /\ r \notin live /\ r \notin forgotten /\ r \notin deleted
              /\ \A v \in Work : v # w => (pc[v] \in Owned => r \notin Members(v)) /\ (pc[v] = "new" => r \notin Own(v))
  <2>1. /\ r \in Run /\ r \in Range(attempts[b]) /\ r \in AllMembers(b)
        /\ disk[r] # NoRun /\ ~disk[r].started
    BY <1>6, <1>8, Zenon
  <2>2. r \notin live /\ r \notin forgotten /\ r \notin deleted
    BY <2>1, Zenon DEF IInv, Marked, Started, Recorded
  <2>3. \A v \in Work : pc[v] \in Owned => r \notin Members(v)
    BY <1>1, <1>3, <2>1, ContinuableFacts, Zenon
  <2>4. \A v \in Work : pc[v] = "new" => r \notin Own(v)
    BY <2>1, Zenon DEF IInv, Fresh
  <2> QED
    BY <2>1, <2>2, <2>3, <2>4, Zenon
<1>11. \A r \in Range(s) : mem'[r] # NoRun /\ ~mem'[r].agents
  BY <1>7, <1>9, <1>10, Zenon
<1>12. cleanupRuns' \in [Work -> SUBSET Run]
  <2>1. PICK S \in SUBSET Run : CleanFirst(w, S)
    BY <1>3, <1>4, Zenon
  <2> QED
    BY <2>1, CleanFirstFacts, Zenon
<1>13. attempts' \in [Work -> Seq(Run)] /\ previous' \in [Run -> SUBSET Run]
  BY <1>3, Zenon DEF IInv, Shape
<1>14. \A c \in Work : /\ IsInjective(attempts'[c])
                       /\ \A r \in Range(attempts'[c]) : r \in Range(attempts[c]) \/ r \in Own(w)
  BY <1>3, Zenon DEF IInv, Separate
<1>15. pc[w] = "new"
  BY <1>3, Zenon DEF Continuable
<1> QED
  BY <1>2, <1>4, <1>8, <1>9, <1>10, <1>11, <1>12, <1>13, <1>14, <1>15, AdmitKeeps, Zenon

\* RetryScenarioBatch: a new attempt takes the place of each unfinished one.
LEMMA RetryKeeps ==
  ASSUME IInv, NEW w \in Work, Retry(w)
  PROVE  IInv'
<1>1. PICK b \in Work : b = plan[w].of
  BY OwnFacts, Zenon DEF IInv
<1> DEFINE I == {i \in Iterations(b) : Saved(attempts[b][i]) # "completed"}
           rec == [Queued EXCEPT !.cleanup = "pending", !.data = "pending"]
<1>2. PICK fresh \in Seq(Run) : fresh = plan[w].fresh /\ IsInjective(fresh) /\ Range(fresh) = Own(w)
  BY OwnFacts, Zenon DEF IInv, Own
<1>a. PICK t \in Order(I, Len(attempts[b])) :
        /\ Enqueue(w, [k \in DOMAIN t |-> fresh[t[k]]], Len(attempts[b]))
        /\ Reserve(Range([k \in DOMAIN t |-> fresh[t[k]]]), rec)
  BY <1>1, <1>2, Zenon DEF Retry
<1>4. /\ Continuable(w) /\ I \subseteq DOMAIN fresh
      /\ attempts' = [attempts EXCEPT ![b] = [i \in DOMAIN attempts[b] |-> IF i \in I THEN fresh[i] ELSE attempts[b][i]]]
      /\ previous' = [r \in Run |-> UNION ({previous[r]} \cup
           {previous[attempts[b][i]] \cup {attempts[b][i]} : i \in {i \in I : fresh[i] = r}})]
      /\ CleanFirst(w, {r \in AllMembers(b) : Saved(r) # "completed"})
  BY <1>1, <1>2, Zenon DEF Retry
<1>5. /\ attempts[b] \in Seq(Run) /\ IsInjective(attempts[b]) /\ Len(attempts[b]) \in Nat
      /\ \A i \in DOMAIN attempts[b] : attempts[b][i] \in Run /\ attempts[b][i] \in Range(attempts[b])
      /\ AllMembers(b) \subseteq Run /\ \A r \in Run : previous[r] \subseteq Run
      /\ \A i \in Iterations(b) : i \in DOMAIN attempts[b]
  BY BatchFacts, Zenon
<1>6. I \subseteq DOMAIN attempts[b] /\ I \subseteq DOMAIN fresh
  BY <1>4, <1>5, Zenon
<1>7. rec \in Records /\ rec # NoRun /\ ~rec.agents
  BY QueuedFacts, Zenon
<1> HIDE DEF I, rec
<1>8. \A i \in I : fresh[i] \in Own(w)
  BY <1>2, <1>6, Zenon DEF Range
<1>b. PICK s : s = [k \in DOMAIN t |-> fresh[t[k]]]
  BY Zenon
<1>c. s \in Seq(Run) /\ IsInjective(s) /\ Len(s) <= Len(attempts[b]) /\ TakenFrom(s, fresh, I)
  BY <1>2, <1>5, <1>6, <1>b, Selection, Zenon
<1>9. /\ s \in Seq(Run) /\ IsInjective(s) /\ Len(s) <= Len(attempts[b])
      /\ \A r \in Range(s) : \E i \in I : r = fresh[i]
  BY <1>c, Zenon DEF TakenFrom
<1>3. Enqueue(w, s, Len(attempts[b])) /\ Reserve(Range(s), rec)
  BY <1>a, <1>b, Zenon
<1>10. /\ mem' \in [Run -> Records] /\ disk' \in [Run -> Records]
       /\ \A r \in Run : r \notin Range(s) => mem'[r] = mem[r] /\ disk'[r] = disk[r]
       /\ \A r \in Run : r \in Range(s) => mem'[r] = rec
  BY <1>3, <1>7, ReserveFacts, Zenon DEF IInv
<1>11. pc[w] = "new"
  BY <1>4, Zenon DEF Continuable
<1>12. \A r \in Range(s) :
         /\ r \in Run /\ r \notin live /\ r \notin forgotten /\ r \notin deleted
         /\ \A v \in Work : v # w => (pc[v] \in Owned => r \notin Members(v)) /\ (pc[v] = "new" => r \notin Own(v))
  BY <1>8, <1>9, <1>11, FreshIsFree, Zenon
<1>13. \A r \in Range(s) : mem'[r] # NoRun /\ ~mem'[r].agents
  BY <1>7, <1>10, <1>12, Zenon
<1>14. cleanupRuns' \in [Work -> SUBSET Run]
  <2>1. PICK S \in SUBSET Run : CleanFirst(w, S)
    BY <1>4, <1>5, Zenon
  <2> QED
    BY <2>1, CleanFirstFacts, Zenon
<1>15. PICK a : a = [i \in DOMAIN attempts[b] |-> IF i \in I THEN fresh[i] ELSE attempts[b][i]]
  BY Zenon
<1>16. \A i \in I : fresh[i] \in Run
  BY <1>8, OwnFacts, Zenon DEF IInv
<1>17. a \in Seq(Run)
  <2>1. DOMAIN attempts[b] = 1..Len(attempts[b])
    BY <1>5
  <2>2. a \in [1..Len(attempts[b]) -> Run]
    BY <1>5, <1>15, <1>16, <2>1, Zenon
  <2> QED
    BY <1>5, <2>2
<1>18. attempts' = [attempts EXCEPT ![b] = a]
  BY <1>4, <1>15, Zenon
<1>19. attempts' \in [Work -> Seq(Run)] /\ attempts'[b] = a /\ \A c \in Work : c # b => attempts'[c] = attempts[c]
  BY <1>17, <1>18, Zenon DEF IInv, Shape
<1>20. previous' \in [Run -> SUBSET Run]
  <2>1. ASSUME NEW r \in Run
        PROVE  UNION ({previous[r]} \cup
                 {previous[attempts[b][i]] \cup {attempts[b][i]} : i \in {i \in I : fresh[i] = r}}) \subseteq Run
    <3>1. \A i \in I : attempts[b][i] \in Run /\ previous[attempts[b][i]] \subseteq Run
      BY <1>5, <1>6, Zenon
    <3> QED
      <4> SUFFICES ASSUME NEW Y \in {previous[attempts[b][i]] \cup {attempts[b][i]} : i \in {i \in I : fresh[i] = r}}
                   PROVE  Y \subseteq Run
        BY <1>5, Zenon
      <4>1. PICK i \in I : Y = previous[attempts[b][i]] \cup {attempts[b][i]}
        BY Zenon
      <4> QED
        BY <3>1, <4>1, Zenon
  <2> QED
    BY <1>4, <2>1, Zenon
<1>21. DOMAIN a = DOMAIN attempts[b] /\ \A i \in DOMAIN a : a[i] = IF i \in I THEN fresh[i] ELSE attempts[b][i]
  BY <1>15, Zenon
<1>22. \A r \in Own(w) : r \notin Range(attempts[b])
  BY <1>11, Zenon DEF IInv, Fresh
<1>23. IsInjective(a)
  <2> SUFFICES ASSUME NEW i \in DOMAIN a, NEW j \in DOMAIN a, a[i] = a[j] PROVE i = j
    BY Zenon DEF IsInjective
  <2>1. CASE i \in I /\ j \in I
    BY <1>2, <1>6, <1>21, <2>1, Zenon DEF IsInjective
  <2>2. CASE i \notin I /\ j \notin I
    BY <1>5, <1>21, <2>2, Zenon DEF IsInjective
  <2>3. CASE i \in I /\ j \notin I
    BY <1>5, <1>8, <1>21, <1>22, <2>3, Zenon
  <2>4. CASE i \notin I /\ j \in I
    BY <1>5, <1>8, <1>21, <1>22, <2>4, Zenon
  <2> QED
    BY <2>1, <2>2, <2>3, <2>4, Zenon
<1>24. \A r \in Range(a) : r \in Range(attempts[b]) \/ r \in Own(w)
  BY <1>5, <1>8, <1>21, Zenon DEF Range
<1>25. \A c \in Work : /\ IsInjective(attempts'[c])
                       /\ \A r \in Range(attempts'[c]) : r \in Range(attempts[c]) \/ r \in Own(w)
  BY <1>19, <1>23, <1>24, Zenon DEF IInv, Separate
<1> QED
  BY <1>3, <1>5, <1>9, <1>10, <1>11, <1>12, <1>13, <1>14, <1>19, <1>20, <1>25, AdmitKeeps, Zenon

\* AppendScenarioBatch: more attempts at the end of those of the batch.
LEMMA AppendRunsKeeps ==
  ASSUME IInv, NEW w \in Work, AppendRuns(w)
  PROVE  IInv'
<1>1. PICK b \in Work : b = plan[w].of
  BY OwnFacts, Zenon DEF IInv
<1>2. PICK s \in Seq(Run) : s = plan[w].fresh /\ IsInjective(s) /\ Range(s) = Own(w)
  BY OwnFacts, Zenon DEF IInv, Own
<1>3. /\ Continuable(w) /\ Enqueue(w, s, Len(attempts[b]) + Len(s)) /\ Reserve(Range(s), Queued)
      /\ attempts' = [attempts EXCEPT ![b] = attempts[b] \o s]
      /\ CleanFirst(w, AllMembers(b)) /\ previous' = previous
  BY <1>1, <1>2, Zenon DEF AppendRuns
<1>4. /\ attempts[b] \in Seq(Run) /\ IsInjective(attempts[b]) /\ Len(attempts[b]) \in Nat
      /\ AllMembers(b) \subseteq Run
  BY BatchFacts, Zenon
<1>5. pc[w] = "new"
  BY <1>3, Zenon DEF Continuable
<1>6. Queued \in Records /\ Queued # NoRun /\ ~Queued.agents
  BY QueuedFacts, Zenon
<1>7. /\ mem' \in [Run -> Records] /\ disk' \in [Run -> Records]
      /\ \A r \in Run : r \notin Range(s) => mem'[r] = mem[r] /\ disk'[r] = disk[r]
      /\ \A r \in Run : r \in Range(s) => mem'[r] = Queued
  BY <1>3, <1>6, ReserveFacts, Zenon DEF IInv
<1>8. \A r \in Range(s) :
        /\ r \in Run /\ r \notin live /\ r \notin forgotten /\ r \notin deleted
        /\ \A v \in Work : v # w => (pc[v] \in Owned => r \notin Members(v)) /\ (pc[v] = "new" => r \notin Own(v))
  BY <1>2, <1>5, FreshIsFree, Zenon
<1>9. \A r \in Range(s) : mem'[r] # NoRun /\ ~mem'[r].agents
  BY <1>6, <1>7, <1>8, Zenon
<1>10. cleanupRuns' \in [Work -> SUBSET Run] /\ previous' \in [Run -> SUBSET Run]
  BY <1>3, <1>4, CleanFirstFacts, Zenon DEF IInv, Shape
<1>11. Len(attempts[b]) + Len(s) \in Nat /\ Len(s) <= Len(attempts[b]) + Len(s)
  BY <1>4
<1>12. PICK a : a = attempts[b] \o s
  BY Zenon
<1>13. /\ a \in Seq(Run) /\ DOMAIN a = 1..(Len(attempts[b]) + Len(s)) /\ Len(s) \in Nat
       /\ DOMAIN s = 1..Len(s) /\ DOMAIN attempts[b] = 1..Len(attempts[b])
       /\ \A i \in DOMAIN a : a[i] = IF i <= Len(attempts[b]) THEN attempts[b][i] ELSE s[i - Len(attempts[b])]
  BY <1>4, <1>12
<1>14. attempts' \in [Work -> Seq(Run)] /\ attempts'[b] = a /\ \A c \in Work : c # b => attempts'[c] = attempts[c]
  BY <1>3, <1>12, <1>13, Zenon DEF IInv, Shape
<1>15. ASSUME NEW i \in DOMAIN a
       PROVE  \/ i \in DOMAIN attempts[b] /\ a[i] = attempts[b][i] /\ i <= Len(attempts[b])
              \/ /\ i - Len(attempts[b]) \in DOMAIN s /\ a[i] = s[i - Len(attempts[b])]
                 /\ ~(i <= Len(attempts[b]))
  <2>1. i \in Nat
    BY <1>4, <1>13
  <2> QED
    BY <1>4, <1>13, <2>1
<1>16. \A r \in Own(w) : r \notin Range(attempts[b])
  BY <1>5, Zenon DEF IInv, Fresh
<1>17. ASSUME NEW i \in DOMAIN a
       PROVE  \/ a[i] \in Range(attempts[b]) /\ i <= Len(attempts[b])
              \/ a[i] \in Own(w) /\ ~(i <= Len(attempts[b]))
  BY <1>2, <1>15, Zenon DEF Range
<1>18. IsInjective(a)
  <2> SUFFICES ASSUME NEW i \in DOMAIN a, NEW j \in DOMAIN a, a[i] = a[j] PROVE i = j
    BY Zenon DEF IsInjective
  <2>1. CASE i <= Len(attempts[b]) /\ j <= Len(attempts[b])
    BY <1>4, <1>15, <2>1, Zenon DEF IsInjective
  <2>2. CASE ~(i <= Len(attempts[b])) /\ ~(j <= Len(attempts[b]))
    <3>1. i - Len(attempts[b]) = j - Len(attempts[b])
      BY <1>2, <1>15, <2>2, Zenon DEF IsInjective
    <3>2. i \in Nat /\ j \in Nat
      BY <1>4, <1>13
    <3> QED
      BY <1>4, <3>1, <3>2
  <2>3. CASE i <= Len(attempts[b]) /\ ~(j <= Len(attempts[b]))
    BY <1>16, <1>17, <2>3, Zenon
  <2>4. CASE ~(i <= Len(attempts[b])) /\ j <= Len(attempts[b])
    BY <1>16, <1>17, <2>4, Zenon
  <2> QED
    BY <2>1, <2>2, <2>3, <2>4, Zenon
<1>19. \A r \in Range(a) : r \in Range(attempts[b]) \/ r \in Own(w)
  BY <1>17, Zenon DEF Range
<1>20. \A c \in Work : /\ IsInjective(attempts'[c])
                       /\ \A r \in Range(attempts'[c]) : r \in Range(attempts[c]) \/ r \in Own(w)
  BY <1>14, <1>18, <1>19, Zenon DEF IInv, Separate
<1> QED
  BY <1>2, <1>3, <1>5, <1>7, <1>8, <1>9, <1>10, <1>11, <1>14, <1>20, AdmitKeeps, Zenon

LEMMA CancelKeeps ==
  ASSUME IInv, NEW w \in Work, Cancel(w)
  PROVE  IInv'
<1>1. /\ Present(w)
      /\ UNCHANGED <<batches, live, forgotten, idx, scheduled, candidates, ids, closed, bad>>
      /\ UNCHANGED <<pc, mem, disk, deleted, queueCleanup, markers>>
      /\ \/ RemoveWork(w) /\ ~IsHead(w)
         \/ UNCHANGED <<queue, opened>>
  BY Zenon DEF Cancel, head, records, barrier
<1>2. queue' \in Seq(Work) /\ opened' \subseteq Work /\ Ordered'
  <2>1. CASE RemoveWork(w) /\ ~IsHead(w)
    <3>1. pc[w] \in Pcs \ Past /\ pc[w] # "new" /\ pc' = [pc EXCEPT ![w] = pc[w]]
      BY <1>1, <2>1, Zenon DEF IInv, Ordered, Shape, Present
    <3> QED
      BY <1>1, <2>1, <3>1, RemoveKeepsOrder, Zenon DEF IInv
  <2>2. CASE UNCHANGED <<queue, opened>>
    BY <1>1, <2>2, Zenon DEF IInv, Ordered, Shape, IsHead
  <2> QED
    BY <1>1, <2>1, <2>2, Zenon
<1>3. Shape'
  BY <1>1, <1>2, Zenon DEF IInv, Shape, batches
<1>4. Recorded'
  BY <1>1, Zenon DEF IInv, Recorded, Members, batches
<1>5. CleanupRemembered'
  BY <1>1, Zenon DEF IInv, CleanupRemembered
<1>6. Gentle
  BY <1>1, Zenon DEF Gentle
<1> QED
  BY <1>1, <1>2, <1>3, <1>4, <1>5, <1>6, BesideKeeps, Zenon

LEMMA CanceledKeeps ==
  ASSUME IInv, NEW w \in Work, Canceled(w)
  PROVE  IInv'
<1>1. /\ pc[w] \in {"wait", "scan", "merge", "drain", "start"} /\ Leave(w)
      /\ UNCHANGED <<batches, live, forgotten, idx, scheduled, candidates, ids, closed, bad>>
      /\ UNCHANGED <<deleted, queueCleanup, markers>>
      /\ \/ RemoveWork(w) /\ ~IsHead(w) /\ pc[w] = "wait"
         \/ UNCHANGED <<queue, opened>> /\ ~(pc[w] = "wait" /\ w \in Range(queue) /\ ~IsHead(w))
  BY Zenon DEF Canceled, head, barrier
<1>2. CASE IsHead(w)
  <2>1. UNCHANGED <<batches, queue, opened, idx, forgotten, closed, bad, candidates>>
        /\ UNCHANGED <<deleted, live, queueCleanup, markers>>
    BY <1>1, <1>2, Zenon
  <2>2. (pc[w] \in Before \/ pc[w] = "start") /\ pc[w] # "new"
    BY <1>1, Zenon DEF Before
  <2> QED
    BY <1>1, <1>2, <2>1, <2>2, LeaveKeeps, Zenon
<1>3. CASE ~IsHead(w)
  <2>1. pc[w] = "wait"
    BY <1>1, <1>3, PastIsHead, Zenon DEF Past, Pcs
  <2>2. pc' = [pc EXCEPT ![w] = "exit"] /\ CancelIterations(w)
    BY <1>1, Zenon DEF Leave
  <2>3. pc'[w] = "exit" /\ \A v \in Work : v # w => pc'[v] = pc[v]
    BY <2>2, Zenon DEF IInv, Shape
  <2>4. queue' \in Seq(Work) /\ opened' \subseteq Work /\ Ordered'
    <3>1. CASE RemoveWork(w)
      <4>1. "exit" \in Pcs \ Past
        BY Zenon DEF Pcs, Past
      <4> QED
        BY <1>3, <2>2, <3>1, <4>1, RemoveKeepsOrder, Zenon DEF IInv
    <3>2. CASE UNCHANGED <<queue, opened>> /\ w \notin Range(queue)
      <4>1. w \notin opened
        BY <1>3, <2>1, Zenon DEF IInv, Ordered
      <4>2. "exit" \notin Past
        BY Zenon DEF Past
      <4>3. Shape /\ Ordered
        BY Zenon DEF IInv
      <4> QED
        BY <2>3, <3>2, <4>1, <4>2, <4>3, OutsideKeepsOrder, Zenon
    <3> QED
      BY <1>1, <1>3, <2>1, <3>1, <3>2, Zenon
  <2>5. Kept({}) /\ \A r \in Run : r \notin Members(w) => mem'[r] = mem[r] /\ disk'[r] = disk[r]
    BY <1>1, <2>2, CancelIterationsFacts, Zenon
  <2>6. Shape'
    <3>1. pc' \in [Work -> Pcs]
      BY <2>2, Zenon DEF IInv, Shape, Pcs
    <3> QED
      BY <1>1, <2>4, <2>5, <3>1, Zenon DEF IInv, Shape, Kept, batches
  <2>7. Recorded'
    <3>1. \A v \in Work : pc'[v] \in Owned => pc[v] \in Owned
      BY <2>1, <2>3, Zenon DEF Owned, Pcs
    <3> QED
      BY <1>1, <2>5, <3>1, RecordedIsKept, Zenon DEF IInv
  <2>8. CleanupRemembered'
    <3>1. \A r \in live : r \in Run /\ r \notin Members(w)
      BY <2>1, Zenon DEF IInv, Shape, Unborn, Before
    <3> QED
      BY <1>1, <2>5, <3>1, Zenon DEF IInv, CleanupRemembered
  <2>9. \A v \in Work :
          /\ pc'[v] = pc[v] \/ pc'[v] \in {"exit", "done", "dead"}
          /\ pc'[v] \in Owned => pc[v] \in Owned
          /\ pc[v] \in Owned /\ pc'[v] = pc[v] =>
               \A r \in Members(v) : mem'[r] = mem[r] /\ disk'[r] = disk[r]
    <3>1. pc[w] \in Owned /\ \A v \in Work : Members(v) \subseteq Run
      BY <2>1, MembersFacts, Zenon DEF IInv, Owned, Pcs
    <3>2. \A v \in Work : v # w /\ pc[v] \in Owned => \A r \in Members(v) : r \notin Members(w)
      BY <3>1, OwnedApart, Zenon
    <3> QED
      BY <2>1, <2>3, <2>5, <3>1, <3>2, Zenon
  <2>10. UNCHANGED <<batches, live, forgotten, idx, scheduled, candidates, ids, closed, bad>>
         /\ queueCleanup \subseteq queueCleanup'
    BY <1>1, Zenon
  <2>11. Gentle
    BY <2>5, Zenon DEF Kept
  <2> QED
    BY <2>4, <2>6, <2>7, <2>8, <2>9, <2>10, <2>11, BesideKeeps, Zenon
<1> QED
  BY <1>2, <1>3, Zenon

LEMMA LeftKeeps ==
  ASSUME IInv, NEW w \in Work, GiveUp(w)
  PROVE  IInv'
<1>1. /\ pc[w] \in {"leave", "start"} /\ Leave(w)
      /\ UNCHANGED <<batches, queue, opened, idx, forgotten, closed, bad, candidates>>
      /\ UNCHANGED <<deleted, live, queueCleanup, markers>>
  BY Zenon DEF GiveUp, head, barrier
<1>2. (pc[w] \in Before \/ pc[w] = "start") /\ pc[w] # "new" /\ IsHead(w)
  BY <1>1, PastIsHead, Zenon DEF Before, Past, Pcs
<1> QED
  BY <1>1, <1>2, LeaveKeeps, Zenon

LEMMA ExitKeeps ==
  ASSUME IInv, NEW w \in Work, Exit(w)
  PROVE  IInv'
<1>1. /\ pc[w] = "exit" /\ pc' = [pc EXCEPT ![w] = "done"]
      /\ queueCleanup' = queueCleanup \cup Obligations(w) 
      /\ \E S \in SUBSET queueCleanup' : markers' = markers \cup S
      /\ \/ RemoveWork(w)
         \/ UNCHANGED <<queue, opened>> /\ w \notin Range(queue)
      /\ UNCHANGED <<batches, live, forgotten, idx, scheduled, candidates, ids, closed, bad>>
      /\ UNCHANGED <<mem, disk, deleted>>
  BY Zenon DEF Exit, head, records
<1>2. pc'[w] = "done" /\ \A v \in Work : v # w => pc'[v] = pc[v]
  BY <1>1, Zenon DEF IInv, Shape
<1>3. queue' \in Seq(Work) /\ opened' \subseteq Work /\ Ordered'
  <2>1. CASE RemoveWork(w)
    <3>1. "done" \in Pcs \ Past
      BY Zenon DEF Pcs, Past
    <3> QED
      BY <1>1, <2>1, <3>1, RemoveKeepsOrder, Zenon DEF IInv
  <2>2. CASE UNCHANGED <<queue, opened>> /\ w \notin Range(queue)
    <3>1. "done" \notin Past /\ "done" \in {"done", "dead"}
      BY Zenon DEF Past
    <3>2. Shape /\ Ordered
      BY Zenon DEF IInv
    <3> QED
      BY <1>2, <2>2, <3>1, <3>2, OutsideKeepsOrder, Zenon
  <2> QED
    BY <1>1, <2>1, <2>2, Zenon
<1>4. Shape'
  <2>1. Obligations(w) \subseteq Run
    BY MembersFacts, Zenon DEF IInv, Obligations
  <2>2. pc' \in [Work -> Pcs]
    BY <1>1, Zenon DEF IInv, Shape, Pcs
  <2> QED
    BY <1>1, <1>3, <2>1, <2>2, Zenon DEF IInv, Shape, batches
<1>5. Recorded'
  BY <1>1, <1>2, Zenon DEF IInv, Recorded, Members, Owned, batches
<1>6. CleanupRemembered'
  BY <1>1, Zenon DEF IInv, CleanupRemembered
<1>7. \A v \in Work :
        /\ pc'[v] = pc[v] \/ pc'[v] \in {"exit", "done", "dead"}
        /\ pc'[v] \in Owned => pc[v] \in Owned
  BY <1>1, <1>2, Zenon DEF Owned
<1>8. Gentle /\ queueCleanup \subseteq queueCleanup'
  BY <1>1, Zenon DEF Gentle
<1> QED
  BY <1>1, <1>3, <1>4, <1>5, <1>6, <1>7, <1>8, BesideKeeps, Zenon

LEMMA DeleteKeeps ==
  ASSUME IInv, NEW r \in Run, NEW seen \in SUBSET Run, Delete(r, seen)
  PROVE  IInv'
<1>1. /\ disk[r] # NoRun /\ ~Busy(r) /\ deleted' = deleted \cup {r}
      /\ mem' = [mem EXCEPT ![r] = NoRun] /\ disk' = [disk EXCEPT ![r] = NoRun]
      /\ UNCHANGED <<batches, live, forgotten, idx, scheduled, candidates, ids, closed, bad>>
      /\ UNCHANGED <<pc, queue, opened>>
      /\ \/ markers' = markers \cup {r} /\ queueCleanup' = queueCleanup \cup {r}
         \/ ~Pending(r, seen) /\ UNCHANGED <<markers, queueCleanup>>
  BY Zenon DEF Delete, workers, head, barrier
<1>2. NoRun \in Records
  BY Zenon DEF NoRun, Records
<1>3. Shape'
  <2>1. mem' \in [Run -> Records] /\ disk' \in [Run -> Records]
    BY <1>1, <1>2, Zenon DEF IInv, Shape
  <2> QED
    BY <1>1, <2>1, Zenon DEF IInv, Shape, batches
<1>4. Ordered'
  BY <1>1, Zenon DEF IInv, Ordered, IsHead
<1>5. \A v \in Work : pc[v] \in Owned => r \notin Members(v)
  BY <1>1, Zenon DEF Busy, Held, Present, Owned
<1>6. \A k \in Run : k # r => mem'[k] = mem[k] /\ disk'[k] = disk[k]
  BY <1>1, Zenon DEF IInv, Shape
<1>7. \A v \in Work : Members(v)' = Members(v) /\ Members(v) \subseteq Run
  BY <1>1, MembersFacts, Zenon DEF Members, IInv, batches
<1>8. Recorded'
  <2>1. ASSUME NEW v \in Work, NEW k \in Members(v)
        PROVE  pc[v] \in Owned => k \notin deleted' /\ mem'[k] # NoRun
    BY <1>1, <1>5, <1>6, <1>7, Zenon DEF IInv, Recorded
  <2>2. mem'[r] = NoRun /\ disk'[r] = NoRun
    BY <1>1, Zenon DEF IInv, Shape
  <2>3. \A k \in Run : k \in deleted' => disk'[k] = NoRun /\ mem'[k] = NoRun
    BY <1>1, <1>6, <2>2, Zenon DEF IInv, Recorded
  <2> QED
    BY <1>1, <1>7, <2>1, <2>3, Zenon DEF Recorded
<1>9. CleanupRemembered'
  <2>1. r \in live \ forgotten => r \in markers'
    BY <1>1, Zenon DEF IInv, CleanupRemembered, Pending
  <2>2. \A k \in live \ forgotten : k \in Run /\ (k \in markers => k \in markers')
    BY <1>1, Zenon DEF IInv, Shape
  <2> QED
    BY <1>1, <1>6, <2>1, <2>2, Zenon DEF IInv, CleanupRemembered
<1>10. \A v \in Work : pc[v] \in Owned => \A k \in Members(v) : mem'[k] = mem[k] /\ disk'[k] = disk[k]
  BY <1>5, <1>6, <1>7, Zenon
<1>11. Gentle /\ queueCleanup \subseteq queueCleanup'
  <2>1. mem'[r] = NoRun /\ disk'[r] = NoRun
    BY <1>1, Zenon DEF IInv, Shape
  <2> QED
    BY <1>1, <1>6, <2>1, Zenon DEF Gentle, Started
<1> QED
  BY <1>1, <1>3, <1>4, <1>8, <1>9, <1>10, <1>11, BesideKeeps, Zenon

\* A step after which nothing that IInv speaks of has changed.
LEMMA IdleKeeps ==
  ASSUME IInv,
         UNCHANGED <<batches, live, forgotten, idx, scheduled, candidates, ids, closed, bad>>,
         UNCHANGED <<pc, queue, opened, mem, disk, deleted, queueCleanup, markers>>
  PROVE  IInv'
<1>1. Shape' /\ Ordered'
  BY Zenon DEF IInv, Shape, Ordered, IsHead, batches
<1>2. Recorded' /\ CleanupRemembered'
  BY Zenon DEF IInv, Recorded, Members, CleanupRemembered, batches
<1>3. Gentle
  BY Zenon DEF Gentle
<1> QED
  BY <1>1, <1>2, <1>3, BesideKeeps, Zenon

LEMMA RestartKeeps ==
  ASSUME IInv, Restart
  PROVE  IInv'
<1>1. /\ queue' = <<>> /\ opened' = {} /\ pc' = [w \in Work |-> IF pc[w] = "new" THEN "new" ELSE "dead"]
      /\ mem' = [r \in Run |-> NoRun] /\ queueCleanup' = {} /\ candidates' = {}
      /\ UNCHANGED <<batches, idx, closed, bad, disk, deleted, markers, live, forgotten>>
  BY Zenon DEF Restart
<1>2. \A w \in Work : pc'[w] \in {"new", "dead"} /\ (pc'[w] = "new" => pc[w] = "new")
  BY <1>1, Zenon
<1>3. NoRun \in Records
  BY Zenon DEF NoRun, Records
<1>4. Shape'
  <2>1. mem' \in [Run -> Records] /\ pc' \in [Work -> Pcs] /\ queue' \in Seq(Work)
    BY <1>1, <1>3 DEF Pcs
  <2> QED
    BY <1>1, <2>1, Zenon DEF IInv, Shape, batches
<1>5. Ordered'
  BY <1>1, <1>2 DEF Ordered, Past
<1>6. Unborn' /\ Iterates' /\ Separate'
  BY <1>1, <1>2, Zenon DEF IInv, Unborn, Iterates, Separate, Members, Before, Running, Owned, batches
<1>7. Recorded'
  <2>1. \A v \in Work : Members(v)' = Members(v) /\ Members(v) \subseteq Run
    BY <1>1, MembersFacts, Zenon DEF Members, IInv, batches
  <2>2. \A r \in Run : mem'[r] = NoRun
    BY <1>1, Zenon
  <2> QED
    BY <1>1, <1>2, <2>1, <2>2, Zenon DEF IInv, Recorded, Owned
<1>8. \A w \in Work : Confined(w)' /\ Begun(w)' /\ Ahead(w)'
  BY <1>2, Zenon DEF Confined, Begun, Ahead, Running, Owned
<1>9. CleanupRemembered'
  BY <1>1, Zenon DEF IInv, CleanupRemembered
<1>10. Marked'
  <2>1. \A r \in live \cup forgotten : r \in Run /\ Started(disk[r])
    BY Zenon DEF IInv, Shape, Marked
  <2> QED
    BY <1>1, <2>1, Zenon DEF Marked, Started
<1>11. Fresh'
  <2>1. \A v \in Work : \A r \in Own(v) : r \in Run
    BY OwnFacts, Zenon DEF IInv
  <2>2. \A r \in Run : mem'[r] = NoRun
    BY <1>1, Zenon
  <2>3. plan' = plan /\ runsOf' = runsOf /\ attempts' = attempts
    BY <1>1, Zenon DEF batches
  <2>4. \A v \in Work : Own(v)' = Own(v)
    BY <2>3, Zenon DEF Own
  <2>5. Fresh
    BY Zenon DEF IInv
  <2> QED
    BY <1>1, <1>2, <2>1, <2>2, <2>3, <2>4, <2>5, Zenon DEF Fresh
<1> QED
  BY <1>4, <1>5, <1>6, <1>7, <1>8, <1>9, <1>10, <1>11, Zenon DEF IInv

-----------------------------------------------------------------------------
LEMMA InitIInv == Init => IInv
<1> SUFFICES ASSUME Init PROVE IInv
  BY Zenon
<1>1. \A w \in Work : pc[w] = "new" /\ idx[w] = 1 /\ runsOf[w] = <<>> /\ attempts[w] = <<>> /\ repetitions[w] = 0
  BY Zenon DEF Init
<1>2. NoRun \in Records
  BY Zenon DEF NoRun, Records
<1>3. Shape
  <2>1. /\ queue \in Seq(Work) /\ pc \in [Work -> Pcs] /\ idx \in [Work -> Nat \ {0}]
        /\ runsOf \in [Work -> Seq(Run)] /\ attempts \in [Work -> Seq(Run)] /\ repetitions \in [Work -> Nat]
    BY DEF Init, Pcs
  <2>2. mem \in [Run -> Records] /\ disk \in [Run -> Records]
    BY <1>2, Zenon DEF Init
  <2>3. previous \in [Run -> SUBSET Run] /\ cleanupRuns \in [Work -> SUBSET Run]
    BY Zenon DEF Init
  <2> QED
    BY <2>1, <2>2, <2>3, Zenon DEF Init, Shape
<1>4. Ordered
  BY <1>1 DEF Init, Ordered, Past
<1>5. DOMAIN <<>> = {} /\ Len(<<>>) = 0 /\ 0 <= 0
  OBVIOUS
<1>6. Unborn
  BY Zenon DEF Init, Unborn
<1>7. Iterates
  BY <1>1, <1>5, Zenon DEF Iterates, Running
<1>8. Recorded
  BY <1>1, Zenon DEF Init, Recorded, Owned
<1>9. \A w \in Work : Confined(w) /\ Begun(w) /\ Ahead(w)
  BY <1>1, Zenon DEF Confined, Begun, Ahead, Running, Owned
<1>10. CleanupRemembered /\ Marked
  BY Zenon DEF Init, CleanupRemembered, Marked
<1>11. Separate
  BY <1>1, <1>5, Zenon DEF Separate, IsInjective, Owned
<1>12. Fresh
  <2>1. \A v \in Work : \A r \in Own(v) : r \in Run
    BY <1>3, OwnFacts, Zenon
  <2>2. \A b \in Work : Range(attempts[b]) = {}
    BY <1>1, <1>5, Zenon DEF Range
  <2> QED
    BY <1>1, <2>1, <2>2, Zenon DEF Init, Fresh
<1> QED
  BY <1>3, <1>4, <1>6, <1>7, <1>8, <1>9, <1>10, <1>11, <1>12, Zenon DEF IInv

LEMMA NextKeeps == IInv /\ [Next]_vars => IInv'
<1> SUFFICES ASSUME IInv, [Next]_vars PROVE IInv'
  BY Zenon
<1>1. ASSUME NEW w \in Work, Step(w) PROVE IInv'
  <2>1. CASE Canceled(w) \/ GiveUp(w) \/ RecoverBegin(w) \/ RecoverMerge(w)
    BY <2>1, CanceledKeeps, LeftKeeps, RecoverBeginKeeps, RecoverMergeKeeps, Zenon
  <2>2. CASE DrainConfirmed(w) \/ Seal(w) \/ Clear(w) \/ Retire(w)
    BY <2>2, DrainKeeps, SealKeeps, ClearKeeps, RetireKeeps, Zenon
  <2>3. CASE StartWork(w) \/ Analyzed(w) \/ Exit(w)
    BY <2>3, StartWorkKeeps, AnalyzedKeeps, ExitKeeps, Zenon
  <2>4. CASE \E seen \in SUBSET Run : RecoverScan(w, seen)
    BY <2>4, RecoverScanKeeps, Zenon
  <2>5. CASE \E S \in SUBSET Run : RetireFails(w, S)
    BY <2>5, RetireFailsKeeps, Zenon
  <2>6. CASE \E failed \in BOOLEAN : EndPhases(w, failed)
    BY <2>6, EndPhasesKeeps, Zenon
  <2>7. CASE \E confirmed, drained \in BOOLEAN : StopPeers(w, confirmed, drained)
    BY <2>7, StopPeersKeeps, Zenon
  <2>8. CASE \E drained \in BOOLEAN : EndSingle(w, drained)
    BY <2>8, EndSingleKeeps
  <2> QED
    BY <1>1, <2>1, <2>2, <2>3, <2>4, <2>5, <2>6, <2>7, <2>8, Zenon DEF Step
<1>2. ASSUME NEW w \in Work, Admit(w) PROVE IInv'
  BY <1>2, SubmitKeeps, ResumeKeeps, RetryKeeps, AppendRunsKeeps, Zenon DEF Admit
<1>3. ASSUME NEW w \in Work, Cancel(w) \/ CreatePeers(w) \/ StopAllPhase(w) PROVE IInv'
  BY <1>3, CancelKeeps, CreatePeersKeeps, StopAllPhaseKeeps, Zenon
<1>4. ASSUME NEW w \in Work, NEW S \in SUBSET Run, DrainFails(w, S) \/ ClearFails(w, S) PROVE IInv'
  BY <1>4, DrainKeeps, ClearFailsKeeps, Zenon
<1>5. ASSUME NEW r \in Run, NEW seen \in SUBSET Run, Delete(r, seen) PROVE IInv'
  BY <1>5, DeleteKeeps, Zenon
<1>6. CASE Shutdown
  BY <1>6, IdleKeeps, Zenon DEF Shutdown, head, records, barrier
<1>7. CASE Restart
  BY <1>7, RestartKeeps, Zenon
<1>8. CASE UNCHANGED vars
  BY <1>8, IdleKeeps, Zenon DEF vars, workers, head, records, barrier
<1> QED
  BY <1>1, <1>2, <1>3, <1>4, <1>5, <1>6, <1>7, <1>8, Zenon DEF Next

LEMMA Isolates == IInv => QueueIsolates
<1> SUFFICES ASSUME IInv PROVE QueueIsolates
  BY Zenon
<1>1. TypeOK
  <2>1. IsInjective(queue)
    BY Zenon DEF IInv, Ordered, IsInjective
  <2>2. Range(queue) \subseteq Work
    BY HeadFacts, Zenon DEF Range, IInv
  <2> QED
    BY <2>1, <2>2, Zenon DEF TypeOK, IInv, Shape
<1>2. OneWorker
  BY Zenon DEF OneWorker, IInv, Shape, Ordered, Past
<1>3. Isolation
  BY Zenon DEF Isolation, IInv, Confined, Running
<1>4. OwnRuns
  BY Zenon DEF OwnRuns, IInv, Shape, Separate, Present, Owned
<1> QED
  BY <1>1, <1>2, <1>3, <1>4, Zenon DEF QueueIsolates

\* "Retained Peers and failed removal barriers must be resolved before CPU, disk or
\* network intensive analysis starts" (work_queue.go:162): for any batches, analyses
\* and continuations of batches, those that queue earlier run IDs again included, for
\* any cancellations, failed removals, failed writes, deletions and restarts, the
\* slots of the queue are distinct, only its head is past its turn, no run belongs to
\* two workers, and while the head works no other run has Peers on the Agents, except
\* one that EndSingle forgot.  Of run IDs it is assumed that a newly drawn one differs
\* from all others.
THEOREM HeadWorksAlone == Spec => []QueueIsolates
  BY InitIInv, NextKeeps, Isolates, PTL DEF Spec

\* "Ownership records survive result deletion" (experiment_queue.go:41): at every
\* moment at which the Controller could crash, a run with Peers on the Agents is
\* named by its manifest or by a durable marker as one to clean up, whatever writes of
\* manifests and markers failed before, except one that EndSingle forgot.
THEOREM PeersAreRemembered == Spec => []CleanupRemembered
<1>1. IInv => CleanupRemembered
  BY Zenon DEF IInv
<1> QED
  BY <1>1, InitIInv, NextKeeps, PTL DEF Spec
=============================================================================
