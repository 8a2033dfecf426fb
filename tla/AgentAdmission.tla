--------------------------- MODULE AgentAdmission ---------------------------
(***************************************************************************)
(* Peer admission and run fences of one Agent: admitNode, lockAdmission,   *)
(* stopRunGeneration, waitRunContainers, finishProcess, stop-all and       *)
(* reclaimHistory (internal/agent/agent.go, history.go, container.go,      *)
(* create_replay.go, api.go).                                              *)
(*                                                                         *)
(* The Controller sends one create request per node ID, naming the Agent   *)
(* instance it knows; the request may be delivered late and several times. *)
(* Admission reads the retired identities and the stored fence from disk   *)
(* without a lock and then validates them under Server.mu by comparing     *)
(* historyRevision.  Meanwhile stops raise fences, reclaimHistory moves    *)
(* terminal identities and fences from memory to disk, stop-all fences     *)
(* every run, and the Agent can restart with empty memory.                 *)
(***************************************************************************)
EXTENDS Integers, FiniteSets

CONSTANTS
  Run, Node, Handler,
  NodeRun,    \* [Node -> Run]: the run a create request names
  NodeGen,    \* [Node -> Nat]: its generation
  TopGen,     \* ^uint64(0), the fence of stop-all
  StopGens,   \* generations the Controller stops
  Capacity,   \* slots of the Agent
  MaxInstance \* bound: Agent restarts

Unfenced == -1
Fence == -1..TopGen

ASSUME AdmissionConstants ==
  /\ NodeRun \in [Node -> Run]
  /\ TopGen \in Nat
  /\ NodeGen \in [Node -> 0..TopGen]
  /\ StopGens \subseteq 0..TopGen
  /\ Capacity \in Nat
  /\ MaxInstance \in Nat

VARIABLES
  inst,       \* Server.startedAt, as an instance number
  sent,       \* [Node -> instance the create request names, or -1]
  issued,     \* stops the Controller has sent: <<run, generation>>
  procs,      \* Server.processes: "none", "live", "stopping", "leaked" (exited,
              \* container not removed), "done" (exited and removed)
  acked,      \* processes with heartbeatAcknowledged
  fences,     \* Server.runFences
  storedFences, retired, runIndex,   \* peer-history on disk
  handler,    \* POST /api/v1/nodes in progress
  waiting,    \* DELETE runs/{run}/nodes waiting for containers
  cleaned,    \* history: stops answered with 202
  started,    \* history: [Node -> number of times the Peer was admitted]
  stopAll,    \* DELETE /api/v1/nodes: "idle", "fencing", "storing", "waiting"
  reclaim,    \* reclaimHistory: phase and its snapshots
  closing     \* Server.shuttingDown

vars == <<inst, sent, issued, procs, acked, fences, storedFences, retired, runIndex,
          handler, waiting, cleaned, started, stopAll, reclaim, closing>>
diskVars == <<storedFences, retired, runIndex>>
envVars == <<inst, sent, issued>>

NoNode == "no node"
Idle == [pc |-> "idle", node |-> NoNode, same |-> FALSE, stored |-> Unfenced]
NoReclaim == [phase |-> "idle", nodes |-> {}, fences |-> [r \in Run |-> Unfenced]]

Init ==
  /\ inst = 0
  /\ sent = [n \in Node |-> -1]
  /\ issued = {}
  /\ procs = [n \in Node |-> "none"]
  /\ acked = {}
  /\ fences = [r \in Run |-> Unfenced]
  /\ storedFences = [r \in Run |-> Unfenced]
  /\ retired = {} /\ runIndex = {}
  /\ handler = [h \in Handler |-> Idle]
  /\ waiting = {} /\ cleaned = {}
  /\ started = [n \in Node |-> 0]
  /\ stopAll = "idle" /\ reclaim = NoReclaim /\ closing = FALSE

\* historyRevision++: every revision read earlier differs from the current one.
Bumped(hs) == [h \in Handler |-> [hs[h] EXCEPT !.same = FALSE]]

Higher(a, b) == IF a > b THEN a ELSE b
Occupied == {n \in Node : procs[n] \in {"live", "stopping", "leaked"}}
-----------------------------------------------------------------------------
(***************************************************************************)
(* The Controller's requests                                               *)
(***************************************************************************)
\* createOnAgent: the instance is the one registered when the Agent was chosen.
\* A run's generation is stopped only after its creates have been issued.
SendCreate(n, i) ==
  /\ sent[n] = -1 /\ i \in 0..inst
  /\ \A g \in StopGens : <<NodeRun[n], g>> \in issued => NodeGen[n] > g
  /\ sent' = [sent EXCEPT ![n] = i]
  /\ UNCHANGED <<inst, issued, procs, acked, fences, diskVars, handler, waiting, cleaned,
                 started, stopAll, reclaim, closing>>
-----------------------------------------------------------------------------
(***************************************************************************)
(* admitNode                                                               *)
(***************************************************************************)
SetHandler(h, v) == handler' = [handler EXCEPT ![h] = v]
admitFrame == <<envVars, acked, fences, diskVars, waiting, cleaned, stopAll, reclaim, closing>>

\* Mutant: a request for another instance is accepted.
BeginAnyInstance(h, n) ==
  /\ handler[h].pc = "idle"
  /\ sent[n] >= 0
  /\ procs[n] = "none" /\ n \notin retired
  /\ SetHandler(h, [Idle EXCEPT !.pc = "revision", !.node = n])
  /\ UNCHANGED <<admitFrame, procs, started>>

\* createRequestHash refuses a request for another instance; replayCreate
\* answers for an identity that exists already.
Begin(h, n) ==
  /\ handler[h].pc = "idle"
  /\ sent[n] = inst
  /\ procs[n] = "none" /\ n \notin retired
  /\ SetHandler(h, [Idle EXCEPT !.pc = "revision", !.node = n])
  /\ UNCHANGED <<admitFrame, procs, started>>

\* lockAdmission: the revision, then the two disk reads, then Server.mu.
ReadRevision(h) ==
  /\ handler[h].pc = "revision"
  /\ SetHandler(h, [handler[h] EXCEPT !.pc = "identity", !.same = TRUE])
  /\ UNCHANGED <<admitFrame, procs, started>>

ReadIdentity(h) ==
  /\ handler[h].pc = "identity"
  /\ SetHandler(h, IF handler[h].node \in retired THEN Idle
                   ELSE [handler[h] EXCEPT !.pc = "fence"])
  /\ UNCHANGED <<admitFrame, procs, started>>

ReadFence(h) ==
  /\ handler[h].pc = "fence"
  /\ SetHandler(h, [handler[h] EXCEPT !.pc = "lock",
                                      !.stored = storedFences[NodeRun[handler[h].node]]])
  /\ UNCHANGED <<admitFrame, procs, started>>

\* Mutant: off by one at the capacity.
AdmissibleFull(h) ==
  LET n == handler[h].node
  IN  /\ handler[h].same
      /\ ~closing /\ stopAll = "idle"
      /\ NodeGen[n] > Higher(fences[NodeRun[n]], handler[h].stored)
      /\ procs[n] = "none"
      /\ Cardinality(Occupied) <= Capacity

Admissible(h) ==
  LET n == handler[h].node
  IN  /\ handler[h].same
      /\ ~closing /\ stopAll = "idle"
      /\ NodeGen[n] > Higher(fences[NodeRun[n]], handler[h].stored)
      /\ procs[n] = "none"
      /\ Cardinality(Occupied) < Capacity

Admit(h) ==
  LET n == handler[h].node
  IN  /\ handler[h].pc = "lock"
      /\ Admissible(h)
      /\ procs' = [procs EXCEPT ![n] = "live"]
      /\ started' = [started EXCEPT ![n] = @ + 1]
      /\ SetHandler(h, Idle)
      /\ UNCHANGED admitFrame

\* A changed revision repeats the reads; any other failed check, a storage
\* error, a cancelled request or a full telemetry backlog ends the request.
Retry(h) ==
  /\ handler[h].pc = "lock" /\ ~handler[h].same
  /\ SetHandler(h, [handler[h] EXCEPT !.pc = "revision", !.stored = Unfenced])
  /\ UNCHANGED <<admitFrame, procs, started>>

Refuse(h) ==
  /\ handler[h].pc # "idle"
  /\ SetHandler(h, Idle)
  /\ UNCHANGED <<admitFrame, procs, started>>
-----------------------------------------------------------------------------
(***************************************************************************)
(* Stopping, and the end of a process                                      *)
(***************************************************************************)
\* A stop marks a running process and retries a failed container removal.
Stopped(S) == [n \in Node |-> IF n \in S /\ procs[n] \in {"live", "leaked"}
                              THEN "stopping" ELSE procs[n]]

StopRunGeneration(r, g) ==
  /\ issued' = issued \cup {<<r, g>>}
  /\ waiting' = waiting \cup {<<r, g>>}
  /\ fences' = [fences EXCEPT ![r] = Higher(@, g)]
  /\ handler' = IF g > fences[r] THEN Bumped(handler) ELSE handler
  /\ procs' = Stopped({n \in Node : NodeRun[n] = r /\ NodeGen[n] <= Higher(fences[r], g)})
  /\ UNCHANGED <<inst, sent, acked, diskVars, cleaned, started, stopAll, reclaim, closing>>

\* waitProcessesStopped: every process of the generation has exited and its
\* container is gone.
AllStopped(r, g) ==
  \A n \in Node : NodeRun[n] = r /\ NodeGen[n] <= g => procs[n] \in {"none", "done"}

StopAnswered(r, g) ==
  /\ <<r, g>> \in waiting
  /\ AllStopped(r, g)
  /\ waiting' = waiting \ {<<r, g>>}
  /\ cleaned' = cleaned \cup {<<r, g>>}
  /\ UNCHANGED <<envVars, procs, acked, fences, diskVars, handler, started, stopAll,
                 reclaim, closing>>

\* The request times out or reports a failed removal (500); it may be repeated.
StopFails(r, g) ==
  /\ <<r, g>> \in waiting
  /\ waiting' = waiting \ {<<r, g>>}
  /\ UNCHANGED <<envVars, procs, acked, fences, diskVars, handler, cleaned, started, stopAll,
                 reclaim, closing>>

\* stopNode: a single Peer, or the end of its lifetime.
StopNode(n) ==
  /\ procs[n] \in {"live", "leaked"}
  /\ procs' = Stopped({n})
  /\ UNCHANGED <<envVars, acked, fences, diskVars, handler, waiting, cleaned, started,
                 stopAll, reclaim, closing>>

\* finishProcess, with the container removed or not.
FinishProcess(n, removed) ==
  /\ procs[n] \in {"live", "stopping"}
  /\ procs' = [procs EXCEPT ![n] = IF removed THEN "done" ELSE "leaked"]
  /\ UNCHANGED <<envVars, acked, fences, diskVars, handler, waiting, cleaned, started,
                 stopAll, reclaim, closing>>

\* heartbeat: the Controller answered the terminal status; registration
\* withdraws every acknowledgement.
HeartbeatAcked(n) ==
  /\ procs[n] = "done"
  /\ acked' = acked \cup {n}
  /\ UNCHANGED <<envVars, procs, fences, diskVars, handler, waiting, cleaned, started,
                 stopAll, reclaim, closing>>

Register ==
  /\ acked # {}
  /\ acked' = {}
  /\ UNCHANGED <<envVars, procs, fences, diskVars, handler, waiting, cleaned, started,
                 stopAll, reclaim, closing>>
-----------------------------------------------------------------------------
(***************************************************************************)
(* DELETE /api/v1/nodes: stop-all                                          *)
(***************************************************************************)
StopAllBegin ==
  /\ stopAll = "idle"
  /\ stopAll' = "fencing"
  /\ handler' = Bumped(handler)
  /\ UNCHANGED <<envVars, procs, acked, fences, diskVars, waiting, cleaned, started,
                 reclaim, closing>>

\* The runs of the processes in memory are fenced, then stopAll marks them.
StopAllFence ==
  /\ stopAll = "fencing"
  /\ stopAll' = "storing"
  /\ fences' = [r \in Run |-> IF \E n \in Node : procs[n] # "none" /\ NodeRun[n] = r
                              THEN TopGen ELSE fences[r]]
  /\ procs' = Stopped(Node)
  /\ UNCHANGED <<envVars, acked, diskVars, handler, waiting, cleaned, started, reclaim, closing>>

\* fenceRetiredRuns holds history.mu: reclaimHistory is not in progress.  It
\* stores the fences of the runs on disk, or of some of them before an error.
FenceRetiredRuns(S) ==
  /\ stopAll = "storing" /\ reclaim.phase = "idle" /\ S \subseteq runIndex
  /\ stopAll' = "waiting"
  /\ storedFences' = [r \in Run |-> IF r \in S THEN TopGen ELSE storedFences[r]]
  /\ UNCHANGED <<envVars, procs, acked, fences, retired, runIndex, handler, waiting, cleaned,
                 started, reclaim, closing>>

\* The answer, after the wait or on an error or timeout in any phase.
StopAllEnd ==
  /\ stopAll \in {"storing", "waiting"}
  /\ stopAll' = "idle"
  /\ handler' = Bumped(handler)
  /\ UNCHANGED <<envVars, procs, acked, fences, diskVars, waiting, cleaned, started,
                 reclaim, closing>>
-----------------------------------------------------------------------------
(***************************************************************************)
(* reclaimHistory, under history.mu                                        *)
(***************************************************************************)
reclaimFrame == <<envVars, waiting, cleaned, started, stopAll, closing>>
Candidates == {n \in Node : n \in acked /\ procs[n] = "done"}

\* Snapshot; the recent limits leave any subset of the candidates.
ReclaimBegin(S) ==
  /\ reclaim.phase = "idle"
  /\ S \subseteq Candidates
  /\ reclaim' = [phase |-> "save", nodes |-> S, fences |-> fences]
  /\ UNCHANGED <<reclaimFrame, procs, acked, fences, diskVars, handler>>

\* saveNodes: the run index, then the identities in one transaction.
ReclaimSave ==
  /\ reclaim.phase = "save"
  /\ retired' = retired \cup reclaim.nodes
  /\ runIndex' = runIndex \cup {NodeRun[n] : n \in reclaim.nodes}
  /\ reclaim' = [reclaim EXCEPT !.phase = "drop"]
  /\ UNCHANGED <<reclaimFrame, procs, acked, fences, storedFences, handler>>

\* Mutant: the revision does not change when an identity leaves memory.
ReclaimDropQuietly ==
  /\ reclaim.phase = "drop"
  /\ procs' = [n \in Node |-> IF n \in reclaim.nodes \cap acked THEN "none" ELSE procs[n]]
  /\ reclaim' = [reclaim EXCEPT !.phase = "fences"]
  /\ acked' = acked \ reclaim.nodes
  /\ UNCHANGED <<reclaimFrame, fences, diskVars, handler>>

ReclaimDrop ==
  LET S == {n \in reclaim.nodes : n \in acked /\ procs[n] = "done"}
  IN  /\ reclaim.phase = "drop"
      /\ procs' = [n \in Node |-> IF n \in S THEN "none" ELSE procs[n]]
      /\ acked' = acked \ S
      /\ handler' = IF S = {} THEN handler ELSE Bumped(handler)
      /\ reclaim' = [reclaim EXCEPT !.phase = "fences"]
      /\ UNCHANGED <<reclaimFrame, fences, diskVars>>

\* saveFence never lowers a stored fence.
SaveFence(r) ==
  /\ reclaim.phase = "fences"
  /\ reclaim.fences[r] # Unfenced
  /\ storedFences' = [storedFences EXCEPT ![r] = Higher(@, reclaim.fences[r])]
  /\ UNCHANGED <<reclaimFrame, procs, acked, fences, retired, runIndex, handler, reclaim>>

\* The cached fence is dropped if it is still the one that was stored.
DropFence(r) ==
  /\ reclaim.phase = "fences"
  /\ reclaim.fences[r] # Unfenced
  /\ storedFences[r] >= reclaim.fences[r]
  /\ fences' = IF fences[r] = reclaim.fences[r] THEN [fences EXCEPT ![r] = Unfenced] ELSE fences
  /\ handler' = IF fences[r] = reclaim.fences[r] THEN Bumped(handler) ELSE handler
  /\ reclaim' = [reclaim EXCEPT !.fences[r] = Unfenced]
  /\ UNCHANGED <<reclaimFrame, procs, acked, diskVars>>

\* The batch is done, or a write failed: the rest stays in memory.
ReclaimEnd ==
  /\ reclaim.phase # "idle"
  /\ reclaim' = NoReclaim
  /\ UNCHANGED <<reclaimFrame, procs, acked, fences, diskVars, handler>>
-----------------------------------------------------------------------------
(***************************************************************************)
(* beginShutdown, and the next instance: New and serve remove every        *)
(* container of the previous one before the Agent serves again.            *)
(***************************************************************************)
BeginShutdown ==
  /\ ~closing
  /\ closing' = TRUE
  /\ procs' = Stopped(Node)
  /\ UNCHANGED <<envVars, acked, fences, diskVars, handler, waiting, cleaned, started,
                 stopAll, reclaim>>

Restart ==
  /\ inst < MaxInstance
  /\ inst' = inst + 1
  /\ procs' = [n \in Node |-> "none"]
  /\ acked' = {}
  /\ fences' = [r \in Run |-> Unfenced]
  /\ handler' = [h \in Handler |-> Idle]
  /\ waiting' = {}
  /\ stopAll' = "idle" /\ reclaim' = NoReclaim /\ closing' = FALSE
  /\ UNCHANGED <<sent, issued, diskVars, cleaned, started>>
-----------------------------------------------------------------------------
Next ==
  \/ \E n \in Node, i \in 0..MaxInstance : SendCreate(n, i)
  \/ \E h \in Handler :
       \/ \E n \in Node : Begin(h, n)
       \/ ReadRevision(h) \/ ReadIdentity(h) \/ ReadFence(h)
       \/ Admit(h) \/ Retry(h) \/ Refuse(h)
  \/ \E r \in Run, g \in StopGens :
       StopRunGeneration(r, g) \/ StopAnswered(r, g) \/ StopFails(r, g)
  \/ \E n \in Node : StopNode(n) \/ FinishProcess(n, TRUE) \/ FinishProcess(n, FALSE)
                     \/ HeartbeatAcked(n)
  \/ Register
  \/ StopAllBegin \/ StopAllFence \/ StopAllEnd
  \/ \E S \in SUBSET Run : FenceRetiredRuns(S)
  \/ \E S \in SUBSET Node : ReclaimBegin(S)
  \/ ReclaimSave \/ ReclaimDrop \/ ReclaimEnd
  \/ \E r \in Run : SaveFence(r) \/ DropFence(r)
  \/ BeginShutdown \/ Restart

Spec == Init /\ [][Next]_vars
-----------------------------------------------------------------------------
HandlerState ==
  [pc : {"idle", "revision", "identity", "fence", "lock"}, node : Node \cup {NoNode},
   same : BOOLEAN, stored : Fence]

\* Every variable keeps the shape the Agent's maps, flags and files have.
TypeOK ==
  /\ inst \in Nat
  /\ sent \in [Node -> Int]
  /\ issued \subseteq Run \X StopGens
  /\ procs \in [Node -> {"none", "live", "stopping", "leaked", "done"}]
  /\ acked \subseteq Node
  /\ fences \in [Run -> Fence] /\ storedFences \in [Run -> Fence]
  /\ retired \subseteq Node /\ runIndex \subseteq Run
  /\ handler \in [Handler -> HandlerState]
  /\ \A h \in Handler : handler[h].pc # "idle" => handler[h].node \in Node
  /\ waiting \subseteq Run \X StopGens /\ cleaned \subseteq Run \X StopGens
  /\ started \in [Node -> Nat]
  /\ stopAll \in {"idle", "fencing", "storing", "waiting"}
  /\ reclaim \in [phase : {"idle", "save", "drop", "fences"}, nodes : SUBSET Node,
                  fences : [Run -> Fence]]
  /\ closing \in BOOLEAN

\* "A create for the stopped generation can therefore never commit after this
\* method has taken the lock" (agent.go:834): once the Agent has answered the
\* stop of a generation, no Peer of that generation exists on it again, whatever
\* delayed creates, evicted fences, stop-all requests and restarts follow.
FencedStaysClean ==
  \A r \in Run, g \in StopGens : <<r, g>> \in cleaned => AllStopped(r, g)

\* "Node IDs are never reused" (state.go:289), "never restart a terminal Peer to
\* recover a response" (create_replay.go:33): a node ID is admitted at most once,
\* also while its record moves from memory to disk and after a restart.
AdmittedOnce == \A n \in Node : started[n] <= 1

\* lockAdmission never fills the Agent beyond its capacity: a slot is counted
\* from admission until the container is confirmed removed.
WithinCapacity == Cardinality(Occupied) <= Capacity
-----------------------------------------------------------------------------
(***************************************************************************)
(* The inductive invariant behind FencedStaysClean and AdmittedOnce.       *)
(***************************************************************************)
\* Only stops that were issued are waited for and answered.
StopsWereIssued == waiting \subseteq issued /\ cleaned \subseteq issued

\* A request names an instance that exists, and an identity that was admitted
\* was requested.
RequestsKnown ==
  \A n \in Node : sent[n] <= inst /\ (started[n] > 0 => sent[n] >= 0)

\* A create this instance would still accept is covered by the fence of every
\* stop of its generation, in memory or on disk.
FenceHeld ==
  \A r \in Run, g \in StopGens, n \in Node :
    <<r, g>> \in issued /\ NodeRun[n] = r /\ NodeGen[n] <= g /\ sent[n] = inst
      => NodeGen[n] <= Higher(fences[r], storedFences[r])

\* The same for what a handler has read, as long as its revision is current.
HandlerFence ==
  \A h \in Handler :
    handler[h].pc # "idle" =>
      /\ sent[handler[h].node] = inst
      /\ handler[h].pc = "lock" /\ handler[h].same =>
           \A g \in StopGens :
             <<NodeRun[handler[h].node], g>> \in issued /\ NodeGen[handler[h].node] <= g
               => NodeGen[handler[h].node]
                    <= Higher(fences[NodeRun[handler[h].node]], handler[h].stored)

\* The identities being reclaimed are terminal, and on disk before they are dropped.
ReclaimTerminal ==
  reclaim.phase \in {"save", "drop"} =>
    \A n \in reclaim.nodes : procs[n] = "done" /\ (reclaim.phase = "drop" => n \in retired)

\* An identity admitted by this instance is in memory or on disk.
IdentityKept ==
  \A n \in Node : started[n] > 0 /\ sent[n] = inst => procs[n] # "none" \/ n \in retired

\* A handler that found the identity unused on disk is right about it, or the
\* process is still in memory, or its revision is no longer current.
HandlerIdentity ==
  \A h \in Handler :
    handler[h].pc \in {"fence", "lock"} /\ handler[h].same /\ handler[h].node \in retired
      => procs[handler[h].node] # "none"

IInv ==
  /\ TypeOK /\ StopsWereIssued /\ RequestsKnown /\ FenceHeld /\ HandlerFence
  /\ ReclaimTerminal /\ IdentityKept /\ HandlerIdentity
  /\ FencedStaysClean /\ AdmittedOnce
=============================================================================
