------------------------ MODULE AgentAdmissionProofs ------------------------
(***************************************************************************)
(* FencedStaysClean, AdmittedOnce and WithinCapacity for every set of runs, *)
(* nodes and request handlers, every capacity and any number of restarts.   *)
(***************************************************************************)
EXTENDS AgentAdmission, FiniteSetTheorems, TLAPS

USE AdmissionConstants

\* One name per action, so that a step of Next is a case over this list.
LEMMA NextCases ==
  ASSUME Next
  PROVE  \/ \E n \in Node, i \in 0..MaxInstance : SendCreate(n, i)
         \/ \E h \in Handler, n \in Node : Begin(h, n)
         \/ \E h \in Handler : ReadRevision(h)
         \/ \E h \in Handler : ReadIdentity(h)
         \/ \E h \in Handler : ReadFence(h)
         \/ \E h \in Handler : Admit(h)
         \/ \E h \in Handler : Retry(h)
         \/ \E h \in Handler : Refuse(h)
         \/ \E r \in Run, g \in StopGens : StopRunGeneration(r, g)
         \/ \E r \in Run, g \in StopGens : StopAnswered(r, g)
         \/ \E r \in Run, g \in StopGens : StopFails(r, g)
         \/ \E n \in Node : StopNode(n)
         \/ \E n \in Node : \E removed \in BOOLEAN : FinishProcess(n, removed)
         \/ \E n \in Node : HeartbeatAcked(n)
         \/ Register \/ StopAllBegin \/ StopAllFence \/ StopAllEnd
         \/ \E S \in SUBSET Run : FenceRetiredRuns(S)
         \/ \E S \in SUBSET Node : ReclaimBegin(S)
         \/ ReclaimSave \/ ReclaimDrop \/ ReclaimEnd
         \/ \E r \in Run : SaveFence(r)
         \/ \E r \in Run : DropFence(r)
         \/ BeginShutdown \/ Restart
  BY Zenon DEF Next

LEMMA HigherFacts ==
  ASSUME NEW a \in Fence, NEW b \in Fence
  PROVE  Higher(a, b) \in Fence /\ Higher(a, b) >= a /\ Higher(a, b) >= b
  BY DEF Higher, Fence

LEMMA FenceFacts == Unfenced \in Fence /\ TopGen \in Fence /\ StopGens \subseteq Fence
  BY DEF Fence, Unfenced

LEMMA HandlerMoves ==
  ASSUME NEW x \in HandlerState, NEW f \in Fence
  PROVE  /\ [x EXCEPT !.pc = "identity", !.same = TRUE] \in HandlerState
         /\ [x EXCEPT !.pc = "fence"] \in HandlerState
         /\ [x EXCEPT !.pc = "lock", !.stored = f] \in HandlerState
         /\ [x EXCEPT !.pc = "revision", !.stored = f] \in HandlerState
<1>1. [x EXCEPT !.pc = "identity"] \in HandlerState
  BY Zenon DEF HandlerState
<1>2. [[x EXCEPT !.pc = "identity"] EXCEPT !.same = TRUE] \in HandlerState
  BY <1>1, Zenon DEF HandlerState
<1> QED
  BY <1>2, Zenon DEF HandlerState

LEMMA BumpedType ==
  ASSUME handler \in [Handler -> HandlerState]
  PROVE  /\ Bumped(handler) \in [Handler -> HandlerState]
         /\ \A h \in Handler : /\ Bumped(handler)[h].pc = handler[h].pc
                               /\ Bumped(handler)[h].node = handler[h].node
                               /\ Bumped(handler)[h].stored = handler[h].stored
                               /\ Bumped(handler)[h].same = FALSE
  BY Zenon DEF Bumped, HandlerState

LEMMA IdleType == Idle \in HandlerState /\ Idle.pc = "idle"
  BY DEF Idle, HandlerState, Fence, Unfenced

LEMMA NoReclaimType ==
  NoReclaim \in [phase : {"idle", "save", "drop", "fences"}, nodes : SUBSET Node,
                 fences : [Run -> Fence]]
  BY DEF NoReclaim, Fence, Unfenced

LEMMA StoppedType ==
  ASSUME procs \in [Node -> {"none", "live", "stopping", "leaked", "done"}], NEW S
  PROVE  /\ Stopped(S) \in [Node -> {"none", "live", "stopping", "leaked", "done"}]
         /\ \A n \in Node : /\ (Stopped(S)[n] = "none") <=> (procs[n] = "none")
                            /\ (Stopped(S)[n] = "done") <=> (procs[n] = "done")
  BY Zenon DEF Stopped

LEMMA InitInvariant == Init => IInv
<1> SUFFICES ASSUME Init PROVE IInv
  BY Zenon
<1>1. TypeOK
  <2>1. \A h \in Handler : handler[h] = Idle
    BY Zenon DEF Init
  <2>2. /\ handler \in [Handler -> HandlerState]
        /\ \A h \in Handler : handler[h].pc # "idle" => handler[h].node \in Node
    BY <2>1, IdleType, Zenon DEF Init
  <2> QED
    <3>1. /\ inst \in Nat /\ sent \in [Node -> Int] /\ started \in [Node -> Nat]
          /\ procs \in [Node -> {"none", "live", "stopping", "leaked", "done"}]
      BY DEF Init
    <3>2. fences \in [Run -> Fence] /\ storedFences \in [Run -> Fence]
      BY FenceFacts, Zenon DEF Init
    <3>3. /\ issued \subseteq Run \X StopGens /\ acked \subseteq Node
          /\ retired \subseteq Node /\ runIndex \subseteq Run
          /\ waiting \subseteq Run \X StopGens /\ cleaned \subseteq Run \X StopGens
      BY Zenon DEF Init
    <3>4. stopAll = "idle" /\ reclaim = NoReclaim /\ closing = FALSE
      BY Zenon DEF Init
    <3> QED
      BY <3>1, <3>2, <3>3, <3>4, <2>2, NoReclaimType, Zenon DEF TypeOK
<1>2. StopsWereIssued /\ RequestsKnown /\ FenceHeld /\ FencedStaysClean
  BY DEF Init, StopsWereIssued, RequestsKnown, FenceHeld, FencedStaysClean
<1>3. HandlerFence /\ HandlerIdentity
  BY IdleType, Zenon DEF Init, HandlerFence, HandlerIdentity
<1>4. ReclaimTerminal /\ IdentityKept /\ AdmittedOnce
  BY DEF Init, ReclaimTerminal, IdentityKept, AdmittedOnce, NoReclaim
<1> QED
  BY <1>1, <1>2, <1>3, <1>4, Zenon DEF IInv
-----------------------------------------------------------------------------
\* Every action keeps the shape of the state.
LEMMA TypeStep == TypeOK /\ [Next]_vars => TypeOK'
<1> SUFFICES ASSUME TypeOK, [Next]_vars PROVE TypeOK'
  BY Zenon
<1> USE DEF diskVars, envVars, admitFrame, reclaimFrame
<1>1. ASSUME NEW n \in Node, NEW i \in 0..MaxInstance, SendCreate(n, i) PROVE TypeOK'
  BY <1>1 DEF TypeOK, SendCreate
<1>2. ASSUME NEW h \in Handler, NEW n \in Node, Begin(h, n) PROVE TypeOK'
  BY <1>2, IdleType, Zenon DEF TypeOK, Begin, SetHandler, Idle, HandlerState
<1>3. ASSUME NEW h \in Handler, ReadRevision(h) PROVE TypeOK'
  <2>1. [handler[h] EXCEPT !.pc = "identity", !.same = TRUE] \in HandlerState
    BY HandlerMoves, FenceFacts, Zenon DEF TypeOK
  <2> QED
    BY <1>3, <2>1 DEF TypeOK, ReadRevision, SetHandler
<1>4. ASSUME NEW h \in Handler, ReadIdentity(h) PROVE TypeOK'
  BY <1>4, IdleType DEF TypeOK, ReadIdentity, SetHandler, HandlerState
<1>5. ASSUME NEW h \in Handler, ReadFence(h) PROVE TypeOK'
  <2>1. storedFences[NodeRun[handler[h].node]] \in Fence
    BY <1>5, Zenon DEF TypeOK, ReadFence
  <2>2. [handler[h] EXCEPT !.pc = "lock", !.stored = storedFences[NodeRun[handler[h].node]]]
           \in HandlerState
    BY <2>1, HandlerMoves, Zenon DEF TypeOK
  <2> QED
    BY <1>5, <2>2 DEF TypeOK, ReadFence, SetHandler
<1>6. ASSUME NEW h \in Handler, Admit(h) PROVE TypeOK'
  <2>1. handler[h].node \in Node
    BY <1>6, Zenon DEF TypeOK, Admit
  <2> QED
    BY <1>6, <2>1, IdleType DEF TypeOK, Admit, SetHandler
<1>7. ASSUME NEW h \in Handler, Retry(h) PROVE TypeOK'
  <2>1. [handler[h] EXCEPT !.pc = "revision", !.stored = Unfenced] \in HandlerState
    BY HandlerMoves, FenceFacts, Zenon DEF TypeOK
  <2> QED
    BY <1>7, <2>1 DEF TypeOK, Retry, SetHandler
<1>8. ASSUME NEW h \in Handler, Refuse(h) PROVE TypeOK'
  BY <1>8, IdleType, Zenon DEF TypeOK, Refuse, SetHandler
<1>9. ASSUME NEW r \in Run, NEW g \in StopGens, StopRunGeneration(r, g) PROVE TypeOK'
  <2>1. Higher(fences[r], g) \in Fence
    BY HigherFacts, FenceFacts, Zenon DEF TypeOK
  <2>2. /\ handler' \in [Handler -> HandlerState]
        /\ \A h \in Handler : handler'[h].pc # "idle" => handler'[h].node \in Node
    BY <1>9, BumpedType, Zenon DEF TypeOK, StopRunGeneration
  <2>3. procs' \in [Node -> {"none", "live", "stopping", "leaked", "done"}]
    BY <1>9, StoppedType, Zenon DEF TypeOK, StopRunGeneration
  <2> QED
    BY <1>9, <2>1, <2>2, <2>3 DEF TypeOK, StopRunGeneration
<1>10. ASSUME NEW r \in Run, NEW g \in StopGens, StopAnswered(r, g) PROVE TypeOK'
  BY <1>10, Zenon DEF TypeOK, StopAnswered
<1>11. ASSUME NEW r \in Run, NEW g \in StopGens, StopFails(r, g) PROVE TypeOK'
  BY <1>11, Zenon DEF TypeOK, StopFails
<1>12. ASSUME NEW n \in Node, StopNode(n) PROVE TypeOK'
  BY <1>12, StoppedType, Zenon DEF TypeOK, StopNode
<1>13. ASSUME NEW n \in Node, NEW removed \in BOOLEAN, FinishProcess(n, removed) PROVE TypeOK'
  BY <1>13, Zenon DEF TypeOK, FinishProcess
<1>14. ASSUME NEW n \in Node, HeartbeatAcked(n) PROVE TypeOK'
  BY <1>14, Zenon DEF TypeOK, HeartbeatAcked
<1>15. CASE Register
  BY <1>15, Zenon DEF TypeOK, Register
<1>16. CASE StopAllBegin
  BY <1>16, BumpedType, Zenon DEF TypeOK, StopAllBegin
<1>17. CASE StopAllFence
  BY <1>17, StoppedType DEF TypeOK, StopAllFence, Fence
<1>18. CASE StopAllEnd
  BY <1>18, BumpedType, Zenon DEF TypeOK, StopAllEnd
<1>19. ASSUME NEW S \in SUBSET Run, FenceRetiredRuns(S) PROVE TypeOK'
  BY <1>19 DEF TypeOK, FenceRetiredRuns, Fence
<1>20. ASSUME NEW S \in SUBSET Node, ReclaimBegin(S) PROVE TypeOK'
  BY <1>20, Zenon DEF TypeOK, ReclaimBegin, Candidates
<1>21. CASE ReclaimSave
  BY <1>21 DEF TypeOK, ReclaimSave
<1>22. CASE ReclaimDrop
  BY <1>22, BumpedType, Zenon DEF TypeOK, ReclaimDrop
<1>23. CASE ReclaimEnd
  BY <1>23, NoReclaimType, Zenon DEF TypeOK, ReclaimEnd
<1>24. ASSUME NEW r \in Run, SaveFence(r) PROVE TypeOK'
  BY <1>24, HigherFacts, Zenon DEF TypeOK, SaveFence
<1>25. ASSUME NEW r \in Run, DropFence(r) PROVE TypeOK'
  <2>1. [reclaim EXCEPT !.fences[r] = Unfenced] \in
          [phase : {"idle", "save", "drop", "fences"}, nodes : SUBSET Node,
           fences : [Run -> Fence]]
    BY FenceFacts, Zenon DEF TypeOK
  <2> QED
    BY <1>25, <2>1, BumpedType, FenceFacts, Zenon DEF TypeOK, DropFence
<1>26. CASE BeginShutdown
  BY <1>26, StoppedType, Zenon DEF TypeOK, BeginShutdown
<1>27. CASE Restart
  <2>1. /\ handler' \in [Handler -> HandlerState]
        /\ \A h \in Handler : handler'[h].pc # "idle" => handler'[h].node \in Node
    BY <1>27, IdleType, Zenon DEF Restart
  <2> QED
    <3>1. inst' \in Nat /\ sent' \in [Node -> Int] /\ started' \in [Node -> Nat]
      BY <1>27 DEF Restart, TypeOK
    <3>2. procs' \in [Node -> {"none", "live", "stopping", "leaked", "done"}]
      BY <1>27, Zenon DEF Restart
    <3>3. fences' \in [Run -> Fence] /\ storedFences' \in [Run -> Fence]
      BY <1>27, FenceFacts, Zenon DEF Restart, TypeOK
    <3>4. /\ issued' \subseteq Run \X StopGens /\ acked' \subseteq Node
          /\ retired' \subseteq Node /\ runIndex' \subseteq Run
          /\ waiting' \subseteq Run \X StopGens /\ cleaned' \subseteq Run \X StopGens
      BY <1>27, Zenon DEF Restart, TypeOK
    <3>5. stopAll' = "idle" /\ reclaim' = NoReclaim /\ closing' = FALSE
      BY <1>27, Zenon DEF Restart
    <3> QED
      BY <3>1, <3>2, <3>3, <3>4, <3>5, <2>1, NoReclaimType, Zenon DEF TypeOK
<1>28. CASE UNCHANGED vars
  BY <1>28, Zenon DEF TypeOK, vars
<1> QED
  BY <1>1, <1>2, <1>3, <1>4, <1>5, <1>6, <1>7, <1>8, <1>9, <1>10, <1>11, <1>12, <1>13, <1>14, <1>15, <1>16, <1>17, <1>18, <1>19, <1>20, <1>21, <1>22, <1>23, <1>24, <1>25, <1>26, <1>27, <1>28, NextCases, Zenon
-----------------------------------------------------------------------------
(***************************************************************************)
(* Fences.  Below, each lemma names the actions that touch its variables;  *)
(* every other action leaves them unchanged.                               *)
(***************************************************************************)
LEMMA IssuedStep == IInv /\ [Next]_vars => StopsWereIssued' /\ RequestsKnown'
<1> SUFFICES ASSUME IInv, [Next]_vars PROVE StopsWereIssued' /\ RequestsKnown'
  BY Zenon
<1> USE DEF IInv, diskVars, envVars, admitFrame, reclaimFrame
<1>1. StopsWereIssued'
  <2>1. \/ UNCHANGED <<issued, waiting, cleaned>>
        \/ \E r \in Run, g \in StopGens : StopRunGeneration(r, g)
        \/ \E r \in Run, g \in StopGens : StopAnswered(r, g)
        \/ \E r \in Run, g \in StopGens : StopFails(r, g)
        \/ Restart
    BY NextCases, Zenon DEF vars, SendCreate, Begin, ReadRevision, ReadIdentity, ReadFence, Admit,
       Retry, Refuse, StopNode, FinishProcess, HeartbeatAcked, Register, StopAllBegin,
       StopAllFence, StopAllEnd, FenceRetiredRuns, ReclaimBegin, ReclaimSave, ReclaimDrop,
       ReclaimEnd, SaveFence, DropFence, BeginShutdown
  <2> QED
    BY <2>1, Zenon DEF StopsWereIssued, StopRunGeneration, StopAnswered, StopFails, Restart
<1>2. RequestsKnown'
  <2>1. \/ UNCHANGED <<sent, started, inst>>
        \/ \E n \in Node, i \in 0..MaxInstance : SendCreate(n, i)
        \/ \E h \in Handler : Admit(h)
        \/ Restart
    BY NextCases, Zenon DEF vars, Begin, ReadRevision, ReadIdentity, ReadFence, Retry, Refuse,
       StopRunGeneration, StopAnswered, StopFails, StopNode, FinishProcess, HeartbeatAcked,
       Register, StopAllBegin, StopAllFence, StopAllEnd, FenceRetiredRuns, ReclaimBegin,
       ReclaimSave, ReclaimDrop, ReclaimEnd, SaveFence, DropFence, BeginShutdown
  <2>2. CASE UNCHANGED <<sent, started, inst>>
    BY <2>2, Zenon DEF RequestsKnown
  <2>3. ASSUME NEW n \in Node, NEW i \in 0..MaxInstance, SendCreate(n, i)
        PROVE  RequestsKnown'
    BY <2>3 DEF RequestsKnown, SendCreate, TypeOK
  <2>4. ASSUME NEW h \in Handler, Admit(h) PROVE RequestsKnown'
    <3>1. handler[h].node \in Node /\ sent[handler[h].node] = inst
      BY <2>4, Zenon DEF Admit, HandlerFence, TypeOK
    <3> QED
      BY <2>4, <3>1 DEF RequestsKnown, Admit, TypeOK
  <2>5. CASE Restart
    BY <2>5 DEF RequestsKnown, Restart, TypeOK
  <2> QED
    BY <2>1, <2>2, <2>3, <2>4, <2>5, Zenon
<1> QED
  BY <1>1, <1>2, Zenon

LEMMA FenceHeldStep == IInv /\ TypeOK' /\ [Next]_vars => FenceHeld'
<1> SUFFICES ASSUME IInv, TypeOK', [Next]_vars PROVE FenceHeld'
  BY Zenon
<1> USE DEF IInv, diskVars, envVars, admitFrame, reclaimFrame
<1>1. \/ UNCHANGED <<issued, sent, inst, fences, storedFences>>
      \/ \E n \in Node, i \in 0..MaxInstance : SendCreate(n, i)
      \/ \E r \in Run, g \in StopGens : StopRunGeneration(r, g)
      \/ StopAllFence
      \/ \E S \in SUBSET Run : FenceRetiredRuns(S)
      \/ \E r \in Run : SaveFence(r)
      \/ \E r \in Run : DropFence(r)
      \/ Restart
  BY NextCases, Zenon DEF vars, Begin, ReadRevision, ReadIdentity, ReadFence, Admit, Retry, Refuse,
     StopAnswered, StopFails, StopNode, FinishProcess, HeartbeatAcked, Register,
     StopAllBegin, StopAllEnd, ReclaimBegin, ReclaimSave, ReclaimDrop, ReclaimEnd,
     BeginShutdown
<1>2. CASE UNCHANGED <<issued, sent, inst, fences, storedFences>>
  BY <1>2, Zenon DEF FenceHeld
<1>3. ASSUME NEW n \in Node, NEW i \in 0..MaxInstance, SendCreate(n, i) PROVE FenceHeld'
  BY <1>3 DEF FenceHeld, SendCreate, TypeOK
<1>4. ASSUME NEW r \in Run, NEW g \in StopGens, StopRunGeneration(r, g) PROVE FenceHeld'
  BY <1>4 DEF FenceHeld, StopRunGeneration, TypeOK, Higher, Fence
<1>5. CASE StopAllFence
  BY <1>5 DEF FenceHeld, StopAllFence, TypeOK, Higher, Fence
<1>6. ASSUME NEW S \in SUBSET Run, FenceRetiredRuns(S) PROVE FenceHeld'
  BY <1>6 DEF FenceHeld, FenceRetiredRuns, TypeOK, Higher, Fence
<1>7. ASSUME NEW r \in Run, SaveFence(r) PROVE FenceHeld'
  BY <1>7 DEF FenceHeld, SaveFence, TypeOK, Higher, Fence
<1>8. ASSUME NEW r \in Run, DropFence(r) PROVE FenceHeld'
  BY <1>8 DEF FenceHeld, DropFence, TypeOK, Higher, Fence
<1>9. CASE Restart
  BY <1>9 DEF FenceHeld, Restart, TypeOK, RequestsKnown
<1> QED
  BY <1>1, <1>2, <1>3, <1>4, <1>5, <1>6, <1>7, <1>8, <1>9, Zenon

LEMMA HandlerFenceStep == IInv /\ TypeOK' /\ [Next]_vars => HandlerFence'
<1> SUFFICES ASSUME IInv, TypeOK', [Next]_vars PROVE HandlerFence'
  OBVIOUS
<1> USE DEF IInv, diskVars, envVars, admitFrame, reclaimFrame
<1>1. \/ UNCHANGED <<issued, sent, inst, fences, handler>>
      \/ \E n \in Node, i \in 0..MaxInstance : SendCreate(n, i)
      \/ \E h \in Handler, n \in Node : Begin(h, n)
      \/ \E h \in Handler : ReadRevision(h) \/ ReadIdentity(h) \/ Admit(h) \/ Retry(h) \/ Refuse(h)
      \/ \E h \in Handler : ReadFence(h)
      \/ \E r \in Run, g \in StopGens : StopRunGeneration(r, g)
      \/ StopAllFence
      \/ StopAllBegin \/ StopAllEnd \/ ReclaimDrop
      \/ \E r \in Run : DropFence(r)
      \/ Restart
  BY NextCases, Zenon DEF vars, StopAnswered, StopFails, StopNode, FinishProcess, HeartbeatAcked,
     Register, FenceRetiredRuns, ReclaimBegin, ReclaimSave, ReclaimEnd, SaveFence,
     BeginShutdown
<1>2. CASE UNCHANGED <<issued, sent, inst, fences, handler>>
  BY <1>2, Zenon DEF HandlerFence
<1>3. ASSUME NEW n \in Node, NEW i \in 0..MaxInstance, SendCreate(n, i) PROVE HandlerFence'
  BY <1>3 DEF HandlerFence, SendCreate, TypeOK
<1>4. ASSUME NEW h \in Handler, NEW n \in Node, Begin(h, n) PROVE HandlerFence'
  BY <1>4, Zenon DEF HandlerFence, Begin, SetHandler, TypeOK, Idle
<1>5. ASSUME NEW h \in Handler,
             ReadRevision(h) \/ ReadIdentity(h) \/ Admit(h) \/ Retry(h) \/ Refuse(h)
      PROVE  HandlerFence'
  <2>1. \A k \in Handler : handler'[k] # handler[k] =>
          /\ handler'[k].pc # "lock"
          /\ handler'[k].pc # "idle" => /\ handler[k].pc # "idle"
                                        /\ handler'[k].node = handler[k].node
    <3>1. \A k \in Handler \ {h} : handler'[k] = handler[k]
      BY <1>5, Zenon DEF ReadRevision, ReadIdentity, Admit, Retry, Refuse, SetHandler, TypeOK
    <3>2. handler[h] \in HandlerState
      BY Zenon DEF TypeOK
    <3>3. \/ handler'[h] = Idle
          \/ handler[h].pc # "idle" /\ \/ handler'[h] = [handler[h] EXCEPT !.pc = "identity", !.same = TRUE]
                                       \/ handler'[h] = [handler[h] EXCEPT !.pc = "fence"]
                                       \/ handler'[h] = [handler[h] EXCEPT !.pc = "revision", !.stored = Unfenced]
      BY <1>5, Zenon DEF ReadRevision, ReadIdentity, Admit, Retry, Refuse, SetHandler, TypeOK
    <3>4. handler'[h].pc # "lock"
          /\ (handler'[h].pc # "idle" => handler[h].pc # "idle" /\ handler'[h].node = handler[h].node)
      BY <3>2, <3>3, IdleType, Zenon DEF HandlerState
    <3> QED
      BY <3>1, <3>4, Zenon
  <2>2. UNCHANGED <<issued, sent, inst, fences>>
    BY <1>5, Zenon DEF ReadRevision, ReadIdentity, Admit, Retry, Refuse
  <2> QED
    BY <2>1, <2>2, Zenon DEF HandlerFence
<1>6. ASSUME NEW h \in Handler, ReadFence(h) PROVE HandlerFence'
  <2> DEFINE n == handler[h].node
  <2>1. n \in Node /\ sent[n] = inst /\ NodeRun[n] \in Run
    BY <1>6, Zenon DEF ReadFence, TypeOK, HandlerFence
  <2>2. \A g \in StopGens : <<NodeRun[n], g>> \in issued /\ NodeGen[n] <= g
          => NodeGen[n] <= Higher(fences[NodeRun[n]], storedFences[NodeRun[n]])
    BY <2>1, Zenon DEF FenceHeld
  <2>3. /\ handler'[h].node = n /\ handler'[h].stored = storedFences[NodeRun[n]]
        /\ \A k \in Handler \ {h} : handler'[k] = handler[k]
    BY <1>6 DEF ReadFence, SetHandler, TypeOK, HandlerState
  <2>4. UNCHANGED <<issued, sent, inst, fences>>
    BY <1>6, Zenon DEF ReadFence
  <2> QED
    BY <2>1, <2>2, <2>3, <2>4 DEF HandlerFence
<1>7. ASSUME NEW r \in Run, NEW g \in StopGens, StopRunGeneration(r, g) PROVE HandlerFence'
  <2>1. \A k \in Handler :
          /\ handler'[k].pc = handler[k].pc /\ handler'[k].node = handler[k].node
          /\ handler'[k].stored = handler[k].stored /\ handler'[k].stored \in Fence
          /\ handler'[k].same => handler[k].same
    BY <1>7, BumpedType, Zenon DEF StopRunGeneration, TypeOK, HandlerState
  <2>2. \A q \in Run : fences'[q] >= fences[q] /\ fences'[q] \in Fence /\ fences[q] \in Fence
    <3>1. fences' = [fences EXCEPT ![r] = Higher(fences[r], g)]
      BY <1>7, Zenon DEF StopRunGeneration
    <3>2. Higher(fences[r], g) >= fences[r] /\ fences \in [Run -> Fence] /\ fences' \in [Run -> Fence]
      BY HigherFacts, FenceFacts, Zenon DEF TypeOK
    <3> QED
      BY <3>1, <3>2 DEF Fence
  <2>3. fences'[r] >= g
    BY <1>7, HigherFacts, FenceFacts, Zenon DEF StopRunGeneration, TypeOK, Fence
  <2>4. issued' = issued \cup {<<r, g>>} /\ UNCHANGED <<sent, inst>>
    BY <1>7, Zenon DEF StopRunGeneration
  <2> SUFFICES ASSUME NEW k \in Handler, handler'[k].pc # "idle"
               PROVE  /\ sent'[handler'[k].node] = inst'
                      /\ handler'[k].pc = "lock" /\ handler'[k].same =>
                           \A e \in StopGens :
                             <<NodeRun[handler'[k].node], e>> \in issued'
                                 /\ NodeGen[handler'[k].node] <= e
                               => NodeGen[handler'[k].node]
                                    <= Higher(fences'[NodeRun[handler'[k].node]], handler'[k].stored)
    BY Zenon DEF HandlerFence
  <2>5. handler[k].node \in Node /\ NodeRun[handler[k].node] \in Run
        /\ NodeGen[handler[k].node] \in Nat
    BY <2>1 DEF TypeOK
  <2>6. sent'[handler'[k].node] = inst'
    BY <2>1, <2>4, Zenon DEF HandlerFence
  <2>7. ASSUME handler'[k].pc = "lock", handler'[k].same, NEW e \in StopGens,
               <<NodeRun[handler[k].node], e>> \in issued', NodeGen[handler[k].node] <= e
        PROVE  NodeGen[handler[k].node] <= Higher(fences'[NodeRun[handler[k].node]], handler[k].stored)
    <3>1. CASE <<NodeRun[handler[k].node], e>> \in issued
      <4>1. NodeGen[handler[k].node] <= Higher(fences[NodeRun[handler[k].node]], handler[k].stored)
        BY <3>1, <2>7, <2>1, Zenon DEF HandlerFence
      <4> QED
        BY <4>1, <2>1, <2>2, <2>5 DEF Higher, Fence
    <3>2. CASE NodeRun[handler[k].node] = r /\ e = g
      BY <3>2, <2>1, <2>2, <2>3, <2>5, <2>7 DEF Higher, Fence
    <3> QED
      BY <3>1, <3>2, <2>4, <2>7, Zenon
  <2> QED
    BY <2>1, <2>6, <2>7, Zenon
<1>8. CASE StopAllFence
  <2>1. \A q \in Run : fences'[q] >= fences[q] /\ fences'[q] \in Fence /\ fences[q] \in Fence
    BY <1>8, FenceFacts DEF StopAllFence, TypeOK, Fence
  <2>2. UNCHANGED <<issued, sent, inst, handler>>
    BY <1>8, Zenon DEF StopAllFence
  <2>3. \A q \in Run, f \in Fence : Higher(fences'[q], f) >= Higher(fences[q], f)
    BY <2>1 DEF Higher, Fence
  <2>4. \A k \in Handler : handler[k].pc # "idle" => /\ handler[k].node \in Node
                                                     /\ handler[k].stored \in Fence
    BY Zenon DEF TypeOK, HandlerState
  <2>5. \A k \in Handler : handler[k].pc # "idle" =>
          Higher(fences'[NodeRun[handler[k].node]], handler[k].stored)
            >= Higher(fences[NodeRun[handler[k].node]], handler[k].stored)
    BY <2>3, <2>4, Zenon
  <2>6. \A k \in Handler : handler[k].pc # "idle" =>
          /\ Higher(fences'[NodeRun[handler[k].node]], handler[k].stored) \in Int
          /\ Higher(fences[NodeRun[handler[k].node]], handler[k].stored) \in Int
          /\ NodeGen[handler[k].node] \in Int
    <3>1. \A q \in Run, f \in Fence : Higher(fences'[q], f) \in Int /\ Higher(fences[q], f) \in Int
      BY <2>1 DEF Higher, Fence
    <3> QED
      BY <3>1, <2>4
  <2> QED
    BY <2>2, <2>5, <2>6 DEF HandlerFence
<1>9. ASSUME (StopAllBegin \/ StopAllEnd \/ ReclaimDrop) \/ \E r \in Run : DropFence(r)
      PROVE  HandlerFence'
  <2>1. UNCHANGED <<issued, sent, inst>>
    BY <1>9, Zenon DEF StopAllBegin, StopAllEnd, ReclaimDrop, DropFence
  <2>2. \/ handler' = handler /\ fences' = fences
        \/ handler' = Bumped(handler)
    BY <1>9, Zenon DEF StopAllBegin, StopAllEnd, ReclaimDrop, DropFence
  <2>3. CASE handler' = handler /\ fences' = fences
    BY <2>1, <2>3, Zenon DEF HandlerFence
  <2>4. CASE handler' = Bumped(handler)
    <3>1. \A k \in Handler : /\ handler'[k].pc = handler[k].pc
                             /\ handler'[k].node = handler[k].node
                             /\ ~handler'[k].same
      BY <2>4, BumpedType, Zenon DEF TypeOK
    <3> QED
      BY <2>1, <3>1, Zenon DEF HandlerFence
  <2> QED
    BY <2>2, <2>3, <2>4, Zenon
<1>10. CASE Restart
  BY <1>10, IdleType, Zenon DEF HandlerFence, Restart
<1> QED
  BY <1>1, <1>2, <1>3, <1>4, <1>5, <1>6, <1>7, <1>8, <1>9, <1>10, Zenon

\* Only Admit starts a process, and nothing revives one that ended.
LEMMA ProcsStep ==
  ASSUME TypeOK, [Next]_vars
  PROVE  \/ \E h \in Handler : Admit(h)
         \/ \A n \in Node : /\ procs[n] \in {"none", "done"} => procs'[n] \in {"none", "done"}
                            /\ procs[n] = "none" => procs'[n] = "none"
<1> USE DEF diskVars, envVars, admitFrame, reclaimFrame
<1>1. \/ UNCHANGED procs
      \/ \E h \in Handler : Admit(h)
      \/ \E S \in SUBSET Node : procs' = Stopped(S)
      \/ \E n \in Node, removed \in BOOLEAN : FinishProcess(n, removed)
      \/ ReclaimDrop
      \/ Restart
  <2>1. \/ UNCHANGED procs
        \/ \E h \in Handler : Admit(h)
        \/ \E r \in Run, g \in StopGens : StopRunGeneration(r, g)
        \/ \E n \in Node : StopNode(n)
        \/ StopAllFence \/ BeginShutdown
        \/ \E n \in Node : \E removed \in BOOLEAN : FinishProcess(n, removed)
        \/ ReclaimDrop
        \/ Restart
    BY NextCases, Zenon DEF vars, SendCreate, Begin, ReadRevision, ReadIdentity, ReadFence, Retry, Refuse,
       StopAnswered, StopFails, HeartbeatAcked, Register, StopAllBegin, StopAllEnd,
       FenceRetiredRuns, ReclaimBegin, ReclaimSave, ReclaimEnd, SaveFence, DropFence
  <2>2. ASSUME NEW r \in Run, NEW g \in StopGens, StopRunGeneration(r, g)
        PROVE  \E S \in SUBSET Node : procs' = Stopped(S)
    BY <2>2, Zenon DEF StopRunGeneration
  <2>3. ASSUME (\E n \in Node : StopNode(n)) \/ StopAllFence \/ BeginShutdown
        PROVE  \E S \in SUBSET Node : procs' = Stopped(S)
    BY <2>3, Zenon DEF StopNode, StopAllFence, BeginShutdown
  <2> QED
    BY <2>1, <2>2, <2>3, Zenon
<1>2. ASSUME NEW S \in SUBSET Node, procs' = Stopped(S)
      PROVE  \A n \in Node : /\ procs[n] \in {"none", "done"} => procs'[n] \in {"none", "done"}
                             /\ procs[n] = "none" => procs'[n] = "none"
  BY <1>2, StoppedType, Zenon DEF TypeOK
<1>3. ASSUME (\E n \in Node, removed \in BOOLEAN : FinishProcess(n, removed)) \/ ReclaimDrop \/ Restart
      PROVE  \A n \in Node : /\ procs[n] \in {"none", "done"} => procs'[n] \in {"none", "done"}
                             /\ procs[n] = "none" => procs'[n] = "none"
  BY <1>3, Zenon DEF FinishProcess, ReclaimDrop, Restart, TypeOK
<1> QED
  BY <1>1, <1>2, <1>3, Zenon

\* What the validation of lockAdmission gives: the admitted node is above every
\* fence of its run that was ever raised, and its identity is new.
LEMMA AdmitFacts ==
  ASSUME IInv, NEW h \in Handler, Admit(h)
  PROVE  LET n == handler[h].node
         IN  /\ n \in Node /\ NodeRun[n] \in Run
             /\ sent[n] = inst
             /\ started[n] = 0
             /\ \A g \in StopGens : <<NodeRun[n], g>> \in issued => ~(NodeGen[n] <= g)
<1> DEFINE n == handler[h].node
<1>1. /\ handler[h].pc = "lock" /\ handler[h].same /\ procs[n] = "none"
      /\ NodeGen[n] > Higher(fences[NodeRun[n]], handler[h].stored)
  BY Zenon DEF Admit, Admissible
<1>2. n \in Node /\ NodeRun[n] \in Run /\ NodeGen[n] \in Nat /\ handler[h].stored \in Fence
  BY <1>1 DEF IInv, TypeOK, HandlerState
<1>3. sent[n] = inst
  BY <1>1, Zenon DEF IInv, HandlerFence
<1>4. \A g \in StopGens : <<NodeRun[n], g>> \in issued => ~(NodeGen[n] <= g)
  <2>1. Higher(fences[NodeRun[n]], handler[h].stored) \in Int
    <3>1. fences[NodeRun[n]] \in Fence
      BY <1>2, Zenon DEF IInv, TypeOK
    <3> QED
      BY <3>1, <1>2 DEF Higher, Fence
  <2> QED
    BY <1>1, <1>2, <2>1 DEF IInv, HandlerFence
<1>5. started[n] = 0
  <2>1. n \notin retired
    BY <1>1, Zenon DEF IInv, HandlerIdentity
  <2> QED
    BY <1>1, <1>2, <1>3, <2>1 DEF IInv, IdentityKept, TypeOK
<1> QED
  BY <1>2, <1>3, <1>4, <1>5, Zenon

LEMMA CleanStep == IInv /\ StopsWereIssued' /\ [Next]_vars => FencedStaysClean'
<1> SUFFICES ASSUME IInv, [Next]_vars PROVE FencedStaysClean'
  BY Zenon
<1> USE DEF diskVars, envVars, admitFrame, reclaimFrame
<1>1. CASE \E h \in Handler : Admit(h)
  <2> PICK h \in Handler : Admit(h)
    BY <1>1, Zenon
  <2>1. UNCHANGED <<cleaned, issued>> /\ procs' = [procs EXCEPT ![handler[h].node] = "live"]
    BY Zenon DEF Admit
  <2>2. \A r \in Run, g \in StopGens : <<r, g>> \in cleaned =>
           ~(NodeRun[handler[h].node] = r /\ NodeGen[handler[h].node] <= g)
    BY AdmitFacts, Zenon DEF IInv, StopsWereIssued
  <2>3. \A n \in Node : n # handler[h].node => procs'[n] = procs[n]
    BY <2>1, Zenon DEF IInv, TypeOK
  <2> QED
    BY <2>1, <2>2, <2>3, Zenon DEF IInv, FencedStaysClean, AllStopped
<1>2. CASE \A n \in Node : procs[n] \in {"none", "done"} => procs'[n] \in {"none", "done"}
  <2>1. \/ UNCHANGED cleaned
        \/ \E r \in Run, g \in StopGens : StopAnswered(r, g)
    BY NextCases, Zenon DEF vars, SendCreate, Begin, ReadRevision, ReadIdentity, ReadFence, Admit,
       Retry, Refuse, StopRunGeneration, StopFails, StopNode, FinishProcess, HeartbeatAcked,
       Register, StopAllBegin, StopAllFence, StopAllEnd, FenceRetiredRuns, ReclaimBegin,
       ReclaimSave, ReclaimDrop, ReclaimEnd, SaveFence, DropFence, BeginShutdown, Restart
  <2>2. CASE UNCHANGED cleaned
    BY <1>2, <2>2, Zenon DEF IInv, FencedStaysClean, AllStopped
  <2>3. ASSUME NEW r \in Run, NEW g \in StopGens, StopAnswered(r, g)
        PROVE  FencedStaysClean'
    BY <1>2, <2>3, Zenon DEF IInv, FencedStaysClean, AllStopped, StopAnswered
  <2> QED
    BY <2>1, <2>2, <2>3, Zenon
<1> QED
  BY <1>1, <1>2, ProcsStep, Zenon DEF IInv
-----------------------------------------------------------------------------
(***************************************************************************)
(* Identities                                                              *)
(***************************************************************************)
LEMMA OnceStep == IInv /\ [Next]_vars => AdmittedOnce'
<1> SUFFICES ASSUME IInv, [Next]_vars PROVE AdmittedOnce'
  BY Zenon
<1>1. UNCHANGED started \/ \E h \in Handler : Admit(h)
  BY NextCases, Zenon DEF vars, SendCreate, Begin, ReadRevision, ReadIdentity, ReadFence,
     Retry, Refuse, StopRunGeneration, StopAnswered, StopFails, StopNode, FinishProcess,
     HeartbeatAcked, Register, StopAllBegin, StopAllFence, StopAllEnd, FenceRetiredRuns,
     ReclaimBegin, ReclaimSave, ReclaimDrop, ReclaimEnd, SaveFence, DropFence, BeginShutdown,
     Restart, reclaimFrame
<1>2. CASE UNCHANGED started
  BY <1>2, Zenon DEF IInv, AdmittedOnce
<1>3. ASSUME NEW h \in Handler, Admit(h) PROVE AdmittedOnce'
  <2>1. started' = [started EXCEPT ![handler[h].node] = @ + 1]
    BY <1>3, Zenon DEF Admit
  <2> QED
    BY <2>1, <1>3, AdmitFacts DEF IInv, AdmittedOnce, TypeOK
<1> QED
  BY <1>1, <1>2, <1>3, Zenon

LEMMA ReclaimStep == IInv /\ [Next]_vars => ReclaimTerminal'
<1> SUFFICES ASSUME IInv, [Next]_vars PROVE ReclaimTerminal'
  OBVIOUS
<1> USE DEF diskVars, envVars, admitFrame, reclaimFrame
<1>1. \/ UNCHANGED <<procs, retired, reclaim>>
      \/ \E h \in Handler : Admit(h)
      \/ \E S \in SUBSET Node : procs' = Stopped(S) /\ UNCHANGED <<retired, reclaim>>
      \/ \E n \in Node, removed \in BOOLEAN : FinishProcess(n, removed)
      \/ \E S \in SUBSET Node : ReclaimBegin(S)
      \/ ReclaimSave \/ ReclaimDrop \/ ReclaimEnd
      \/ \E r \in Run : DropFence(r)
      \/ Restart
  <2>1. \/ UNCHANGED <<procs, retired, reclaim>>
        \/ \E h \in Handler : Admit(h)
        \/ \E r \in Run, g \in StopGens : StopRunGeneration(r, g)
        \/ (\E n \in Node : StopNode(n)) \/ StopAllFence \/ BeginShutdown
        \/ \E n \in Node, removed \in BOOLEAN : FinishProcess(n, removed)
        \/ \E S \in SUBSET Node : ReclaimBegin(S)
        \/ ReclaimSave \/ ReclaimDrop \/ ReclaimEnd
        \/ \E r \in Run : DropFence(r)
        \/ Restart
    BY NextCases, Zenon DEF vars, SendCreate, Begin, ReadRevision, ReadIdentity, ReadFence, Retry, Refuse,
       StopAnswered, StopFails, HeartbeatAcked, Register, StopAllBegin, StopAllEnd,
       FenceRetiredRuns, SaveFence
  <2>2. ASSUME NEW r \in Run, NEW g \in StopGens, StopRunGeneration(r, g)
        PROVE  \E S \in SUBSET Node : procs' = Stopped(S) /\ UNCHANGED <<retired, reclaim>>
    BY <2>2, Zenon DEF StopRunGeneration
  <2>3. ASSUME (\E n \in Node : StopNode(n)) \/ StopAllFence \/ BeginShutdown
        PROVE  \E S \in SUBSET Node : procs' = Stopped(S) /\ UNCHANGED <<retired, reclaim>>
    BY <2>3, Zenon DEF StopNode, StopAllFence, BeginShutdown
  <2> QED
    BY <2>1, <2>2, <2>3, Zenon
<1>2. CASE UNCHANGED <<procs, retired, reclaim>>
  BY <1>2, Zenon DEF IInv, ReclaimTerminal
<1>3. ASSUME NEW h \in Handler, Admit(h) PROVE ReclaimTerminal'
  <2>1. procs[handler[h].node] = "none" /\ procs' = [procs EXCEPT ![handler[h].node] = "live"]
        /\ UNCHANGED <<retired, reclaim>>
    BY <1>3, Zenon DEF Admit, Admissible
  <2> QED
    BY <2>1, Zenon DEF IInv, ReclaimTerminal, TypeOK
<1>4. ASSUME NEW S \in SUBSET Node, procs' = Stopped(S), UNCHANGED <<retired, reclaim>>
      PROVE  ReclaimTerminal'
  BY <1>4, StoppedType, Zenon DEF IInv, ReclaimTerminal, TypeOK
<1>5. ASSUME NEW n \in Node, NEW removed \in BOOLEAN, FinishProcess(n, removed)
      PROVE  ReclaimTerminal'
  BY <1>5, Zenon DEF FinishProcess, IInv, ReclaimTerminal, TypeOK
<1>6. ASSUME NEW S \in SUBSET Node, ReclaimBegin(S) PROVE ReclaimTerminal'
  BY <1>6, Zenon DEF ReclaimBegin, Candidates, ReclaimTerminal
<1>7. CASE ReclaimSave
  BY <1>7, Zenon DEF ReclaimSave, IInv, ReclaimTerminal, TypeOK
<1>8. CASE ReclaimDrop \/ ReclaimEnd
  BY <1>8 DEF ReclaimDrop, ReclaimEnd, NoReclaim, ReclaimTerminal, IInv, TypeOK
<1>9. ASSUME NEW r \in Run, DropFence(r) PROVE ReclaimTerminal'
  BY <1>9, Zenon DEF DropFence, ReclaimTerminal, IInv, TypeOK
<1>10. CASE Restart
  BY <1>10, Zenon DEF Restart, NoReclaim, ReclaimTerminal
<1> QED
  BY <1>1, <1>2, <1>3, <1>4, <1>5, <1>6, <1>7, <1>8, <1>9, <1>10, Zenon

\* An entry leaves Server.processes only once it is on disk, and with a new
\* revision, or with the instance.
LEMMA VanishStep ==
  ASSUME IInv, [Next]_vars, NEW n \in Node, procs[n] # "none", procs'[n] = "none"
  PROVE  \/ inst' = inst + 1 /\ handler' = [h \in Handler |-> Idle] /\ UNCHANGED sent
         \/ n \in retired' /\ handler' = Bumped(handler)
<1> USE DEF diskVars, envVars, admitFrame, reclaimFrame
<1>1. \/ \E S \in SUBSET Node : procs' = Stopped(S)
      \/ \E h \in Handler : procs' = [procs EXCEPT ![handler[h].node] = "live"]
      \/ \E m \in Node, v \in {"done", "leaked"} : procs' = [procs EXCEPT ![m] = v]
      \/ ReclaimDrop
      \/ Restart
  <2>1. \/ \E h \in Handler : Admit(h)
        \/ \E r \in Run, g \in StopGens : StopRunGeneration(r, g)
        \/ (\E m \in Node : StopNode(m)) \/ StopAllFence \/ BeginShutdown
        \/ \E m \in Node, removed \in BOOLEAN : FinishProcess(m, removed)
        \/ ReclaimDrop
        \/ Restart
    BY NextCases, Zenon DEF vars, SendCreate, Begin, ReadRevision, ReadIdentity, ReadFence, Retry, Refuse,
       StopAnswered, StopFails, HeartbeatAcked, Register, StopAllBegin, StopAllEnd,
       FenceRetiredRuns, ReclaimBegin, ReclaimSave, ReclaimEnd, SaveFence, DropFence
  <2>2. ASSUME NEW r \in Run, NEW g \in StopGens, StopRunGeneration(r, g)
        PROVE  \E S \in SUBSET Node : procs' = Stopped(S)
    BY <2>2, Zenon DEF StopRunGeneration
  <2>3. ASSUME (\E m \in Node : StopNode(m)) \/ StopAllFence \/ BeginShutdown
        PROVE  \E S \in SUBSET Node : procs' = Stopped(S)
    BY <2>3, Zenon DEF StopNode, StopAllFence, BeginShutdown
  <2> QED
    BY <2>1, <2>2, <2>3, Zenon DEF Admit, FinishProcess
<1>2. CASE ReclaimDrop
  <2>1. n \in reclaim.nodes /\ reclaim.phase = "drop" /\ handler' = Bumped(handler)
    BY <1>2, Zenon DEF ReclaimDrop, IInv, TypeOK
  <2> QED
    BY <1>2, <2>1, Zenon DEF ReclaimDrop, IInv, ReclaimTerminal
<1>3. CASE Restart
  BY <1>3, Zenon DEF Restart
<1>4. ASSUME NEW S \in SUBSET Node, procs' = Stopped(S) PROVE FALSE
  BY <1>4, StoppedType, Zenon DEF IInv, TypeOK
<1> QED
  BY <1>1, <1>2, <1>3, <1>4, Zenon DEF IInv, TypeOK

LEMMA IdentityStep == IInv /\ RequestsKnown' /\ [Next]_vars => IdentityKept'
<1> SUFFICES ASSUME IInv, [Next]_vars, NEW n \in Node, started'[n] > 0, sent'[n] = inst',
                    procs'[n] = "none"
             PROVE  n \in retired'
  BY Zenon DEF IdentityKept
<1> USE DEF diskVars, envVars, admitFrame, reclaimFrame
<1>1. retired \subseteq retired'
  BY NextCases, Zenon DEF vars, SendCreate, Begin, ReadRevision, ReadIdentity, ReadFence, Admit,
     Retry, Refuse, StopRunGeneration, StopAnswered, StopFails, StopNode, FinishProcess,
     HeartbeatAcked, Register, StopAllBegin, StopAllFence, StopAllEnd, FenceRetiredRuns,
     ReclaimBegin, ReclaimSave, ReclaimDrop, ReclaimEnd, SaveFence, DropFence, BeginShutdown,
     Restart
<1>2. CASE procs[n] # "none"
  <2>1. inst' = inst + 1 /\ UNCHANGED sent => FALSE
    BY DEF IInv, RequestsKnown, TypeOK
  <2> QED
    BY <1>2, <2>1, VanishStep, Zenon
<1>3. CASE procs[n] = "none"
  <2>1. CASE \E h \in Handler : Admit(h)
    <3> PICK h \in Handler : Admit(h)
      BY <2>1, Zenon
    <3>1. handler[h].node # n /\ started'[n] = started[n] /\ sent'[n] = sent[n] /\ inst' = inst
      BY Zenon DEF Admit, IInv, TypeOK
    <3> QED
      BY <3>1, <1>1, <1>3, Zenon DEF IInv, IdentityKept
  <2>2. CASE ~\E h \in Handler : Admit(h)
    <3>1. UNCHANGED started
      BY <2>2, NextCases, Zenon DEF vars, SendCreate, Begin, ReadRevision, ReadIdentity, ReadFence,
         Retry, Refuse, StopRunGeneration, StopAnswered, StopFails, StopNode, FinishProcess,
         HeartbeatAcked, Register, StopAllBegin, StopAllFence, StopAllEnd, FenceRetiredRuns,
         ReclaimBegin, ReclaimSave, ReclaimDrop, ReclaimEnd, SaveFence, DropFence,
         BeginShutdown, Restart
    <3>2. \/ UNCHANGED <<sent, inst>>
          \/ \E m \in Node, i \in 0..MaxInstance : SendCreate(m, i)
          \/ Restart
      BY <2>2, NextCases, Zenon DEF vars, Begin, ReadRevision, ReadIdentity, ReadFence, Retry, Refuse,
         StopRunGeneration, StopAnswered, StopFails, StopNode, FinishProcess, HeartbeatAcked,
         Register, StopAllBegin, StopAllFence, StopAllEnd, FenceRetiredRuns, ReclaimBegin,
         ReclaimSave, ReclaimDrop, ReclaimEnd, SaveFence, DropFence, BeginShutdown
    <3>3. CASE UNCHANGED <<sent, inst>>
      BY <3>1, <3>3, <1>1, <1>3, Zenon DEF IInv, IdentityKept
    <3>4. ASSUME NEW m \in Node, NEW i \in 0..MaxInstance, SendCreate(m, i)
          PROVE  n \in retired'
      BY <3>1, <3>4, <1>1, <1>3 DEF SendCreate, IInv, IdentityKept, RequestsKnown, TypeOK
    <3>5. CASE Restart
      BY <3>5 DEF Restart, IInv, RequestsKnown, TypeOK
    <3> QED
      BY <3>2, <3>3, <3>4, <3>5, Zenon
  <2> QED
    BY <2>1, <2>2, Zenon
<1> QED
  BY <1>2, <1>3, Zenon

LEMMA HandlerIdentityStep == IInv /\ TypeOK' /\ [Next]_vars => HandlerIdentity'
<1> SUFFICES ASSUME IInv, TypeOK', [Next]_vars, NEW h \in Handler,
                    handler'[h].pc \in {"fence", "lock"}, handler'[h].same,
                    handler'[h].node \in retired'
             PROVE  procs'[handler'[h].node] # "none"
  BY Zenon DEF HandlerIdentity
<1> USE DEF diskVars, envVars, admitFrame, reclaimFrame
<1> DEFINE n == handler'[h].node
<1>1. n \in Node
  BY Zenon DEF TypeOK
<1>2. /\ handler[h].pc \in {"identity", "fence", "lock"}
      /\ handler[h].pc = "identity" => n \notin retired
      /\ handler[h].node = n /\ handler[h].same
  <2>1. \/ handler' = handler
        \/ handler' = Bumped(handler)
        \/ \E k \in Handler, m \in Node : Begin(k, m)
        \/ \E k \in Handler : ReadRevision(k) \/ ReadIdentity(k) \/ ReadFence(k)
        \/ \E k \in Handler : Admit(k) \/ Retry(k) \/ Refuse(k)
        \/ Restart
    BY NextCases, Zenon DEF vars, SendCreate, StopRunGeneration, StopAnswered, StopFails, StopNode,
       FinishProcess, HeartbeatAcked, Register, StopAllBegin, StopAllFence, StopAllEnd,
       FenceRetiredRuns, ReclaimBegin, ReclaimSave, ReclaimDrop, ReclaimEnd, SaveFence,
       DropFence, BeginShutdown
  <2>2. handler \in [Handler -> HandlerState] /\ handler[h] \in HandlerState
    BY Zenon DEF IInv, TypeOK
  <2>3. CASE handler' = handler
    BY <2>3, Zenon DEF IInv, HandlerIdentity
  <2>4. CASE handler' = Bumped(handler)
    BY <2>2, <2>4, BumpedType, Zenon
  <2>5. ASSUME NEW k \in Handler, NEW m \in Node, Begin(k, m)
        PROVE  handler'[h] = handler[h]
    BY <2>2, <2>5, Zenon DEF Begin, SetHandler, Idle
  <2>6. ASSUME NEW k \in Handler, Admit(k) \/ Retry(k) \/ Refuse(k)
        PROVE  handler'[h] = handler[h]
    <3>1. \/ handler' = [handler EXCEPT ![k] = Idle]
          \/ handler' = [handler EXCEPT ![k] = [handler[k] EXCEPT !.pc = "revision", !.stored = Unfenced]]
      BY <2>6, Zenon DEF Admit, Retry, Refuse, SetHandler
    <3>2. CASE h = k
      <4>1. CASE handler' = [handler EXCEPT ![k] = Idle]
        BY <3>2, <4>1, <2>2, IdleType, Zenon
      <4>2. CASE handler' = [handler EXCEPT ![k] = [handler[k] EXCEPT !.pc = "revision", !.stored = Unfenced]]
        <5>1. handler'[h] = [handler[h] EXCEPT !.pc = "revision", !.stored = Unfenced]
          BY <3>2, <4>2, <2>2, Zenon
        <5>2. handler'[h].pc = "revision"
          BY <5>1, <2>2, Zenon DEF HandlerState
        <5>3. "revision" \notin {"fence", "lock"}
          BY Zenon
        <5> QED
          BY <5>2, <5>3, Zenon
      <4> QED
        BY <3>1, <4>1, <4>2, Zenon
    <3>3. CASE h # k
      BY <3>1, <3>3, <2>2, Zenon
    <3> QED
      BY <3>2, <3>3, Zenon
  <2>7. ASSUME NEW k \in Handler, ReadRevision(k) PROVE handler'[h] = handler[h]
    <3>1. CASE h = k
      BY <2>7, <3>1, <2>2, Zenon DEF ReadRevision, SetHandler, HandlerState
    <3>2. CASE h # k
      BY <2>7, <3>2, <2>2, Zenon DEF ReadRevision, SetHandler
    <3> QED
      BY <3>1, <3>2
  <2>8. ASSUME NEW k \in Handler, ReadIdentity(k)
        PROVE  \/ handler'[h] = handler[h]
               \/ /\ handler[h].pc = "identity" /\ handler[h].node \notin retired
                  /\ handler'[h] = [handler[h] EXCEPT !.pc = "fence"]
    <3>1. CASE h = k
      BY <2>8, <3>1, <2>2, IdleType, Zenon DEF ReadIdentity, SetHandler
    <3>2. CASE h # k
      BY <2>8, <3>2, <2>2, Zenon DEF ReadIdentity, SetHandler
    <3> QED
      BY <3>1, <3>2, Zenon
  <2>9. ASSUME NEW k \in Handler, ReadFence(k)
        PROVE  /\ handler'[h].node = handler[h].node /\ handler'[h].same = handler[h].same
               /\ handler[h].pc \in {"fence", "lock"}
    <3>1. CASE h = k
      BY <2>9, <3>1, <2>2, Zenon DEF ReadFence, SetHandler, HandlerState
    <3>2. CASE h # k
      BY <2>9, <3>2, <2>2, Zenon DEF ReadFence, SetHandler
    <3> QED
      BY <3>1, <3>2, Zenon
  <2>10. CASE Restart
    BY <2>10, IdleType, Zenon DEF Restart
  <2>11. [handler[h] EXCEPT !.pc = "fence"].node = handler[h].node
         /\ [handler[h] EXCEPT !.pc = "fence"].same = handler[h].same
    BY <2>2, Zenon DEF HandlerState
  <2> QED
    BY <2>1, <2>3, <2>4, <2>5, <2>6, <2>7, <2>8, <2>9, <2>10, <2>11, Zenon
<1>3. CASE n \in retired
  <2>1. procs[n] # "none"
    BY <1>2, <1>3, Zenon DEF IInv, HandlerIdentity
  <2>2. ~handler'[h].same \/ handler'[h].pc = "idle" \/ procs'[n] # "none"
    <3>1. handler' = Bumped(handler) => ~handler'[h].same
      BY BumpedType, Zenon DEF IInv, TypeOK
    <3>2. handler' = [k \in Handler |-> Idle] => handler'[h].pc = "idle"
      BY IdleType, Zenon
    <3> QED
      BY <2>1, <3>1, <3>2, <1>1, VanishStep, Zenon
  <2> QED
    BY <2>2, Zenon
<1>4. CASE n \notin retired
  <2>1. ReclaimSave
    BY <1>4, NextCases, Zenon DEF vars, SendCreate, Begin, ReadRevision, ReadIdentity, ReadFence,
       Admit, Retry, Refuse, StopRunGeneration, StopAnswered, StopFails, StopNode,
       FinishProcess, HeartbeatAcked, Register, StopAllBegin, StopAllFence, StopAllEnd,
       FenceRetiredRuns, ReclaimBegin, ReclaimDrop, ReclaimEnd, SaveFence, DropFence,
       BeginShutdown, Restart
  <2> QED
    BY <1>4, <2>1, Zenon DEF ReclaimSave, IInv, ReclaimTerminal
<1> QED
  BY <1>3, <1>4, Zenon
-----------------------------------------------------------------------------
\* IInv is inductive.
THEOREM Invariance == Spec => []IInv
<1>1. IInv /\ [Next]_vars => IInv'
  <2> SUFFICES ASSUME IInv, [Next]_vars PROVE IInv'
    OBVIOUS
  <2>1. TypeOK'
    BY TypeStep, Zenon DEF IInv
  <2>2. StopsWereIssued' /\ RequestsKnown'
    BY IssuedStep, Zenon
  <2>3. FenceHeld' /\ HandlerFence' /\ FencedStaysClean'
    BY <2>1, <2>2, FenceHeldStep, HandlerFenceStep, CleanStep, Zenon
  <2>4. ReclaimTerminal' /\ IdentityKept' /\ HandlerIdentity' /\ AdmittedOnce'
    BY <2>1, <2>2, ReclaimStep, IdentityStep, HandlerIdentityStep, OnceStep, Zenon
  <2> QED
    BY <2>1, <2>2, <2>3, <2>4, Zenon DEF IInv
<1> QED
  BY <1>1, InitInvariant, PTL DEF Spec

\* Every reachable state has the declared shape.
THEOREM TypeCorrect == Spec => []TypeOK
<1>1. IInv => TypeOK
  BY Zenon DEF IInv
<1> QED
  BY <1>1, Invariance, PTL

\* Once the Agent has answered the stop of a generation, no Peer of it exists
\* again: no interleaving of delayed creates with fence eviction, stop-all and
\* restarts gets past lockAdmission.
THEOREM CleanupIsFinal == Spec => []FencedStaysClean
<1>1. IInv => FencedStaysClean
  BY Zenon DEF IInv
<1> QED
  BY <1>1, Invariance, PTL

\* A node ID is admitted at most once, while its record is in memory, while it
\* moves to disk, and after a restart.
THEOREM IdentityIsUnique == Spec => []AdmittedOnce
<1>1. IInv => AdmittedOnce
  BY Zenon DEF IInv
<1> QED
  BY <1>1, Invariance, PTL
-----------------------------------------------------------------------------
(***************************************************************************)
(* Capacity.  Node may be infinite, so that the occupied slots are finite  *)
(* is part of the invariant.                                               *)
(***************************************************************************)
SlotsCounted == IsFiniteSet(Occupied) /\ WithinCapacity

\* Only an admission that found a free slot takes one; what else happens to a
\* process keeps its slot or frees it.
LEMMA SlotsStep == TypeOK /\ TypeOK' /\ SlotsCounted /\ [Next]_vars => SlotsCounted'
<1> SUFFICES ASSUME TypeOK, TypeOK', SlotsCounted, [Next]_vars PROVE SlotsCounted'
  BY Zenon
<1>1. IsFiniteSet(Occupied) /\ Cardinality(Occupied) \in Nat /\ Cardinality(Occupied) <= Capacity
  BY FS_CardinalityType, Zenon DEF SlotsCounted, WithinCapacity
<1>2. ASSUME NEW h \in Handler, Admit(h)
      PROVE  SlotsCounted'
  <2> DEFINE n == handler[h].node
  <2>1. /\ procs' = [procs EXCEPT ![n] = "live"]
        /\ procs[n] = "none" /\ Cardinality(Occupied) < Capacity
    BY <1>2, Zenon DEF Admit, Admissible
  <2>2. Occupied' \subseteq Occupied \cup {n}
    BY <2>1, Zenon DEF Occupied, TypeOK
  <2>3. IsFiniteSet(Occupied \cup {n}) /\ Cardinality(Occupied \cup {n}) <= Cardinality(Occupied) + 1
    BY <1>1, FS_AddElement
  <2>4. IsFiniteSet(Occupied') /\ Cardinality(Occupied') <= Cardinality(Occupied \cup {n})
    BY <2>2, <2>3, FS_Subset, Zenon
  <2>5. Cardinality(Occupied') \in Nat /\ Cardinality(Occupied \cup {n}) \in Nat
    BY <2>3, <2>4, FS_CardinalityType, Zenon
  <2> QED
    BY <1>1, <2>1, <2>3, <2>4, <2>5 DEF SlotsCounted, WithinCapacity
<1>3. ASSUME \A n \in Node : procs[n] \in {"none", "done"} => procs'[n] \in {"none", "done"}
      PROVE  SlotsCounted'
  <2>1. Occupied' \subseteq Occupied
    BY <1>3, Zenon DEF Occupied, TypeOK
  <2>2. IsFiniteSet(Occupied') /\ Cardinality(Occupied') <= Cardinality(Occupied)
    BY <1>1, <2>1, FS_Subset, Zenon
  <2>3. Cardinality(Occupied') \in Nat
    BY <2>2, FS_CardinalityType, Zenon
  <2> QED
    BY <1>1, <2>2, <2>3 DEF SlotsCounted, WithinCapacity
<1> QED
  BY <1>2, <1>3, ProcsStep, Zenon

\* The Agent never holds more Peers than it has slots: lockAdmission counts a
\* slot from the admission until the container is confirmed removed.
THEOREM CapacityIsKept == Spec => []WithinCapacity
<1>1. Init => SlotsCounted
  <2> SUFFICES ASSUME Init PROVE SlotsCounted
    BY Zenon
  <2>1. Occupied = {}
    BY Zenon DEF Init, Occupied
  <2> QED
    BY <2>1, FS_EmptySet DEF SlotsCounted, WithinCapacity
<1>2. SlotsCounted => WithinCapacity
  BY Zenon DEF SlotsCounted
<1> QED
  BY <1>1, <1>2, SlotsStep, TypeCorrect, PTL DEF Spec
=============================================================================
