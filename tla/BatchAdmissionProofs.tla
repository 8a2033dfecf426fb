------------------------ MODULE BatchAdmissionProofs ------------------------
(***************************************************************************)
(* The checks of submissions and continuations keep the invariant of       *)
(* BatchStepProofs, so it holds always; from it, a submission starts its   *)
(* runs once, and batch admission implements BatchGroup.                   *)
(***************************************************************************)
EXTENDS BatchStepProofs

\* The file of a queued run.
LEMMA QueuedType ==
  ASSUME NEW it \in 0..MaxTotal, NEW total \in 0..MaxTotal, NEW prev \in SUBSET Run,
         NEW f, f = Queued(it, total, prev)
  PROVE  /\ f \in File /\ f.st = "queued" /\ f.it = it /\ f.total = total /\ f.prev = prev /\ ~f.started
<1>1. "queued" \in States /\ FALSE \in BOOLEAN BY Zenon DEF States
<1> QED BY <1>1, Zenon DEF Queued, File

\* An admission whose checks passed carries its plan.
LEMMA AdmitsOp ==
  ASSUME TypeOK, NEW pend \in Seq(Plan), NEW total \in 0..MaxTotal, NEW before \in Seq(File),
         NEW pc \in {"intent", "prepare"}, NEW last, Admits(pend, total, before, pc, last)
  PROVE  /\ op' \in Operation /\ op'.pc = pc /\ op'.kind = op.kind /\ op'.pend = pend
         /\ op'.total = total /\ op'.before = before /\ op'.i = 1 /\ ids' = last
<1>1. op \in Operation /\ pc \in Pcs /\ 1 \in Nat BY Zenon DEF TypeOK, Pcs
<1>2. op' = [op EXCEPT !.pc = pc, !.pend = pend, !.total = total, !.i = 1, !.before = before] /\ ids' = last
  BY Zenon DEF Admits
<1>3. /\ op' \in Operation /\ op'.pc = pc /\ op'.kind = op.kind /\ op'.pend = pend
      /\ op'.total = total /\ op'.before = before /\ op'.i = 1
  BY <1>1, <1>2, Zenon DEF Operation
<1> QED BY <1>2, <1>3, Zenon

\* Such an admission keeps the invariant if its plan is sound.
LEMMA AdmitsInv ==
  ASSUME IInv, op.pc = "check", op' \in Operation, op'.pc \in {"intent", "prepare"}, op'.kind = op.kind,
         op'.i = 1, op'.pc = "intent" => op.kind = "submit",
         op.kind # "submit" => \E r \in CurrentBatchMembers : files[r].it \in Iteration,
         ids' \in Run, ids <= ids', Planned' \subseteq 1..ids', sched = <<>>, PlanOK', AdmitOK',
         op'.pc = "prepare" => op.kind # "submit",
         UNCHANGED <<disk, live, sched, faults, stops, history>>
  PROVE  IInv'
<1> USE DEF disk, history
<1>1. TypeOK' BY Zenon DEF IInv, TypeOK
<1>2. Drawn'
  <2>1. ids \in Nat /\ ids' \in Nat BY DEF IInv, TypeOK, Run
  <2>2. 1..ids \subseteq 1..ids' BY <2>1
  <2>3. Pending(batch)' = Pending(batch) BY Zenon DEF Pending
  <2> QED BY <2>2, <2>3, Zenon DEF IInv, Drawn
<1>3. Disk' BY Quiet, Zenon DEF IInv, Disk, saved
<1>4. HistoryOK' BY Zenon DEF IInv, HistoryOK, Loose, Alive, Exists, Pending, Shown
<1>5. CurrentBatchMembers' = CurrentBatchMembers
  BY Zenon DEF CurrentBatchMembers, AllBatchMembers, Readable, Exists, Pending
<1>6. StepOK' BY <1>5, Zenon DEF IInv, StepOK
<1>7. DeleteOK' BY Zenon DEF DeleteOK
<1>8. SchedOK' BY Zenon DEF IInv, SchedOK
<1> QED BY <1>1, <1>2, <1>3, <1>4, <1>6, <1>7, <1>8 DEF IInv, Disk

\* While a request is checked nothing is pending, so the members of the group are
\* all its saved runs.
LEMMA Checking ==
  ASSUME IInv, op.pc = "check"
  PROVE  /\ batch.pending = <<>> /\ Pending(batch) = {}
         /\ AllBatchMembers = {r \in Run : Alive(r)} /\ \A r \in Run : Loose(r) <=> Alive(r)
         /\ AllBatchMembers \subseteq Shown
<1>1. batch.pending = <<>> BY Zenon DEF IInv, StepOK
<1>2. Pending(batch) = {} /\ \A r \in Run : Loose(r) <=> Alive(r) BY <1>1, NothingPending, Zenon DEF IInv
<1>3. \A r \in Run : Readable(r) <=> Loose(r) BY ReadableRuns, Zenon
<1>4. AllBatchMembers = {r \in Run : Alive(r)} BY <1>2, <1>3, Zenon DEF AllBatchMembers
<1> QED BY <1>1, <1>2, <1>4, Zenon DEF IInv, HistoryOK

\* submitScenarioFromLibrary and startScenarioRepeated.
LEMMA SubmitCheckInv ==
  ASSUME IInv, SubmitCheck
  PROVE  IInv'
<1>1. /\ op.pc = "check" /\ op.kind = "submit" /\ UNCHANGED <<disk, live, sched, faults, stops, history>>
      /\ ~legacy
  BY Zenon DEF SubmitCheck, IInv, StepOK
<1>2. CASE Refused BY <1>1, <1>2, RefusedInv, Zenon
<1>3. CASE ~(1 \in fence \/ Published \/ ids + MaxTotal - 1 > MaxRuns)
  <2>1. PICK n \in Iteration :
          Admits([i \in 1..n |-> [id |-> IF i = 1 THEN 1 ELSE ids + i - 1, f |-> Queued(i, n, {})]],
                 n, <<>>, "intent", ids + n - 1)
    BY <1>3, Zenon DEF SubmitCheck
  <2>2. /\ n \in Nat /\ n >= 1 /\ n <= MaxTotal /\ MaxTotal \in Nat /\ MaxRuns \in Nat
        /\ ids \in Nat /\ ids >= 1 /\ ids + MaxTotal - 1 <= MaxRuns /\ 1 \in 1..n
        /\ TypeOK /\ n \in 0..MaxTotal
    BY <1>3, BatchConstants DEF Iteration, IInv, TypeOK, Run
  <2>3. committed = {} /\ exposed = {} /\ sched = <<>> /\ Shown = {}
    <3>1. committed = {} BY <1>1, <1>3, Zenon DEF IInv, FirstOK
    <3> QED BY <3>1, Zenon DEF IInv, HistoryOK, SchedOK, Shown
  <2>4. \A r \in Run : ~Alive(r) BY <1>1, <2>3, Checking, Zenon DEF IInv, HistoryOK
  <2>5. fence \subseteq 1..ids /\ 1 \notin fence BY <1>3, Zenon DEF IInv, Drawn
  <2>6. PICK pend : pend = [i \in 1..n |-> [id |-> IF i = 1 THEN 1 ELSE ids + i - 1, f |-> Queued(i, n, {})]]
    BY Zenon
  <2>7. /\ DOMAIN pend = 1..n
        /\ \A i \in 1..n : pend[i] = [id |-> IF i = 1 THEN 1 ELSE ids + i - 1, f |-> Queued(i, n, {})]
    BY <2>6, Zenon
  <2>8. ASSUME NEW i \in 1..n
        PROVE  /\ pend[i] \in Plan /\ pend[i].id = IF i = 1 THEN 1 ELSE ids + i - 1
               /\ pend[i].f.it = i /\ pend[i].f.st = "queued" /\ pend[i].f.total = n /\ ~pend[i].f.started
               /\ pend[i].f.prev = {} /\ pend[i].id \in 1..(ids + n - 1) /\ pend[i].id \notin fence
    <3>1. i \in Nat /\ i >= 1 /\ i <= n /\ i \in 0..MaxTotal /\ {} \in SUBSET Run BY <2>2
    <3>2. PICK f : f = Queued(i, n, {}) BY Zenon
    <3>3. /\ f \in File /\ f.st = "queued" /\ f.it = i /\ f.total = n /\ f.prev = {} /\ ~f.started
      BY <2>2, <3>1, <3>2, QueuedType
    <3> DEFINE id == IF i = 1 THEN 1 ELSE ids + i - 1
    <3>4. id \in 1..(ids + n - 1) /\ id \in Run /\ id \notin fence BY <2>2, <2>5, <3>1 DEF Run
    <3>5. pend[i] = [id |-> id, f |-> f] BY <2>7, <3>2, Zenon
    <3> HIDE DEF id
    <3>6. pend[i] \in Plan /\ pend[i].id = id /\ pend[i].f = f BY <3>3, <3>4, <3>5 DEF Plan
    <3> QED BY <3>3, <3>4, <3>6, Zenon DEF id
  <2>9. pend \in Seq(Plan) /\ Len(pend) = n
    <3>1. pend \in [1..n -> Plan] BY <2>6, <2>8, Zenon
    <3> QED BY <2>2, <3>1, SeqIntro, Zenon
  <2>10. Admits(pend, n, <<>>, "intent", ids + n - 1) BY <2>1, <2>6, Zenon
  <2>11. /\ op' \in Operation /\ op'.pc = "intent" /\ op'.kind = op.kind /\ op'.pend = pend
         /\ op'.total = n /\ op'.before = <<>> /\ op'.i = 1 /\ ids' = ids + n - 1
    <3>1. <<>> \in Seq(File) OBVIOUS
    <3> QED BY <2>2, <2>9, <2>10, <3>1, AdmitsOp, Zenon
  <2>12. Planned' \subseteq 1..ids' /\ Planned' \cap fence = {} BY <2>7, <2>8, <2>11 DEF Planned
  <2>13. ids' \in Run /\ ids <= ids' BY <2>2, <2>11 DEF Run
  <2>14. PlanOK'
    <3>1. \A i, j \in 1..n : pend[i].id = pend[j].id => i = j BY <2>2, <2>8
    <3>2. pend # <<>> BY <2>2, <2>7
    <3>3. \A i \in 1..n : pend[i].f.it \in Iteration /\ pend[i].f.prev \subseteq Shown'
      BY <2>2, <2>8 DEF Iteration
    <3> QED BY <1>1, <2>2, <2>3, <2>7, <2>8, <2>11, <3>1, <3>2, <3>3, Zenon DEF PlanOK
  <2>15. AdmitOK'
    <3>1. Shown' = {} /\ fence' = fence /\ committed' = {} BY <1>1, <2>3, Zenon DEF Shown, disk, history
    <3>2. \A r \in Run : ~Alive(r)' BY <1>1, <2>4, Zenon DEF Alive, Exists, disk
    <3>3. pend[1].id = 1 /\ pend[1].f.it = 1 BY <2>2, <2>8, Zenon
    <3> QED BY <1>1, <2>11, <2>12, <3>1, <3>2, <3>3, Zenon DEF AdmitOK
  <2> QED BY <1>1, <2>3, <2>11, <2>12, <2>13, <2>14, <2>15, AdmitsInv, Zenon
<1> QED BY <1>2, <1>3, Zenon DEF SubmitCheck

\* The members that count agree on the total of the group, and every other saved
\* run was replaced or has started.
LEMMA GroupFacts ==
  ASSUME IInv, op.pc = "check", NEW a \in CurrentBatchMembers
  PROVE  /\ Total(a) \in 1..MaxTotal /\ Total(a) \in Nat /\ batch.total \in {0, Total(a)}
         /\ committed # {} /\ Alive(a) /\ a \in Run /\ a \in Shown \ batch.retired
         /\ \A r \in CurrentBatchMembers : Total(r) = Total(a)
         /\ \A r \in Run : Alive(r) =>
              /\ files[r].total <= Total(a)
              /\ r \in CurrentBatchMembers => files[r].started \/ files[r].total = Total(a)
              /\ r \in CurrentBatchMembers \/ r \in batch.retired \/ files[r].started
<1>1. /\ Pending(batch) = {} /\ AllBatchMembers = {r \in Run : Alive(r)} /\ AllBatchMembers \subseteq Shown
      /\ \A r \in Run : Loose(r) <=> Alive(r)
  BY Checking, Zenon
<1>2. CurrentBatchMembers \subseteq AllBatchMembers /\ \A r \in CurrentBatchMembers : r \notin batch.retired
  BY Zenon DEF CurrentBatchMembers
<1>3. Alive(a) /\ a \in Run /\ a \in Shown \ batch.retired BY <1>1, <1>2, Zenon
<1>4. committed # {} BY <1>3, Zenon DEF IInv, HistoryOK, Shown
<1>5. files \in [Run -> File] /\ batch \in Record BY Zenon DEF IInv, TypeOK
<1>6. /\ \A r \in Run : files[r].total \in 0..MaxTotal /\ files[r].total \in Nat
      /\ batch.total \in 0..MaxTotal /\ batch.total \in Nat
  BY <1>5, BatchConstants DEF File, Record
<1>7. batch.total = 0 <=> batch = NoBatch BY NoBatchType, Zenon DEF IInv, RecordOK
<1>8. files[a].total >= 1 BY <1>3, Zenon DEF IInv, FilesOK, Alive
<1>9. ASSUME NEW r \in Run, Alive(r), r \notin CurrentBatchMembers
      PROVE  r \in batch.retired \/ files[r].started
  <2>1. r \in batch.retired \/ \E m \in AllBatchMembers \ {r} : r \in files[m].prev
    BY <1>1, <1>9, Zenon DEF CurrentBatchMembers
  <2> QED BY <1>1, <1>9, <2>1, Zenon DEF IInv, AncestryOK
<1>10. CASE batch = NoBatch
  <2>1. \A r \in Run : Total(r) = files[r].total BY <1>10, Zenon DEF Total
  <2>2. \A r \in Run : Alive(r) => files[r].total = files[a].total
    BY <1>1, <1>3, <1>10, Unpublished, Zenon DEF IInv, TotalsOK
  <2>3. \A r \in CurrentBatchMembers : r \in Run /\ Alive(r) BY <1>1, <1>2, Zenon
  <2>4. files[a].total \in 1..MaxTotal BY <1>3, <1>6, <1>8
  <2>5. \A r \in CurrentBatchMembers : Total(r) = Total(a) BY <1>3, <2>1, <2>2, <2>3, Zenon
  <2>6. \A r \in Run : Alive(r) => files[r].total <= Total(a) /\ files[r].total = Total(a)
    BY <1>3, <1>6, <2>1, <2>2
  <2> QED BY <1>3, <1>4, <1>7, <1>9, <1>10, <2>1, <2>4, <2>5, <2>6
<1>11. CASE batch # NoBatch
  <2>1. \A r \in Run : Total(r) = batch.total BY <1>11, Zenon DEF Total
  <2>2. \A r \in Run : Alive(r) => files[r].total <= batch.total /\ Settled(r, batch.total)
    BY <1>1, <1>11, Zenon DEF IInv, TotalsOK
  <2>3. \A r \in CurrentBatchMembers : r \in Run /\ Alive(r) BY <1>1, <1>2
  <2>4. batch.total \in 1..MaxTotal BY <1>6, <1>7, <1>11
  <2>5. \A r \in CurrentBatchMembers : Total(r) = Total(a) BY <2>1, <2>3, Zenon
  <2>6. \A r \in CurrentBatchMembers : files[r].started \/ files[r].total = batch.total
    BY <1>2, <2>2, <2>3, Zenon DEF Settled
  <2> QED BY <1>3, <1>4, <1>6, <1>9, <2>1, <2>2, <2>4, <2>5, <2>6, Zenon
<1> QED BY <1>10, <1>11, Zenon

\* AppendScenarioBatch.
LEMMA AppendCheckInv ==
  ASSUME IInv, AppendCheck
  PROVE  IInv'
<1>1. op.pc = "check" /\ op.kind = "append" /\ UNCHANGED <<disk, live, sched, faults, stops, history>>
  BY Zenon DEF AppendCheck
<1>2. CASE Refused BY <1>1, <1>2, RefusedInv, Zenon
<1>3. CASE ~Refused
  <2>1. PICK n : n = Cardinality(CurrentBatchMembers) BY Zenon
  <2>2. /\ n \in 1..(MaxTotal - 1) /\ ids < MaxRuns
        /\ {files[r].it : r \in CurrentBatchMembers} = 1..n
        /\ \A r \in CurrentBatchMembers : State(r) = "completed" /\ Total(r) = n
        /\ \A r \in AllBatchMembers : ~Busy(r)
        /\ Admits(<<[id |-> ids + 1, f |-> Queued(n + 1, n + 1, {})]>>, n + 1, <<>>, "prepare", ids + 1)
    BY <1>3, <2>1, Zenon DEF AppendCheck
  <2>3. /\ AllBatchMembers = {r \in Run : Alive(r)} /\ CurrentBatchMembers \subseteq AllBatchMembers
    BY <1>1, Checking DEF CurrentBatchMembers
  <2>4. n \in Nat /\ n > 0 /\ n < MaxTotal BY <2>2, BatchConstants
  <2>5. PICK a \in CurrentBatchMembers : files[a].it = 1
    <3>1. 1 \in 1..n BY <2>2, <2>4
    <3> QED BY <2>2, <3>1, Zenon
  <2>6. /\ committed # {} /\ Total(a) = n
        /\ \A r \in Run : Alive(r) =>
             /\ files[r].total <= n
             /\ r \in CurrentBatchMembers \/ r \in batch.retired \/ files[r].started
    BY <1>1, <2>2, <2>5, GroupFacts, Zenon
  <2>7. ASSUME NEW r \in CurrentBatchMembers PROVE files[r].started
    <3>1. r \in Run /\ State(r) = "completed" BY <2>2, <2>3, Zenon
    <3>2. files[r].st = "completed" BY <3>1, Zenon DEF State
    <3> QED BY <3>1, <3>2, Zenon DEF IInv, FilesOK
  <2>8. sched = <<>> BY <2>2, <2>3, <2>5, Zenon DEF Busy
  <2>9. /\ n + 1 \in 0..MaxTotal /\ n + 1 \in Iteration /\ n + 1 >= 1 /\ ids \in Nat /\ ids >= 1 /\ ids + 1 \in Run
        /\ TypeOK /\ fence \cup Shown \subseteq 1..ids /\ 1 \in Iteration
    BY <2>2, <2>4, BatchConstants DEF Iteration, Run, IInv, TypeOK, Drawn, Shown
  <2>10. PICK f : f = Queued(n + 1, n + 1, {}) BY Zenon
  <2>11. /\ f \in File /\ f.st = "queued" /\ f.it = n + 1 /\ f.total = n + 1 /\ f.prev = {} /\ ~f.started
    BY <2>9, <2>10, QueuedType
  <2>12. PICK q : q = [id |-> ids + 1, f |-> f] BY Zenon
  <2>13. q \in Plan /\ q.id = ids + 1 /\ q.f = f BY <2>9, <2>11, <2>12, Zenon DEF Plan
  <2>14. Admits(<<q>>, n + 1, <<>>, "prepare", ids + 1) BY <2>2, <2>10, <2>12, Zenon
  <2>15. <<q>> \in Seq(Plan) /\ DOMAIN <<q>> = {1} /\ <<q>>[1] = q /\ <<>> \in Seq(File) /\ <<q>> # <<>>
    BY <2>13
  <2>16. /\ op' \in Operation /\ op'.pc = "prepare" /\ op'.kind = op.kind /\ op'.pend = <<q>>
         /\ op'.total = n + 1 /\ op'.before = <<>> /\ op'.i = 1 /\ ids' = ids + 1
    BY <2>9, <2>14, <2>15, AdmitsOp, Zenon
  <2>17. Planned' = {ids + 1} BY <2>13, <2>15, <2>16, Zenon DEF Planned
  <2>18. Planned' \subseteq 1..ids' /\ ids' \in Run /\ ids <= ids' /\ ids + 1 \notin fence \cup Shown
    BY <2>9, <2>16, <2>17
  <2>19. PlanOK'
    BY <1>1, <2>8, <2>9, <2>11, <2>13, <2>15, <2>16 DEF PlanOK
  <2>20. AdmitOK'
    <3>1. Shown' = Shown /\ fence' = fence /\ committed' = committed /\ batch' = batch /\ files' = files
      BY <1>1, Zenon DEF Shown, disk, history
    <3>2. \A r \in Run : files[r].total \in Nat BY BatchConstants DEF IInv, TypeOK, File
    <3>3. \A r \in Run : Alive(r)' => files[r].total <= n + 1 /\ (files[r].started \/ r \in batch.retired)
      BY <2>4, <2>6, <2>7, <3>1, <3>2 DEF Alive, Exists
    <3> QED BY <1>1, <2>6, <2>16, <2>17, <2>18, <3>1, <3>3, Zenon DEF AdmitOK, Settled
  <2> QED BY <1>1, <2>5, <2>8, <2>9, <2>16, <2>18, <2>19, <2>20, AdmitsInv
<1> QED BY <1>2, <1>3, Zenon

\* What resumeScenarioBatchExpected has checked.
LEMMA ResumableFacts ==
  ASSUME IInv, op.pc = "check", NEW least, Resumable(CurrentBatchMembers, least)
  PROVE  \E a \in CurrentBatchMembers :
           /\ Expected(CurrentBatchMembers) = Total(a) /\ sched = <<>> /\ CurrentBatchMembers \subseteq Run
           /\ \A r \in CurrentBatchMembers :
                /\ Total(r) = Total(a) /\ files[r].it \in Iteration /\ files[r].it \in Nat
                /\ Alive(r) /\ r \in Shown \ batch.retired
           /\ \A r, m \in CurrentBatchMembers : files[r].it = files[m].it => r = m
<1>1. PICK a \in CurrentBatchMembers : a = CHOOSE r \in CurrentBatchMembers : TRUE BY Zenon DEF Resumable
<1>2. Expected(CurrentBatchMembers) = Total(a) BY <1>1, Zenon DEF Expected
<1>3. CurrentBatchMembers \subseteq AllBatchMembers /\ AllBatchMembers \subseteq Run
  BY Zenon DEF CurrentBatchMembers, AllBatchMembers
<1>4. sched = <<>> BY <1>3, Zenon DEF Resumable, Busy
<1>5. ASSUME NEW r \in CurrentBatchMembers
      PROVE  /\ Total(r) = Total(a) /\ files[r].it \in Iteration /\ files[r].it \in Nat
             /\ Alive(r) /\ r \in Shown \ batch.retired
  <2>1. Total(r) = Total(a) /\ Total(a) \in 1..MaxTotal /\ Alive(r) /\ r \in Shown \ batch.retired
    BY GroupFacts, Zenon
  <2>2. files[r].it \in 1..Total(r) BY Zenon DEF Resumable
  <2> QED BY <2>1, <2>2, BatchConstants DEF Iteration
<1> QED BY <1>2, <1>3, <1>4, <1>5, Zenon DEF Resumable

\* ResumeScenarioBatch.
LEMMA ResumeCheckInv ==
  ASSUME IInv, ResumeCheck
  PROVE  IInv'
<1>1. op.pc = "check" /\ op.kind = "resume" /\ UNCHANGED <<disk, live, sched, faults, stops, history>>
  BY Zenon DEF ResumeCheck
<1>2. CASE Refused BY <1>1, <1>2, RefusedInv, Zenon
<1>3. CASE ~Refused
  <2> DEFINE members == CurrentBatchMembers
             attempted == {r \in members : files[r].started \/ State(r) \in {"failed", "completed"}}
             chosen == {r \in members : /\ \A a \in attempted : files[a].it < files[r].it
                                        /\ ~files[r].started /\ State(r) \in {"canceled", "interrupted"}}
             original(r) == [files[r] EXCEPT !.total = Total(r)]
  <2>1. /\ Resumable(members, 2) /\ chosen # {}
        /\ \E r \in members : State(r) = "failed" \/ (State(r) = "interrupted" /\ files[r].started)
        /\ \E s \in InOrder(chosen) :
             Admits([i \in DOMAIN s |-> [id |-> s[i], f |-> [original(s[i]) EXCEPT !.st = "queued"]]],
                    Expected(members), [i \in DOMAIN s |-> original(s[i])], "prepare", ids)
    BY <1>3, Zenon DEF ResumeCheck
  <2>2. PICK a \in members :
          /\ Expected(members) = Total(a) /\ sched = <<>> /\ members \subseteq Run
          /\ \A r \in members :
               /\ Total(r) = Total(a) /\ files[r].it \in Iteration /\ files[r].it \in Nat
               /\ Alive(r) /\ r \in Shown \ batch.retired
    BY <1>1, <2>1, ResumableFacts, Zenon
  <2>3. /\ Total(a) \in 1..MaxTotal /\ Total(a) \in Nat /\ Total(a) \in 0..MaxTotal /\ Total(a) >= 1
        /\ batch.total \in {0, Total(a)} /\ committed # {}
        /\ \A r \in Run : Alive(r) =>
             /\ files[r].total <= Total(a)
             /\ r \in members => files[r].started \/ files[r].total = Total(a)
             /\ r \in members \/ r \in batch.retired \/ files[r].started
    <3>1. /\ Total(a) \in 1..MaxTotal /\ batch.total \in {0, Total(a)} /\ committed # {}
          /\ \A r \in Run : Alive(r) =>
               /\ files[r].total <= Total(a)
               /\ r \in members => files[r].started \/ files[r].total = Total(a)
               /\ r \in members \/ r \in batch.retired \/ files[r].started
      BY <1>1, GroupFacts, Zenon
    <3> QED BY <3>1, BatchConstants
  <2>4. PICK b \in attempted : TRUE BY <2>1, Zenon
  <2>5. ASSUME NEW r \in chosen
        PROVE  /\ r \in members /\ r \in Run /\ Alive(r) /\ ~files[r].started /\ files[r].total = Total(a)
               /\ (legacy \/ r # 1) /\ files[r].st \in {"queued", "running", "canceled"}
    <3>1. r \in members /\ ~files[r].started /\ State(r) \in {"canceled", "interrupted"}
          /\ files[b].it < files[r].it
      BY <2>4, Zenon
    <3>2. files[b].it \in Nat /\ files[b].it >= 1 /\ files[r].it \in Nat BY <2>2, <2>4, <3>1 DEF Iteration
    <3>3. ASSUME ~legacy, r = 1 PROVE FALSE
      <4>1. files[1].it = 1 BY <2>2, <2>3, <3>1, <3>3, Zenon DEF IInv, FirstOK, Alive
      <4> QED BY <3>1, <3>2, <3>3, <4>1
    <3>4. r \in Run /\ Alive(r) /\ files[r] \in File BY <2>2, <3>1, Zenon DEF IInv, TypeOK
    <3>5. files[r].st \in States /\ files[r].st \notin {"none", "dir"} BY <3>4, Zenon DEF File, Alive, Exists
    <3>6. files[r].st \in {"queued", "running", "canceled"} BY <3>1, <3>5, Zenon DEF State, States
    <3> QED BY <2>3, <3>1, <3>3, <3>4, <3>6, Zenon
  <2>6. PICK s \in InOrder(chosen) :
          Admits([i \in DOMAIN s |-> [id |-> s[i], f |-> [original(s[i]) EXCEPT !.st = "queued"]]],
                 Expected(members), [i \in DOMAIN s |-> original(s[i])], "prepare", ids)
    BY <2>1, Zenon
  <2>7. /\ s \in Seq(Run) /\ DOMAIN s = 1..Len(s) /\ Len(s) \in Nat
        /\ \A i \in DOMAIN s : s[i] \in chosen
        /\ \A i, j \in DOMAIN s : s[i] = s[j] => i = j
        /\ 1 \in DOMAIN s
    <3>1. chosen \in SUBSET Run BY <2>2, Zenon
    <3>2. TypeOK /\ chosen # {} /\ s \in InOrder(chosen) BY <2>1, <2>6, Zenon DEF IInv
    <3> HIDE DEF chosen
    <3> QED BY <3>1, <3>2, InOrderFacts, Zenon
  <2>8. ASSUME NEW r \in chosen
        PROVE  /\ original(r) \in File /\ original(r).st = files[r].st /\ original(r).it = files[r].it
               /\ original(r).total = Total(a) /\ original(r).prev = files[r].prev
               /\ original(r).started = files[r].started
    <3>1. files[r] \in File /\ Total(r) = Total(a) BY <2>2, <2>5, Zenon DEF IInv, TypeOK
    <3>2. PICK g \in File : g = files[r] BY <3>1, Zenon
    <3>3. PICK x \in 0..MaxTotal : x = Total(a) BY <2>3, Zenon
    <3>4. PICK h : h = [g EXCEPT !.total = x] BY Zenon
    <3>5. /\ h \in File /\ h.st = g.st /\ h.it = g.it /\ h.total = x /\ h.prev = g.prev /\ h.started = g.started
      BY <3>4, Zenon DEF File
    <3>6. original(r) = h BY <3>1, <3>2, <3>3, <3>4, Zenon
    <3> HIDE DEF original
    <3> QED BY <3>2, <3>3, <3>5, <3>6, Zenon
  <2> DEFINE pend == [i \in DOMAIN s |-> [id |-> s[i], f |-> [original(s[i]) EXCEPT !.st = "queued"]]]
             before == [i \in DOMAIN s |-> original(s[i])]
  <2>9. /\ DOMAIN pend = DOMAIN s /\ DOMAIN before = DOMAIN s
        /\ \A i \in DOMAIN s : /\ pend[i] = [id |-> s[i], f |-> [original(s[i]) EXCEPT !.st = "queued"]]
                               /\ before[i] = original(s[i])
        /\ pend = [i \in DOMAIN s |-> pend[i]] /\ before = [i \in DOMAIN s |-> before[i]]
    BY Zenon
  <2>10. Admits(pend, Total(a), before, "prepare", ids) BY <2>2, <2>6, Zenon
  <2> HIDE DEF pend, before, original, chosen, attempted
  <2>11. ASSUME NEW i \in DOMAIN s
         PROVE  /\ pend[i] \in Plan /\ pend[i].id = s[i] /\ pend[i].f.st = "queued"
                /\ pend[i].f.it = files[s[i]].it /\ pend[i].f.total = Total(a)
                /\ pend[i].f.prev = files[s[i]].prev /\ ~pend[i].f.started
                /\ before[i] \in File /\ before[i].st \in {"queued", "running", "canceled"}
                /\ ~before[i].started /\ before[i].total = Total(a) /\ before[i].prev = files[s[i]].prev
    <3>1. PICK r \in chosen : r = s[i] BY <2>7, Zenon
    <3>2. PICK g : g = original(r) BY Zenon
    <3>3. PICK h : h = [g EXCEPT !.st = "queued"] BY Zenon
    <3>4. /\ g \in File /\ g.st = files[r].st /\ g.it = files[r].it /\ g.total = Total(a)
          /\ g.prev = files[r].prev /\ g.started = files[r].started
      BY <2>8, <3>2, Zenon
    <3>5. /\ h \in File /\ h.st = "queued" /\ h.it = g.it /\ h.total = g.total
          /\ h.prev = g.prev /\ h.started = g.started
      BY <3>3, <3>4, FileEnds DEF States
    <3>6. pend[i] = [id |-> r, f |-> h] /\ before[i] = g BY <2>9, <3>1, <3>2, <3>3, Zenon
    <3>7. pend[i] \in Plan /\ pend[i].id = r /\ pend[i].f = h BY <2>5, <3>5, <3>6 DEF Plan
    <3> QED BY <2>5, <3>1, <3>4, <3>5, <3>6, <3>7
  <2>12. /\ pend \in Seq(Plan) /\ before \in Seq(File) /\ Len(pend) = Len(before)
         /\ pend # <<>> /\ before # <<>>
    <3>1. PICK n \in Nat : n = Len(s) BY <2>7, Zenon
    <3>2. DOMAIN s = 1..n BY <2>7, <3>1, Zenon
    <3>3. pend \in [1..n -> Plan] /\ before \in [1..n -> File] BY <2>9, <2>11, <3>2, Zenon
    <3>4. /\ pend \in Seq(Plan) /\ before \in Seq(File) /\ Len(pend) = n /\ Len(before) = n
      BY <3>3, SeqIntro, Zenon
    <3> QED BY <2>7, <2>9, <3>4, SeqFacts
  <2>13. /\ op' \in Operation /\ op'.pc = "prepare" /\ op'.kind = op.kind /\ op'.pend = pend
         /\ op'.total = Total(a) /\ op'.before = before /\ op'.i = 1 /\ ids' = ids
    <3>1. TypeOK BY Zenon DEF IInv
    <3> QED BY <2>3, <2>10, <2>12, <3>1, AdmitsOp, Zenon
  <2>14. Shown' = Shown /\ fence' = fence /\ committed' = committed /\ batch' = batch /\ files' = files
         /\ sched' = sched /\ legacy' = legacy
    BY <1>1, Zenon DEF Shown, disk, history
  <2>15. /\ \A i \in DOMAIN s : s[i] \in Shown /\ s[i] \notin batch.retired
         /\ Planned' = {s[i] : i \in DOMAIN s}
    <3>1. \A i \in DOMAIN s : s[i] \in Shown /\ s[i] \notin batch.retired BY <2>2, <2>5, <2>7, Zenon
    <3>2. DOMAIN pend = DOMAIN s /\ \A i \in DOMAIN s : pend[i].id = s[i] BY <2>9, <2>11, Zenon
    <3>3. Planned' = {pend[i].id : i \in DOMAIN pend} BY <2>13, Zenon DEF Planned
    <3> QED BY <3>1, <3>2, <3>3
  <2>16. Planned' \subseteq 1..ids' /\ ids' \in Run /\ ids <= ids'
    BY <2>13, <2>15 DEF IInv, TypeOK, Drawn, Shown, Run
  <2>17. PlanOK'
    <3>1. \A i \in DOMAIN s : files[s[i]].prev \subseteq Shown /\ files[s[i]].it \in Iteration
      BY <2>2, <2>5, <2>7, Zenon DEF IInv, FilesOK
    <3>2. \A i, j \in DOMAIN pend : pend[i].id = pend[j].id => i = j BY <2>7, <2>9, <2>11
    <3>3. \A i \in DOMAIN pend :
            /\ pend[i].f.it \in Iteration /\ pend[i].f.st = "queued" /\ pend[i].f.total = Total(a)
            /\ ~pend[i].f.started /\ pend[i].f.prev \subseteq Shown
      BY <2>9, <2>11, <3>1, Zenon
    <3>4. sched = <<>> /\ Total(a) >= 1 /\ pend # <<>> BY <2>2, <2>3, <2>12, Zenon
    <3> QED BY <2>13, <2>14, <3>2, <3>3, <3>4, Zenon DEF PlanOK
  <2>18. AdmitOK'
    <3>1. ASSUME NEW i \in DOMAIN s PROVE ReusedPlan(op.pend[i], op.before[i])'
      <4>1. s[i] \in chosen BY <2>7, Zenon
      <4>2. Alive(s[i]) /\ ~files[s[i]].started /\ files[s[i]].total = Total(a) /\ (legacy \/ s[i] # 1)
        BY <2>5, <4>1, Zenon
      <4>3. Alive(s[i])' /\ (legacy' \/ s[i] # 1) BY <2>14, <4>2, Zenon DEF Alive, Exists
      <4>4. /\ op'.pend[i].id = s[i] /\ op'.pend[i].f.prev = files[s[i]].prev
            /\ op'.before[i].st \in {"queued", "running", "canceled"} /\ ~op'.before[i].started
            /\ op'.before[i].total = op'.total /\ op'.before[i].prev = files[s[i]].prev
            /\ op'.total = Total(a)
        BY <2>11, <2>13, Zenon
      <4>5. s[i] \in Shown' \ batch'.retired BY <2>14, <2>15, Zenon
      <4> QED BY <2>14, <4>2, <4>3, <4>4, <4>5, Zenon DEF ReusedPlan
    <3>2. \A r \in Run : Alive(r)' => /\ files[r].total <= Total(a)
                                      /\ files[r].started \/ r \in batch.retired \/ files[r].total = Total(a)
      BY <2>3, <2>14, Zenon DEF Alive, Exists
    <3>3. (\A i \in DOMAIN op.pend : ReusedPlan(op.pend[i], op.before[i]))' BY <2>9, <2>13, <3>1, Zenon
    <3> QED BY <1>1, <2>3, <2>12, <2>13, <2>14, <3>2, <3>3 DEF AdmitOK, Settled
  <2> QED BY <1>1, <2>2, <2>13, <2>16, <2>17, <2>18, AdmitsInv, Zenon
<1> QED BY <1>2, <1>3

\* RetryScenarioBatch.
LEMMA RetryCheckInv ==
  ASSUME IInv, NEW named \in BOOLEAN, RetryCheck(named)
  PROVE  IInv'
<1>1. op.pc = "check" /\ op.kind = "retry" /\ UNCHANGED <<disk, live, sched, faults, stops, history>>
  BY Zenon DEF RetryCheck
<1>2. CASE Refused BY <1>1, <1>2, RefusedInv, Zenon
<1>3. CASE ~Refused
  <2> DEFINE members == CurrentBatchMembers
             state(r) == IF named /\ live[r] # "none" THEN live[r] ELSE State(r)
             chosen == {r \in members : state(r) # "completed"}
             again(r) == Queued(files[r].it, Total(r), files[r].prev \cup {r})
  <2>1. /\ Resumable(members, 1) /\ chosen # {}
        /\ \E s \in InOrder(chosen) :
             ~(ids + Len(s) > MaxRuns) /\ Admits([i \in DOMAIN s |-> [id |-> ids + i, f |-> again(s[i])]],
                    Expected(members), <<>>, "prepare", ids + Len(s))
    BY <1>3, Zenon DEF RetryCheck
  <2>2. PICK a \in members :
          /\ Expected(members) = Total(a) /\ sched = <<>> /\ members \subseteq Run
          /\ \A r \in members :
               /\ Total(r) = Total(a) /\ files[r].it \in Iteration /\ files[r].it \in Nat
               /\ Alive(r) /\ r \in Shown \ batch.retired
    BY <1>1, <2>1, ResumableFacts, Zenon
  <2>3. /\ Total(a) \in 1..MaxTotal /\ Total(a) \in Nat /\ Total(a) \in 0..MaxTotal /\ Total(a) >= 1
        /\ committed # {}
        /\ \A r \in Run : Alive(r) =>
             /\ files[r].total <= Total(a)
             /\ files[r].total = Total(a) \/ r \in batch.retired \/ files[r].started
    <3>1. /\ Total(a) \in 1..MaxTotal /\ committed # {}
          /\ \A r \in Run : Alive(r) =>
               /\ files[r].total <= Total(a)
               /\ r \in members => files[r].started \/ files[r].total = Total(a)
               /\ r \in members \/ r \in batch.retired \/ files[r].started
      BY <1>1, GroupFacts, Zenon
    <3> QED BY <3>1, BatchConstants
  <2>4. chosen \in SUBSET Run /\ \A r \in chosen : r \in members BY <2>2, Zenon
  <2>5. PICK s \in InOrder(chosen) :
          ~(ids + Len(s) > MaxRuns) /\ Admits([i \in DOMAIN s |-> [id |-> ids + i, f |-> again(s[i])]],
                 Expected(members), <<>>, "prepare", ids + Len(s))
    BY <2>1, Zenon
  <2> HIDE DEF chosen
  <2>6. /\ s \in Seq(Run) /\ DOMAIN s = 1..Len(s) /\ Len(s) \in Nat
        /\ \A i \in DOMAIN s : s[i] \in chosen
        /\ 1 \in DOMAIN s
    <3>1. TypeOK /\ chosen # {} /\ chosen \in SUBSET Run /\ s \in InOrder(chosen)
      BY <2>1, <2>4, <2>5, Zenon DEF IInv
    <3> QED BY <3>1, InOrderFacts, Zenon
  <2>7. PICK n \in Nat : n = Len(s) BY <2>6, Zenon
  <2>8. /\ DOMAIN s = 1..n /\ n >= 1 /\ ids + n <= MaxRuns /\ ids \in Nat /\ ids >= 1 /\ MaxRuns \in Nat
        /\ ids + n \in Run /\ TypeOK /\ fence \cup Shown \subseteq 1..ids
    <3>2. ids \in Nat /\ ids >= 1 /\ MaxRuns \in Nat BY BatchConstants DEF IInv, TypeOK, Run
    <3>1. DOMAIN s = 1..n /\ n >= 1 /\ ids + n <= MaxRuns BY <2>5, <2>6, <2>7, <3>2
    <3>3. ids + n \in Run BY <3>1, <3>2 DEF Run
    <3> QED BY <3>1, <3>2, <3>3, Zenon DEF IInv, Drawn, Shown
  <2> DEFINE pend == [i \in DOMAIN s |-> [id |-> ids + i, f |-> again(s[i])]]
  <2>9. /\ DOMAIN pend = DOMAIN s /\ pend = [i \in DOMAIN s |-> pend[i]]
        /\ \A i \in DOMAIN s : pend[i] = [id |-> ids + i, f |-> again(s[i])]
    BY Zenon
  <2>10. Admits(pend, Total(a), <<>>, "prepare", ids + n) BY <2>2, <2>5, <2>6, <2>7, Zenon
  <2> HIDE DEF pend
  <2>11. ASSUME NEW i \in DOMAIN s
         PROVE  /\ pend[i] \in Plan /\ pend[i].id = ids + i /\ pend[i].f.st = "queued"
                /\ pend[i].f.it \in Iteration /\ pend[i].f.total = Total(a)
                /\ pend[i].f.prev \subseteq Shown /\ ~pend[i].f.started
    <3>1. PICK r \in members : r = s[i] BY <2>4, <2>6, Zenon
    <3>2. /\ r \in Run /\ Total(r) = Total(a) /\ files[r].it \in Iteration /\ r \in Shown
          /\ files[r].prev \subseteq Shown /\ files[r].it \in 0..MaxTotal /\ Shown \subseteq Run
      BY <2>2, Zenon DEF IInv, FilesOK, TypeOK, File, Shown
    <3>3. PICK f : f = Queued(files[r].it, Total(a), files[r].prev \cup {r}) BY Zenon
    <3>4. /\ f \in File /\ f.st = "queued" /\ f.it = files[r].it /\ f.total = Total(a)
          /\ f.prev = files[r].prev \cup {r} /\ ~f.started
      <4>1. files[r].prev \cup {r} \in SUBSET Run BY <3>2, Zenon
      <4> QED BY <2>3, <3>2, <3>3, <4>1, QueuedType
    <3>5. again(s[i]) = f BY <3>1, <3>2, <3>3, Zenon
    <3>6. ids + i \in Run BY <2>8 DEF Run
    <3>7. pend[i] = [id |-> ids + i, f |-> f] BY <2>9, <3>5, Zenon
    <3>8. pend[i] \in Plan /\ pend[i].id = ids + i /\ pend[i].f = f BY <3>4, <3>6, <3>7 DEF Plan
    <3> QED BY <3>2, <3>4, <3>8, Zenon
  <2>12. pend \in Seq(Plan) /\ pend # <<>> /\ <<>> \in Seq(File)
    <3>1. pend \in [1..n -> Plan] BY <2>8, <2>9, <2>11, Zenon
    <3>2. pend \in Seq(Plan) BY <3>1, SeqIntro, Zenon
    <3> QED BY <2>6, <2>9, <3>2, SeqFacts
  <2>13. /\ op' \in Operation /\ op'.pc = "prepare" /\ op'.kind = op.kind /\ op'.pend = pend
         /\ op'.total = Total(a) /\ op'.before = <<>> /\ op'.i = 1 /\ ids' = ids + n
    BY <2>3, <2>8, <2>10, <2>12, AdmitsOp, Zenon
  <2>14. Shown' = Shown /\ fence' = fence /\ committed' = committed /\ batch' = batch /\ files' = files
         /\ sched' = sched
    BY <1>1, Zenon DEF Shown, disk, history
  <2>15. \A i \in DOMAIN pend : pend[i].id \in 1..ids' /\ pend[i].id \notin fence \cup Shown
    BY <2>8, <2>9, <2>11, <2>13
  <2>16. Planned' \subseteq 1..ids' /\ Planned' \cap (Shown' \cup fence') = {} /\ ids' \in Run /\ ids <= ids'
    <3>1. ids' \in Run /\ ids <= ids' BY <2>8, <2>13
    <3> QED BY <2>13, <2>14, <2>15, <3>1, Zenon DEF Planned
  <2>17. PlanOK'
    <3>1. \A i, j \in DOMAIN pend : pend[i].id = pend[j].id => i = j BY <2>8, <2>9, <2>11
    <3>2. \A i \in DOMAIN pend :
            /\ pend[i].f.it \in Iteration /\ pend[i].f.st = "queued" /\ pend[i].f.total = Total(a)
            /\ ~pend[i].f.started /\ pend[i].f.prev \subseteq Shown
      BY <2>9, <2>11, Zenon
    <3>3. sched = <<>> /\ Total(a) >= 1 /\ pend # <<>> BY <2>2, <2>3, <2>12, Zenon
    <3> QED BY <2>13, <2>14, <3>1, <3>2, <3>3, Zenon DEF PlanOK
  <2>18. AdmitOK'
    <3>1. \A r \in Run : Alive(r)' => /\ files[r].total <= Total(a)
                                      /\ files[r].started \/ r \in batch.retired \/ files[r].total = Total(a)
      BY <2>3, <2>14, Zenon DEF Alive, Exists
    <3> QED BY <1>1, <2>3, <2>13, <2>14, <2>16, <3>1, Zenon DEF AdmitOK, Settled
  <2> QED BY <1>1, <2>2, <2>13, <2>16, <2>17, <2>18, AdmitsInv
<1> QED BY <1>2, <1>3, Zenon

\* A fresh group, or one that an earlier version of the Controller left.
LEMMA InitInv ==
  ASSUME Init
  PROVE  IInv
<1>0. /\ NoFile \in File /\ NoFile.st = "none" /\ NoFile.prev = {} BY NoFileType, Zenon DEF NoFile
<1>1. /\ fence = {} /\ batch = NoBatch /\ op = NoOp /\ sched = <<>> /\ exposed = {} /\ enqueued = 0
      /\ live = [r \in Run |-> "none"] /\ legacy \in BOOLEAN
      /\ legacy => files = LegacyFiles /\ ids = 2 /\ committed = {1, 2}
      /\ ~legacy => files = [r \in Run |-> NoFile] /\ ids = 1 /\ committed = {}
  BY Zenon DEF Init
<1>2. Pending(batch) = {} /\ Planned = {} BY <1>1, NoBatchType, NoOpType DEF Pending, Listed, Planned
<1>3. ASSUME legacy, NEW r \in Run
      PROVE  /\ files[r] \in File
             /\ r > 2 => files[r] = NoFile
             /\ r <= 2 => /\ files[r].st \in {"failed", "completed"} /\ files[r].total = 1
                          /\ files[r].prev \subseteq {1} /\ files[r].started
  <2>1. files[r] = IF r > 2 THEN NoFile
                   ELSE [st |-> IF r = 1 THEN "failed" ELSE "completed", it |-> 1, total |-> 1,
                         prev |-> IF r = 1 THEN {} ELSE {1}, started |-> TRUE]
    BY <1>1, <1>3, Zenon DEF LegacyFiles
  <2>2. CASE r > 2 BY <1>0, <2>1, <2>2 DEF Run
  <2>3. CASE ~(r > 2)
    <3>1. PICK x \in {"failed", "completed"} : x = IF r = 1 THEN "failed" ELSE "completed" BY Zenon
    <3>2. PICK y \in SUBSET {1} : y = IF r = 1 THEN {} ELSE {1} BY Zenon
    <3>3. files[r] = [st |-> x, it |-> 1, total |-> 1, prev |-> y, started |-> TRUE]
      BY <2>1, <2>3, <3>1, <3>2, Zenon
    <3>4. x \in States /\ 1 \in 0..MaxTotal /\ y \in SUBSET Run /\ TRUE \in BOOLEAN
      BY Constants, BatchConstants DEF States
    <3>5. files[r] \in File BY <3>3, <3>4 DEF File
    <3> QED BY <2>3, <3>3, <3>5 DEF Run
  <2> QED BY <2>2, <2>3, Zenon
<1>4. ASSUME NEW r \in Run
      PROVE  /\ files[r] \in File
             /\ Exists(r) => legacy /\ r \in {1, 2}
  <2>1. CASE legacy
    <3>1. r \in {1, 2} \/ r > 2 BY Constants DEF Run
    <3> QED BY <1>0, <1>3, <2>1, <3>1, Zenon DEF Exists
  <2>2. CASE ~legacy BY <1>0, <1>1, <2>2, Zenon DEF Exists
  <2> QED BY <2>1, <2>2, Zenon
<1>5. files \in [Run -> File]
  <2>1. DOMAIN files = Run /\ files = [r \in Run |-> files[r]] BY <1>1, Zenon DEF LegacyFiles
  <2> QED BY <1>4, <2>1, Zenon
<1>6. TypeOK BY <1>1, <1>5, Constants, NoBatchType, NoOpType DEF TypeOK, States
<1>7. Drawn BY <1>1, <1>2 DEF Drawn
<1>8. ASSUME NEW r \in Run, Exists(r)
      PROVE  r \in committed /\ legacy /\ files[r].started /\ files[r].total = 1
  <2>1. legacy /\ r \in {1, 2} BY <1>4, <1>8, Zenon
  <2>2. r <= 2 BY <2>1
  <2> QED BY <1>1, <1>3, <2>1, <2>2, Zenon
<1>9. FilesOK
  <2>1. ASSUME NEW r \in Run PROVE files[r].st = "completed" => files[r].started BY <1>8, Zenon DEF Exists
  <2>2. ASSUME NEW r \in Run PROVE files[r].prev \subseteq Shown
    <3>1. CASE legacy BY <1>0, <1>1, <1>3, <3>1 DEF Shown, Run
    <3>2. CASE ~legacy BY <1>0, <1>1, <3>2, Zenon
    <3> QED BY <3>1, <3>2, Zenon
  <2> QED BY <1>8, <2>1, <2>2 DEF FilesOK
<1>10. RecordOK BY <1>1, <1>2, NoBatchType, Zenon DEF RecordOK
<1>11. TotalsOK BY <1>1, <1>8, Zenon DEF TotalsOK, Loose, Alive
<1>12. AncestryOK BY <1>8, Zenon DEF AncestryOK, Alive
<1>13. FirstOK
  <2>1. ASSUME legacy PROVE Exists(1)
    <3>1. 1 <= 2 OBVIOUS
    <3>2. files[1].st \in {"failed", "completed"} BY <1>3, <2>1, <3>1, Constants, Zenon
    <3> QED BY <3>2 DEF Exists
  <2> QED BY <1>1, <2>1, Zenon DEF FirstOK
<1>14. HistoryOK BY <1>1, <1>8 DEF HistoryOK, Loose, Alive, Shown
<1>15. PlanOK /\ AdmitOK /\ StepOK /\ DeleteOK BY <1>1, NoOpType, Zenon DEF PlanOK, AdmitOK, StepOK, DeleteOK
<1>16. SchedOK BY <1>1, Zenon DEF SchedOK
<1> QED BY <1>6, <1>7, <1>9, <1>10, <1>11, <1>12, <1>13, <1>14, <1>15, <1>16 DEF IInv

\* A step that changes nothing.
LEMMA StutterInv ==
  ASSUME IInv, UNCHANGED vars
  PROVE  IInv'
<1> USE DEF vars, disk, memory, history
<1>1. TypeOK' BY Zenon DEF IInv, TypeOK
<1>2. Drawn' BY Zenon DEF IInv, Drawn, Planned, Pending
<1>3. Disk' BY Quiet, Zenon DEF IInv, Disk, saved
<1>4. HistoryOK' BY Zenon DEF IInv, HistoryOK, Loose, Alive, Exists, Pending, Shown
<1>5. PlanOK'
  <2>1. PlanOK BY Zenon DEF IInv
  <2> QED BY <2>1, Zenon DEF PlanOK, Shown
<1>6. AdmitOK' BY DEF IInv, AdmitOK, Planned, Shown, Alive, Exists, Settled, ReusedPlan
<1>7. CurrentBatchMembers' = CurrentBatchMembers
  BY Zenon DEF CurrentBatchMembers, AllBatchMembers, Readable, Exists, Pending
<1>8. StepOK' BY <1>7, Zenon DEF IInv, StepOK, Exists
<1>9. DeleteOK' BY Zenon DEF IInv, DeleteOK, Loose, Alive, Exists, Pending
<1>10. SchedOK' BY Zenon DEF IInv, SchedOK, Exists
<1> QED BY <1>1, <1>2, <1>3, <1>4, <1>5, <1>6, <1>8, <1>9, <1>10 DEF IInv, Disk

\* Every step of the Controller keeps the invariant.
LEMMA StepInv ==
  ASSUME IInv, [Next]_vars
  PROVE  IInv'
<1>1. ASSUME NEW kind \in {"submit", "append", "resume", "retry"}, Begin(kind) PROVE IInv' BY <1>1, BeginInv, Zenon
<1>2. CASE FirstRollback \/ Rollback \/ StartupBatches BY <1>2, RollbacksInv, Zenon
<1>3. CASE SubmitCheck BY <1>3, SubmitCheckInv, Zenon
<1>4. CASE AppendCheck BY <1>4, AppendCheckInv, Zenon
<1>5. CASE ResumeCheck BY <1>5, ResumeCheckInv, Zenon
<1>6. ASSUME NEW named \in BOOLEAN, RetryCheck(named) PROVE IInv' BY <1>6, RetryCheckInv, Zenon
<1>7. CASE SettleIntent \/ SaveIntent \/ SaveMember BY <1>7, IntentsInv, Zenon
<1>8. CASE Prepare BY <1>8, PrepareInv, Zenon
<1>9. CASE Reserve BY <1>9, ReserveInv, Zenon
<1>10. CASE Failed \/ Unlist \/ MoveBatch \/ StartupLibrary \/ SyncFails BY <1>10, AnswersInv, Zenon
<1>11. CASE Commit BY <1>11, CommitInv, Zenon
<1>12. CASE Enqueue BY <1>12, EnqueueInv, Zenon
<1>13. CASE StartRun BY <1>13, StartRunInv, Zenon
<1>14. CASE CancelBatch BY <1>14, CancelInv, Zenon
<1>15. CASE ReleaseBatch BY <1>15, ReleaseInv, Zenon
<1>16. ASSUME NEW st \in {"completed", "failed", "canceled"}, FinishRun(st) PROVE IInv' BY <1>16, FinishInv, Zenon
<1>17. CASE DeleteBatch \/ \E r \in Run : DeleteResult(r) BY <1>17, DeletesInv, Zenon
<1>18. CASE RetainStep BY <1>18, RetainInv, Zenon
<1>19. CASE FenceStep BY <1>19, FenceInv, Zenon
<1>20. CASE RemoveStep BY <1>20, RemoveInv, Zenon
<1>21. CASE RemoveGroup BY <1>21, RemoveGroupInv, Zenon
<1>22. CASE Stop BY <1>22, StopInv, Zenon
<1>23. CASE UNCHANGED vars BY <1>23, StutterInv, Zenon
<1> QED BY <1>1, <1>2, <1>3, <1>4, <1>5, <1>6, <1>7, <1>8, <1>9, <1>10, <1>11, <1>12, <1>13, <1>14, <1>15,
           <1>16, <1>17, <1>18, <1>19, <1>20, <1>21, <1>22, <1>23, Zenon DEF Next

\* The inductive invariant of batch admission: over failed writes, failed rollbacks,
\* deletions and restarts, the files, the record and the operation in progress agree
\* (commitBatchAdmissionLocked and everything it calls).
THEOREM Invariance == Spec => []IInv
  BY InitInv, StepInv, PTL DEF Spec

\* A submission key starts its runs at most once, over retries of the request,
\* failed writes, restarts and the deletion of the results: for every number of runs,
\* iterations, failures and restarts.
THEOREM SubmissionStartsOnce == Spec => []SubmittedOnce
<1>1. IInv => SubmittedOnce BY Zenon DEF IInv, HistoryOK, SubmittedOnce
<1> QED BY <1>1, Invariance, PTL
-----------------------------------------------------------------------------
\* The members of the group, given the invariant; where an operation has asked for
\* runs; and a step of the abstract specification.
Seen == {r \in Run : Alive(r) /\ (r \notin Pending(batch) \/ batch.before # <<>>)}
Asking == {"prepare", "reserve", "rollback"}
Abstract == [Group!Next]_(Group!vars)

\* The members of the refinement mapping, without the checks the invariant makes
\* redundant.
LEMMA MembersSeen ==
  ASSUME IInv
  PROVE  Members = Seen
<1>1. \A r \in Run : Readable(r) <=> Loose(r) BY ReadableRuns, Zenon
<1> QED BY <1>1, Zenon DEF Members, Seen, Loose, Alive

\* The same after a step.
LEMMA MembersSeenNext == (IInv => Members = Seen)'
  BY MembersSeen, PTL

\* The refinement mapping before and after a step.
LEMMA AskedSeen ==
  ASSUME IInv, IInv'
  PROVE  /\ Members = Seen /\ Members' = Seen'
         /\ op.pc \in Asking => Asked = Planned \ Seen
         /\ op.pc \notin Asking => Asked = {}
         /\ op'.pc \in Asking => Asked' = Planned' \ Seen'
         /\ op'.pc \notin Asking => Asked' = {}
<1>1. Members = Seen /\ Members' = Seen' BY MembersSeen, MembersSeenNext, Zenon
<1> QED BY <1>1, Zenon DEF Asked, Asking, Planned

\* A step that changes no member and no fence abandons, begins or keeps what is
\* asked for.
LEMMA SameMembers ==
  ASSUME IInv, IInv', Seen' = Seen, UNCHANGED fence,
         \/ op'.pc \notin Asking
         \/ op'.pc = "prepare" /\ op.pc \notin Asking
         \/ op'.pc \in Asking /\ op.pc \in Asking /\ op'.pend = op.pend
  PROVE  Abstract
<1>1. /\ Members = Seen /\ Members' = Seen'
      /\ op.pc \in Asking => Asked = Planned \ Seen
      /\ op.pc \notin Asking => Asked = {}
      /\ op'.pc \in Asking => Asked' = Planned' \ Seen'
      /\ op'.pc \notin Asking => Asked' = {}
  BY AskedSeen, Zenon
<1>2. CASE op'.pc \notin Asking BY <1>1, <1>2, Zenon DEF Abstract, Group!Next, Group!Abandon
<1>3. CASE op'.pc \in Asking /\ op.pc \in Asking /\ op'.pend = op.pend
  BY <1>1, <1>3, Zenon DEF Abstract, Group!vars, Planned
<1>4. CASE op'.pc = "prepare" /\ op.pc \notin Asking
  <2>1. /\ Asked = {} /\ Asked' = Planned' \ Seen BY <1>1, <1>4, Zenon DEF Asking
  <2>2. Planned' \subseteq Run
    <3>1. TypeOK' BY Zenon DEF IInv
    <3>2. Drawn' /\ ids' \in Run BY <3>1, Zenon DEF IInv, TypeOK
    <3> QED BY <3>2, Constants DEF Drawn, Run
  <2>3. Planned' \cap fence = {}
    <3>1. op'.before = <<>> => Planned' \cap fence' = {} BY <1>4, Zenon DEF IInv, AdmitOK
    <3>2. op'.before # <<>> => \A i \in DOMAIN op'.pend : op'.pend[i].id \notin fence'
      BY <1>4, Zenon DEF IInv, AdmitOK, ReusedPlan, Alive
    <3> QED BY <3>1, <3>2, Zenon DEF Planned
  <2>4. Asked' \in SUBSET Run /\ Asked' \cap (Members \cup fence) = {} BY <1>1, <2>1, <2>2, <2>3, Zenon
  <2>5. Group!Ask(Asked') BY <1>1, <2>1, <2>4, Zenon DEF Group!Ask
  <2> QED BY <2>4, <2>5, Zenon DEF Abstract, Group!Next
<1> QED BY <1>2, <1>3, <1>4, Zenon

\* Members depend only on what is saved.
LEMMA SavedSeen ==
  ASSUME UNCHANGED saved
  PROVE  Seen' = Seen /\ UNCHANGED fence
  BY Zenon DEF saved, Seen, Alive, Exists, Pending

\* The steps that write nothing of the group.
LEMMA QuietMaps ==
  ASSUME IInv, IInv',
         \/ \E kind \in {"submit", "append", "resume", "retry"} : Begin(kind)
         \/ SubmitCheck \/ AppendCheck \/ ResumeCheck \/ \E named \in BOOLEAN : RetryCheck(named)
         \/ SettleIntent \/ SaveIntent \/ SaveMember \/ SyncFails \/ Failed \/ Enqueue
         \/ ReleaseBatch \/ DeleteBatch \/ (\E r \in Run : DeleteResult(r)) \/ Unlist \/ MoveBatch
         \/ Stop \/ StartupLibrary \/ UNCHANGED vars
  PROVE  Abstract
<1>0. op \in Operation /\ NoOp.pc = "idle" BY NoOpType, Zenon DEF IInv, TypeOK
<1>1. ASSUME UNCHANGED saved, \/ op'.pc \notin Asking
                              \/ op'.pc = "prepare" /\ op.pc \notin Asking
                              \/ op'.pc \in Asking /\ op.pc \in Asking /\ op'.pend = op.pend
      PROVE  Abstract
  BY <1>1, SavedSeen, SameMembers, Zenon
<1>2. ASSUME NEW x \in Pcs, op' = [op EXCEPT !.pc = x] PROVE op'.pc = x /\ op'.pend = op.pend
  BY <1>0, <1>2, PcStep
<1>3. ASSUME NEW pend, NEW total, NEW before, NEW x, NEW last, Admits(pend, total, before, x, last)
      PROVE  op'.pc = x
  BY <1>0, <1>3, Zenon DEF Admits, Operation
<1>4. ASSUME NEW kind \in {"submit", "append", "resume", "retry"}, Begin(kind) PROVE Abstract
  <2>1. op'.pc \in {"idle", "rollback0"} BY <1>4, Zenon DEF Begin, NoOp
  <2> QED BY <1>1, <1>4, <2>1, Zenon DEF Asking, Begin, saved, history
<1>5. CASE SubmitCheck
  <2>1. op'.pc \in {"idle", "intent"} BY <1>0, <1>3, <1>5, Zenon DEF SubmitCheck, Refused
  <2> QED BY <1>1, <1>5, <2>1, Zenon DEF Asking, SubmitCheck, saved, disk, history
<1>6. CASE AppendCheck
  <2>1. op.pc = "check" /\ op'.pc \in {"idle", "prepare"} BY <1>0, <1>3, <1>6, Zenon DEF AppendCheck, Refused
  <2>2. UNCHANGED <<disk, history>> BY <1>6, Zenon DEF AppendCheck
  <2> QED BY <1>1, <2>1, <2>2, Zenon DEF Asking, saved, disk, history
<1>7. CASE ResumeCheck
  <2>1. op.pc = "check" /\ op'.pc \in {"idle", "prepare"} BY <1>0, <1>3, <1>7, Zenon DEF ResumeCheck, Refused
  <2>2. UNCHANGED <<disk, history>> BY <1>7, Zenon DEF ResumeCheck
  <2> QED BY <1>1, <2>1, <2>2 DEF Asking, saved, disk, history
<1>8. ASSUME NEW named \in BOOLEAN, RetryCheck(named) PROVE Abstract
  <2>1. op.pc = "check" /\ op'.pc \in {"idle", "prepare"} BY <1>0, <1>3, <1>8, Zenon DEF RetryCheck, Refused
  <2>2. UNCHANGED <<disk, history>> BY <1>8, Zenon DEF RetryCheck
  <2> QED BY <1>1, <2>1, <2>2, Zenon DEF Asking, saved, disk, history
<1>9. CASE SettleIntent \/ SaveIntent \/ SaveMember
  <2>1. op.pc \in {"intent", "member"} BY <1>9, Zenon DEF SettleIntent, SaveIntent, SaveMember
  <2>2. op'.pc \in {op.pc, "idle", "prepare", "member", "failed"}
    BY <1>0, <1>2, <1>9, Zenon DEF SettleIntent, SaveIntent, SaveMember, Pcs, Calm
  <2> QED BY <1>1, <1>9, <2>1, <2>2, Zenon DEF Asking, SettleIntent, SaveIntent, SaveMember, saved, history
<1>10. CASE SyncFails
  <2>1. op.pc = "reserve" /\ op'.pc = "rollback" /\ op'.pend = op.pend
    BY <1>2, <1>10, Zenon DEF SyncFails, Pcs, Calm
  <2> QED BY <1>1, <1>10, <2>1, Zenon DEF Asking, SyncFails, saved, disk, history
<1>11. CASE Failed \/ Enqueue \/ Unlist
  <2>1. op'.pc = "idle" BY <1>0, <1>11, Zenon DEF Failed, Enqueue, Unlist
  <2> QED BY <1>1, <1>11, <2>1, Zenon DEF Asking, Failed, Enqueue, Unlist, saved, history
<1>12. CASE ReleaseBatch \/ MoveBatch
  <2>1. op'.pc = "idle" BY <1>12, Zenon DEF ReleaseBatch, MoveBatch, memory
  <2> QED BY <1>1, <1>12, <2>1, Zenon DEF Asking, ReleaseBatch, MoveBatch, saved, disk, history
<1>13. ASSUME NEW S, NEW kind, Erase(S, kind) PROVE op'.pc \in {"group", "retain"}
  <2>1. PICK s : op' = [NoOp EXCEPT !.pc = IF S = {} THEN "group" ELSE "retain", !.kind = kind, !.i = 1,
                                    !.pend = [i \in DOMAIN s |-> [id |-> s[i], f |-> NoFile]]]
    BY <1>13, Zenon DEF Erase
  <2> QED BY <2>1, Zenon DEF NoOp
<1>14. CASE DeleteBatch \/ \E r \in Run : DeleteResult(r)
  <2>1. op'.pc \in {"group", "retain"} BY <1>13, <1>14, Zenon DEF DeleteBatch, DeleteResult
  <2>2. UNCHANGED <<disk, history>> BY <1>14, Zenon DEF DeleteBatch, DeleteResult
  <2> QED BY <1>1, <2>1, <2>2, Zenon DEF Asking, saved, disk, history
<1>15. CASE Stop
  <2>1. op'.pc = "down" BY <1>15, Zenon DEF Stop, NoOp
  <2> QED BY <1>1, <1>15, <2>1, Zenon DEF Asking, Stop, saved, disk, history
<1>16. CASE StartupLibrary
  <2>1. op'.pc \in {"idle", "down"} BY <1>0, <1>2, <1>16, Zenon DEF StartupLibrary, Pcs, Calm
  <2> QED BY <1>1, <1>16, <2>1, Zenon DEF Asking, StartupLibrary, saved, history
<1>17. CASE UNCHANGED vars BY <1>1, <1>17, Zenon DEF vars, disk, memory, history, saved
<1> QED BY <1>4, <1>5, <1>6, <1>7, <1>8, <1>9, <1>10, <1>11, <1>12, <1>14, <1>15, <1>16, <1>17, Zenon

\* The progress of runs changes no membership.
LEMMA SchedulerMaps ==
  ASSUME IInv, IInv', StartRun \/ CancelBatch \/ \E st \in {"completed", "failed", "canceled"} : FinishRun(st)
  PROVE  Abstract
<1>1. /\ UNCHANGED op /\ op.pc \notin Asking
  BY Zenon DEF IInv, SchedOK, Asking, StartRun, CancelBatch, FinishRun
<1>2. Progress BY StartRunInv, CancelInv, FinishInv, Zenon
<1>3. Seen' = Seen /\ UNCHANGED fence BY <1>2, Zenon DEF Progress, Seen, Alive, Pending
<1> QED BY <1>1, <1>3, SameMembers, Zenon

\* A rollback changes no membership: new runs were hidden, and a reused run stays.
LEMMA RestoresSeen ==
  ASSUME TypeOK, RecordOK, Restores, UNCHANGED fence
  PROVE  Seen' = Seen
<1>1. /\ batch \in Record /\ Pending(batch) \subseteq Run
      /\ Pending(batch) = {batch.pending[i] : i \in DOMAIN batch.pending}
  BY SeqFacts DEF TypeOK, Record, Pending, Listed
<1>2. \/ batch' = batch
      \/ /\ batch'.pending = <<>> /\ batch'.before = <<>> /\ batch' = Cleared(batch)
         /\ batch.before = <<>> => \A r \in Pending(batch) : files'[r] = NoFile
  BY <1>1, ClearedType DEF Restores
<1>3. ASSUME NEW r \in Run, r \notin Pending(batch)
      PROVE  (Alive(r)' <=> Alive(r)) /\ r \notin Pending(batch)'
  <2>1. files'[r] = files[r] BY <1>3, Zenon DEF Restores
  <2> QED BY <1>2, <1>3, <2>1 DEF Alive, Exists, Pending, Listed
<1>4. ASSUME batch.before # <<>>, NEW r \in Pending(batch) PROVE Alive(r)' <=> Alive(r)
  <2>1. PICK i \in DOMAIN batch.pending : batch.pending[i] = r BY <1>1, Zenon
  <2>2. \A j \in DOMAIN batch.pending : Reused(batch.pending[j], batch.before[j]) BY <1>4, Zenon DEF RecordOK
  <2>3. \/ files'[r] = files[r]
        \/ \E j \in DOMAIN batch.pending : batch.pending[j] = r /\ files'[r] = batch.before[j]
    BY <1>4, <2>1, Zenon DEF Restores
  <2>4. CASE files'[r] = files[r] BY <2>4, Zenon DEF Alive, Exists
  <2>5. CASE files'[r] # files[r]
    <3>1. PICK j \in DOMAIN batch.pending : batch.pending[j] = r /\ files'[r] = batch.before[j] BY <2>3, <2>5, Zenon
    <3>2. Reused(r, batch.before[j]) BY <2>2, <3>1, Zenon
    <3> QED BY <3>1, <3>2, Zenon DEF Reused, Alive, Exists
  <2> QED BY <2>4, <2>5, Zenon
<1>5. CASE batch' = batch
  BY <1>3, <1>4, <1>5, Zenon DEF Seen, Pending
<1>6. CASE /\ batch'.pending = <<>> /\ batch'.before = <<>>
           /\ batch.before = <<>> => \A r \in Pending(batch) : files'[r] = NoFile
  <2>1. Pending(batch)' = {} BY <1>6 DEF Pending, Listed
  <2>2. NoFile.st = "none" BY Zenon DEF NoFile
  <2>3. batch.before = <<>> => \A r \in Pending(batch) : ~Alive(r)' BY <1>6, <2>2, Zenon DEF Alive, Exists
  <2> QED BY <1>1, <1>3, <1>4, <2>1, <2>3, Zenon DEF Seen
<1> QED BY <1>2, <1>5, <1>6, Zenon

\* Rollbacks, before a request, after a failure and at a start, are stutters or
\* abandon what was asked for.
LEMMA RollbackMaps ==
  ASSUME IInv, IInv', FirstRollback \/ Rollback \/ StartupBatches
  PROVE  Abstract
<1>1. /\ op \in Operation /\ TypeOK /\ RecordOK BY Zenon DEF IInv, TypeOK
<1>2. Restores /\ UNCHANGED fence
  BY <1>1, RollbackRestores, Zenon DEF FirstRollback, Rollback, StartupBatches, history
<1>3. \/ op' = NoOp
      \/ \E x \in {"check", "failed", "starting"} : op' = [op EXCEPT !.pc = x]
  BY Zenon DEF FirstRollback, Rollback, StartupBatches
<1>4. op'.pc \notin Asking
  <2>1. CASE op' = NoOp BY <2>1, NoOpType, Zenon DEF Asking
  <2>2. ASSUME NEW x \in {"check", "failed", "starting"}, op' = [op EXCEPT !.pc = x] PROVE op'.pc = x
    BY <1>1, <2>2, PcStep DEF Pcs, Calm
  <2> QED BY <1>3, <2>1, <2>2, Zenon DEF Asking
<1> QED BY <1>1, <1>2, <1>4, RestoresSeen, SameMembers, Zenon

\* The record that announces an admission shows none of its runs.
LEMMA PrepareMaps ==
  ASSUME IInv, IInv', Prepare
  PROVE  Abstract
<1>1. op.pc = "prepare" /\ op \in Operation /\ UNCHANGED <<files, fence>>
  BY Zenon DEF IInv, TypeOK, Prepare
<1>2. PICK x \in {"reserve", "failed"} : op' = [op EXCEPT !.pc = x] BY Zenon DEF Prepare
<1>3. op'.pc = x /\ op'.pend = op.pend BY <1>1, <1>2, PcStep DEF Pcs, Calm
<1>4. Pending(batch) = {} /\ \A r \in Run : Alive(r) => r \in Shown
  <2>1. TypeOK /\ RecordOK /\ StepOK /\ HistoryOK BY Zenon DEF IInv
  <2>2. batch.pending = <<>> BY <1>1, <2>1, Zenon DEF StepOK
  <2>3. Pending(batch) = {} /\ \A r \in Run : (Loose(r) <=> Alive(r)) BY <2>1, <2>2, NothingPending, Zenon
  <2> QED BY <2>1, <2>3, Zenon DEF HistoryOK
<1>5. Seen' = Seen
  <2>1. CASE batch' = batch BY <1>1, <2>1, Zenon DEF Seen, Alive, Exists, Pending
  <2>2. CASE batch' = Prepared
    <3>1. /\ batch'.before = op.before /\ batch'.pending = [i \in DOMAIN op.pend |-> op.pend[i].id]
      BY <1>1, <2>2, PreparedFacts, Zenon
    <3>2. Pending(batch') = Planned BY <3>1, PlannedPending, Zenon
    <3>3. op.before = <<>> => Planned \cap Shown = {} BY <1>1, Zenon DEF IInv, AdmitOK
    <3> QED BY <1>1, <1>4, <3>1, <3>2, <3>3, Zenon DEF Seen, Alive, Exists
  <2> QED BY <2>1, <2>2, Zenon DEF Prepare
<1> QED BY <1>1, <1>3, <1>5, SameMembers, Zenon DEF Asking

\* Writing the files of an admission, or failing to, shows none of its runs.
LEMMA ReserveMaps ==
  ASSUME IInv, IInv', Reserve
  PROVE  Abstract
<1>1. /\ op.pc = "reserve" /\ op \in Operation /\ UNCHANGED <<fence, batch>> BY Zenon DEF IInv, TypeOK, Reserve, history
<1>2. op'.pc \in {"reserve", "rollback"} /\ op'.pend = op.pend
  <2>1. CASE op' = [op EXCEPT !.i = @ + 1] BY <1>1, <2>1, Zenon DEF Operation
  <2>2. CASE op' = [op EXCEPT !.pc = "rollback"] BY <1>1, <2>2, PcStep DEF Pcs, Calm
  <2> QED BY <2>1, <2>2, Zenon DEF Reserve
<1>3. /\ batch.pending = [i \in DOMAIN op.pend |-> op.pend[i].id] /\ batch.before = op.before
      /\ op.i >= 1 /\ TypeOK /\ op.i <= Len(op.pend)
  <2>1. StepOK /\ TypeOK BY Zenon DEF IInv
  <2>2. op.i <= Len(op.pend) BY Zenon DEF Reserve
  <2> QED BY <1>1, <2>1, <2>2, Zenon DEF StepOK
<1>4. /\ Pending(batch) = Planned /\ DOMAIN op.pend = 1..Len(op.pend) /\ op.i \in DOMAIN op.pend /\ op.i \in Nat
      /\ files \in [Run -> File] /\ \A i \in DOMAIN op.pend : op.pend[i].id \in Run
  <2>1. Pending(batch) = Planned BY <1>3, PlannedPending, Zenon
  <2>2. /\ DOMAIN op.pend = 1..Len(op.pend) /\ op.i \in Nat /\ Len(op.pend) \in Nat
        /\ \A i \in DOMAIN op.pend : op.pend[i].id \in Run
    BY <1>3, OpFacts, Zenon
  <2>3. op.i \in 1..Len(op.pend) BY <1>3, <2>2
  <2>4. files \in [Run -> File] BY <1>3, Zenon DEF TypeOK
  <2> QED BY <2>1, <2>2, <2>3, <2>4, Zenon
<1>5. PICK run : run = op.pend[op.i] BY Zenon
<1>6. run.id \in Planned /\ run.id \in Run BY <1>4, <1>5, Zenon DEF Planned
<1>10. ReserveCase(run)
  <2>1. ReserveCase(op.pend[op.i]) BY ReserveCases, Zenon
  <2> QED BY <1>5, <2>1, Zenon
<1>7. op.before = <<>> => \A r \in Run : r \notin Planned => files'[r] = files[r]
  <2> HAVE op.before = <<>>
  <2>1. CASE files' = [files EXCEPT ![run.id] = run.f] BY <1>4, <1>6, <2>1, Zenon
  <2>2. CASE CleanedUp(run)
    <3>1. {op.pend[j].id : j \in 1..op.i} \subseteq Planned BY <1>4 DEF Planned
    <3> QED BY <2>2, <3>1, Zenon DEF CleanedUp
  <2> QED BY <1>10, <2>1, <2>2, Zenon DEF ReserveCase
<1>8. op.before # <<>> => \A r \in Run : Alive(r)' <=> Alive(r)
  <2> HAVE op.before # <<>>
  <2>1. files' = files \/ files' = [files EXCEPT ![run.id] = run.f] BY <1>10, Zenon DEF ReserveCase
  <2>2. Alive(run.id)
    <3>1. AdmitOK BY Zenon DEF IInv
    <3>2. ReusedPlan(run, op.before[op.i]) BY <1>1, <1>4, <1>5, <3>1, Zenon DEF AdmitOK
    <3> QED BY <3>2, Zenon DEF ReusedPlan
  <2>3. run.f.st = "queued"
    <3>1. PlanOK BY Zenon DEF IInv
    <3> QED BY <1>1, <1>4, <1>5, <3>1, Zenon DEF PlanOK
  <2> QED BY <1>1, <1>4, <1>6, <2>1, <2>2, <2>3, Zenon DEF Alive, Exists
<1>9. Seen' = Seen
  <2>1. CASE op.before = <<>> BY <1>1, <1>3, <1>4, <1>7, <2>1, Zenon DEF Seen, Alive, Exists, Pending
  <2>2. CASE op.before # <<>> BY <1>1, <1>3, <1>8, <2>2, Zenon DEF Seen
  <2> QED BY <2>1, <2>2, Zenon
<1> QED BY <1>1, <1>2, <1>9, SameMembers, Zenon DEF Asking

\* Publishing the record shows all of the admission's runs at once.
LEMMA CommitMaps ==
  ASSUME IInv, IInv', Commit
  PROVE  Abstract
<1>1. /\ op.pc = "reserve" /\ op.i > Len(op.pend) /\ op \in Operation /\ UNCHANGED <<files, fence, exposed, legacy, enqueued>>
  BY Zenon DEF IInv, TypeOK, Commit
<1>2. PICK x \in {"enqueue", "rollback", "failed"}, b \in {batch, Committed} :
        op' = [op EXCEPT !.pc = x] /\ Publish(b) /\ (b = batch /\ b # Committed => x = "rollback")
  BY Zenon DEF Commit
<1>3. op'.pc = x /\ op'.pend = op.pend BY <1>1, <1>2, PcStep DEF Pcs, Calm
<1>4. CASE b # Committed
  <2>1. Seen' = Seen BY <1>1, <1>2, <1>4, Zenon DEF Publish, Seen, Alive, Exists, Pending
  <2> QED BY <1>1, <1>2, <1>3, <1>4, <2>1, SameMembers, Zenon DEF Asking
<1>5. CASE b = Committed
  <2>1. batch' = Committed /\ committed' = committed \cup Planned BY <1>2, <1>5, Zenon DEF Publish, Planned
  <2>2. batch'.pending = <<>> /\ Pending(batch)' = {} BY <1>1, <2>1, CommittedFacts DEF Pending, Listed
  <2>3. batch.pending = [i \in DOMAIN op.pend |-> op.pend[i].id] /\ batch.before = op.before
    BY <1>1, Zenon DEF IInv, StepOK
  <2>4. Pending(batch) = Planned BY <2>3, PlannedPending, Zenon
  <2>5. ASSUME NEW r \in Planned PROVE Alive(r) /\ r \in Run
    <3>1. PICK i \in DOMAIN op.pend : r = op.pend[i].id BY Zenon DEF Planned
    <3>2. Exists(r) BY <1>1, <2>1, <3>1, CommitKeeps, Zenon
    <3>3. r \notin fence
      <4>1. AdmitOK BY Zenon DEF IInv
      <4>2. CASE op.before = <<>> BY <1>1, <4>1, <4>2, Zenon DEF AdmitOK
      <4>3. CASE op.before # <<>>
        <5>1. ReusedPlan(op.pend[i], op.before[i]) BY <1>1, <3>1, <4>1, <4>3, Zenon DEF AdmitOK
        <5> QED BY <3>1, <5>1, Zenon DEF ReusedPlan, Alive
      <4> QED BY <4>2, <4>3, Zenon
    <3>4. r \in Run BY <3>1, OpFacts, Zenon DEF IInv
    <3> QED BY <3>2, <3>3, <3>4, Zenon DEF Alive
  <2>6. Seen' = Seen \cup (Planned \ Seen)
    BY <1>1, <2>2, <2>4, <2>5, Zenon DEF Seen, Alive, Exists
  <2>7. /\ Members = Seen /\ Members' = Seen' /\ Asked = Planned \ Seen
        /\ op'.pc \in Asking => Asked' = Planned' \ Seen'
        /\ op'.pc \notin Asking => Asked' = {}
    BY <1>1, AskedSeen, Zenon DEF Asking
  <2>8. Asked' = {} BY <1>1, <1>3, <2>6, <2>7, Zenon DEF Planned
  <2>9. Group!Admit BY <1>1, <2>6, <2>7, <2>8, Zenon DEF Group!Admit
  <2> QED BY <2>9, Zenon DEF Abstract, Group!Next
<1> QED BY <1>4, <1>5, Zenon

\* A deletion removes the runs it fences, for good.
LEMMA DeleteMaps ==
  ASSUME IInv, IInv', RetainStep \/ FenceStep \/ RemoveStep
  PROVE  Abstract
<1>1. op.pc \in {"retain", "fence", "remove"}
  BY Zenon DEF RetainStep, FenceStep, RemoveStep, history
<1>2. /\ op \in Operation /\ op.i \in DOMAIN op.pend /\ op.pend[op.i].id \in Run /\ TypeOK
  BY <1>1, DeletingOp, Zenon DEF IInv
<1>3. PICK r \in Run : r = op.pend[op.i].id BY <1>2, Zenon
<1>4. CASE RetainStep
  <2>1. op'.pc \in {"fence", "idle"}
    <3>1. CASE op' = [op EXCEPT !.pc = "fence"] BY <1>2, <3>1, PcStep DEF Pcs
    <3>2. CASE op' = NoOp BY <3>2, NoOpType, Zenon
    <3> QED BY <1>4, <3>1, <3>2, Zenon DEF RetainStep
  <2>2. UNCHANGED <<files, fence>> /\ (batch' = batch \/ batch' = Retained(r))
    BY <1>3, <1>4, Zenon DEF RetainStep
  <2>3. batch'.pending = batch.pending /\ batch'.before = batch.before BY <1>2, <2>2, RetainedFacts, Zenon
  <2>4. Seen' = Seen BY <1>1, <2>2, <2>3, Zenon DEF Seen, Alive, Exists, Pending
  <2> QED BY <1>1, <2>1, <2>2, <2>4, SameMembers, Zenon DEF Asking
<1>5. CASE FenceStep
  <2>1. op'.pc \in {"remove", "idle"}
    <3>1. CASE op' = [op EXCEPT !.pc = "remove"] BY <1>2, <3>1, PcStep DEF Pcs
    <3>2. CASE op' = NoOp BY <3>2, NoOpType, Zenon
    <3> QED BY <1>5, <3>1, <3>2, Zenon DEF FenceStep
  <2>2. UNCHANGED <<files, batch>> /\ (fence' = fence \/ fence' = fence \cup {r})
    BY <1>3, <1>5, Zenon DEF FenceStep
  <2>3. CASE fence' = fence
    <3>1. Seen' = Seen BY <1>1, <2>2, <2>3, Zenon DEF Seen, Alive, Exists, Pending
    <3> QED BY <1>1, <2>1, <2>3, <3>1, SameMembers, Zenon DEF Asking
  <2>4. CASE fence' = fence \cup {r}
    <3>1. Seen' = Seen \ {r} BY <1>1, <2>2, <2>4, Zenon DEF Seen, Alive, Exists, Pending
    <3>2. Members = Seen /\ Members' = Seen' /\ Asked = {} /\ Asked' = {}
      BY <1>1, <2>1, AskedSeen, Zenon DEF Asking
    <3>3. {r} \in SUBSET Run /\ Group!Delete({r}) BY <2>4, <3>1, <3>2, Zenon DEF Group!Delete
    <3> QED BY <3>3, Zenon DEF Abstract, Group!Next
  <2> QED BY <2>2, <2>3, <2>4, Zenon
<1>6. CASE RemoveStep
  <2>1. op.pc = "remove" /\ UNCHANGED <<fence, batch>> BY <1>6, Zenon DEF RemoveStep
  <2>2. r \in fence /\ files \in [Run -> File] BY <1>2, <1>3, <2>1, Zenon DEF IInv, DeleteOK, TypeOK
  <2>3. \A m \in Run : m # r => files'[m] = files[m]
    <3>1. files' = files \/ files' = [files EXCEPT ![r] = NoFile] \/ files' = [files EXCEPT ![r] = EmptyDir]
      BY <1>3, <1>6, Zenon DEF RemoveStep
    <3> QED BY <2>2, <3>1, Zenon
  <2>4. Seen' = Seen BY <1>1, <2>1, <2>2, <2>3, Zenon DEF Seen, Alive, Exists, Pending
  <2>5. op'.pc \notin Asking
    <3>1. CASE op' = NoOp BY <3>1, NoOpType, Zenon DEF Asking
    <3>2. CASE \E i, x : op' = [op EXCEPT !.i = i, !.pc = x] /\ x \in {"retain", "unlist", "group"}
      BY <1>2, <3>2, Zenon DEF Operation, Asking
    <3>3. op' = NoOp \/ \E i, x : op' = [op EXCEPT !.i = i, !.pc = x] /\ x \in {"retain", "unlist", "group"}
      BY <1>6, Zenon DEF RemoveStep
    <3> QED BY <3>1, <3>2, <3>3, Zenon
  <2> QED BY <1>1, <2>1, <2>4, <2>5, SameMembers, Zenon
<1> QED BY <1>4, <1>5, <1>6, Zenon

\* Removing the group's directory shows the pending runs, if no other is left.
LEMMA RemoveGroupMaps ==
  ASSUME IInv, IInv', RemoveGroup
  PROVE  Abstract
<1>1. /\ op.pc = "group" /\ op \in Operation /\ UNCHANGED <<files, fence, committed>> /\ \A r \in Run : ~Loose(r)
  BY Zenon DEF IInv, TypeOK, DeleteOK, RemoveGroup
<1>2. op'.pc \notin Asking
  <2>1. op' = NoOp \/ op' = [op EXCEPT !.pc = "unlist"] BY Zenon DEF RemoveGroup
  <2> QED BY <1>1, <2>1, NoOpType, PcStep DEF Pcs, Calm, Asking
<1>3. CASE UNCHANGED <<batch, exposed>>
  <2>1. Seen' = Seen BY <1>1, <1>3, Zenon DEF Seen, Alive, Exists, Pending
  <2> QED BY <1>1, <1>2, <1>3, <2>1, SameMembers, Zenon
<1>4. CASE batch' = NoBatch /\ exposed' = exposed \cup {r \in Pending(batch) \ committed : Exists(r)}
  <2>1. Pending(batch)' = {} BY <1>4, NoBatchType DEF Pending, Listed
  <2>2. \A r \in Run : Alive(r) => r \in Pending(batch) BY <1>1, Zenon DEF Loose
  <2> RecordOK BY Zenon DEF IInv
  <2>3. batch.before = <<>> => Pending(batch) \cap Shown = {} BY Zenon DEF RecordOK
  <2>4. batch.before # <<>> => Pending(batch) \subseteq Shown
    BY DEF RecordOK, Reused, Pending, Listed
  <2>5. Seen' = {r \in Run : Alive(r)} BY <1>1, <2>1, Zenon DEF Seen, Alive, Exists
  <2>6. CASE batch.before = <<>>
    <3>1. Seen = {} BY <2>2, <2>6, Zenon DEF Seen
    <3>2. 1 \in fence
      <4>1. committed # {} BY <1>1, Zenon DEF IInv, DeleteOK
      <4>2. 1 \in committed /\ (1 \notin fence => Exists(1)) BY <4>1, Zenon DEF IInv, FirstOK
      <4>3. 1 \notin Pending(batch) BY <2>3, <2>6, <4>2, Zenon DEF Shown
      <4> QED BY <2>2, <4>2, <4>3, Constants, Zenon DEF Alive
    <3>3. Seen' \in SUBSET Run /\ Seen' \cap fence = {} BY <2>5, Zenon DEF Alive
    <3>4. Members = Seen /\ Members' = Seen' /\ Asked = {} /\ Asked' = {}
      BY <1>1, <1>2, AskedSeen, Zenon DEF Asking
    <3>5. Group!Reveal(Seen') BY <1>1, <3>1, <3>2, <3>3, <3>4, Zenon DEF Group!Reveal
    <3> QED BY <3>3, <3>5, Zenon DEF Abstract, Group!Next
  <2>7. CASE batch.before # <<>>
    <3>1. Seen = {r \in Run : Alive(r)} BY <2>7, Zenon DEF Seen
    <3> QED BY <1>1, <1>2, <2>5, <3>1, SameMembers, Zenon
  <2> QED BY <2>6, <2>7, Zenon
<1> QED BY <1>3, <1>4, Zenon DEF RemoveGroup

\* Every step of the Controller is a step of BatchGroup or a stutter.
LEMMA StepMaps ==
  ASSUME IInv, IInv', [Next]_vars
  PROVE  [Group!Next]_(Group!vars)
<1>1. Abstract
  BY QuietMaps, SchedulerMaps, RollbackMaps, PrepareMaps, ReserveMaps, CommitMaps, DeleteMaps, RemoveGroupMaps, Zenon DEF Next
<1> QED BY <1>1, Zenon DEF Abstract

\* Batch admission implements BatchGroup: whatever write fails and wherever the
\* Controller stops, an admission shows all its runs at once or none of them, and a run
\* only disappears by its deletion, for good (commitBatchAdmissionLocked,
\* rollbackBatchExtensionLocked, deleteSavedBatch); runs of an admission that was not
\* completed are shown only by the deletion of the group, when no other run is left.
THEOREM AdmissionRefinesGroup == Spec => AdmissionIsAtomic
<1>1. Init => Group!Init
  BY NoOpType, Zenon DEF Init, Group!Init, Members, Asked
<1> QED BY <1>1, StepMaps, Invariance, PTL DEF Spec, AdmissionIsAtomic, Group!Spec
=============================================================================
