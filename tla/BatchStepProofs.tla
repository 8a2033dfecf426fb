-------------------------- MODULE BatchStepProofs --------------------------
(***************************************************************************)
(* The inductive invariant of batch admission, and the steps that keep it: *)
(* rollbacks, the writes of an admission, the scheduler, deletions, and    *)
(* stops of the Controller.  BatchAdmissionProofs has the checks of the    *)
(* requests and the theorems.                                              *)
(***************************************************************************)
EXTENDS BatchAdmission, TLAPS

\* The types of a run's file, of a planned run, of the group's record and of the
\* operation in progress.  In a Calm operation nothing is planned or deleted.
States == {"none", "dir", "queued", "running", "completed", "failed", "canceled"}
File == [st : States, it : 0..MaxTotal, total : 0..MaxTotal, prev : SUBSET Run, started : BOOLEAN]
Plan == [id : Run, f : File]
Record == [total : 0..MaxTotal, pending : Seq(Run), pendingTotal : 0..MaxTotal,
           before : Seq(File), retired : SUBSET Run, current : [Iteration -> 0..MaxRuns],
           deleted : SUBSET Run]
Calm == {"idle", "rollback0", "check", "rollback", "failed", "unlist", "down", "starting"}
Pcs == Calm \cup {"intent", "member", "prepare", "reserve", "enqueue", "retain", "fence", "remove", "group"}
Kinds == {"none", "submit", "append", "resume", "retry", "deleteRun", "deleteBatch"}
Operation == [pc : Pcs, kind : Kinds, pend : Seq(Plan), total : 0..MaxTotal,
              before : Seq(File), i : Nat]

TypeOK ==
  /\ files \in [Run -> File] /\ fence \subseteq Run /\ batch \in Record
  /\ live \in [Run -> States] /\ sched \in Seq(Run) /\ op \in Operation
  /\ ids \in Run /\ legacy \in BOOLEAN
  /\ committed \subseteq Run /\ exposed \subseteq Run /\ enqueued \in Nat

\* Shown: runs some client may know.  Alive: saved and not deleted.  Loose: not hidden
\* by the record of an unfinished admission either.
Shown == committed \cup exposed
Planned == {op.pend[i].id : i \in DOMAIN op.pend}
Alive(r) == Exists(r) /\ r \notin fence
Loose(r) == Alive(r) /\ r \notin Pending(batch)

\* No ID is in use that was not drawn.
Drawn == fence \cup committed \cup exposed \cup Pending(batch) \cup Planned \subseteq 1..ids

\* Metadata has a total, a completed run has started, and only shown runs are
\* previous attempts.
FilesOK ==
  \A r \in Run : /\ Exists(r) => files[r].total >= 1
                 /\ files[r].st = "completed" => files[r].started
                 /\ files[r].prev \subseteq Shown

\* The pending run r is reused, b is its before-image.
Reused(r, b) ==
  /\ r \in Shown \ batch.retired /\ (legacy \/ r # 1)
  /\ b.st \in {"queued", "running", "canceled"} /\ ~b.started
  /\ b.total = batch.total /\ b.prev \subseteq Shown
  /\ r \notin fence => Exists(r) /\ ~files[r].started /\ files[r].prev = b.prev

\* A record either hides new runs, or names reused runs with their before-images; it
\* keeps the total of the group apart from the one it announces.
RecordOK ==
  /\ batch.total = 0 => batch = NoBatch
  /\ \A r \in Pending(batch) : Alive(r) => files[r].total = batch.pendingTotal
  /\ batch.before = <<>> => Pending(batch) \cap Shown = {}
  /\ batch.before # <<>> =>
       /\ Len(batch.before) = Len(batch.pending) /\ batch.pendingTotal = batch.total /\ Published
       /\ \A i \in DOMAIN batch.pending : Reused(batch.pending[i], batch.before[i])

\* A run may keep an older total only if it was replaced or has started.
Settled(r, total) == files[r].started \/ r \in batch.retired \/ files[r].total = total

\* Every visible run agrees with the record on the total, or is settled.
TotalsOK ==
  /\ \A r \in Run : Loose(r) /\ batch # NoBatch =>
       files[r].total <= batch.total /\ Settled(r, batch.total)
  /\ ~Published =>
       \A r \in Run : Loose(r) =>
         /\ batch # NoBatch => files[r].total = batch.total
         /\ \A m \in Run : Loose(m) => files[r].total = files[m].total

\* A previous attempt was replaced by the record, or has started.
AncestryOK ==
  \A r, m \in Run :
    /\ Alive(r) /\ Alive(m) /\ r \in files[m].prev
    /\ m \notin Pending(batch) \/ batch.before # <<>>
    => r \in batch.retired \/ files[r].started

\* The first run of a submission, which its receipt names, is committed before any
\* other and stays published until it is deleted.
FirstOK ==
  /\ ~legacy /\ committed # {} =>
       /\ 1 \in committed
       /\ 1 \notin fence => Exists(1) /\ files[1].it = 1 /\ 1 \notin Pending(batch) /\ Published
  /\ legacy => 1 \in committed /\ (1 \notin fence => Exists(1))

\* What a reader finds was shown, and nothing was queued before a first commit.
HistoryOK ==
  /\ \A r \in Run : Loose(r) => r \in Shown
  /\ committed = {} => exposed = {} /\ enqueued = 0 /\ ~legacy
  /\ enqueued <= 1

\* The plan p requeues a run whose before-image is b.
ReusedPlan(p, b) ==
  /\ p.id \in Shown \ batch.retired /\ (legacy \/ p.id # 1)
  /\ Alive(p.id) /\ ~files[p.id].started /\ files[p.id].total = op.total
  /\ files[p.id].prev = b.prev /\ p.f.prev = b.prev
  /\ b.st \in {"queued", "running", "canceled"} /\ ~b.started /\ b.total = op.total

\* The plan of an admission.
PlanOK ==
  op.pc \in {"intent", "member", "prepare", "reserve", "enqueue"} =>
    /\ sched = <<>> /\ op.pend # <<>> /\ op.total >= 1
    /\ \A i, j \in DOMAIN op.pend : op.pend[i].id = op.pend[j].id => i = j
    /\ \A i \in DOMAIN op.pend :
         LET f == op.pend[i].f
         IN  f.it \in Iteration /\ f.st = "queued" /\ f.total = op.total /\ ~f.started /\ f.prev \subseteq Shown

\* Until it is published an admission plans either new runs or requeued ones, and
\* only a first submission admits into a group that was never committed.
AdmitOK ==
  op.pc \in {"intent", "member", "prepare", "reserve"} =>
    /\ op.kind = "submit" => committed = {} /\ op.before = <<>> /\ op.pend[1].id = 1 /\ op.pend[1].f.it = 1
    /\ op.kind # "submit" => committed # {}
    /\ op.before = <<>> => Planned \cap (Shown \cup fence) = {}
    /\ op.before # <<>> =>
         /\ Len(op.before) = Len(op.pend) /\ batch.total \in {0, op.total}
         /\ \A i \in DOMAIN op.pend : ReusedPlan(op.pend[i], op.before[i])
    /\ \A r \in Run : Alive(r) /\ r \notin Planned => files[r].total <= op.total /\ Settled(r, op.total)

\* How far the writes of an admission have come.
StepOK ==
  /\ op.pc \in {"check", "intent", "member", "prepare", "enqueue"} => batch.pending = <<>>
  /\ op.kind = "submit" => ~legacy
  /\ op.pc \in {"intent", "member"} => op.kind = "submit"
  /\ op.pc \in {"intent", "member", "prepare"} => op.i = 1
  /\ op.pc = "prepare" /\ op.kind # "submit" => \E r \in CurrentBatchMembers : files[r].it \in Iteration
  /\ op.pc = "reserve" =>
       /\ batch # NoBatch /\ batch.pending = [i \in DOMAIN op.pend |-> op.pend[i].id]
       /\ batch.before = op.before /\ batch.pendingTotal = op.total /\ op.i >= 1
       /\ \A j \in DOMAIN op.pend : j < op.i => files[op.pend[j].id] = op.pend[j].f
  /\ op.pc = "enqueue" =>
       /\ committed # {} /\ \A i \in DOMAIN op.pend : Exists(op.pend[i].id)
       /\ op.kind = "submit" => enqueued = 0

\* The deletion of a group still has every run it must remove ahead of it.
DeleteOK ==
  /\ op.pc \in {"retain", "fence", "remove", "group"} => sched = <<>> /\ committed # {}
  /\ op.pc \in {"retain", "fence", "remove"} =>
       /\ op.kind \in {"deleteRun", "deleteBatch"} /\ op.i \in DOMAIN op.pend
       /\ op.pc = "remove" => op.pend[op.i].id \in fence
       /\ op.kind = "deleteBatch" =>
            \A r \in Run : Loose(r) => \E j \in DOMAIN op.pend : j >= op.i /\ op.pend[j].id = r
  /\ op.pc = "group" => \A r \in Run : ~Loose(r)

\* Only a scheduled batch runs, and nothing is admitted or deleted meanwhile.
SchedOK ==
  /\ sched # <<>> =>
       /\ op.pc \in {"idle", "rollback0", "check"} /\ batch.pending = <<>> /\ committed # {}
       /\ \A i \in DOMAIN sched : Exists(sched[i])
  /\ \A r \in Run : live[r] = "running" => sched # <<>> /\ r = sched[1] /\ files[r].started

\* The inductive invariant.
IInv ==
  /\ TypeOK /\ Drawn /\ FilesOK /\ RecordOK /\ TotalsOK /\ AncestryOK /\ FirstOK /\ HistoryOK
  /\ PlanOK /\ AdmitOK /\ StepOK /\ DeleteOK /\ SchedOK

\* The part that only the saved files and record decide.
Disk == FilesOK /\ RecordOK /\ TotalsOK /\ AncestryOK /\ FirstOK
saved == <<files, fence, batch, legacy, committed, exposed>>
-----------------------------------------------------------------------------
\* A function over 1..n is a sequence of length n.
LEMMA SeqIntro ==
  ASSUME NEW S, NEW n \in Nat, NEW f \in [1..n -> S]
  PROVE  f \in Seq(S) /\ Len(f) = n /\ DOMAIN f = 1..n
  OBVIOUS

\* The domain and the elements of a sequence.
LEMMA SeqFacts ==
  ASSUME NEW S, NEW s \in Seq(S)
  PROVE  /\ DOMAIN s = 1..Len(s) /\ Len(s) \in Nat /\ \A i \in DOMAIN s : s[i] \in S
         /\ s # <<>> => 1 \in DOMAIN s
         /\ s = <<>> <=> DOMAIN s = {}
  OBVIOUS

\* What BatchConstants says of the sets of runs and iterations.
LEMMA Constants == /\ MaxRuns \in Nat /\ MaxTotal \in Nat
                   /\ 1 \in Run /\ 2 \in Run /\ 1 \in Iteration
  BY BatchConstants DEF Run, Iteration

\* What is on disk stays consistent while no saved file or record changes.
LEMMA Quiet ==
  ASSUME Disk, UNCHANGED saved
  PROVE  Disk'
<1> USE DEF saved
<1>1. FilesOK' BY Zenon DEF Disk, FilesOK, Exists, Shown
<1>2. RecordOK' BY Zenon DEF Disk, RecordOK, Reused, Exists, Alive, Shown, Published
<1>3. TotalsOK' BY Zenon DEF Disk, TotalsOK, Exists, Alive, Loose, Settled, Published
<1>4. AncestryOK' BY Zenon DEF Disk, AncestryOK, Exists, Alive
<1>5. FirstOK' BY Zenon DEF Disk, FirstOK, Exists, Published
<1> QED BY <1>1, <1>2, <1>3, <1>4, <1>5, Zenon DEF Disk

\* What a run does to the files.
Progress ==
  /\ files' \in [Run -> File]
  /\ \A r \in Run : /\ Exists(r)' = Exists(r)
                    /\ files'[r].it = files[r].it /\ files'[r].total = files[r].total
                    /\ files'[r].prev = files[r].prev
                    /\ files[r].started => files'[r].started
                    /\ files'[r].st = "completed" => files'[r].started
  /\ batch.pending = <<>>
  /\ UNCHANGED <<fence, batch, legacy, committed, exposed>>

\* What a run writes about its own progress keeps the saved group consistent.
LEMMA ProgressKeeps ==
  ASSUME TypeOK, Disk, Progress
  PROVE  Disk'
<1>0. Pending(batch) = {} /\ Pending(batch)' = {} /\ batch.before = <<>>
  BY DEF Progress, Pending, Listed, Disk, RecordOK, TypeOK, Record
<1>1. FilesOK' BY Zenon DEF Disk, FilesOK, Shown, Progress
<1>2. RecordOK' BY <1>0, Zenon DEF Disk, RecordOK, Progress
<1>3. TotalsOK' BY DEF Disk, TotalsOK, Alive, Loose, Settled, Published, Progress
<1>4. AncestryOK' BY Zenon DEF Disk, AncestryOK, Alive, Progress
<1>5. FirstOK' BY Constants, Zenon DEF Disk, FirstOK, Published, Progress
<1> QED BY <1>1, <1>2, <1>3, <1>4, <1>5, Zenon DEF Disk

\* What a rollback, finished or not, does to the files and the record.
Restores ==
  /\ files' \in [Run -> File] /\ batch' \in Record
  /\ \A r \in Run : r \notin Pending(batch) => files'[r] = files[r]
  /\ batch.before = <<>> => \A r \in Pending(batch) : files'[r] \in {files[r], NoFile, EmptyDir}
  /\ batch.before # <<>> =>
       \A i \in DOMAIN batch.pending :
         \/ files'[batch.pending[i]] = files[batch.pending[i]]
         \/ \E j \in DOMAIN batch.pending :
              /\ batch.pending[j] = batch.pending[i]
              /\ files'[batch.pending[i]] = batch.before[j]
              /\ files[batch.pending[i]] # NoFile
  /\ \/ batch' = batch
     \/ /\ batch' = Cleared(batch)
        /\ batch.before = <<>> => \A r \in Pending(batch) : files'[r] = NoFile

\* Having no file, and an empty directory, are states of a run's files.
LEMMA NoFileType == NoFile \in File /\ EmptyDir \in File
<1>1. NoFile \in File BY BatchConstants DEF NoFile, File, States
<1> QED BY <1>1, Zenon DEF EmptyDir, NoFile, File, States

\* An abandoned admission leaves only the pending fields of the record empty.
LEMMA ClearedType ==
  ASSUME NEW b \in Record
  PROVE  /\ Cleared(b) \in Record
         /\ Cleared(b).pending = <<>> /\ Cleared(b).before = <<>> /\ Cleared(b).pendingTotal = 0
         /\ Cleared(b).total = b.total /\ Cleared(b).retired = b.retired
         /\ Cleared(b).current = b.current /\ Cleared(b).deleted = b.deleted
<1>1. PICK c : c = [b EXCEPT !.pending = <<>>, !.before = <<>>, !.pendingTotal = 0] BY Zenon
<1>2. /\ c.pending = <<>> /\ c.before = <<>> /\ c.pendingTotal = 0
      /\ c.total = b.total /\ c.retired = b.retired
      /\ c.current = b.current /\ c.deleted = b.deleted
  BY <1>1, Zenon DEF Record
<1>3. 0 \in 0..MaxTotal /\ <<>> \in Seq(Run) /\ <<>> \in Seq(File) BY BatchConstants
<1>4. c \in Record BY <1>1, <1>3, Zenon DEF Record
<1> QED BY <1>1, <1>2, <1>4, Zenon DEF Cleared

\* rollbackBatchExtensionLocked, interrupted after k runs: only runs the record
\* names as pending change, each to nothing or to its own before-image.
LEMMA UndoneShape ==
  ASSUME TypeOK, RecordOK, NEW k \in 0..Len(batch.pending),
         NEW u, u = Undone(files, batch, k)
  PROVE  /\ u \in [Run -> File]
         /\ \A r \in Run : r \notin Pending(batch) => u[r] = files[r]
         /\ batch.before = <<>> => \A r \in Pending(batch) : u[r] \in {files[r], NoFile}
         /\ batch.before = <<>> /\ k = Len(batch.pending) => \A r \in Pending(batch) : u[r] = NoFile
         /\ batch.before # <<>> =>
              \A i \in DOMAIN batch.pending :
                \/ u[batch.pending[i]] = files[batch.pending[i]]
                \/ \E j \in DOMAIN batch.pending :
                     /\ batch.pending[j] = batch.pending[i]
                     /\ u[batch.pending[i]] = batch.before[j]
                     /\ files[batch.pending[i]] # NoFile
<1>1. /\ batch.pending \in Seq(Run) /\ batch.before \in Seq(File) /\ files \in [Run -> File]
      /\ Len(batch.pending) \in Nat
      /\ DOMAIN batch.pending = 1..Len(batch.pending)
      /\ DOMAIN batch.before = 1..Len(batch.before)
      /\ \A i \in DOMAIN batch.pending : batch.pending[i] \in Run
      /\ batch.before # <<>> => \A i \in DOMAIN batch.pending : batch.before[i] \in File
      /\ Pending(batch) = {batch.pending[i] : i \in DOMAIN batch.pending}
  BY DEF TypeOK, Record, RecordOK, Pending, Listed
<1> DEFINE At(r) == CHOOSE i \in 1..k : batch.pending[i] = r
<1>2. ASSUME NEW r \in Run, \E i \in 1..k : batch.pending[i] = r
      PROVE  At(r) \in DOMAIN batch.pending /\ batch.pending[At(r)] = r
  BY <1>1, <1>2
<1>3. ASSUME NEW r \in Run
      PROVE  /\ (~\E i \in 1..k : batch.pending[i] = r) => u[r] = files[r]
             /\ (\E i \in 1..k : batch.pending[i] = r) =>
                  /\ batch.before = <<>> => u[r] = NoFile
                  /\ batch.before # <<>> /\ files[r] = NoFile => u[r] = NoFile
                  /\ batch.before # <<>> /\ files[r] # NoFile => u[r] = batch.before[At(r)]
  BY Zenon DEF Undone
<1> HIDE DEF At
<1>4. u \in [Run -> File]
  <2>1. DOMAIN u = Run /\ u = [r \in Run |-> u[r]] BY Zenon DEF Undone
  <2>2. ASSUME NEW r \in Run PROVE u[r] \in File
    BY <1>1, <1>2, <1>3, NoFileType, Zenon
  <2> QED BY <2>1, <2>2, Zenon
<1>5. \A r \in Run : r \notin Pending(batch) => u[r] = files[r] BY <1>1, <1>3
<1>6. batch.before = <<>> => \A r \in Pending(batch) : u[r] \in {files[r], NoFile}
  BY <1>1, <1>3, Zenon
<1>7. batch.before = <<>> /\ k = Len(batch.pending) => \A r \in Pending(batch) : u[r] = NoFile
  BY <1>1, <1>3, Zenon
<1>8. ASSUME batch.before # <<>>, NEW i \in DOMAIN batch.pending
      PROVE  \/ u[batch.pending[i]] = files[batch.pending[i]]
             \/ \E j \in DOMAIN batch.pending :
                  /\ batch.pending[j] = batch.pending[i]
                  /\ u[batch.pending[i]] = batch.before[j]
                  /\ files[batch.pending[i]] # NoFile
  BY <1>1, <1>2, <1>3, <1>8, Zenon
<1> QED BY <1>4, <1>5, <1>6, <1>7, <1>8, Zenon

\* A rollback, finished or failed, restores.
LEMMA RollbackRestores ==
  ASSUME TypeOK, RecordOK, RollbackOk \/ RollbackFails
  PROVE  Restores
<1>1. /\ Len(batch.pending) \in Nat /\ batch \in Record
      /\ DOMAIN batch.pending = 1..Len(batch.pending)
      /\ \A i \in DOMAIN batch.pending : batch.pending[i] \in Run
      /\ Pending(batch) = {batch.pending[i] : i \in DOMAIN batch.pending}
  BY DEF TypeOK, Record, RecordOK, Pending, Listed
<1>2. CASE RollbackOk
  <2>1. Len(batch.pending) \in 0..Len(batch.pending) BY <1>1
  <2>2. files' = Undone(files, batch, Len(batch.pending)) /\ batch' = Cleared(batch)
    BY <1>2, Zenon DEF RollbackOk
  <2> QED BY <1>1, <2>1, <2>2, UndoneShape, ClearedType DEF Restores
<1>3. CASE RollbackFails
  <2>1. PICK k \in 0..Len(batch.pending) :
          /\ files' \in {Undone(files, batch, k)}
               \cup {[Undone(files, batch, k) EXCEPT ![batch.pending[i]] = EmptyDir] :
                       i \in {j \in {k + 1} \cap DOMAIN batch.pending :
                                batch.before = <<>> /\ Exists(batch.pending[j])
                                  /\ ~Unexpected(batch, batch.pending[j])}}
          /\ batch' \in {batch} \cup (IF k = Len(batch.pending) THEN {Cleared(batch)} ELSE {})
    BY <1>3, Zenon DEF RollbackFails
  <2>2. PICK u : u = Undone(files, batch, k) BY Zenon
  <2>3. CASE files' = u
    BY <1>1, <2>1, <2>2, <2>3, UndoneShape, ClearedType DEF Restores
  <2>4. CASE files' # u
    <3>1. PICK i \in {k + 1} \cap DOMAIN batch.pending :
            batch.before = <<>> /\ files' = [u EXCEPT ![batch.pending[i]] = EmptyDir]
      BY <2>1, <2>2, <2>4, Zenon
    <3>2. k # Len(batch.pending) /\ batch' = batch BY <1>1, <2>1, <3>1
    <3>3. /\ u \in [Run -> File]
          /\ \A r \in Run : r \notin Pending(batch) => u[r] = files[r]
          /\ \A r \in Pending(batch) : u[r] \in {files[r], NoFile}
      BY <2>2, <3>1, UndoneShape
    <3>4. files' \in [Run -> File] /\ batch.pending[i] \in Pending(batch)
      BY <1>1, <3>1, <3>3, NoFileType, Zenon
    <3>5. \A r \in Run : r \notin Pending(batch) => files'[r] = files[r]
      BY <1>1, <3>1, <3>3, <3>4, Zenon
    <3>6. \A r \in Pending(batch) : files'[r] \in {files[r], NoFile, EmptyDir}
      BY <1>1, <3>1, <3>3, <3>4
    <3> QED BY <1>1, <3>1, <3>2, <3>4, <3>5, <3>6, Zenon DEF Restores
  <2> QED BY <2>3, <2>4, Zenon
<1> QED BY <1>2, <1>3, Zenon

\* Two records with the same fields are the same record.
LEMMA RecordEquality ==
  ASSUME NEW a \in Record, NEW b \in Record,
         a.total = b.total, a.pending = b.pending, a.pendingTotal = b.pendingTotal,
         a.before = b.before, a.retired = b.retired, a.current = b.current, a.deleted = b.deleted
  PROVE  a = b
<1>1. ASSUME NEW c \in Record
      PROVE  c = [total |-> c.total, pending |-> c.pending, pendingTotal |-> c.pendingTotal, before |-> c.before,
                  retired |-> c.retired, current |-> c.current, deleted |-> c.deleted]
  BY Zenon DEF Record
<1> QED BY <1>1, Zenon

\* The record of a group that has none.
LEMMA NoBatchType ==
  /\ NoBatch \in Record /\ NoBatch.total = 0 /\ NoBatch.pending = <<>> /\ NoBatch.before = <<>>
  /\ NoBatch.pendingTotal = 0 /\ NoBatch.retired = {} /\ NoBatch.deleted = {}
  /\ NoBatch.current = [i \in Iteration |-> 0]
<1>1. 0 \in 0..MaxTotal /\ <<>> \in Seq(Run) /\ <<>> \in Seq(File) /\ 0 \in 0..MaxRuns BY BatchConstants
<1>2. NoBatch \in Record BY <1>1, Zenon DEF Record, NoBatch
<1> QED BY <1>2, Zenon DEF NoBatch

\* A group without a record has nothing pending to clear.
LEMMA ClearedNone == Cleared(NoBatch) = NoBatch
  BY NoBatchType, ClearedType, RecordEquality

\* rollbackBatchExtensionLocked keeps the saved group consistent wherever it stops.
LEMMA RestoresKeeps ==
  ASSUME TypeOK, Disk, HistoryOK, Restores, UNCHANGED <<fence, legacy, committed, exposed, enqueued>>
  PROVE  /\ Disk' /\ HistoryOK'
         /\ Published' = Published
         /\ batch'.total = batch.total /\ batch'.retired = batch.retired
         /\ \A r \in Run : r \notin Pending(batch) => files'[r] = files[r]
         /\ Pending(batch)' \in {Pending(batch), {}}
<1>1. /\ batch.pending \in Seq(Run) /\ batch.before \in Seq(File) /\ files \in [Run -> File]
      /\ files' \in [Run -> File] /\ batch \in Record /\ fence \subseteq Run
      /\ \A i \in DOMAIN batch.pending : batch.pending[i] \in Run
      /\ Pending(batch) = {batch.pending[i] : i \in DOMAIN batch.pending}
  BY DEF TypeOK, Record, Restores, Pending, Listed
<1>2. /\ batch'.current = batch.current /\ batch'.total = batch.total /\ batch'.retired = batch.retired
      /\ \/ batch' = batch
         \/ Cleared(batch).pending = <<>> /\ Cleared(batch).before = <<>> /\ batch' = Cleared(batch)
  BY <1>1, ClearedType DEF Restores
<1>3. /\ Published' = Published
      /\ batch' = NoBatch <=> batch = NoBatch
      /\ batch'.total = 0 => batch' = NoBatch
  <2>1. Published' = Published BY <1>2, Zenon DEF Published
  <2>2. batch.total = 0 => batch = NoBatch BY Zenon DEF Disk, RecordOK
  <2>3. NoBatch.total = 0 BY Zenon DEF NoBatch
  <2> QED BY <1>2, <2>1, <2>2, <2>3, ClearedNone, Zenon
<1>4. batch' = batch \/ Pending(batch)' = {} BY <1>2 DEF Pending, Listed
<1>5. Pending(batch)' \in {Pending(batch), {}} BY <1>2, <1>4, Zenon DEF Pending, Listed
<1>6. \A r \in Run : r \notin Pending(batch) => files'[r] = files[r] BY Zenon DEF Restores
<1>7. /\ NoFile.st = "none" /\ NoFile.prev = {} /\ EmptyDir.st = "dir" /\ EmptyDir.prev = {}
  BY Zenon DEF NoFile, EmptyDir
<1>8. ASSUME batch.before = <<>>, NEW r \in Pending(batch)
      PROVE  /\ files'[r] \in {files[r], NoFile, EmptyDir}
             /\ batch' # batch => files'[r] = NoFile
  BY <1>8, Zenon DEF Restores
<1>9. ASSUME batch.before # <<>>, NEW r \in Pending(batch)
      PROVE  /\ files'[r].st = "completed" => files'[r].started
             /\ Exists(r)' => files'[r].total >= 1
             /\ files'[r].prev \subseteq Shown
             /\ r \in Shown \ batch.retired
             /\ r \notin fence =>
                  /\ Exists(r) /\ Exists(r)' /\ files'[r].prev = files[r].prev
                  /\ ~files[r].started /\ ~files'[r].started
                  /\ files[r].total = batch.total /\ files'[r].total = batch.total
  <2>1. PICK i \in DOMAIN batch.pending : batch.pending[i] = r BY <1>1, Zenon
  <2>2. \A j \in DOMAIN batch.pending : Reused(batch.pending[j], batch.before[j])
    BY <1>9, Zenon DEF Disk, RecordOK
  <2>3. /\ Exists(r) => files[r].total >= 1
        /\ files[r].st = "completed" => files[r].started
        /\ files[r].prev \subseteq Shown
    BY <1>1, Zenon DEF Disk, FilesOK
  <2>4. Alive(r) => files[r].total = batch.total BY <1>9, Zenon DEF Disk, RecordOK
  <2>5. /\ r \in Shown \ batch.retired
        /\ r \notin fence => Exists(r) /\ ~files[r].started
    BY <2>1, <2>2, Zenon DEF Reused
  <2>6. CASE files'[r] = files[r]
    BY <2>3, <2>4, <2>5, <2>6, Zenon DEF Exists, Alive
  <2>7. CASE files'[r] # files[r]
    <3>1. PICK j \in DOMAIN batch.pending :
            batch.pending[j] = r /\ files'[r] = batch.before[j] /\ files[r] # NoFile
      BY <1>9, <2>1, <2>7, Zenon DEF Restores
    <3>2. Reused(r, batch.before[j]) BY <2>2, <3>1, Zenon
    <3>3. batch.total # 0
      <4>1. NoBatch.pending = <<>> BY Zenon DEF NoBatch
      <4> QED BY <1>1, <2>1, <4>1 DEF Disk, RecordOK
    <3>4. batch.total \in Nat BY <1>1, BatchConstants DEF Record
    <3> QED BY <2>4, <3>1, <3>2, <3>3, <3>4 DEF Reused, Exists, Alive
  <2> QED BY <2>6, <2>7, Zenon
<1>10. FilesOK'
  <2> SUFFICES ASSUME NEW r \in Run
               PROVE  /\ Exists(r)' => files'[r].total >= 1
                      /\ files'[r].st = "completed" => files'[r].started
                      /\ files'[r].prev \subseteq Shown
    BY Zenon DEF FilesOK, Shown
  <2>1. /\ Exists(r) => files[r].total >= 1
        /\ files[r].st = "completed" => files[r].started
        /\ files[r].prev \subseteq Shown
    BY Zenon DEF Disk, FilesOK
  <2>2. CASE r \notin Pending(batch) BY <1>6, <2>1, <2>2, Zenon DEF Exists
  <2>3. CASE r \in Pending(batch) /\ batch.before = <<>> BY <1>7, <1>8, <2>1, <2>3, Zenon DEF Exists
  <2>4. CASE r \in Pending(batch) /\ batch.before # <<>> BY <1>9, <2>4, Zenon
  <2> QED BY <2>2, <2>3, <2>4, Zenon
<1>11. ASSUME NEW r \in Run, Loose(r)'
       PROVE  \/ Loose(r) /\ files'[r] = files[r]
              \/ /\ batch.before # <<>> /\ batch' # batch /\ r \in Pending(batch) /\ r \notin fence
                 /\ r \in Shown /\ files'[r].total = batch.total /\ ~files'[r].started
                 /\ files'[r].prev = files[r].prev /\ ~files[r].started /\ Exists(r)
  <2>1. Exists(r)' /\ r \notin fence /\ r \notin Pending(batch)' BY <1>11, Zenon DEF Loose, Alive
  <2>2. CASE r \notin Pending(batch) BY <1>6, <2>1, <2>2, Zenon DEF Loose, Alive, Exists
  <2>3. CASE r \in Pending(batch)
    <3>1. batch' # batch BY <2>1, <2>3, Zenon DEF Pending
    <3>2. batch.before # <<>> BY <1>7, <1>8, <2>1, <2>3, <3>1, Zenon DEF Exists
    <3> QED BY <1>9, <2>1, <2>3, <3>1, <3>2, Zenon
  <2> QED BY <2>2, <2>3, Zenon
<1>12. HistoryOK'
  <2>1. \A r \in Run : Loose(r)' => r \in Shown BY <1>11, Zenon DEF HistoryOK
  <2> QED BY <2>1, Zenon DEF HistoryOK, Shown
<1>13. TotalsOK'
  <2>1. ASSUME NEW r \in Run, Loose(r)', batch' # NoBatch
        PROVE  files'[r].total <= batch'.total /\ Settled(r, batch.total)'
    <3>1. CASE Loose(r) /\ files'[r] = files[r]
      BY <1>2, <1>3, <2>1, <3>1, Zenon DEF Disk, TotalsOK, Settled
    <3>2. CASE files'[r].total = batch.total
      BY <1>1, <1>2, <3>2, BatchConstants DEF Settled, Record
    <3> QED BY <1>11, <2>1, <3>1, <3>2, Zenon
  <2>2. ASSUME ~Published', NEW r \in Run, Loose(r)'
        PROVE  /\ batch' # NoBatch => files'[r].total = batch'.total
               /\ \A m \in Run : Loose(m)' => files'[r].total = files'[m].total
    <3>1. ASSUME NEW m \in Run, Loose(m)'
          PROVE  batch # NoBatch => files'[m].total = batch.total
      BY <1>3, <1>11, <2>2, <3>1, Zenon DEF Disk, TotalsOK
    <3>2. ASSUME batch = NoBatch, NEW m \in Run, Loose(m)' PROVE Loose(m) /\ files'[m] = files[m]
      <4>1. batch.before = <<>> BY <3>2, Zenon DEF NoBatch
      <4> QED BY <1>11, <3>2, <4>1, Zenon
    <3> QED BY <1>2, <1>3, <2>2, <3>1, <3>2 DEF Disk, TotalsOK
  <2> QED BY <2>1, <2>2, <1>2, Zenon DEF TotalsOK
<1>14. AncestryOK'
  <2> SUFFICES ASSUME NEW r \in Run, NEW m \in Run, Alive(r)', Alive(m)', r \in files'[m].prev,
                      m \notin Pending(batch)' \/ batch'.before # <<>>
               PROVE  r \in batch.retired \/ files'[r].started
    BY <1>2, Zenon DEF AncestryOK
  <2>1. Alive(m) /\ r \in files[m].prev /\ (m \notin Pending(batch) \/ batch.before # <<>>)
    <3>1. CASE m \notin Pending(batch) BY <1>6, <3>1, Zenon DEF Alive, Exists
    <3>2. CASE m \in Pending(batch) /\ batch.before # <<>> BY <1>9, <3>2, Zenon DEF Alive
    <3>3. CASE m \in Pending(batch) /\ batch.before = <<>>
      BY <1>2, <1>4, <1>7, <1>8, <3>3, Zenon
    <3> QED BY <3>1, <3>2, <3>3, Zenon
  <2>2. r \in Shown BY <2>1, Zenon DEF Disk, FilesOK
  <2>3. CASE r \notin Pending(batch)
    BY <1>6, <2>1, <2>3, Zenon DEF Disk, AncestryOK, Alive, Exists
  <2>4. CASE r \in Pending(batch)
    <3>1. batch.before # <<>> BY <2>2, <2>4, Zenon DEF Disk, RecordOK
    <3>2. Alive(r) /\ ~files[r].started /\ r \notin batch.retired BY <1>9, <2>4, <3>1, Zenon DEF Alive
    <3> QED BY <2>1, <3>2, Zenon DEF Disk, AncestryOK
  <2> QED BY <2>3, <2>4, Zenon
<1>15. FirstOK'
  <2>1. 1 \notin Pending(batch) => files'[1] = files[1] BY <1>6, Constants, Zenon
  <2>2. legacy => 1 \in committed /\ (1 \notin fence => Exists(1)) BY Zenon DEF Disk, FirstOK
  <2>3. ASSUME legacy, 1 \notin fence PROVE Exists(1)'
    <3>1. CASE 1 \notin Pending(batch) BY <2>1, <2>2, <2>3, <3>1, Zenon DEF Exists
    <3>2. CASE 1 \in Pending(batch)
      <4>1. batch.before # <<>> BY <2>2, <2>3, <3>2, Zenon DEF Disk, RecordOK, Shown
      <4> QED BY <1>9, <2>3, <3>2, <4>1, Zenon
    <3> QED BY <3>1, <3>2, Zenon
  <2>4. ASSUME ~legacy, committed # {}, 1 \notin fence
        PROVE  Exists(1)' /\ files'[1].it = 1 /\ 1 \notin Pending(batch)' /\ Published'
    <3>1. Exists(1) /\ files[1].it = 1 /\ 1 \notin Pending(batch) /\ Published
      BY <2>4, Zenon DEF Disk, FirstOK
    <3> QED BY <1>3, <1>5, <2>1, <3>1, Zenon DEF Exists
  <2>5. ~legacy /\ committed # {} => 1 \in committed BY Zenon DEF Disk, FirstOK
  <2> QED BY <2>2, <2>3, <2>4, <2>5, Zenon DEF FirstOK
<1>16. RecordOK'
  <2>1. CASE batch' = batch
    <3>1. ASSUME NEW r \in Pending(batch), Alive(r)' PROVE files'[r].total = batch.pendingTotal
      <4>1. CASE batch.before = <<>>
        BY <1>7, <1>8, <3>1, <4>1, Zenon DEF Disk, RecordOK, Alive, Exists
      <4>2. CASE batch.before # <<>>
        BY <1>9, <3>1, <4>2, Zenon DEF Disk, RecordOK, Alive
      <4> QED BY <4>1, <4>2, Zenon
    <3>2. ASSUME batch.before # <<>>, NEW i \in DOMAIN batch.pending
          PROVE  Reused(batch.pending[i], batch.before[i])'
      <4>1. Reused(batch.pending[i], batch.before[i]) BY <3>2, Zenon DEF Disk, RecordOK
      <4>2. batch.pending[i] \in Pending(batch) BY <1>1, Zenon
      <4> QED BY <1>9, <2>1, <3>2, <4>1, <4>2, Zenon DEF Reused, Shown
    <3>3. /\ Pending(batch)' = Pending(batch)
          /\ batch.before = <<>> => Pending(batch) \cap Shown = {}
          /\ batch.before # <<>> =>
               Len(batch.before) = Len(batch.pending) /\ batch.pendingTotal = batch.total /\ Published'
      BY <1>3, <2>1, Zenon DEF Disk, RecordOK, Pending
    <3> QED BY <1>3, <2>1, <3>1, <3>2, <3>3, Zenon DEF RecordOK, Shown
  <2>2. CASE batch' # batch
    BY <1>2, <1>3, <1>4, <2>2, Zenon DEF RecordOK
  <2> QED BY <2>1, <2>2, Zenon
<1> QED BY <1>2, <1>3, <1>5, <1>6, <1>10, <1>12, <1>13, <1>14, <1>15, <1>16, Zenon DEF Disk
-----------------------------------------------------------------------------
\* The idle operation.
LEMMA NoOpType ==
  /\ NoOp \in Operation /\ NoOp.pc = "idle" /\ NoOp.kind = "none" /\ NoOp.pend = <<>>
  /\ NoOp.before = <<>> /\ NoOp.i = 0 /\ NoOp.total = 0
<1>1. 0 \in 0..MaxTotal /\ <<>> \in Seq(Plan) /\ <<>> \in Seq(File) BY BatchConstants
<1>2. NoOp \in Operation BY <1>1, Zenon DEF NoOp, Operation, Pcs, Calm, Kinds
<1> QED BY <1>2, Zenon DEF NoOp

\* An operation that moves on without changing its plan.
LEMMA PcStep ==
  ASSUME NEW o \in Operation, NEW x \in Pcs, NEW p, p = [o EXCEPT !.pc = x]
  PROVE  /\ p \in Operation /\ p.pc = x /\ p.kind = o.kind /\ p.pend = o.pend
         /\ p.total = o.total /\ p.before = o.before /\ p.i = o.i
  BY Zenon DEF Operation

\* Outside the admission and deletion steps their invariants ask nothing.
LEMMA CalmOp ==
  ASSUME op'.pc \in Calm
  PROVE  PlanOK' /\ AdmitOK' /\ DeleteOK'
  BY Zenon DEF Calm, PlanOK, AdmitOK, DeleteOK

\* A step that writes nothing and leaves the operation outside an admission or a
\* deletion.
LEMMA QuietCalm ==
  ASSUME IInv, UNCHANGED saved, UNCHANGED <<sched, live, enqueued, ids>>,
         op' \in Operation, op'.pc \in Calm, op'.pend \in {op.pend, <<>>},
         op'.kind = "submit" => ~legacy,
         op'.pc = "check" => batch.pending = <<>>,
         sched # <<>> => op'.pc \in {"idle", "rollback0", "check"}
  PROVE  IInv'
<1>1. TypeOK' BY Zenon DEF IInv, TypeOK, saved
<1>2. Drawn'
  <2>1. Planned' \subseteq Planned BY DEF Planned
  <2>2. Pending(batch)' = Pending(batch) BY Zenon DEF Pending, saved
  <2> QED BY <2>1, <2>2, Zenon DEF IInv, Drawn, saved
<1>3. Disk' BY Quiet, Zenon DEF IInv, Disk
<1>4. HistoryOK' BY Zenon DEF IInv, HistoryOK, Loose, Alive, Exists, Pending, Shown, saved
<1>5. PlanOK' /\ AdmitOK' /\ DeleteOK' BY CalmOp, Zenon
<1>6. StepOK' BY Zenon DEF IInv, StepOK, Calm, saved
<1>7. SchedOK' BY Zenon DEF IInv, SchedOK, Exists, saved
<1> QED BY <1>1, <1>2, <1>3, <1>4, <1>5, <1>6, <1>7, Zenon DEF IInv, Disk

\* A submission or a continuation begins.
LEMMA BeginInv ==
  ASSUME IInv, NEW kind \in {"submit", "append", "resume", "retry"}, Begin(kind)
  PROVE  IInv'
<1>1. CASE op' = [NoOp EXCEPT !.pc = "rollback0", !.kind = kind]
  <2>1. PICK o : o = [NoOp EXCEPT !.pc = "rollback0"] BY Zenon
  <2>2. o \in Operation /\ o.pc = "rollback0" /\ o.pend = <<>> BY <2>1, NoOpType, PcStep DEF Pcs, Calm
  <2>3. op' = [o EXCEPT !.kind = kind] BY <1>1, <2>1, NoOpType, Zenon DEF Operation
  <2>4. op' \in Operation /\ op'.pc = "rollback0" /\ op'.kind = kind /\ op'.pend = <<>>
    BY <2>2, <2>3, Zenon DEF Operation, Kinds
  <2> QED BY <2>4, QuietCalm, Zenon DEF Begin, Calm, saved, history
<1>2. CASE UNCHANGED op
  <2>1. op' \in Operation /\ op'.pc = "idle" BY <1>2, Zenon DEF IInv, TypeOK, Begin
  <2> QED BY <1>2, <2>1, QuietCalm, Zenon DEF Begin, Calm, saved, history, IInv, StepOK
<1> QED BY <1>1, <1>2, Zenon DEF Begin

\* A request refused by its checks.
LEMMA RefusedInv ==
  ASSUME IInv, op.pc = "check", Refused, UNCHANGED <<disk, live, sched, faults, stops, history>>
  PROVE  IInv'
  BY NoOpType, QuietCalm, Zenon DEF Refused, Calm, disk, saved, history

\* A rollback, finished or failed, as the step of an operation.
LEMMA RolledBackInv ==
  ASSUME IInv, RollbackOk \/ RollbackFails, UNCHANGED <<fence, live, sched, ids, history>>,
         op' \in Operation, op'.pc \in Calm, op'.pend \in {op.pend, <<>>},
         op'.kind \in {op.kind, "none"},
         op'.pc = "check" => RollbackOk,
         sched # <<>> => op'.pc \in {"idle", "rollback0", "check"}
  PROVE  IInv'
<1> USE DEF history
<1>1. TypeOK /\ Disk /\ HistoryOK /\ Restores BY RollbackRestores, Zenon DEF IInv, Disk
<1>2. /\ Disk' /\ HistoryOK'
      /\ \A r \in Run : r \notin Pending(batch) => files'[r] = files[r]
      /\ Pending(batch)' \in {Pending(batch), {}}
  BY <1>1, RestoresKeeps, Zenon
<1>3. TypeOK' BY <1>1, Zenon DEF TypeOK, Restores
<1>4. Drawn'
  <2>1. Planned' \subseteq Planned BY DEF Planned
  <2> QED BY <1>2, <2>1, Zenon DEF IInv, Drawn
<1>5. PlanOK' /\ AdmitOK' /\ DeleteOK' BY CalmOp, Zenon
<1>6. batch' = Cleared(batch) => batch'.pending = <<>> BY ClearedType, Zenon DEF IInv, TypeOK
<1>7. StepOK'
  <2>1. op'.pc = "check" => batch'.pending = <<>> BY <1>6, Zenon DEF RollbackOk
  <2> QED BY <2>1, Zenon DEF IInv, StepOK, Calm
<1>8. SchedOK'
  <2>1. CASE sched = <<>> BY <2>1, Zenon DEF IInv, SchedOK
  <2>2. CASE sched # <<>>
    <3>1. batch.pending = <<>> /\ Pending(batch) = {} BY <2>2 DEF IInv, SchedOK, Pending, Listed
    <3>2. files' = files BY <1>1, <1>2, <3>1 DEF TypeOK, Restores
    <3>3. batch'.pending = <<>> BY <1>1, <1>6, <3>1, Zenon DEF Restores
    <3> QED BY <2>2, <3>2, <3>3, Zenon DEF IInv, SchedOK, Exists
  <2> QED BY <2>1, <2>2, Zenon
<1> QED BY <1>2, <1>3, <1>4, <1>5, <1>7, <1>8, Zenon DEF IInv, Disk

\* The three places that roll an earlier admission back: before a request's checks,
\* after a failed admission, and when the Controller starts.
LEMMA RollbacksInv ==
  ASSUME IInv, FirstRollback \/ Rollback \/ StartupBatches
  PROVE  IInv'
<1>0. op \in Operation /\ (sched # <<>> => op.pc \in {"idle", "rollback0", "check"}) BY Zenon DEF IInv, TypeOK, SchedOK
<1>1. CASE FirstRollback
  <2>1. CASE RollbackOk /\ op' = [op EXCEPT !.pc = "check"]
    <3>1. op' \in Operation /\ op'.pc = "check" /\ op'.kind = op.kind /\ op'.pend = op.pend
      BY <1>0, <2>1, PcStep DEF Pcs, Calm
    <3> QED BY <1>1, <2>1, <3>1, RolledBackInv, Zenon DEF FirstRollback, Calm
  <2>2. CASE RollbackFails /\ op' = NoOp
    BY <1>0, <1>1, <2>2, NoOpType, RolledBackInv, Zenon DEF FirstRollback, Calm
  <2> QED BY <1>1, <2>1, <2>2, Zenon DEF FirstRollback
<1>2. CASE Rollback
  <2>1. /\ op' \in Operation /\ op'.pc = "failed" /\ op'.kind = op.kind /\ op'.pend = op.pend
        /\ sched = <<>>
    BY <1>0, <1>2, PcStep DEF Rollback, Pcs, Calm
  <2> QED BY <1>2, <2>1, RolledBackInv, Zenon DEF Rollback, Calm
<1>3. CASE StartupBatches
  <2>1. /\ op' \in Operation /\ op'.pc = "starting" /\ op'.kind = op.kind /\ op'.pend = op.pend
        /\ sched = <<>>
    BY <1>0, <1>3, PcStep DEF StartupBatches, Pcs, Calm
  <2> QED BY <1>3, <2>1, RolledBackInv, Zenon DEF StartupBatches, Calm
<1> QED BY <1>1, <1>2, <1>3, Zenon

\* The steps that write the library intent of a submission leave the group alone.
LEMMA LibraryInv ==
  ASSUME IInv, op.pc \in {"intent", "member"}, op' \in Operation,
         op'.pc \in {"intent", "member", "prepare"}, op'.kind = op.kind, op'.pend = op.pend,
         op'.total = op.total, op'.before = op.before, op'.i = op.i,
         UNCHANGED saved, UNCHANGED <<sched, live, enqueued, ids>>
  PROVE  IInv'
<1>1. TypeOK' BY Zenon DEF IInv, TypeOK, saved
<1>2. Drawn' BY Zenon DEF IInv, Drawn, Planned, Pending, saved
<1>3. Disk' BY Quiet, Zenon DEF IInv, Disk
<1>4. HistoryOK' BY Zenon DEF IInv, HistoryOK, Loose, Alive, Exists, Pending, Shown, saved
<1>5. PlanOK' BY Zenon DEF IInv, PlanOK, Shown, saved
<1>6. AdmitOK'
  <2>1. op.kind = "submit" BY Zenon DEF IInv, StepOK
  <2> QED BY <2>1 DEF IInv, AdmitOK, Planned, Shown, Alive, Exists, Settled, ReusedPlan, saved
<1>7. StepOK' BY Zenon DEF IInv, StepOK, saved
<1>8. DeleteOK' BY Zenon DEF DeleteOK
<1>9. SchedOK' BY Zenon DEF IInv, SchedOK, PlanOK, Exists, saved
<1> QED BY <1>1, <1>2, <1>3, <1>4, <1>5, <1>6, <1>7, <1>8, <1>9, Zenon DEF IInv, Disk

\* admitScenarioResultGroup before the admission: an earlier intent is settled, then
\* the intent and the membership are saved.
LEMMA IntentsInv ==
  ASSUME IInv, SettleIntent \/ SaveIntent \/ SaveMember
  PROVE  IInv'
<1>1. /\ op \in Operation /\ op.pc \in {"intent", "member"} /\ sched = <<>>
      /\ op.kind = "submit" /\ ~legacy
  BY Zenon DEF IInv, TypeOK, PlanOK, StepOK, SettleIntent, SaveIntent, SaveMember
<1>2. UNCHANGED saved /\ UNCHANGED <<sched, live, enqueued, ids>>
  BY Zenon DEF SettleIntent, SaveIntent, SaveMember, saved, history
<1>3. CASE op' = NoOp BY <1>1, <1>2, <1>3, NoOpType, QuietCalm, Zenon DEF Calm
<1>4. CASE UNCHANGED op BY <1>1, <1>2, <1>4, LibraryInv, Zenon
<1>5. CASE op' = [op EXCEPT !.pc = "failed"]
  <2>1. op' \in Operation /\ op'.pc = "failed" /\ op'.pend = op.pend BY <1>1, <1>5, PcStep DEF Pcs, Calm
  <2> QED BY <1>1, <1>2, <2>1, QuietCalm, Zenon DEF Calm
<1>6. ASSUME NEW x \in {"member", "prepare"}, op' = [op EXCEPT !.pc = x] PROVE IInv'
  <2>1. /\ op' \in Operation /\ op'.pc = x /\ op'.kind = op.kind /\ op'.pend = op.pend
        /\ op'.total = op.total /\ op'.before = op.before /\ op'.i = op.i
    BY <1>1, <1>6, PcStep DEF Pcs, Calm
  <2> QED BY <1>1, <1>2, <1>6, <2>1, LibraryInv, Zenon
<1> QED BY <1>3, <1>4, <1>5, <1>6, Zenon DEF SettleIntent, SaveIntent, SaveMember

\* The steps after an admission that failed, the moves between library groups, and
\* the last step of a start.
LEMMA AnswersInv ==
  ASSUME IInv, Failed \/ Unlist \/ MoveBatch \/ StartupLibrary \/ SyncFails
  PROVE  IInv'
<1>1. op \in Operation /\ (sched # <<>> => op.pc \in {"idle", "rollback0", "check"}) /\ StepOK
  BY Zenon DEF IInv, TypeOK, SchedOK
<1>2. UNCHANGED saved /\ UNCHANGED <<sched, live, enqueued, ids>>
  BY Zenon DEF Failed, Unlist, MoveBatch, StartupLibrary, SyncFails, saved, disk, memory, history
<1>3. CASE op' = NoOp BY <1>1, <1>2, <1>3, NoOpType, QuietCalm, Zenon DEF Calm
<1>4. CASE UNCHANGED op /\ op.pc = "idle"
  BY <1>1, <1>2, <1>4, QuietCalm, Zenon DEF Calm, StepOK
<1>5. ASSUME NEW x \in {"down", "rollback"}, op' = [op EXCEPT !.pc = x],
             op.pc \in {"starting", "reserve"}
      PROVE  IInv'
  <2>1. /\ op' \in Operation /\ op'.pc = x /\ op'.pend = op.pend /\ op'.kind = op.kind
    BY <1>1, <1>5, PcStep DEF Pcs, Calm
  <2> QED BY <1>1, <1>2, <1>5, <2>1, QuietCalm, Zenon DEF Calm, StepOK
<1> QED BY <1>3, <1>4, <1>5, Zenon DEF Failed, Unlist, MoveBatch, StartupLibrary, SyncFails, memory

\* The release of a finished batch's handles.
LEMMA ReleaseInv ==
  ASSUME IInv, ReleaseBatch
  PROVE  IInv'
<1> USE DEF ReleaseBatch, disk, history
<1>1. TypeOK' BY DEF IInv, TypeOK
<1>2. Drawn' BY DEF IInv, Drawn, Planned, Pending
<1>3. Disk' BY Quiet, Zenon DEF IInv, Disk, saved
<1>4. HistoryOK' BY Zenon DEF IInv, HistoryOK, Loose, Alive, Exists, Pending, Shown
<1>5. PlanOK' /\ AdmitOK' /\ DeleteOK' BY CalmOp, Zenon DEF Calm
<1>6. StepOK' BY Zenon DEF IInv, StepOK
<1>7. SchedOK' BY Zenon DEF IInv, SchedOK
<1> QED BY <1>1, <1>2, <1>3, <1>4, <1>5, <1>6, <1>7, Zenon DEF IInv, Disk

\* The Controller stops at any point.
LEMMA StopInv ==
  ASSUME IInv, Stop
  PROVE  IInv'
<1> USE DEF Stop, disk, history
<1>1. op' \in Operation /\ op'.pc = "down" /\ op'.kind = "none" /\ op'.pend = <<>>
  BY NoOpType, PcStep DEF Pcs, Calm
<1>2. TypeOK' BY <1>1 DEF IInv, TypeOK, States
<1>3. Drawn' BY <1>1 DEF IInv, Drawn, Planned, Pending
<1>4. Disk' BY Quiet, Zenon DEF IInv, Disk, saved
<1>5. HistoryOK' BY Zenon DEF IInv, HistoryOK, Loose, Alive, Exists, Pending, Shown
<1>6. PlanOK' /\ AdmitOK' /\ DeleteOK' BY <1>1, CalmOp, Zenon DEF Calm
<1>7. StepOK' BY <1>1, Zenon DEF IInv, StepOK
<1>8. SchedOK' BY Zenon DEF SchedOK
<1> QED BY <1>2, <1>3, <1>4, <1>5, <1>6, <1>7, <1>8, Zenon DEF IInv, Disk
-----------------------------------------------------------------------------
\* A step of the scheduler that only records the progress of its runs.
LEMMA SchedulerKeeps ==
  ASSUME IInv, sched # <<>>, Progress, UNCHANGED <<op, ids, enqueued>>,
         live' \in [Run -> States], sched' \in Seq(Run), sched' # <<>>,
         \A i \in DOMAIN sched' : Exists(sched'[i]),
         \A r \in Run : live'[r] = "running" => r = sched'[1] /\ files'[r].started
  PROVE  IInv'
<1>1. TypeOK' BY Zenon DEF IInv, TypeOK, Progress
<1>2. Drawn' BY DEF IInv, Drawn, Planned, Pending, Progress
<1>3. Disk' BY ProgressKeeps, Zenon DEF IInv, Disk
<1>4. HistoryOK' BY Zenon DEF IInv, HistoryOK, Loose, Alive, Pending, Shown, Progress
<1>5. op.pc \in {"idle", "rollback0", "check"} /\ committed # {} BY Zenon DEF IInv, SchedOK
<1>6. PlanOK' /\ AdmitOK' /\ DeleteOK' BY <1>5, CalmOp, Zenon DEF Calm
<1>7. StepOK' BY <1>5, Zenon DEF IInv, StepOK, Progress
<1>8. SchedOK'
  <2>1. \A i \in DOMAIN sched' : sched'[i] \in Run OBVIOUS
  <2>2. \A r \in Run : Exists(r)' = Exists(r) BY Zenon DEF Progress
  <2>3. (\A i \in DOMAIN sched : Exists(sched[i]))' BY <2>1, <2>2, Zenon DEF Exists
  <2> QED BY <1>5, <2>3, Zenon DEF SchedOK, Progress
<1> QED BY <1>1, <1>2, <1>3, <1>4, <1>6, <1>7, <1>8, Zenon DEF IInv, Disk

\* A run's file with another state.
LEMMA FileEnds ==
  ASSUME NEW f \in File, NEW x \in States, NEW g, g = [f EXCEPT !.st = x]
  PROVE  /\ g \in File /\ g.st = x /\ g.it = f.it /\ g.total = f.total
         /\ g.prev = f.prev /\ g.started = f.started
  BY Zenon DEF File

\* The elements of a tail.
LEMMA TailFacts ==
  ASSUME NEW S, NEW s \in Seq(S), s # <<>>
  PROVE  /\ Tail(s) \in Seq(S)
         /\ \A i \in DOMAIN Tail(s) : i + 1 \in DOMAIN s /\ Tail(s)[i] = s[i + 1]
  OBVIOUS

\* The files after the runs S, which are stored, ended in the states ends.
Ended(S, ends) == [r \in Run |-> IF r \in S THEN [files[r] EXCEPT !.st = ends[r]] ELSE files[r]]

\* Saving the final states of a set of runs is progress of these runs.
LEMMA EndedIsProgress ==
  ASSUME IInv, sched # <<>>, NEW S \in SUBSET Run, NEW ends \in [Run -> {"completed", "failed", "canceled"}],
         \A r \in S : Exists(r), \A r \in S : ends[r] = "completed" => files[r].started,
         files' = Ended(S, ends), UNCHANGED <<fence, batch, legacy, committed, exposed>>
  PROVE  Progress /\ \A r \in Run : files'[r].started = files[r].started
<1>1. files \in [Run -> File] BY Zenon DEF IInv, TypeOK
<1>2. ASSUME NEW r \in Run
      PROVE  /\ files'[r] \in File
             /\ files'[r].it = files[r].it /\ files'[r].total = files[r].total
             /\ files'[r].prev = files[r].prev /\ files'[r].started = files[r].started
             /\ Exists(r)' = Exists(r)
             /\ files'[r].st = "completed" => files'[r].started
  <2>1. files[r].st = "completed" => files[r].started BY Zenon DEF IInv, FilesOK
  <2>2. CASE r \in S
    <3>1. files'[r] = [files[r] EXCEPT !.st = ends[r]] BY <2>2, Zenon DEF Ended
    <3>2. ends[r] \in States /\ ends[r] \notin {"none", "dir"} BY Zenon DEF States
    <3>3. /\ files'[r] \in File /\ files'[r].st = ends[r]
          /\ files'[r].it = files[r].it /\ files'[r].total = files[r].total
          /\ files'[r].prev = files[r].prev /\ files'[r].started = files[r].started
      BY <1>1, <3>1, <3>2, FileEnds
    <3> QED BY <2>2, <3>2, <3>3, Zenon DEF Exists
  <2>3. CASE r \notin S
    <3>1. files'[r] = files[r] BY <2>3, Zenon DEF Ended
    <3> QED BY <1>1, <2>1, <3>1, Zenon DEF Exists
  <2> QED BY <2>2, <2>3, Zenon
<1>3. files' \in [Run -> File] BY <1>2, Zenon DEF Ended
<1>4. batch.pending = <<>> BY Zenon DEF IInv, SchedOK
<1> QED BY <1>2, <1>3, <1>4, Zenon DEF Progress

\* The scheduler of a batch starts its next run.
LEMMA StartRunInv ==
  ASSUME IInv, StartRun
  PROVE  IInv' /\ Progress
<1>1. /\ files \in [Run -> File] /\ live \in [Run -> States] /\ sched \in Seq(Run)
      /\ sched # <<>> /\ sched[1] \in Run /\ Exists(sched[1]) /\ batch.pending = <<>>
      /\ UNCHANGED <<fence, batch, legacy, committed, exposed, op, ids, enqueued, sched>>
  BY SeqFacts, Zenon DEF IInv, TypeOK, SchedOK, StartRun, history
<1>2. PICK h \in Run : h = sched[1] BY <1>1, Zenon
<1>3. PICK g : g = [files[h] EXCEPT !.st = "running", !.started = TRUE] BY Zenon
<1>4. /\ g.st = "running" /\ g.it = files[h].it /\ g.total = files[h].total
      /\ g.prev = files[h].prev /\ g.started
  BY <1>1, <1>3 DEF File
<1>5. g \in File
  <2>1. files[h] \in File /\ "running" \in States /\ TRUE \in BOOLEAN BY <1>1, Zenon DEF States
  <2> QED BY <1>3, <2>1, Zenon DEF File
<1>6. files' = [files EXCEPT ![h] = g] BY <1>1, <1>2, <1>3, Zenon DEF StartRun
<1>7. /\ files' \in [Run -> File] /\ files'[h] = g
      /\ \A r \in Run : r # h => files'[r] = files[r]
  BY <1>1, <1>5, <1>6, Zenon
<1>8. Progress
  <2>1. ASSUME NEW r \in Run
        PROVE  /\ Exists(r)' = Exists(r)
               /\ files'[r].it = files[r].it /\ files'[r].total = files[r].total
               /\ files'[r].prev = files[r].prev
               /\ files[r].started => files'[r].started
               /\ files'[r].st = "completed" => files'[r].started
    BY <1>1, <1>2, <1>4, <1>7, Zenon DEF Exists, IInv, FilesOK
  <2> QED BY <1>1, <1>7, <2>1, Zenon DEF Progress
<1>9. live' \in [Run -> States] BY <1>1, Zenon DEF StartRun, States
<1>10. \A r \in Run : live'[r] = "running" => r = sched[1] /\ files'[r].started
  <2>1. \A r \in Run : live[r] = "running" => r = sched[1] BY Zenon DEF IInv, SchedOK
  <2> QED BY <1>1, <1>2, <1>4, <1>7, <2>1, Zenon DEF StartRun
<1> QED BY <1>1, <1>8, <1>9, <1>10, SchedulerKeeps, Zenon DEF IInv, SchedOK

\* The cancellation of a batch.
LEMMA CancelInv ==
  ASSUME IInv, CancelBatch
  PROVE  IInv' /\ Progress
<1>1. /\ live \in [Run -> States] /\ sched \in Seq(Run)
      /\ sched # <<>> /\ sched[1] \in Run /\ \A i \in DOMAIN sched : Exists(sched[i])
      /\ UNCHANGED <<fence, batch, legacy, committed, exposed, op, ids, enqueued>>
      /\ 1 \in DOMAIN sched /\ live[sched[1]] = "queued"
  BY SeqFacts, Zenon DEF IInv, TypeOK, SchedOK, CancelBatch, history
<1>2. PICK ends : ends = [r \in Run |-> "canceled"] BY Zenon
<1>3. ends \in [Run -> {"completed", "failed", "canceled"}] /\ \A r \in Run : ends[r] = "canceled"
  BY <1>2, Zenon
<1>4. Listed(sched) \in SUBSET Run /\ \A r \in Listed(sched) : Exists(r) BY <1>1, SeqFacts DEF Listed
<1>5. files' = Ended(Listed(sched), ends)
  BY <1>3, Zenon DEF Ended, CancelBatch, End
<1>6. Progress BY <1>1, <1>3, <1>4, <1>5, EndedIsProgress, Zenon
<1>7. live' = [r \in Run |-> IF r \in Listed(sched) THEN "canceled" ELSE live[r]] /\ sched' = <<sched[1]>>
  BY Zenon DEF CancelBatch, End
<1>8. live' \in [Run -> States] BY <1>1, <1>7, Zenon DEF States
<1>9. \A r \in Run : live'[r] # "running"
  <2>1. \A r \in Run : live[r] = "running" => r = sched[1] BY Zenon DEF IInv, SchedOK
  <2> QED BY <1>1, <1>7, <2>1, Zenon
<1>10. sched' \in Seq(Run) /\ sched' # <<>> /\ \A i \in DOMAIN sched' : Exists(sched'[i])
  BY <1>1, <1>7
<1> QED BY <1>1, <1>6, <1>8, <1>9, <1>10, SchedulerKeeps, Zenon

\* A run ends, and with it the rest of the batch unless it completed.
LEMMA FinishInv ==
  ASSUME IInv, NEW st \in {"completed", "failed", "canceled"}, FinishRun(st)
  PROVE  IInv' /\ Progress
<1>1. /\ files \in [Run -> File] /\ live \in [Run -> States] /\ sched \in Seq(Run)
      /\ sched # <<>> /\ sched[1] \in Run /\ \A i \in DOMAIN sched : Exists(sched[i])
      /\ UNCHANGED <<fence, batch, legacy, committed, exposed, op, ids, enqueued>>
      /\ 1 \in DOMAIN sched /\ live[sched[1]] = "running"
  BY SeqFacts, Zenon DEF IInv, TypeOK, SchedOK, FinishRun, history
<1>2. PICK h \in Run : h = sched[1] BY <1>1, Zenon
<1>3. PICK rest : rest = Listed(Tail(sched)) BY Zenon
<1>4. /\ Tail(sched) \in Seq(Run)
      /\ \A i \in DOMAIN Tail(sched) : Exists(Tail(sched)[i]) /\ Tail(sched)[i] \in Run
  BY <1>1, TailFacts, SeqFacts
<1>5. rest \in SUBSET Run /\ (\A r \in rest : Exists(r)) /\ (rest # {} => Tail(sched) # <<>>)
  BY <1>3, <1>4 DEF Listed
<1>6. Exists(h) /\ files[h].started /\ \A r \in Run : live[r] = "running" => r = h
  BY <1>1, <1>2, Zenon DEF IInv, SchedOK
<1>7. \/ /\ st = "completed"
         /\ live' = [r \in Run |-> IF r \in {h} THEN st ELSE live[r]]
         /\ files' = [r \in Run |-> IF r \in {h} THEN [files[r] EXCEPT !.st = st] ELSE files[r]]
         /\ sched' = IF rest = {} THEN sched ELSE Tail(sched)
      \/ /\ st # "completed" /\ sched' = <<h>>
         /\ live' = [m \in Run |-> IF m = h THEN st ELSE IF m \in rest THEN "canceled" ELSE live[m]]
         /\ files' = [m \in Run |-> IF m = h THEN [files[m] EXCEPT !.st = st]
                                    ELSE IF m \in rest THEN [files[m] EXCEPT !.st = "canceled"]
                                    ELSE files[m]]
      \/ /\ sched' = <<h>>
         /\ live' = [m \in Run |-> IF m = h THEN (IF batch.total > 1 THEN "failed" ELSE st)
                                   ELSE IF m \in rest THEN "canceled" ELSE live[m]]
         /\ files' = [m \in Run |-> IF m \in rest THEN [files[m] EXCEPT !.st = "canceled"] ELSE files[m]]
  BY <1>2, <1>3, Zenon DEF FinishRun, End
<1>8. Progress
  <2>1. PICK ends : ends = [r \in Run |-> IF r = h THEN st ELSE "canceled"] BY Zenon
  <2>2. /\ ends \in [Run -> {"completed", "failed", "canceled"}]
        /\ ends[h] = st /\ \A r \in Run : r # h => ends[r] = "canceled"
    BY <2>1, Zenon
  <2>3. PICK cut : cut = [r \in Run |-> "canceled"] BY Zenon
  <2>4. /\ cut \in [Run -> {"completed", "failed", "canceled"}]
        /\ \A r \in Run : cut[r] = "canceled"
    BY <2>3, Zenon
  <2>5. CASE files' = [r \in Run |-> IF r \in {h} THEN [files[r] EXCEPT !.st = st] ELSE files[r]]
    <3>1. files' = Ended({h}, ends) BY <2>2, <2>5, Zenon DEF Ended
    <3> QED BY <1>1, <1>6, <2>2, <3>1, EndedIsProgress
  <2>6. CASE files' = [m \in Run |-> IF m = h THEN [files[m] EXCEPT !.st = st]
                                     ELSE IF m \in rest THEN [files[m] EXCEPT !.st = "canceled"]
                                     ELSE files[m]]
    <3>1. files' = Ended({h} \cup rest, ends) BY <2>2, <2>6, Zenon DEF Ended
    <3>2. /\ {h} \cup rest \in SUBSET Run /\ \A r \in {h} \cup rest : Exists(r)
          /\ \A r \in {h} \cup rest : ends[r] = "completed" => files[r].started
      BY <1>5, <1>6, <2>2, Zenon
    <3> QED BY <1>1, <2>2, <3>1, <3>2, EndedIsProgress, Zenon
  <2>7. CASE files' = [m \in Run |-> IF m \in rest THEN [files[m] EXCEPT !.st = "canceled"] ELSE files[m]]
    <3>1. files' = Ended(rest, cut) BY <1>5, <2>4, <2>7, Zenon DEF Ended
    <3> QED BY <1>1, <1>5, <2>4, <3>1, EndedIsProgress, Zenon
  <2> QED BY <1>7, <2>5, <2>6, <2>7, Zenon
<1>9. live' \in [Run -> States] BY <1>1, <1>7, Zenon DEF States
<1>10. \A r \in Run : live'[r] # "running" BY <1>6, <1>7
<1>11. sched' \in Seq(Run) /\ sched' # <<>> /\ \A i \in DOMAIN sched' : Exists(sched'[i])
  <2>1. CASE sched' = <<h>> BY <1>6, <2>1
  <2>2. CASE sched' = IF rest = {} THEN sched ELSE Tail(sched)
    BY <1>1, <1>4, <1>5, <2>2, Zenon
  <2> QED BY <1>7, <2>1, <2>2, Zenon
<1> QED BY <1>1, <1>8, <1>9, <1>10, <1>11, SchedulerKeeps, Zenon
-----------------------------------------------------------------------------
\* The plan of the operation in progress.
LEMMA OpFacts ==
  ASSUME TypeOK
  PROVE  /\ op \in Operation /\ op.pend \in Seq(Plan) /\ op.total \in 0..MaxTotal
         /\ op.before \in Seq(File) /\ Len(op.pend) \in Nat /\ DOMAIN op.pend = 1..Len(op.pend)
         /\ op.pend = <<>> <=> DOMAIN op.pend = {}
         /\ \A i \in DOMAIN op.pend : op.pend[i] \in Plan /\ op.pend[i].id \in Run /\ op.pend[i].f \in File
         /\ op.i \in Nat
<1>1. op \in Operation /\ op.pend \in Seq(Plan) /\ op.total \in 0..MaxTotal /\ op.before \in Seq(File) /\ op.i \in Nat
  BY Zenon DEF TypeOK, Operation
<1>2. \A i \in DOMAIN op.pend : op.pend[i] \in Plan BY <1>1, SeqFacts, Zenon
<1>3. /\ Len(op.pend) \in Nat /\ DOMAIN op.pend = 1..Len(op.pend)
      /\ op.pend = <<>> <=> DOMAIN op.pend = {}
  BY <1>1, SeqFacts, Zenon
<1> QED BY <1>1, <1>2, <1>3, Zenon DEF Plan

\* An admitted batch is queued.
LEMMA EnqueueInv ==
  ASSUME IInv, Enqueue
  PROVE  IInv'
<1>0. /\ op.pend \in Seq(Plan) /\ DOMAIN op.pend = 1..Len(op.pend) /\ Len(op.pend) \in Nat
      /\ \A i \in DOMAIN op.pend : op.pend[i].id \in Run
      /\ op.pend = <<>> <=> DOMAIN op.pend = {}
  BY OpFacts, Zenon DEF IInv
<1>1. /\ UNCHANGED saved /\ ids' = ids /\ op' = NoOp /\ op.pend # <<>>
      /\ sched' = [i \in DOMAIN op.pend |-> op.pend[i].id]
      /\ live' = [r \in Run |-> IF r \in Listed(sched') THEN "queued" ELSE live[r]]
      /\ enqueued' = IF op.kind = "submit" THEN enqueued + 1 ELSE enqueued
  BY Zenon DEF IInv, PlanOK, Enqueue, saved
<1>2. /\ committed # {} /\ batch.pending = <<>> /\ (op.kind = "submit" => enqueued = 0)
      /\ sched = <<>> /\ \A i \in DOMAIN op.pend : Exists(op.pend[i].id)
  BY Zenon DEF IInv, StepOK, PlanOK, Enqueue
<1>3. sched' \in Seq(Run) /\ DOMAIN sched' = DOMAIN op.pend
  BY <1>0, <1>1, SeqIntro, Zenon
<1>4. sched' # <<>> BY <1>0, <1>1, <1>3, SeqFacts, Zenon
<1>5. TypeOK'
  <2>1. live' \in [Run -> States] BY <1>1, Zenon DEF IInv, TypeOK, States
  <2> QED BY <1>1, <1>3, <2>1, NoOpType DEF IInv, TypeOK, saved
<1>6. Drawn'
  <2>1. Planned' = {} BY <1>1, NoOpType DEF Planned
  <2> QED BY <1>1, <2>1, Zenon DEF IInv, Drawn, Pending, saved
<1>7. Disk' BY <1>1, Quiet, Zenon DEF IInv, Disk
<1>8. HistoryOK'
  <2>1. enqueued' <= 1 BY <1>1, <1>2 DEF IInv, HistoryOK
  <2> QED BY <1>1, <1>2, <2>1, Zenon DEF IInv, HistoryOK, Loose, Alive, Exists, Pending, Shown, saved
<1>9. PlanOK' /\ AdmitOK' /\ DeleteOK' BY <1>1, NoOpType, CalmOp, Zenon DEF Calm
<1>10. StepOK' BY <1>1, NoOpType, Zenon DEF StepOK
<1>11. SchedOK'
  <2>1. \A i \in DOMAIN sched' : sched'[i] = op.pend[i].id BY <1>1, <1>3, Zenon
  <2>2. (\A i \in DOMAIN sched : Exists(sched[i]))' BY <1>1, <1>2, <1>3, <2>1, Zenon DEF Exists, saved
  <2>3. \A r \in Run : live'[r] # "running" BY <1>1, <1>2, Zenon DEF IInv, SchedOK
  <2> QED BY <1>1, <1>2, <2>2, <2>3, NoOpType, Zenon DEF SchedOK, saved
<1> QED BY <1>5, <1>6, <1>7, <1>8, <1>9, <1>10, <1>11, Zenon DEF IInv, Disk

\* A record with nothing pending hides no run.
LEMMA NothingPending ==
  ASSUME TypeOK, RecordOK, batch.pending = <<>>
  PROVE  /\ Pending(batch) = {} /\ batch.before = <<>>
         /\ \A r \in Run : (Loose(r) <=> Alive(r))
<1>1. Pending(batch) = {} BY DEF Pending, Listed
<1>2. batch.before \in Seq(File) /\ Len(batch.pending) = 0 BY Zenon DEF TypeOK, Record
<1>3. batch.before = <<>> BY <1>2 DEF RecordOK
<1> QED BY <1>1, <1>3, Zenon DEF Loose

\* A group without a record has no published admission.
LEMMA Unpublished == batch = NoBatch => ~Published
  BY NoBatchType, Zenon DEF Published

\* commitBatchAdmissionLocked: the record that names the pending runs.
LEMMA PreparedFacts ==
  ASSUME IInv, op.pc = "prepare", NEW p, p = Prepared
  PROVE  /\ p \in Record /\ p.pending = [i \in DOMAIN op.pend |-> op.pend[i].id]
         /\ p.pendingTotal = op.total /\ p.before = op.before /\ p.retired = batch.retired
         /\ batch # NoBatch => p.total = batch.total
         /\ batch = NoBatch /\ op.kind = "submit" => p.total = op.total
         /\ batch = NoBatch /\ op.kind # "submit" => \E r \in Run : Loose(r) /\ p.total = files[r].total
         /\ \A i \in Iteration : batch.current[i] # 0 => p.current[i] # 0
         /\ op.kind # "submit" => \E i \in Iteration : p.current[i] # 0
<1>1. /\ batch \in Record /\ files \in [Run -> File] /\ op \in Operation /\ op.pend \in Seq(Plan)
      /\ op.total \in 0..MaxTotal /\ op.before \in Seq(File) /\ batch.pending = <<>>
      /\ Len(op.pend) \in Nat /\ DOMAIN op.pend = 1..Len(op.pend)
      /\ \A i \in DOMAIN op.pend : op.pend[i].id \in Run
  BY OpFacts, Zenon DEF IInv, TypeOK, StepOK
<1>2. \A r \in CurrentBatchMembers : r \in Run /\ Readable(r) BY Zenon DEF CurrentBatchMembers, AllBatchMembers
<1>3. \A r \in CurrentBatchMembers : Loose(r)
  BY <1>1, <1>2, NothingPending, Zenon DEF Readable, Alive, IInv
<1> DEFINE base == IF batch # NoBatch THEN batch
                   ELSE [NoBatch EXCEPT !.total = IF op.kind = "submit" THEN op.total
                                                  ELSE Total(CHOOSE r \in CurrentBatchMembers : TRUE)]
           named(i) == {r \in CurrentBatchMembers : op.kind # "submit" /\ files[r].it = i}
           current == [i \in Iteration |->
                         IF base.current[i] = 0 /\ named(i) # {} THEN CHOOSE r \in named(i) : TRUE
                         ELSE base.current[i]]
           pend == [i \in DOMAIN op.pend |-> op.pend[i].id]
<1>4. op.kind # "submit" => (CHOOSE r \in CurrentBatchMembers : TRUE) \in CurrentBatchMembers
  BY Zenon DEF IInv, StepOK
<1>5. batch = NoBatch => \A r \in Run : Total(r) = files[r].total BY Zenon DEF Total
<1>6. /\ base \in Record /\ base.retired = batch.retired /\ base.current = batch.current
      /\ batch # NoBatch => base.total = batch.total
      /\ batch = NoBatch /\ op.kind = "submit" => base.total = op.total
      /\ batch = NoBatch /\ op.kind # "submit" => \E r \in Run : Loose(r) /\ base.total = files[r].total
  <2>1. CASE batch # NoBatch BY <1>1, <2>1, Zenon
  <2>2. CASE batch = NoBatch
    <3> DEFINE t == IF op.kind = "submit" THEN op.total ELSE Total(CHOOSE r \in CurrentBatchMembers : TRUE)
    <3>1. /\ op.kind = "submit" => t = op.total
          /\ op.kind # "submit" => t = Total(CHOOSE r \in CurrentBatchMembers : TRUE)
      BY Zenon
    <3>2. op.kind # "submit" => \E r \in Run : Loose(r) /\ t = files[r].total
      BY <1>2, <1>3, <1>4, <1>5, <2>2, <3>1, Zenon
    <3>3. t \in 0..MaxTotal BY <1>1, <3>1, <3>2, Zenon DEF File
    <3>4. base = [NoBatch EXCEPT !.total = t] BY <2>2, Zenon
    <3> HIDE DEF t
    <3>5. /\ base \in Record /\ base.total = t /\ base.retired = NoBatch.retired
          /\ base.current = NoBatch.current
      BY <3>3, <3>4, NoBatchType DEF Record
    <3> QED BY <2>2, <3>1, <3>2, <3>5, Zenon
  <2> QED BY <2>1, <2>2, Zenon
<1>7. p = [base EXCEPT !.pending = pend, !.pendingTotal = op.total, !.before = op.before, !.current = current]
  BY Zenon DEF Prepared
<1>8. ASSUME NEW i \in Iteration
      PROVE  /\ current[i] = IF base.current[i] = 0 /\ named(i) # {} THEN CHOOSE r \in named(i) : TRUE
                             ELSE base.current[i]
             /\ named(i) # {} => (CHOOSE r \in named(i) : TRUE) \in Run /\ (CHOOSE r \in named(i) : TRUE) # 0
  <2>1. named(i) \subseteq Run BY <1>2, Zenon
  <2>2. named(i) # {} => (CHOOSE r \in named(i) : TRUE) \in named(i) BY Zenon
  <2> QED BY <2>1, <2>2 DEF Run
<1>9. DOMAIN current = Iteration /\ current = [i \in Iteration |-> current[i]] OBVIOUS
<1>10. base.current \in [Iteration -> 0..MaxRuns] BY <1>6, Zenon DEF Record
<1> HIDE DEF base, current, named
<1>11. current \in [Iteration -> 0..MaxRuns]
  <2>1. ASSUME NEW i \in Iteration PROVE current[i] \in 0..MaxRuns
    <3>1. \A r \in Run : r \in 0..MaxRuns BY BatchConstants DEF Run
    <3> QED BY <1>8, <1>10, <3>1, Zenon
  <2> QED BY <1>9, <2>1, Zenon
<1>12. pend \in Seq(Run) BY <1>1, SeqIntro, Zenon
<1> HIDE DEF pend
<1>13. /\ p \in Record /\ p.pending = pend /\ p.pendingTotal = op.total /\ p.before = op.before
       /\ p.current = current /\ p.total = base.total /\ p.retired = base.retired
  <2>1. base \in Record /\ op.total \in 0..MaxTotal /\ op.before \in Seq(File) BY <1>1, <1>6, Zenon
  <2>2. PICK b \in Record : b = base BY <2>1, Zenon
  <2>3. PICK c \in [Iteration -> 0..MaxRuns] : c = current BY <1>11, Zenon
  <2>4. PICK q \in Seq(Run) : q = pend BY <1>12, Zenon
  <2>5. p = [b EXCEPT !.pending = q, !.pendingTotal = op.total, !.before = op.before, !.current = c]
    BY <1>7, <2>2, <2>3, <2>4, Zenon
  <2>6. /\ p \in Record /\ p.pending = q /\ p.pendingTotal = op.total /\ p.before = op.before
        /\ p.current = c /\ p.total = b.total /\ p.retired = b.retired
    BY <2>1, <2>5, Zenon DEF Record
  <2> QED BY <2>2, <2>3, <2>4, <2>6, Zenon
<1>14. \A i \in Iteration : batch.current[i] # 0 => current[i] # 0 BY <1>6, <1>8, Zenon
<1>15. op.kind # "submit" => \E i \in Iteration : current[i] # 0
  <2> HAVE op.kind # "submit"
  <2>1. PICK r \in CurrentBatchMembers : files[r].it \in Iteration BY Zenon DEF IInv, StepOK
  <2>2. r \in named(files[r].it) BY <2>1, Zenon DEF named
  <2> QED BY <1>8, <2>1, <2>2, Zenon
<1> QED BY <1>6, <1>13, <1>14, <1>15, Zenon DEF pend

\* The record of an admission names the runs of its plan.
LEMMA PlannedPending ==
  ASSUME NEW p, p.pending = [i \in DOMAIN op.pend |-> op.pend[i].id]
  PROVE  Pending(p) = Planned /\ DOMAIN p.pending = DOMAIN op.pend
         /\ \A i \in DOMAIN op.pend : p.pending[i] = op.pend[i].id
  BY DEF Pending, Listed, Planned

\* Writing that record keeps the saved group consistent: the runs it hides are
\* either new or given back by their before-images.
LEMMA PreparedKeeps ==
  ASSUME IInv, op.pc = "prepare", batch' = Prepared,
         UNCHANGED <<files, fence, legacy, committed, exposed, enqueued>>
  PROVE  /\ Disk' /\ HistoryOK' /\ batch'.total >= 1
         /\ op.before # <<>> => batch'.total = op.total
<1>1. PICK p : p = Prepared BY Zenon
<1>2. /\ p \in Record /\ p.pendingTotal = op.total /\ p.before = op.before /\ p.retired = batch.retired
      /\ p.pending = [i \in DOMAIN op.pend |-> op.pend[i].id]
      /\ batch # NoBatch => p.total = batch.total
      /\ batch = NoBatch /\ op.kind = "submit" => p.total = op.total
      /\ batch = NoBatch /\ op.kind # "submit" => \E r \in Run : Loose(r) /\ p.total = files[r].total
      /\ \A i \in Iteration : batch.current[i] # 0 => p.current[i] # 0
      /\ op.kind # "submit" => \E i \in Iteration : p.current[i] # 0
  BY <1>1, PreparedFacts, Zenon
<1>3. /\ batch' = p /\ Pending(p) = Planned /\ DOMAIN p.pending = DOMAIN op.pend
      /\ \A i \in DOMAIN op.pend : p.pending[i] = op.pend[i].id
  BY <1>1, <1>2, PlannedPending, Zenon
<1>4. batch.pending = <<>> /\ Pending(batch) = {} /\ batch.before = <<>>
      /\ \A r \in Run : Loose(r) <=> Alive(r)
  BY NothingPending, Zenon DEF IInv, StepOK
<1>5. /\ op.kind = "submit" => committed = {} /\ op.before = <<>>
      /\ op.before = <<>> => Planned \cap (Shown \cup fence) = {}
      /\ op.before # <<>> =>
           /\ Len(op.before) = Len(op.pend) /\ batch.total \in {0, op.total}
           /\ \A i \in DOMAIN op.pend : ReusedPlan(op.pend[i], op.before[i])
  BY Zenon DEF IInv, AdmitOK
<1>6. /\ op.total >= 1 /\ op.pend # <<>> /\ op.total \in Nat
      /\ \A i \in DOMAIN op.pend : op.pend[i].id \in Run
      /\ 1 \in DOMAIN op.pend /\ Len(op.pend) \in Nat /\ DOMAIN op.pend = 1..Len(op.pend)
      /\ files \in [Run -> File] /\ batch \in Record /\ op.before \in Seq(File)
  BY OpFacts, BatchConstants DEF IInv, TypeOK, PlanOK
<1>7. \A r \in Run : Alive(r) => files[r].total >= 1 /\ files[r].total \in Nat /\ r \in Shown
  BY <1>4, <1>6 DEF IInv, FilesOK, HistoryOK, Alive, File
<1>8. Published => Published' BY <1>2, <1>3, Zenon DEF Published
<1>9. op.kind # "submit" => Published' BY <1>2, <1>3, Zenon DEF Published
<1>10. p.total >= 1 /\ p.total \in Nat
  <2>1. batch.total \in Nat /\ (batch.total = 0 => batch = NoBatch)
    BY <1>6, BatchConstants DEF IInv, RecordOK, Record
  <2> QED BY <1>2, <1>4, <1>6, <1>7, <2>1
<1>11. p # NoBatch BY <1>10, NoBatchType
<1>12. batch = NoBatch => \A r, m \in Run : Alive(r) /\ Alive(m) => files[r].total = files[m].total
  BY <1>4, Unpublished, Zenon DEF IInv, TotalsOK
<1>13. op.before # <<>> => p.total = op.total
  <2> HAVE op.before # <<>>
  <2>1. op.kind # "submit" BY <1>5, Zenon
  <2>2. Alive(op.pend[1].id) /\ files[op.pend[1].id].total = op.total BY <1>5, <1>6, Zenon DEF ReusedPlan
  <2>3. CASE batch = NoBatch BY <1>2, <1>4, <1>6, <1>12, <2>1, <2>2, <2>3, Zenon
  <2>4. CASE batch # NoBatch BY <1>2, <1>5, <2>4, Zenon DEF IInv, RecordOK
  <2> QED BY <2>3, <2>4, Zenon
<1>14. \A r \in Run : Alive(r)' = Alive(r) BY Zenon DEF Alive, Exists
<1>15. Shown' = Shown BY Zenon DEF Shown
<1>16. FilesOK' BY Zenon DEF IInv, FilesOK, Exists, Shown
<1>17. RecordOK'
  <2>1. ASSUME NEW r \in Planned, Alive(r) PROVE files[r].total = op.total
    <3>1. PICK i \in DOMAIN op.pend : r = op.pend[i].id BY Zenon DEF Planned
    <3>2. r \in Shown BY <1>6, <1>7, <2>1, <3>1, Zenon
    <3>3. op.before # <<>> BY <1>5, <3>2, Zenon
    <3> QED BY <1>5, <3>1, <3>3, Zenon DEF ReusedPlan
  <2>2. ASSUME op.before # <<>>, NEW i \in DOMAIN op.pend PROVE Reused(batch.pending[i], batch.before[i])'
    <3>1. ReusedPlan(op.pend[i], op.before[i]) BY <1>5, <2>2, Zenon
    <3>2. files[op.pend[i].id].prev \subseteq Shown BY <1>6, Zenon DEF IInv, FilesOK
    <3>3. batch'.retired = batch.retired /\ batch'.total = op.total BY <1>2, <1>3, <1>13, <2>2, Zenon
    <3>4. batch'.pending[i] = op.pend[i].id /\ batch'.before[i] = op.before[i] BY <1>2, <1>3, Zenon
    <3> QED BY <3>1, <3>2, <3>3, <3>4, Zenon DEF Reused, ReusedPlan, Shown, Alive, Exists
  <2>3. batch'.total # 0 BY <1>3, <1>10
  <2>4. \A r \in Pending(batch') : Alive(r)' => files'[r].total = batch'.pendingTotal
    <3>1. ASSUME NEW r \in Planned PROVE r \in Run BY <1>6, Zenon DEF Planned
    <3> QED BY <1>2, <1>3, <1>14, <2>1, <3>1, Zenon
  <2>5. batch'.before = <<>> => Pending(batch') \cap Shown' = {} BY <1>2, <1>3, <1>5, <1>15, Zenon
  <2>6. batch'.before # <<>> => Len(batch'.before) = Len(batch'.pending) /\ batch'.pendingTotal = batch'.total /\ Published'
    <3>1. Len(p.pending) = Len(op.pend) BY <1>2, <1>6, SeqIntro
    <3> QED BY <1>2, <1>3, <1>5, <1>9, <1>13, <3>1, Zenon
  <2>7. batch'.before # <<>> => \A i \in DOMAIN batch'.pending : Reused(batch.pending[i], batch.before[i])'
    BY <1>2, <1>3, <2>2, Zenon
  <2> QED BY <2>3, <2>4, <2>5, <2>6, <2>7, Zenon DEF RecordOK
<1>18. TotalsOK'
  <2>1. ASSUME NEW r \in Run, Alive(r), batch = NoBatch PROVE files[r].total = p.total
    <3>1. op.kind # "submit"
      <4>1. committed # {} \/ exposed # {} BY <1>7, <2>1, Zenon DEF Shown
      <4> QED BY <1>5, <4>1, Zenon DEF IInv, HistoryOK
    <3> QED BY <1>2, <1>4, <1>12, <2>1, <3>1, Zenon
  <2>2. ASSUME NEW r \in Run, Loose(r)'
        PROVE  /\ files[r].total <= p.total /\ Settled(r, batch.total)'
               /\ ~Published' => files[r].total = p.total
    <3>1. Alive(r) /\ Loose(r) BY <1>4, <1>14, <2>2, Zenon DEF Loose
    <3>2. CASE batch = NoBatch BY <1>3, <1>7, <2>1, <3>1, <3>2 DEF Settled
    <3>3. CASE batch # NoBatch
      BY <1>2, <1>3, <1>8, <3>1, <3>3, Zenon DEF IInv, TotalsOK, Settled
    <3> QED BY <3>2, <3>3, Zenon
  <2> QED BY <1>3, <2>2, Zenon DEF TotalsOK
<1>19. AncestryOK' BY <1>2, <1>3, <1>4, <1>14, Zenon DEF IInv, AncestryOK
<1>20. FirstOK'
  <2>1. ASSUME ~legacy, committed # {} PROVE 1 \in committed /\ 1 \notin Planned
    <3>1. 1 \in committed BY <2>1, Zenon DEF IInv, FirstOK
    <3>2. CASE op.before = <<>> BY <1>5, <3>1, <3>2, Zenon DEF Shown
    <3>3. CASE op.before # <<>>
      <4>1. \A i \in DOMAIN op.pend : op.pend[i].id # 1 BY <1>5, <2>1, <3>3, Zenon DEF ReusedPlan
      <4> QED BY <3>1, <4>1, Zenon DEF Planned
    <3> QED BY <3>1, <3>2, <3>3, Zenon
  <2> QED BY <1>3, <1>8, <2>1, Zenon DEF IInv, FirstOK, Exists
<1>21. HistoryOK'
  <2>1. \A r \in Run : Loose(r)' => r \in Shown BY <1>7, <1>14, Zenon DEF Loose
  <2> QED BY <2>1, Zenon DEF IInv, HistoryOK, Shown
<1> QED BY <1>3, <1>10, <1>13, <1>16, <1>17, <1>18, <1>19, <1>20, <1>21, Zenon DEF Disk

\* The write of that record, whether or not it succeeds.
LEMMA PrepareInv ==
  ASSUME IInv, Prepare
  PROVE  IInv'
<1>1. /\ op.pc = "prepare" /\ op \in Operation /\ sched = <<>> /\ op.i = 1
      /\ UNCHANGED <<files, fence, legacy, committed, exposed, enqueued, live, sched, ids>>
  BY Zenon DEF IInv, TypeOK, PlanOK, StepOK, Prepare
<1>2. PICK x \in {"reserve", "failed"} :
        /\ op' = [op EXCEPT !.pc = x]
        /\ batch' = Prepared \/ (batch' = batch /\ x = "failed")
  BY Zenon DEF Prepare
<1>3. /\ op' \in Operation /\ op'.pc = x /\ op'.kind = op.kind /\ op'.pend = op.pend
      /\ op'.total = op.total /\ op'.before = op.before /\ op'.i = op.i
  BY <1>1, <1>2, PcStep DEF Pcs, Calm
<1>4. CASE batch' = batch /\ x = "failed"
  BY <1>1, <1>3, <1>4, QuietCalm, Zenon DEF Calm, saved, IInv, StepOK
<1>5. CASE batch' = Prepared
  <2>1. /\ Disk' /\ HistoryOK' /\ batch'.total >= 1
        /\ op.before # <<>> => batch'.total = op.total
    BY <1>1, <1>5, PreparedKeeps, Zenon
  <2>2. /\ batch' \in Record /\ batch'.pendingTotal = op.total /\ batch'.before = op.before
        /\ batch'.retired = batch.retired
        /\ batch'.pending = [i \in DOMAIN op.pend |-> op.pend[i].id]
    BY <1>1, <1>5, PreparedFacts, Zenon
  <2>3. Pending(batch') = Planned /\ Planned' = Planned BY <1>3, <2>2, PlannedPending DEF Planned
  <2>4. TypeOK' BY <1>1, <1>3, <2>2, Zenon DEF IInv, TypeOK
  <2>5. Drawn' BY <1>1, <2>3, Zenon DEF IInv, Drawn
  <2>6. PlanOK' BY <1>1, <1>3, Zenon DEF IInv, PlanOK, Shown
  <2>7. AdmitOK'
    <3>1. ASSUME op.before # <<>>, NEW i \in DOMAIN op.pend PROVE ReusedPlan(op.pend[i], op.before[i])'
      <4>1. ReusedPlan(op.pend[i], op.before[i]) BY <1>1, <3>1, Zenon DEF IInv, AdmitOK
      <4> QED BY <1>1, <1>3, <2>2, <4>1, Zenon DEF ReusedPlan, Shown, Alive, Exists
    <3>2. \A r \in Run : Alive(r) /\ r \notin Planned => files[r].total <= op.total /\ Settled(r, op.total)
      BY <1>1, Zenon DEF IInv, AdmitOK
    <3>3. (\A r \in Run : Alive(r) /\ r \notin Planned => files[r].total <= op.total /\ Settled(r, op.total))'
      BY <1>1, <1>3, <2>2, <2>3, <3>2, Zenon DEF Alive, Exists, Settled
    <3>4. (op.before # <<>> => \A i \in DOMAIN op.pend : ReusedPlan(op.pend[i], op.before[i]))'
      BY <1>3, <3>1, Zenon DEF ReusedPlan
    <3> QED BY <1>1, <1>3, <2>1, <2>3, <3>3, <3>4, Zenon DEF IInv, AdmitOK, Shown
  <2>8. StepOK'
    <3>1. batch' # NoBatch BY <2>1, NoBatchType
    <3>2. DOMAIN op.pend = 1..Len(op.pend) BY OpFacts, Zenon DEF IInv
    <3> QED BY <1>1, <1>3, <2>2, <3>1, <3>2 DEF IInv, StepOK
  <2>9. DeleteOK' BY <1>3, Zenon DEF DeleteOK
  <2>10. SchedOK' BY <1>1, Zenon DEF IInv, SchedOK
  <2> QED BY <2>1, <2>4, <2>5, <2>6, <2>7, <2>8, <2>9, <2>10, Zenon DEF IInv, Disk
<1> QED BY <1>2, <1>4, <1>5, Zenon

\* Files of runs that the record names as pending may be rewritten with the total
\* it announces.
LEMMA WritesPending ==
  ASSUME TypeOK, Disk, HistoryOK, files' \in [Run -> File],
         UNCHANGED <<fence, batch, legacy, committed, exposed, enqueued>>,
         \A r \in Run : r \notin Pending(batch) => files'[r] = files[r],
         \A r \in Pending(batch) :
           \/ files'[r] = files[r]
           \/ /\ files'[r].st = "completed" => files'[r].started
              /\ files'[r].prev \subseteq Shown
              /\ Exists(r)' => files'[r].total >= 1 /\ files'[r].total = batch.pendingTotal
              /\ batch.before # <<>> => /\ Exists(r) /\ Exists(r)' /\ ~files[r].started /\ ~files'[r].started
                                        /\ files'[r].prev = files[r].prev
  PROVE  Disk' /\ HistoryOK'
<1>1. /\ files \in [Run -> File] /\ Pending(batch) \subseteq Run /\ Pending(batch)' = Pending(batch)
      /\ \A i \in DOMAIN batch.pending : batch.pending[i] \in Pending(batch)
      /\ Shown' = Shown /\ (Published' <=> Published)
  BY SeqFacts DEF TypeOK, Record, Pending, Listed, Shown, Published
<1>2. \A r \in Run : Loose(r)' => Loose(r) /\ files'[r] = files[r] BY <1>1, Zenon DEF Loose, Alive, Exists
<1>3. FilesOK'
  <2> SUFFICES ASSUME NEW r \in Run
               PROVE  /\ Exists(r)' => files'[r].total >= 1
                      /\ files'[r].st = "completed" => files'[r].started
                      /\ files'[r].prev \subseteq Shown
    BY <1>1, Zenon DEF FilesOK
  <2>1. CASE files'[r] = files[r] BY <2>1, Zenon DEF Disk, FilesOK, Exists
  <2>2. CASE files'[r] # files[r] BY <2>2, Zenon
  <2> QED BY <2>1, <2>2, Zenon
<1>4. RecordOK'
  <2>1. ASSUME NEW r \in Pending(batch), Alive(r)' PROVE files'[r].total = batch.pendingTotal
    <3>1. CASE files'[r] = files[r] BY <2>1, <3>1, Zenon DEF Disk, RecordOK, Alive, Exists
    <3>2. CASE files'[r] # files[r] BY <2>1, <3>2, Zenon DEF Alive
    <3> QED BY <3>1, <3>2, Zenon
  <2>2. ASSUME batch.before # <<>>, NEW i \in DOMAIN batch.pending
        PROVE  Reused(batch.pending[i], batch.before[i])'
    <3>1. Reused(batch.pending[i], batch.before[i]) BY <2>2, Zenon DEF Disk, RecordOK
    <3>2. PICK r \in Pending(batch) : r = batch.pending[i] BY <1>1, Zenon
    <3>3. CASE files'[r] = files[r] BY <1>1, <3>1, <3>2, <3>3, Zenon DEF Reused, Exists
    <3>4. CASE files'[r] # files[r] BY <1>1, <2>2, <3>1, <3>2, <3>4, Zenon DEF Reused
    <3> QED BY <3>3, <3>4, Zenon
  <2> QED BY <1>1, <2>1, <2>2, Zenon DEF Disk, RecordOK
<1>5. TotalsOK' BY <1>1, <1>2 DEF Disk, TotalsOK, Settled
<1>6. AncestryOK'
  <2> SUFFICES ASSUME NEW r \in Run, NEW m \in Run, Alive(r)', Alive(m)', r \in files'[m].prev,
                      m \notin Pending(batch) \/ batch.before # <<>>
               PROVE  r \in batch.retired \/ files'[r].started
    BY <1>1, Zenon DEF AncestryOK
  <2>1. Alive(m) /\ r \in files[m].prev
    <3>1. CASE files'[m] = files[m] BY <3>1, Zenon DEF Alive, Exists
    <3>2. CASE files'[m] # files[m] BY <3>2, Zenon DEF Alive
    <3> QED BY <3>1, <3>2, Zenon
  <2>2. r \in Shown BY <2>1, Zenon DEF Disk, FilesOK
  <2>3. CASE files'[r] = files[r] BY <2>1, <2>3, Zenon DEF Disk, AncestryOK, Alive, Exists
  <2>4. CASE files'[r] # files[r]
    <3>1. r \in Pending(batch) /\ batch.before # <<>> BY <2>2, <2>4, Zenon DEF Disk, RecordOK
    <3>2. Alive(r) /\ ~files[r].started BY <2>4, <3>1, Zenon DEF Alive
    <3> QED BY <2>1, <3>1, <3>2, Zenon DEF Disk, AncestryOK
  <2> QED BY <2>3, <2>4, Zenon
<1>7. FirstOK'
  <2>1. 1 \notin Pending(batch) => files'[1] = files[1] BY Constants, Zenon
  <2>2. legacy => 1 \in committed /\ (1 \notin fence => Exists(1)) BY Zenon DEF Disk, FirstOK
  <2>3. ASSUME legacy, 1 \notin fence PROVE Exists(1)'
    <3>1. CASE files'[1] = files[1] BY <2>2, <2>3, <3>1, Zenon DEF Exists
    <3>2. CASE files'[1] # files[1]
      <4>1. 1 \in Pending(batch) /\ batch.before # <<>>
        BY <2>1, <2>2, <2>3, <3>2, Zenon DEF Disk, RecordOK, Shown
      <4> QED BY <3>2, <4>1, Zenon
    <3> QED BY <3>1, <3>2, Zenon
  <2>4. ASSUME ~legacy, committed # {}, 1 \notin fence
        PROVE  Exists(1)' /\ files'[1].it = 1 /\ 1 \notin Pending(batch)' /\ Published'
    <3>1. Exists(1) /\ files[1].it = 1 /\ 1 \notin Pending(batch) /\ Published
      BY <2>4, Zenon DEF Disk, FirstOK
    <3> QED BY <1>1, <2>1, <3>1, Zenon DEF Exists
  <2>5. ~legacy /\ committed # {} => 1 \in committed BY Zenon DEF Disk, FirstOK
  <2> QED BY <2>2, <2>3, <2>4, <2>5, Zenon DEF FirstOK
<1>8. HistoryOK' BY <1>1, <1>2, Zenon DEF HistoryOK
<1> QED BY <1>3, <1>4, <1>5, <1>6, <1>7, <1>8, Zenon DEF Disk

\* reserveRepeatedFilesLocked's own cleanup after a failed save of run: any of the
\* directories it made may be left, the last of them in the state the save reached.
CleanedUp(run) ==
  \E left \in SUBSET {op.pend[j].id : j \in 1..op.i}, now \in {files[run.id], EmptyDir, run.f} :
    files' = [r \in Run |-> IF r \notin {op.pend[j].id : j \in 1..op.i} THEN files[r]
                            ELSE IF r \notin left THEN NoFile
                            ELSE IF r = run.id THEN now ELSE files[r]]

\* What one reservation does.
ReserveCase(run) ==
  \/ /\ op.before = <<>> => files[run.id] = NoFile
     /\ files' = [files EXCEPT ![run.id] = run.f]
     /\ op' = [op EXCEPT !.i = @ + 1]
  \/ op.before = <<>> /\ op' = [op EXCEPT !.pc = "rollback"] /\ CleanedUp(run)
  \/ /\ op.before # <<>> /\ op' = [op EXCEPT !.pc = "rollback"]
     /\ files' \in {files, [files EXCEPT ![run.id] = run.f]}

\* The three outcomes of a reservation: the run is written, reserveRepeatedFilesLocked
\* cleans up, or a requeued run is written or not and the admission is rolled back.
LEMMA ReserveCases == Reserve => ReserveCase(op.pend[op.i])
  BY Zenon DEF Reserve, ReserveCase, CleanedUp

\* reserveRepeatedFilesLocked and the metadata of reused runs, one run at a time, with
\* their failures.
LEMMA ReserveInv ==
  ASSUME IInv, Reserve
  PROVE  IInv'
<1>1. /\ op.pc = "reserve" /\ op.i <= Len(op.pend) /\ op \in Operation /\ sched = <<>>
      /\ UNCHANGED <<fence, batch, legacy, committed, exposed, enqueued, live, sched, ids>>
      /\ files \in [Run -> File] /\ op.i \in DOMAIN op.pend /\ op.i \in Nat
      /\ DOMAIN op.pend = 1..Len(op.pend) /\ Len(op.pend) \in Nat
      /\ \A i \in DOMAIN op.pend : op.pend[i] \in Plan /\ op.pend[i].id \in Run /\ op.pend[i].f \in File
  <2>1. /\ op.pc = "reserve" /\ op.i <= Len(op.pend)
        /\ UNCHANGED <<fence, batch, legacy, committed, exposed, enqueued, live, sched, ids>>
    BY Zenon DEF Reserve, history
  <2>2. op.i >= 1 /\ sched = <<>> /\ files \in [Run -> File] BY <2>1, Zenon DEF IInv, TypeOK, PlanOK, StepOK
  <2>3. TypeOK BY Zenon DEF IInv
  <2> QED BY <2>1, <2>2, <2>3, OpFacts
<1>2. PICK run \in Plan : run = op.pend[op.i] BY <1>1, Zenon
<1>3. /\ run.id \in Run /\ run.f \in File
      /\ run.f.st = "queued" /\ run.f.total = op.total /\ op.total >= 1 /\ ~run.f.started /\ run.f.prev \subseteq Shown
  <2>1. run.id \in Run /\ run.f \in File BY Zenon DEF Plan
  <2> QED BY <1>1, <1>2, <2>1, Zenon DEF IInv, PlanOK
<1>4. /\ batch # NoBatch /\ batch.pending = [i \in DOMAIN op.pend |-> op.pend[i].id]
      /\ batch.before = op.before /\ batch.pendingTotal = op.total /\ op.i >= 1
      /\ \A j \in DOMAIN op.pend : j < op.i => files[op.pend[j].id] = op.pend[j].f
  BY <1>1, Zenon DEF IInv, StepOK
<1>5. Pending(batch) = Planned BY <1>4, PlannedPending, Zenon
<1>6. run.id \in Planned /\ \A j \in DOMAIN op.pend : op.pend[j].id \in Planned BY <1>1, <1>2, Zenon DEF Planned
<1>7. op.before # <<>> => /\ Alive(run.id) /\ ~files[run.id].started /\ files[run.id].prev = run.f.prev
  <2> HAVE op.before # <<>>
  <2>1. ReusedPlan(op.pend[op.i], op.before[op.i]) BY <1>1, Zenon DEF IInv, AdmitOK
  <2> QED BY <1>2, <2>1, Zenon DEF ReusedPlan
<1>8. NoFile.st = "none" /\ NoFile.prev = {} /\ EmptyDir.st = "dir" /\ EmptyDir.prev = {}
      /\ NoFile \in File /\ EmptyDir \in File
  BY NoFileType, Zenon DEF NoFile, EmptyDir
<1>9. ASSUME files' \in [Run -> File], \A r \in Run : r \notin Planned => files'[r] = files[r],
             \A r \in Planned : \/ files'[r] = files[r]
                                \/ op.before = <<>> /\ files'[r] \in {NoFile, EmptyDir}
                                \/ r = run.id /\ files'[r] = run.f
      PROVE  TypeOK /\ Disk' /\ HistoryOK'
  <2>1. ASSUME NEW r \in Planned
        PROVE \/ files'[r] = files[r]
              \/ /\ files'[r].st = "completed" => files'[r].started
                 /\ files'[r].prev \subseteq Shown
                 /\ Exists(r)' => files'[r].total >= 1 /\ files'[r].total = batch.pendingTotal
                 /\ batch.before # <<>> => /\ Exists(r) /\ Exists(r)' /\ ~files[r].started /\ ~files'[r].started
                                           /\ files'[r].prev = files[r].prev
    <3>1. CASE files'[r] = files[r] BY <3>1, Zenon
    <3>2. CASE op.before = <<>> /\ files'[r] \in {NoFile, EmptyDir} BY <1>4, <1>8, <3>2, Zenon DEF Exists
    <3>3. CASE r = run.id /\ files'[r] = run.f BY <1>3, <1>4, <1>7, <3>3, Zenon DEF Exists, Alive
    <3> QED BY <1>9, <2>1, <3>1, <3>2, <3>3, Zenon
  <2>2. TypeOK /\ Disk /\ HistoryOK BY Zenon DEF IInv, Disk
  <2> QED BY <1>1, <1>5, <1>9, <2>1, <2>2, WritesPending, Zenon
<1>10. ASSUME op' = [op EXCEPT !.pc = "rollback"], files' \in [Run -> File], Disk', HistoryOK' PROVE IInv'
  <2>1. /\ op' \in Operation /\ op'.pc = "rollback" /\ op'.kind = op.kind /\ op'.pend = op.pend
    BY <1>1, <1>10, PcStep DEF Pcs, Calm
  <2>2. TypeOK' BY <1>1, <1>10, <2>1, Zenon DEF IInv, TypeOK
  <2>3. Drawn' BY <1>1, <2>1, Zenon DEF IInv, Drawn, Planned, Pending
  <2>4. PlanOK' /\ AdmitOK' /\ DeleteOK' BY <2>1, CalmOp, Zenon DEF Calm
  <2>5. StepOK' BY <1>1, <2>1, Zenon DEF IInv, StepOK
  <2>6. SchedOK' BY <1>1, Zenon DEF IInv, SchedOK
  <2> QED BY <1>10, <2>2, <2>3, <2>4, <2>5, <2>6, Zenon DEF IInv, Disk
<1>11. CASE /\ op.before = <<>> => files[run.id] = NoFile
            /\ files' = [files EXCEPT ![run.id] = run.f]
            /\ op' = [op EXCEPT !.i = @ + 1]
  <2>1. /\ files' \in [Run -> File] /\ files'[run.id] = run.f
        /\ \A r \in Run : r # run.id => files'[r] = files[r]
    BY <1>1, <1>3, <1>11, Zenon
  <2>2. Disk' /\ HistoryOK'
    <3>1. \A r \in Planned : r \in Run BY <1>1, Zenon DEF Planned
    <3>2. /\ \A r \in Run : r \notin Planned => files'[r] = files[r]
          /\ \A r \in Planned : files'[r] = files[r] \/ (r = run.id /\ files'[r] = run.f)
      BY <1>6, <2>1, <3>1, Zenon
    <3> QED BY <1>9, <2>1, <3>2, Zenon
  <2>3. /\ op' \in Operation /\ op'.pc = "reserve" /\ op'.kind = op.kind /\ op'.pend = op.pend
        /\ op'.total = op.total /\ op'.before = op.before /\ op'.i = op.i + 1
    <3>1. op.i + 1 \in Nat BY <1>1
    <3> QED BY <1>1, <1>11, <3>1, Zenon DEF Operation
  <2>4. TypeOK' BY <1>1, <2>1, <2>3, Zenon DEF IInv, TypeOK
  <2>5. Drawn' BY <1>1, <2>3, Zenon DEF IInv, Drawn, Planned, Pending
  <2>6. PlanOK' BY <1>1, <2>3, Zenon DEF IInv, PlanOK, Shown
  <2>7. AdmitOK'
    <3>1. ASSUME op.before # <<>>, NEW i \in DOMAIN op.pend PROVE ReusedPlan(op.pend[i], op.before[i])'
      <4>1. ReusedPlan(op.pend[i], op.before[i]) BY <1>1, <3>1, Zenon DEF IInv, AdmitOK
      <4>2. CASE op.pend[i].id = run.id
        <5>1. i = op.i BY <1>1, <1>2, <4>2, Zenon DEF IInv, PlanOK
        <5> QED BY <1>1, <1>2, <1>3, <2>1, <2>3, <4>1, <5>1, Zenon DEF ReusedPlan, Shown, Alive, Exists
      <4>3. CASE op.pend[i].id # run.id
        BY <1>1, <2>1, <2>3, <4>1, <4>3, Zenon DEF ReusedPlan, Shown, Alive, Exists
      <4> QED BY <4>2, <4>3, Zenon
    <3>2. \A r \in Run : Alive(r) /\ r \notin Planned => files[r].total <= op.total /\ Settled(r, op.total)
      BY <1>1, Zenon DEF IInv, AdmitOK
    <3>3. Planned' = Planned BY <2>3, Zenon DEF Planned
    <3>4. (\A r \in Run : Alive(r) /\ r \notin Planned => files[r].total <= op.total /\ Settled(r, op.total))'
      BY <1>1, <1>6, <2>1, <2>3, <3>2, <3>3, Zenon DEF Alive, Exists, Settled
    <3>5. (op.before # <<>> => \A i \in DOMAIN op.pend : ReusedPlan(op.pend[i], op.before[i]))'
      BY <2>3, <3>1, Zenon DEF ReusedPlan
    <3> QED BY <1>1, <2>3, <3>3, <3>4, <3>5, Zenon DEF IInv, AdmitOK, Shown
  <2>8. StepOK'
    <3>1. ASSUME NEW j \in DOMAIN op.pend, j < op.i + 1 PROVE files'[op.pend[j].id] = op.pend[j].f
      <4>1. CASE j = op.i BY <1>2, <2>1, <4>1, Zenon
      <4>2. CASE j # op.i
        <5>1. j < op.i /\ op.pend[j].id # run.id BY <1>1, <1>2, <3>1, <4>2 DEF IInv, PlanOK
        <5> QED BY <1>1, <1>4, <2>1, <5>1, Zenon
      <4> QED BY <4>1, <4>2, Zenon
    <3> QED BY <1>1, <1>4, <2>3, <3>1 DEF IInv, StepOK
  <2>9. DeleteOK' BY <2>3, Zenon DEF DeleteOK
  <2>10. SchedOK' BY <1>1 DEF IInv, SchedOK
  <2> QED BY <2>2, <2>4, <2>5, <2>6, <2>7, <2>8, <2>9, <2>10, Zenon DEF IInv, Disk
<1>12. CASE op.before = <<>> /\ op' = [op EXCEPT !.pc = "rollback"] /\ CleanedUp(run)
  <2>1. PICK left \in SUBSET {op.pend[j].id : j \in 1..op.i}, now \in {files[run.id], EmptyDir, run.f} :
          files' = [r \in Run |-> IF r \notin {op.pend[j].id : j \in 1..op.i} THEN files[r]
                                  ELSE IF r \notin left THEN NoFile
                                  ELSE IF r = run.id THEN now ELSE files[r]]
    BY <1>12, Zenon DEF CleanedUp
  <2>2. {op.pend[j].id : j \in 1..op.i} \subseteq Planned BY <1>1 DEF Planned
  <2>3. files' \in [Run -> File] BY <1>1, <1>3, <1>8, <2>1, Zenon
  <2>4. Planned \subseteq Run BY <1>1, Zenon DEF Planned
  <2>5. /\ \A r \in Run : r \notin Planned => files'[r] = files[r]
        /\ \A r \in Planned : \/ files'[r] = files[r] \/ files'[r] \in {NoFile, EmptyDir}
                              \/ r = run.id /\ files'[r] = run.f
    BY <2>1, <2>2, <2>4, Zenon
  <2> QED BY <1>9, <1>10, <1>12, <2>3, <2>5, Zenon
<1>13. CASE /\ op' = [op EXCEPT !.pc = "rollback"]
            /\ files' \in {files, [files EXCEPT ![run.id] = run.f]}
  <2>1. /\ files' \in [Run -> File]
        /\ \A r \in Run : files'[r] = files[r] \/ (r = run.id /\ files'[r] = run.f)
    BY <1>1, <1>3, <1>13, Zenon
  <2>2. \A r \in Planned : r \in Run BY <1>1 DEF Planned
  <2> QED BY <1>6, <1>9, <1>10, <1>13, <2>1, <2>2, Zenon
<1>14. ReserveCase(run)
  <2>1. ReserveCase(op.pend[op.i]) BY ReserveCases, Zenon
  <2> QED BY <1>2, <2>1, Zenon
<1> QED BY <1>11, <1>12, <1>13, <1>14, Zenon DEF ReserveCase

\* commitBatchAdmissionLocked: the record that publishes the runs.
LEMMA CommittedFacts ==
  ASSUME IInv, op.pc = "reserve", NEW c, c = Committed
  PROVE  /\ c \in Record /\ c.total = op.total /\ c.pending = <<>> /\ c.before = <<>>
         /\ c.retired = batch.retired \cup Replaced
         /\ \E i \in Iteration : c.current[i] # 0
<1>1. /\ batch \in Record /\ op.total \in 0..MaxTotal /\ op.pend # <<>> /\ 1 \in DOMAIN op.pend
      /\ \A i \in DOMAIN op.pend : op.pend[i].id \in Run /\ op.pend[i].f \in File
  BY OpFacts, SeqFacts, Zenon DEF IInv, TypeOK, PlanOK
<1>2. \A i \in DOMAIN op.pend : op.pend[i].f.it \in Iteration BY Zenon DEF IInv, PlanOK
<1>3. PICK d \in Record : d = Cleared(batch) BY <1>1, ClearedType, Zenon
<1>4. d.pending = <<>> /\ d.before = <<>> /\ d.retired = batch.retired BY <1>1, <1>3, ClearedType, Zenon
<1>5. Replaced \subseteq Run
  <2>1. \A i \in DOMAIN op.pend : op.pend[i].f.prev \subseteq Run BY <1>1, Zenon DEF File
  <2> QED BY <2>1, Zenon DEF Replaced
<1>6. d.current \in [Iteration -> 0..MaxRuns] /\ d.retired \subseteq Run BY Zenon DEF Record
<1> DEFINE at(i) == CHOOSE j \in DOMAIN op.pend : op.pend[j].f.it = i
           current == [i \in Iteration |-> IF \E j \in DOMAIN op.pend : op.pend[j].f.it = i
                                           THEN op.pend[at(i)].id ELSE d.current[i]]
<1>7. ASSUME NEW i \in Iteration
      PROVE  /\ current[i] \in 0..MaxRuns
             /\ (\E j \in DOMAIN op.pend : op.pend[j].f.it = i) => current[i] # 0
  <2>1. (\E j \in DOMAIN op.pend : op.pend[j].f.it = i) => at(i) \in DOMAIN op.pend BY Zenon
  <2>2. current[i] = IF \E j \in DOMAIN op.pend : op.pend[j].f.it = i THEN op.pend[at(i)].id ELSE d.current[i]
    BY Zenon
  <2> HIDE DEF current, at
  <2>3. \A r \in Run : r \in 0..MaxRuns /\ r # 0 BY BatchConstants DEF Run
  <2> QED BY <1>1, <1>6, <2>1, <2>2, <2>3, Zenon
<1>8. DOMAIN current = Iteration /\ current = [i \in Iteration |-> current[i]] BY Zenon
<1>9. c = [d EXCEPT !.total = op.total, !.retired = d.retired \cup Replaced, !.current = current]
  BY <1>3, Zenon DEF Committed
<1> HIDE DEF current
<1>10. current \in [Iteration -> 0..MaxRuns] BY <1>7, <1>8, Zenon
<1>11. PICK x \in [Iteration -> 0..MaxRuns] : x = current BY <1>10, Zenon
<1>12. PICK y \in SUBSET Run : y = d.retired \cup Replaced BY <1>5, <1>6, Zenon
<1>13. PICK z \in 0..MaxTotal : z = op.total BY <1>1, Zenon
<1>14. c = [d EXCEPT !.total = z, !.retired = y, !.current = x] BY <1>9, <1>11, <1>12, <1>13, Zenon
<1>15. /\ c \in Record /\ c.total = z /\ c.retired = y /\ c.current = x
       /\ c.pending = d.pending /\ c.before = d.before
  BY <1>14, Zenon DEF Record
<1>16. \E i \in Iteration : current[i] # 0 BY <1>1, <1>2, <1>7, Zenon
<1> QED BY <1>4, <1>11, <1>12, <1>13, <1>15, <1>16, Zenon

\* Publishing that record keeps the saved group consistent.
LEMMA CommitKeeps ==
  ASSUME IInv, op.pc = "reserve", op.i > Len(op.pend), batch' = Committed,
         committed' = committed \cup Planned, UNCHANGED <<files, fence, legacy, exposed, enqueued>>
  PROVE  /\ Disk' /\ HistoryOK' /\ committed' # {}
         /\ \A i \in DOMAIN op.pend : Exists(op.pend[i].id)
<1>1. PICK c : c = Committed BY Zenon
<1>2. /\ c \in Record /\ c.total = op.total /\ c.pending = <<>> /\ c.before = <<>>
      /\ c.retired = batch.retired \cup Replaced
      /\ \E i \in Iteration : c.current[i] # 0
  BY <1>1, CommittedFacts, Zenon
<1>3. /\ batch' = c /\ Pending(batch)' = {} /\ Published' BY <1>1, <1>2 DEF Pending, Listed, Published
<1>4. /\ op.pend # <<>> /\ 1 \in DOMAIN op.pend /\ op.total >= 1 /\ op.total \in Nat /\ op.i \in Nat
      /\ DOMAIN op.pend = 1..Len(op.pend) /\ Len(op.pend) \in Nat
      /\ \A i \in DOMAIN op.pend : op.pend[i].id \in Run
  BY OpFacts, SeqFacts, BatchConstants DEF IInv, PlanOK
<1>5. batch.pending = [i \in DOMAIN op.pend |-> op.pend[i].id]
      /\ \A j \in DOMAIN op.pend : files[op.pend[j].id] = op.pend[j].f
  <2>1. \A j \in DOMAIN op.pend : j < op.i BY <1>4
  <2> QED BY <2>1, Zenon DEF IInv, StepOK
<1>6. Pending(batch) = Planned BY <1>5, PlannedPending, Zenon
<1>7. ASSUME NEW r \in Planned
      PROVE  /\ r \in Run /\ Exists(r) /\ files[r].total = op.total /\ files[r].prev \subseteq Replaced
  <2>1. PICK j \in DOMAIN op.pend : r = op.pend[j].id BY Zenon DEF Planned
  <2>2. op.pend[j].f.st = "queued" /\ op.pend[j].f.total = op.total BY Zenon DEF IInv, PlanOK
  <2>3. op.pend[j].f.prev \subseteq Replaced BY Zenon DEF Replaced
  <2> QED BY <1>4, <1>5, <2>1, <2>2, <2>3, Zenon DEF Exists
<1>8. Shown' = Shown \cup Planned BY Zenon DEF Shown
<1>9. \A r \in Run : Alive(r)' = Alive(r) BY Zenon DEF Alive, Exists
<1>10. \A r \in Run : Loose(r)' <=> Alive(r) BY <1>3, <1>9, Zenon DEF Loose
<1>11. \A i \in DOMAIN op.pend : op.pend[i].id \in Planned BY Zenon DEF Planned
<1>12. FilesOK' BY <1>8, Zenon DEF IInv, FilesOK, Exists
<1>13. RecordOK' BY <1>2, <1>3, <1>4 DEF RecordOK
<1>14. TotalsOK'
  <2>1. ASSUME NEW r \in Run, Alive(r)
        PROVE  files[r].total <= op.total /\ (files[r].started \/ r \in c.retired \/ files[r].total = op.total)
    <3>1. CASE r \in Planned BY <1>4, <1>7, <3>1
    <3>2. CASE r \notin Planned BY <1>2, <2>1, <3>2, Zenon DEF IInv, AdmitOK, Settled
    <3> QED BY <3>1, <3>2, Zenon
  <2> QED BY <1>2, <1>3, <1>10, <2>1, Zenon DEF TotalsOK, Settled
<1>15. AncestryOK'
  <2> SUFFICES ASSUME NEW r \in Run, NEW m \in Run, Alive(r), Alive(m), r \in files[m].prev
               PROVE  r \in c.retired \/ files[r].started
    BY <1>3, <1>9, Zenon DEF AncestryOK
  <2>1. CASE m \in Planned BY <1>2, <1>7, <2>1, Zenon
  <2>2. CASE m \notin Planned BY <1>2, <1>6, <2>2, Zenon DEF IInv, AncestryOK
  <2> QED BY <2>1, <2>2, Zenon
<1>16. FirstOK'
  <2>0. legacy => 1 \in committed' /\ (1 \notin fence => Exists(1)') BY Zenon DEF IInv, FirstOK, Exists
  <2> SUFFICES ASSUME ~legacy
               PROVE  1 \in committed' /\ (1 \notin fence => Exists(1) /\ files[1].it = 1)
    BY <1>3, <2>0, Zenon DEF FirstOK, Exists
  <2>1. CASE op.kind = "submit"
    <3>1. op.pend[1].id = 1 /\ op.pend[1].f.it = 1 BY <2>1, Zenon DEF IInv, AdmitOK
    <3> QED BY <1>4, <1>5, <1>7, <1>11, <3>1, Zenon
  <2>2. CASE op.kind # "submit" BY <2>2, Zenon DEF IInv, AdmitOK, FirstOK
  <2> QED BY <2>1, <2>2, Zenon
<1>17. HistoryOK'
  <2>1. \A r \in Run : Loose(r)' => r \in Shown'
    BY <1>6, <1>8, <1>10, Zenon DEF IInv, HistoryOK, Loose
  <2> QED BY <1>4, <1>11, <2>1, Zenon DEF IInv, HistoryOK
<1> QED BY <1>4, <1>7, <1>11, <1>12, <1>13, <1>14, <1>15, <1>16, <1>17, Zenon DEF Disk

\* The write of that record, whether or not it or the sync after it succeeds.
LEMMA CommitInv ==
  ASSUME IInv, Commit
  PROVE  IInv'
<1>1. /\ op.pc = "reserve" /\ op.i > Len(op.pend)
      /\ UNCHANGED <<files, fence, legacy, exposed, enqueued, live, sched, ids>>
  BY Zenon DEF Commit
<1>2. op \in Operation /\ sched = <<>> /\ files \in [Run -> File] /\ committed \subseteq Run
  BY <1>1, Zenon DEF IInv, TypeOK, PlanOK
<1>3. PICK x \in {"enqueue", "rollback", "failed"}, b \in {batch, Committed} :
        /\ op' = [op EXCEPT !.pc = x] /\ Publish(b) /\ (b = batch /\ b # Committed => x = "rollback")
  BY Zenon DEF Commit
<1>4. /\ op' \in Operation /\ op'.pc = x /\ op'.kind = op.kind /\ op'.pend = op.pend
      /\ op'.total = op.total /\ op'.before = op.before /\ op'.i = op.i
  BY <1>2, <1>3, PcStep DEF Pcs, Calm
<1>5. Planned' = Planned /\ Planned \subseteq Run BY <1>4, OpFacts, Zenon DEF Planned, IInv
<1>6. CASE b # Committed
  BY <1>1, <1>2, <1>3, <1>4, <1>6, QuietCalm, Zenon DEF Publish, Calm, saved, IInv, StepOK
<1>7. CASE b = Committed
  <2>1. batch' = Committed /\ committed' = committed \cup Planned BY <1>3, <1>7, Zenon DEF Publish, Planned
  <2>2. /\ Disk' /\ HistoryOK' /\ committed' # {}
        /\ \A i \in DOMAIN op.pend : Exists(op.pend[i].id)
    BY <1>1, <2>1, CommitKeeps, Zenon
  <2>3. batch' \in Record /\ batch'.pending = <<>> BY <1>1, <2>1, CommittedFacts, Zenon
  <2>4. TypeOK' BY <1>1, <1>4, <1>5, <2>1, <2>3, Zenon DEF IInv, TypeOK
  <2>5. Drawn'
    <3>1. Pending(batch)' = {} BY <2>3 DEF Pending, Listed
    <3> QED BY <1>1, <1>5, <2>1, <3>1, Zenon DEF IInv, Drawn
  <2>6. PlanOK'
    <3>1. Shown \subseteq Shown' BY <1>1, <2>1, Zenon DEF Shown
    <3> QED BY <1>1, <1>4, <3>1, Zenon DEF IInv, PlanOK
  <2>7. AdmitOK' /\ DeleteOK' BY <1>4, Zenon DEF AdmitOK, DeleteOK
  <2>8. StepOK'
    <3>1. op.kind = "submit" => enqueued = 0 BY <1>1, Zenon DEF IInv, AdmitOK, HistoryOK
    <3>2. (\A i \in DOMAIN op.pend : Exists(op.pend[i].id))' BY <1>1, <1>4, <2>2, Zenon DEF Exists
    <3> QED BY <1>1, <1>4, <2>2, <2>3, <3>1, <3>2, Zenon DEF IInv, StepOK
  <2>9. SchedOK' BY <1>1, <1>2, Zenon DEF IInv, SchedOK
  <2> QED BY <2>2, <2>4, <2>5, <2>6, <2>7, <2>8, <2>9, Zenon DEF IInv, Disk
<1> QED BY <1>6, <1>7, Zenon

\* A sorted sequence of S lists every element of S once.
LEMMA SortedFacts ==
  ASSUME NEW S \in SUBSET Run, NEW key \in [Run -> Nat], NEW s \in Sorted(S, key)
  PROVE  /\ s \in Seq(Run) /\ DOMAIN s = 1..Len(s) /\ Len(s) \in Nat
         /\ \A i \in DOMAIN s : s[i] \in S
         /\ \A r \in S : \E i \in DOMAIN s : s[i] = r
         /\ \A i, j \in DOMAIN s : s[i] = s[j] => i = j
         /\ S # {} => 1 \in DOMAIN s
<1>1. /\ s \in UNION {[1..n -> S] : n \in 0..MaxRuns} /\ \A r \in S : \E i \in DOMAIN s : s[i] = r
      /\ \A i, j \in DOMAIN s : i < j => key[s[i]] < key[s[j]]
  BY Zenon DEF Sorted
<1>2. PICK n \in 0..MaxRuns : s \in [1..n -> S] BY <1>1, Zenon
<1>3. n \in Nat BY BatchConstants
<1>4. s \in [1..n -> Run] BY <1>2, Zenon
<1>5. s \in Seq(Run) /\ Len(s) = n /\ DOMAIN s = 1..n BY <1>3, <1>4, SeqIntro, Zenon
<1>6. \A i, j \in DOMAIN s : s[i] = s[j] => i = j
  <2>1. ASSUME NEW i \in DOMAIN s, NEW j \in DOMAIN s, s[i] = s[j], i < j PROVE FALSE
    <3>1. key[s[i]] \in Nat BY <1>4, <1>5, Zenon
    <3>2. key[s[i]] < key[s[j]] BY <1>1, <2>1, Zenon
    <3>3. key[s[i]] < key[s[i]] BY <2>1, <3>2, Zenon
    <3> QED BY <3>1, <3>3
  <2> QED BY <1>5, <2>1
<1>7. S # {} => 1 \in DOMAIN s
  <2> HAVE S # {}
  <2>1. PICK i \in DOMAIN s : TRUE BY <1>1, Zenon
  <2> QED BY <1>5, <2>1
<1> QED BY <1>1, <1>2, <1>3, <1>5, <1>6, <1>7, Zenon

\* The same, for the order of the iterations.
LEMMA InOrderFacts ==
  ASSUME TypeOK, NEW S \in SUBSET Run, S # {}, NEW s \in InOrder(S)
  PROVE  /\ s \in Seq(Run) /\ DOMAIN s = 1..Len(s) /\ Len(s) \in Nat
         /\ \A i \in DOMAIN s : s[i] \in S
         /\ \A i, j \in DOMAIN s : s[i] = s[j] => i = j
         /\ 1 \in DOMAIN s
<1>1. PICK key : key = [r \in Run |-> files[r].it] BY Zenon
<1>2. key \in [Run -> Nat] BY <1>1, BatchConstants DEF TypeOK, File
<1>3. s \in Sorted(S, key) BY <1>1, Zenon DEF InOrder
<1> QED BY <1>2, <1>3, SortedFacts, Zenon

\* A run is readable exactly if it is saved, not deleted and not pending: the totals
\* of the group never disagree with the record's.
LEMMA ReadableRuns ==
  ASSUME IInv
  PROVE  \A r \in Run : Readable(r) <=> Loose(r)
<1> TAKE r \in Run
<1>1. files[r] \in File /\ batch \in Record BY Zenon DEF IInv, TypeOK
<1>2. files[r].total \in Nat /\ batch.total \in Nat BY <1>1, BatchConstants DEF File, Record
<1>3. batch = NoBatch => Pending(batch) = {} BY NoBatchType DEF Pending, Listed
<1>4. Loose(r) => files[r].total >= 1 /\ (batch # NoBatch => files[r].total <= batch.total)
  BY Zenon DEF IInv, FilesOK, TotalsOK, Loose, Alive
<1> QED BY <1>2, <1>3, <1>4 DEF Readable, Loose, Alive

\* The start of a deletion.
LEMMA EraseInv ==
  ASSUME IInv, op.pc = "idle", sched = <<>>, committed # {}, NEW S \in SUBSET (Shown \cup fence),
         NEW kind \in {"deleteRun", "deleteBatch"}, Erase(S, kind),
         kind = "deleteBatch" => \A r \in Run : Loose(r) => r \in S,
         kind = "deleteRun" => S # {},
         UNCHANGED <<disk, live, sched, ids, faults, stops, history>>
  PROVE  IInv'
<1> USE DEF disk, history
<1>1. PICK s \in Sorted(S, [r \in Run |-> r]) :
        op' = [NoOp EXCEPT !.pc = IF S = {} THEN "group" ELSE "retain", !.kind = kind, !.i = 1,
                           !.pend = [i \in DOMAIN s |-> [id |-> s[i], f |-> NoFile]]]
  BY Zenon DEF Erase
<1>2. S \subseteq Run /\ Shown \cup fence \subseteq 1..ids BY Zenon DEF IInv, TypeOK, Drawn, Shown
<1>3. [r \in Run |-> r] \in [Run -> Nat] BY DEF Run
<1>4. /\ s \in Seq(Run) /\ DOMAIN s = 1..Len(s) /\ Len(s) \in Nat
      /\ \A i \in DOMAIN s : s[i] \in S
      /\ \A r \in S : \E i \in DOMAIN s : s[i] = r
      /\ S # {} => 1 \in DOMAIN s
  <2>1. PICK key \in [Run -> Nat] : key = [r \in Run |-> r] BY <1>3, Zenon
  <2>2. S \in SUBSET Run /\ s \in Sorted(S, key) BY <1>1, <1>2, <2>1, Zenon
  <2> QED BY <2>1, <2>2, SortedFacts, Zenon
<1>5. PICK pend : pend = [i \in DOMAIN s |-> [id |-> s[i], f |-> NoFile]] BY Zenon
<1>6. pend \in Seq(Plan) /\ DOMAIN pend = DOMAIN s /\ \A i \in DOMAIN s : pend[i].id = s[i]
  <2>1. \A i \in DOMAIN s : [id |-> s[i], f |-> NoFile] \in Plan BY <1>2, <1>4, NoFileType, Zenon DEF Plan
  <2> QED BY <1>4, <1>5, <2>1, SeqIntro, Zenon
<1>7. PICK x \in {"group", "retain"} : x = IF S = {} THEN "group" ELSE "retain" BY Zenon
<1>8. op' = [NoOp EXCEPT !.pc = x, !.kind = kind, !.i = 1, !.pend = pend] BY <1>1, <1>5, <1>7, Zenon
<1>9. op' \in Operation /\ op'.pc = x /\ op'.kind = kind /\ op'.i = 1 /\ op'.pend = pend
  <2>1. x \in Pcs /\ kind \in Kinds /\ 1 \in Nat BY Zenon DEF Pcs, Kinds
  <2> QED BY <1>6, <1>8, <2>1, NoOpType, Zenon DEF Operation
<1>10. TypeOK' BY <1>9, Zenon DEF IInv, TypeOK
<1>11. Drawn'
  <2>1. Planned' \subseteq S BY <1>4, <1>6, <1>9 DEF Planned
  <2>2. Pending(batch)' = Pending(batch) BY Zenon DEF Pending
  <2> QED BY <1>2, <2>1, <2>2, Zenon DEF IInv, Drawn
<1>12. Disk' BY Quiet, Zenon DEF IInv, Disk, saved
<1>13. \A r \in Run : Loose(r)' = Loose(r) BY Zenon DEF Loose, Alive, Exists, Pending
<1>14. HistoryOK' BY <1>13, Zenon DEF IInv, HistoryOK, Shown
<1>15. PlanOK' /\ AdmitOK' BY <1>9, Zenon DEF PlanOK, AdmitOK
<1>16. StepOK' BY <1>9, Zenon DEF StepOK
<1>17. DeleteOK'
  <2>1. x = "retain" => 1 \in DOMAIN pend BY <1>4, <1>6, <1>7, Zenon
  <2>2. kind = "deleteBatch" => \A r \in Run : Loose(r) => \E j \in DOMAIN pend : j >= 1 /\ pend[j].id = r
    BY <1>4, <1>6
  <2>3. x = "group" => \A r \in Run : ~Loose(r) BY <1>7, Zenon
  <2> QED BY <1>9, <1>13, <2>1, <2>2, <2>3, Zenon DEF DeleteOK
<1>18. SchedOK' BY Zenon DEF IInv, SchedOK
<1> QED BY <1>10, <1>11, <1>12, <1>14, <1>15, <1>16, <1>17, <1>18, Zenon DEF IInv, Disk

\* deleteSavedResult and deleteSavedBatch.
LEMMA DeletesInv ==
  ASSUME IInv, DeleteBatch \/ \E r \in Run : DeleteResult(r)
  PROVE  IInv'
<1>1. CASE \E r \in Run : DeleteResult(r)
  <2>1. PICK r \in Run : DeleteResult(r) BY <1>1, Zenon
  <2>2. sched = <<>> /\ {r} \subseteq Shown \cup fence /\ committed # {}
    BY <2>1, Zenon DEF DeleteResult, Busy, Shown, IInv, HistoryOK
  <2> QED BY <2>1, <2>2, EraseInv, Zenon DEF DeleteResult
<1>2. CASE DeleteBatch
  <2>1. sched = <<>> BY <1>2, Constants, Zenon DEF DeleteBatch, Busy
  <2>2. PICK S : S = AllBatchMembers \cup {r \in batch.deleted \cap fence : files[r] # NoFile} BY Zenon
  <2>3. \A r \in Run : r \in AllBatchMembers <=> Loose(r) BY ReadableRuns, Zenon DEF AllBatchMembers
  <2>4. AllBatchMembers \subseteq Shown BY <2>3, Zenon DEF AllBatchMembers, IInv, HistoryOK
  <2>5. S \subseteq Shown \cup fence /\ \A r \in Run : Loose(r) => r \in S BY <2>2, <2>3, <2>4, Zenon
  <2> QED BY <1>2, <2>1, <2>2, <2>5, EraseInv, Zenon DEF DeleteBatch
<1> QED BY <1>1, <1>2, Zenon

\* retainBatchCurrentLocked: the record it writes.
LEMMA RetainedFacts ==
  ASSUME TypeOK, NEW r \in Run, NEW p, p = Retained(r)
  PROVE  /\ p \in Record /\ p.pending = batch.pending /\ p.pendingTotal = batch.pendingTotal
         /\ p.before = batch.before
         /\ Published => p.total = batch.total /\ p.retired = batch.retired /\ p.current = batch.current
         /\ ~Published => /\ p.total = IF batch.total = 0 THEN files[r].total ELSE batch.total
                          /\ \A m \in Run : Exists(m) => files[m].prev \subseteq p.retired
<1>1. batch \in Record /\ files \in [Run -> File] BY Zenon DEF TypeOK
<1> DEFINE here == {m \in Run : Exists(m)}
           old == UNION {files[m].prev : m \in here}
           now == {m \in here \ old : m \notin batch.retired}
           named(i) == {m \in now : files[m].it = i}
           current == [i \in Iteration |-> IF named(i) = {} THEN 0 ELSE CHOOSE m \in now : files[m].it = i]
           total == IF batch.total = 0 THEN files[r].total ELSE batch.total
           base == IF Published THEN batch
                   ELSE [batch EXCEPT !.total = total, !.retired = old, !.current = current]
<1>2. p = [base EXCEPT !.deleted = base.deleted \cup {r}] BY Zenon DEF Retained
<1>3. old \subseteq Run
  <2>1. \A m \in Run : files[m].prev \subseteq Run BY <1>1, Zenon DEF File
  <2> QED BY <2>1, Zenon
<1>4. \A m \in Run : Exists(m) => files[m].prev \subseteq old BY Zenon
<1>5. current \in [Iteration -> 0..MaxRuns]
  <2>1. ASSUME NEW i \in Iteration PROVE current[i] \in 0..MaxRuns
    <3>1. named(i) # {} => (CHOOSE m \in now : files[m].it = i) \in now BY Zenon
    <3>2. current[i] = IF named(i) = {} THEN 0 ELSE CHOOSE m \in now : files[m].it = i BY Zenon
    <3>3. now \subseteq Run BY Zenon
    <3>4. 0 \in 0..MaxRuns /\ Run \subseteq 0..MaxRuns BY BatchConstants DEF Run
    <3> HIDE DEF current, now, named
    <3> QED BY <3>1, <3>2, <3>3, <3>4, Zenon
  <2>2. DOMAIN current = Iteration /\ current = [i \in Iteration |-> current[i]] OBVIOUS
  <2> HIDE DEF current
  <2> QED BY <2>1, <2>2, Zenon
<1>6. total \in 0..MaxTotal BY <1>1, Zenon DEF Record, File
<1>7. /\ base \in Record /\ base.pending = batch.pending /\ base.pendingTotal = batch.pendingTotal
      /\ base.before = batch.before
      /\ Published => base = batch
      /\ ~Published => base.total = total /\ base.retired = old
  <2>1. CASE Published BY <1>1, <2>1, Zenon
  <2>2. CASE ~Published
    <3>1. base = [batch EXCEPT !.total = total, !.retired = old, !.current = current] BY <2>2, Zenon
    <3> HIDE DEF base, total, old, current
    <3>2. PICK x \in 0..MaxTotal : x = total BY <1>6, Zenon
    <3>3. PICK y \in SUBSET Run : y = old BY <1>3, Zenon
    <3>4. PICK z \in [Iteration -> 0..MaxRuns] : z = current BY <1>5, Zenon
    <3>5. base = [batch EXCEPT !.total = x, !.retired = y, !.current = z] BY <3>1, <3>2, <3>3, <3>4, Zenon
    <3>6. /\ base \in Record /\ base.pending = batch.pending /\ base.pendingTotal = batch.pendingTotal
          /\ base.before = batch.before /\ base.total = x /\ base.retired = y
      BY <1>1, <3>5, Zenon DEF Record
    <3> QED BY <2>2, <3>2, <3>3, <3>6, Zenon
  <2> QED BY <2>1, <2>2, Zenon
<1> HIDE DEF base
<1>8. PICK b \in Record : b = base BY <1>7, Zenon
<1>9. PICK d \in SUBSET Run : d = b.deleted \cup {r} BY Zenon DEF Record
<1>10. p = [b EXCEPT !.deleted = d] BY <1>2, <1>8, <1>9, Zenon
<1>11. /\ p \in Record /\ p.pending = b.pending /\ p.pendingTotal = b.pendingTotal /\ p.before = b.before
       /\ p.total = b.total /\ p.retired = b.retired /\ p.current = b.current
  BY <1>10, Zenon DEF Record
<1> QED BY <1>4, <1>7, <1>8, <1>11, Zenon

\* Writing that record keeps the saved group consistent.
LEMMA RetainKeeps ==
  ASSUME IInv, NEW r \in Run, Alive(r), batch' = Retained(r),
         UNCHANGED <<files, fence, legacy, committed, exposed, enqueued>>
  PROVE  /\ Disk' /\ HistoryOK' /\ batch' \in Record /\ batch'.pending = batch.pending
         /\ \A m \in Run : Loose(m)' <=> Loose(m)
<1>0. /\ batch \in Record /\ files \in [Run -> File] /\ batch.total \in Nat /\ files[r].total \in Nat /\ TypeOK
  <2>1. /\ batch \in Record /\ files \in [Run -> File] /\ files[r] \in File /\ TypeOK BY Zenon DEF IInv, TypeOK
  <2>2. batch.total \in 0..MaxTotal /\ files[r].total \in 0..MaxTotal BY <2>1, Zenon DEF Record, File
  <2> QED BY <2>1, <2>2, BatchConstants
<1>1. PICK p : p = Retained(r) BY Zenon
<1>2. /\ p \in Record /\ p.pending = batch.pending /\ p.pendingTotal = batch.pendingTotal
      /\ p.before = batch.before
      /\ Published => p.total = batch.total /\ p.retired = batch.retired /\ p.current = batch.current
      /\ ~Published => /\ p.total = IF batch.total = 0 THEN files[r].total ELSE batch.total
                       /\ \A m \in Run : Exists(m) => files[m].prev \subseteq p.retired
  BY <1>0, <1>1, RetainedFacts, Zenon
<1>3. batch' = p /\ Pending(batch)' = Pending(batch) /\ Shown' = Shown
  BY <1>1, <1>2, Zenon DEF Pending, Shown
<1>4. Published => Published' BY <1>2, <1>3, Zenon DEF Published
<1>5. \A m \in Run : (Alive(m)' <=> Alive(m)) /\ (Loose(m)' <=> Loose(m))
  BY <1>3, Zenon DEF Loose, Alive, Exists
<1>6. /\ p.total >= 1 /\ p # NoBatch
      /\ batch # NoBatch => p.total = batch.total
      /\ batch = NoBatch => p.total = files[r].total
  <2>1. files[r].total >= 1 BY Zenon DEF IInv, FilesOK, Alive
  <2>2. batch.total = 0 <=> batch = NoBatch BY NoBatchType, Zenon DEF IInv, RecordOK
  <2>3. batch = NoBatch => ~Published BY Unpublished, Zenon
  <2> QED BY <1>0, <1>2, <2>1, <2>2, <2>3, NoBatchType
<1>7. ASSUME ~Published, NEW m \in Run, Loose(m) PROVE files[m].total = p.total
  <2>1. CASE batch # NoBatch BY <1>6, <1>7, <2>1, Zenon DEF IInv, TotalsOK
  <2>2. CASE batch = NoBatch
    <3>1. Loose(r) BY <2>2, NoBatchType DEF Loose, Pending, Listed
    <3> QED BY <1>6, <1>7, <2>2, <3>1, Zenon DEF IInv, TotalsOK
  <2> QED BY <2>1, <2>2, Zenon
<1>8. FilesOK' BY <1>3, Zenon DEF IInv, FilesOK, Exists
<1>9. RecordOK'
  <2>1. \A m \in Pending(batch) : Alive(m)' => files'[m].total = p.pendingTotal
    BY <1>2, Zenon DEF IInv, RecordOK, Alive, Exists
  <2>2. ASSUME batch.before # <<>>, NEW i \in DOMAIN batch.pending
        PROVE  Reused(batch.pending[i], batch.before[i])'
    <3>1. Reused(batch.pending[i], batch.before[i]) /\ Published BY <2>2, Zenon DEF IInv, RecordOK
    <3> QED BY <1>2, <1>3, <3>1, Zenon DEF Reused, Exists
  <2>3. batch.before # <<>> =>
          Len(batch.before) = Len(batch.pending) /\ batch.pendingTotal = batch.total /\ Published
    BY Zenon DEF IInv, RecordOK
  <2>4. batch.before = <<>> => Pending(batch) \cap Shown = {} BY Zenon DEF IInv, RecordOK
  <2>5. batch'.before # <<>> => \A i \in DOMAIN batch'.pending : Reused(batch.pending[i], batch.before[i])'
    BY <1>2, <1>3, <2>2, Zenon
  <2> QED BY <1>2, <1>3, <1>4, <1>6, <2>1, <2>3, <2>4, <2>5 DEF RecordOK
<1>10. TotalsOK'
  <2>1. ASSUME NEW m \in Run, Loose(m) PROVE files[m].total <= p.total /\ Settled(m, batch.total)'
    <3>1. CASE ~Published BY <1>0, <1>3, <1>6, <1>7, <2>1, <3>1 DEF Settled
    <3>2. CASE Published
      <4>1. batch # NoBatch BY <3>2, Unpublished, Zenon
      <4> QED BY <1>2, <1>3, <2>1, <3>2, <4>1, Zenon DEF IInv, TotalsOK, Settled
    <3> QED BY <3>1, <3>2, Zenon
  <2> QED BY <1>3, <1>4, <1>5, <1>7, <2>1, Zenon DEF TotalsOK
<1>11. AncestryOK'
  <2> SUFFICES ASSUME NEW k \in Run, NEW m \in Run, Alive(k), Alive(m), k \in files[m].prev,
                      m \notin Pending(batch) \/ batch.before # <<>>
               PROVE  k \in p.retired \/ files[k].started
    BY <1>2, <1>3, <1>5, Zenon DEF AncestryOK
  <2>1. CASE ~Published BY <1>2, <2>1, Zenon DEF Alive
  <2>2. CASE Published BY <1>2, <2>2, Zenon DEF IInv, AncestryOK
  <2> QED BY <2>1, <2>2, Zenon
<1>12. FirstOK' BY <1>3, <1>4, Zenon DEF IInv, FirstOK, Exists
<1>13. HistoryOK' BY <1>3, <1>5, Zenon DEF IInv, HistoryOK
<1> QED BY <1>2, <1>3, <1>5, <1>8, <1>9, <1>10, <1>11, <1>12, <1>13 DEF Disk

\* A deletion in progress has a run to delete.
LEMMA DeletingOp ==
  ASSUME IInv, op.pc \in {"retain", "fence", "remove"}
  PROVE  /\ op \in Operation /\ sched = <<>> /\ committed # {} /\ op.i \in DOMAIN op.pend /\ op.i \in Nat
         /\ op.pend[op.i].id \in Run /\ op.pend[op.i].id \in Planned /\ Planned \subseteq Run
         /\ DOMAIN op.pend = 1..Len(op.pend) /\ Len(op.pend) \in Nat
         /\ op.kind \in {"deleteRun", "deleteBatch"}
<1>1. /\ sched = <<>> /\ committed # {} /\ op.i \in DOMAIN op.pend /\ TypeOK
      /\ op.kind \in {"deleteRun", "deleteBatch"}
  BY Zenon DEF IInv, DeleteOK
<1> QED BY <1>1, OpFacts, Zenon DEF Planned

\* The record is written before a run is deleted.
LEMMA RetainInv ==
  ASSUME IInv, RetainStep
  PROVE  IInv'
<1>1. op.pc = "retain" /\ UNCHANGED <<files, fence, legacy, committed, exposed, enqueued, live, sched, ids>>
  BY Zenon DEF RetainStep, history
<1>2. /\ op \in Operation /\ sched = <<>> /\ op.i \in DOMAIN op.pend /\ op.pend[op.i].id \in Run
      /\ op.kind \in {"deleteRun", "deleteBatch"}
  BY <1>1, DeletingOp, Zenon
<1>3. PICK r \in Run : r = op.pend[op.i].id BY <1>2, Zenon
<1>4. PICK new : new = IF r \in fence THEN batch ELSE Retained(r) BY Zenon
<1>5. /\ batch' \in {batch, new} /\ (op' = [op EXCEPT !.pc = "fence"] \/ op' = NoOp)
      /\ r \in fence \/ Exists(r)
  BY <1>3, <1>4, Zenon DEF RetainStep
<1>6. /\ Disk' /\ HistoryOK' /\ batch' \in Record /\ batch'.pending = batch.pending
      /\ \A m \in Run : Loose(m)' <=> Loose(m)
  <2>1. CASE batch' = batch
    <3>1. Disk' BY <1>1, <2>1, Quiet, Zenon DEF IInv, Disk, saved
    <3>2. \A m \in Run : Loose(m)' <=> Loose(m) BY <1>1, <2>1, Zenon DEF Loose, Alive, Exists, Pending
    <3> QED BY <1>1, <2>1, <3>1, <3>2, Zenon DEF IInv, HistoryOK, Shown, TypeOK
  <2>2. CASE batch' # batch
    <3>1. batch' = Retained(r) /\ Alive(r) BY <1>4, <1>5, <2>2, Zenon DEF Alive
    <3> QED BY <1>1, <3>1, RetainKeeps, Zenon
  <2> QED BY <2>1, <2>2, Zenon
<1>7. CASE op' = NoOp
  <2>1. TypeOK' BY <1>1, <1>6, <1>7, NoOpType, Zenon DEF IInv, TypeOK
  <2>2. Drawn' BY <1>1, <1>6, <1>7, NoOpType DEF IInv, Drawn, Planned, Pending
  <2>3. PlanOK' /\ AdmitOK' /\ DeleteOK' BY <1>7, NoOpType, CalmOp, Zenon DEF Calm
  <2>4. StepOK' BY <1>7, NoOpType, Zenon DEF StepOK
  <2>5. SchedOK' BY <1>1, <1>2, Zenon DEF IInv, SchedOK
  <2> QED BY <1>6, <2>1, <2>2, <2>3, <2>4, <2>5, Zenon DEF IInv, Disk
<1>8. CASE op' = [op EXCEPT !.pc = "fence"]
  <2>0. /\ op' \in Operation /\ op'.pc = "fence" /\ op'.kind = op.kind /\ op'.pend = op.pend /\ op'.i = op.i
    BY <1>2, <1>8, PcStep DEF Pcs
  <2>1. TypeOK' BY <1>1, <1>6, <2>0, Zenon DEF IInv, TypeOK
  <2>2. Drawn' BY <1>1, <1>6, <2>0, Zenon DEF IInv, Drawn, Planned, Pending
  <2>3. PlanOK' /\ AdmitOK' BY <2>0, Zenon DEF PlanOK, AdmitOK
  <2>4. StepOK' BY <1>2, <2>0, Zenon DEF StepOK
  <2>5. SchedOK' BY <1>1, <1>2 DEF IInv, SchedOK
  <2>6. DeleteOK' BY <1>1, <1>6, <2>0 DEF IInv, DeleteOK
  <2> QED BY <1>6, <2>1, <2>2, <2>3, <2>4, <2>5, <2>6, Zenon DEF IInv, Disk
<1> QED BY <1>5, <1>7, <1>8, Zenon

\* Fencing runs and removing the files of fenced runs keeps the saved group
\* consistent.
LEMMA ErasingKeeps ==
  ASSUME TypeOK, Disk, HistoryOK, files' \in [Run -> File], fence \subseteq fence',
         UNCHANGED <<batch, legacy, committed, exposed, enqueued>>,
         \A r \in Run : files'[r] = files[r] \/ (r \in fence' /\ files'[r] \in {NoFile, EmptyDir})
  PROVE  Disk' /\ HistoryOK' /\ \A r \in Run : Loose(r)' => Loose(r)
<1>1. /\ NoFile.st = "none" /\ NoFile.prev = {} /\ EmptyDir.st = "dir" /\ EmptyDir.prev = {}
  BY Zenon DEF NoFile, EmptyDir
<1>2. /\ Pending(batch)' = Pending(batch) /\ Shown' = Shown /\ (Published' <=> Published)
      /\ Pending(batch) \subseteq Run /\ \A i \in DOMAIN batch.pending : batch.pending[i] \in Run
  BY SeqFacts DEF Pending, Listed, Shown, Published, TypeOK, Record
<1>3. \A r \in Run : /\ Alive(r)' => Alive(r) /\ files'[r] = files[r]
                     /\ Loose(r)' => Loose(r) /\ files'[r] = files[r]
  BY <1>2, Zenon DEF Alive, Loose, Exists
<1>4. FilesOK' BY <1>1, <1>2, Zenon DEF Disk, FilesOK, Exists
<1>5. RecordOK'
  <2>1. \A r \in Pending(batch) : Alive(r)' => files'[r].total = batch.pendingTotal
    BY <1>2, <1>3, Zenon DEF Disk, RecordOK
  <2>2. ASSUME batch.before # <<>>, NEW i \in DOMAIN batch.pending
        PROVE  Reused(batch.pending[i], batch.before[i])'
    <3>1. Reused(batch.pending[i], batch.before[i]) BY <2>2, Zenon DEF Disk, RecordOK
    <3>2. PICK r \in Run : r = batch.pending[i] BY <1>2, Zenon
    <3>3. r \notin fence' => files'[r] = files[r] /\ r \notin fence BY Zenon
    <3> QED BY <1>2, <3>1, <3>2, <3>3, Zenon DEF Reused, Exists
  <2> QED BY <1>2, <2>1, <2>2, Zenon DEF Disk, RecordOK
<1>6. TotalsOK' BY <1>2, <1>3 DEF Disk, TotalsOK, Settled
<1>7. AncestryOK' BY <1>2, <1>3, Zenon DEF Disk, AncestryOK
<1>8. FirstOK'
  <2>1. 1 \notin fence' => files'[1] = files[1] /\ 1 \notin fence BY Constants, Zenon
  <2> QED BY <1>2, <2>1, Zenon DEF Disk, FirstOK, Exists
<1>9. HistoryOK' BY <1>2, <1>3, Zenon DEF HistoryOK
<1> QED BY <1>3, <1>4, <1>5, <1>6, <1>7, <1>8, <1>9, Zenon DEF Disk

\* A deletion that ends early.
LEMMA ErasedInv ==
  ASSUME IInv, Disk', HistoryOK', op' = NoOp, sched = <<>>, files' \in [Run -> File],
         fence' \subseteq fence \cup Planned, fence' \subseteq Run, live' \in [Run -> States],
         \A r \in Run : live'[r] = "running" => live[r] = "running",
         UNCHANGED <<batch, legacy, committed, exposed, enqueued, sched, ids>>
  PROVE  IInv'
<1>1. TypeOK' BY NoOpType, Zenon DEF IInv, TypeOK
<1>2. Drawn' BY NoOpType DEF IInv, Drawn, Planned, Pending
<1>3. PlanOK' /\ AdmitOK' /\ DeleteOK' BY NoOpType, CalmOp, Zenon DEF Calm
<1>4. StepOK' BY NoOpType, Zenon DEF StepOK
<1>5. SchedOK' BY Zenon DEF IInv, SchedOK
<1> QED BY <1>1, <1>2, <1>3, <1>4, <1>5, Zenon DEF IInv, Disk

\* The deletion fence is written before a run's files are removed.
LEMMA FenceInv ==
  ASSUME IInv, FenceStep
  PROVE  IInv'
<1>1. op.pc = "fence" /\ UNCHANGED <<files, batch, legacy, committed, exposed, enqueued, live, sched, ids>>
  BY Zenon DEF FenceStep, history
<1>2. /\ op \in Operation /\ sched = <<>> /\ op.i \in DOMAIN op.pend /\ op.pend[op.i].id \in Run
      /\ op.kind \in {"deleteRun", "deleteBatch"} /\ op.pend[op.i].id \in Planned
  BY <1>1, DeletingOp, Zenon
<1>3. PICK r \in Run : r = op.pend[op.i].id BY <1>2, Zenon
<1>4. \/ fence' = fence \cup {r} /\ op' = [op EXCEPT !.pc = "remove"]
      \/ fence' \in {fence, fence \cup {r}} /\ op' = NoOp
  BY <1>3, Zenon DEF FenceStep
<1>5. /\ fence \subseteq fence' /\ fence' \subseteq fence \cup Planned /\ fence' \subseteq Run
      /\ files' \in [Run -> File] /\ live' \in [Run -> States] /\ TypeOK /\ Disk /\ HistoryOK
  BY <1>1, <1>2, <1>3, <1>4, Zenon DEF IInv, TypeOK, Disk
<1>6. Disk' /\ HistoryOK' /\ \A m \in Run : Loose(m)' => Loose(m) BY <1>1, <1>5, ErasingKeeps, Zenon
<1>7. CASE op' = NoOp BY <1>1, <1>2, <1>5, <1>6, <1>7, ErasedInv, Zenon
<1>8. CASE fence' = fence \cup {r} /\ op' = [op EXCEPT !.pc = "remove"]
  <2>0. /\ op' \in Operation /\ op'.pc = "remove" /\ op'.kind = op.kind /\ op'.pend = op.pend /\ op'.i = op.i
    BY <1>2, <1>8, PcStep DEF Pcs
  <2>1. TypeOK' BY <1>1, <1>5, <2>0, Zenon DEF IInv, TypeOK
  <2>2. Drawn' BY <1>1, <1>5, <2>0, Zenon DEF IInv, Drawn, Planned, Pending
  <2>3. PlanOK' /\ AdmitOK' BY <2>0, Zenon DEF PlanOK, AdmitOK
  <2>4. StepOK' BY <1>2, <2>0, Zenon DEF StepOK
  <2>5. SchedOK' BY <1>1, <1>2, Zenon DEF IInv, SchedOK
  <2>6. DeleteOK'
    <3>1. op'.pend[op'.i].id \in fence' BY <1>3, <1>8, <2>0
    <3>2. op.kind = "deleteBatch" =>
            \A m \in Run : Loose(m) => \E j \in DOMAIN op.pend : j >= op.i /\ op.pend[j].id = m
      BY <1>1, Zenon DEF IInv, DeleteOK
    <3>3. sched' = <<>> /\ committed' # {} BY <1>1, Zenon DEF IInv, DeleteOK
    <3> QED BY <1>2, <1>6, <2>0, <3>1, <3>2, <3>3, Zenon DEF DeleteOK
  <2> QED BY <1>6, <2>1, <2>2, <2>3, <2>4, <2>5, <2>6, Zenon DEF IInv, Disk
<1> QED BY <1>4, <1>7, <1>8, Zenon

\* A run's files are removed, perhaps not all of them.
LEMMA RemoveInv ==
  ASSUME IInv, RemoveStep
  PROVE  IInv'
<1>1. op.pc = "remove" /\ UNCHANGED <<fence, batch, legacy, committed, exposed, enqueued, sched, ids>>
  BY Zenon DEF RemoveStep, history
<1>2. /\ op \in Operation /\ sched = <<>> /\ op.i \in DOMAIN op.pend /\ op.pend[op.i].id \in Run
      /\ op.kind \in {"deleteRun", "deleteBatch"} /\ op.i \in Nat /\ committed # {}
      /\ DOMAIN op.pend = 1..Len(op.pend) /\ Len(op.pend) \in Nat
  BY <1>1, DeletingOp, Zenon
<1>3. PICK r \in Run : r = op.pend[op.i].id BY <1>2, Zenon
<1>4. r \in fence /\ TypeOK /\ Disk /\ HistoryOK BY <1>1, <1>3, Zenon DEF IInv, DeleteOK, Disk
<1>5. PICK last \in BOOLEAN : last = (op.i = Len(op.pend)) BY Zenon
<1>6. \/ /\ files' = [files EXCEPT ![r] = NoFile] /\ live' = [live EXCEPT ![r] = "none"]
         /\ op' = [op EXCEPT !.i = IF last THEN @ ELSE @ + 1,
                             !.pc = IF ~last THEN "retain"
                                    ELSE IF op.kind = "deleteRun" THEN "unlist" ELSE "group"]
      \/ files' \in {files, [files EXCEPT ![r] = EmptyDir]} /\ op' = NoOp /\ UNCHANGED live
  BY <1>3, <1>5, Zenon DEF RemoveStep
<1>7. files \in [Run -> File] /\ live \in [Run -> States] /\ fence \subseteq Run BY <1>4, Zenon DEF TypeOK
<1>8. /\ files' \in [Run -> File] /\ live' \in [Run -> States]
      /\ \A m \in Run : files'[m] = files[m] \/ (m \in fence' /\ files'[m] \in {NoFile, EmptyDir})
      /\ \A m \in Run : live'[m] = "running" => live[m] = "running"
  BY <1>1, <1>4, <1>6, <1>7, NoFileType DEF States
<1>9. Disk' /\ HistoryOK' /\ \A m \in Run : Loose(m)' => Loose(m) BY <1>1, <1>4, <1>8, ErasingKeeps, Zenon
<1>10. CASE op' = NoOp BY <1>1, <1>2, <1>7, <1>8, <1>9, <1>10, ErasedInv, Zenon
<1>11. CASE op' = [op EXCEPT !.i = IF last THEN @ ELSE @ + 1,
                             !.pc = IF ~last THEN "retain"
                                    ELSE IF op.kind = "deleteRun" THEN "unlist" ELSE "group"]
  <2> DEFINE next == IF last THEN op.i ELSE op.i + 1
             pc == IF ~last THEN "retain" ELSE IF op.kind = "deleteRun" THEN "unlist" ELSE "group"
  <2>1. /\ next \in Nat /\ (~last => next = op.i + 1 /\ next \in DOMAIN op.pend)
        /\ pc \in {"retain", "unlist", "group"} /\ pc \in Pcs
        /\ pc = "retain" <=> ~last
        /\ pc = "group" => last /\ op.kind = "deleteBatch"
    <3>1. CASE last BY <1>2, <3>1, Zenon DEF Pcs, Calm
    <3>2. CASE ~last
      <4>1. op.i # Len(op.pend) BY <1>5, <3>2, Zenon
      <4>2. next = op.i + 1 /\ pc = "retain" BY <3>2, Zenon
      <4>3. op.i + 1 \in DOMAIN op.pend /\ op.i + 1 \in Nat BY <1>2, <4>1
      <4> QED BY <3>2, <4>2, <4>3, Zenon DEF Pcs
    <3> QED BY <3>1, <3>2, Zenon
  <2>2. op' = [op EXCEPT !.i = next, !.pc = pc] BY <1>11, Zenon
  <2> HIDE DEF next, pc
  <2>3. /\ op' \in Operation /\ op'.pc = pc /\ op'.kind = op.kind /\ op'.pend = op.pend /\ op'.i = next
    BY <1>2, <2>1, <2>2, Zenon DEF Operation
  <2>4. TypeOK' BY <1>1, <1>8, <2>3, Zenon DEF IInv, TypeOK
  <2>5. Drawn' BY <1>1, <2>3, Zenon DEF IInv, Drawn, Planned, Pending
  <2>6. PlanOK' /\ AdmitOK' BY <2>1, <2>3, Zenon DEF PlanOK, AdmitOK
  <2>7. StepOK' BY <1>2, <2>1, <2>3, Zenon DEF StepOK
  <2>8. SchedOK' BY <1>1, <1>2, <1>8, Zenon DEF IInv, SchedOK
  <2>9. DeleteOK'
    <3>1. ASSUME op.kind = "deleteBatch", NEW m \in Run, Loose(m)'
          PROVE  \E j \in DOMAIN op.pend : j >= op.i + 1 /\ op.pend[j].id = m
      <4>1. PICK j \in DOMAIN op.pend : j >= op.i /\ op.pend[j].id = m
        BY <1>1, <1>9, <3>1, Zenon DEF IInv, DeleteOK
      <4>2. m \notin fence BY <1>9, <3>1, Zenon DEF Loose, Alive
      <4>3. j # op.i BY <1>3, <1>4, <4>1, <4>2, Zenon
      <4> QED BY <1>2, <4>1, <4>3
    <3>2. pc = "group" => \A m \in Run : ~Loose(m)'
      <4>1. last => op.i = Len(op.pend) BY <1>5, Zenon
      <4>2. last => ~\E j \in DOMAIN op.pend : j >= op.i + 1 BY <1>2, <4>1
      <4> QED BY <2>1, <3>1, <4>2, Zenon
    <3>3. pc = "retain" /\ op.kind = "deleteBatch" =>
            \A m \in Run : Loose(m)' => \E j \in DOMAIN op.pend : j >= next /\ op.pend[j].id = m
      BY <2>1, <3>1, Zenon
    <3> QED BY <1>1, <1>2, <2>1, <2>3, <3>2, <3>3, Zenon DEF DeleteOK
  <2> QED BY <1>9, <2>4, <2>5, <2>6, <2>7, <2>8, <2>9, Zenon DEF IInv, Disk
<1> QED BY <1>6, <1>10, <1>11, Zenon

\* deleteSavedBatch removes the group's directory last.
LEMMA RemoveGroupInv ==
  ASSUME IInv, RemoveGroup
  PROVE  IInv'
<1>1. /\ op.pc = "group" /\ UNCHANGED <<files, fence, legacy, committed, enqueued, live, sched, ids>>
      /\ op \in Operation /\ sched = <<>> /\ committed # {} /\ \A r \in Run : ~Loose(r)
  BY Zenon DEF IInv, TypeOK, DeleteOK, RemoveGroup
<1>2. op' = NoOp \/ op' = [op EXCEPT !.pc = "unlist"] BY Zenon DEF RemoveGroup
<1>3. /\ op' \in Operation /\ op'.pc \in {"idle", "unlist"} /\ op'.pend \in {op.pend, <<>>}
      /\ op'.kind \in {op.kind, "none"}
  BY <1>1, <1>2, NoOpType, PcStep DEF Pcs, Calm
<1>4. CASE UNCHANGED <<batch, exposed>>
  BY <1>1, <1>3, <1>4, QuietCalm, Zenon DEF Calm, saved, IInv, StepOK
<1>5. CASE batch' = NoBatch /\ exposed' = exposed \cup {r \in Pending(batch) \ committed : Exists(r)}
  <2>1. /\ files \in [Run -> File] /\ batch \in Record /\ Pending(batch) \subseteq Run
        /\ Pending(batch) \subseteq 1..ids
    BY SeqFacts DEF IInv, TypeOK, Record, Pending, Listed, Drawn
  <2>2. Pending(batch)' = {} /\ ~Published' BY <1>5, NoBatchType, Unpublished DEF Pending, Listed, Published
  <2>3. \A r \in Run : /\ Alive(r)' <=> Alive(r)
                       /\ Loose(r)' <=> Alive(r)
                       /\ Alive(r) => r \in Pending(batch)
    BY <1>1, <2>2, Zenon DEF Alive, Exists, Loose
  <2>4. Shown \subseteq Shown' BY <1>1, <1>5, Zenon DEF Shown
  <2>5. FilesOK' BY <1>1, <2>4, Zenon DEF IInv, FilesOK, Exists
  <2>6. RecordOK' BY <1>5, <2>2, NoBatchType, Zenon DEF RecordOK
  <2>7. TotalsOK'
    <3>1. \A r \in Run : Alive(r) => files[r].total = batch.pendingTotal BY <2>3, Zenon DEF IInv, RecordOK
    <3> QED BY <1>1, <1>5, <2>3, <3>1, Zenon DEF TotalsOK
  <2>8. AncestryOK'
    <3> SUFFICES ASSUME NEW r \in Run, NEW m \in Run, Alive(r), Alive(m), r \in files[m].prev PROVE FALSE
      BY <1>1, <2>3, Zenon DEF AncestryOK
    <3>1. r \in Shown /\ r \in Pending(batch) BY <2>3, Zenon DEF IInv, FilesOK
    <3>2. batch.before # <<>> BY <3>1, Zenon DEF IInv, RecordOK
    <3>3. PICK i \in DOMAIN batch.pending : r = batch.pending[i] BY <3>1, Zenon DEF Pending, Listed
    <3>4. r \notin batch.retired /\ ~files[r].started
      BY <3>2, <3>3, Zenon DEF IInv, RecordOK, Reused, Alive
    <3> QED BY <3>2, <3>4, Zenon DEF IInv, AncestryOK
  <2>9. FirstOK'
    <3>1. ~legacy => 1 \in committed /\ 1 \in fence
      BY <1>1, Constants, Zenon DEF IInv, FirstOK, Loose, Alive
    <3>2. legacy => 1 \in committed /\ (1 \notin fence => Exists(1)) BY Zenon DEF IInv, FirstOK
    <3>3. Exists(1)' = Exists(1) BY <1>1, Zenon DEF Exists
    <3> QED BY <1>1, <3>1, <3>2, <3>3, Zenon DEF FirstOK
  <2>10. HistoryOK'
    <3>1. \A r \in Run : Alive(r) => r \in Shown' BY <1>1, <1>5, <2>3, Zenon DEF Alive, Shown
    <3> QED BY <1>1, <2>3, <3>1, Zenon DEF IInv, HistoryOK
  <2>11. TypeOK' BY <1>1, <1>3, <1>5, <2>1, NoBatchType, Zenon DEF IInv, TypeOK
  <2>12. Drawn'
    <3>1. Planned' \subseteq Planned BY <1>3 DEF Planned
    <3> QED BY <1>1, <1>5, <2>1, <2>2, <3>1, Zenon DEF IInv, Drawn
  <2>13. PlanOK' /\ AdmitOK' /\ DeleteOK' BY <1>3, CalmOp, Zenon DEF Calm
  <2>14. StepOK' BY <1>1, <1>3, Zenon DEF IInv, StepOK
  <2>15. SchedOK' BY <1>1, Zenon DEF IInv, SchedOK
  <2> QED BY <2>5, <2>6, <2>7, <2>8, <2>9, <2>10, <2>11, <2>12, <2>13, <2>14, <2>15, Zenon DEF IInv
<1> QED BY <1>4, <1>5, Zenon DEF RemoveGroup
-----------------------------------------------------------------------------
=============================================================================
