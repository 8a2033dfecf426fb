--------------------------- MODULE BatchAdmission ---------------------------
(***************************************************************************)
(* Admission of the runs of one group (batch): a submission with its       *)
(* idempotency receipt, appended runs, continuation of runs that never     *)
(* started, retries under fresh IDs, and deletion                          *)
(* (internal/controller/batch_admission.go, batch_append.go, resume.go,    *)
(* submissions.go, repeat.go, result_batches.go, results.go and            *)
(* library_group_admission.go).                                            *)
(*                                                                         *)
(* Several files must change together: the group record batch.json, one    *)
(* directory per run, the membership of the group in the library.  The     *)
(* record first names the pending runs (prepare), then the directories are *)
(* written, then the record is replaced (commit).  Any write can fail,     *)
(* with its file replaced or not, and the Controller can stop between any  *)
(* two of them.  cancelMu serialises the operations; the steps of one are  *)
(* separate because the Controller can stop between them.                  *)
(*                                                                         *)
(* Run 1 is the ID derived from the submission key; other IDs are drawn    *)
(* from a counter, since random IDs are never reused.                      *)
(***************************************************************************)
EXTENDS Naturals, Sequences, FiniteSets

CONSTANTS
  MaxRuns,    \* bound: IDs ever drawn
  MaxTotal,   \* bound: runs of the group, maxScenarioRepetitions in the code
  MaxFaults,  \* bound: failed writes
  MaxStops    \* bound: restarts of the Controller

ASSUME BatchConstants ==
  /\ {MaxRuns, MaxTotal, MaxFaults, MaxStops} \subseteq Nat
  /\ MaxRuns >= 2 /\ MaxTotal >= 1

Run == 1..MaxRuns
Iteration == 1..MaxTotal

VARIABLES
  files,       \* current-run/<id>/experiment.json
  fence,       \* .deleted-results
  batch,       \* result-groups/<batch>/batch.json
  receipt,     \* run-submissions/<key>.json
  intent,      \* library-group-admission.json
  grouped,     \* whether the batch, and the scenario, are in the library group
  live,        \* state.experiments
  sched,       \* runs left to the scheduler of the batch; empty when it has ended
  op,          \* the operation holding cancelMu
  ids,         \* last ID drawn
  faults, stops,
  legacy,      \* rigid: the group was made before group records existed
  committed, retired, enqueued, exposed, upgraded   \* history

disk == <<files, fence, batch, receipt, intent, grouped>>
memory == <<live, sched, op>>
\* committed: runs some client has been shown.  retired: attempts that a newer
\* one has replaced.  enqueued: times the submission was started.  exposed:
\* pending runs left behind by the deletion of a quarantined group.  upgraded:
\* an admission, not a deletion, made the record of a legacy group.
history == <<legacy, committed, retired, enqueued, exposed, upgraded>>
vars == <<disk, memory, ids, faults, stops, history>>

\* "dir" is a directory without experiment.json.
NoFile == [st |-> "none", it |-> 0, total |-> 0, prev |-> {}, started |-> FALSE]
EmptyDir == [NoFile EXCEPT !.st = "dir"]
\* A record that is not there; its total is at least 1 otherwise.
NoBatch == [total |-> 0, pending |-> <<>>, pendingTotal |-> 0, before |-> <<>>,
            retired |-> {}, current |-> [i \in Iteration |-> 0], deleted |-> {}]
NoOp == [pc |-> "idle", kind |-> "none", pend |-> <<>>, total |-> 0, before |-> <<>>, i |-> 0]

\* A group from before the group record: one iteration, tried twice.
LegacyFiles ==
  [r \in Run |-> IF r > 2 THEN NoFile
                 ELSE [st |-> IF r = 1 THEN "failed" ELSE "completed", it |-> 1, total |-> 1,
                       prev |-> IF r = 1 THEN {} ELSE {1}, started |-> TRUE]]

Init ==
  /\ legacy \in BOOLEAN
  /\ files = (IF legacy THEN LegacyFiles ELSE [r \in Run |-> NoFile])
  /\ fence = {} /\ batch = NoBatch
  /\ receipt = FALSE /\ intent = "none"
  /\ grouped \in [batch : {FALSE}, scenario : BOOLEAN]
  /\ live = [r \in Run |-> "none"] /\ sched = <<>> /\ op = NoOp
  /\ ids = (IF legacy THEN 2 ELSE 1) /\ faults = 0 /\ stops = 0
  /\ committed = (IF legacy THEN {1, 2} ELSE {}) /\ retired = (IF legacy THEN {1} ELSE {})
  /\ enqueued = 0 /\ exposed = {} /\ upgraded = FALSE
-----------------------------------------------------------------------------
(***************************************************************************)
(* What readers see                                                        *)
(***************************************************************************)
Listed(s) == {s[i] : i \in DOMAIN s}
Pending(b) == Listed(b.pending)
Exists(r) == files[r].st \notin {"none", "dir"}

\* readSavedResult with applyBatchExtension: pending and deleted results are
\* not found, and a run beyond the committed total is an error.
Readable(r) ==
  /\ Exists(r) /\ r \notin fence
  /\ batch # NoBatch => r \notin Pending(batch) /\ files[r].total \in 1..batch.total

\* The total a reader is shown, and the state: a stored active state that this
\* process does not own is an interruption.
Total(r) == IF batch = NoBatch THEN files[r].total ELSE batch.total
State(r) ==
  IF files[r].st \in {"queued", "running"} /\ live[r] \notin {"queued", "running"}
  THEN "interrupted" ELSE files[r].st

AllBatchMembers == {r \in Run : Readable(r)}
CurrentBatchMembers ==
  {r \in AllBatchMembers :
     /\ r \notin batch.retired
     /\ \A m \in AllBatchMembers \ {r} : r \notin files[m].prev}

\* resultDeletionBusyLocked; every member of an active batch has its handle.
Busy(r) == sched # <<>> \/ live[r] \in {"queued", "running"}
-----------------------------------------------------------------------------
(***************************************************************************)
(* rollbackBatchExtensionLocked                                            *)
(***************************************************************************)
\* Mutant: a rollback removes reused runs too.
UndoneRemoves(f, b, k) ==
  [r \in Run |-> IF \E i \in 1..k : b.pending[i] = r THEN NoFile ELSE f[r]]

\* The files after the first k pending runs were handled: a reused run gets its
\* image back, a new one is removed.
Undone(f, b, k) ==
  [r \in Run |->
     IF ~\E i \in 1..k : b.pending[i] = r THEN f[r]
     ELSE IF b.before = <<>> THEN NoFile
     ELSE IF f[r] = NoFile THEN NoFile
     ELSE b.before[CHOOSE i \in 1..k : b.pending[i] = r]]

\* A new run that is not as the admission left it is not removed.
Unexpected(b, r) ==
  /\ b.before = <<>> /\ Exists(r)
  /\ \/ files[r].total # (IF b.pendingTotal = 0 THEN b.total + Len(b.pending) ELSE b.pendingTotal)
     \/ files[r].st # "queued" \/ files[r].started

Cleared(b) == [b EXCEPT !.pending = <<>>, !.before = <<>>, !.pendingTotal = 0]

RollbackOk ==
  /\ \A r \in Pending(batch) : ~Unexpected(batch, r)
  /\ files' = Undone(files, batch, Len(batch.pending))
  /\ batch' = Cleared(batch)

\* It stops at some run, or at the record, whose file may be replaced already.
RollbackFails ==
  /\ batch.pending # <<>>
  /\ \/ faults < MaxFaults /\ faults' = faults + 1
     \/ (\E r \in Pending(batch) : Unexpected(batch, r)) /\ UNCHANGED faults
  /\ \E k \in 0..Len(batch.pending) :
       /\ \A i \in 1..k : ~Unexpected(batch, batch.pending[i])
       /\ files' \in {Undone(files, batch, k)}
            \cup {[Undone(files, batch, k) EXCEPT ![batch.pending[i]] = EmptyDir] :
                    i \in {j \in {k + 1} \cap DOMAIN batch.pending :
                             batch.before = <<>> /\ Exists(batch.pending[j])
                               /\ ~Unexpected(batch, batch.pending[j])}}
       /\ batch' \in {batch} \cup (IF k = Len(batch.pending) THEN {Cleared(batch)} ELSE {})
-----------------------------------------------------------------------------
(***************************************************************************)
(* The library group of a new batch: admitScenarioResultGroup              *)
(***************************************************************************)
Published == \E i \in Iteration : batch.current[i] # 0

\* recoverLibraryGroupAdmissionLocked.  intent is "none", or whether the batch
\* was in the group before.  A batch that is not in the group stays out.
Restored == IF Published THEN grouped ELSE [grouped EXCEPT !.batch = @ /\ intent = "in"]
Recovered == intent' = "none" /\ grouped' = IF intent = "none" THEN grouped ELSE Restored
RecoveryFails ==
  /\ intent # "none" /\ faults < MaxFaults /\ faults' = faults + 1
  /\ UNCHANGED intent /\ grouped' \in {grouped, Restored}

\* An intent that an earlier admission left behind is settled first.
SettleIntent ==
  /\ op.pc = "intent" /\ intent # "none"
  /\ \/ Recovered /\ UNCHANGED <<op, faults>>
     \/ RecoveryFails /\ op' = NoOp
  /\ UNCHANGED <<files, fence, batch, receipt, live, sched, ids, stops, history>>

\* The intent is saved, then the membership, before any run is admitted.
SaveIntent ==
  /\ op.pc = "intent" /\ intent = "none"
  /\ \/ /\ ~grouped.scenario /\ UNCHANGED <<grouped, intent, faults>>
        /\ op' = [op EXCEPT !.pc = "prepare"]
     \/ /\ grouped.scenario /\ intent' = (IF grouped.batch THEN "in" ELSE "out")
        /\ op' = [op EXCEPT !.pc = "member"] /\ UNCHANGED <<grouped, faults>>
     \/ /\ grouped.scenario /\ faults < MaxFaults /\ faults' = faults + 1
        /\ intent' \in {intent, IF grouped.batch THEN "in" ELSE "out"}
        /\ op' = NoOp /\ UNCHANGED grouped
  /\ UNCHANGED <<files, fence, batch, receipt, live, sched, ids, stops, history>>

SaveMember ==
  /\ op.pc = "member"
  /\ \/ /\ grouped' = [grouped EXCEPT !.batch = TRUE]
        /\ op' = [op EXCEPT !.pc = "prepare"] /\ UNCHANGED faults
     \/ /\ faults < MaxFaults /\ faults' = faults + 1
        /\ grouped' \in {grouped, [grouped EXCEPT !.batch = TRUE]}
        /\ op' = [op EXCEPT !.pc = "failed"]
  /\ UNCHANGED <<files, fence, batch, receipt, intent, live, sched, ids, stops, history>>
-----------------------------------------------------------------------------
(***************************************************************************)
(* The operations up to the runs they want to admit                        *)
(***************************************************************************)
Queued(it, total, prev) ==
  [st |-> "queued", it |-> it, total |-> total, prev |-> prev, started |-> FALSE]

\* Every operation first rolls back what an earlier one left behind; a
\* submission first saves its receipt.
Begin(kind) ==
  /\ op.pc = "idle" /\ (legacy => kind # "submit")
  /\ \/ /\ op' = [NoOp EXCEPT !.pc = "rollback0", !.kind = kind]
        /\ receipt' = (receipt \/ kind = "submit") /\ UNCHANGED faults
     \/ /\ kind = "submit" /\ ~receipt /\ faults < MaxFaults /\ faults' = faults + 1
        /\ receipt' \in BOOLEAN /\ UNCHANGED op
  /\ UNCHANGED <<files, fence, batch, intent, grouped, live, sched, ids, stops, history>>

FirstRollback ==
  /\ op.pc = "rollback0"
  /\ \/ RollbackOk /\ op' = [op EXCEPT !.pc = "check"] /\ UNCHANGED faults
     \/ RollbackFails /\ op' = NoOp
  /\ UNCHANGED <<fence, receipt, intent, grouped, live, sched, ids, stops, history>>

\* The runs S as a sequence sorted by key.
Sorted(S, key) ==
  {s \in UNION {[1..n -> S] : n \in 0..MaxRuns} :
     /\ \A r \in S : \E i \in DOMAIN s : s[i] = r
     /\ \A i, j \in DOMAIN s : i < j => key[s[i]] < key[s[j]]}

\* The operation will admit the runs pend, which are in the order of their
\* iterations; fresh IDs have been drawn up to last.
Admits(pend, total, before, pc, last) ==
  /\ op' = [op EXCEPT !.pc = pc, !.pend = pend, !.total = total, !.i = 1, !.before = before]
  /\ ids' = last

Refused == op' = NoOp /\ UNCHANGED ids

\* Mutant: the deletion fence of the submission is not looked at.
SubmitCheckAgain ==
  /\ op.pc = "check" /\ op.kind = "submit"
  /\ IF Published \/ ids + MaxTotal - 1 > MaxRuns THEN Refused
     ELSE \E n \in Iteration :
            Admits([i \in 1..n |-> [id |-> IF i = 1 THEN 1 ELSE ids + i - 1, f |-> Queued(i, n, {})]],
                   n, <<>>, "intent", ids + n - 1)
  /\ UNCHANGED <<disk, live, sched, faults, stops, history>>

\* submitScenarioFromLibrary and startScenarioRepeated: a receipt whose batch
\* was published or deleted answers without admitting anything.
SubmitCheck ==
  /\ op.pc = "check" /\ op.kind = "submit"
  /\ IF 1 \in fence \/ Published \/ ids + MaxTotal - 1 > MaxRuns THEN Refused
     ELSE \E n \in Iteration :
            Admits([i \in 1..n |-> [id |-> IF i = 1 THEN 1 ELSE ids + i - 1, f |-> Queued(i, n, {})]],
                   n, <<>>, "intent", ids + n - 1)
  /\ UNCHANGED <<disk, live, sched, faults, stops, history>>

\* AppendScenarioBatch: only a complete and idle group.
AppendCheck ==
  LET members == CurrentBatchMembers
      n == Cardinality(members)
  IN  /\ op.pc = "check" /\ op.kind = "append"
      /\ IF /\ n \in 1..(MaxTotal - 1) /\ ids < MaxRuns
            /\ {files[r].it : r \in members} = 1..n
            /\ \A r \in members : State(r) = "completed" /\ Total(r) = n
            /\ \A r \in AllBatchMembers : ~Busy(r)
         THEN Admits(<<[id |-> ids + 1, f |-> Queued(n + 1, n + 1, {})]>>, n + 1, <<>>, "prepare", ids + 1)
         ELSE Refused
      /\ UNCHANGED <<disk, live, sched, faults, stops, history>>

\* resumeScenarioBatchExpected checks the group the same way for both kinds:
\* its members agree on the total, and no two are the same iteration.
Expected(members) == Total(CHOOSE r \in members : TRUE)
Resumable(members, minimum) ==
  /\ members # {} /\ Expected(members) >= minimum
  /\ \A r \in AllBatchMembers : ~Busy(r)
  /\ \A r, m \in members : files[r].it = files[m].it => r = m
  /\ \A r \in members : Total(r) = Expected(members) /\ files[r].it \in 1..Total(r)

\* By iteration.
InOrder(S) == Sorted(S, [r \in Run |-> files[r].it])

\* ResumeScenarioBatch requeues the runs after the last attempted iteration.
\* They are written, and restored by a rollback, with the total of the group.
ResumeCheck ==
  LET members == CurrentBatchMembers
      attempted == {r \in members : files[r].started \/ State(r) \in {"failed", "completed"}}
      chosen == {r \in members : /\ \A a \in attempted : files[a].it < files[r].it
                                 /\ ~files[r].started /\ State(r) \in {"canceled", "interrupted"}}
      original(r) == [files[r] EXCEPT !.total = Total(r)]
  IN  /\ op.pc = "check" /\ op.kind = "resume"
      /\ IF /\ Resumable(members, 2) /\ chosen # {}
            /\ \E r \in members : State(r) = "failed" \/ (State(r) = "interrupted" /\ files[r].started)
         THEN \E s \in InOrder(chosen) :
                Admits([i \in DOMAIN s |-> [id |-> s[i], f |-> [original(s[i]) EXCEPT !.st = "queued"]]],
                       Expected(members), [i \in DOMAIN s |-> original(s[i])], "prepare", ids)
         ELSE Refused
      /\ UNCHANGED <<disk, live, sched, faults, stops, history>>

\* RetryScenarioBatch repeats every unfinished iteration under a fresh ID.  A
\* request that names the attempts it expects is held against the live states.
RetryCheck(named) ==
  LET members == CurrentBatchMembers
      state(r) == IF named /\ live[r] # "none" THEN live[r] ELSE State(r)
      chosen == {r \in members : state(r) # "completed"}
      again(r) == Queued(files[r].it, Total(r), files[r].prev \cup {r})
  IN  /\ op.pc = "check" /\ op.kind = "retry"
      /\ IF /\ Resumable(members, 1) /\ chosen # {}
            /\ \A r \in chosen : state(r) \in {"failed", "canceled", "interrupted"}
         THEN \E s \in InOrder(chosen) :
                IF ids + Len(s) > MaxRuns THEN Refused
                ELSE Admits([i \in DOMAIN s |-> [id |-> ids + i, f |-> again(s[i])]],
                            Expected(members), <<>>, "prepare", ids + Len(s))
         ELSE Refused
      /\ UNCHANGED <<disk, live, sched, faults, stops, history>>
-----------------------------------------------------------------------------
(***************************************************************************)
(* commitBatchAdmissionLocked                                              *)
(***************************************************************************)
\* What went wrong counts as one fault.
Fault == faults < MaxFaults /\ faults' = faults + 1

Prepared ==
  LET base == IF batch # NoBatch THEN batch
              ELSE [NoBatch EXCEPT !.total = IF op.kind = "submit" THEN op.total
                                             ELSE Total(CHOOSE r \in CurrentBatchMembers : TRUE)]
      named(i) == {r \in CurrentBatchMembers : op.kind # "submit" /\ files[r].it = i}
  IN  [base EXCEPT !.pending = [i \in DOMAIN op.pend |-> op.pend[i].id],
                   !.pendingTotal = op.total, !.before = op.before,
                   !.current = [i \in Iteration |->
                      IF @[i] = 0 /\ named(i) # {} THEN CHOOSE r \in named(i) : TRUE ELSE @[i]]]

\* The record names the pending runs.  A failure here is not rolled back.
Prepare ==
  /\ op.pc = "prepare"
  /\ \/ batch' = Prepared /\ op' = [op EXCEPT !.pc = "reserve"] /\ UNCHANGED faults
     \/ Fault /\ batch' \in {batch, Prepared} /\ op' = [op EXCEPT !.pc = "failed"]
  /\ upgraded' = (upgraded \/ (batch = NoBatch /\ legacy /\ batch' # batch))
  /\ UNCHANGED <<files, fence, receipt, intent, grouped, live, sched, ids, stops,
                 legacy, committed, retired, enqueued, exposed>>

\* reserveRepeatedFilesLocked creates each directory exclusively, and after a
\* failure removes the ones it made as far as it can; a continuation
\* overwrites the metadata of the runs it reuses.
Reserve ==
  LET run == op.pend[op.i]
      made == {op.pend[j].id : j \in 1..op.i}
      new == op.before = <<>>
  IN  /\ op.pc = "reserve" /\ op.i <= Len(op.pend)
      /\ \/ /\ new => files[run.id] = NoFile
            /\ files' = [files EXCEPT ![run.id] = run.f]
            /\ op' = [op EXCEPT !.i = @ + 1] /\ UNCHANGED faults
         \/ /\ new /\ Fault /\ op' = [op EXCEPT !.pc = "rollback"]
            /\ \E left \in SUBSET made, now \in {files[run.id], EmptyDir, run.f} :
                 files' = [r \in Run |-> IF r \notin made THEN files[r]
                                         ELSE IF r \notin left THEN NoFile
                                         ELSE IF r = run.id THEN now ELSE files[r]]
         \/ /\ ~new /\ Fault /\ op' = [op EXCEPT !.pc = "rollback"]
            /\ files' \in {files, [files EXCEPT ![run.id] = run.f]}
      /\ UNCHANGED <<fence, batch, receipt, intent, grouped, live, sched, ids, stops, history>>

\* A file or directory of a pending run cannot be synced.
SyncFails ==
  /\ op.pc = "reserve" /\ op.i > Len(op.pend) /\ Fault
  /\ op' = [op EXCEPT !.pc = "rollback"]
  /\ UNCHANGED <<disk, live, sched, ids, stops, history>>

Replaced == UNION {op.pend[i].f.prev : i \in DOMAIN op.pend}

Committed ==
  [Cleared(batch) EXCEPT
     !.total = op.total, !.retired = @ \cup Replaced,
     !.current = [i \in Iteration |->
        IF \E j \in DOMAIN op.pend : op.pend[j].f.it = i
        THEN op.pend[CHOOSE j \in DOMAIN op.pend : op.pend[j].f.it = i].id ELSE @[i]]]

\* Publish(b): the record on disk becomes b.
Publish(b) ==
  /\ batch' = b
  /\ committed' = IF b = Committed THEN committed \cup {op.pend[i].id : i \in DOMAIN op.pend} ELSE committed
  /\ retired' = IF b = Committed THEN retired \cup Replaced ELSE retired

\* The record is replaced.  A failed write is rolled back by what the record on
\* disk says; a failed sync after it keeps the runs but starts none of them.
Commit ==
  /\ op.pc = "reserve" /\ op.i > Len(op.pend)
  /\ \/ Publish(Committed) /\ op' = [op EXCEPT !.pc = "enqueue"] /\ UNCHANGED faults
     \/ Fault /\ \E b \in {batch, Committed} : Publish(b) /\ op' = [op EXCEPT !.pc = "rollback"]
     \/ Fault /\ Publish(Committed) /\ op' = [op EXCEPT !.pc = "failed"]
  /\ UNCHANGED <<files, fence, receipt, intent, grouped, live, sched, ids, stops, legacy, enqueued, exposed, upgraded>>

Rollback ==
  /\ op.pc = "rollback"
  /\ \/ RollbackOk /\ UNCHANGED faults
     \/ RollbackFails
  /\ op' = [op EXCEPT !.pc = "failed"]
  /\ UNCHANGED <<fence, receipt, intent, grouped, live, sched, ids, stops, history>>

\* A failed submission restores the library group before it answers.
Failed ==
  /\ op.pc = "failed" /\ op' = NoOp
  /\ \/ op.kind = "submit" /\ Recovered /\ UNCHANGED faults
     \/ op.kind = "submit" /\ RecoveryFails
     \/ op.kind # "submit" /\ UNCHANGED <<intent, grouped, faults>>
  /\ UNCHANGED <<files, fence, batch, receipt, live, sched, ids, stops, history>>

\* The runs become live and are handed to one scheduler.
Enqueue ==
  /\ op.pc = "enqueue"
  /\ \/ intent' = "none" /\ UNCHANGED faults
     \/ intent # "none" /\ Fault /\ UNCHANGED intent
  /\ sched' = [i \in DOMAIN op.pend |-> op.pend[i].id]
  /\ live' = [r \in Run |-> IF r \in Listed(sched') THEN "queued" ELSE live[r]]
  /\ enqueued' = IF op.kind = "submit" THEN enqueued + 1 ELSE enqueued
  /\ op' = NoOp
  /\ UNCHANGED <<files, fence, batch, receipt, grouped, ids, stops, legacy, committed, retired, exposed, upgraded>>
-----------------------------------------------------------------------------
(***************************************************************************)
(* The scheduler of the group: runRepeatedScenarios                        *)
(***************************************************************************)
StartRun ==
  /\ sched # <<>> /\ live[sched[1]] = "queued"
  /\ live' = [live EXCEPT ![sched[1]] = "running"]
  /\ files' = [files EXCEPT ![sched[1]].st = "running", ![sched[1]].started = TRUE]
  /\ UNCHANGED <<fence, batch, receipt, intent, grouped, sched, op, ids, faults, stops, history>>

\* The runs S end as st in memory and in their files.
End(S, st) ==
  /\ live' = [r \in Run |-> IF r \in S THEN st ELSE live[r]]
  /\ files' = [r \in Run |-> IF r \in S THEN [files[r] EXCEPT !.st = st] ELSE files[r]]

\* Canceled before it started, or its cleanup of earlier attempts failed.
CancelBatch ==
  /\ sched # <<>> /\ live[sched[1]] = "queued"
  /\ End(Listed(sched), "canceled") /\ sched' = <<sched[1]>>
  /\ UNCHANGED <<fence, batch, receipt, intent, grouped, op, ids, faults, stops, history>>

\* The next run starts only after a completed one; otherwise the rest is
\* canceled.  A repeated run whose final record cannot be written has failed.
FinishRun(st) ==
  /\ sched # <<>> /\ live[sched[1]] = "running"
  /\ LET r == sched[1]
         rest == Listed(Tail(sched))
     IN  \/ /\ st = "completed" /\ End({r}, st) /\ UNCHANGED faults
            /\ sched' = IF rest = {} THEN sched ELSE Tail(sched)
         \/ /\ st # "completed" /\ sched' = <<r>> /\ UNCHANGED faults
            /\ live' = [m \in Run |-> IF m = r THEN st ELSE IF m \in rest THEN "canceled" ELSE live[m]]
            /\ files' = [m \in Run |-> IF m = r THEN [files[m] EXCEPT !.st = st]
                                       ELSE IF m \in rest THEN [files[m] EXCEPT !.st = "canceled"]
                                       ELSE files[m]]
         \/ /\ Fault /\ sched' = <<r>>
            /\ live' = [m \in Run |-> IF m = r THEN (IF batch.total > 1 THEN "failed" ELSE st)
                                      ELSE IF m \in rest THEN "canceled" ELSE live[m]]
            /\ files' = [m \in Run |-> IF m \in rest THEN [files[m] EXCEPT !.st = "canceled"] ELSE files[m]]
  /\ UNCHANGED <<fence, batch, receipt, intent, grouped, op, ids, stops, history>>

\* The handles of the batch are released under cancelMu.
ReleaseBatch ==
  /\ sched # <<>> /\ live[sched[1]] \notin {"queued", "running"} /\ op.pc = "idle"
  /\ sched' = <<>>
  /\ UNCHANGED <<disk, live, op, ids, faults, stops, history>>
-----------------------------------------------------------------------------
(***************************************************************************)
(* Deletion                                                                *)
(***************************************************************************)
Erase(S, kind) ==
  \E s \in Sorted(S, [r \in Run |-> r]) :
    op' = [NoOp EXCEPT !.pc = IF S = {} THEN "group" ELSE "retain", !.kind = kind, !.i = 1,
                       !.pend = [i \in DOMAIN s |-> [id |-> s[i], f |-> NoFile]]]

\* deleteSavedResult of a run that a client has seen, and of the rest of one
\* whose deletion was interrupted.
DeleteResult(r) ==
  /\ op.pc = "idle" /\ r \in committed \cup exposed /\ files[r] # NoFile /\ ~Busy(r)
  /\ Erase({r}, "deleteRun")
  /\ UNCHANGED <<disk, live, sched, ids, faults, stops, history>>

\* deleteSavedBatch: every readable run, and what interrupted deletions left.
DeleteBatch ==
  /\ op.pc = "idle" /\ committed # {}
  /\ AllBatchMembers # {} \/ batch # NoBatch
  /\ \A r \in Run : ~Busy(r)
  /\ Erase(AllBatchMembers \cup {r \in batch.deleted \cap fence : files[r] # NoFile}, "deleteBatch")
  /\ UNCHANGED <<disk, live, sched, ids, faults, stops, history>>

\* Mutant: the superseded attempts of a historical group are not recorded.
RetainedShort(r) ==
  LET here == {m \in Run : Exists(m)}
  IN  [batch EXCEPT !.deleted = @ \cup {r}, !.total = IF @ = 0 THEN files[r].total ELSE @,
                    !.current = [i \in Iteration |->
                       IF Published \/ {m \in here : files[m].it = i} = {} THEN @[i]
                       ELSE CHOOSE m \in here : files[m].it = i]]

\* retainBatchCurrentLocked: the record of a historical group is made from the
\* metadata of its runs before the first of them is removed.
Retained(r) ==
  LET here == {m \in Run : Exists(m)}
      old == UNION {files[m].prev : m \in here}
      now == {m \in here \ old : m \notin batch.retired}
      base == IF Published THEN batch
              ELSE [batch EXCEPT !.total = IF @ = 0 THEN files[r].total ELSE @,
                                 !.retired = old,
                                 !.current = [i \in Iteration |->
                                    IF {m \in now : files[m].it = i} = {} THEN 0
                                    ELSE CHOOSE m \in now : files[m].it = i]]
  IN  [base EXCEPT !.deleted = @ \cup {r}]

\* The steps of deleteSavedResultLocked.  A step that fails ends the deletion.
\* A run that is not fenced yet has its metadata, without which
\* retainBatchCurrentLocked would return an error.
RetainStep ==
  LET r == op.pend[op.i].id
      new == IF r \in fence THEN batch ELSE Retained(r)
  IN  /\ op.pc = "retain"
      /\ r \in fence \/ Exists(r)
      /\ \/ batch' = new /\ op' = [op EXCEPT !.pc = "fence"] /\ UNCHANGED faults
         \/ Fault /\ batch' \in {batch, new} /\ op' = NoOp
      /\ UNCHANGED <<files, fence, receipt, intent, grouped, live, sched, ids, stops, history>>

FenceStep ==
  LET r == op.pend[op.i].id
  IN  /\ op.pc = "fence"
      /\ \/ fence' = fence \cup {r} /\ op' = [op EXCEPT !.pc = "remove"] /\ UNCHANGED faults
         \/ Fault /\ fence' \in {fence, fence \cup {r}} /\ op' = NoOp
      /\ UNCHANGED <<files, batch, receipt, intent, grouped, live, sched, ids, stops, history>>

RemoveStep ==
  LET r == op.pend[op.i].id
      last == op.i = Len(op.pend)
  IN  /\ op.pc = "remove"
      /\ \/ /\ files' = [files EXCEPT ![r] = NoFile] /\ live' = [live EXCEPT ![r] = "none"]
            /\ op' = [op EXCEPT !.i = IF last THEN @ ELSE @ + 1,
                                !.pc = IF ~last THEN "retain"
                                       ELSE IF op.kind = "deleteRun" THEN "unlist" ELSE "group"]
            /\ UNCHANGED faults
         \/ Fault /\ files' \in {files, [files EXCEPT ![r] = EmptyDir]} /\ op' = NoOp /\ UNCHANGED live
      /\ UNCHANGED <<fence, batch, receipt, intent, grouped, sched, ids, stops, history>>

\* The group's directory goes last, with batch.json in it.
RemoveGroup ==
  /\ op.pc = "group"
  /\ \/ /\ batch' = NoBatch /\ op' = [op EXCEPT !.pc = "unlist"] /\ UNCHANGED faults
        /\ exposed' = exposed \cup {r \in Pending(batch) \ committed : Exists(r)}
     \/ Fault /\ op' = NoOp /\ UNCHANGED <<batch, exposed>>
     \/ Fault /\ batch' = NoBatch /\ op' = NoOp /\ exposed' = exposed \cup {r \in Pending(batch) \ committed : Exists(r)}
  /\ UNCHANGED <<files, fence, receipt, intent, grouped, live, sched, ids, stops, legacy, committed, retired, enqueued, upgraded>>

\* removeLibraryMembersAndEmptyBatch: a failure is only logged.
Unlist ==
  /\ op.pc = "unlist" /\ op' = NoOp
  /\ \/ /\ grouped' = IF op.kind = "deleteBatch" \/ ~\E r \in Run : Exists(r)
                      THEN [grouped EXCEPT !.batch = FALSE] ELSE grouped
        /\ UNCHANGED faults
     \/ Fault /\ UNCHANGED grouped
  /\ UNCHANGED <<files, fence, batch, receipt, intent, live, sched, ids, stops, history>>
-----------------------------------------------------------------------------
(***************************************************************************)
(* The user's group, and restarts                                          *)
(***************************************************************************)
\* The user takes a shown batch out of the group, or puts it in.  The place of
\* the scenario does not change: it is read once, by the submission.
MoveBatch ==
  /\ op.pc = "idle"
  /\ grouped.batch \/ \E r \in committed : Exists(r) /\ r \notin fence
  /\ grouped' = [grouped EXCEPT !.batch = ~@]
  /\ UNCHANGED <<files, fence, batch, receipt, intent, memory, ids, faults, stops, history>>

\* The Controller stops between any two steps.
Stop ==
  /\ op.pc \notin {"down", "starting"} /\ stops < MaxStops /\ stops' = stops + 1
  /\ live' = [r \in Run |-> "none"] /\ sched' = <<>> /\ op' = [NoOp EXCEPT !.pc = "down"]
  /\ UNCHANGED <<disk, ids, faults, history>>

\* recoverBatchExtensions: a group that cannot be rolled back stays as it is.
StartupBatches ==
  /\ op.pc = "down" /\ op' = [op EXCEPT !.pc = "starting"]
  /\ \/ RollbackOk /\ UNCHANGED faults
     \/ RollbackFails
  /\ UNCHANGED <<fence, receipt, intent, grouped, live, sched, ids, stops, history>>

\* recoverLibraryGroupAdmissions: an error keeps the Controller from starting.
StartupLibrary ==
  /\ op.pc = "starting"
  /\ \/ Recovered /\ op' = NoOp /\ UNCHANGED faults
     \/ RecoveryFails /\ op' = [op EXCEPT !.pc = "down"]
  /\ UNCHANGED <<files, fence, batch, receipt, live, sched, ids, stops, history>>

Next ==
  \/ \E kind \in {"submit", "append", "resume", "retry"} : Begin(kind)
  \/ FirstRollback \/ SubmitCheck \/ AppendCheck \/ ResumeCheck
  \/ \E named \in BOOLEAN : RetryCheck(named)
  \/ SettleIntent \/ SaveIntent \/ SaveMember
  \/ Prepare \/ Reserve \/ SyncFails \/ Commit \/ Rollback \/ Failed \/ Enqueue
  \/ StartRun \/ CancelBatch \/ ReleaseBatch
  \/ \E st \in {"completed", "failed", "canceled"} : FinishRun(st)
  \/ \E r \in Run : DeleteResult(r)
  \/ DeleteBatch \/ RetainStep \/ FenceStep \/ RemoveStep \/ RemoveGroup \/ Unlist
  \/ MoveBatch
  \/ Stop \/ StartupBatches \/ StartupLibrary

Spec == Init /\ [][Next]_vars
-----------------------------------------------------------------------------
(***************************************************************************)
(* Properties                                                              *)
(***************************************************************************)
\* What belongs to the group: what is readable, and a run that a continuation
\* reuses while its record names it.
Members == {r \in Run :
              Readable(r) \/ (Exists(r) /\ r \notin fence /\ r \in Pending(batch) /\ batch.before # <<>>)}

\* Asked for by the admission in progress.
Asked ==
  IF op.pc \in {"prepare", "reserve", "rollback"}
  THEN {op.pend[i].id : i \in DOMAIN op.pend} \ Members ELSE {}

Group == INSTANCE BatchGroup WITH members <- Members, asked <- Asked, erased <- fence

\* An admission shows all its runs at once or none of them, whatever write
\* fails and wherever the Controller stops; after that a run only disappears
\* by its deletion (commitBatchAdmissionLocked, rollbackBatchExtensionLocked).
\* The exception is what deleteSavedBatch does to a group whose last admission
\* could not be rolled back: it removes batch.json, so that the runs it still
\* named as pending are served, although "Pending IDs remain invisible until
\* every new result is reserved and the record commits" (batch_append.go:26).
\* BatchGroup allows this in Reveal, and only when no other run is left.
AdmissionIsAtomic == Group!Spec

\* Types, and the record agrees with the runs: the attempt that counts for an
\* iteration is the one batch.json names, so no iteration has two
\* (currentBatchMembers, used by continuation and by batch statistics).  Runs of
\* a failed admission that the deletion of the group brought to light (exposed)
\* are left out, and so is the record that an admission makes of a legacy group
\* (upgraded), which names a current attempt for every iteration it knows.  Once
\* an admission is settled, the batch is in the scenario's library group only
\* if it was published, or its removal from the group failed
\* (admitScenarioResultGroup).
BatchConsistent ==
  /\ fence \subseteq Run /\ intent \in {"none", "in", "out"} /\ receipt \in BOOLEAN
  /\ Pending(batch) \subseteq Run /\ batch.total \in 0..MaxTotal
  /\ \A r \in CurrentBatchMembers \ exposed :
       /\ Published /\ ~upgraded => batch.current[files[r].it] = r
       /\ \A m \in CurrentBatchMembers \ exposed : files[r].it = files[m].it => r = m
  /\ op.pc = "idle" /\ intent = "none" /\ grouped.batch => Published \/ 1 \in fence \/ legacy

\* An attempt that a newer one replaced never counts again, even when the
\* newer one is deleted (batch_admission.go: Current "never falls back to an
\* old attempt").  Not true of every legacy group: see NoFallback.
NeverFallsBack == retired \cap CurrentBatchMembers = {}

\* The same, except for a legacy group whose record an admission made: that
\* record names the current attempts but not the ones they had replaced.
NoFallback == ~upgraded => NeverFallsBack

\* A submission key starts its runs at most once, over retries of the request,
\* failed writes, restarts and the deletion of the results.
SubmittedOnce == enqueued <= 1

\* The group's record is consistent, and no replaced attempt counts again.
GroupIsSound == BatchConsistent /\ NoFallback
=============================================================================
