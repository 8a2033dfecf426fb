---------------------------- MODULE AnalysisJobs ----------------------------
(***************************************************************************)
(* Analysis jobs: the analysis of one saved run                            *)
(* (internal/controller/analysis_jobs.go) or the mean of one saved batch   *)
(* (batch_analysis.go, batch_source_hash.go), and the deletion that may    *)
(* overtake them (result_batches.go, results.go).                          *)
(*                                                                         *)
(* A job is admitted, waits for its turn, captures the source files, and   *)
(* either reuses the previous analysis, when the sampled hash is the same, *)
(* or writes a new one into the artifact slot that the job metadata does   *)
(* not refer to.  A batch captures its members one after the other, twice  *)
(* when a previous analysis may be reused.                                 *)
(*                                                                         *)
(* A part is a source run.  Its revision changes with every change of its  *)
(* files; its content is a number of which Hash(c) is what sampling sees.  *)
(* Object 0 of the table is a job loaded from disk, which has no worker.   *)
(***************************************************************************)
EXTENDS Integers

CONSTANTS
  MaxJobs,      \* bound: jobs admitted
  MaxChanges,   \* bound: changes of one part
  MaxFaults,    \* bound: failing file operations and cancellations
  MaxStops      \* bound: Controller crashes

VARIABLES
  batch,      \* a batch of two runs, or a single run
  src,        \* the sources: part -> revision and content
  busy,       \* a source run is queued or active
  gone,       \* the run is fenced, or the members are removed
  disk,       \* analysis-job.json
  res,        \* the two slots of the result file
  sum,        \* the two slots of the summary file (single runs)
  job,        \* job objects
  cur,        \* the object in analysisJobs, or None
  stray,      \* a worker that is no longer current has written metadata
  faults, stops

files == <<disk, res, sum>>
vars == <<batch, src, busy, gone, files, job, cur, stray, faults, stops>>

None == -1
Parts == IF batch THEN {1, 2} ELSE {1}
Jobs == 1..MaxJobs
Slots == {0, 1}
NoStatus == [state |-> "idle", id |-> None, saved |-> None, slot |-> 0, rev |-> <<>>, hash |-> <<>>]
NoAnalysis == [id |-> None, content |-> <<>>]
NoJob == [status |-> NoStatus, prev |-> NoStatus, pc |-> "none", pass |-> "analyze", plan |-> <<>>,
          snap |-> <<>>, canceled |-> FALSE]

\* sourceSampleOffsets: an edit of equal length between the samples is not seen.
Hash(content) == [p \in DOMAIN content |-> content[p] \div 2]
\* batchMembership, or the source revision of the run.
Membership == [p \in Parts |-> src[p].rev]
Content == [p \in Parts |-> src[p].content]

\* A legacy analysis has no source hash.
Legacy == [NoStatus EXCEPT !.state = "completed", !.id = 0]

Init ==
  /\ batch \in BOOLEAN /\ busy \in BOOLEAN
  /\ src = [p \in Parts |-> [rev |-> 0, content |-> 0]]
  /\ gone = FALSE
  /\ disk \in {NoStatus, Legacy}
  /\ res = [s \in Slots |-> [NoAnalysis EXCEPT !.id = IF s = 0 THEN disk.id ELSE None]]
  /\ sum = res
  /\ job = [n \in {0} \cup Jobs |-> NoJob] /\ cur = None
  /\ stray = FALSE /\ faults = 0 /\ stops = 0
-----------------------------------------------------------------------------
(***************************************************************************)
(* Job metadata and artifact slots                                         *)
(***************************************************************************)
Live(s) == s.state \in {"queued", "running"}
SavedAnalysisID(s) == IF s.state = "completed" THEN s.id ELSE s.saved
NextArtifactSlot(s) == IF s.saved # None THEN 1 - s.slot ELSE 0
ReusableSourceHash(s) == s.hash # <<>>

\* loadAnalysisJob: a job that was in flight is interrupted.
FromDisk == IF Live(disk) THEN [disk EXCEPT !.state = "interrupted"] ELSE disk
Existing == IF cur = None THEN FromDisk ELSE job[cur].status

\* analysisJobMu is held from the first published file to the metadata commit.
Locked == \E n \in Jobs : job[n].pc \in {"artifact", "summary", "commit"}

Fault == faults < MaxFaults /\ faults' = faults + 1

\* Outcomes of writing a file: written, untouched with an error, or replaced with
\* an error from syncing the directory.
Outcome == [ok : BOOLEAN, replaced : BOOLEAN] \ {[ok |-> TRUE, replaced |-> FALSE]}
Charge(o) == IF o.ok THEN UNCHANGED faults ELSE Fault

\* Mutant: the run's directory is made when it is missing.
PersistableAlways == TRUE

\* persistAnalysisJob needs the run's directory, persistBatchAnalysis makes its own.
Persistable == batch \/ ~gone
Persist(s, o) ==
  /\ Charge(o)
  /\ o.replaced => Persistable
  /\ disk' = IF o.replaced THEN s ELSE disk
-----------------------------------------------------------------------------
(***************************************************************************)
(* Admission                                                               *)
(***************************************************************************)
Load ==
  /\ ~Locked /\ ~gone /\ cur = None /\ disk # NoStatus
  /\ cur' = 0
  /\ job' = [job EXCEPT ![0] = [NoJob EXCEPT !.status = FromDisk]]
  /\ UNCHANGED <<batch, src, busy, gone, files, stray, faults, stops>>

\* A completed analysis of the same sources is returned as it is.
Current(s) == s.state = "completed" /\ ReusableSourceHash(s) /\ s.rev = Membership

Admitted(n, refresh) ==
  LET e == Existing IN
  [NoJob EXCEPT
     !.status = [state |-> "queued", id |-> n, saved |-> SavedAnalysisID(e), slot |-> e.slot,
                 rev |-> IF batch THEN Membership ELSE <<>>, hash |-> <<>>],
     !.prev = IF ~refresh /\ e.state = "completed" /\ ReusableSourceHash(e) THEN e ELSE NoStatus,
     !.pc = "queued"]

\* startAnalysisJobExpected, startBatchAnalysisExpected
Start(n, refresh, o) ==
  /\ ~Locked /\ ~gone
  /\ job[n] = NoJob /\ \A m \in Jobs : m < n => job[m] # NoJob
  /\ ~Live(Existing) /\ (refresh \/ ~Current(Existing))
  /\ LET j == Admitted(n, refresh) IN
       /\ Persist(j.status, o)
       /\ job' = [job EXCEPT ![n] = IF o.ok THEN j ELSE [NoJob EXCEPT !.pc = "refused"]]
  /\ cur' = IF o.ok THEN n ELSE cur
  /\ UNCHANGED <<batch, src, busy, gone, res, sum, stray, stops>>
-----------------------------------------------------------------------------
(***************************************************************************)
(* The worker                                                              *)
(***************************************************************************)
Worker(n, j) == job' = [job EXCEPT ![n] = j]
At(n, pc) == n \in Jobs /\ job[n].pc = pc

\* runBatchAnalysis, runAnalysisJob: the job has its turn.  A batch reads its
\* members again; a run is checked when it is captured.
Prepare(n, o) ==
  /\ At(n, "queued") /\ ~Locked /\ ~job[n].canceled
  /\ IF batch
     THEN /\ ~gone /\ ~busy /\ cur = n
          /\ LET s == [job[n].status EXCEPT !.rev = Membership] IN
               /\ Persist(s, o)
               /\ Worker(n, [job[n] EXCEPT !.status = s, !.plan = Membership,
                                           !.pc = IF o.ok THEN "capture" ELSE "failed",
                                           !.pass = IF job[n].prev = NoStatus THEN "analyze" ELSE "hash"])
     ELSE /\ o = [ok |-> TRUE, replaced |-> TRUE]
          /\ Worker(n, [job[n] EXCEPT !.pc = "capture"])
          /\ UNCHANGED <<disk, faults>>
  /\ UNCHANGED <<batch, src, busy, gone, res, sum, cur, stray, stops>>

\* The next part the pass has not captured.
Next1(snap) == IF 1 \in DOMAIN snap THEN 2 ELSE 1

\* captureResultFilesContext, and the check of the state and revision captured.
Capture(n) ==
  LET j == job[n]
      p == Next1(j.snap)
  IN /\ At(n, "capture") /\ ~j.canceled /\ ~gone /\ ~busy
     /\ batch => src[p].rev = j.plan[p]
     /\ Worker(n, [j EXCEPT !.snap = [q \in DOMAIN @ \cup {p} |-> IF q = p THEN src[p].content ELSE @[q]],
                            !.plan = IF batch THEN @ ELSE Membership,
                            !.pc = "captured"])
     /\ UNCHANGED <<batch, src, busy, gone, files, cur, stray, faults, stops>>

\* Mutant: the revision is read after the files were captured.
RunningLateRevision(n, o) ==
  LET j == job[n]
      s == [j.status EXCEPT !.state = "running", !.rev = Membership]
  IN /\ At(n, "captured") /\ ~Locked
     /\ Persist(s, o)
     /\ stray' = (stray \/ (cur # n /\ o.replaced))
     /\ Worker(n, [j EXCEPT !.status = s,
                            !.pc = IF ~o.ok THEN "failed"
                                   ELSE IF DOMAIN j.snap = Parts THEN "complete" ELSE "capture"])
     /\ UNCHANGED <<batch, src, busy, gone, res, sum, cur, stops>>

\* The running state is persisted, without asking whether the job is still current.
Running(n, o) ==
  LET j == job[n]
      s == [j.status EXCEPT !.state = "running", !.rev = j.plan]
  IN /\ At(n, "captured") /\ ~Locked
     /\ Persist(s, o)
     /\ stray' = (stray \/ (cur # n /\ o.replaced))
     /\ Worker(n, [j EXCEPT !.status = s,
                            !.pc = IF ~o.ok THEN "failed"
                                   ELSE IF DOMAIN j.snap = Parts THEN "complete" ELSE "capture"])
     /\ UNCHANGED <<batch, src, busy, gone, res, sum, cur, stops>>

\* All parts are read: the members of a batch must be unchanged.  A pass that only
\* hashed decides between reuse and analysis.
Complete(n) ==
  LET j == job[n]
      same == j.prev # NoStatus /\ j.prev.hash = Hash(j.snap)
  IN /\ At(n, "complete") /\ ~j.canceled
     /\ batch => ~gone /\ Membership = j.plan
     /\ Worker(n, IF same /\ (j.pass = "hash" \/ ~batch) THEN [j EXCEPT !.pc = "reuse"]
                  ELSE IF j.pass = "hash" THEN [j EXCEPT !.pass = "analyze", !.snap = <<>>, !.pc = "capture"]
                  ELSE [j EXCEPT !.status.hash = Hash(j.snap), !.pc = "artifact?"])
     /\ UNCHANGED <<batch, src, busy, gone, files, cur, stray, faults, stops>>

\* Still wanted, and for a batch still about the same members, under the locks.
Publishable(n) ==
  /\ ~job[n].canceled /\ cur = n /\ ~gone
  /\ batch => Membership = job[n].plan

\* reuseAnalysisJob, reuseBatchAnalysis: the previous job with the new revision.
Reuse(n, o) ==
  LET s == [job[n].prev EXCEPT !.rev = job[n].plan] IN
  /\ At(n, "reuse") /\ ~Locked /\ Publishable(n)
  /\ Persist(s, o)
  /\ Worker(n, IF o.ok THEN [job[n] EXCEPT !.status = s, !.pc = "done"] ELSE [job[n] EXCEPT !.pc = "failed"])
  /\ UNCHANGED <<batch, src, busy, gone, res, sum, cur, stray, stops>>

\* saveAnalysisJob, saveBatchAnalysis: the staged files are published one after the
\* other under the locks, then the metadata.
BeginPublish(n) ==
  /\ At(n, "artifact?") /\ ~Locked /\ Publishable(n)
  /\ Worker(n, [job[n] EXCEPT !.pc = "artifact"])
  /\ UNCHANGED <<batch, src, busy, gone, files, cur, stray, faults, stops>>

Written(slots, n, o) ==
  IF o.replaced
  THEN [slots EXCEPT ![NextArtifactSlot(job[n].status)] = [id |-> n, content |-> job[n].snap]]
  ELSE slots

PublishArtifact(n, o) ==
  /\ At(n, "artifact") /\ Charge(o)
  /\ res' = Written(res, n, o)
  /\ Worker(n, [job[n] EXCEPT !.pc = IF ~o.ok THEN "failed" ELSE IF batch THEN "commit" ELSE "summary"])
  /\ UNCHANGED <<batch, src, busy, gone, disk, sum, cur, stray, stops>>

PublishSummary(n, o) ==
  /\ At(n, "summary") /\ Charge(o)
  /\ sum' = Written(sum, n, o)
  /\ Worker(n, [job[n] EXCEPT !.pc = IF o.ok THEN "commit" ELSE "failed"])
  /\ UNCHANGED <<batch, src, busy, gone, disk, res, cur, stray, stops>>

CompletedStatus(s) == [s EXCEPT !.slot = NextArtifactSlot(s), !.saved = None, !.state = "completed"]

CommitJob(n, o) ==
  LET s == CompletedStatus(job[n].status) IN
  /\ At(n, "commit") /\ Persist(s, o)
  /\ Worker(n, IF o.ok THEN [job[n] EXCEPT !.status = s, !.pc = "done"] ELSE [job[n] EXCEPT !.pc = "failed"])
  /\ UNCHANGED <<batch, src, busy, gone, res, sum, cur, stray, stops>>

\* A job whose next check does not hold ends with an error.
Errs(n) ==
  LET j == job[n] IN
  \/ j.pc \in {"queued", "capture", "complete", "reuse", "artifact?"} /\ j.canceled
  \/ j.pc = "queued" /\ batch /\ (gone \/ busy \/ cur # n)
  \/ j.pc = "capture" /\ (gone \/ busy \/ (batch /\ src[Next1(j.snap)].rev # j.plan[Next1(j.snap)]))
  \/ j.pc = "captured" /\ ~Persistable
  \/ j.pc = "complete" /\ batch /\ (gone \/ Membership # j.plan)
  \/ j.pc \in {"reuse", "artifact?"} /\ ~Publishable(n)

Fail(n) ==
  /\ n \in Jobs /\ Errs(n) /\ ~Locked
  /\ Worker(n, [job[n] EXCEPT !.pc = "failed"])
  /\ UNCHANGED <<batch, src, busy, gone, files, cur, stray, faults, stops>>

\* The end of a job with an error.  Only the current job persists it.
Finalize(n, o) ==
  LET s == [job[n].status EXCEPT !.state = IF job[n].canceled THEN "interrupted" ELSE "failed"] IN
  /\ At(n, "failed") /\ ~Locked
  /\ IF cur = n /\ Persistable THEN Persist(s, o) ELSE o.ok /\ UNCHANGED <<disk, faults>>
  /\ Worker(n, [job[n] EXCEPT !.status = s, !.pc = "done"])
  /\ UNCHANGED <<batch, src, busy, gone, res, sum, cur, stray, stops>>
-----------------------------------------------------------------------------
(***************************************************************************)
(* What happens around the job                                             *)
(***************************************************************************)
\* The work queue's cancel button, or shutdown: the job's context is canceled.
Cancel(n) ==
  /\ n \in Jobs /\ job[n].pc \notin {"none", "refused", "done", "failed"} /\ ~job[n].canceled
  /\ Fault
  /\ Worker(n, [job[n] EXCEPT !.canceled = TRUE])
  /\ UNCHANGED <<batch, src, busy, gone, files, cur, stray, stops>>

\* The files of a source change: rewritten with the same bytes, with a difference
\* the samples miss, or with one they see.  saveAnalysisJob also holds persistMu,
\* which the writers of its run need; nothing keeps the members of a batch as they
\* are while saveBatchAnalysis publishes.
Change(p, c) ==
  /\ p \in Parts /\ ~gone /\ src[p].rev < MaxChanges /\ c \in src[p].content..(2 * MaxChanges)
  /\ c - src[p].content \in 0..2
  /\ ~batch => ~Locked
  /\ src' = [src EXCEPT ![p] = [rev |-> @.rev + 1, content |-> c]]
  /\ UNCHANGED <<batch, busy, gone, files, job, cur, stray, faults, stops>>

\* The active source run ends.
SourceEnds ==
  /\ busy /\ busy' = FALSE
  /\ UNCHANGED <<batch, src, gone, files, job, cur, stray, faults, stops>>

\* AppendScenarioBatch, resumeScenarioBatchExpected: not while a job is live.
Reopen ==
  /\ batch /\ ~busy /\ ~gone /\ ~Locked /\ ~(cur # None /\ Live(job[cur].status))
  /\ src[1].rev < MaxChanges
  /\ busy' = TRUE /\ src' = [src EXCEPT ![1].rev = @ + 1]
  /\ UNCHANGED <<batch, gone, files, job, cur, stray, faults, stops>>

CanceledIn(j, c) == IF c \in Jobs /\ j[c].pc \notin {"done", "failed"} THEN [j EXCEPT ![c].canceled = TRUE] ELSE j
NoFiles == disk' = NoStatus /\ res' = [s \in Slots |-> NoAnalysis] /\ sum' = res'

\* deleteSavedResultLocked, deleteSavedBatch: the job is canceled and forgotten, the
\* files go; a batch whose first member cannot be removed keeps its members.
Delete(ok) ==
  /\ ~Locked /\ ~busy /\ ~gone
  /\ ok \/ (batch /\ Fault)
  /\ ok => UNCHANGED faults
  /\ job' = CanceledIn(job, cur) /\ cur' = None
  /\ NoFiles
  /\ gone' = ok
  /\ UNCHANGED <<batch, src, busy, stray, stops>>

\* A crash loses the table; files published so far stay.
Stop ==
  /\ stops < MaxStops /\ stops' = stops + 1
  /\ cur' = None
  /\ job' = [n \in {0} \cup Jobs |-> IF job[n] = NoJob \/ n = 0 THEN NoJob ELSE [NoJob EXCEPT !.pc = "refused"]]
  /\ UNCHANGED <<batch, src, busy, gone, files, stray, faults>>

WorkerStep(n) ==
  \/ Capture(n) \/ Complete(n) \/ BeginPublish(n) \/ Fail(n)
  \/ \E o \in Outcome :
       Prepare(n, o) \/ Running(n, o) \/ Reuse(n, o) \/ PublishArtifact(n, o)
       \/ PublishSummary(n, o) \/ CommitJob(n, o) \/ Finalize(n, o)

Next ==
  \/ Load \/ SourceEnds \/ Reopen \/ Stop
  \/ \E n \in Jobs : WorkerStep(n) \/ Cancel(n)
  \/ \E n \in Jobs, refresh \in BOOLEAN, o \in Outcome : Start(n, refresh, o)
  \/ \E p \in {1, 2}, c \in 0..(2 * MaxChanges) : Change(p, c)
  \/ \E ok \in BOOLEAN : Delete(ok)

Spec == Init /\ [][Next]_vars
-----------------------------------------------------------------------------
\* An analysis served under an ID is the one written under that ID.
Owns(s, slots) ==
  LET id == SavedAnalysisID(s) IN id # None => slots[s.slot].id = id

(* servesArtifact: what is served for an analysis ID, completed or saved, is the
   artifact and the summary of that analysis, whatever replacement failed or was
   interrupted half way.  Only a stray write of a deleted batch is excepted. *)
ServedIsOwn == (stray \/ gone) \/ (Owns(Existing, res) /\ (batch \/ Owns(Existing, sum)))

(* A completed analysis that is not reported stale was made from the sources as
   they are, up to what sampling sees: no torn batch, no reuse of a stale one. *)
FreshIsTrue ==
  LET s == Existing IN
  (Current(s) /\ ~gone /\ ~stray) => s.hash = Hash(Content) /\ Hash(res[s.slot].content) = s.hash

(* A deleted run or batch stays deleted: no artifact and no job metadata of a run
   comes back; of a batch only the metadata of a worker overtaken by deletion. *)
DeletedStaysGone ==
  gone => /\ \A s \in Slots : res[s] = NoAnalysis /\ sum[s] = NoAnalysis
          /\ disk # NoStatus => batch /\ stray

(* The artifact served is the right one, and as fresh as it claims to be. *)
AnalysesAreTrue == ServedIsOwn /\ FreshIsTrue
=============================================================================
