---------------------------- MODULE ScenarioRun ----------------------------
(***************************************************************************)
(* One run of a scenario: the phase loop of runScenario with its           *)
(* background jobs (internal/controller/runner.go, jobs.go), stop-all,     *)
(* the exit policy, user stops, recording failures (run_integrity.go), and *)
(* the final record.  Agents support draining, and the run has Agents.     *)
(*                                                                         *)
(* A job ends in two steps, as in startJob: its completion callback        *)
(* records counters and the first failure, and only then does it become    *)
(* done and wake the waiters.  A waiter captures the broadcast channel and *)
(* scans the jobs under one lock; the channel is a version number here.    *)
(***************************************************************************)
EXTENDS Naturals, Sequences, FiniteSets

CONSTANTS Job,
  Scenarios     \* scenarios: sequences of phases

VARIABLES
  phases, onExit,       \* the scenario
  repeated,             \* the run is one of several repetitions
  pc, index, generation,
  jobs,                 \* phaseJobs.jobs
  changed,              \* phaseJobs.changed
  wait,                 \* the wait in progress
  scenarioCanceled,     \* ctx of runScenario
  stopRequested, handle, \* parentCtx, and s.cancels[id]
  asyncErr, background, runErr, cleanupErr, dataErr, closedSingleRun, resultErr,
  counts,               \* Experiment.ActiveJobs, CompletedJobs, CanceledJobs, FailedJobs
  fence,                \* highest generation the Agents were told to stop
  record,               \* Experiment.State, CleanupState, DataState
  integrity             \* Experiment.IntegrityError is set

scenarioVars == <<phases, onExit, repeated>>
driverVars == <<pc, index, generation, wait>>
jobVars == <<jobs, changed>>
ctxVars == <<scenarioCanceled, stopRequested, handle>>
finalVars == <<background, cleanupErr, dataErr, closedSingleRun, resultErr>>
recordVars == <<record, integrity>>
vars == <<scenarioVars, driverVars, jobVars, ctxVars, asyncErr, runErr, finalVars, counts, fence, recordVars>>

NoJob == [st |-> "none", err |-> "none", canceled |-> FALSE, gen |-> 0]
NoWait == [ids |-> {}, failFast |-> FALSE, for |-> "none", seen |-> 0]
Registered == {j \in Job : jobs[j] # NoJob}
Running == {j \in Job : jobs[j].st \in {"running", "called"}}
CtxErr == scenarioCanceled \/ stopRequested

Init ==
  /\ phases \in Scenarios /\ onExit \in {"cancel", "drain"} /\ repeated \in BOOLEAN
  /\ pc = "phase" /\ index = 1 /\ generation = 1
  /\ jobs = [j \in Job |-> NoJob] /\ changed = 0 /\ wait = NoWait
  /\ scenarioCanceled = FALSE /\ stopRequested = FALSE /\ handle = TRUE
  /\ asyncErr = FALSE /\ background = FALSE /\ runErr = "none" /\ cleanupErr = FALSE
  /\ dataErr = FALSE /\ closedSingleRun = FALSE /\ resultErr = "none"
  /\ counts = [active |-> 0, completed |-> 0, canceled |-> 0, failed |-> 0]
  /\ fence = 0 /\ integrity = FALSE
  /\ record = [state |-> "running", cleanup |-> "pending", data |-> "collecting"]
-----------------------------------------------------------------------------
(***************************************************************************)
(* Background jobs                                                         *)
(***************************************************************************)
JobCanceled(j) == jobs[j].canceled \/ CtxErr

\* recordAsyncFailure
AsyncFailure(err) ==
  IF err = "failed"
  THEN asyncErr' = TRUE /\ scenarioCanceled' = (scenarioCanceled \/ ~asyncErr)
  ELSE UNCHANGED <<asyncErr, scenarioCanceled>>

\* The job's function returns; its callback updates the record.
JobReturns(j, err) ==
  /\ jobs[j].st = "running"
  /\ err = "canceled" => JobCanceled(j)
  /\ jobs' = [jobs EXCEPT ![j].st = "called", ![j].err = err]
  /\ counts' = [counts EXCEPT !.active = @ - 1,
                              !.completed = @ + IF err = "none" THEN 1 ELSE 0,
                              !.canceled = @ + IF err = "canceled" THEN 1 ELSE 0,
                              !.failed = @ + IF err = "failed" THEN 1 ELSE 0]
  /\ AsyncFailure(err)
  /\ UNCHANGED <<scenarioVars, driverVars, changed, stopRequested, handle, runErr, finalVars, fence, recordVars>>

\* Mutant: waiters are woken only by failures.
JobDoneQuietly(j) ==
  /\ jobs[j].st = "called"
  /\ jobs' = [jobs EXCEPT ![j].st = "done"]
  /\ changed' = IF jobs[j].err = "none" THEN changed ELSE changed + 1
  /\ UNCHANGED <<scenarioVars, driverVars, ctxVars, asyncErr, runErr, finalVars, counts, fence, recordVars>>

\* It becomes done, and every waiter that has scanned before is woken.
JobDone(j) ==
  /\ jobs[j].st = "called"
  /\ jobs' = [jobs EXCEPT ![j].st = "done"]
  /\ changed' = changed + 1
  /\ UNCHANGED <<scenarioVars, driverVars, ctxVars, asyncErr, runErr, finalVars, counts, fence, recordVars>>

\* A user stop: a single run accepts it while it has its cancellation handle,
\* a batch of repetitions as long as it exists.
Stop ==
  /\ handle \/ repeated
  /\ ~stopRequested /\ pc # "done"
  /\ stopRequested' = TRUE
  /\ UNCHANGED <<scenarioVars, driverVars, jobVars, scenarioCanceled, handle, asyncErr, runErr, finalVars,
                 counts, fence, recordVars>>

\* recordRunWriteError, from whoever writes the run's files.
RecordingFails ==
  /\ ~integrity
  /\ integrity' = TRUE
  /\ record' = [record EXCEPT !.data = "incomplete", !.state = IF @ = "completed" THEN "failed" ELSE @]
  /\ UNCHANGED <<scenarioVars, driverVars, jobVars, ctxVars, asyncErr, runErr, finalVars, counts, fence>>

\* watchRunStorage notices it, unless the scenario's context has ended.
WatchStorage ==
  /\ integrity /\ ~CtxErr /\ pc # "done"
  /\ scenarioCanceled' = TRUE
  /\ UNCHANGED <<scenarioVars, driverVars, jobVars, stopRequested, handle, asyncErr, runErr, finalVars,
                 counts, fence, recordVars>>
-----------------------------------------------------------------------------
(***************************************************************************)
(* The phase loop                                                          *)
(***************************************************************************)
Phase == phases[index]
Begins(action) == pc = "phase" /\ index <= Len(phases) /\ ~CtxErr /\ Phase.action = action
NextPhase == pc' = "phase" /\ index' = index + 1 /\ UNCHANGED runErr
Break(err) == pc' = "exit" /\ runErr' = err /\ UNCHANGED index

\* An awaited join, publish, wait, ...: it runs under the scenario's context.
BeginAwait ==
  /\ Begins("await")
  /\ pc' = "exec"
  /\ UNCHANGED <<scenarioVars, index, generation, wait, jobVars, ctxVars, asyncErr, runErr, finalVars,
                 counts, fence, recordVars>>

EndAwait(err) ==
  /\ pc = "exec"
  /\ err = "canceled" => CtxErr
  /\ IF err = "none" THEN NextPhase ELSE Break(err)
  /\ UNCHANGED <<scenarioVars, generation, wait, jobVars, ctxVars, asyncErr, finalVars, counts, fence, recordVars>>

\* startContext: the name must be free.
Start ==
  LET j == Phase.job
  IN  /\ Begins("start")
      /\ IF jobs[j] = NoJob
         THEN /\ jobs' = [jobs EXCEPT ![j] = [st |-> "running", err |-> "none", canceled |-> FALSE,
                                              gen |-> generation]]
              /\ counts' = [counts EXCEPT !.active = @ + 1]
              /\ NextPhase
         ELSE Break("failed") /\ UNCHANGED <<jobs, counts>>
      /\ UNCHANGED <<scenarioVars, generation, wait, changed, ctxVars, asyncErr, finalVars, fence, recordVars>>

BeginWait(ids, failFast, for) ==
  /\ wait' = [ids |-> ids, failFast |-> failFast, for |-> for, seen |-> 0]
  /\ pc' = "scan"

\* wait-jobs: the named jobs, or all of them.
WaitJobs ==
  LET ids == IF Phase.jobs = {} THEN Registered ELSE Phase.jobs
  IN  /\ Begins("wait-jobs")
      /\ IF ids \subseteq Registered
         THEN BeginWait(ids, TRUE, "phase") /\ UNCHANGED <<index, runErr>>
         ELSE Break("failed") /\ UNCHANGED wait
      /\ UNCHANGED <<scenarioVars, generation, jobVars, ctxVars, asyncErr, finalVars, counts, fence, recordVars>>

CancelAll == jobs' = [j \in Job |-> IF jobs[j] = NoJob THEN NoJob ELSE [jobs[j] EXCEPT !.canceled = TRUE]]

StopAll ==
  /\ Begins("stop-all")
  /\ CancelAll
  /\ BeginWait(Registered, FALSE, "stop-all")
  /\ UNCHANGED <<scenarioVars, index, generation, changed, ctxVars, asyncErr, runErr, finalVars, counts,
                 fence, recordVars>>

\* How the caller goes on when waitSelected returns err.
EndWait(err) ==
  /\ wait' = NoWait
  /\ CASE wait.for = "stop-all" /\ err = "none" -> pc' = "reset" /\ UNCHANGED <<index, runErr, cleanupErr>>
       [] wait.for = "phase" /\ err = "none" -> NextPhase /\ UNCHANGED cleanupErr
       [] wait.for = "exit" -> pc' = "collect" /\ cleanupErr' = (err # "none") /\ UNCHANGED <<index, runErr>>
       [] OTHER -> Break(err) /\ UNCHANGED cleanupErr

WaitFrame == UNCHANGED <<scenarioVars, generation, jobVars, ctxVars, asyncErr, background, dataErr,
                         closedSingleRun, resultErr, counts, fence, recordVars>>

\* The waits of cleanup have a context of their own.
WaitCtxErr == wait.for \in {"phase", "drain"} /\ CtxErr

\* One scan: the broadcast is captured under the lock of the scan.  Nothing to
\* wait for is success whatever the context says.
Scan ==
  LET pending == {j \in wait.ids : jobs[j].st # "done"}
      failing == {j \in wait.ids \ pending : wait.failFast /\ jobs[j].err # "none"}
  IN  /\ pc = "scan"
      /\ wait.ids = {} \/ ~WaitCtxErr
      /\ \/ \E j \in failing : EndWait(jobs[j].err)
         \/ failing = {} /\ pending = {} /\ EndWait("none")
         \/ /\ failing = {} /\ pending # {}
            /\ wait' = [wait EXCEPT !.ids = pending, !.seen = changed]
            /\ pc' = "blocked"
            /\ UNCHANGED <<index, runErr, cleanupErr>>
      /\ WaitFrame

Wake ==
  /\ pc = "blocked" /\ changed # wait.seen
  /\ pc' = "scan"
  /\ UNCHANGED <<index, wait, runErr, cleanupErr>> /\ WaitFrame

WaitCanceled ==
  /\ pc \in {"scan", "blocked"} /\ wait.ids # {} /\ WaitCtxErr
  /\ EndWait("canceled") /\ WaitFrame

\* The timeout of the phase or of jobShutdownTimeout; draining has none.
WaitTimesOut ==
  /\ pc \in {"scan", "blocked"} /\ wait.ids # {} /\ wait.for # "drain"
  /\ EndWait("failed") /\ WaitFrame

\* reset, all or nothing; then stopRunGeneration and the refresh succeed or not.
StopGeneration(ok) ==
  /\ pc = "reset"
  /\ IF Running # {} THEN Break("failed") /\ UNCHANGED <<jobs, fence, generation>>
     ELSE /\ jobs' = [j \in Job |-> NoJob]
          /\ fence' = generation
          /\ IF ok THEN NextPhase /\ generation' = generation + 1
             ELSE Break("failed") /\ UNCHANGED generation
  /\ UNCHANGED <<scenarioVars, wait, changed, ctxVars, asyncErr, finalVars, counts, recordVars>>

\* The loop ends; cancellation is noticed only before another phase.
EndPhases ==
  /\ pc = "phase" /\ (CtxErr \/ index > Len(phases))
  /\ IF index <= Len(phases) THEN Break("canceled") /\ UNCHANGED wait
     ELSE IF onExit = "drain" THEN BeginWait(Registered, TRUE, "drain") /\ UNCHANGED <<index, runErr>>
     ELSE Break("none") /\ UNCHANGED wait
  /\ UNCHANGED <<scenarioVars, generation, jobVars, ctxVars, asyncErr, finalVars, counts, fence, recordVars>>

Exit ==
  /\ pc = "exit"
  /\ scenarioCanceled' = TRUE
  /\ IF runErr # "none" \/ onExit = "cancel"
     THEN CancelAll /\ BeginWait(Registered, FALSE, "exit")
     ELSE pc' = "collect" /\ UNCHANGED <<jobs, wait>>
  /\ UNCHANGED <<scenarioVars, index, generation, changed, stopRequested, handle, asyncErr, runErr, finalVars,
                 counts, fence, recordVars>>

Collect ==
  /\ pc = "collect"
  /\ background' = asyncErr
  /\ pc' = "retire"
  /\ UNCHANGED <<scenarioVars, index, generation, wait, jobVars, ctxVars, asyncErr, runErr, cleanupErr,
                 dataErr, closedSingleRun, resultErr, counts, fence, recordVars>>

RunError ==
  IF stopRequested THEN "canceled"
  ELSE IF background /\ runErr \in {"none", "canceled"} THEN "failed" ELSE runErr

RetireFrame == UNCHANGED <<scenarioVars, index, generation, wait, jobVars, scenarioCanceled, stopRequested,
                           asyncErr, background, cleanupErr, dataErr, resultErr, counts, fence, recordVars>>

\* Mutant: the handle is not retired when the context is sampled.
RetireLate(empty) ==
  /\ pc = "retire"
  /\ runErr' = RunError /\ handle' = handle
  /\ closedSingleRun' = (~repeated /\ generation > 1 /\ empty)
  /\ pc' = "stop" /\ RetireFrame

\* The handle is retired and the context sampled under cancelMu; empty: no Peer
\* of the run is known.
Retire(empty) ==
  /\ pc = "retire"
  /\ runErr' = RunError /\ handle' = FALSE
  /\ closedSingleRun' = (~repeated /\ generation > 1 /\ empty)
  /\ pc' = "stop" /\ RetireFrame

\* "Repeated, canceled, or failed runs also fence and remove Peers"; then the
\* Agents deliver what they hold, and the result files are flushed.
StopPeers(stopped, drained, flushed) ==
  LET fences == runErr # "none" \/ cleanupErr \/ repeated
  IN  /\ pc = "stop"
      /\ fence' = IF fences THEN generation ELSE fence
      /\ cleanupErr' = (cleanupErr \/ (fences /\ ~stopped))
      /\ dataErr' = (~drained /\ IF fences THEN stopped ELSE closedSingleRun)
      /\ integrity' = (integrity \/ ~flushed)
      /\ resultErr' = IF integrity' THEN "integrity"
                       ELSE IF runErr # "none" \/ cleanupErr' \/ dataErr' THEN "error" ELSE "none"
      /\ record' = [record EXCEPT !.cleanup = IF fences THEN "running" ELSE @,
                                  !.data = IF flushed THEN @ ELSE "incomplete"]
      /\ pc' = "final"
      /\ UNCHANGED <<scenarioVars, index, generation, wait, jobVars, ctxVars, asyncErr, background, runErr,
                     closedSingleRun, counts>>

\* The final record, from resultErr and the integrity read with it.
Finish ==
  LET retained == resultErr = "none" /\ ~repeated /\ ~closedSingleRun
      incomplete == dataErr \/ integrity \/ cleanupErr
  IN  /\ pc = "final"
      /\ record' = [cleanup |-> IF cleanupErr THEN "failed" ELSE IF retained THEN "retained" ELSE "complete",
                    data |-> IF retained THEN "collecting" ELSE IF incomplete THEN "incomplete" ELSE "complete",
                    state |-> IF resultErr = "none" THEN "completed"
                              ELSE IF runErr = "canceled" /\ resultErr # "integrity" THEN "canceled" ELSE "failed"]
      /\ integrity' = (integrity \/ dataErr)
      /\ pc' = "done"
      /\ UNCHANGED <<scenarioVars, index, generation, wait, jobVars, ctxVars, asyncErr, runErr, finalVars,
                     counts, fence>>
-----------------------------------------------------------------------------
Driver ==
  \/ BeginAwait \/ (\E err \in {"none", "failed", "canceled"} : EndAwait(err))
  \/ Start \/ WaitJobs \/ StopAll \/ Scan \/ Wake \/ WaitCanceled \/ EndPhases \/ Exit \/ Collect \/ Finish
  \/ \E ok \in BOOLEAN : StopGeneration(ok) \/ Retire(ok)
  \/ \E stopped, drained, flushed \in BOOLEAN : StopPeers(stopped, drained, flushed)

JobSteps(j) == JobDone(j) \/ \E err \in {"none", "failed", "canceled"} : JobReturns(j, err)

Next ==
  \/ Driver \/ WaitTimesOut \/ Stop \/ RecordingFails \/ WatchStorage
  \/ \E j \in Job : JobSteps(j)

Spec == Init /\ [][Next]_vars

\* The driver and the jobs proceed (their operations have timeouts); that waits
\* time out is not needed.
FairSpec == Spec /\ WF_vars(Driver) /\ \A j \in Job : WF_vars(JobSteps(j))
-----------------------------------------------------------------------------
\* Driver, waits, counters and record have their types.
TypeOK ==
  /\ pc \in {"phase", "exec", "scan", "blocked", "reset", "exit", "collect", "retire", "stop", "final", "done"}
  /\ wait.ids \subseteq Job /\ runErr \in {"none", "failed", "canceled"}
  /\ counts \in [{"active", "completed", "canceled", "failed"} -> Nat]
  /\ record.state \in {"running", "completed", "canceled", "failed"}

\* "Cleanup must drain all selected workers before removing peers" (jobs.go:105):
\* when the Agents have been told to stop a generation none of its jobs is still
\* running, unless waiting for the jobs failed and the run will say so.
FencedJobsEnded ==
  \A j \in Running : jobs[j].gen <= fence => cleanupErr

\* "A stop either wins here and triggers cleanup, or observes that the run has
\* already entered finalization" (runner.go:377), and a background failure ends
\* the run (runner.go:256): a completed run has no job left, no failed job, and,
\* if it is a single run, no stop that was accepted.
CompletedIsClean ==
  record.state = "completed" =>
    Running = {} /\ counts.active = 0 /\ counts.failed = 0 /\ (stopRequested => repeated)

\* Experiment.ActiveJobs counts exactly the jobs whose callback has not run, over
\* stop-all resets, reused names, cancellation and timeouts.
ActiveJobsExact == counts.active = Cardinality({j \in Job : jobs[j].st = "running"})

\* "A job finishing after this scan closes this exact channel, so no wakeup can be
\* lost" (jobs.go:130): every run ends, without the help of timeouts.
RunEnds == <>(pc = "done")

\* The run is well formed, its counters match its jobs, and what it reports is so.
RunIsSound == TypeOK /\ ActiveJobsExact /\ FencedJobsEnded /\ CompletedIsClean
=============================================================================
