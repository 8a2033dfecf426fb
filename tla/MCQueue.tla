------------------------------- MODULE MCQueue -------------------------------
(***************************************************************************)
(* The work queue, and one run of a scenario inside it.  A behaviour looks  *)
(* at one of them (focus); the other rests.                                 *)
(*                                                                          *)
(* Scenarios have up to five phases and two job names; the names are        *)
(* distinct between two stop-all phases, as scenario.Validate demands.      *)
(***************************************************************************)
EXTENDS MCWorkQueue

CONSTANTS Job, j1, j2

VARIABLES
  focus,
  sPhases, sOnExit, sRepeated, sPc, sIndex, sGeneration, sJobs, sChanged, sWait,
  sScenarioCanceled, sStopRequested, sHandle, sAsyncErr, sBackground, sRunErr, sCleanupErr,
  sDataErr, sClosedSingleRun, sResultErr, sCounts, sFence, sRecord, sIntegrity

Phase(action, job, awaited) == [action |-> action, job |-> job, jobs |-> awaited]
Begin(j) == Phase("start", j, {})
Wait(awaited) == Phase("wait-jobs", j1, awaited)
Await == Phase("await", j1, {})
StopAll == Phase("stop-all", j1, {})

Mixed == {<<Begin(j1), Begin(j2), Wait({j1}), Await>>,
          <<Begin(j1), StopAll, Begin(j1), Wait({})>>,
          <<Begin(j1), Begin(j2), StopAll, Await>>,
          <<Wait({}), Await, Begin(j2)>>}

S == INSTANCE ScenarioRun WITH
       Scenarios <- Mixed,
       phases <- sPhases, onExit <- sOnExit, repeated <- sRepeated, pc <- sPc, index <- sIndex,
       generation <- sGeneration, jobs <- sJobs, changed <- sChanged, wait <- sWait,
       scenarioCanceled <- sScenarioCanceled, stopRequested <- sStopRequested,
       handle <- sHandle, asyncErr <- sAsyncErr, background <- sBackground, runErr <- sRunErr,
       cleanupErr <- sCleanupErr, dataErr <- sDataErr, closedSingleRun <- sClosedSingleRun,
       resultErr <- sResultErr, counts <- sCounts, fence <- sFence, record <- sRecord,
       integrity <- sIntegrity

sVars == <<sPhases, sOnExit, sRepeated, sPc, sIndex, sGeneration, sJobs, sChanged, sWait,
           sScenarioCanceled, sStopRequested, sHandle, sAsyncErr, sBackground, sRunErr,
           sCleanupErr, sDataErr, sClosedSingleRun, sResultErr, sCounts, sFence, sRecord,
           sIntegrity>>
allVars == <<focus, vars, sVars>>

Rest ==
  /\ sPhases = 0 /\ sOnExit = 0 /\ sRepeated = 0 /\ sPc = 0 /\ sIndex = 0 /\ sGeneration = 0
  /\ sJobs = 0 /\ sChanged = 0 /\ sWait = 0 /\ sScenarioCanceled = 0 /\ sStopRequested = 0
  /\ sHandle = 0 /\ sAsyncErr = 0 /\ sBackground = 0 /\ sRunErr = 0 /\ sCleanupErr = 0
  /\ sDataErr = 0 /\ sClosedSingleRun = 0 /\ sResultErr = 0 /\ sCounts = 0 /\ sFence = 0
  /\ sRecord = 0 /\ sIntegrity = 0

MCInit ==
  \/ focus = "queue" /\ Init /\ Rest
  \/ focus = "run" /\ S!Init /\ Init /\ plan = CHOOSE p \in Plans : TRUE

MCNext ==
  \/ focus = "queue" /\ Next /\ UNCHANGED <<focus, sVars>>
  \/ focus = "run" /\ S!Next /\ UNCHANGED <<focus, vars>>

\* The fairness of WorkQueue!FairSpec and of ScenarioRun!FairSpec.
MCSpec ==
  /\ MCInit /\ [][MCNext]_allVars
  /\ \A w \in Work : WF_allVars(focus = "queue" /\ Step(w) /\ UNCHANGED <<focus, sVars>>)
  /\ WF_allVars(focus = "run" /\ S!Driver /\ UNCHANGED <<focus, vars>>)
  /\ \A j \in Job : WF_allVars(focus = "run" /\ S!JobSteps(j) /\ UNCHANGED <<focus, vars>>)
-----------------------------------------------------------------------------
\* Counters match the jobs, cleanup waits for them, and a completed run is clean
\* (jobs.go:105, runner.go:377 and :256).
RunIsSound == focus = "run" => S!RunIsSound

\* Every run ends (jobs.go:130).
RunEnds == (focus = "run") ~> (focus = "run" /\ sPc = "done")
=============================================================================
