---------------------------- MODULE MCResults ----------------------------
(***************************************************************************)
(* What is kept on the Controller and served from it: the capacity         *)
(* settings of Agents, the scenario library, the analyses of runs and the  *)
(* downloads of their results.  A behaviour looks at one of them (focus);  *)
(* the others rest.                                                        *)
(*                                                                         *)
(* The library is checked with more versions of the record or with more    *)
(* revisions of the groups; analyses that start from nothing with a fault, *)
(* others with a crash, or with both and one job; downloads with one run   *)
(* that changes while time passes, or with two in a bulk download.         *)
(***************************************************************************)
EXTENDS AgentCapacity, TLC

CONSTANTS
  Reader, Window, Grp, CacheSize, Attempts,      \* library
  Request, run1, run2                                \* downloads

VARIABLES
  focus,
  \* ScenarioLibrary
  lFile, lLast, lCache, lRd, lWriter, lLib, lView, lMover, lFailed,
  \* AnalysisJobs
  aBatch, aSrc, aBusy, aGone, aDisk, aRes, aSum, aJob, aCur, aStray, aFaults, aStops,
  \* ResultDownloads
  dNow, dRun, dArchives, dFlights, dSlots, dLeases, dTickets, dStreams, dReq, dFaults

Listing == INSTANCE ScenarioLibrary WITH
       MaxVersion <- 3, MaxRevision <- 1, file <- lFile, last <- lLast, cache <- lCache,
       rd <- lRd, writer <- lWriter, lib <- lLib, view <- lView, mover <- lMover,
       failed <- lFailed

Filing == INSTANCE ScenarioLibrary WITH
       MaxVersion <- 2, MaxRevision <- 3, file <- lFile, last <- lLast, cache <- lCache,
       rd <- lRd, writer <- lWriter, lib <- lLib, view <- lView, mover <- lMover,
       failed <- lFailed

Faulty == INSTANCE AnalysisJobs WITH
       MaxJobs <- 2, MaxChanges <- 1, MaxFaults <- 1, MaxStops <- 0, batch <- aBatch,
       src <- aSrc, busy <- aBusy, gone <- aGone, disk <- aDisk, res <- aRes, sum <- aSum,
       job <- aJob, cur <- aCur, stray <- aStray, faults <- aFaults, stops <- aStops

Crashing == INSTANCE AnalysisJobs WITH
       MaxJobs <- 2, MaxChanges <- 1, MaxFaults <- 0, MaxStops <- 1, batch <- aBatch,
       src <- aSrc, busy <- aBusy, gone <- aGone, disk <- aDisk, res <- aRes, sum <- aSum,
       job <- aJob, cur <- aCur, stray <- aStray, faults <- aFaults, stops <- aStops

Single == INSTANCE AnalysisJobs WITH
       MaxJobs <- 1, MaxChanges <- 1, MaxFaults <- 1, MaxStops <- 1, batch <- aBatch,
       src <- aSrc, busy <- aBusy, gone <- aGone, disk <- aDisk, res <- aRes, sum <- aSum,
       job <- aJob, cur <- aCur, stray <- aStray, faults <- aFaults, stops <- aStops

One == INSTANCE ResultDownloads WITH
       Run <- {run1}, CacheTTL <- 2, Grace <- 1, MeasureLimit <- 1, StreamLimit <- 1,
       TicketLimit <- 1, TicketTTL <- 1, Delays <- {0, 1}, MaxNow <- 2, MaxVersion <- 1,
       MaxFaults <- 1, now <- dNow, run <- dRun, archives <- dArchives, flights <- dFlights,
       slots <- dSlots, leases <- dLeases, tickets <- dTickets, streams <- dStreams,
       req <- dReq, faults <- dFaults

Bulk == INSTANCE ResultDownloads WITH
       Run <- {run1, run2}, CacheTTL <- 2, Grace <- 1, MeasureLimit <- 1, StreamLimit <- 1,
       TicketLimit <- 1, TicketTTL <- 1, Delays <- {0, 1}, MaxNow <- 1, MaxVersion <- 0,
       MaxFaults <- 1, now <- dNow, run <- dRun, archives <- dArchives, flights <- dFlights,
       slots <- dSlots, leases <- dLeases, tickets <- dTickets, streams <- dStreams,
       req <- dReq, faults <- dFaults

lVars == <<lFile, lLast, lCache, lRd, lWriter, lLib, lView, lMover, lFailed>>
aVars == <<aBatch, aSrc, aBusy, aGone, aDisk, aRes, aSum, aJob, aCur, aStray, aFaults,
           aStops>>
dVars == <<dNow, dRun, dArchives, dFlights, dSlots, dLeases, dTickets, dStreams, dReq,
           dFaults>>
allVars == <<focus, vars, lVars, aVars, dVars>>

ASSUME CapacitiesArePositive == CapacityConstants

\* Parts that rest; AgentCapacity rests in its initial state.
RestL ==
  /\ lFile = 0 /\ lLast = 0 /\ lCache = 0 /\ lRd = 0 /\ lWriter = 0 /\ lLib = 0 /\ lView = 0
  /\ lMover = 0 /\ lFailed = 0
RestA ==
  /\ aBatch = 0 /\ aSrc = 0 /\ aBusy = 0 /\ aGone = 0 /\ aDisk = 0 /\ aRes = 0 /\ aSum = 0
  /\ aJob = 0 /\ aCur = 0 /\ aStray = 0 /\ aFaults = 0 /\ aStops = 0
RestD ==
  /\ dNow = 0 /\ dRun = 0 /\ dArchives = 0 /\ dFlights = 0 /\ dSlots = 0 /\ dLeases = 0
  /\ dTickets = 0 /\ dStreams = 0 /\ dReq = 0 /\ dFaults = 0

MCInit ==
  /\ Init
  /\ \/ focus = "capacity" /\ RestL /\ RestA /\ RestD
     \/ focus = "listing" /\ Listing!Init /\ RestA /\ RestD
     \/ focus = "filing" /\ Filing!Init /\ RestA /\ RestD
     \/ focus = "faulty" /\ Faulty!Init /\ aDisk = Faulty!NoStatus /\ RestL /\ RestD
     \/ focus = "crashing" /\ Crashing!Init /\ RestL /\ RestD
     \/ focus = "single" /\ Single!Init /\ RestL /\ RestD
     \/ focus = "one" /\ One!Init /\ RestL /\ RestA
     \/ focus = "bulk" /\ Bulk!Init /\ RestL /\ RestA

MCNext ==
  \/ focus = "capacity" /\ Next /\ UNCHANGED <<focus, lVars, aVars, dVars>>
  \/ focus = "listing" /\ Listing!Next /\ UNCHANGED <<focus, vars, aVars, dVars>>
  \/ focus = "filing" /\ Filing!Next /\ UNCHANGED <<focus, vars, aVars, dVars>>
  \/ focus = "faulty" /\ Faulty!Next /\ UNCHANGED <<focus, vars, lVars, dVars>>
  \/ focus = "crashing" /\ Crashing!Next /\ UNCHANGED <<focus, vars, lVars, dVars>>
  \/ focus = "single" /\ Single!Next /\ UNCHANGED <<focus, vars, lVars, dVars>>
  \/ focus = "one" /\ One!Next /\ UNCHANGED <<focus, vars, lVars, aVars>>
  \/ focus = "bulk" /\ Bulk!Next /\ UNCHANGED <<focus, vars, lVars, aVars>>

MCSpec == MCInit /\ [][MCNext]_allVars
-----------------------------------------------------------------------------
\* Listings are fresh, and groups, memberships and windows agree
\* (scenarios.go, library_groups.go).
LibraryIsSound ==
  /\ focus = "listing" => Listing!LibraryIsSound
  /\ focus = "filing" => Filing!LibraryIsSound

\* What is served under an analysis ID is that analysis, and a fresh one was made
\* from the sources as they are (analysis_jobs.go, batch_analysis.go).
AnalysesAreTrue ==
  /\ focus = "faulty" => Faulty!AnalysesAreTrue
  /\ focus = "crashing" => Crashing!AnalysesAreTrue
  /\ focus = "single" => Single!AnalysesAreTrue

\* No analysis of a deleted run comes back (analysis_jobs.go).
DeletedStaysGone ==
  /\ focus = "faulty" => Faulty!DeletedStaysGone
  /\ focus = "crashing" => Crashing!DeletedStaysGone
  /\ focus = "single" => Single!DeletedStaysGone

\* Downloads share leases, slots and lengths without losing one, and what ends
\* normally is whole (results.go, library_downloads.go).
DownloadsAreSound ==
  /\ focus = "one" => One!DownloadsAreSound
  /\ focus = "bulk" => Bulk!DownloadsAreSound
=============================================================================
