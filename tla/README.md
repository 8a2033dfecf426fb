# K-P2PLab verification

TLA+ specifications of the stateful core of K-P2PLab, model-checked with TLC on
small instances. The safety of seven parts is proved with TLAPS for every value of the
constants: the admission of Peers on an Agent, the capacity setting, the reboot of a
host, the formation of a mesh, the work queue with its cleanup barrier, the archive of a
run, and the admission of a batch, which is proved to implement an abstract
specification. Paths below are relative to the repository (`internal/...`);
`PROJECT.json` maps each definition to its lines.

## The system

| Part | Process | What it does |
|---|---|---|
| Controller | one | queues work, runs scenarios, places Peers, collects telemetry, keeps, analyses and archives results |
| Agent | one per host | admits and stops Peer containers, spools telemetry, reports by heartbeat |
| Peer | container, many per Agent | runs GossipSub, sends telemetry to its Agent |
| Network manager | one | replaces the overlay network between attempts |
| Master | command line | deploys the stack with Docker Swarm |
| NAS | external | holds archived results |
| Docker, HTTP | external | containers, networks and calls whose answers may be late or lost |

Telemetry flows Peer -> Agent -> Controller -> local log -> NAS. Control flows
Controller -> Agent -> Peer. What a component remembers about another one always
arrives late, and every component except a Peer can restart in the middle.

### Inventory

| Area | Source | Module |
|---|---|---|
| Telemetry source of a Peer | `peer/telemetry.go`, shutdown in `peer/peer.go` | `PeerTelemetry` |
| Telemetry spool of an Agent | `agent/telemetry_log.go`, `telemetry_spool.go`, `telemetry_window.go`, `run_drain.go` | `AgentSpool` |
| Admission, fences, retired identities | `agent/agent.go`, `history.go`, `container.go`, `create_replay.go`, `api.go` | `AgentAdmission`, `AgentAdmissionProofs` |
| Inventory and placement | `controller/state.go`, `runner.go`, `create_retry.go` | `Placement` |
| Capacity setting | `controller/agent_capacity.go` and the Agent's side | `AgentCapacity`, `AgentCapacityProofs` |
| Work queue and cleanup barrier | `controller/work_queue*.go`, `experiment_queue.go`, `work_cleanup_markers.go`, `repeat.go`, `resume.go`, `batch_append.go` | `WorkQueue`, `WorkQueueProofs` |
| Scenario execution, jobs | `controller/runner.go`, `jobs.go`, `run_integrity.go` | `ScenarioRun` |
| Host reboot | `controller/host_reboot*.go`, `host_availability.go`, `agent/host_reboot*.go` | `HostReboot`, `HostRebootProofs` |
| Result storage and archive | `controller/run_archive*.go`, `run_storage.go`, `results.go` | `RunArchive`, `RunArchiveProofs` |
| Batch admission, append, resume | `controller/batch_admission.go`, `batch_append.go`, `submissions.go`, `resume.go`, `repeat.go`, `library_group_admission.go`, `result_batches.go` | `BatchAdmission`, `BatchGroup` (abstract), `BatchStepProofs`, `BatchAdmissionProofs` |
| Scenario library and groups | `controller/scenarios.go`, `library_groups.go` | `ScenarioLibrary` |
| Analysis jobs | `controller/analysis_jobs.go`, `batch_analysis.go`, `source_hash.go`, `batch_source_hash.go` | `AnalysisJobs` |
| Result downloads | `controller/results.go`, `library_downloads.go` | `ResultDownloads` |
| Experiment network | `experimentnet/`, `controller/experiment_network.go`, `agent/experiment_network.go` | `ExperimentNetwork` |
| Profile changes | `controller/profile_schedule.go`, `agent/profile_update.go`, `peer/profile_update.go` | `ProfileSchedule` |
| Topology and mesh-freeze phases | `controller/topology_*.go`, `mesh_freeze.go`, Agent and Peer sides, `third_party/go-libp2p-pubsub/mesh_plan.go` | `TopologyFormation`, `TopologyFormationProofs` |
| Topology generators | `topology/generate.go`, `model/topology.go` | `TopologyGenerate` |
| Swarm stack | `master/swarm.go`, `swarm_lifecycle.go`, `swarm_network.go`, `preflight.go` | `SwarmLifecycle` |
| Reset of the Peer network | `master/swarm_network.go`, `swarm_network_transition.go` | `PeerNetworkReset` |

`PROJECT.json` lists every component with its status and reason; what is left
out is under "Not modelled".

## Conventions

- An operation that the code runs under one lock is one action. It is split where
  the lock is dropped, where a file becomes durable, and where a message leaves.
- A failing call is a disjunct of its own; the bounds on faults are constants
  named `Max...`, and apply only in guards.
- A definition commented `Mutant:` is a plausible bug. It is used by no action;
  it replaces a definition to show that a property depends on it.
- Types are checked together with one structural invariant of the module. A
  property that is a conjunction (`...IsSound`) has one mutant, which breaks one
  of its conjuncts.
- The modules `MCAgents`, `MCQueue`, `MCResults` and `MCExperiment` hold several
  components that do not share state. A rigid variable `focus` chooses in the
  initial state which one moves; the others rest. This is one state space per
  component and bound, not a product: nothing is claimed about their interaction.
  Components that do interact (Controller, Agents, Peers and messages of one
  protocol) are in one module.
- Deadlock is checked in `batch`, where a user can always ask for one more
  operation. Elsewhere the systems are bounded in inputs and faults, and stop
  legitimately when those are used up. Where something must not stop early, a
  liveness property says so.

## Modules and code

**AgentSpool.** State: the records and segments on disk (volatile and durable
contents apart), the journal of retired lines, the rollback marker, the terminations
kept in memory, the request in flight and what the Controller has stored. Actions:
acceptance of a batch (write, fsync, rename, directory fsync), `flushEvents`,
the answer or its loss, `acknowledge` segment by segment, retirement, run drain,
orderly stop, crash of the process or the host, recovery. Unsynced data survive a
process crash and may vanish in a host crash.

**PeerTelemetry.** State: the bounded channel with its reserved slots, the pending
batch, the drop counter and its notices, the Agent's log. Producers, the sender,
the sealing and the final drain are separate actions. The clock is left out; a
`huge` event is one that cannot be encoded; the inner loop of the sealed drain is
one step.

**AgentAdmission.** One Agent. State: `processes`, fences and history in memory and
on disk, `historyRevision`, the create and stop handlers with what each has read,
the reclaim worker. A handler reads the disk without the lock and then takes it, as
`lockAdmission` does. Restart empties memory and removes containers first.

**Placement.** State: the Agents' processes and instance, reports on their way with
the time they were taken, the Controller's inventory, reservations and uncertain
creates. Actions: reserve, dispatch, admit, answer, lose or give up an answer,
report (full or partial), register, DELETE, retire, restart of the Agent. A restart
of an Agent that is not registered is left out.

**AgentCapacity.** One Agent. State: the durable override, its revision, the
inventory entry, the Agent's limit and revision, reports and answers in flight.
Posts of an Agent are serialized by `heartbeatMu`; reports in flight die with the
Controller; revisions are a counter of which only equality is used.

**WorkQueue.** State: the queue, opened heads, cleanup obligations in memory and
markers on disk, Peers per run, the records in memory and on disk, the attempts of each
batch. Actions: enqueue, `ResumeBatch` (the same run IDs again), `RetryBatch` (new IDs for
the unfinished iterations) and append, open, work, cancel, drain with confirmation or
failure, deletion, recovery scan and merge, restart. Every write of a manifest or a
marker may fail. `plan` says what each item of work is and which IDs it draws; it is
chosen in the initial state, like the random IDs. The files of an admission are
`BatchAdmission`'s; here an admission is one step that succeeds. Not modelled: a start
time taken when the network manager is configured and the preparation failed.

**ScenarioRun.** The control flow of `runScenario` over a given list of phases:
start of a job, wait-jobs, await, stop-all, the waits with their captured broadcast
channel, user stop, cancellation, the end of a run (background jobs, fence, cleanup,
collection, integrity check, final record). wait-ready is wait-jobs followed by
await; the preparation of the network is the first await; the operations of a phase
are one step that succeeds or fails; duplicate job names are excluded, as
`scenario.Validate` does; Agents support drain.

**HostReboot.** One host with one Agent and the Controller: operation, hold, fence,
request copies (late or duplicated), helper, boots, rejection and proof, Enable.
Start times and boot ids are counters. A fence whose removal fails after the answer was
recorded is the outcome of `SetFails` in which the write has happened. Not modelled:
uniqueness of helper names, the per-Agent enable, requests before `startupReconciled`, and
a submission whose record cannot be written (`host_reboot.go:314`): it never runs, and a
record that did reach the disk is read as interrupted and not dispatched. `HoldSyncFails` lets the
directory fsync of a hold fail after the rename; it is FALSE in the passing run and
TRUE in `reboot_hold`.

**RunArchive.** One run with one log, one metadata file and one artifact; the local
directory, the NAS directory and its manifest, the transfer worker, imports,
readers that capture before they pin, deletion with its marker, Controller crashes.
A partially removed directory is hidden by the marker. An import writes the metadata
before the manifest, and may stop in between; readers do not look at its marker
(`importing`), so that the run is then readable without its archived log.

**BatchAdmission** and **BatchGroup.** One group: `batch.json` (current, retired,
pending, before), the runs' files, deletion markers, the library intent, the
submission receipt, the scheduler. Operations: submit, append, resume, retry,
cancel, delete a run or the group, file the group; each write may fail, the
Controller may stop between any two, and the start-up recovers. `exposed` are runs of an
admission that was not rolled back when the group was deleted. Groups from before
`Current` existed (`legacy`) are initial states. Not modelled: the network manager
path, a failing write of `StartRun`, power loss, digest conflicts. The
expected-run-IDs of a retry are `named`.

**ScenarioLibrary.** One record with versions, the summary cache, shared reads
(flights), listings; groups, memberships, windows with revisions. Another Controller
on the same data directory may replace the record, which the code defends against.
An edit of groups is applied to the present groups, never to a window's copy; the check
of the revision decides only whether the window saw them. Likewise the second `stat`
of a read makes a listing more recent than the property asks for. Neither check alone
is what `LibraryIsSound` depends on.

**AnalysisJobs.** One run, or one batch of two. Job metadata and artifact slots on
disk, job objects with their capture, the sources. Every write has three outcomes:
done, not done, done but reported as failed. Not modelled: the queue limit (32),
expectation mismatches, progress reports, partially removed directories.

**ResultDownloads.** Versions of a run, pending publications with their time, leases,
the length cache, flights with waiters, measuring slots, bulk tickets and streams.
Deletion holds `persistMu` throughout, so it is one step, or fails at the removal
of the directory and can be repeated. Client cancellation and read failures share
one budget of faults. A late flight of an older version may overwrite a newer cached
length; it is then measured again.

**ExperimentNetwork.** Two attempts: the Controller's fence, prepare and activate
calls, the Agents' admission, the network manager step by step, the Docker views of
a network that converge on their own. A prepare may be redelivered; a fence is sent
once; the allocation is "saved" or not; the Agent's start-time check is
nondeterministic; the two checks of an activation are one step; the gateway's health
is its existence.

**ProfileSchedule.** The Controller's gate, a change in two stages over a cohort, the
Agents' records, the Peers' configuration, commands, answers and status reports. A Peer
installs its network conditions first and the rest of the profile in a later step.
Refusals of all kinds are `ChangeFails`. HTTP does not duplicate commands. Reports may
cross or be resent. A stop-all resets the profiles only after draining and is left
out.

**TopologyFormation.** Consecutive topology and mesh-freeze phases over one topic.
A plan is a function from its targets to their neighbours. Discovery, connection loss
and GRAFT act on the mesh at any time. **TopologyGenerate** is the generators loop by
loop with every random draw possible, the Fenwick tree of `degreeTree`, and the
rank that a rewiring draws when its random tries have not hit a candidate. Canceled generation is left
out.

**SwarmLifecycle.** Services by identity, tasks, node states, labels, gateway, one
command at a time and another operator's replacement, with the step of the command in
which it came (`since`); the orchestrator starts, moves and ends tasks on its own. A
command that excludes a server answers for the Agent service it found, not for one that
replaced it meanwhile. `captureTasks` is one step, pausing marks all tasks of the
service; the retention of five historic tasks is not modelled. **PeerNetworkReset** is
`resetPeerNetwork` against a store and a listing that lag.

## Runs

`tlc -workers 2 -config <run>.cfg <module>`; each takes at most a few minutes.

| Run | Module | Properties | What it shows |
|---|---|---|---|
| `spool` | `AgentSpool` | `SpoolConsistent` `EvidenceIsKept` `RecoveryAccepts` `FirstArrivalInOrder` `DrainSound` | An event that the Agent answered for is on disk or at the Controller after any crash; no journal frame covers an undelivered event; first arrivals keep the order of their session; a drain says "drained" only when it is; after host crashes alone the Agent starts again |
| `spool_live` | `AgentSpool` | `EventuallyDelivered` | every accepted event reaches the Controller |
| `admission` | `MCAgentAdmission` | `FencedStaysClean` `AdmittedOnce` `WithinCapacity` | a stopped generation stays stopped and an identity is used once, whatever was moved to disk and whenever the Agent restarts; the capacity is never exceeded |
| `agents` | `MCAgents` | `RebootIsSafe` `PlacementConsistent` `OccupancyCovers` `NoRevival` | a host is enabled again only after the reboot asked for is proved or rejected; the Controller counts every Peer that an Agent may have; a Peer that ended does not come back in the inventory |
| `queue` | `MCQueue` | `QueueIsolates` `CleanupRemembered` `RunIsSound` `EveryWorkEnds` `RunEnds` | only the head works and alone, also when a batch is resumed, retried or extended; an owed cleanup survives failing writes and a restart; a completed run is clean; every item and every run ends |
| `telemetry` | `PeerTelemetry` | `TelemetryConsistent` `LossesAreReported` `ShutdownCompletes` | the bounded queue keeps order and its reserved slots; every loss is counted and reported; the shutdown ends |
| `archive` | `RunArchive` | `ArchiveConsistent` `ReadersSeeAll` `NoRevival` `ArchiveSettles` | a reader sees the whole log in either place, or, during an unfinished import, all that is not on the NAS; a deleted result does not come back; in the end all is archived or removed |
| `batch` | `BatchAdmission` | `GroupIsSound` `SubmittedOnce` `AdmissionIsAtomic` | an admission of several files is one atomic step, except for what the deletion of a whole group brings to light; one submission is admitted once |
| `results` | `MCResults` | `CapacityIsEnforced` `LibraryIsSound` `AnalysesAreTrue` `DeletedStaysGone` `DownloadsAreSound` | the Controller's limit is the Agent's once confirmed; listings are fresh; an analysis served as fresh was made from the present sources and none of a deleted run returns; leases, slots and shared measurements of downloads are all given back |
| `experiment` | `MCExperiment` | `StopsAreClean` `NetworkIsSound` `ProfilesAreSound` `MeshIsSound` `GraphIsSound` `ReplacementsSurvive` `ResetIsExact` | a stack command reports success only when what it stops is gone; a service that another operator put in place meanwhile is neither removed nor rewritten, unless it came after the last inventory; attempts do not share a network; a cohort changes its profile together; a formed mesh is the planned one; a generated graph has exactly the asked shape |
| `queue_recording` | `MCWorkQueue` | `FailedRunsRemovePeers` | violated, see Findings |
| `reboot_hold` | `MCHostReboot` | `EnabledIsSafe` | violated, see Findings |

Each property of a passing run has a mutant in `PROJECT.json` that violates it.

### Bounds and why they are enough

- **Spool**: one source, two events, two lines per segment, three or four segments,
  one I/O fault, two crashes (one in `spool_live`). Two events are a batch or two; a
  rotation, a retirement and a recovery fit; the second crash hits the recovery from
  the first. `MaxCrashes` counts stops and crashes of process and host alike.
- **Admission**: one run, two identities that compete for one slot, two handlers, one
  restart, symmetric identities and handlers. One generation, since more take over
  five minutes; the proofs hold for any number, as do those for reboots, meshes and the
  queue.
- **Agents**: two reboot operations with two boots, or one with failing writes;
  placement of one Peer on an Agent with three reports, or with two and a restart, of two
  Peers on one Agent, of one Peer on two; two reports may cross.
  All races of the code are between two copies of a request, two reports, or a report
  and an answer.
- **Queue**: an experiment followed by an analysis, by its retry or by more iterations, and
  a batch of two runs that is resumed; one restart and one failed write. The hazards are
  between the worker of one item and the next one, or a restart. A run of four scenarios with two jobs:
  wait-jobs, stop-all, await and their combinations.
- **Telemetry**: five slots of which some are reserved, batches of two, three
  ordinary events besides the fixed ones; the queue fills, drops and drains.
- **Archive**: two log lines, two artifact versions, two faults. **Batch**: three runs,
  groups of up to two, one failing write, one stop of the Controller.
- **Results**: capacity with four revisions, two starts, two reports in flight; the
  library with three record versions or three group revisions; analyses with two jobs
  and a fault (no earlier analysis), two and a crash, one and both; downloads of one run that changes while
  time passes, or of two runs in bulk, with one measuring slot, stream and ticket, so
  that every limit is met.
- **Experiment**: the stack with one command on two servers or two on one; two attempts,
  two Agents, three networks, two faults and one restart of the manager; a reset with
  four networks and three faults; profiles with two Peers and a fault, with reports, or
  with one more change; meshes of two Peers in three phases with two faults, and of
  three in two phases without; graphs of up to six nodes
  and twelve edges, which reach every generator and its correction loops.

### Fairness

| Specification | Fairness | Because |
|---|---|---|
| `AgentSpool` | weak on flush, the Controller's store, the end of a flush, acknowledgement, recovery | `controlLoop` flushes every 500 ms; the Controller answers; a supervisor starts the Agent again |
| `PeerTelemetry` | weak on the end of the measurement, the shutdown steps and the sender; strong on the drain timer | goroutines are scheduled and a timer that is armed fires |
| `RunArchive` | weak on the transfer worker; strong on the import scan and on the removal from the NAS | both are retried every few seconds for as long as the Controller runs; the faults are bounded |
| `WorkQueue` | weak on each worker | goroutines; a removal that an Agent does not confirm ends the attempt, or is retried with the head in place until the Agent answers |
| `ScenarioRun` | weak on the driver and on each job | goroutines; waits are bounded by timers or by the jobs they wait for |

Failures, crashes, cancellations and requests of a user are never fair.

## Refinement

`BatchAdmission` implements `BatchGroup`, where a group is a set of members, an
admission adds its runs in one step or not at all, and a deleted group never grows
again. The mapping reads a member off the files that the Controller would serve:
`members <- Members`, `asked <- Asked`, `erased <- fence`. `AdmissionIsAtomic` is
`Group!Spec`; TLC checks it as a property of `batch`, and `AdmissionRefinesGroup` proves
it. Half-written admissions, their roll-back and their completion at start-up must
therefore all be stutters or one abstract step. The abstract `Reveal` is an exception
that the code has: `deleteSavedBatch` removes `batch.json` even when the last admission
could not be rolled back, and the runs that it named as pending are then served.

## Proofs

`tlapm M.tla` for each of the modules below; none takes more than a few minutes.

| Theorem | Module | Property |
|---|---|---|
| `CleanupIsFinal`, `IdentityIsUnique`, `CapacityIsKept` | `AgentAdmissionProofs` | `FencedStaysClean`, `AdmittedOnce`, `WithinCapacity` |
| `PlacementLimitIsEnforced` | `AgentCapacityProofs` | `CapacityIsEnforced` |
| `RebootIsNotReplayed`, `RebootIsKeptSafe` | `HostRebootProofs` | all of `RebootIsSafe` but `EnabledIsSafe`; `RebootIsSafe` |
| `FormedMeshIsKept` | `TopologyFormationProofs` | `MeshIsSound` |
| `HeadWorksAlone`, `PeersAreRemembered` | `WorkQueueProofs` | `QueueIsolates`, `CleanupRemembered` |
| `ArchiveStaysConsistent`, `ReadersMissNothing`, `DeletedIsNotRevived` | `RunArchiveProofs` | `ArchiveConsistent`, `ReadersSeeAll`, `NoRevival` |
| `SubmissionStartsOnce`, `AdmissionRefinesGroup` | `BatchAdmissionProofs`, on the invariant of `BatchStepProofs` | `SubmittedOnce`, `AdmissionIsAtomic` |

Each module defines its inductive invariant `IInv`, has one lemma per action (per
conjunct in `AgentAdmissionProofs`), and combines them in the last theorems. The
invariants were first checked by TLC on small instances. A `Zenon` or `SMTT` in a
leaf only chooses the prover.

**Admission** (assumption `AdmissionConstants`: `NodeRun` and `NodeGen` are functions
into runs and generations, the other constants are naturals). `CleanupIsFinal` is
`Spec => []FencedStaysClean`, `IdentityIsUnique` is `Spec => []AdmittedOnce`, for any
number of runs, nodes, handlers, generations and restarts; `TypeCorrect` gives the
types. The properties are not inductive: they speak of processes, while the decision
rests on what a handler read earlier and on records that move from memory to disk.
`IInv` adds
- `StopsWereIssued`, `RequestsKnown`: what is stopped or created was asked for;
- `FenceHeld`: a create that this instance would still accept is covered by the
  fence of every stop of its generation, in memory or on disk;
- `HandlerFence`: the same for what a handler has read, as long as its
  `historyRevision` is current;
- `ReclaimTerminal`: the reclaim worker only moves ended processes, and drops them
  after they are on disk;
- `IdentityKept`, `HandlerIdentity`: an identity that this instance admitted is in
  `processes` or in the history, and a handler with a current revision that did not
  find it in the history will find it in `processes`.

`Invariance` combines the lemmas. `CapacityIsKept` (`Spec => []WithinCapacity`) rests on
types and on `SlotsCounted`: the slots in use are finite in number and no more than
`Capacity`. An action either leaves the set of occupied slots alone, or shrinks it, or
adds one slot after the comparison that `lockAdmission` makes in the same step.

**Capacity** (`CapacityConstants`: capacities and the default are positive;
`MCResults` evaluates it). `PlacementLimitIsEnforced` is `Spec => []CapacityIsEnforced`
for any capacities and bounds: the limit for placement is never above the one that
the Agent enforces, and a setting that is no longer pending is the one enforced. The Controller knows
only revisions that were reported; the property needs that a revision *means* the same
setting everywhere. `IInv` in `AgentCapacityProofs` says: the current revision is
the newest (`Revisions`), wherever it occurs it stands for the current setting
(`Meaning`), a report is no newer than its Agent and an awaited answer no older
(`Ages`), an instance that is not registered yet has the limit it reports (`Unheard`), and the
placement limit is below both the limit in force and the awaited one (`Enforced`);
`Shapes`, `Instances` and `Settled` are types and bookkeeping. There is one lemma
per action.

**Host reboot** (`HostRebootConstants`). `RebootIsNotReplayed` says, for any number of
operations, copies of a request, failing writes and restarts: one helper at most is
started per boot, a reported rejection has started none and never will, a reported
reboot has happened. `RebootIsKeptSafe` adds `EnabledIsSafe` under `~HoldSyncFails`: a
write of the hold that reports a failure leaves the disk alone. That assumption cannot
be dropped, as the run `reboot_hold` shows. The invariant has three parts:
- the Agent: the receipt of a helper is followed from the request (`Serving`, the first
  of its boot) to the durable receipt before the helper (`Committed`) and to the one that
  is kept after it (`Receipted`), in memory and on disk, since a restart of the Agent
  reads the disk; a rejection is durable before it is told (`Told`);
- the Controller: an operation records that it may have dispatched before it does
  (`Dispatched`), knows nothing ahead of the host (`Times`), and the outcomes of memory
  and of disk are both true (`Outcomes`), since either may be the one that survives;
- between them: a request that could still act (`Danger`) is the one that the fence
  names, until a rejection or a later instance of the Agent releases the fence.

**Mesh formation** (`FormationConstants`). `MeshIsSound` speaks of the end of a phase,
after which late commands and answers of earlier phases and attempts still arrive. The
invariant follows a phase from commands (`Commands`) to answers (`Replies`) to the
targets that are counted: what is still waited for is of the stage in progress and
unique for its node, and each of the three carries what the Peer did
(`Preparations`, `Formations`, `Records`). The theorem holds for any Peers, plans and
cohorts and any number of phases, attempts, timeouts and departures.

**Work queue** (`WorkQueueConstants`: a run ID that an item of work draws is drawn by no
other). The two properties need each other. A head may work because the cleanup before
it saw every run that has Peers; it did, because each such run is remembered on disk
(`CleanupRemembered`) and none belongs to work whose turn has not come (`Unborn`). A run
stays remembered, because manifests and markers are rewritten only by the one worker
past its turn (`Ordered`), for runs whose Peers it has removed (`Confined`, which says at
each step of the head where the runs with Peers are still listed). A batch may be
continued under the same IDs only when no worker has them (`Separate`), and new IDs are
known to nobody (`Fresh`); a run that had Peers counts as started in memory and on disk,
so that it is never resumed (`Marked`). Since writes fail, memory and disk differ: `Begun`
says what the disk knows once an Agent is known, `Ahead` that the runs a worker has not
begun have no Agents, `Recorded` that a worker's records exist while it does,
`Iterates` that a worker at work has a current run. Both properties except the runs in
`forgotten`: those that `EndSingle` ends without removal, the subject of the finding
`queue_recording`.

**Archive of a run** (`BoundsAssumption`: there is at least one line and one version).
A part of the log moves from the tail to a segment, to an object with a temporary name,
to a published object, and only then leaves the local directory; meanwhile the worker
holds a captured manifest that may be stale. `IInv` says what of the run exists where the
worker is (`Places`), what the worker has copied and published (`Copying`), what a reader
captured (`Readers`), and, while the run is not deleted, that every line is in one place
or in a segment and its published copy (`Content`), what the local manifest has of the
published one (`Listed`), which segments a transfer may unlink (`Transfer`), the same for
the artifact (`Artifact`), and that a transfer covers every local file that did not change
meanwhile (`Covering`). `DeletedIsNotRevived` needs no invariant: each action that
creates the directory tests the deletion.

**Batch admission** (`BatchConstants`: room for two runs and one iteration). The mapping
reads the members off three kinds of files, so that the invariant must say what the
files can be at every step of every operation: the files of a run and its fence
(`FilesOK`, `Drawn`), the record `batch.json` and what it names (`RecordOK`, `TotalsOK`,
`AncestryOK`, `FirstOK`), what an operation planned, admits, repeats and deletes
(`PlanOK`, `AdmitOK`, `StepOK`, `DeleteOK`), the scheduler (`SchedOK`) and the history of
a submission (`HistoryOK`). `BatchStepProofs` states it and shows that the operations
keep it; `BatchAdmissionProofs` adds the remaining actions, and maps each step to a step
of `BatchGroup` or to a stutter.

**Only model-checked**:
- all liveness (`EventuallyDelivered`, `EveryWorkEnds`, `RunEnds`, `ShutdownCompletes`,
  `ArchiveSettles`): the prover covers neither fairness nor `ENABLED`;
- the spool and the Peer's telemetry: their invariants speak of filtered, flattened and
  folded sequences (`SelectSeq`, `FlattenSeq`, `FoldLeft`), whose properties need
  induction over data, which the installed provers cannot apply;
- the generators, the Fenwick tree and the profile schedule's cohorts, for the same reason;
- `GroupIsSound` of `BatchAdmission`, and the properties of `Placement`, `ScenarioRun`,
  `ScenarioLibrary`, `AnalysisJobs`, `ResultDownloads`, `ExperimentNetwork`,
  `SwarmLifecycle` and `PeerNetworkReset`: no inductive invariant has been worked out for
  them.

## Findings

- `queue_recording`: `runner.go:393` against the comment at 390: a run that fails
  only because its own files cannot be flushed keeps its Peers, and the queue records
  the cleanup as done.
- `reboot_hold`: `host_availability.go:69` against the comment at 58: when a hold's
  removal fails after its rename, the next operation finds the hold in memory, writes
  none, and a restart of the Controller enables the host.

## Observations

Differences between code and comments met while modelling, reproduced with TLC
and not kept as runs (where a definition is named, it states the property that fails):

- `runner.go:430`: a recording that fails between the integrity check and the final
  record leaves the run completed; `lifecycle_safety_test.go:206` calls such a run
  "recording failure hidden".
- `run_archive.go:595`: a retained file keeps its object name, so that its next
  version replaces a published object; `run_storage.go:28` says "Objects are
  immutable after publication."
- `run_archive_index.go:378`: a half import is readable without its archived log; compare
  the comment at 364. `ReadersSeeAll` excepts exactly this (`Unrecorded`).
- `NeverFallsBack` (`BatchAdmission`) does not hold for groups from before `Current`:
  `batch_admission.go:12` says it "never falls back to an old attempt", line 147
  "This also protects retries made before Current was introduced."
- `DeleteBatch` does not first roll back a pending admission whose rollback had failed:
  the pending runs become readable, although `batch_append.go:26` says "Pending IDs
  remain invisible until every new result is reserved and the record commits". This is
  `Reveal` in `BatchGroup`.
- A write of an analysis job that started before its deletion recreates
  `batch-analyses/<id>/job.json` (`batch_analysis.go:431`); nothing lists it.
- `StatusRecovers` (`ProfileSchedule`) does not hold: `agent/profile_update.go:194`
  says "A lost apply acknowledgement can be recovered from a later Peer status."; a
  later acknowledgement that names other fields advances the revision, and the
  report of that revision is then ignored.
- `LengthIsExact` (`ResultDownloads`) does not hold: a request captured while a
  publication is pending may use the length that a later request cached with none
  pending; its stream is then aborted (`results.go:1022`).
- A process crash after a failed fsync, followed by a journal frame and a power
  loss, makes `recoverLog` refuse the spool: the Agent does not start, and nothing is
  lost silently. `RecoveryAccepts` is stated for host crashes alone.
- After a DELETE is confirmed and before the next report, an older full report may
  make the Controller count too few Peers; the Agent's own limit still holds.

Hazards seen at these lines are covered by properties of the modules but left out of
the list in `PROJECT.json`, which keeps the forty that matter most:
`agent/telemetry_log.go:105` and `:299`, `agent/history.go:258`, `agent/agent.go:275`,
`peer/telemetry.go:363`, and in `controller/`: `api.go:406`,
`create_retry.go:63`, `resume.go:171` (a batch resumed while its last worker has not left),
`agent_capacity.go:184`, `agent_availability.go:115`, `experiment_queue.go:98`,
`work_queue_recovery.go:123`, `runner.go:362`, `jobs.go:86`, `host_reboot.go:188`,
`run_archive.go:178` and `:681`, `run_archive_index.go:489`, `run_storage.go:421`.

## Not modelled

- **Archive identity and reconnection** (`archive_reconnect.go`, `archive_copy_temps.go`),
  quarantine, legacy archives, loss of the NAS, and power loss of local renames.
- **Analysis algorithms and live metrics**: numerical, in floating point; only their
  scheduling, sources and storage are modelled.
- **Dashboard streams**: they publish what other modules decide and keep nothing.
- **Peer runtime and GossipSub**: third-party libraries; the model has what the
  Controller, the Agents and the mesh plan see of them. The Peer's own
  `network.schedule` is left out.
- **Gateway routing**: `gateway.go` proxies bytes.
- **Master command line and configuration, validation of scenarios and settings, notes
  of results, downloads of scenarios and file names**: sequential code or plain
  storage, without state that another actor changes meanwhile.
- **HTTP, authentication, Docker backend and web interface**: external or input and
  output; their answers are nondeterministic choices.
- **Bounds of the modelled parts**: convergence of capacities as liveness and the
  retention of Swarm's task history. The windows between the last inventory and
  `stack rm` or `stack deploy`, which the code cannot close, are in the model;
  `ReplacementsSurvive` does not judge them. The error that a drain reads after its
  count (`run_drain.go:44`) is a step of its own; it can only turn a success into a
  failure, which `DrainSound` allows, so that the late read is exercised but not judged.
