----------------------------- MODULE WorkQueue -----------------------------
(***************************************************************************)
(* The Controller's single work queue: experiment batches and analyses     *)
(* wait for the head of a FIFO, and the head first removes the Peers that  *)
(* earlier runs left behind (internal/controller/work_queue.go,            *)
(* experiment_queue.go, work_queue_recovery.go, work_cleanup_markers.go,   *)
(* repeat.go, the lifecycle of runScenario in runner.go, the continuations *)
(* of a batch in resume.go and batch_append.go, and deletion of a saved    *)
(* result in results.go).                                                  *)
(*                                                                         *)
(* A continuation is work of its own in the same batch: Resume queues the  *)
(* runs that never started under the IDs they have, Retry queues new IDs   *)
(* for the unfinished iterations, AppendRuns adds iterations.              *)
(*                                                                         *)
(* The obligation to remove the Peers of a run lives in the run's record,  *)
(* in memory and on disk, and in the cleanup barrier queueCleanup with its *)
(* durable markers.  The Controller may restart at any point; Peers on the *)
(* Agents survive it.  Writes of manifests and markers may fail.           *)
(***************************************************************************)
EXTENDS Sequences, Functions, FiniteSets, Naturals

CONSTANTS Work, Run,
  Plans,        \* what each item of work is, and the run IDs that it draws
  MaxRestarts,  \* bound: Controller restarts
  MaxFaults     \* bound: failed writes

Kinds == {"new", "append", "resume", "retry"}

\* An item of work starts a batch or continues one.  The IDs that it draws are
\* random: nobody else has them.  An analysis has no runs.
ASSUME WorkQueueConstants ==
  /\ MaxRestarts \in Nat /\ MaxFaults \in Nat
  /\ Plans \subseteq [Work -> [kind : Kinds, of : Work, fresh : Seq(Run)]]
  /\ \A p \in Plans : \A v, w \in Work :
       /\ v # w => Range(p[v].fresh) \cap Range(p[w].fresh) = {}
       /\ IsInjective(p[w].fresh)

VARIABLES
  plan,
  runsOf,       \* the runs of each item of work, in order
  repetitions,  \* the size of the batch when the item was admitted
  attempts,     \* currentBatchMembers: the latest attempt of each iteration of a batch
  previous,     \* PreviousRunIDs
  cleanupRuns,  \* earlier attempts that a continuation cleans first
  queue,        \* experimentQueue
  pc, canceled, opened, idx, closed, bad,  \* the worker of each item
  scheduled, candidates, restored,         \* recoverWorkCleanup of the head
  ids,                                     \* waitQueueCleanup of the head
  mem, disk, deleted,                      \* state.experiments, manifests, deletion fence
  queueCleanup, markers,                   \* cleanup barrier: in memory, on disk
  live,                                    \* runs that have Peers on the Agents
  shuttingDown, restarts, faults,
  forgotten                                \* history: see EndSingle

batches == <<plan, runsOf, repetitions, attempts, previous, cleanupRuns>>
workers == <<pc, canceled, opened, idx, closed, bad>>
head == <<scheduled, candidates, restored, ids>>
records == <<mem, disk, deleted>>
barrier == <<queueCleanup, markers>>
control == <<shuttingDown, restarts>>
vars == <<batches, queue, workers, head, records, barrier, live, control, faults, forgotten>>

NoRun == [state |-> "none", cleanup |-> "", data |-> "", started |-> FALSE, agents |-> FALSE]

Members(w) == Range(runsOf[w])
Current(w) == runsOf[w][idx[w]]
Repeated(w) == repetitions[w] > 1
Present(w) == pc[w] \notin {"new", "done", "dead"}

Init ==
  /\ plan \in Plans
  /\ runsOf = [w \in Work |-> <<>>] /\ repetitions = [w \in Work |-> 0]
  /\ attempts = [w \in Work |-> <<>>]
  /\ previous = [r \in Run |-> {}] /\ cleanupRuns = [w \in Work |-> {}]
  /\ queue = <<>>
  /\ pc = [w \in Work |-> "new"]
  /\ canceled = [w \in Work |-> FALSE]
  /\ opened = {}
  /\ idx = [w \in Work |-> 1]
  /\ closed = [w \in Work |-> FALSE]
  /\ bad = [w \in Work |-> FALSE]
  /\ scheduled = {} /\ candidates = {} /\ restored = {} /\ ids = {}
  /\ mem = [r \in Run |-> NoRun] /\ disk = [r \in Run |-> NoRun] /\ deleted = {}
  /\ queueCleanup = {} /\ markers = {} /\ live = {}
  /\ shuttingDown = FALSE /\ restarts = 0 /\ faults = 0 /\ forgotten = {}

\* The outcome of a step's writes.
Writes(ok) ==
  /\ ok \/ faults < MaxFaults
  /\ faults' = IF ok THEN faults ELSE faults + 1

\* updateExperiment: the record in memory, unless the result was deleted or the
\* record is gone, and its manifest, if that can be written.
Update(S, new) ==
  LET T == {r \in S : r \notin deleted /\ mem[r] # NoRun}
  IN  \E W \in SUBSET T :
        /\ mem' = [r \in Run |-> IF r \in T THEN new[r] ELSE mem[r]]
        /\ disk' = [r \in Run |-> IF r \in W THEN new[r] ELSE disk[r]]
        /\ Writes(W = T)

\* needsRecoveredCleanup
NeedsRecoveredCleanup(run) ==
  /\ run.cleanup # "complete"
  /\ \/ run.cleanup = "retained" \/ run.data = "collecting"
     \/ /\ run.started \/ run.agents
        /\ run.state = "running" \/ run.cleanup \in {"failed", "running", "pending"}

\* Mutant: the head is opened only when the queue was empty.
OpenHeadFirst(q) ==
  opened' = IF Len(q) = 1 /\ queue = <<>> THEN opened \cup {Head(q)} ELSE opened

\* updateQueuePositionsLocked opens the head, once.
OpenHead(q) ==
  opened' = IF q = <<>> THEN opened ELSE opened \cup {Head(q)}

\* removeWorkLocked: the slot is deleted at its (first) index.
RemoveWork(w) ==
  \E i \in 1..Len(queue) :
    /\ queue[i] = w /\ \A j \in 1..(i - 1) : queue[j] # w
    /\ queue' = SubSeq(queue, 1, i - 1) \o SubSeq(queue, i + 1, Len(queue))
    /\ OpenHead(queue')

IsHead(w) == queue # <<>> /\ Head(queue) = w
-----------------------------------------------------------------------------
(***************************************************************************)
(* Admission, cancellation, shutdown                                       *)
(***************************************************************************)
\* The slot at the end of the queue, with the runs s of a batch of n.
Enqueue(w, s, n) ==
  /\ pc' = [pc EXCEPT ![w] = "wait"]
  /\ runsOf' = [runsOf EXCEPT ![w] = s] /\ repetitions' = [repetitions EXCEPT ![w] = n]
  /\ queue' = Append(queue, w)
  /\ OpenHead(queue')
  /\ UNCHANGED <<plan, canceled, idx, closed, bad, head, deleted, barrier, live, control, forgotten>>

\* New records, in memory and on disk (commitBatchAdmissionLocked: all or none).
Reserve(S, rec) ==
  /\ mem' = [r \in Run |-> IF r \in S THEN rec ELSE mem[r]]
  /\ disk' = [r \in Run |-> IF r \in S THEN rec ELSE disk[r]]
  /\ UNCHANGED faults

Queued == [NoRun EXCEPT !.state = "queued"]

\* startScenarioRepeated and the admission of analyses.  Manifests first; then
\* the first record of a submission to an idle queue says that it runs.
Submit(w) ==
  LET s == plan[w].fresh
      now == queue = <<>> /\ queueCleanup = {} /\ s # <<>>
      running == [Queued EXCEPT !.state = "running", !.started = TRUE]
      put(f, first) == [r \in Run |-> IF r \notin Range(s) THEN f[r]
                                      ELSE IF first /\ r = s[1] THEN running ELSE Queued]
  IN  /\ pc[w] = "new" /\ plan[w].kind = "new" /\ ~shuttingDown
      /\ Enqueue(w, s, Len(s))
      /\ attempts' = [attempts EXCEPT ![w] = s]
      /\ mem' = put(mem, now)
      /\ \E written \in BOOLEAN : disk' = put(disk, now /\ written) /\ Writes(now => written)
      /\ UNCHANGED <<previous, cleanupRuns>>

\* allBatchMembers: the results of a batch, superseded attempts included.
AllMembers(b) ==
  LET latest == Range(attempts[b])
  IN  {r \in latest \cup UNION {previous[r] : r \in latest} : disk[r] # NoRun}

\* The runs for which a worker is registered in repeatBatches.
Held(w) == Members(w) \cup (IF plan[w].kind = "new" THEN {} ELSE AllMembers(plan[w].of))

\* Mutant: the batches that the queue works on are not looked at.
BusyByState(r) == mem[r].state \in {"running", "queued"}

\* resultDeletionBusyLocked
Busy(r) ==
  \/ mem[r].state \in {"running", "queued"}
  \/ \E w \in Work : Present(w) /\ r \in Held(w)

\* readResultMetadata: nobody works on what a record says is under way.
Saved(r) == IF disk[r].state \in {"running", "queued"} THEN "interrupted" ELSE disk[r].state

\* The iterations of a batch whose latest attempt has not been deleted.
Iterations(b) == {i \in DOMAIN attempts[b] : disk[attempts[b][i]] # NoRun}
Began(r) == disk[r].started \/ Saved(r) \in {"failed", "completed"}
HasFailure(b) ==
  \E i \in Iterations(b) : LET r == attempts[b][i]
                           IN  Saved(r) = "failed" \/ (Saved(r) = "interrupted" /\ disk[r].started)

\* The order of iterations I.
Order(I, n) ==
  {t \in UNION {[1..k -> I] : k \in 0..n} :
     /\ Range(t) = I
     /\ \A i, j \in DOMAIN t : i < j => t[i] < t[j]}

Continuable(w) ==
  LET all == AllMembers(plan[w].of)
  IN  pc[w] = "new" /\ ~shuttingDown /\ all # {} /\ \A r \in all : ~Busy(r)

\* Earlier attempts, also those whose results were deleted.
CleanFirst(w, S) ==
  cleanupRuns' = [cleanupRuns EXCEPT ![w] = S \cup UNION {previous[r] : r \in AllMembers(plan[w].of)}]

\* ResumeScenarioBatch: the runs after the last attempted iteration that never
\* started, under the same IDs.
Resume(w) ==
  LET b == plan[w].of
      I == {i \in Iterations(b) :
              /\ \A j \in Iterations(b) : Began(attempts[b][j]) => j < i
              /\ Saved(attempts[b][i]) \in {"canceled", "interrupted"}}
  IN  /\ plan[w].kind = "resume" /\ Continuable(w)
      /\ Len(attempts[b]) > 1 /\ HasFailure(b) /\ I # {}
      /\ \E t \in Order(I, Len(attempts[b])) :
           LET s == [k \in DOMAIN t |-> attempts[b][t[k]]]
           IN  /\ Enqueue(w, s, Len(attempts[b]))
               /\ Reserve(Range(s), [Queued EXCEPT !.cleanup = "pending", !.data = "pending"])
      /\ CleanFirst(w, {r \in AllMembers(b) : Began(r) /\ Saved(r) # "completed"})
      /\ UNCHANGED <<attempts, previous>>

\* RetryScenarioBatch: every iteration that is not completed, under a new ID (the
\* IDs of an item are drawn one per iteration).
Retry(w) ==
  LET b == plan[w].of
      fresh == plan[w].fresh
      I == {i \in Iterations(b) : Saved(attempts[b][i]) # "completed"}
  IN  /\ plan[w].kind = "retry" /\ Continuable(w)
      /\ I # {} /\ I \subseteq DOMAIN fresh
      /\ \E t \in Order(I, Len(attempts[b])) :
           LET s == [k \in DOMAIN t |-> fresh[t[k]]]
           IN  /\ Enqueue(w, s, Len(attempts[b]))
               /\ Reserve(Range(s), [Queued EXCEPT !.cleanup = "pending", !.data = "pending"])
      /\ attempts' = [attempts EXCEPT ![b] = [i \in DOMAIN @ |-> IF i \in I THEN fresh[i] ELSE @[i]]]
      /\ previous' = [r \in Run |-> UNION ({previous[r]} \cup
           {previous[attempts[b][i]] \cup {attempts[b][i]} : i \in {i \in I : fresh[i] = r}})]
      /\ CleanFirst(w, {r \in AllMembers(b) : Saved(r) # "completed"})

\* AppendScenarioBatch: more iterations of a batch that is complete.
AppendRuns(w) ==
  LET b == plan[w].of
      s == plan[w].fresh
  IN  /\ plan[w].kind = "append" /\ Continuable(w) /\ s # <<>>
      /\ \A i \in DOMAIN attempts[b] : i \in Iterations(b) /\ Saved(attempts[b][i]) = "completed"
      /\ Enqueue(w, s, Len(attempts[b]) + Len(s))
      /\ Reserve(Range(s), Queued)
      /\ attempts' = [attempts EXCEPT ![b] = @ \o s]
      /\ CleanFirst(w, AllMembers(b))
      /\ UNCHANGED previous

\* cancelWork: only the waiting item leaves the queue at once; the head keeps
\* its place until its worker has finished.  A single run that has entered
\* finalization is no longer cancelable.
Cancel(w) ==
  /\ Present(w) /\ ~canceled[w]
  /\ ~(pc[w] \in {"stop", "final"} /\ ~Repeated(w))
  /\ canceled' = [canceled EXCEPT ![w] = TRUE]
  /\ IF w \in Range(queue) /\ ~IsHead(w) THEN RemoveWork(w) ELSE UNCHANGED <<queue, opened>>
  /\ UNCHANGED <<pc, idx, closed, bad, head, records, barrier, live, control, batches, faults, forgotten>>

Shutdown ==
  /\ ~shuttingDown
  /\ shuttingDown' = TRUE
  /\ canceled' = [w \in Work |-> canceled[w] \/ Present(w)]
  /\ UNCHANGED <<queue, pc, opened, idx, closed, bad, head, records, barrier, live, restarts, batches,
                 faults, forgotten>>

\* The Controller restarts: memory is lost, files and Peers remain.
Restart ==
  /\ restarts < MaxRestarts
  /\ restarts' = restarts + 1
  /\ queue' = <<>> /\ opened' = {} /\ shuttingDown' = FALSE
  /\ pc' = [w \in Work |-> IF pc[w] = "new" THEN "new" ELSE "dead"]
  /\ mem' = [r \in Run |-> NoRun]
  /\ queueCleanup' = {}
  /\ scheduled' = {} /\ candidates' = {} /\ restored' = {} /\ ids' = {}
  /\ UNCHANGED <<canceled, idx, closed, bad, disk, deleted, markers, live, batches, faults, forgotten>>
-----------------------------------------------------------------------------
(***************************************************************************)
(* waitWork: the turn, and recoverWorkCleanup                              *)
(***************************************************************************)
\* cancelQueuedIterations, from the current iteration on.
CancelIterations(w) ==
  Update({runsOf[w][i] : i \in {i \in 1..Len(runsOf[w]) : i >= idx[w]}},
         [r \in Run |-> [mem[r] EXCEPT !.state = "canceled"]])

Leave(w) == pc' = [pc EXCEPT ![w] = "exit"] /\ CancelIterations(w)

Canceled(w) ==
  /\ pc[w] \in {"wait", "scan", "merge", "drain", "start"} /\ canceled[w]
  /\ Leave(w)
  /\ IF pc[w] = "wait" /\ w \in Range(queue) /\ ~IsHead(w) THEN RemoveWork(w)
     ELSE UNCHANGED <<queue, opened>>
  /\ UNCHANGED <<canceled, idx, closed, bad, head, deleted, barrier, live, control, batches, forgotten>>

\* The turn failed, or the storage of the next run did (waitRunStorage).
GiveUp(w) ==
  /\ \/ pc[w] = "leave"
     \/ pc[w] = "start" /\ runsOf[w] # <<>> /\ mem[Current(w)].state = "queued"
  /\ Leave(w)
  /\ UNCHANGED <<queue, opened, canceled, idx, closed, bad, head, deleted, barrier, live, control,
                 batches, forgotten>>

Ready(w) == w \in opened

\* The current and future submissions are excluded from recovery.
RecoverBegin(w) ==
  /\ pc[w] = "wait" /\ Ready(w) /\ ~canceled[w]
  /\ scheduled' = UNION {Members(v) : v \in Range(queue)}
  /\ pc' = [pc EXCEPT ![w] = "scan"]
  /\ UNCHANGED <<queue, canceled, opened, idx, closed, bad, candidates, restored, ids, records,
                 barrier, live, control, batches, faults, forgotten>>

\* Markers, the observed inventory, and the records in memory and on disk;
\* seen: the runs whose Peers Agents have reported.  Reading them may fail.
RecoverScan(w, seen) ==
  /\ pc[w] = "scan" /\ seen \subseteq live
  /\ restored' = {r \in Run \ scheduled : NeedsRecoveredCleanup(disk[r])}
  /\ candidates' = markers \cup (seen \ scheduled) \cup restored'
                   \cup {r \in Run \ scheduled : NeedsRecoveredCleanup(mem[r])}
  /\ \E read \in BOOLEAN :
       Writes(read) /\ pc' = [pc EXCEPT ![w] = IF read THEN "merge" ELSE "leave"]
  /\ UNCHANGED <<queue, canceled, opened, idx, closed, bad, scheduled, ids, records, barrier,
                 live, control, batches, forgotten>>

\* The head has nothing to drain (or no longer): next come the earlier attempts of
\* a continued batch, and the work itself.
Drained(w) == IF cleanupRuns[w] # {} THEN "retire" ELSE "start"

\* mergeRecoveredWorkCleanup, then the start of waitQueueCleanup.  If a marker
\* cannot be written, the barrier is up and the head gives up.
RecoverMerge(w) ==
  LET C == candidates \ scheduled
      back == {r \in C \cap restored : mem[r] = NoRun /\ r \notin deleted}
      interrupted(run) == IF run.state \in {"running", "queued"}
                          THEN [run EXCEPT !.state = "interrupted"] ELSE run
  IN  /\ pc[w] = "merge"
      /\ mem' = [r \in Run |-> IF r \in back THEN interrupted(disk[r]) ELSE mem[r]]
      /\ queueCleanup' = queueCleanup \cup C
      /\ ids' = queueCleanup'
      /\ \E S \in SUBSET queueCleanup' :
           /\ markers' = markers \cup S
           /\ Writes(queueCleanup' \subseteq markers')
           /\ pc' = [pc EXCEPT ![w] = IF ~(queueCleanup' \subseteq markers') THEN "leave"
                                      ELSE IF queueCleanup' = {} THEN Drained(w) ELSE "drain"]
      /\ UNCHANGED <<queue, canceled, opened, idx, closed, bad, scheduled, candidates, restored,
                     disk, deleted, live, control, batches, forgotten>>
-----------------------------------------------------------------------------
(***************************************************************************)
(* waitQueueCleanup                                                        *)
(***************************************************************************)
\* cleanupBeforeResume failed after it had cleaned some of the runs.
DrainFails(w, S) ==
  /\ pc[w] = "drain" /\ S \subseteq ids /\ S # ids
  /\ live' = live \ S
  /\ UNCHANGED <<queue, workers, head, records, barrier, control, batches, faults, forgotten>>

DrainConfirmed(w) ==
  /\ pc[w] = "drain"
  /\ live' = live \ ids
  /\ pc' = [pc EXCEPT ![w] = "seal"]
  /\ UNCHANGED <<queue, canceled, opened, idx, closed, bad, head, records, barrier, control, batches,
                 faults, forgotten>>

Seal(w) ==
  /\ pc[w] = "seal"
  /\ Update(ids, [r \in Run |-> [mem[r] EXCEPT !.cleanup = "complete",
                                          !.data = IF @ = "collecting" THEN "complete" ELSE @]])
  /\ pc' = [pc EXCEPT ![w] = "clear"]
  /\ UNCHANGED <<queue, canceled, opened, idx, closed, bad, head, deleted, barrier, live, control, batches,
                 forgotten>>

\* completeQueueCleanup, and another round for what was added meanwhile.
Clear(w) ==
  /\ pc[w] = "clear"
  /\ markers' = markers \ ids /\ queueCleanup' = queueCleanup \ ids
  /\ ids' = queueCleanup'
  /\ pc' = [pc EXCEPT ![w] = IF queueCleanup' = {} THEN Drained(w) ELSE "drain"]
  /\ UNCHANGED <<queue, canceled, opened, idx, closed, bad, scheduled, candidates, restored,
                 records, live, control, batches, faults, forgotten>>

\* A marker cannot be removed: the head gives up and the barrier stays.
ClearFails(w, S) ==
  /\ pc[w] = "clear" /\ S \subseteq ids
  /\ markers' = markers \ S
  /\ Writes(FALSE)
  /\ pc' = [pc EXCEPT ![w] = "leave"]
  /\ UNCHANGED <<queue, canceled, opened, idx, closed, bad, head, records, queueCleanup, live,
                 control, batches, forgotten>>
-----------------------------------------------------------------------------
(***************************************************************************)
(* runRepeatedScenarios and runScenario                                    *)
(***************************************************************************)
\* cleanupBeforeResume of the earlier attempts of a continued batch.
Retire(w) ==
  /\ pc[w] = "retire"
  /\ live' = live \ cleanupRuns[w]
  /\ pc' = [pc EXCEPT ![w] = "start"]
  /\ UNCHANGED <<queue, canceled, opened, idx, closed, bad, head, records, barrier, control, batches,
                 faults, forgotten>>

\* It failed, or the work was canceled meanwhile: the attempts become a barrier.
RetireFails(w, S) ==
  /\ pc[w] = "retire" /\ S \subseteq cleanupRuns[w]
  /\ live' = live \ S
  /\ queueCleanup' = queueCleanup \cup cleanupRuns[w]
  /\ Update(Members(w), [r \in Run |-> [mem[r] EXCEPT !.cleanup = "failed", !.data = "unverified"]])
  /\ pc' = [pc EXCEPT ![w] = "leave"]
  /\ UNCHANGED <<queue, canceled, opened, idx, closed, bad, head, deleted, markers, control, batches,
                 forgotten>>

StartWork(w) ==
  /\ pc[w] = "start" /\ ~canceled[w]
  /\ pc' = [pc EXCEPT ![w] = IF runsOf[w] = <<>> THEN "analyze" ELSE "phases"]
  /\ IF runsOf[w] = <<>> THEN UNCHANGED <<mem, disk, faults>>
     ELSE Update({Current(w)}, [r \in Run |->
            [mem[r] EXCEPT !.state = "running", !.started = TRUE, !.cleanup = "pending", !.data = "collecting"]])
  /\ closed' = [closed EXCEPT ![w] = FALSE]
  /\ UNCHANGED <<queue, canceled, opened, idx, bad, head, deleted, barrier, live, control, batches, forgotten>>

Analyzed(w) ==
  /\ pc[w] = "analyze"
  /\ pc' = [pc EXCEPT ![w] = "exit"]
  /\ UNCHANGED <<queue, canceled, opened, idx, closed, bad, head, records, barrier, live, control, batches,
                 faults, forgotten>>

\* Mutant: the Agents of a run are recorded in memory alone.
RememberInMemory(r) ==
  /\ mem' = [mem EXCEPT ![r].agents = TRUE]
  /\ UNCHANGED disk

\* rememberRunAgent: no Peer is created before the manifest that names its Agent is
\* on disk.
Remember(r) ==
  IF mem[r].agents THEN UNCHANGED <<mem, disk>>
  ELSE /\ mem' = [mem EXCEPT ![r].agents = TRUE]
       /\ disk' = [disk EXCEPT ![r] = mem'[r]]

\* A join phase.
CreatePeers(w) ==
  /\ pc[w] = "phases" /\ ~canceled[w] /\ Current(w) \notin live
  /\ Remember(Current(w))
  /\ live' = live \cup {Current(w)}
  /\ closed' = [closed EXCEPT ![w] = FALSE]
  /\ UNCHANGED <<queue, pc, canceled, opened, idx, bad, head, deleted, barrier, control, batches, faults,
                 forgotten>>

\* A stop-all phase that succeeded.
StopAllPhase(w) ==
  /\ pc[w] = "phases" /\ Current(w) \in live
  /\ live' = live \ {Current(w)}
  /\ closed' = [closed EXCEPT ![w] = TRUE]
  /\ UNCHANGED <<queue, pc, canceled, opened, idx, bad, head, records, barrier, control, batches, faults,
                 forgotten>>

\* The phases end; the cancellation handle is retired.  Repeated, canceled and
\* failed runs also remove their Peers.
EndPhases(w, failed) ==
  LET b == failed \/ canceled[w]
  IN  /\ pc[w] = "phases"
      /\ bad' = [bad EXCEPT ![w] = b]
      /\ pc' = [pc EXCEPT ![w] = IF b \/ Repeated(w) THEN "stop" ELSE "final"]
      /\ IF b \/ Repeated(w)
         THEN Update({Current(w)}, [r \in Run |-> [mem[r] EXCEPT !.cleanup = "running"]])
         ELSE UNCHANGED <<mem, disk, faults>>
      /\ UNCHANGED <<queue, canceled, opened, idx, closed, head, deleted, barrier, live, control, batches,
                     forgotten>>

\* The final record: confirmed, if stopRunGeneration and the refresh succeeded,
\* drained, if the Agents delivered their telemetry and the files were flushed.
\* A repeated run is written twice; only if the second write succeeds (persisted)
\* does the next iteration begin.
Finish(w, confirmed, drained) ==
  LET r == Current(w)
      ok == confirmed /\ drained /\ ~bad[w]
      retained == ok /\ ~Repeated(w) /\ ~closed[w] /\ mem[r].agents
      rest == {runsOf[w][i] : i \in {i \in 1..Len(runsOf[w]) : i > idx[w]}}
      final(run) == [run EXCEPT
        !.state = IF ok THEN "completed" ELSE IF canceled[w] THEN "canceled" ELSE "failed",
        !.cleanup = IF ~confirmed THEN "failed" ELSE IF retained THEN "retained" ELSE "complete",
        !.data = IF retained THEN "collecting" ELSE IF confirmed /\ drained THEN "complete" ELSE "incomplete"]
      drop(run) == [run EXCEPT !.state = "canceled"]
  IN  \E persisted \in BOOLEAN, W \in SUBSET (rest \cup {r}) :
        LET next == ok /\ persisted /\ idx[w] < Len(runsOf[w])
            done == IF Repeated(w) /\ ~persisted THEN [final(mem[r]) EXCEPT !.state = "failed"] ELSE final(mem[r])
        IN  /\ persisted => r \in W
            /\ next => W = {r}
            /\ Writes(persisted /\ (next \/ rest \subseteq W))
            /\ mem' = [k \in Run |-> IF k = r THEN done
                                     ELSE IF ~next /\ k \in rest THEN drop(mem[k]) ELSE mem[k]]
            /\ disk' = [k \in Run |-> IF k \notin W THEN disk[k] ELSE IF k = r THEN final(mem[k]) ELSE drop(mem[k])]
            /\ pc' = [pc EXCEPT ![w] = IF next THEN "start" ELSE "exit"]
            /\ idx' = [idx EXCEPT ![w] = IF next THEN @ + 1 ELSE @]

StopPeers(w, confirmed, drained) ==
  /\ pc[w] = "stop"
  /\ live' = IF confirmed THEN live \ {Current(w)} ELSE live
  /\ Finish(w, confirmed, drained)
  /\ UNCHANGED <<queue, canceled, opened, closed, bad, head, deleted, barrier, control, batches, forgotten>>

\* A single run without an error keeps its Peers.  The decision to keep them
\* precedes the flush of its files: if only that fails, the run is recorded as
\* failed with its cleanup complete, and its Peers are forgotten.
EndSingle(w, drained) ==
  /\ pc[w] = "final"
  /\ Finish(w, TRUE, drained)
  /\ forgotten' = IF drained THEN forgotten ELSE forgotten \cup ({Current(w)} \cap live)
  /\ UNCHANGED <<queue, canceled, opened, closed, bad, head, deleted, barrier, live, control, batches>>

\* Runs that were started and are not known to be clean.
Obligations(w) == {r \in Members(w) : mem[r].started /\ mem[r].cleanup \notin {"", "complete"}}

\* The deferred end of the worker: obligations, their markers as far as they can
\* be written, and the slot.
Exit(w) ==
  /\ pc[w] = "exit"
  /\ queueCleanup' = queueCleanup \cup Obligations(w)
  /\ \E S \in SUBSET queueCleanup' :
       markers' = markers \cup S /\ Writes(queueCleanup' \subseteq markers')
  /\ IF w \in Range(queue) THEN RemoveWork(w) ELSE UNCHANGED <<queue, opened>>
  /\ pc' = [pc EXCEPT ![w] = "done"]
  /\ UNCHANGED <<canceled, idx, closed, bad, head, records, live, control, batches, forgotten>>
-----------------------------------------------------------------------------
(***************************************************************************)
(* deleteSavedResultLocked                                                 *)
(***************************************************************************)
\* retainWorkCleanupBeforeDelete
Pending(r, seen) ==
  r \in queueCleanup \/ NeedsRecoveredCleanup(mem[r]) \/ r \in seen \/ NeedsRecoveredCleanup(disk[r])

\* The result is deleted only after its marker is on disk.
Delete(r, seen) ==
  /\ seen \subseteq live
  /\ disk[r] # NoRun /\ ~Busy(r)
  /\ IF Pending(r, seen)
     THEN markers' = markers \cup {r} /\ queueCleanup' = queueCleanup \cup {r}
     ELSE UNCHANGED barrier
  /\ deleted' = deleted \cup {r}
  /\ mem' = [mem EXCEPT ![r] = NoRun] /\ disk' = [disk EXCEPT ![r] = NoRun]
  /\ UNCHANGED <<queue, workers, head, live, control, batches, faults, forgotten>>
-----------------------------------------------------------------------------
Admit(w) == Submit(w) \/ Resume(w) \/ Retry(w) \/ AppendRuns(w)

Step(w) ==
  \/ Canceled(w) \/ GiveUp(w)
  \/ RecoverBegin(w) \/ (\E seen \in SUBSET Run : RecoverScan(w, seen)) \/ RecoverMerge(w)
  \/ DrainConfirmed(w) \/ Seal(w) \/ Clear(w)
  \/ Retire(w) \/ (\E S \in SUBSET Run : RetireFails(w, S))
  \/ StartWork(w) \/ Analyzed(w) \/ (\E failed \in BOOLEAN : EndPhases(w, failed))
  \/ (\E confirmed, drained \in BOOLEAN : StopPeers(w, confirmed, drained))
  \/ (\E drained \in BOOLEAN : EndSingle(w, drained)) \/ Exit(w)

Next ==
  \/ \E w \in Work :
       \/ Admit(w) \/ Cancel(w) \/ Step(w) \/ CreatePeers(w) \/ StopAllPhase(w)
       \/ \E S \in SUBSET Run : DrainFails(w, S) \/ ClearFails(w, S)
  \/ \E r \in Run, seen \in SUBSET Run : Delete(r, seen)
  \/ Shutdown \/ Restart

Spec == Init /\ [][Next]_vars

\* Workers proceed, and Agents that hold Peers of earlier runs answer eventually.
FairSpec == Spec /\ \A w \in Work : WF_vars(Step(w))
-----------------------------------------------------------------------------
\* Queue, barrier and records have their types.
TypeOK ==
  /\ IsInjective(queue) /\ Range(queue) \subseteq Work
  /\ markers \subseteq Run /\ queueCleanup \subseteq Run /\ live \subseteq Run
  /\ opened \subseteq Work /\ idx \in [Work -> Nat]

\* "Retained Peers and failed removal barriers must be resolved before CPU, disk
\* or network intensive analysis starts" (work_queue.go:162) and "no in-flight
\* creation can ... overlap the next iteration" (runner.go:392): while a head
\* works, no Peer of any other run exists on any Agent, also after deletions and
\* Controller restarts.  The exception is a run whose result could not be
\* recorded, which EndSingle forgets.
Isolation ==
  \A w \in Work :
    /\ pc[w] = "analyze" => live \subseteq forgotten
    /\ pc[w] = "phases" => live \subseteq forgotten \cup {Current(w)}

\* "Ownership records survive result deletion" (experiment_queue.go:41), "Recover
\* cleanup from retained local manifests" (work_queue_recovery.go:25): a run with
\* Peers on the Agents is recorded on disk as one to clean up, by its manifest or
\* a marker, at every moment at which the Controller could crash, with the same
\* exception.
CleanupRemembered ==
  \A r \in live \ forgotten : r \in markers \/ NeedsRecoveredCleanup(disk[r])

\* "Repeated, canceled, or failed runs also fence and remove Peers after producers
\* stop" (runner.go:390): a failed run whose cleanup is recorded as complete has no
\* Peers on the Agents.
FailedRunsRemovePeers ==
  \A r \in live : ~(mem[r].state = "failed" /\ mem[r].cleanup = "complete")

\* "Only the head of the queue enters this method" (experiment_queue.go:40): of
\* all workers only the head's is past its turn.
OneWorker ==
  \A w \in Work : pc[w] \notin {"new", "wait", "exit", "done", "dead"} => IsHead(w)

\* Every accepted item ends (or its Controller restarted), whatever is canceled,
\* fails, or waits for a cleanup: the queue does not stall.
EveryWorkEnds ==
  \A w \in Work : (pc[w] = "wait") ~> (pc[w] \in {"done", "dead"})

\* "saved result is still active, queued, finalizing, or being downloaded"
\* (errResultBusy, results.go:31, returned at resume.go:171): no run is in the hands
\* of two items of work, although a resumed batch queues IDs that it queued before,
\* and although an item keeps its runs until its worker has left.
OwnRuns ==
  \A v, w \in Work : v # w /\ Present(v) /\ Present(w) => Members(v) \cap Members(w) = {}

\* The queue is well formed, only its head works, on runs of its own, and alone.
QueueIsolates == TypeOK /\ OneWorker /\ OwnRuns /\ Isolation
=============================================================================
