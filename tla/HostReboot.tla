----------------------------- MODULE HostReboot -----------------------------
(***************************************************************************)
(* Rebooting the Linux host of an Agent: an irreversible command that must *)
(* be issued at most once per boot, across restarts of the Controller, the *)
(* Agent and the host (internal/controller/host_reboot*.go,                *)
(* host_availability.go, handleAgentEnabled; internal/agent/               *)
(* host_reboot*.go).                                                       *)
(*                                                                         *)
(* One host, one Agent on it, several operations.  Start times of Agent    *)
(* instances and boot identities are counters.  Requests may be delivered  *)
(* late or twice, replies may be lost.  Authentication is abstracted: all  *)
(* messages are genuine.                                                   *)
(***************************************************************************)
EXTENDS Naturals, Sequences, FiniteSets

CONSTANTS Op,
  MaxBoots, MaxStarts, MaxRestarts,  \* bounds: boots, Agent starts, Controller restarts
  HoldSyncFails   \* writing the hold may fail after its rename

ASSUME HostRebootConstants ==
  {MaxBoots, MaxStarts, MaxRestarts} \subseteq Nat /\ HoldSyncFails \in BOOLEAN

VARIABLES
  boot,        \* the boot of the host
  attempts,    \* (operation, boot) of every reboot helper that was started
  agent,       \* started, pending, and the request being served
  receipt, receiptDisk, \* hostRebootReceipt: in memory, on disk
  rejections,  \* durable rejections
  report, seen,         \* a heartbeat under way, and the Controller's inventory
  net, replies,         \* requests, and the Agent's answers
  pc, canceled,         \* the worker of each operation
  status, saved,        \* hostRebootStatus: in memory, on disk
  hold, holdDisk,       \* hostDisabled: in memory, on disk
  fence,                \* hostRebootFences: a success is durable, a failure changes nothing
  enable,               \* handleAgentEnabled in progress
  writesFail,           \* writing an outcome may fail
  restarts

agentVars == <<agent, receipt, receiptDisk, rejections>>
ctlVars == <<pc, canceled, status, saved, hold, holdDisk, fence, enable, writesFail, restarts>>
wire == <<report, seen, net, replies>>
vars == <<boot, attempts, agentVars, wire, ctlVars>>

None == [none |-> TRUE]
NewStatus == [op |-> "none", host |-> "queued", boot |-> 0, started |-> 0]
Request(o) == [op |-> o, boot |-> status[o].boot, started |-> status[o].started]

\* What a heartbeat and a host proof say of the Agent.
HostState == [boot |-> boot, started |-> agent.started, pending |-> agent.pending]

\* The inventory of a Controller that has just started.
Unregistered == [boot |-> 0, started |-> 0, pending |-> TRUE]

\* An operation that is done at first is never submitted.
Init ==
  /\ boot = 1 /\ attempts = <<>>
  /\ agent = [started |-> 1, pending |-> FALSE, pc |-> "idle", request |-> None]
  /\ receipt = None /\ receiptDisk = None /\ rejections = {}
  /\ report = HostState /\ seen = HostState /\ net = {} /\ replies = {}
  /\ pc \in [Op -> {"new", "done"}] /\ writesFail \in BOOLEAN /\ canceled = [o \in Op |-> FALSE]
  /\ status = [o \in Op |-> NewStatus] /\ saved = [o \in Op |-> NewStatus]
  /\ hold = FALSE /\ holdDisk = FALSE /\ fence = None /\ enable = None /\ restarts = 0
-----------------------------------------------------------------------------
(***************************************************************************)
(* The Agent.  hostRebootMu admits one request at a time.                  *)
(***************************************************************************)
AgentUnchanged == UNCHANGED <<boot, report, seen, net, ctlVars>>

\* unknownRejection: unresolved, and pending until the Agent restarts.
Unresolved(r) ==
  /\ agent' = [agent EXCEPT !.pc = "idle", !.request = None, !.pending = TRUE]
  /\ replies' = replies \cup {[op |-> r.op, state |-> "unknown"]}

\* reject: durable before it is told; a write that fails may have happened.
\* pending is what the deferred rollback leaves.
Reject(r, pending) ==
  \/ /\ rejections' = rejections \cup {r}
     /\ agent' = [agent EXCEPT !.pc = "idle", !.request = None, !.pending = pending]
     /\ replies' = replies \cup {[op |-> r.op, state |-> "rejected"]}
  \/ rejections' \in {rejections, rejections \cup {r}} /\ Unresolved(r)

HasReceipt == receipt # None /\ receipt.request.boot = boot

OtherReceipt(r) == HasReceipt /\ receipt.request # r

\* handleHostReboot and rebootHost up to the closing of admission.  A request
\* for another boot or instance gets no authenticated answer.
Receive(r) ==
  /\ agent.pc = "idle" /\ r \in net
  /\ r.boot = boot /\ r.started = agent.started
  /\ \/ /\ r \in rejections
        /\ replies' = replies \cup {[op |-> r.op, state |-> "rejected"]}
        /\ UNCHANGED <<agent, rejections>>
     \/ /\ r \notin rejections /\ HasReceipt /\ receipt.request = r
        /\ replies' = replies \cup {[op |-> r.op, state |-> receipt.state]}
        /\ UNCHANGED <<agent, rejections>>
     \/ Unresolved(r) /\ UNCHANGED rejections  \* the rejections cannot be read
     \/ r \notin rejections /\ OtherReceipt(r) /\ Reject(r, agent.pending)
     \/ /\ r \notin rejections /\ ~OtherReceipt(r) /\ ~(HasReceipt /\ receipt.request = r)
        /\ Reject(r, agent.pending)  \* pending, shutting down, or Peers are left
     \/ /\ r \notin rejections /\ ~OtherReceipt(r) /\ ~(HasReceipt /\ receipt.request = r)
        /\ ~agent.pending
        /\ agent' = [agent EXCEPT !.pc = "prepare", !.request = r, !.pending = TRUE]
        /\ UNCHANGED <<rejections, replies>>
  /\ UNCHANGED <<attempts, receipt, receiptDisk>> /\ AgentUnchanged

\* Peers, telemetry, or the preflight of the host speak against it.
Refuse ==
  /\ agent.pc = "prepare"
  /\ Reject(agent.request, FALSE)
  /\ UNCHANGED <<attempts, receipt, receiptDisk>> /\ AgentUnchanged

\* The receipt is persisted before the helper is started.
Commit ==
  LET new == [request |-> agent.request, state |-> "unknown"]
  IN  /\ agent.pc = "prepare"
      /\ \/ /\ receipt' = new /\ receiptDisk' = new
            /\ agent' = [agent EXCEPT !.pc = "committed"]
            /\ UNCHANGED <<rejections, replies>>
         \/ /\ receiptDisk' \in {receiptDisk, new} /\ UNCHANGED receipt
            /\ Reject(agent.request, FALSE)
      /\ UNCHANGED attempts /\ AgentUnchanged

\* The helper is started; whether it worked is known or not.
StartHelper(state) ==
  LET new == [receipt EXCEPT !.state = state]
  IN  /\ agent.pc = "committed"
      /\ attempts' = Append(attempts, [op |-> agent.request.op, boot |-> boot])
      /\ \/ receiptDisk' = new /\ receipt' = new
         \/ receiptDisk' \in {receiptDisk, new} /\ UNCHANGED receipt
      /\ agent' = [agent EXCEPT !.pc = "idle", !.request = None]
      /\ replies' = replies \cup {[op |-> agent.request.op, state |-> receipt'.state]}
      /\ UNCHANGED rejections /\ AgentUnchanged

\* initializeHostReboot: a receipt of this boot keeps the Agent closed, unless a
\* durable rejection of the same request says that no helper was started.
Initialize(b) ==
  LET rejected == /\ receiptDisk # None /\ receiptDisk.request.boot = b /\ receiptDisk.state = "unknown"
                  /\ receiptDisk.request \in rejections
      kept == IF rejected THEN None ELSE receiptDisk
  IN  /\ receipt' = kept
      /\ agent' = [started |-> agent.started + 1, pc |-> "idle", request |-> None,
                   pending |-> kept # None /\ kept.request.boot = b]
      /\ UNCHANGED <<attempts, receiptDisk, rejections, wire, ctlVars>>

RestartAgent == agent.started < MaxStarts /\ Initialize(boot) /\ UNCHANGED boot

\* The host boots: because of a helper, or by itself.
BootHost ==
  /\ boot < MaxBoots /\ agent.started < MaxStarts
  /\ boot' = boot + 1 /\ Initialize(boot + 1)
-----------------------------------------------------------------------------
(***************************************************************************)
(* The Controller                                                          *)
(***************************************************************************)
Send == report' = HostState /\ report' # report
        /\ UNCHANGED <<boot, attempts, agentVars, seen, net, replies, ctlVars>>

\* A report of an older instance is not accepted.
Observe ==
  /\ seen' = report /\ report.started >= seen.started /\ seen # report
  /\ UNCHANGED <<boot, attempts, agentVars, report, net, replies, ctlVars>>

CtlUnchanged == UNCHANGED <<boot, attempts, agentVars, report, seen, replies, writesFail, restarts>>

\* updateHostReboot: memory first, then the disk.  A write that fails may have
\* happened.
Set(o, new) == status' = [status EXCEPT ![o] = new] /\ saved' = [saved EXCEPT ![o] = new]
SetFails(o, new) ==
  /\ writesFail
  /\ status' = [status EXCEPT ![o] = new]
  /\ saved' \in {saved, [saved EXCEPT ![o] = new]}
Go(o, to) == pc' = [pc EXCEPT ![o] = to]
Host(o, state) == [status[o] EXCEPT !.host = state]

\* hostHasNewBoot, proofShowsNewBoot.  An Agent that reports has reconciled.
NewBoot(h, f) == ~h.pending /\ h.boot # f.boot /\ h.started > f.started

\* cancelMu is held by handleAgentEnabled.
EnableLocked == enable # None /\ enable.agent # None

\* currentRebootAgent
CurrentAgent(target) ==
  /\ fence # None => NewBoot(seen, fence)
  /\ ~seen.pending /\ seen.boot = target.boot /\ seen.started = target.started

Submit(o) ==
  LET new == [op |-> "queued", host |-> "queued", boot |-> seen.boot, started |-> seen.started]
  IN  /\ pc[o] = "new" /\ ~EnableLocked
      /\ CurrentAgent(new)
      /\ Set(o, new) /\ Go(o, "queued")
      /\ UNCHANGED <<net, canceled, hold, holdDisk, fence, enable>> /\ CtlUnchanged

Cancel(o) ==
  /\ pc[o] \notin {"new", "done"} /\ ~canceled[o]
  /\ canceled' = [canceled EXCEPT ![o] = TRUE]
  /\ UNCHANGED <<net, pc, status, saved, hold, holdDisk, fence, enable>> /\ CtlUnchanged

Active == {o \in Op : pc[o] \notin {"new", "queued", "done"}}

\* The head of the work queue claims its host, and holds it.
Begin(o) ==
  /\ pc[o] = "queued" /\ Active = {} /\ ~EnableLocked /\ ~canceled[o]
  /\ \/ Set(o, [status[o] EXCEPT !.op = "running"]) /\ Go(o, "hold")
     \/ SetFails(o, [status[o] EXCEPT !.op = "running"]) /\ Go(o, "failed")
  /\ UNCHANGED <<net, canceled, hold, holdDisk, fence, enable>> /\ CtlUnchanged

\* setHostDisabled: nothing is written when memory already has the value.
SetHostDisabled(value) ==
  \/ hold = value /\ UNCHANGED <<hold, holdDisk>>
  \/ hold # value /\ hold' = value /\ holdDisk' = value
  \/ hold # value /\ HoldSyncFails /\ holdDisk' = value /\ UNCHANGED hold
  \/ hold # value /\ UNCHANGED <<hold, holdDisk>>

Hold(o) ==
  /\ pc[o] = "hold"
  /\ SetHostDisabled(TRUE) /\ Go(o, IF hold' THEN "check" ELSE "failed")
  /\ UNCHANGED <<net, canceled, status, saved, fence, enable>> /\ CtlUnchanged

\* The inventory and a fresh proof of the Agent match the target.
Check(o) ==
  /\ pc[o] = "check" /\ ~canceled[o]
  /\ \/ /\ CurrentAgent(status[o])
        /\ HostState = [boot |-> status[o].boot, started |-> status[o].started, pending |-> FALSE]
        /\ Go(o, "mark") /\ UNCHANGED <<status, saved>>
     \/ Go(o, "confirm") /\ Set(o, Host(o, "rejected"))  \* also when the proof is unavailable
     \/ Go(o, "failed") /\ SetFails(o, Host(o, "rejected"))
  /\ UNCHANGED <<net, canceled, hold, holdDisk, fence, enable>> /\ CtlUnchanged

\* Mutant: the possible dispatch is not persisted.
MarkInMemory(o) ==
  /\ pc[o] = "mark"
  /\ status' = [status EXCEPT ![o] = Host(o, "checking")] /\ UNCHANGED saved /\ Go(o, "fence")
  /\ UNCHANGED <<net, canceled, hold, holdDisk, fence, enable>> /\ CtlUnchanged

\* Possible dispatch is persisted before the call.
Mark(o) ==
  /\ pc[o] = "mark"
  /\ \/ Set(o, Host(o, "checking")) /\ Go(o, "fence")
     \/ SetFails(o, Host(o, "checking")) /\ Go(o, "failed")
  /\ UNCHANGED <<net, canceled, hold, holdDisk, fence, enable>> /\ CtlUnchanged

SetFence(o) ==
  /\ pc[o] = "fence"
  /\ \/ /\ ~canceled[o]
        /\ fence' = [op |-> o, boot |-> status[o].boot, started |-> status[o].started]
        /\ Go(o, "send") /\ UNCHANGED <<status, saved>>
     \/ (Set(o, Host(o, "rejected")) \/ SetFails(o, Host(o, "rejected"))) /\ Go(o, "failed") /\ UNCHANGED fence
  /\ UNCHANGED <<net, canceled, hold, holdDisk, enable>> /\ CtlUnchanged

\* One attempt only, unless the operation was canceled before.
Dispatch(o) ==
  /\ pc[o] = "send"
  /\ IF canceled[o]
     THEN (Set(o, Host(o, "rejected")) \/ SetFails(o, Host(o, "rejected"))) /\ fence' \in {fence, None} /\ Go(o, "failed") /\ UNCHANGED net
     ELSE net' = net \cup {Request(o)} /\ Go(o, "sent") /\ UNCHANGED <<status, saved, fence>>
  /\ UNCHANGED <<canceled, hold, holdDisk, enable>> /\ CtlUnchanged

\* A timeout, a cancellation, or an invalid answer.
NoAnswer(o) ==
  /\ pc[o] = "sent"
  /\ \/ Set(o, Host(o, "unknown")) /\ Go(o, "confirm")
     \/ SetFails(o, Host(o, "unknown")) /\ Go(o, "failed")
  /\ UNCHANGED <<net, canceled, hold, holdDisk, fence, enable>> /\ CtlUnchanged

\* The fence goes only with a rejection that was saved.  A removal that fails
\* leaves what a failing write that happened leaves: the second case.
Answer(o, state) ==
  /\ pc[o] = "sent" /\ [op |-> o, state |-> state] \in replies
  /\ \/ Set(o, Host(o, state)) /\ Go(o, "confirm")
        /\ fence' = IF state = "rejected" THEN None ELSE fence
     \/ SetFails(o, Host(o, state)) /\ Go(o, "failed") /\ UNCHANGED fence
  /\ UNCHANGED <<net, canceled, hold, holdDisk, enable>> /\ CtlUnchanged

\* confirmHostReboots: a fresh proof of a new boot, by an Agent the inventory knows.
Confirm(o) ==
  /\ pc[o] = "confirm" /\ status[o].host \in {"requested", "unknown"}
  /\ seen.started > status[o].started /\ seen.boot # status[o].boot
  /\ seen.started = agent.started /\ NewBoot(HostState, status[o])
  /\ \/ Set(o, Host(o, "rebooted")) /\ UNCHANGED pc
     \/ SetFails(o, Host(o, "rebooted")) /\ Go(o, "failed")
  /\ UNCHANGED <<net, canceled, hold, holdDisk, fence, enable>> /\ CtlUnchanged

\* The end of runHostReboot; it may also come from a failed write or a timeout.
End(o) ==
  LET h == status[o].host
      failedHost == IF h = "queued" THEN "rejected" ELSE IF h = "checking" THEN "unknown" ELSE h
      new == IF pc[o] = "confirm" /\ h = "rebooted" THEN [status[o] EXCEPT !.op = "completed"]
             ELSE [status[o] EXCEPT !.op = IF canceled[o] THEN "interrupted" ELSE "failed", !.host = failedHost]
  IN  /\ \/ pc[o] \in {"failed", "confirm", "hold"}
         \/ pc[o] \in {"queued", "check"} /\ canceled[o]
      /\ Set(o, new) \/ SetFails(o, new)
      /\ Go(o, "done")
      /\ UNCHANGED <<net, canceled, hold, holdDisk, fence, enable>> /\ CtlUnchanged

\* Interrupted operations are observable, never replayed.
RestartController ==
  LET load(s) == IF s.op \notin {"queued", "running"} THEN s
                 ELSE [s EXCEPT !.op = "interrupted",
                                !.host = IF @ = "checking" THEN "unknown" ELSE IF @ = "queued" THEN "rejected" ELSE @]
  IN  /\ restarts < MaxRestarts
      /\ restarts' = restarts + 1
      /\ status' = [o \in Op |-> load(saved[o])]
      /\ pc' = [o \in Op |-> IF pc[o] = "new" THEN "new" ELSE "done"]
      /\ enable' = None
      /\ seen' = Unregistered /\ hold' = holdDisk
      /\ UNCHANGED <<boot, attempts, agentVars, report, net, replies, canceled, saved, holdDisk, fence, writesFail>>

\* handleAgentEnabled: a proof is requested without a lock, if there is a fence;
EnableBegin ==
  /\ enable = None
  /\ \E proof \in {None} \cup {h \in {HostState} : fence # None /\ seen.started = agent.started} :
       enable' = [proof |-> proof, agent |-> None]
  /\ UNCHANGED <<net, pc, canceled, status, saved, hold, holdDisk, fence>> /\ CtlUnchanged

\* releaseConfirmedHostRebootFence: a proof of this instance shows a new boot, or
\* a recorded rejection says that nothing was dispatched.
Releasable ==
  fence # None =>
    \/ enable.proof # None /\ enable.proof.started = seen.started /\ NewBoot(enable.proof, fence)
    \/ status[fence.op].host = "rejected" /\ status[fence.op].boot = fence.boot

\* then, under cancelMu, the fence is released,
EnableRelease ==
  /\ enable # None /\ enable.agent = None
  /\ \/ /\ Active = {} /\ ~seen.pending /\ Releasable
        /\ fence' = None /\ enable' = [enable EXCEPT !.agent = seen]
     \/ enable' = None /\ UNCHANGED fence  \* refused, or not saved
  /\ UNCHANGED <<net, pc, canceled, status, saved, hold, holdDisk>> /\ CtlUnchanged

\* and the hold, if the Agent is still the one that was verified.
EnableComplete ==
  /\ enable # None /\ enable.agent # None
  /\ IF enable.agent.started = seen.started /\ ~seen.pending
     THEN SetHostDisabled(FALSE) ELSE UNCHANGED <<hold, holdDisk>>
  /\ enable' = None
  /\ UNCHANGED <<net, pc, canceled, status, saved, fence>> /\ CtlUnchanged
-----------------------------------------------------------------------------
AgentNext ==
  \/ \E r \in net : Receive(r)
  \/ Refuse \/ Commit \/ (\E s \in {"requested", "unknown"} : StartHelper(s))
  \/ RestartAgent \/ BootHost

ControllerNext ==
  \/ Send \/ Observe \/ RestartController \/ EnableBegin \/ EnableRelease \/ EnableComplete
  \/ \E o \in Op :
       \/ Submit(o) \/ Cancel(o) \/ Begin(o) \/ Hold(o) \/ Check(o) \/ Mark(o) \/ SetFence(o) \/ Dispatch(o)
       \/ NoAnswer(o) \/ (\E s \in {"requested", "unknown", "rejected"} : Answer(o, s)) \/ Confirm(o) \/ End(o)

Next == AgentNext \/ ControllerNext

Spec == Init /\ [][Next]_vars
-----------------------------------------------------------------------------
\* Outcomes, workers and the Agent have their types.
TypeOK ==
  /\ \A o \in Op : status[o].host \in {"queued", "checking", "requested", "unknown", "rejected", "rebooted"}
  /\ \A o \in Op : status[o].op \in {"none", "queued", "running", "completed", "failed", "interrupted"}
  /\ agent.pc \in {"idle", "prepare", "committed"} /\ agent.pending \in BOOLEAN

\* "A crash can therefore leave an unknown operation, but can never silently
\* authorize its replay" (agent/host_reboot_storage.go:59): on one boot of the host
\* at most one reboot helper is ever started, by whatever operations, copies of
\* requests and restarts.
OneHelperPerBoot ==
  \A i, k \in DOMAIN attempts : attempts[i].boot = attempts[k].boot => i = k

\* A request the Agent, as it is now, would act on.
Acceptable(r) ==
  r.boot = boot /\ r.started = agent.started /\ r \notin rejections /\ ~HasReceipt /\ ~agent.pending

\* "A durable explicit rejection proves no reboot was dispatched"
\* (host_reboot_fences.go:121): an operation that the Controller reports as rejected
\* has started no helper and no copy of its request still can; one reported as
\* rebooted was on an earlier boot.
OutcomeIsTrue ==
  \A o \in Op :
    /\ status[o].host = "rejected" =>
         /\ \A i \in DOMAIN attempts : attempts[i].op # o
         /\ agent.request # None => agent.request.op # o
         /\ \A r \in net : r.op = o => ~Acceptable(r)
    /\ status[o].host = "rebooted" => status[o].boot < boot

\* "wait for a new boot and ready Agent before enabling the host"
\* (host_reboot_fences.go:136): once the host is enabled for experiments again, no
\* reboot is being prepared and no request under way can still cause one.
EnabledIsSafe ==
  ~hold => agent.pc = "idle" /\ \A r \in net : ~Acceptable(r)

\* Operations are well formed, a boot of the host has one helper, reported outcomes
\* are true, and a host is enabled only when no reboot can hit it any more.
RebootIsSafe == TypeOK /\ OneHelperPerBoot /\ OutcomeIsTrue /\ EnabledIsSafe
=============================================================================
