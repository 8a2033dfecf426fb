--------------------------- MODULE ProfileSchedule ---------------------------
(***************************************************************************)
(* Runtime profile changes of a run: the Controller's schedule phases       *)
(* (internal/controller/profile_schedule.go), the Agent that proxies every  *)
(* command and keeps a record of each Peer's profile                        *)
(* (internal/agent/profile_update.go, network_status.go) and the Peer that  *)
(* prepares and applies them (internal/peer/profile_update.go).             *)
(*                                                                          *)
(* A change sets one or both of the fields "net" and "gossip"; the value it *)
(* gives them is its revision, so that values of different changes differ.  *)
(* A join reads the profile gate while its create call is outstanding, a    *)
(* change holds the gate alone.  Calls may fail, be answered late, or have  *)
(* their answer lost; the status reports of a Peer may cross.               *)
(***************************************************************************)
EXTENDS Integers, FiniteSets, Sequences, SequencesExt

CONSTANTS Peer,         \* the nodes the run may create
          Cohorts,      \* the sets of nodes a schedule phase may match
          MaxRevision,  \* bound on the changes of the run
          MaxFaults,    \* bound on lost answers, failures and departures
          MaxStatus     \* bound on the status reports of a Peer

VARIABLES ctl,      \* the change that holds the gate, and runProfileState
          node,     \* the Controller's view of every node
          agent,    \* the Agent's process record of every node
          peer,     \* the Peer processes
          cmds,     \* profile commands on their way to a Peer
          answers,  \* answers on their way from a Peer to its Agent
          reports,  \* the status reports the Peers sent
          faults,   \* faults so far
          history   \* revisions given up before apply, Peers with a lost answer

vars == <<ctl, node, agent, peer, cmds, answers, reports, faults, history>>

Field == {"net", "gossip"}
Unset == -1
Initial == [f \in Field |-> 0]

NoChange == [phase |-> "idle", set |-> {}, who |-> {}, targets |-> {},
             sent |-> {}, acked |-> {}]
NoProcess == [state |-> "none", rev |-> 0, prof |-> [f \in Field |-> Unset],
              pending |-> FALSE, net |-> 0, netRev |-> Unset,
              netPending |-> FALSE, seen |-> 0]
NoPeer == [cfg |-> Initial, rev |-> 0, net |-> 0, netRev |-> Unset,
           prepRev |-> 0, prepCfg |-> Initial, failed |-> FALSE, sent |-> 0]

Init ==
  /\ ctl = [change |-> NoChange, rev |-> 0, overrides |-> <<>>, failed |-> FALSE]
  /\ node = [n \in Peer |-> "none"]
  /\ agent = [n \in Peer |-> NoProcess]
  /\ peer = [n \in Peer |-> NoPeer]
  /\ cmds = {} /\ answers = {} /\ reports = {}
  /\ faults = 0
  /\ history = [aborted |-> {}, missed |-> {}]

Fault == faults < MaxFaults /\ faults' = faults + 1

\* RuntimeProfilePatch.Apply: the fields of the change replace the others.
Apply(set, rev, cfg) == [f \in Field |-> IF f \in set THEN rev ELSE cfg[f]]

\* The overrides a new node receives, in the order in which they were made.
Overlaid(n) ==
  FoldLeft(LAMBDA cfg, o : IF n \in o.who THEN Apply(o.set, o.rev, cfg) ELSE cfg,
           Initial, ctl.overrides)

-----------------------------------------------------------------------------
(* Joins *)

\* profileCreateRequest: acquire the gate as a reader, apply the overrides.
BeginCreate(n) ==
  /\ node[n] = "none"
  /\ ctl.change.phase = "idle"
  /\ node' = [node EXCEPT ![n] = "creating"]
  /\ peer' = [peer EXCEPT ![n].cfg = Overlaid(n), ![n].rev = ctl.rev,
                          ![n].net = Overlaid(n)["net"]]
  /\ UNCHANGED <<ctl, agent, cmds, answers, reports, faults, history>>

\* The Agent creates the container; it may do so after its caller gave up.
AgentCreate(n) ==
  /\ node[n] \in {"creating", "uncertain"} /\ agent[n].state = "none"
  /\ agent' = [agent EXCEPT ![n].state = "starting", ![n].rev = peer[n].rev,
                            ![n].net = peer[n].net]
  /\ UNCHANGED <<ctl, node, peer, cmds, answers, reports, faults, history>>

\* The Peer is up and its control endpoint is known.
PeerReady(n) ==
  /\ agent[n].state = "starting"
  /\ agent' = [agent EXCEPT ![n].state = "ready"]
  /\ UNCHANGED <<ctl, node, peer, cmds, answers, reports, faults, history>>

\* recordCreatedNode, and the gate is released.
Created(n) ==
  /\ node[n] = "creating" /\ agent[n].state \in {"starting", "ready"}
  /\ node' = [node EXCEPT ![n] = "starting"]
  /\ UNCHANGED <<ctl, agent, peer, cmds, answers, reports, faults, history>>

\* retainUncertainCreate: the answer is lost, the gate is released, the join
\* phase fails and the node is adopted when an Agent report shows it.
CreateUncertain(n) ==
  /\ node[n] = "creating" /\ Fault
  /\ node' = [node EXCEPT ![n] = "uncertain"]
  /\ ctl' = [ctl EXCEPT !.failed = TRUE]
  /\ UNCHANGED <<agent, peer, cmds, answers, reports, history>>

\* An Agent report brings the Controller's view up to date.
AgentReport(n) ==
  /\ node[n] \in {"starting", "uncertain"}
  /\ agent[n].state \in {"starting", "ready"} /\ agent[n].state # node[n]
  /\ node' = [node EXCEPT ![n] = agent[n].state]
  /\ UNCHANGED <<ctl, agent, peer, cmds, answers, reports, faults, history>>

\* A leave phase, or the end of the node's lifetime: it is stopping.
Leave(n) ==
  /\ node[n] \in {"starting", "ready"} /\ Fault
  /\ node' = [node EXCEPT ![n] = "gone"]
  /\ UNCHANGED <<ctl, agent, peer, cmds, answers, reports, history>>

\* The Agent removes the container of a node that left.
AgentStop(n) ==
  /\ node[n] = "gone" /\ agent[n].state \in {"starting", "ready"}
  /\ agent' = [agent EXCEPT ![n] = [NoProcess EXCEPT !.state = "gone"]]
  /\ UNCHANGED <<ctl, node, peer, cmds, answers, reports, faults, history>>

-----------------------------------------------------------------------------
(* The Controller's change *)

Change == ctl.change

\* profileTargets: the active nodes that match the phase.
ProfileTargets(who) == {n \in who : node[n] \in {"starting", "ready"}}

\* Mutant: create calls that are outstanding do not hold the gate.
GateFreeAny == Change.phase = "idle"

\* The gate is free for a writer: no change and no create call outstanding.
GateFree == Change.phase = "idle" /\ \A n \in Peer : node[n] # "creating"

BeginChange(set, who) ==
  /\ GateFree /\ ctl.rev < MaxRevision
  /\ ctl' = [ctl EXCEPT !.change = [NoChange EXCEPT
               !.phase = "wait", !.set = set, !.who = who,
               !.targets = ProfileTargets(who)]]
  /\ UNCHANGED <<node, agent, peer, cmds, answers, reports, faults, history>>

\* Every target is ready: the change gets its revision and prepare begins.
TargetsReady ==
  /\ Change.phase = "wait" /\ \A n \in Change.targets : node[n] = "ready"
  /\ ctl' = [ctl EXCEPT !.rev = @ + 1, !.change.phase = "prepare"]
  /\ UNCHANGED <<node, agent, peer, cmds, answers, reports, faults, history>>

\* One command of the stage: currentProfileTarget, then the Agent's own
\* check (profileTargetLocked), then the call to the Peer.
SendCommand(n) ==
  /\ Change.phase \in {"prepare", "apply"}
  /\ n \in Change.targets \ Change.sent
  /\ node[n] = "ready" /\ agent[n].state = "ready"
  /\ ctl' = [ctl EXCEPT !.change.sent = @ \union {n}]
  /\ cmds' = cmds \union {[n |-> n, rev |-> ctl.rev, stage |-> Change.phase,
                           set |-> Change.set, live |-> TRUE]}
  /\ UNCHANGED <<node, agent, peer, answers, reports, faults, history>>

\* The change is given up.  Before apply began no Peer may take its values.
Abandoned ==
  /\ ctl' = [ctl EXCEPT !.failed = TRUE, !.change = NoChange]
  /\ history' = [history EXCEPT
       !.aborted = IF Change.phase = "prepare" THEN @ \union {ctl.rev} ELSE @,
       !.missed = @ \union {m.n : m \in cmds \union answers}]

\* A target left, or is no longer ready, before or while it was addressed.
TargetLost ==
  /\ Change.phase # "idle"
  /\ \E n \in Change.targets : node[n] = "gone"
  /\ Abandoned
  /\ UNCHANGED <<node, agent, peer, cmds, answers, reports, faults>>

\* A call to the Agent fails, its answer is lost, the phase times out or the
\* schedule_change event cannot be stored.
ChangeFails ==
  /\ Change.phase # "idle" /\ Fault
  /\ Abandoned
  /\ UNCHANGED <<node, agent, peer, cmds, answers, reports>>

\* All targets acknowledged: apply follows prepare, the override follows apply.
StageAcknowledged == Change.acked = Change.targets

StageDone ==
  /\ StageAcknowledged
  /\ \/ /\ Change.phase = "prepare"
        /\ ctl' = [ctl EXCEPT !.change.phase = "apply", !.change.sent = {},
                              !.change.acked = {}]
     \/ /\ Change.phase = "apply"
        /\ ctl' = [ctl EXCEPT !.change = NoChange,
                     !.overrides = Append(@, [who |-> Change.who, set |-> Change.set,
                                              rev |-> ctl.rev])]
  /\ UNCHANGED <<node, agent, peer, cmds, answers, reports, faults, history>>

-----------------------------------------------------------------------------
(* The Peer: executeProfileUpdate *)

Answer(c, ok, cfg) ==
  IF c.live THEN answers \union {[n |-> c.n, rev |-> c.rev, stage |-> c.stage,
                                  set |-> c.set, ok |-> ok, cfg |-> cfg]}
            ELSE answers

\* The Peer has put the network conditions of this change into effect.
Begun(c) == c.stage = "apply" /\ peer[c.n].netRev = c.rev

\* profileUpdates.gate: one command at a time.
PeerFree(c) == \A d \in cmds \ {c} : d.n = c.n => ~Begun(d)

\* Older than what was applied, or not what was prepared.
Refused(c) ==
  LET p == peer[c.n] IN
  \/ p.failed
  \/ c.rev <= p.rev
  \/ c.stage = "prepare" /\ c.rev < p.prepRev
  \/ c.stage = "apply" /\ c.rev # p.prepRev

PeerRefuse(c) ==
  /\ PeerFree(c) /\ Refused(c)
  /\ cmds' = cmds \ {c}
  /\ answers' = Answer(c, FALSE, peer[c.n].cfg)
  /\ UNCHANGED <<ctl, node, agent, peer, reports, faults, history>>

PeerPrepare(c) ==
  /\ PeerFree(c) /\ c.stage = "prepare" /\ ~Refused(c)
  /\ LET cfg == Apply(c.set, c.rev, peer[c.n].cfg) IN
       /\ peer' = [peer EXCEPT ![c.n].prepRev = c.rev, ![c.n].prepCfg = cfg]
       /\ answers' = Answer(c, TRUE, cfg)
  /\ cmds' = cmds \ {c}
  /\ UNCHANGED <<ctl, node, agent, reports, faults, history>>

\* tc is changed first and recorded at once, in networkApplied; GossipSub follows,
\* and the profile is published last, in profileApplied.  A status report may be
\* made in between.
PeerNetwork(c) ==
  /\ PeerFree(c) /\ c.stage = "apply" /\ ~Refused(c) /\ "net" \in c.set /\ ~Begun(c)
  /\ peer' = [peer EXCEPT ![c.n].net = peer[c.n].prepCfg["net"], ![c.n].netRev = c.rev]
  /\ UNCHANGED <<ctl, node, agent, cmds, answers, reports, faults, history>>

PeerApply(c) ==
  /\ PeerFree(c) /\ c.stage = "apply" /\ ~Refused(c) /\ ("net" \in c.set => Begun(c))
  /\ LET p == peer[c.n] IN
       /\ peer' = [peer EXCEPT ![c.n] = [p EXCEPT
                     !.cfg = p.prepCfg, !.rev = c.rev, !.prepRev = 0,
                     !.prepCfg = Initial]]
       /\ answers' = Answer(c, TRUE, p.prepCfg)
  /\ cmds' = cmds \ {c}
  /\ UNCHANGED <<ctl, node, agent, reports, faults, history>>

\* tc or GossipSub fails: the Peer refuses every later change.
PeerApplyFails(c) ==
  /\ PeerFree(c) /\ c.stage = "apply" /\ ~Refused(c) /\ Fault
  /\ ("net" \in c.set /\ ~Begun(c)) \/ "gossip" \in c.set
  /\ peer' = [peer EXCEPT ![c.n].failed = TRUE]
  /\ cmds' = cmds \ {c}
  /\ answers' = Answer(c, FALSE, peer[c.n].cfg)
  /\ UNCHANGED <<ctl, node, agent, reports, history>>

\* The caller hung up before the command was executed.
PeerDrops(c) ==
  /\ ~c.live /\ ~Begun(c)
  /\ cmds' = cmds \ {c}
  /\ UNCHANGED <<ctl, node, agent, peer, answers, reports, faults, history>>

-----------------------------------------------------------------------------
(* The Agent *)

Alive(n) == agent[n].state \in {"starting", "ready"}
NoProfile(a) == \A f \in Field : a.prof[f] = Unset

\* storeProfileAcknowledgement: an older revision changes nothing, and the
\* fields that the answer does not name keep their recorded values.
Stored(a, rev, prof) ==
  IF rev < a.rev \/ (rev = a.rev /\ ~NoProfile(a)) THEN a
  ELSE [a EXCEPT !.rev = rev, !.pending = FALSE,
                 !.prof = [f \in Field |-> IF prof[f] = Unset THEN a.prof[f] ELSE prof[f]],
                 !.net = IF prof["net"] = Unset THEN @ ELSE prof["net"],
                 !.netRev = IF prof["net"] = Unset THEN @ ELSE rev,
                 !.netPending = @ /\ prof["net"] = Unset]

\* RuntimeProfilePatch.Snapshot: the values of the fields the change set.
Snapshot(set, cfg) == [f \in Field |-> IF f \in set THEN cfg[f] ELSE Unset]

\* A good answer reaches an Agent that still has the process: the apply is
\* recorded, and the Controller counts the answer if it still waits for it.
AgentAnswer(a) ==
  /\ a.ok /\ agent[a.n].state = "ready"
  /\ agent' = IF a.stage = "apply"
                THEN [agent EXCEPT ![a.n] = Stored(@, a.rev, Snapshot(a.set, a.cfg))]
                ELSE agent
  /\ ctl' = IF Change.phase = a.stage /\ ctl.rev = a.rev /\ node[a.n] = "ready"
              THEN [ctl EXCEPT !.change.acked = @ \union {a.n}] ELSE ctl
  /\ answers' = answers \ {a}
  /\ UNCHANGED <<node, peer, cmds, reports, faults, history>>

\* An apply without a good answer: the record is pending until it is known.
Pending(a, m) ==
  IF m.stage # "apply" \/ a.state \notin {"starting", "ready"} \/ a.rev >= m.rev THEN a
  ELSE [a EXCEPT !.pending = TRUE, !.netPending = @ \/ "net" \in m.set]

\* Does the Controller still wait for this command?
Awaited(m) == Change.phase = m.stage /\ ctl.rev = m.rev

AgentError(m) ==
  /\ agent' = [agent EXCEPT ![m.n] = Pending(@, m)]
  /\ IF Awaited(m)
       THEN /\ ctl' = [ctl EXCEPT !.failed = TRUE, !.change = NoChange]
            /\ history' = [history EXCEPT
                 !.aborted = IF m.stage = "prepare" THEN @ \union {m.rev} ELSE @,
                 !.missed = @ \union {c.n : c \in cmds \union answers}]
       ELSE /\ UNCHANGED ctl
            /\ history' = [history EXCEPT !.missed = @ \union {m.n}]

\* The Peer refused, or the process changed while the answer was awaited.
AgentRefused(a) ==
  /\ ~a.ok \/ agent[a.n].state # "ready"
  /\ AgentError(a)
  /\ answers' = answers \ {a}
  /\ UNCHANGED <<node, peer, cmds, reports, faults>>

\* The call or its answer is lost, or nobody waits for it any more.
AgentGivesUp(m) ==
  /\ IF Awaited(m) THEN Fault ELSE UNCHANGED faults
  /\ AgentError(m)
  /\ \/ /\ m \in answers /\ answers' = answers \ {m} /\ UNCHANGED cmds
     \/ /\ m \in cmds /\ m.live
        /\ cmds' = (cmds \ {m}) \union {[m EXCEPT !.live = FALSE]}
        /\ UNCHANGED answers
  /\ UNCHANGED <<node, peer, reports>>

\* addNetworkStatus and addProfileStatus: what a status report carries.  A
\* Peer that never saw a change, nor joined after one, reports neither.
SendStatus(n) ==
  /\ Alive(n) /\ peer[n].sent < MaxStatus
  /\ peer[n].rev > 0 \/ peer[n].netRev # Unset
  /\ peer' = [peer EXCEPT ![n].sent = @ + 1]
  /\ reports' = reports \union
       {[n |-> n, seq |-> peer[n].sent + 1, rev |-> peer[n].rev, cfg |-> peer[n].cfg,
         net |-> peer[n].net, netRev |-> peer[n].netRev]}
  /\ UNCHANGED <<ctl, node, agent, cmds, answers, faults, history>>

\* updateProcessNetwork: only a later tc transition is recorded.
NetworkUpdated(a, r) ==
  IF r.netRev <= a.netRev THEN a
  ELSE [a EXCEPT !.net = r.net, !.netRev = r.netRev, !.netPending = FALSE]

\* updateProcessProfile: a profile of a later revision is recorded.
ProfileUpdated(a, r) == IF r.rev = 0 THEN a ELSE Stored(a, r.rev, r.cfg)

\* updateNode: a report that another one overtook, or that is sent again,
\* is ignored.
AgentStatus(r) ==
  /\ Alive(r.n) /\ r.seq > agent[r.n].seen
  /\ agent' = [agent EXCEPT ![r.n] =
                 [ProfileUpdated(NetworkUpdated(@, r), r) EXCEPT !.seen = r.seq]]
  /\ UNCHANGED <<ctl, node, peer, cmds, answers, reports, faults, history>>

-----------------------------------------------------------------------------

Next ==
  \/ \E n \in Peer :
       \/ BeginCreate(n) \/ AgentCreate(n) \/ PeerReady(n) \/ Created(n)
       \/ CreateUncertain(n) \/ AgentReport(n) \/ Leave(n) \/ AgentStop(n)
       \/ SendCommand(n) \/ SendStatus(n)
  \/ \E set \in SUBSET Field \ {{}}, who \in Cohorts : BeginChange(set, who)
  \/ TargetsReady \/ TargetLost \/ ChangeFails \/ StageDone
  \/ \E c \in cmds : PeerRefuse(c) \/ PeerPrepare(c) \/ PeerNetwork(c) \/ PeerApply(c)
                       \/ PeerApplyFails(c) \/ PeerDrops(c)
  \/ \E a \in answers : AgentAnswer(a) \/ AgentRefused(a)
  \/ \E m \in cmds \union answers : AgentGivesUp(m)
  \/ \E r \in reports : AgentStatus(r)

Spec == Init /\ [][Next]_vars

-----------------------------------------------------------------------------
(* Properties *)

\* Whenever no change is in progress and nothing failed so far, every Peer
\* of the run, those that joined while changes were made included, runs with
\* exactly the changes that match it, in their order: "no old-profile Peer
\* escapes the target cohort".  And a change given up before apply began is
\* in effect nowhere, however late its commands arrive.
CohortConsistent ==
  /\ Change.phase = "idle" /\ ~ctl.failed =>
       \A n \in Peer : Alive(n) /\ node[n] # "gone" =>
         peer[n].cfg = Overlaid(n) /\ peer[n].net = peer[n].cfg["net"]
  /\ \A n \in Peer : peer[n].net \notin history.aborted
                       /\ \A f \in Field : peer[n].cfg[f] \notin history.aborted

Outstanding(n) == \E m \in cmds \union answers : m.n = n

\* The Agent's record of a Peer is never ahead of the Peer, and unless an
\* answer of the Peer was lost or given up it is true: at the Peer's revision it holds the
\* Peer's values, and its network conditions are those in effect as soon as
\* no command is outstanding, in whatever order reports and answers arrive.
RecordIsTrue ==
  \A n \in Peer : Alive(n) =>
    LET a == agent[n]
        p == peer[n]
    IN  /\ a.rev <= p.rev
        /\ n \notin history.missed =>
             /\ a.rev = p.rev => \A f \in Field : a.prof[f] \in {Unset, p.cfg[f]}
             /\ ~Outstanding(n) => a.net = p.net

\* "A lost apply acknowledgement can be recovered from a later Peer status":
\* once the Agent took a report of the Peer's present revision, its record
\* holds the Peer's values.  This does not hold: a later acknowledgement
\* that names other fields advances the revision, and then the report of that
\* revision is ignored (README, Observations).
StatusRecovers ==
  \A n \in Peer :
    LET a == agent[n]
        p == peer[n]
    IN  Alive(n) /\ (\E r \in reports : r.n = n /\ r.seq = a.seen /\ r.rev = p.rev)
          => \A f \in Field : a.prof[f] \in {Unset, p.cfg[f]}

\* Cohorts change together, and the records of them are true.
ProfilesAreSound == CohortConsistent /\ RecordIsTrue
=============================================================================
