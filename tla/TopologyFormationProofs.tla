----------------------- MODULE TopologyFormationProofs -----------------------
(***************************************************************************)
(* MeshIsSound for any set of Peers, plans and cohorts and any number of    *)
(* phases, attempts, timeouts and departures.                               *)
(*                                                                          *)
(* MeshIsSound is not inductive: it speaks of the ends of a phase.  The     *)
(* strengthening follows a phase from its commands to their answers and to  *)
(* the targets that are counted: a command or an answer that still counts   *)
(* belongs to the stage in progress, and each of the three carries what the *)
(* Peer did.                                                                *)
(***************************************************************************)
EXTENDS TopologyFormation, TLAPS

Stages == {"freeze", "prepare", "apply"}

Control == [stage : Stages \union {"idle", "failed"}, plan : Graphs \union {None},
            targets : SUBSET Peer, try : [Peer -> Nat], acked : SUBSET Peer]
Command == [n : Peer, stage : Stages, plan : Graphs \union {None}, try : Nat,
            live : BOOLEAN, at : {"queued", "connecting"}]
Reply == [n : Peer, stage : Stages, try : Nat, ok : BOOLEAN, frozen : BOOLEAN]
PeerState == [mesh : SUBSET Peer, frozen : BOOLEAN, prepared : Graphs \union {None},
              applied : BOOLEAN, recorded : BOOLEAN, events : Nat]

NodeShape ==
  /\ node \in [Peer -> {"starting", "ready", "gone"}]
  /\ agent \in [Peer -> [ready : BOOLEAN, gone : BOOLEAN, frozen : BOOLEAN]]
  /\ peer \in [Peer -> PeerState]
  /\ history \in [prepared : SUBSET (Peer \X Graphs), formed : SUBSET Graphs, phases : Nat]

WireShape == ctl \in Control /\ cmds \subseteq Command /\ answers \subseteq Reply

\* All that is known of a node is known of one that was ready once.
Born(n) == node[n] # "starting"
Births ==
  /\ \A n \in Peer : agent[n].ready => Born(n)
  /\ \A n \in ctl.targets : Born(n)
  /\ \A plan \in history.formed : \A n \in DOMAIN plan : Born(n)

\* A plan is prepared and applied by its targets.
Planned(c) == c.plan \in Graphs /\ c.n \in DOMAIN c.plan
Phases ==
  ctl.stage \in {"prepare", "apply"} => ctl.plan \in Graphs /\ ctl.targets = DOMAIN ctl.plan

\* A command that is waited for is the only one for its node, and is of the
\* stage in progress.
Commands ==
  /\ \A c \in cmds : c.try > 0 /\ (c.stage # "freeze" => Planned(c))
                     /\ (c.at = "connecting" => c.stage = "prepare")
  /\ \A c \in cmds : c.live =>
       /\ Awaited(c) /\ c.plan = ctl.plan
       /\ c.n \in ctl.targets \ ctl.acked
  /\ \A c, d \in cmds : c.live /\ d.live /\ c.n = d.n => c = d

\* So is an answer, and the command that it answers is gone.
Replies ==
  \A a \in answers :
    /\ Awaited(a) /\ a.try > 0 /\ a.n \in ctl.targets \ ctl.acked
    /\ \A c \in cmds : c.live => c.n # a.n
    /\ \A b \in answers : a.n = b.n => a = b

Counted == ctl.acked \subseteq ctl.targets

Wire == WireShape /\ Phases /\ Counted /\ Commands /\ Replies

\* The targets that are counted in a prepare have prepared, and a plan
\* that is being applied, or is applied, has been prepared by all.
AllPrepared(plan) == \A m \in DOMAIN plan : <<m, plan>> \in history.prepared
Preparations ==
  /\ ctl.stage = "prepare" =>
       /\ \A n \in ctl.acked : <<n, ctl.plan>> \in history.prepared
       /\ \A a \in answers : a.ok => <<a.n, ctl.plan>> \in history.prepared
  /\ ctl.stage = "apply" => AllPrepared(ctl.plan)
  /\ \A c \in cmds : c.stage = "apply" => AllPrepared(c.plan)
  /\ \A n \in Peer : peer[n].applied => AllPrepared(peer[n].prepared)

\* The targets that are counted in an apply, and those of a formed mesh, have
\* their planned neighbours for as long as they run.
Meshed(n, plan) == agent[n].ready => peer[n].frozen /\ peer[n].mesh = plan[n]
Formations ==
  /\ ctl.stage = "apply" =>
       /\ \A n \in ctl.acked : Meshed(n, ctl.plan)
       /\ \A a \in answers : a.ok => Meshed(a.n, ctl.plan)
  /\ \A plan \in history.formed : \A n \in DOMAIN plan : Meshed(n, plan)

\* Records are true, also those on their way to the Agent.
Records ==
  /\ \A n \in Peer :
       /\ agent[n].frozen \/ peer[n].recorded => peer[n].frozen
       /\ peer[n].applied => peer[n].frozen /\ peer[n].mesh = peer[n].prepared[n]
       /\ peer[n].events = IF peer[n].applied THEN 1 ELSE 0
  /\ \A a \in answers : a.frozen /\ agent[a.n].ready => peer[a.n].frozen

IInv == NodeShape /\ Wire /\ Births /\ Preparations /\ Formations /\ Records
-----------------------------------------------------------------------------
(* What the provers need of records *)

LEMMA CommandFacts ==
  ASSUME NEW c \in Command
  PROVE  LET d == [c EXCEPT !.live = FALSE]
             e == [c EXCEPT !.at = "connecting"]
         IN  /\ d \in Command /\ e \in Command
             /\ d.n = c.n /\ d.stage = c.stage /\ d.plan = c.plan /\ d.try = c.try
             /\ d.live = FALSE /\ d.at = c.at
             /\ e.n = c.n /\ e.stage = c.stage /\ e.plan = c.plan /\ e.try = c.try
             /\ e.live = c.live /\ e.at = "connecting"
  BY Zenon DEF Command

LEMMA IdleFacts ==
  ASSUME NEW s \in Stages \union {"idle", "failed"}
  PROVE  LET i == [Idle EXCEPT !.stage = s]
         IN  /\ Idle \in Control /\ i \in Control
             /\ i.stage = s /\ i.plan = None /\ i.targets = {} /\ i.acked = {}
  BY DEF Idle, Control, Stages

\* How Peers change: the fields that an operation leaves alone.
LEMMA RecordedFacts ==
  ASSUME NEW p \in PeerState
  PROVE  LET r == Recorded(p)
         IN  /\ r \in PeerState
             /\ r.mesh = p.mesh /\ r.frozen = p.frozen /\ r.prepared = p.prepared
             /\ r.applied = p.applied /\ r.events = p.events
  BY Zenon DEF PeerState, Recorded

LEMMA FrozenFacts ==
  ASSUME NEW p \in PeerState
  PROVE  LET r == Recorded([p EXCEPT !.frozen = TRUE])
         IN  /\ r \in PeerState
             /\ r.mesh = p.mesh /\ r.frozen = TRUE /\ r.prepared = p.prepared
             /\ r.applied = p.applied /\ r.events = p.events
  BY Zenon DEF PeerState, Recorded

LEMMA AppliedFacts ==
  ASSUME NEW p \in PeerState
  PROVE  LET r == Applied(p)
         IN  /\ r \in PeerState
             /\ r.mesh = p.mesh /\ r.frozen = p.frozen /\ r.prepared = p.prepared
             /\ r.applied = TRUE
             /\ r.events = IF p.applied THEN p.events ELSE p.events + 1
<1>1. CASE p.applied
  BY <1>1, RecordedFacts DEF PeerState, Applied
<1>2. CASE ~p.applied
  <2>1. PICK r : r = Recorded(p)
    OBVIOUS
  <2>2. r \in PeerState /\ Applied(p) = [r EXCEPT !.applied = TRUE, !.events = @ + 1]
    BY <1>2, <2>1, RecordedFacts DEF Applied
  <2>3. PICK t : t = [r EXCEPT !.applied = TRUE]
    BY Zenon
  <2>4. /\ t \in PeerState /\ t.applied = TRUE
        /\ t.mesh = r.mesh /\ t.frozen = r.frozen /\ t.prepared = r.prepared
        /\ t.events = r.events
    BY <2>2, <2>3, Zenon DEF PeerState
  <2>5. Applied(p) = [t EXCEPT !.events = r.events + 1]
    BY <2>2, <2>3 DEF PeerState
  <2>6. LET q == [t EXCEPT !.events = r.events + 1]
        IN  /\ q \in PeerState
            /\ q.mesh = t.mesh /\ q.frozen = t.frozen /\ q.prepared = t.prepared
            /\ q.applied = t.applied /\ q.events = r.events + 1
    BY <2>2, <2>4 DEF PeerState
  <2> QED
    BY <1>2, <2>1, <2>4, <2>5, <2>6, RecordedFacts
<1> QED
  BY <1>1, <1>2, Zenon

LEMMA InstalledFacts ==
  ASSUME NodeShape, NEW n \in Peer, NEW plan \in Graphs, n \in DOMAIN plan
  PROVE  LET p == peer[n]
             q == Installed(n, plan)
         IN  /\ q \in PeerState
             /\ q.mesh = (IF p.frozen THEN p.mesh ELSE plan[n]) /\ q.frozen
             /\ q.prepared = p.prepared /\ q.applied = p.applied
             /\ q.recorded = p.recorded /\ q.events = p.events
<1>1. plan[n] \in SUBSET Peer
  BY FormationConstants
<1>2. peer[n] \in PeerState
  BY DEF NodeShape
<1> QED
  BY <1>1, <1>2, Zenon DEF PeerState, Installed
-----------------------------------------------------------------------------
(* The phase, its commands and its answers *)

\* The part of a step on commands that ends no stage: nothing is counted that
\* was not, and no plan is applied that was not.
Quieter ==
  /\ ctl'.targets \subseteq ctl.targets
  /\ ctl'.stage \in {"prepare", "apply"} =>
       ctl'.stage = ctl.stage /\ ctl'.plan = ctl.plan /\ ctl'.acked \subseteq ctl.acked
  /\ \A c \in cmds' : c.stage = "apply" =>
       AllPrepared(c.plan) \/ \E d \in cmds : d.stage = "apply" /\ d.plan = c.plan

\* What is left of the commands when c is over, or is left behind at its Peer.
Rest(c) == {cmds \ {c}, (cmds \ {c}) \union {[c EXCEPT !.live = FALSE]}}

LEMMA HangUpKeeps ==
  ASSUME Wire, NEW rest,
         \A d \in rest : d \in Command /\ \E c \in cmds : d = c \/ d = [c EXCEPT !.live = FALSE],
         ctl' = [Idle EXCEPT !.stage = "failed"],
         cmds' = {[c EXCEPT !.live = FALSE] : c \in rest}, answers' = {}
  PROVE  Wire' /\ Quieter /\ answers' \subseteq answers
<1>1. /\ ctl' \in Control /\ ctl'.stage = "failed" /\ ctl'.targets = {} /\ ctl'.acked = {}
  BY IdleFacts DEF Stages
<1>2. ASSUME NEW e \in cmds'
      PROVE  /\ e \in Command /\ ~e.live
             /\ \E c \in cmds : e.n = c.n /\ e.stage = c.stage /\ e.plan = c.plan
                                /\ e.try = c.try /\ e.at = c.at
  <2>1. PICK d \in rest : e = [d EXCEPT !.live = FALSE]
    OBVIOUS
  <2>2. PICK c \in cmds : d = c \/ d = [c EXCEPT !.live = FALSE]
    OBVIOUS
  <2>3. c \in Command /\ d \in Command
    BY DEF Wire, WireShape
  <2>4. /\ d.n = c.n /\ d.stage = c.stage /\ d.plan = c.plan /\ d.try = c.try /\ d.at = c.at
    BY <2>2, <2>3, CommandFacts, Zenon
  <2>5. /\ e \in Command /\ ~e.live
        /\ e.n = d.n /\ e.stage = d.stage /\ e.plan = d.plan /\ e.try = d.try /\ e.at = d.at
    BY <2>1, <2>3, CommandFacts, Zenon
  <2> QED
    BY <2>4, <2>5
<1>3. Commands'
  BY <1>2 DEF Wire, Commands, Planned
<1>4. WireShape' /\ Phases' /\ Counted' /\ Replies'
  BY <1>1, <1>2 DEF WireShape, Phases, Counted, Replies
<1>5. Quieter
  BY <1>1, <1>2 DEF Quieter
<1> QED
  BY <1>3, <1>4, <1>5 DEF Wire

LEMMA RestFacts ==
  ASSUME cmds \subseteq Command, NEW c \in cmds, NEW rest \in Rest(c), NEW d \in rest
  PROVE  /\ d \in Command
         /\ d.live => d \in cmds /\ d # c
         /\ \E e \in cmds : d = e \/ d = [e EXCEPT !.live = FALSE]
         /\ \E e \in cmds : d.n = e.n /\ d.stage = e.stage /\ d.plan = e.plan
                            /\ d.try = e.try /\ d.at = e.at
<1>1. CASE d \in cmds \ {c}
  BY <1>1
<1>2. CASE d = [c EXCEPT !.live = FALSE]
  BY <1>2, CommandFacts, Zenon
<1> QED
  BY <1>1, <1>2 DEF Rest

LEMMA RetryKeeps ==
  ASSUME Wire, NEW c \in cmds, c.live, c.stage = "prepare", NEW rest \in Rest(c),
         ctl' = [ctl EXCEPT !.try[c.n] = @ + 1],
         cmds' = rest \union {[n |-> c.n, stage |-> "prepare", plan |-> ctl.plan,
                               try |-> c.try + 1, live |-> TRUE, at |-> "queued"]},
         answers' = {a \in answers : a.n # c.n}
  PROVE  Wire' /\ Quieter /\ answers' \subseteq answers
<1>1. /\ c \in Command /\ ctl \in Control /\ answers \subseteq Reply /\ cmds \subseteq Command
      /\ Awaited(c) /\ c.plan = ctl.plan /\ c.n \in ctl.targets \ ctl.acked
      /\ c.try > 0 /\ Planned(c)
  BY DEF Wire, WireShape, Commands
<1>2. /\ ctl' \in Control /\ ctl'.stage = ctl.stage /\ ctl'.plan = ctl.plan
      /\ ctl'.targets = ctl.targets /\ ctl'.acked = ctl.acked
      /\ ctl'.try[c.n] = c.try + 1
      /\ \A n \in Peer : n # c.n => ctl'.try[n] = ctl.try[n]
  BY <1>1 DEF Control, Command, Awaited
<1>3. PICK next : next = [n |-> c.n, stage |-> "prepare", plan |-> ctl.plan,
                          try |-> c.try + 1, live |-> TRUE, at |-> "queued"]
  BY Zenon
<1>4. /\ next \in Command /\ next.n = c.n /\ next.stage = "prepare" /\ next.plan = ctl.plan
      /\ next.try = c.try + 1 /\ next.live /\ next.at = "queued"
  BY <1>1, <1>3 DEF Command, Control
<1>5. ASSUME NEW d \in rest
      PROVE  /\ d \in Command
             /\ d.live => d \in cmds /\ d # c
             /\ \E e \in cmds : d.n = e.n /\ d.stage = e.stage /\ d.plan = e.plan
                                /\ d.try = e.try /\ d.at = e.at
  BY <1>1, RestFacts
<1>6. cmds' = rest \union {next}
  BY <1>3
<1>7. WireShape' /\ Phases' /\ Counted'
  BY <1>1, <1>2, <1>4, <1>5, <1>6 DEF WireShape, Wire, Phases, Counted
<1>8. ASSUME NEW d \in cmds'
      PROVE  /\ d.try > 0 /\ (d.stage # "freeze" => Planned(d))
             /\ d.at = "connecting" => d.stage = "prepare"
  <2>1. CASE d = next
    BY <1>1, <1>4, <2>1 DEF Planned, Command
  <2>2. CASE d \in rest
    BY <1>5, <2>2 DEF Wire, Commands, Planned
  <2> QED
    BY <1>6, <2>1, <2>2
<1>9. ASSUME NEW d \in rest, d.live
      PROVE  Awaited(d)' /\ d.plan = ctl.plan /\ d.n \in ctl.targets \ ctl.acked /\ d.n # c.n
  BY <1>1, <1>2, <1>5, <1>9 DEF Wire, Commands, Awaited, Working, Command
<1>10. Awaited(next)'
  BY <1>1, <1>2, <1>4 DEF Awaited, Working
<1>11. Commands'
  <2>1. \A d \in cmds' : d.live =>
          Awaited(d)' /\ d.plan = ctl'.plan /\ d.n \in ctl'.targets \ ctl'.acked
    BY <1>1, <1>2, <1>4, <1>6, <1>9, <1>10
  <2>2. \A d, e \in cmds' : d.live /\ e.live /\ d.n = e.n => d = e
    BY <1>4, <1>5, <1>6, <1>9 DEF Wire, Commands
  <2> QED
    BY <1>8, <2>1, <2>2 DEF Commands
<1>12. Replies'
  <2> SUFFICES ASSUME NEW a \in answers'
               PROVE  /\ Awaited(a)' /\ a.try > 0 /\ a.n \in ctl'.targets \ ctl'.acked
                      /\ \A d \in cmds' : d.live => d.n # a.n
                      /\ \A b \in answers' : a.n = b.n => a = b
    BY DEF Replies
  <2>1. a \in answers /\ a.n # c.n /\ a.n \in Peer
    BY <1>1 DEF Reply
  <2> QED
    BY <1>2, <1>4, <1>5, <1>6, <2>1 DEF Wire, Replies, Awaited, Working
<1>13. Quieter
  BY <1>2, <1>4, <1>5, <1>6 DEF Quieter
<1> QED
  BY <1>7, <1>11, <1>12, <1>13 DEF Wire

\* A command that fails: nobody waited, it is repeated, or the phase is over.
LEMMA CommandFailsKeeps ==
  ASSUME Wire, NEW c \in cmds, NEW transient \in BOOLEAN, NEW rest \in Rest(c),
         CommandFails(c, transient, rest)
  PROVE  Wire' /\ Quieter /\ answers' \subseteq answers
<1>1. c \in Command /\ cmds \subseteq Command
  BY DEF Wire, WireShape
<1>2. ASSUME NEW d \in rest
      PROVE  /\ d \in Command
             /\ d.live => d \in cmds
             /\ \E e \in cmds : d = e \/ d = [e EXCEPT !.live = FALSE]
             /\ \E e \in cmds : d.n = e.n /\ d.stage = e.stage /\ d.plan = e.plan
                                /\ d.try = e.try /\ d.at = e.at
  BY <1>1, RestFacts
<1>3. CASE ~c.live
  <2>1. cmds' = rest /\ ctl' = ctl /\ answers' = answers
    BY <1>3 DEF CommandFails
  <2>2. WireShape' /\ Phases' /\ Counted' /\ Quieter
    BY <1>2, <2>1 DEF Wire, WireShape, Phases, Counted, Quieter
  <2>3. Commands'
    BY <1>2, <2>1 DEF Wire, Commands, Planned, Awaited, Working
  <2>4. Replies'
    BY <1>2, <2>1 DEF Wire, Replies, Awaited, Working
  <2> QED
    BY <2>1, <2>2, <2>3, <2>4 DEF Wire
<1>4. CASE c.live /\ transient /\ Retryable(c) /\ Current(c.n) /\ TargetReady(c.n)
  BY <1>4, RetryKeeps DEF CommandFails, Retryable
<1>5. CASE c.live /\ ~(transient /\ Retryable(c) /\ Current(c.n) /\ TargetReady(c.n))
  <2>1. /\ ctl' = [Idle EXCEPT !.stage = "failed"] /\ answers' = {}
        /\ cmds' = {[d EXCEPT !.live = FALSE] : d \in rest}
    BY <1>5 DEF CommandFails
  <2> QED
    BY <1>2, <2>1, HangUpKeeps, Zenon
<1> QED
  BY <1>3, <1>4, <1>5

LEMMA FailedKeeps ==
  ASSUME Wire, Failed
  PROVE  Wire' /\ Quieter /\ answers' \subseteq answers
<1>1. \A c \in cmds : c \in Command
  BY DEF Wire, WireShape
<1> QED
  BY <1>1, HangUpKeeps, Zenon DEF Failed

LEMMA AnswerKeeps ==
  ASSUME Wire, NEW c \in cmds, NEW ok \in BOOLEAN, NEW frozen \in BOOLEAN,
         Answer(c, ok, frozen), ctl' = ctl
  PROVE  /\ Wire'
         /\ \A a \in answers' \ answers :
              c.live /\ a.n = c.n /\ a.stage = c.stage /\ a.ok = ok /\ a.frozen = frozen
<1> DEFINE new == [n |-> c.n, stage |-> c.stage, try |-> c.try, ok |-> ok, frozen |-> frozen]
<1>1. c \in Command /\ cmds \subseteq Command /\ answers \subseteq Reply
  BY DEF Wire, WireShape
<1>2. /\ new \in Reply /\ new.n = c.n /\ new.stage = c.stage /\ new.try = c.try
      /\ new.ok = ok /\ new.frozen = frozen
  BY <1>1 DEF Command, Reply
<1>3. cmds' = cmds \ {c} /\ answers' = IF c.live THEN answers \union {new} ELSE answers
  BY DEF Answer
<1> HIDE DEF new
<1>4. WireShape' /\ Phases' /\ Counted'
  BY <1>1, <1>2, <1>3 DEF Wire, WireShape, Phases, Counted
<1>5. Commands'
  BY <1>3 DEF Wire, Commands, Planned, Awaited, Working
<1>6. ASSUME c.live
      PROVE  /\ Awaited(new) /\ new.try > 0 /\ new.n \in ctl.targets \ ctl.acked
             /\ \A d \in cmds \ {c} : d.live => d.n # new.n
             /\ \A b \in answers : new.n # b.n
  BY <1>2, <1>6 DEF Wire, Commands, Replies, Awaited, Working
<1>7. Replies'
  BY <1>3, <1>6 DEF Wire, Replies, Awaited, Working
<1> QED
  BY <1>2, <1>3, <1>4, <1>5, <1>7 DEF Wire

\* Nothing else depends on more of the commands and of the Peers than this: the
\* stage goes on or ends without success, a frozen mesh stays, what Peers
\* record is true, and so is what they answer.
Truthful(n) ==
  LET p == peer[n] IN
  /\ p.recorded => p.frozen
  /\ p.applied => p.frozen /\ p.mesh = p.prepared[n] /\ AllPrepared(p.prepared)
  /\ p.events = IF p.applied THEN 1 ELSE 0

Steady ==
  /\ UNCHANGED <<node, agent>> /\ NodeShape' /\ history'.formed = history.formed
  /\ history.prepared \subseteq history'.prepared
  /\ \A n \in Peer : Truthful(n)'
  /\ \A n \in Peer : peer[n].frozen => peer'[n].frozen /\ peer'[n].mesh = peer[n].mesh

TrueAnswers ==
  \A a \in answers' \ answers :
    /\ a.frozen => peer'[a.n].frozen
    /\ a.ok /\ ctl.stage = "prepare" => <<a.n, ctl.plan>> \in history'.prepared
    /\ a.ok /\ ctl.stage = "apply" => peer'[a.n].frozen /\ peer'[a.n].mesh = ctl.plan[a.n]

LEMMA SteadyKeeps ==
  ASSUME IInv, Wire', Quieter, TrueAnswers, Steady
  PROVE  IInv'
<1>1. NodeShape' /\ Births'
  BY DEF IInv, Births, Born, Quieter, Steady
<1>2. \A plan : AllPrepared(plan) => AllPrepared(plan)'
  BY DEF AllPrepared, Steady
<1>3. \A a \in answers' : a \in Reply /\ a.n \in Peer
  BY DEF Wire, WireShape, Reply
<1>4. Preparations'
  <2>1. ctl'.stage = "prepare" =>
          /\ \A n \in ctl'.acked : <<n, ctl'.plan>> \in history'.prepared
          /\ \A a \in answers' : a.ok => <<a.n, ctl'.plan>> \in history'.prepared
    BY DEF IInv, Preparations, Quieter, TrueAnswers, Steady
  <2>2. ctl'.stage = "apply" => AllPrepared(ctl.plan)' /\ ctl'.plan = ctl.plan
    BY <1>2 DEF IInv, Preparations, Quieter
  <2>3. \A c \in cmds' : c.stage = "apply" => AllPrepared(c.plan)'
    BY <1>2 DEF IInv, Preparations, Quieter
  <2>4. \A n \in Peer : peer'[n].applied => AllPrepared(peer[n].prepared)'
    BY DEF Steady, Truthful
  <2> QED
    BY <2>1, <2>2, <2>3, <2>4 DEF Preparations, AllPrepared
<1>5. Formations'
  <2>1. \A n \in Peer : \A plan : Meshed(n, plan) => Meshed(n, plan)'
    BY DEF Meshed, Steady
  <2>2. \A plan \in history'.formed : \A n \in DOMAIN plan : Meshed(n, plan)'
    BY <2>1, FormationConstants DEF IInv, NodeShape, Formations, Steady
  <2>3. ASSUME ctl'.stage = "apply"
        PROVE  /\ \A n \in ctl'.acked : Meshed(n, ctl.plan)'
               /\ \A a \in answers' : a.ok => Meshed(a.n, ctl.plan)'
    <3>1. /\ ctl.stage = "apply" /\ ctl'.plan = ctl.plan
          /\ ctl'.acked \subseteq ctl.acked /\ ctl.acked \subseteq Peer
      BY <2>3 DEF IInv, Wire, WireShape, Control, Quieter
    <3>2. PICK plan : plan = ctl.plan /\ plan = ctl'.plan
      BY <3>1
    <3>3. \A n \in ctl'.acked : Meshed(n, plan)'
      BY <2>1, <3>1, <3>2 DEF IInv, Formations
    <3>4. \A a \in answers' : a.ok => Meshed(a.n, plan)'
      BY <1>3, <2>1, <3>1, <3>2 DEF IInv, Formations, TrueAnswers, Meshed
    <3> QED
      BY <3>2, <3>3, <3>4 DEF Meshed
  <2> QED
    BY <2>2, <2>3 DEF Formations
<1>6. Records'
  <2>1. \A n \in Peer : agent'[n].frozen \/ peer'[n].recorded => peer'[n].frozen
    BY DEF IInv, Records, Steady, Truthful
  <2>2. \A a \in answers' : a.frozen /\ agent'[a.n].ready => peer'[a.n].frozen
    BY <1>3, Zenon DEF IInv, Records, TrueAnswers, Steady
  <2> QED
    BY <2>1, <2>2 DEF Records, Steady, Truthful
<1> QED
  BY <1>1, <1>4, <1>5, <1>6 DEF IInv

\* A step that leaves the Peers alone, or changes one.
LEMMA OthersAreSteady ==
  ASSUME IInv, UNCHANGED <<node, agent, peer, history>>
  PROVE  Steady
<1>1. \A n \in Peer : Truthful(n)
  BY DEF IInv, Records, Preparations, Truthful
<1> QED
  BY <1>1 DEF IInv, NodeShape, Steady, Truthful, AllPrepared

LEMMA OneIsSteady ==
  ASSUME IInv, UNCHANGED <<node, agent>>, NEW n \in Peer, NEW q \in PeerState,
         peer' = [peer EXCEPT ![n] = q],
         history' \in [prepared : SUBSET (Peer \X Graphs), formed : SUBSET Graphs, phases : Nat],
         history'.formed = history.formed, history.prepared \subseteq history'.prepared,
         peer[n].frozen => q.frozen /\ q.mesh = peer[n].mesh,
         q.recorded => q.frozen,
         q.applied => q.frozen /\ q.mesh = q.prepared[n] /\ AllPrepared(q.prepared),
         q.events = IF q.applied THEN 1 ELSE 0
  PROVE  Steady
<1>1. peer \in [Peer -> PeerState] /\ \A m \in Peer : Truthful(m)
  BY DEF IInv, NodeShape, Records, Preparations, Truthful
<1>2. peer' \in [Peer -> PeerState] /\ peer'[n] = q /\ \A m \in Peer : m # n => peer'[m] = peer[m]
  BY <1>1
<1>3. \A plan : AllPrepared(plan) => AllPrepared(plan)'
  BY DEF AllPrepared
<1>4. Truthful(n)'
  <2>1. q.applied => AllPrepared(peer[n].prepared)'
    BY <1>2, <1>3 DEF AllPrepared
  <2> QED
    BY <1>2, <2>1 DEF Truthful
<1>5. ASSUME NEW m \in Peer, m # n PROVE Truthful(m)'
  <2>1. peer[m].applied => AllPrepared(peer[m].prepared)'
    BY <1>1, <1>2, <1>3, <1>5 DEF Truthful, AllPrepared
  <2> QED
    BY <1>1, <1>2, <1>5, <2>1 DEF Truthful
<1>6. NodeShape'
  BY <1>2 DEF IInv, NodeShape
<1> QED
  BY <1>2, <1>4, <1>5, <1>6 DEF Steady
-----------------------------------------------------------------------------
(* Nodes and routers *)

LEMMA PeerReadyKeeps ==
  ASSUME IInv, NEW n \in Peer, PeerReady(n)
  PROVE  IInv'
<1>1. /\ node' = [node EXCEPT ![n] = "ready"] /\ ~Born(n)
      /\ agent' = [agent EXCEPT ![n].ready = TRUE]
      /\ UNCHANGED <<ctl, peer, cmds, answers, history>>
  BY DEF PeerReady, Born
<1>2. /\ NodeShape'
      /\ \A m \in Peer : agent'[m].frozen = agent[m].frozen
      /\ \A m \in Peer : m # n => agent'[m].ready = agent[m].ready
      /\ \A m \in Peer : Born(m)' <=> (Born(m) \/ m = n)
  BY <1>1, Zenon DEF IInv, NodeShape, Born
<1>3. /\ ctl.targets \subseteq Peer /\ ctl.acked \subseteq Peer
      /\ \A a \in answers : a.n \in ctl.targets /\ a.n \in Peer
      /\ \A plan \in history.formed : DOMAIN plan \subseteq Peer
  BY FormationConstants DEF IInv, NodeShape, Wire, WireShape, Control, Reply, Replies
<1>4. Wire' /\ Preparations'
  BY <1>1 DEF IInv, Wire, WireShape, Phases, Counted, Commands, Planned, Replies, Awaited, Working,
              Preparations, AllPrepared
<1>5. Births'
  BY <1>1, <1>2, <1>3 DEF IInv, Births
<1>6. \A m \in Peer : \A plan : Born(m) /\ Meshed(m, plan) => Meshed(m, plan)'
  BY <1>1, <1>2 DEF Meshed
<1>7. Formations'
  <2>1. \A plan \in history'.formed : \A m \in DOMAIN plan : Meshed(m, plan)'
    BY <1>1, <1>3, <1>6 DEF IInv, Births, Formations
  <2>2. ASSUME ctl'.stage = "apply"
        PROVE  /\ \A m \in ctl'.acked : Meshed(m, ctl.plan)'
               /\ \A a \in answers' : a.ok => Meshed(a.n, ctl.plan)'
    <3>1. PICK plan : plan = ctl.plan /\ plan = ctl'.plan
      BY <1>1
    <3>2. ctl.acked \subseteq ctl.targets
      BY DEF IInv, Wire, Counted
    <3>3. \A m \in ctl'.acked : Meshed(m, plan)'
      BY <1>1, <1>3, <1>6, <2>2, <3>1, <3>2 DEF IInv, Births, Formations
    <3>4. \A a \in answers' : a.ok => Meshed(a.n, plan)'
      BY <1>1, <1>3, <1>6, <2>2, <3>1 DEF IInv, Births, Formations
    <3> QED
      BY <3>1, <3>3, <3>4 DEF Meshed
  <2> QED
    BY <2>1, <2>2 DEF Formations
<1>8. Records'
  BY <1>1, <1>2, <1>3 DEF IInv, Births, Records
<1> QED
  BY <1>2, <1>4, <1>5, <1>7, <1>8 DEF IInv

LEMMA LeaveKeeps ==
  ASSUME IInv, NEW n \in Peer, Leave(n)
  PROVE  IInv'
<1>1. /\ node' = [node EXCEPT ![n] = "gone"]
      /\ UNCHANGED <<ctl, agent, peer, cmds, answers, history>>
  BY DEF Leave
<1>2. NodeShape' /\ \A m \in Peer : Born(m) => Born(m)'
  BY <1>1 DEF IInv, NodeShape, Born
<1>3. Births'
  BY <1>1, <1>2, FormationConstants
     DEF IInv, NodeShape, Wire, WireShape, Control, Births
<1>4. Wire' /\ Preparations' /\ Formations' /\ Records'
  BY <1>1 DEF IInv, Wire, WireShape, Phases, Commands, Planned, Replies, Awaited, Working, Counted,
              Preparations, AllPrepared, Formations, Meshed, Records
<1> QED
  BY <1>2, <1>3, <1>4 DEF IInv

LEMMA PeerExitsKeeps ==
  ASSUME IInv, NEW n \in Peer, PeerExits(n)
  PROVE  IInv'
<1>1. /\ agent' = [agent EXCEPT ![n] = [ready |-> FALSE, gone |-> TRUE, frozen |-> FALSE]]
      /\ peer' = [peer EXCEPT ![n] = NewPeer]
      /\ cmds' = {c \in cmds : c.n # n}
      /\ UNCHANGED <<ctl, node, answers, history>>
  BY DEF PeerExits
<1>2. /\ NewPeer \in PeerState /\ ~NewPeer.applied /\ ~NewPeer.recorded /\ NewPeer.events = 0
  BY DEF NewPeer, PeerState
<1>3. /\ NodeShape' /\ peer'[n] = NewPeer /\ ~agent'[n].ready /\ ~agent'[n].frozen
      /\ \A m \in Peer : m # n => peer'[m] = peer[m] /\ agent'[m] = agent[m]
  BY <1>1, <1>2 DEF IInv, NodeShape
<1>4. Wire'
  BY <1>1 DEF IInv, Wire, WireShape, Phases, Commands, Planned, Replies, Awaited, Working, Counted
<1>5. Births'
  BY <1>1, <1>3 DEF IInv, Births, Born
<1>6. Preparations'
  BY <1>1, <1>2, <1>3 DEF IInv, Preparations, AllPrepared
<1>7. Formations'
  BY <1>1, <1>3, FormationConstants
     DEF IInv, NodeShape, Wire, WireShape, Control, Reply, Formations, Meshed
<1>8. Records'
  BY <1>1, <1>2, <1>3 DEF IInv, Wire, WireShape, Reply, Records
<1> QED
  BY <1>3, <1>4, <1>5, <1>6, <1>7, <1>8 DEF IInv

LEMMA StatusKeeps ==
  ASSUME IInv, NEW n \in Peer, Status(n)
  PROVE  IInv'
<1>1. /\ peer[n].frozen /\ peer' = [peer EXCEPT ![n] = Recorded(peer[n])]
      /\ agent' = [agent EXCEPT ![n].frozen = TRUE]
      /\ UNCHANGED <<ctl, node, cmds, answers, history>>
  BY DEF Status
<1>2. /\ peer[n] \in PeerState /\ Recorded(peer[n]) \in PeerState
  BY RecordedFacts DEF IInv, NodeShape
<1>3. /\ NodeShape'
      /\ \A m \in Peer : /\ agent'[m].ready = agent[m].ready
                         /\ m # n => agent'[m].frozen = agent[m].frozen /\ peer'[m] = peer[m]
      /\ peer'[n] = Recorded(peer[n])
  BY <1>1, <1>2, Zenon DEF IInv, NodeShape
<1>4. \A m \in Peer : /\ peer'[m].mesh = peer[m].mesh /\ peer'[m].frozen = peer[m].frozen
                      /\ peer'[m].prepared = peer[m].prepared
                      /\ peer'[m].applied = peer[m].applied /\ peer'[m].events = peer[m].events
  BY <1>2, <1>3, RecordedFacts
<1>5. Wire'
  BY <1>1 DEF IInv, Wire, WireShape, Phases, Commands, Planned, Replies, Awaited, Working, Counted
<1>6. Births' /\ Preparations'
  BY <1>1, <1>3, <1>4 DEF IInv, Births, Born, Preparations, AllPrepared
<1>7. Formations'
  BY <1>1, <1>3, <1>4, FormationConstants
     DEF IInv, NodeShape, Wire, WireShape, Control, Reply, Formations, Meshed
<1>8. Records'
  BY <1>1, <1>3, <1>4 DEF IInv, Wire, WireShape, Reply, Records
<1> QED
  BY <1>3, <1>5, <1>6, <1>7, <1>8 DEF IInv

LEMMA LinksKeep ==
  ASSUME IInv, UNCHANGED <<ctl, node, agent, peer, cmds, answers, history>>
  PROVE  IInv'
  BY DEF IInv, NodeShape, Wire, WireShape, Phases, Commands, Planned, Replies, Awaited, Working,
         Counted, Births, Born, Preparations, AllPrepared, Formations, Meshed, Records

\* A step of Peers alone leaves the phase as it is.
LEMMA PhaseIsKept ==
  ASSUME IInv, UNCHANGED <<ctl, cmds, answers>>
  PROVE  Wire' /\ Quieter /\ TrueAnswers
  BY DEF IInv, Wire, WireShape, Phases, Commands, Planned, Replies, Awaited, Working, Counted,
         Quieter, TrueAnswers

LEMMA GraftKeeps ==
  ASSUME IInv, NEW n \in Peer, NEW m \in Peer, Graft(n, m)
  PROVE  IInv'
<1>1. PICK S \in SUBSET Peer : peer' = [peer EXCEPT ![n] = [peer[n] EXCEPT !.mesh = S]]
  <2>1. peer[n] \in PeerState /\ peer \in [Peer -> PeerState]
    BY DEF IInv, NodeShape
  <2>2. peer[n].mesh \ {m} \in SUBSET Peer /\ peer[n].mesh \union {m} \in SUBSET Peer
    BY <2>1 DEF PeerState
  <2> QED
    BY <2>1, <2>2, Zenon DEF Graft
<1>2. PICK q : q = [peer[n] EXCEPT !.mesh = S]
  BY Zenon
<1>3. /\ q \in PeerState /\ q.frozen = peer[n].frozen /\ q.prepared = peer[n].prepared
      /\ q.applied = peer[n].applied /\ q.recorded = peer[n].recorded
      /\ q.events = peer[n].events
  <2>1. peer[n] \in PeerState
    BY DEF IInv, NodeShape
  <2> QED
    BY <1>2, <2>1 DEF PeerState
<1>4. /\ ~peer[n].frozen /\ UNCHANGED <<ctl, node, agent, cmds, answers, history>>
  BY DEF Graft
<1>5. Steady
  BY <1>1, <1>2, <1>3, <1>4, OneIsSteady, Zenon DEF IInv, NodeShape, Records
<1> QED
  BY <1>4, <1>5, PhaseIsKept, SteadyKeeps
-----------------------------------------------------------------------------
(* The Controller *)

\* Between phases nothing is waited for.
LEMMA IdleIsQuiet ==
  ASSUME Wire, ~Working
  PROVE  answers = {} /\ \A c \in cmds : ~c.live
  BY DEF Wire, Commands, Replies, Awaited

LEMMA PhaseKeeps ==
  ASSUME IInv, NEW s \in {"freeze", "prepare"}, NEW plan \in Graphs \union {None},
         NEW T \in SUBSET Peer, \A n \in T : Born(n),
         s = "prepare" => plan \in Graphs /\ T = DOMAIN plan, Phase(s, plan, T)
  PROVE  IInv'
<1>1. /\ ctl' = [Idle EXCEPT !.stage = s, !.plan = plan, !.targets = T]
      /\ history' = [history EXCEPT !.phases = @ + 1]
      /\ UNCHANGED <<node, agent, peer, cmds, answers>> /\ ~Working
  BY DEF Phase, Working
<1>2. /\ ctl' \in Control /\ ctl'.stage = s /\ ctl'.plan = plan
      /\ ctl'.targets = T /\ ctl'.acked = {}
  <2>1. s \in Stages
    BY DEF Stages
  <2> QED
    BY <1>1, <2>1, Zenon DEF Idle, Control
<1>3. /\ NodeShape' /\ history'.formed = history.formed /\ history'.prepared = history.prepared
  BY <1>1 DEF IInv, NodeShape
<1>4. answers = {} /\ \A c \in cmds : ~c.live
  BY <1>1, IdleIsQuiet DEF IInv
<1>5. Wire'
  BY <1>1, <1>2, <1>4 DEF IInv, Wire, WireShape, Phases, Commands, Planned, Replies, Counted
<1>6. Births'
  BY <1>1, <1>2, <1>3 DEF IInv, Births, Born
<1>7. Preparations'
  BY <1>1, <1>2, <1>3, <1>4 DEF IInv, Preparations, AllPrepared
<1>8. Formations' /\ Records'
  BY <1>1, <1>2, <1>3, <1>4 DEF IInv, Formations, Meshed, Records
<1> QED
  BY <1>3, <1>5, <1>6, <1>7, <1>8 DEF IInv

LEMMA RunMeshFreezeKeeps ==
  ASSUME IInv, NEW G \in Groups, RunMeshFreeze(G)
  PROVE  IInv'
<1>1. Active(G) \in SUBSET Peer /\ \A n \in Active(G) : Born(n)
  BY FormationConstants DEF RunMeshFreeze, Selectable, Active, Born
<1> QED
  BY <1>1, PhaseKeeps DEF RunMeshFreeze

LEMMA RunTopologyKeeps ==
  ASSUME IInv, NEW plan \in Graphs, RunTopology(plan)
  PROVE  IInv'
<1>1. DOMAIN plan \in SUBSET Peer /\ \A n \in DOMAIN plan : Born(n)
  BY FormationConstants DEF RunTopology, Selectable, Active, Born
<1> QED
  BY <1>1, PhaseKeeps DEF RunTopology

LEMMA SelectionFailsKeeps ==
  ASSUME IInv, NEW G \in Groups, SelectionFails(G)
  PROVE  IInv'
<1>1. /\ ctl' = [Idle EXCEPT !.stage = "failed"] /\ ~Working
      /\ UNCHANGED <<node, agent, peer, cmds, answers, history>>
  BY DEF SelectionFails, Working
<1>2. ctl' \in Control /\ ctl'.stage = "failed" /\ ctl'.targets = {} /\ ctl'.acked = {}
  BY <1>1, IdleFacts DEF Stages
<1>3. answers = {} /\ \A c \in cmds : ~c.live
  BY <1>1, IdleIsQuiet DEF IInv
<1>4. Wire' /\ Quieter /\ TrueAnswers
  BY <1>1, <1>2, <1>3 DEF IInv, Wire, WireShape, Phases, Commands, Planned, Replies, Counted,
                          Quieter, TrueAnswers
<1> QED
  BY <1>1, <1>4, OthersAreSteady, SteadyKeeps

LEMMA PhaseFailsKeeps ==
  ASSUME IInv, PhaseFails
  PROVE  IInv'
<1>1. Wire' /\ Quieter /\ TrueAnswers
  BY FailedKeeps DEF IInv, PhaseFails, TrueAnswers
<1> QED
  BY <1>1, OthersAreSteady, SteadyKeeps DEF PhaseFails

LEMMA LostKeeps ==
  ASSUME IInv, NEW c \in cmds, Lost(c)
  PROVE  IInv'
<1>1. Wire' /\ Quieter /\ TrueAnswers
  BY CommandFailsKeeps, Zenon DEF IInv, Lost, Rest, TrueAnswers
<1> QED
  BY <1>1, OthersAreSteady, SteadyKeeps DEF Lost

LEMMA DispatchKeeps ==
  ASSUME IInv, NEW n \in Peer, Dispatch(n)
  PROVE  IInv'
<1>1. /\ ctl.stage \in Stages /\ n \in ctl.targets \ ctl.acked /\ ctl.try[n] = 0
      /\ ctl' = [ctl EXCEPT !.try[n] = 1]
      /\ UNCHANGED <<node, agent, peer, answers, history>>
  BY DEF Dispatch, Stages
<1>2. PICK c : c = [n |-> n, stage |-> ctl.stage, plan |-> ctl.plan,
                    try |-> 1, live |-> TRUE, at |-> "queued"]
  BY Zenon
<1>3. cmds' = cmds \union {c}
  BY <1>2 DEF Dispatch
<1>4. WireShape /\ Phases /\ Counted /\ Commands /\ Replies
  BY DEF IInv, Wire
<1>5. /\ c \in Command /\ c.n = n /\ c.stage = ctl.stage /\ c.plan = ctl.plan
      /\ c.try = 1 /\ c.live /\ c.at = "queued"
  BY <1>1, <1>2, <1>4 DEF WireShape, Control, Command
<1>6. /\ ctl' \in Control /\ ctl'.stage = ctl.stage /\ ctl'.plan = ctl.plan
      /\ ctl'.targets = ctl.targets /\ ctl'.acked = ctl.acked
      /\ ctl'.try[n] = 1 /\ \A m \in Peer : m # n => ctl'.try[m] = ctl.try[m]
  BY <1>1, <1>4 DEF WireShape, Control
<1>7. \A d \in cmds : d.live => d.n # n /\ d.n \in Peer
  BY <1>1, <1>4 DEF WireShape, Command, Commands, Awaited
<1>8. \A a \in answers : a.n \in Peer /\ a.n # n
  BY <1>1, <1>4 DEF WireShape, Reply, Replies, Awaited
<1>9. WireShape' /\ Phases' /\ Counted'
  BY <1>1, <1>3, <1>4, <1>5, <1>6 DEF WireShape, Phases, Counted
<1>10. c.stage # "freeze" => Planned(c)
  BY <1>1, <1>4, <1>5, <1>6 DEF Awaited, Working, Planned, Phases, Stages
<1>11. Commands'
  <2>1. \A d \in cmds' : d.try > 0 /\ (d.stage # "freeze" => Planned(d))
                         /\ (d.at = "connecting" => d.stage = "prepare")
    BY <1>3, <1>4, <1>5, <1>10 DEF Commands
  <2>2. \A d \in cmds' : d.live =>
          Awaited(d)' /\ d.plan = ctl'.plan /\ d.n \in ctl'.targets \ ctl'.acked
    BY <1>1, <1>3, <1>4, <1>5, <1>6, <1>7 DEF Commands, Awaited, Working, Stages
  <2>3. \A d, e \in cmds' : d.live /\ e.live /\ d.n = e.n => d = e
    BY <1>3, <1>4, <1>5, <1>7 DEF Commands
  <2> QED
    BY <2>1, <2>2, <2>3 DEF Commands
<1>12. Replies'
  BY <1>1, <1>3, <1>4, <1>5, <1>6, <1>8 DEF Replies, Awaited, Working
<1>13. Quieter /\ TrueAnswers
  <2>1. c.stage = "apply" => AllPrepared(c.plan)
    BY <1>5 DEF IInv, Preparations
  <2> QED
    BY <1>1, <1>3, <1>5, <1>6, <2>1 DEF Quieter, TrueAnswers
<1> QED
  BY <1>1, <1>9, <1>11, <1>12, <1>13, OthersAreSteady, SteadyKeeps DEF Wire

LEMMA StageDoneKeeps ==
  ASSUME IInv, StageDone
  PROVE  IInv'
<1>1. /\ Working /\ ctl.acked = ctl.targets /\ UNCHANGED <<node, agent, peer, cmds, answers>>
      /\ ctl' = IF ctl.stage = "prepare"
                  THEN [Idle EXCEPT !.stage = "apply", !.plan = ctl.plan, !.targets = ctl.targets]
                  ELSE Idle
      /\ history' = IF ctl.stage = "apply"
                      THEN [history EXCEPT !.formed = @ \union {ctl.plan}] ELSE history
  BY DEF StageDone
<1>2. WireShape /\ Phases /\ Counted /\ Commands /\ Replies
  BY DEF IInv, Wire
<1>3. answers = {} /\ \A c \in cmds : ~c.live
  BY <1>1, <1>2 DEF Commands, Replies
<1>4. CASE ctl.stage = "prepare"
  <2>1. /\ ctl' \in Control /\ ctl'.stage = "apply" /\ ctl'.plan = ctl.plan
        /\ ctl'.targets = ctl.targets /\ ctl'.acked = {} /\ history' = history
    <3>1. "apply" \in Stages /\ ctl.plan \in Graphs \union {None} /\ ctl.targets \in SUBSET Peer
      BY <1>2 DEF WireShape, Control, Stages
    <3> QED
      BY <1>1, <1>4, <3>1, Zenon DEF Idle, Control
  <2>2. Wire'
    BY <1>1, <1>2, <1>3, <1>4, <2>1 DEF Wire, WireShape, Phases, Counted, Commands, Planned, Replies
  <2>3. Preparations'
    <3>1. AllPrepared(ctl.plan)
      BY <1>1, <1>2, <1>4 DEF IInv, Preparations, AllPrepared, Phases
    <3> QED
      BY <1>1, <2>1, <3>1 DEF IInv, Preparations, AllPrepared
  <2>4. NodeShape' /\ Births' /\ Formations' /\ Records'
    BY <1>1, <1>3, <2>1 DEF IInv, NodeShape, Births, Born, Formations, Meshed, Records
  <2> QED
    BY <2>2, <2>3, <2>4 DEF IInv
<1>5. CASE ctl.stage # "prepare"
  <2>1. ctl' \in Control /\ ctl'.stage = "idle" /\ ctl'.targets = {} /\ ctl'.acked = {}
    BY <1>1, <1>5, IdleFacts DEF Idle, Stages
  <2>2. Wire'
    BY <1>1, <1>2, <1>3, <2>1 DEF Wire, WireShape, Phases, Counted, Commands, Planned, Replies
  <2>3. /\ NodeShape' /\ history'.prepared = history.prepared
        /\ history'.formed = history.formed \union IF ctl.stage = "apply" THEN {ctl.plan} ELSE {}
    BY <1>1, <1>2 DEF IInv, NodeShape, Phases
  <2>4. Births'
    BY <1>1, <1>2, <2>1, <2>3 DEF IInv, Births, Born, Phases
  <2>5. Preparations' /\ Records'
    BY <1>1, <1>3, <2>1, <2>3 DEF IInv, Preparations, AllPrepared, Records
  <2>6. Formations'
    BY <1>1, <1>2, <2>1, <2>3 DEF IInv, Formations, Meshed, Phases
  <2> QED
    BY <2>2, <2>3, <2>4, <2>5, <2>6 DEF IInv
<1> QED
  BY <1>4, <1>5

LEMMA AgentAnswersKeeps ==
  ASSUME IInv, NEW a \in answers, AgentAnswers(a)
  PROVE  IInv'
<1>1. WireShape /\ Phases /\ Counted /\ Commands /\ Replies
  BY DEF IInv, Wire
<1>2. a \in Reply /\ a.n \in Peer /\ a.frozen \in BOOLEAN /\ Awaited(a)
  BY <1>1 DEF WireShape, Reply, Replies
<1>3. UNCHANGED <<node, peer, history>>
  BY DEF AgentAnswers
<1>4. /\ a.ok /\ agent[a.n].ready /\ agent' = [agent EXCEPT ![a.n].frozen = @ \/ a.frozen]
      \/ agent' = agent
  BY DEF AgentAnswers, TargetReady
<1>5. /\ NodeShape' /\ \A n \in Peer : agent'[n].ready = agent[n].ready
      /\ \A n \in Peer : agent'[n].frozen => peer[n].frozen
  <2>1. CASE agent' = agent
    BY <1>3, <2>1 DEF IInv, NodeShape, Records
  <2>2. CASE a.ok /\ agent[a.n].ready /\ agent' = [agent EXCEPT ![a.n].frozen = @ \/ a.frozen]
    BY <1>2, <1>3, <2>2 DEF IInv, NodeShape, Records
  <2> QED
    BY <1>4, <2>1, <2>2
<1>6. CASE Failed
  <2>1. Wire' /\ Quieter /\ answers' = {}
    BY <1>6, FailedKeeps DEF IInv, Failed
  <2>2. ctl'.stage = "failed" /\ ctl'.targets = {}
    BY <1>6, IdleFacts DEF Failed, Stages
  <2>3. Births' /\ Preparations'
    BY <1>3, <1>5, <2>1, <2>2 DEF IInv, Births, Born, Preparations, AllPrepared, Quieter
  <2>4. Formations' /\ Records'
    BY <1>3, <1>5, <2>1, <2>2, FormationConstants
       DEF IInv, NodeShape, Formations, Meshed, Records
  <2> QED
    BY <1>5, <2>1, <2>3, <2>4 DEF IInv
<1>7. CASE /\ a.ok /\ ctl' = [ctl EXCEPT !.acked = @ \union {a.n}]
           /\ answers' = answers \ {a} /\ cmds' = cmds
  <2>1. /\ ctl' \in Control /\ ctl'.stage = ctl.stage /\ ctl'.plan = ctl.plan
        /\ ctl'.targets = ctl.targets /\ ctl'.try = ctl.try
        /\ ctl'.acked = ctl.acked \union {a.n}
    BY <1>1, <1>2, <1>7 DEF WireShape, Control
  <2>2. WireShape' /\ Phases' /\ Counted'
    BY <1>1, <1>7, <2>1 DEF WireShape, Phases, Counted, Replies
  <2>3. Commands'
    BY <1>1, <1>7, <2>1 DEF Commands, Replies, Planned, Awaited, Working
  <2>4. Replies'
    BY <1>1, <1>7, <2>1 DEF Replies, Awaited, Working
  <2>5. Births' /\ Preparations'
    BY <1>3, <1>5, <1>7, <2>1 DEF IInv, Births, Born, Preparations, AllPrepared
  <2>6. Formations'
    BY <1>1, <1>3, <1>5, <1>7, <2>1, FormationConstants
       DEF IInv, NodeShape, WireShape, Control, Reply, Formations, Meshed
  <2>7. Records'
    BY <1>1, <1>3, <1>5, <1>7 DEF IInv, WireShape, Reply, Records
  <2> QED
    BY <1>5, <2>2, <2>3, <2>4, <2>5, <2>6, <2>7 DEF IInv, Wire
<1> QED
  BY <1>2, <1>6, <1>7 DEF AgentAnswers
-----------------------------------------------------------------------------
(* The Peer *)

LEMMA CommandIsTyped ==
  ASSUME IInv, NEW c \in cmds
  PROVE  /\ c.n \in Peer /\ peer[c.n] \in PeerState
         /\ c.stage # "freeze" => c.plan \in Graphs /\ c.n \in DOMAIN c.plan
         /\ c.at = "connecting" => c.stage = "prepare"
         /\ c.stage = "apply" => AllPrepared(c.plan)
         /\ c.live => c.stage = ctl.stage /\ c.plan = ctl.plan
         /\ Truthful(c.n)
  BY DEF IInv, NodeShape, Wire, WireShape, Command, Commands, Planned, Awaited, Preparations,
         Records, Truthful

LEMMA AnswerIsQuieter ==
  ASSUME NEW c \in cmds, NEW ok, NEW frozen, Answer(c, ok, frozen), ctl' = ctl
  PROVE  Quieter
  BY DEF Answer, Quieter

LEMMA FreezeKeeps ==
  ASSUME IInv, NEW c \in cmds, Freeze(c)
  PROVE  IInv'
<1>1. /\ c.stage = "freeze" /\ Answer(c, TRUE, TRUE)
      /\ UNCHANGED <<ctl, node, agent, history>>
      /\ peer' = [peer EXCEPT ![c.n] = Recorded([peer[c.n] EXCEPT !.frozen = TRUE])]
  BY Zenon DEF Freeze
<1>2. PICK q : q = Recorded([peer[c.n] EXCEPT !.frozen = TRUE])
  OBVIOUS
<1>3. /\ q \in PeerState /\ q.mesh = peer[c.n].mesh /\ q.frozen = TRUE
      /\ q.prepared = peer[c.n].prepared /\ q.applied = peer[c.n].applied
      /\ q.events = peer[c.n].events
  BY <1>2, CommandIsTyped, FrozenFacts, Zenon
<1>4. Steady
  BY <1>1, <1>2, <1>3, CommandIsTyped, OneIsSteady, Zenon DEF IInv, NodeShape, Truthful
<1>5. peer'[c.n].frozen
  BY <1>1, <1>2, <1>3, CommandIsTyped, Zenon DEF IInv, NodeShape
<1>6. Wire' /\ TrueAnswers
  BY <1>1, <1>5, CommandIsTyped, AnswerKeeps, Zenon DEF IInv, TrueAnswers
<1> QED
  BY <1>1, <1>4, <1>6, AnswerIsQuieter, SteadyKeeps, Zenon

LEMMA RefuseKeeps ==
  ASSUME IInv, NEW c \in cmds, Refuse(c)
  PROVE  IInv'
<1>1. Answer(c, FALSE, FALSE) /\ UNCHANGED <<ctl, node, agent, peer, history>>
  BY Zenon DEF Refuse
<1>2. Wire' /\ TrueAnswers
  BY <1>1, AnswerKeeps, Zenon DEF IInv, TrueAnswers
<1> QED
  BY <1>1, <1>2, AnswerIsQuieter, OthersAreSteady, SteadyKeeps, Zenon

\* The plan that is prepared changes, and only where none is applied.
LEMMA PreparedIsSteady ==
  ASSUME IInv, UNCHANGED <<node, agent>>, NEW n \in Peer, NEW plan \in Graphs \union {None},
         peer' = [peer EXCEPT ![n].prepared = IF peer[n].applied THEN @ ELSE plan],
         history' \in [prepared : SUBSET (Peer \X Graphs), formed : SUBSET Graphs, phases : Nat],
         history'.formed = history.formed, history.prepared \subseteq history'.prepared
  PROVE  Steady /\ peer'[n].frozen = peer[n].frozen
<1>1. PICK q : q = [peer[n] EXCEPT !.prepared = IF peer[n].applied THEN @ ELSE plan]
  BY Zenon
<1>2. peer \in [Peer -> PeerState] /\ peer[n] \in PeerState /\ Truthful(n)
  BY DEF IInv, NodeShape, Records, Preparations, Truthful
<1>3. peer' = [peer EXCEPT ![n] = q]
  BY <1>1, <1>2
<1>4. /\ q \in PeerState /\ q.mesh = peer[n].mesh /\ q.frozen = peer[n].frozen
      /\ q.applied = peer[n].applied /\ q.recorded = peer[n].recorded
      /\ q.events = peer[n].events
      /\ peer[n].applied => q.prepared = peer[n].prepared
  BY <1>1, <1>2 DEF PeerState
<1>5. /\ q.recorded => q.frozen
      /\ q.applied => q.frozen /\ q.mesh = q.prepared[n] /\ AllPrepared(q.prepared)
      /\ q.events = IF q.applied THEN 1 ELSE 0
  BY <1>2, <1>4 DEF Truthful
<1>6. Steady
  BY <1>3, <1>4, <1>5, OneIsSteady, Zenon
<1> QED
  BY <1>2, <1>3, <1>4, <1>6

LEMMA BeginPrepareKeeps ==
  ASSUME IInv, NEW c \in cmds, BeginPrepare(c)
  PROVE  IInv'
<1>1. /\ c.stage = "prepare" /\ UNCHANGED <<ctl, node, agent, answers, history>>
      /\ peer' = [peer EXCEPT ![c.n].prepared = IF peer[c.n].applied THEN @ ELSE None]
  BY DEF BeginPrepare
<1>2. Steady
  BY <1>1, CommandIsTyped, PreparedIsSteady, Zenon DEF IInv, NodeShape
<1>3. PICK d : d = [c EXCEPT !.at = "connecting"]
  BY Zenon
<1>4. WireShape /\ Phases /\ Counted /\ Commands /\ Replies /\ c \in Command
  BY DEF IInv, Wire, WireShape
<1>5. /\ cmds' = (cmds \ {c}) \union {d} /\ d \in Command
      /\ d.n = c.n /\ d.stage = c.stage /\ d.plan = c.plan /\ d.try = c.try /\ d.live = c.live
  BY <1>3, <1>4, CommandFacts, Zenon DEF BeginPrepare
<1>6. WireShape' /\ Phases' /\ Counted'
  BY <1>1, <1>4, <1>5 DEF WireShape, Phases, Counted
<1>7. Commands'
  <2>1. \A e \in cmds' : e.try > 0 /\ (e.stage # "freeze" => Planned(e))
                         /\ (e.at = "connecting" => e.stage = "prepare")
    BY <1>1, <1>4, <1>5 DEF Commands, Planned
  <2>2. \A e \in cmds' : e.live =>
          Awaited(e)' /\ e.plan = ctl'.plan /\ e.n \in ctl'.targets \ ctl'.acked
    BY <1>1, <1>4, <1>5 DEF Commands, Awaited, Working
  <2>3. \A e, f \in cmds' : e.live /\ f.live /\ e.n = f.n => e = f
    BY <1>4, <1>5 DEF Commands
  <2> QED
    BY <2>1, <2>2, <2>3 DEF Commands
<1>8. Replies'
  BY <1>1, <1>4, <1>5 DEF Replies, Awaited, Working
<1>9. Quieter /\ TrueAnswers
  BY <1>1, <1>5 DEF Quieter, TrueAnswers
<1> QED
  BY <1>2, <1>6, <1>7, <1>8, <1>9, SteadyKeeps DEF Wire

LEMMA PreparedKeeps ==
  ASSUME IInv, NEW c \in cmds, Prepared(c)
  PROVE  IInv'
<1>1. /\ c.at = "connecting" /\ UNCHANGED <<ctl, node, agent>>
      /\ peer' = [peer EXCEPT ![c.n].prepared = IF peer[c.n].applied THEN @ ELSE c.plan]
      /\ history' = [history EXCEPT !.prepared = @ \union {<<c.n, c.plan>>}]
      /\ Answer(c, TRUE, peer[c.n].frozen)
  BY Zenon DEF Prepared
<1>2. c.stage = "prepare" /\ c.n \in Peer /\ c.plan \in Graphs /\ peer[c.n].frozen \in BOOLEAN
  BY <1>1, CommandIsTyped DEF PeerState
<1>3. /\ history' \in [prepared : SUBSET (Peer \X Graphs), formed : SUBSET Graphs, phases : Nat]
      /\ history'.formed = history.formed
      /\ history'.prepared = history.prepared \union {<<c.n, c.plan>>}
  BY <1>1, <1>2 DEF IInv, NodeShape
<1>4. Steady /\ peer'[c.n].frozen = peer[c.n].frozen
  BY <1>1, <1>2, <1>3, PreparedIsSteady, Zenon
<1>5. PICK frozen \in BOOLEAN : frozen = peer[c.n].frozen /\ Answer(c, TRUE, frozen)
  BY <1>1, <1>2, Zenon
<1>6. /\ Wire'
      /\ \A a \in answers' \ answers :
           c.live /\ a.n = c.n /\ a.stage = c.stage /\ a.ok = TRUE /\ a.frozen = frozen
  <2>1. Wire /\ ctl' = ctl /\ TRUE \in BOOLEAN /\ frozen \in BOOLEAN /\ Answer(c, TRUE, frozen)
    BY <1>1, <1>5, Zenon DEF IInv
  <2> HIDE DEF IInv
  <2> QED
    BY <2>1, AnswerKeeps, Zenon
<1>7. TrueAnswers
  BY <1>2, <1>3, <1>4, <1>5, <1>6, CommandIsTyped DEF TrueAnswers
<1> QED
  BY <1>1, <1>4, <1>6, <1>7, AnswerIsQuieter, SteadyKeeps, Zenon

LEMMA PrepareFailsKeeps ==
  ASSUME IInv, NEW c \in cmds, PrepareFails(c)
  PROVE  IInv'
<1>1. PICK transient \in BOOLEAN : CommandFails(c, transient, cmds \ {c})
  BY Zenon DEF PrepareFails
<1>2. Wire' /\ Quieter /\ TrueAnswers
  BY <1>1, CommandFailsKeeps, Zenon DEF IInv, Rest, TrueAnswers
<1> QED
  BY <1>2, OthersAreSteady, SteadyKeeps DEF PrepareFails

LEMMA ApplyKeeps ==
  ASSUME IInv, NEW c \in cmds, Apply(c)
  PROVE  IInv'
<1>1. /\ c.stage = "apply" /\ UNCHANGED <<ctl, node, agent, history>> /\ Answer(c, TRUE, TRUE)
      /\ peer[c.n].prepared = c.plan /\ Installable(c.n, c.plan)
      /\ peer' = [peer EXCEPT ![c.n] = Applied(Installed(c.n, c.plan))]
  BY Zenon DEF Apply
<1>2. PICK p : p = Installed(c.n, c.plan)
  OBVIOUS
<1>3. PICK q : q = Applied(p)
  OBVIOUS
<1>4. /\ p \in PeerState /\ p.mesh = c.plan[c.n] /\ p.frozen /\ p.prepared = c.plan
      /\ p.applied = peer[c.n].applied /\ p.events = peer[c.n].events
  BY <1>1, <1>2, CommandIsTyped, InstalledFacts DEF IInv, Installable
<1>5. /\ q \in PeerState /\ q.mesh = c.plan[c.n] /\ q.frozen /\ q.prepared = c.plan
      /\ q.applied = TRUE /\ q.events = 1
  <2>1. peer[c.n].events = IF peer[c.n].applied THEN 1 ELSE 0
    BY CommandIsTyped DEF Truthful
  <2>2. /\ q \in PeerState /\ q.mesh = p.mesh /\ q.frozen = p.frozen /\ q.prepared = p.prepared
        /\ q.applied = TRUE /\ q.events = IF p.applied THEN p.events ELSE p.events + 1
    BY <1>3, <1>4, AppliedFacts, Zenon
  <2> QED
    BY <1>4, <2>1, <2>2
<1>6. peer[c.n].frozen => q.mesh = peer[c.n].mesh
  BY <1>1, <1>5 DEF Installable
<1>7. Steady
  BY <1>1, <1>2, <1>3, <1>5, <1>6, CommandIsTyped, OneIsSteady, Zenon DEF IInv, NodeShape
<1>8. peer'[c.n] = q
  BY <1>1, <1>2, <1>3, CommandIsTyped, SMTT(20) DEF IInv, NodeShape
<1>9. Wire' /\ TrueAnswers
  BY <1>1, <1>5, <1>8, CommandIsTyped, AnswerKeeps, Zenon DEF IInv, TrueAnswers
<1> QED
  BY <1>1, <1>7, <1>9, AnswerIsQuieter, SteadyKeeps, Zenon

LEMMA ApplyCanceledKeeps ==
  ASSUME IInv, NEW c \in cmds, ApplyCanceled(c)
  PROVE  IInv'
<1>1. /\ c.stage = "apply" /\ UNCHANGED <<node, agent, history>> /\ peer[c.n].prepared = c.plan
      /\ CommandFails(c, FALSE, cmds \ {c})
  BY Zenon DEF ApplyCanceled
<1>2. PICK p : /\ p = peer[c.n] \/ (Installable(c.n, c.plan) /\ p = Installed(c.n, c.plan))
               /\ \/ peer' = [peer EXCEPT ![c.n] = p]
                  \/ peer' = [peer EXCEPT ![c.n] = Recovered(p, c.n, c.plan)]
  BY DEF ApplyCanceled
<1>3. /\ p \in PeerState /\ p.prepared = c.plan
      /\ p.applied = peer[c.n].applied /\ p.events = peer[c.n].events
      /\ p.recorded = peer[c.n].recorded
      /\ peer[c.n].frozen => p.frozen /\ p.mesh = peer[c.n].mesh
  BY <1>1, <1>2, CommandIsTyped, InstalledFacts DEF IInv
<1>4. PICK q : /\ peer' = [peer EXCEPT ![c.n] = q]
               /\ q = p \/ (p.frozen /\ p.mesh = c.plan[c.n] /\ q = Applied(p))
  BY <1>2 DEF Recovered
<1>5. /\ q \in PeerState /\ q.mesh = p.mesh /\ q.frozen = p.frozen /\ q.prepared = c.plan
      /\ q.recorded => q.frozen
      /\ q.applied => q.frozen /\ q.mesh = c.plan[c.n]
      /\ q.events = IF q.applied THEN 1 ELSE 0
  <2>1. CASE q = p
    BY <1>1, <1>3, <2>1, CommandIsTyped DEF Truthful
  <2>2. CASE p.frozen /\ p.mesh = c.plan[c.n] /\ q = Applied(p)
    <3>1. peer[c.n].events = IF peer[c.n].applied THEN 1 ELSE 0
      BY CommandIsTyped DEF Truthful
    <3>2. /\ q \in PeerState /\ q.mesh = p.mesh /\ q.frozen = p.frozen
          /\ q.prepared = p.prepared
          /\ q.applied = TRUE /\ q.events = IF p.applied THEN p.events ELSE p.events + 1
      BY <1>3, <2>2, AppliedFacts, Zenon
    <3> QED
      BY <1>3, <2>2, <3>1, <3>2
  <2> QED
    BY <1>4, <2>1, <2>2
<1>6. Steady
  BY <1>1, <1>3, <1>4, <1>5, CommandIsTyped, OneIsSteady, Zenon DEF IInv, NodeShape
<1>7. Wire' /\ Quieter /\ TrueAnswers
  BY <1>1, CommandFailsKeeps, Zenon DEF IInv, Rest, TrueAnswers
<1> QED
  BY <1>6, <1>7, SteadyKeeps

LEMMA DropKeeps ==
  ASSUME IInv, NEW c \in cmds, Drop(c)
  PROVE  IInv'
<1>1. cmds' = cmds \ {c} /\ UNCHANGED <<ctl, node, agent, peer, answers, history>>
  BY SMTT(20) DEF Drop
<1>2. Wire' /\ Quieter /\ TrueAnswers
  BY <1>1 DEF IInv, Wire, WireShape, Phases, Counted, Commands, Planned, Replies, Awaited, Working,
              Quieter, TrueAnswers
<1> QED
  BY <1>1, <1>2, OthersAreSteady, SteadyKeeps
-----------------------------------------------------------------------------

LEMMA InitIInv == Init => IInv
<1> SUFFICES ASSUME Init PROVE IInv
  OBVIOUS
<1>1. /\ ctl \in Control /\ ctl.stage = "idle" /\ ctl.targets = {} /\ ctl.acked = {}
      /\ cmds = {} /\ answers = {}
  BY IdleFacts DEF Init, Idle, Stages
<1>2. NewPeer \in PeerState /\ ~NewPeer.applied /\ ~NewPeer.recorded /\ NewPeer.events = 0
  BY DEF NewPeer, PeerState
<1>3. /\ NodeShape /\ history.formed = {}
      /\ \A n \in Peer : peer[n] = NewPeer /\ ~agent[n].ready /\ ~agent[n].frozen
  BY <1>2 DEF Init, NodeShape
<1>4. Wire
  BY <1>1 DEF Wire, WireShape, Phases, Counted, Commands, Replies
<1>5. Births /\ Preparations /\ Formations /\ Records
  BY <1>1, <1>2, <1>3 DEF Births, Preparations, Formations, Records
<1> QED
  BY <1>3, <1>4, <1>5 DEF IInv

LEMMA NextKeeps == IInv /\ [Next]_vars => IInv'
<1> SUFFICES ASSUME IInv, [Next]_vars PROVE IInv'
  OBVIOUS
<1>1. ASSUME NEW n \in Peer,
             PeerReady(n) \/ Leave(n) \/ PeerExits(n) \/ Dispatch(n) \/ Status(n)
      PROVE  IInv'
  BY <1>1, PeerReadyKeeps, LeaveKeeps, PeerExitsKeeps, DispatchKeeps, StatusKeeps
<1>2. ASSUME NEW n \in Peer, NEW m \in Peer, Discover(n, m) \/ Graft(n, m)
      PROVE  IInv'
  BY <1>2, LinksKeep, GraftKeeps DEF Discover
<1>3. ASSUME NEW l \in links, Disconnect(l)
      PROVE  IInv'
  BY <1>3, LinksKeep DEF Disconnect
<1>4. ASSUME NEW G \in Groups, RunMeshFreeze(G) \/ SelectionFails(G)
      PROVE  IInv'
  BY <1>4, RunMeshFreezeKeeps, SelectionFailsKeeps
<1>5. ASSUME NEW plan \in Graphs, RunTopology(plan)
      PROVE  IInv'
  BY <1>5, RunTopologyKeeps
<1>6. CASE PhaseFails \/ StageDone
  BY <1>6, PhaseFailsKeeps, StageDoneKeeps
<1>7. ASSUME NEW a \in answers, AgentAnswers(a)
      PROVE  IInv'
  BY <1>7, AgentAnswersKeeps
<1>8. ASSUME NEW c \in cmds,
             \/ Lost(c) \/ Freeze(c) \/ Refuse(c) \/ BeginPrepare(c) \/ Prepared(c)
             \/ PrepareFails(c) \/ Apply(c) \/ ApplyCanceled(c) \/ Drop(c)
      PROVE  IInv'
  BY <1>8, LostKeeps, FreezeKeeps, RefuseKeeps, BeginPrepareKeeps, PreparedKeeps,
     PrepareFailsKeeps, ApplyKeeps, ApplyCanceledKeeps, DropKeeps
<1>9. ASSUME NEW c \in cmds, NEW m \in Peer, Connect(c, m)
      PROVE  IInv'
  BY <1>9, LinksKeep DEF Connect
<1>10. CASE UNCHANGED vars
  BY <1>10, LinksKeep DEF vars
<1> QED
  BY <1>1, <1>2, <1>3, <1>4, <1>5, <1>6, <1>7, <1>8, <1>9, <1>10 DEF Next

LEMMA IInvImpliesMeshIsSound == IInv => MeshIsSound
<1> SUFFICES ASSUME IInv PROVE MeshIsSound
  OBVIOUS
<1>1. MeshIsPlanned
  BY DEF IInv, MeshIsPlanned, Alive, Formations, Meshed, Preparations, AllPrepared
<1>2. FrozenRecords
  BY DEF IInv, FrozenRecords, Records
<1> QED
  BY <1>1, <1>2 DEF MeshIsSound

\* A topology phase that succeeded has formed its mesh, and the mesh stays:
\* every target that still runs has exactly its planned neighbours, nothing is
\* recorded as applied before all targets prepared it, and what a Peer or its
\* Agent records of a mesh is true.  This holds for any Peers, plans and
\* cohorts, and any number of phases, attempts, timeouts and departures
\* (topology_formation.go, topology_dispatch.go and mesh_freeze.go of the
\* Controller, topology.go and mesh_freeze.go of the Peer).
THEOREM FormedMeshIsKept == Spec => []MeshIsSound
  BY InitIInv, NextKeeps, IInvImpliesMeshIsSound, PTL DEF Spec
=============================================================================
