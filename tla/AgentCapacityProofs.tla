------------------------ MODULE AgentCapacityProofs -------------------------
(***************************************************************************)
(* CapacityIsEnforced for every set of capacities and any number of edits, *)
(* reports and restarts.                                                   *)
(*                                                                         *)
(* CapacityIsEnforced is not inductive: whether a late report or answer    *)
(* may be trusted depends on what its revision stands for.  The            *)
(* strengthening says that the current revision is the newest one drawn    *)
(* and stands for the current setting wherever it is seen, that reports    *)
(* are no newer than the Agent they come from and awaited answers no       *)
(* older, and that an instance the Controller has not heard of still has   *)
(* the limit which its reports carry.                                      *)
(***************************************************************************)
EXTENDS AgentCapacity, TLAPS

Value == Capacity \cup {Default}
StoredAgent == [started : Nat, capacity : Value \cup {0}, revision : Nat, pending : BOOLEAN]
AgentState == [started : Nat \ {0}, limit : Value \cup {0}, revision : Nat, sent : Nat]
ReportMessage == [kind : {"register", "heartbeat"}, started : Nat \ {0}, at : Nat \ {0},
                  capacity : Value, revision : Nat]
Answer == [started : Nat \ {0}, at : Nat \ {0}, done : BOOLEAN, limit : Value \cup {0}, revision : Nat]

Shapes ==
  /\ override \in Capacity \cup {0} /\ revision \in Nat /\ revisions \in Nat
  /\ reported \in Value \cup {0} /\ latest \in Nat /\ waiting \in Nat
  /\ stored \in StoredAgent /\ agent \in AgentState
  /\ net \subseteq ReportMessage /\ answers \subseteq Answer

\* The current revision is the newest; there is one once the Agent is known.
Revisions ==
  /\ revision # 0 => revision = revisions
  /\ revision = 0 => stored = Unknown /\ answers = {}
  /\ revision # 0 => /\ stored.started # 0 /\ stored.capacity # 0 /\ stored.capacity <= Desired
                     /\ reported # 0
  /\ agent.revision <= revisions /\ stored.revision <= revisions
  /\ \A m \in net : m.revision <= revisions
  /\ \A a \in answers : a.revision <= revisions

\* Instances and reports are counted by the Agent.
Instances ==
  /\ stored.started <= agent.started /\ waiting <= agent.sent
  /\ \A m \in net : /\ m.started <= agent.started
                    /\ m.started = agent.started => m.at <= agent.sent
  /\ \A a \in answers : /\ a.started <= stored.started
                        /\ a.started = agent.started => a.at <= agent.sent

\* Wherever the current revision is seen, it stands for the current setting.
Meaning ==
  revision # 0 =>
    /\ agent.revision = revision => agent.limit = Desired
    /\ \A m \in net : m.revision = revision => m.capacity = Desired
    /\ \A a \in answers : a.done /\ a.revision = revision => a.limit = Desired

\* Reports are no newer than the Agent, the awaited answer is no older.
Ages ==
  /\ stored.started = agent.started => stored.revision <= agent.revision
  /\ \A m \in net : m.started = agent.started => m.revision <= agent.revision
  /\ \A a \in answers : a.done /\ a.started = agent.started /\ a.at = waiting
                          => agent.revision <= a.revision

\* An instance that is not registered has the limit it reports.
Unheard ==
  stored.started # agent.started =>
    \A m \in net : m.started = agent.started => m.capacity = CapacityLocked

\* Placement stays below the limit in force and below the one that is awaited.
Enforced ==
  /\ LimitIsEnforced
  /\ \A a \in answers : /\ a.done => a.limit # 0
                        /\ a.done /\ a.started = agent.started /\ a.at = waiting
                             => stored.capacity <= a.limit

Settled ==
  stored # Unknown /\ ~stored.pending => stored.revision = revision /\ stored.capacity = Desired

IInv ==
  Shapes /\ Revisions /\ Instances /\ Meaning /\ Ages /\ Unheard /\ Enforced /\ Settled
-----------------------------------------------------------------------------
LEMMA Values ==
  ASSUME CapacityConstants
  PROVE  /\ Value \subseteq Nat \ {0}
         /\ Shapes => Desired \in Value /\ CapacityLocked \in Value
<1>1. Value \subseteq Nat \ {0}
  BY DEF CapacityConstants, Value
<1>2. Shapes => Desired \in Value
  BY DEF Shapes, Desired, Value
<1>3. Shapes => CapacityLocked \in Value
  BY <1>1 DEF Shapes, CapacityLocked, AgentState, Value
<1> QED
  BY <1>1, <1>2, <1>3

\* What applyAgentCapacityLocked makes of a report with a positive capacity.
LEMMA ApplyFacts ==
  ASSUME CapacityConstants, Shapes,
         NEW report, report.started \in Nat, report.revision \in Nat,
         NEW cap \in Value, NEW rev \in Nat, NEW desired \in Value,
         NEW new, new = Apply(report, cap, rev, desired)
  PROVE  /\ new \in StoredAgent
         /\ new.started = report.started /\ new.revision = report.revision
         /\ new.pending <=> cap # desired \/ report.revision # rev
         /\ new.capacity # 0 /\ new.capacity <= desired /\ new.capacity <= cap
         /\ new.pending /\ stored.capacity # 0 => new.capacity <= stored.capacity
         /\ ~new.pending => new.capacity = desired
<1> DEFINE limit == IF cap <= 0 \/ desired < cap THEN desired ELSE cap
           pending == cap # desired \/ report.revision # rev
           capacity == IF pending /\ stored.capacity > 0 THEN Lower(limit, stored.capacity) ELSE limit
<1>1. new = [started |-> report.started, revision |-> report.revision, pending |-> pending,
             capacity |-> capacity]
  BY DEF Apply
<1>2. cap \in Nat \ {0} /\ desired \in Nat \ {0} /\ stored.capacity \in Nat
      /\ stored.capacity \in Value \cup {0}
  BY Values DEF Shapes, StoredAgent
<1>3. /\ capacity \in Value /\ capacity # 0 /\ capacity <= desired /\ capacity <= cap
      /\ pending /\ stored.capacity # 0 => capacity <= stored.capacity
      /\ ~pending => capacity = desired
  BY <1>2 DEF Lower
<1>4. new \in StoredAgent
  BY <1>1, <1>3 DEF StoredAgent
<1>5. new.started = report.started /\ new.revision = report.revision /\ new.capacity = capacity
  BY <1>1
<1>6. new.pending <=> pending
  <2>1. ASSUME pending PROVE new.pending = TRUE
    <3>1. new = [started |-> report.started, revision |-> report.revision, pending |-> TRUE,
                 capacity |-> capacity]
      BY <1>1, <2>1
    <3> QED
      BY <3>1
  <2>2. ASSUME ~pending PROVE new.pending = FALSE
    <3>1. new = [started |-> report.started, revision |-> report.revision, pending |-> FALSE,
                 capacity |-> capacity]
      BY <1>1, <2>2
    <3> QED
      BY <3>1
  <2> QED
    BY <2>1, <2>2
<1> HIDE DEF capacity
<1> QED
  BY <1>3, <1>4, <1>5, <1>6

LEMMA InitIInv ==
  ASSUME CapacityConstants, Init
  PROVE  IInv
<1>1. Shapes
  BY DEF Init, Shapes, CapacityConstants, Value, StoredAgent, AgentState, Unknown
<1> QED
  BY <1>1 DEF Init, IInv, Revisions, Instances, Meaning, Ages, Unheard, Enforced, LimitIsEnforced,
     Settled, Unknown, Desired, CapacityLocked

LEMMA SetCapacityKeeps ==
  ASSUME CapacityConstants, IInv, NEW v \in Capacity \cup {0}, SetCapacity(v)
  PROVE  IInv'
<1> DEFINE desired == IF v > 0 THEN v ELSE Default
<1>1. /\ Shapes /\ Revisions /\ Instances /\ Ages /\ Unheard /\ Enforced
      /\ stored # Unknown /\ override' = v /\ revision' = revisions + 1 /\ revisions' = revisions + 1
      /\ stored' = Apply(stored, reported, revision', desired)
      /\ UNCHANGED <<reported, latest, agent, waiting, net, answers>>
  BY DEF SetCapacity, IInv
<1>2. /\ revision # 0 /\ reported \in Value /\ stored.started \in Nat /\ stored.revision \in Nat
      /\ stored.capacity \in Nat \ {0} /\ revision' \in Nat /\ stored.revision # revision'
  BY <1>1, Values DEF Shapes, Revisions, StoredAgent
<1>3. desired \in Value /\ Desired' = desired /\ CapacityLocked' = CapacityLocked
  BY <1>1 DEF CapacityConstants, Value, Desired, CapacityLocked
<1> HIDE DEF desired
<1>4. /\ stored' \in StoredAgent /\ stored'.started = stored.started
      /\ stored'.revision = stored.revision /\ stored'.pending
      /\ stored'.capacity # 0 /\ stored'.capacity <= desired
      /\ stored'.capacity <= stored.capacity
  BY <1>1, <1>2, <1>3, ApplyFacts
<1>5. Shapes'
  BY <1>1, <1>4 DEF Shapes
<1>6. Revisions'
  BY <1>1, <1>2, <1>3, <1>4 DEF Shapes, Revisions, AgentState, ReportMessage, Answer
<1>7. Instances'
  BY <1>1, <1>4 DEF Instances
<1>8. Meaning'
  BY <1>1 DEF Shapes, Revisions, Meaning, AgentState, ReportMessage, Answer
<1>9. Ages'
  BY <1>1, <1>4 DEF Ages
<1>10. Unheard'
  BY <1>1, <1>3, <1>4 DEF Unheard
<1>11. Enforced'
  <2>1. CapacityLocked \in Nat /\ stored'.capacity \in Nat /\ \A a \in answers : a.limit \in Nat
    BY <1>1, <1>4, Values DEF Shapes, StoredAgent, Answer
  <2> QED
    BY <1>1, <1>2, <1>3, <1>4, <2>1 DEF Enforced, LimitIsEnforced
<1>12. Settled'
  BY <1>4 DEF Settled
<1> QED
  BY <1>5, <1>6, <1>7, <1>8, <1>9, <1>10, <1>11, <1>12 DEF IInv

LEMMA ReportKeeps ==
  ASSUME CapacityConstants, IInv, NEW kind \in {"register", "heartbeat"}, Report(kind)
  PROVE  IInv'
<1> DEFINE m == [kind |-> kind, started |-> agent.started, at |-> agent.sent + 1,
                 capacity |-> CapacityLocked, revision |-> agent.revision]
<1>1. /\ Shapes /\ Revisions /\ Instances /\ Meaning /\ Ages /\ Unheard /\ Enforced /\ Settled
      /\ agent' = [agent EXCEPT !.sent = @ + 1] /\ waiting' = agent.sent + 1
      /\ net' = net \cup {m}
      /\ UNCHANGED <<override, revision, revisions, stored, reported, latest, answers>>
  BY DEF Report, IInv
<1>2. /\ agent' \in AgentState /\ agent'.started = agent.started /\ agent'.limit = agent.limit
      /\ agent'.revision = agent.revision /\ agent'.sent = agent.sent + 1
      /\ agent.sent \in Nat /\ agent.revision \in Nat /\ agent.started \in Nat
  BY <1>1 DEF Shapes, AgentState
<1>3. CapacityLocked' = CapacityLocked /\ CapacityLocked \in Value /\ Desired' = Desired /\ Desired \in Value
  BY <1>1, <1>2, Values DEF CapacityLocked, Desired
<1>4. /\ m \in ReportMessage /\ m.started = agent.started /\ m.capacity = CapacityLocked
      /\ m.revision = agent.revision /\ m.at = agent.sent + 1
  BY <1>1, <1>2, <1>3 DEF ReportMessage, Shapes, AgentState
<1>5. agent.limit \in Nat /\ (agent.limit = Desired => CapacityLocked = Desired)
  BY <1>1, <1>3, Values DEF CapacityLocked, Shapes, AgentState
<1> HIDE DEF m
<1>6. Shapes'
  BY <1>1, <1>2, <1>4 DEF Shapes
<1>7. Revisions'
  BY <1>1, <1>2, <1>3, <1>4 DEF Revisions
<1>8. Instances'
  BY <1>1, <1>2, <1>4 DEF Shapes, Instances, Answer, ReportMessage
<1>9. Meaning'
  BY <1>1, <1>2, <1>3, <1>4, <1>5 DEF Meaning
<1>10. \A a \in answers' : a.started = agent'.started => a.at # waiting'
  BY <1>1, <1>2 DEF Shapes, Instances, Answer
<1>11. Ages'
  BY <1>1, <1>2, <1>4, <1>10 DEF Ages
<1>12. Unheard'
  BY <1>1, <1>2, <1>3, <1>4 DEF Unheard
<1>13. Enforced'
  BY <1>1, <1>2, <1>3, <1>10 DEF Enforced, LimitIsEnforced
<1>14. Settled'
  BY <1>1, <1>3 DEF Settled
<1> QED
  BY <1>6, <1>7, <1>8, <1>9, <1>11, <1>12, <1>13, <1>14 DEF IInv

LEMMA GiveUpKeeps ==
  ASSUME CapacityConstants, IInv, GiveUp
  PROVE  IInv'
<1>1. /\ waiting' = 0
      /\ UNCHANGED <<override, revision, revisions, stored, reported, latest, agent, net, answers>>
  BY DEF GiveUp
<1>2. Desired' = Desired /\ CapacityLocked' = CapacityLocked
  BY <1>1 DEF Desired, CapacityLocked
<1>3. \A a \in answers : a.at # 0
  BY DEF IInv, Shapes, Answer
<1>4. Shapes' /\ Instances'
  BY <1>1 DEF IInv, Shapes, Instances, AgentState
<1>5. Revisions' /\ Meaning' /\ Unheard' /\ Settled'
  BY <1>1, <1>2 DEF IInv, Revisions, Meaning, Unheard, Settled
<1>6. Ages' /\ Enforced'
  BY <1>1, <1>2, <1>3 DEF IInv, Ages, Enforced, LimitIsEnforced
<1> QED
  BY <1>4, <1>5, <1>6 DEF IInv

LEMMA DropKeeps ==
  ASSUME CapacityConstants, IInv, NEW m \in net, Drop(m)
  PROVE  IInv'
<1>1. /\ net' = net \ {m}
      /\ UNCHANGED <<override, revision, revisions, stored, reported, latest, agent, waiting, answers>>
  BY DEF Drop
<1>2. Desired' = Desired /\ CapacityLocked' = CapacityLocked
  BY <1>1 DEF Desired, CapacityLocked
<1>3. Shapes' /\ Instances' /\ Revisions' /\ Meaning' /\ Settled'
  BY <1>1, <1>2 DEF IInv, Shapes, Instances, Revisions, Meaning, Settled
<1>4. Unheard' /\ Ages' /\ Enforced'
  BY <1>1, <1>2 DEF IInv, Unheard, Ages, Enforced, LimitIsEnforced
<1> QED
  BY <1>3, <1>4 DEF IInv

LEMMA ObserveKeeps ==
  ASSUME CapacityConstants, IInv, NEW m \in net, Observe(m)
  PROVE  IInv'
<1> DEFINE answer == [started |-> m.started, at |-> m.at, done |-> FALSE, limit |-> 0, revision |-> 0]
<1>1. /\ Shapes /\ Revisions /\ Instances /\ Meaning /\ Ages /\ Unheard /\ Enforced
      /\ m \in ReportMessage /\ m.started <= agent.started
  BY DEF IInv, Shapes, Instances
<1>2. /\ Accepted(m)
      /\ revision' = IF revision = 0 THEN revisions + 1 ELSE revision
      /\ revisions' = IF revision = 0 THEN revisions + 1 ELSE revisions
      /\ reported' = m.capacity /\ stored' = Apply(m, m.capacity, revision', Desired)
      /\ latest' = IF m.started # stored.started \/ m.at > latest THEN m.at ELSE latest
      /\ net' = net \ {m} /\ answers' = answers \cup {answer}
      /\ UNCHANGED <<override, agent, waiting>>
  BY DEF Observe
<1>3. /\ m.started \in Nat \ {0} /\ m.at \in Nat \ {0} /\ m.capacity \in Value /\ m.capacity \in Nat \ {0}
      /\ m.revision \in Nat /\ m.revision <= revisions /\ stored.started \in Nat
      /\ agent.started \in Nat \ {0} /\ agent.revision \in Nat
  BY <1>1, Values DEF ReportMessage, Revisions, Shapes, StoredAgent, AgentState
<1>4. revision \in Nat /\ revisions \in Nat /\ revision' \in Nat \ {0} /\ revision' = revisions'
      /\ revisions <= revisions'
  BY <1>1, <1>2 DEF Shapes, Revisions
<1>5. /\ Desired' = Desired /\ CapacityLocked' = CapacityLocked
      /\ Desired \in Value /\ Desired \in Nat /\ CapacityLocked \in Nat
  BY <1>1, <1>2, Values DEF Desired, CapacityLocked
<1>6. /\ stored' \in StoredAgent /\ stored'.started = m.started /\ stored'.revision = m.revision
      /\ stored'.pending <=> m.capacity # Desired \/ m.revision # revision'
      /\ stored'.capacity # 0 /\ stored'.capacity <= Desired /\ stored'.capacity <= m.capacity
      /\ stored'.pending /\ stored.capacity # 0 => stored'.capacity <= stored.capacity
      /\ ~stored'.pending => stored'.capacity = Desired
  <2>1. m.started \in Nat /\ m.revision \in Nat /\ revision' \in Nat
    BY <1>3, <1>4
  <2> QED
    BY <1>1, <1>2, <1>3, <1>5, <2>1, ApplyFacts
<1>7. /\ answer \in Answer /\ answer.started = m.started /\ answer.at = m.at /\ answer.done = FALSE
      /\ answer.revision = 0
  BY <1>3 DEF Answer
<1>8. stored.started <= m.started
  BY <1>1, <1>2, <1>3 DEF Accepted, Instances
<1> HIDE DEF answer
\* A report that settles the setting carries the current revision; when it comes from
\* the running instance, that instance has the revision too.
<1>9. ASSUME ~stored'.pending, m.started = agent.started
      PROVE  /\ CapacityLocked = Desired
             /\ \A a \in answers : a.done /\ a.started = agent.started /\ a.at = waiting
                                    => a.limit = Desired
  <2>1. revision # 0 /\ m.revision = revision /\ revision = revisions
    BY <1>1, <1>2, <1>3, <1>4, <1>6, <1>9 DEF Revisions
  <2>2. agent.revision = revision
    BY <1>1, <1>3, <1>4, <1>9, <2>1 DEF Ages, Revisions
  <2>3. agent.limit = Desired /\ CapacityLocked = Desired
    BY <1>1, <1>5, <2>1, <2>2, Values DEF Meaning, CapacityLocked
  <2>4. ASSUME NEW a \in answers, a.done, a.started = agent.started, a.at = waiting
        PROVE  a.limit = Desired
    <3>1. a.revision \in Nat /\ a.revision <= revisions /\ agent.revision <= a.revision
      BY <1>1, <2>4 DEF Shapes, Answer, Revisions, Ages
    <3> QED
      BY <1>1, <1>4, <2>1, <2>2, <2>4, <3>1 DEF Meaning
  <2> QED
    BY <2>3, <2>4
<1>10. Shapes'
  BY <1>1, <1>2, <1>3, <1>4, <1>6, <1>7 DEF Shapes
<1>11. Revisions'
  <2>1. /\ agent.revision <= revisions /\ stored'.revision <= revisions'
        /\ \A x \in net' : x.revision \in Nat /\ x.revision <= revisions
        /\ \A a \in answers' : a.revision \in Nat /\ a.revision <= revisions
    BY <1>1, <1>2, <1>3, <1>4, <1>6, <1>7 DEF Shapes, Revisions, ReportMessage, Answer
  <2>2. stored'.started # 0 /\ stored'.capacity <= Desired' /\ reported' # 0 /\ agent' = agent
    BY <1>2, <1>3, <1>5, <1>6
  <2>3. revisions' \in Nat /\ agent.revision <= revisions'
    BY <1>3, <1>4, <2>1
  <2>4. /\ \A x \in net' : x.revision <= revisions'
        /\ \A a \in answers' : a.revision <= revisions'
    BY <1>4, <2>1, <2>3
  <2> QED
    BY <1>4, <1>6, <2>1, <2>2, <2>3, <2>4 DEF Revisions
<1>12. Instances'
  <2>1. \A a \in answers : a.started \in Nat /\ a.started <= stored.started
    BY <1>1 DEF Shapes, Instances, Answer
  <2>2. \A a \in answers' : /\ a.started <= m.started
                            /\ a.started = agent.started => a.at <= agent.sent
    BY <1>1, <1>2, <1>3, <1>7, <1>8, <2>1 DEF Instances
  <2> QED
    BY <1>1, <1>2, <1>6, <2>2 DEF Instances
<1>13. Meaning'
  <2>1. CASE revision = 0
    BY <1>1, <1>2, <1>4, <1>7, <2>1 DEF Meaning, Revisions, Shapes, AgentState, ReportMessage
  <2>2. CASE revision # 0
    BY <1>1, <1>2, <1>4, <1>5, <1>7, <2>2 DEF Meaning
  <2> QED
    BY <2>1, <2>2
<1>14. Ages'
  BY <1>1, <1>2, <1>6, <1>7 DEF Ages
<1>15. Unheard'
  <2>1. ASSUME m.started # agent.started PROVE stored.started # agent.started
    BY <1>1, <1>3, <1>8, <2>1
  <2> QED
    BY <1>1, <1>2, <1>5, <1>6, <2>1 DEF Unheard
<1>16. Enforced'
  <2>1. LimitIsEnforced'
    <3> SUFFICES ASSUME m.started = agent.started PROVE stored'.capacity <= CapacityLocked
      BY <1>2, <1>5, <1>6 DEF LimitIsEnforced
    <3>1. stored.capacity \in Nat /\ stored'.capacity \in Nat
      BY <1>1, <1>6, Values DEF Shapes, StoredAgent
    <3>2. CASE ~stored'.pending
      BY <1>5, <1>6, <1>9, <3>2
    <3>3. CASE stored'.pending /\ stored.started = agent.started
      <4>1. stored.capacity # 0 /\ stored.capacity <= CapacityLocked
        BY <1>1, <1>3, <3>3 DEF Revisions, Unknown, Enforced, LimitIsEnforced
      <4> QED
        BY <1>5, <1>6, <3>1, <3>3, <4>1
    <3>4. CASE stored.started # agent.started
      BY <1>1, <1>6, <3>4 DEF Unheard
    <3> QED
      BY <3>2, <3>3, <3>4
  <2>2. ASSUME NEW a \in answers', a.done
        PROVE  a.limit # 0
    BY <1>1, <1>2, <1>7, <2>2 DEF Enforced
  <2>3. ASSUME NEW a \in answers', a.done, a.started = agent'.started, a.at = waiting'
        PROVE  stored'.capacity <= a.limit
    <3>1. a \in answers /\ a.started = agent.started /\ a.at = waiting
      BY <1>2, <1>7, <2>3
    <3>2. stored.started = agent.started /\ m.started = agent.started
      BY <1>1, <1>3, <1>8, <3>1 DEF Instances
    <3>3. /\ stored.capacity \in Nat /\ stored'.capacity \in Nat /\ a.limit \in Nat
          /\ stored.capacity # 0 /\ stored.capacity <= a.limit
      BY <1>1, <1>3, <1>6, <2>3, <3>1, <3>2, Values
         DEF Shapes, StoredAgent, Answer, Revisions, Unknown, Enforced
    <3>4. CASE stored'.pending
      BY <1>6, <3>3, <3>4
    <3>5. CASE ~stored'.pending
      BY <1>5, <1>6, <1>9, <2>3, <3>1, <3>2, <3>5
    <3> QED
      BY <3>4, <3>5
  <2> QED
    BY <2>1, <2>2, <2>3 DEF Enforced
<1>17. Settled'
  BY <1>5, <1>6 DEF Settled
<1> QED
  BY <1>10, <1>11, <1>12, <1>13, <1>14, <1>15, <1>16, <1>17 DEF IInv

LEMMA WriteHeaderKeeps ==
  ASSUME CapacityConstants, IInv, NEW a \in answers, WriteHeader(a)
  PROVE  IInv'
<1> DEFINE new == [a EXCEPT !.done = TRUE, !.limit = Desired, !.revision = revision]
<1>1. /\ Shapes /\ Revisions /\ Instances /\ Meaning /\ Ages /\ Unheard /\ Enforced /\ Settled
      /\ answers' = (answers \ {a}) \cup {new}
      /\ UNCHANGED <<override, revision, revisions, stored, reported, latest, agent, waiting, net>>
  BY DEF WriteHeader, IInv
<1>2. /\ Desired' = Desired /\ CapacityLocked' = CapacityLocked /\ Desired \in Value /\ Desired # 0
      /\ revision # 0 /\ revision = revisions /\ revision \in Nat
  BY <1>1, Values DEF Desired, CapacityLocked, Revisions, Shapes
<1>3. /\ new \in Answer /\ new.started = a.started /\ new.at = a.at
      /\ new.limit = Desired /\ new.revision = revision
  BY <1>1, <1>2 DEF Shapes, Answer
<1> HIDE DEF new
<1>4. Shapes'
  BY <1>1, <1>3 DEF Shapes
<1>5. Revisions' /\ Instances'
  BY <1>1, <1>2, <1>3 DEF Revisions, Instances
<1>6. Meaning' /\ Unheard' /\ Settled'
  BY <1>1, <1>2, <1>3 DEF Meaning, Unheard, Settled
<1>7. Ages'
  BY <1>1, <1>2, <1>3 DEF Ages, Revisions
<1>8. Enforced'
  BY <1>1, <1>2, <1>3 DEF Enforced, LimitIsEnforced, Revisions
<1> QED
  BY <1>4, <1>5, <1>6, <1>7, <1>8 DEF IInv

LEMMA ReceiveKeeps ==
  ASSUME CapacityConstants, IInv, NEW a \in answers, Receive(a)
  PROVE  IInv'
<1>1. /\ Shapes /\ Revisions /\ Instances /\ Meaning /\ Ages /\ Unheard /\ Enforced /\ Settled
      /\ a \in Answer /\ a.done /\ answers' = answers \ {a}
      /\ UNCHANGED <<override, revision, revisions, stored, reported, latest, net>>
  BY DEF Receive, IInv, Shapes
<1>2. Desired' = Desired
  BY <1>1 DEF Desired
<1>3. CASE UNCHANGED <<agent, waiting>>
  <2>1. CapacityLocked' = CapacityLocked
    BY <1>3 DEF CapacityLocked
  <2>2. Shapes' /\ Instances' /\ Revisions' /\ Meaning' /\ Settled'
    BY <1>1, <1>2, <1>3 DEF Shapes, Instances, Revisions, Meaning, Settled
  <2>3. Unheard' /\ Ages' /\ Enforced'
    BY <1>1, <1>2, <1>3, <2>1 DEF Unheard, Ages, Enforced, LimitIsEnforced
  <2> QED
    BY <2>2, <2>3 DEF IInv
<1>4. CASE /\ a.started = agent.started /\ a.at = waiting /\ waiting' = 0
           /\ agent' = [agent EXCEPT !.limit = a.limit, !.revision = a.revision]
  <2>1. /\ agent' \in AgentState /\ agent'.started = agent.started /\ agent'.limit = a.limit
        /\ agent'.revision = a.revision /\ agent'.sent = agent.sent
    BY <1>1, <1>4 DEF Shapes, AgentState, Answer
  <2>2. /\ a.limit # 0 /\ a.limit \in Nat /\ stored.capacity <= a.limit
        /\ agent.revision <= a.revision /\ a.revision <= revisions
        /\ stored.started = agent.started
    BY <1>1, <1>4, Values DEF Enforced, Ages, Revisions, Instances, Shapes, Answer, StoredAgent, AgentState
  <2>3. CapacityLocked' = a.limit
    BY <2>1, <2>2 DEF CapacityLocked
  <2>4. \A x \in answers' : x.at # waiting'
    BY <1>1, <1>4 DEF Shapes, Answer
  <2>5. Shapes'
    BY <1>1, <1>4, <2>1 DEF Shapes
  <2>6. Revisions'
    BY <1>1, <1>2, <2>1, <2>2 DEF Revisions
  <2>7. Instances'
    BY <1>1, <1>4, <2>1 DEF Instances, Shapes, AgentState
  <2>8. Meaning'
    BY <1>1, <1>2, <2>1 DEF Meaning
  <2>9. Ages'
    <3>1. /\ agent.revision \in Nat /\ a.revision \in Nat /\ stored.revision \in Nat
          /\ \A m \in net : m.revision \in Nat
      BY <1>1 DEF Shapes, AgentState, Answer, StoredAgent, ReportMessage
    <3> QED
      BY <1>1, <2>1, <2>2, <2>4, <3>1 DEF Ages
  <2>10. Unheard'
    BY <1>1, <2>1, <2>2 DEF Unheard
  <2>11. Enforced'
    BY <1>1, <2>1, <2>2, <2>3, <2>4 DEF Enforced, LimitIsEnforced
  <2>12. Settled'
    BY <1>1, <1>2 DEF Settled
  <2> QED
    BY <2>5, <2>6, <2>7, <2>8, <2>9, <2>10, <2>11, <2>12 DEF IInv
<1> QED
  BY <1>3, <1>4 DEF Receive

LEMMA RestartAgentKeeps ==
  ASSUME CapacityConstants, IInv, RestartAgent
  PROVE  IInv'
<1>1. /\ Shapes /\ Revisions /\ Instances /\ Meaning /\ Settled /\ Enforced
      /\ agent' = [started |-> agent.started + 1, limit |-> 0, revision |-> 0, sent |-> 0]
      /\ waiting' = 0
      /\ UNCHANGED <<override, revision, revisions, stored, reported, latest, net, answers>>
  BY DEF RestartAgent, IInv
<1>2. agent' \in AgentState /\ agent'.started = agent.started + 1 /\ agent'.revision = 0 /\ agent'.sent = 0
  BY <1>1 DEF Shapes, AgentState
<1>3. Desired' = Desired
  BY <1>1 DEF Desired
<1>4. /\ stored.started < agent'.started /\ stored.started <= agent'.started
      /\ \A m \in net : m.started < agent'.started /\ m.started <= agent'.started
      /\ \A a \in answers : a.started < agent'.started
  BY <1>1, <1>2 DEF Shapes, Instances, StoredAgent, AgentState, ReportMessage, Answer
<1>5. /\ stored.started # agent'.started
      /\ \A m \in net : m.started # agent'.started
      /\ \A a \in answers : a.started # agent'.started
  BY <1>1, <1>2, <1>4 DEF Shapes, StoredAgent, AgentState, ReportMessage, Answer
<1>6. Shapes'
  BY <1>1, <1>2 DEF Shapes
<1>7. Revisions' /\ Instances'
  BY <1>1, <1>2, <1>3, <1>4, <1>5 DEF Shapes, Revisions, Instances
<1>8. Meaning' /\ Settled'
  BY <1>1, <1>2, <1>3 DEF Meaning, Settled
<1>9. Ages' /\ Unheard' /\ Enforced'
  BY <1>1, <1>5 DEF Ages, Unheard, Enforced, LimitIsEnforced
<1> QED
  BY <1>6, <1>7, <1>8, <1>9 DEF IInv

LEMMA RestartControllerKeeps ==
  ASSUME CapacityConstants, IInv, RestartController
  PROVE  IInv'
<1>1. /\ Shapes /\ Revisions /\ Instances
      /\ revision' = 0 /\ stored' = Unknown /\ reported' = 0 /\ latest' = 0 /\ net' = {} /\ answers' = {}
      /\ UNCHANGED <<override, revisions, agent, waiting>>
  BY DEF RestartController, IInv
<1>2. /\ stored' \in StoredAgent /\ stored'.started = 0 /\ stored'.revision = 0
      /\ agent.started \in Nat \ {0}
  BY <1>1 DEF Unknown, StoredAgent, Shapes, AgentState
<1>3. Shapes'
  BY <1>1, <1>2 DEF Shapes
<1>4. Revisions' /\ Instances' /\ Meaning' /\ Settled'
  BY <1>1, <1>2 DEF Shapes, Revisions, Instances, Meaning, Settled
<1>5. Ages' /\ Unheard' /\ Enforced'
  BY <1>1, <1>2 DEF Ages, Unheard, Enforced, LimitIsEnforced
<1> QED
  BY <1>3, <1>4, <1>5 DEF IInv

LEMMA NextKeeps ==
  ASSUME CapacityConstants, IInv, [Next]_vars
  PROVE  IInv'
<1>1. CASE Next
  BY <1>1, SetCapacityKeeps, ReportKeeps, GiveUpKeeps, DropKeeps, ObserveKeeps, WriteHeaderKeeps,
     ReceiveKeeps, RestartAgentKeeps, RestartControllerKeeps DEF Next
<1>2. CASE UNCHANGED vars
  BY <1>2 DEF vars, IInv, Shapes, Revisions, Instances, Meaning, Ages, Unheard, Enforced,
     LimitIsEnforced, Settled, Desired, CapacityLocked
<1> QED
  BY <1>1, <1>2

LEMMA IInvImplies ==
  ASSUME CapacityConstants, IInv
  PROVE  CapacityIsEnforced
<1>1. TypeOK
  BY Values DEF IInv, Shapes, Revisions, StoredAgent, AgentState, CapacityLocked, TypeOK, Value
<1>2. LimitIsEnforced
  BY DEF IInv, Enforced
<1>3. SettledIsDesired
  <2> SUFFICES ASSUME stored # Unknown, ~stored.pending
               PROVE  /\ stored.capacity = Desired
                      /\ stored.started = agent.started => CapacityLocked = Desired
    BY DEF SettledIsDesired
  <2>1. stored.capacity = Desired /\ stored.revision = revision
    BY DEF IInv, Settled
  <2>2. revision # 0 /\ revision = revisions /\ revision \in Nat /\ agent.revision \in Nat
    BY DEF IInv, Revisions, Shapes, AgentState
  <2>3. ASSUME stored.started = agent.started PROVE CapacityLocked = Desired
    <3>1. agent.revision = revision
      BY <2>1, <2>2, <2>3 DEF IInv, Ages, Revisions
    <3>2. agent.limit = Desired /\ Desired \in Nat \ {0}
      BY <2>2, <3>1, Values DEF IInv, Meaning
    <3> QED
      BY <3>2 DEF CapacityLocked
  <2> QED
    BY <2>1, <2>3
<1> QED
  BY <1>1, <1>2, <1>3 DEF CapacityIsEnforced

\* Whatever edits, late reports, lost answers and restarts do, the Controller never
\* places by more than the running instance of the Agent enforces ("Only
\* acknowledgment of the current revision may raise the last safe placement limit",
\* agent_capacity.go:72), and a setting that is not pending is the one in force.
THEOREM PlacementLimitIsEnforced ==
  ASSUME CapacityConstants
  PROVE  Spec => []CapacityIsEnforced
<1>1. Init => IInv
  BY InitIInv
<1>2. IInv /\ [Next]_vars => IInv'
  BY NextKeeps
<1>3. IInv => CapacityIsEnforced
  BY IInvImplies
<1> QED
  BY <1>1, <1>2, <1>3, PTL DEF Spec
=============================================================================
