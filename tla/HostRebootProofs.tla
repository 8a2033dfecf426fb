-------------------------- MODULE HostRebootProofs --------------------------
(***************************************************************************)
(* RebootIsSafe for any set of operations and any number of boots,         *)
(* restarts and copies of requests: the steps of the Controller and the    *)
(* theorems.                                                               *)
(***************************************************************************)
EXTENDS HostReboot, TLAPS

Requests == [op : Op, boot : Nat, started : Nat]
Receipts == [request : Requests, state : {"unknown", "requested"}]
Hosts == [boot : Nat, started : Nat, pending : BOOLEAN]
Statuses ==
  [op : {"none", "queued", "running", "completed", "failed", "interrupted"},
   host : {"queued", "checking", "requested", "unknown", "rejected", "rebooted"},
   boot : Nat, started : Nat]

AgentShape ==
  /\ boot \in Nat
  /\ attempts \in Seq([op : Op, boot : Nat])
  /\ agent \in [started : Nat, pending : BOOLEAN, pc : {"idle", "prepare", "committed"},
                request : Requests \cup {None}]
  /\ receipt \in Receipts \cup {None} /\ receiptDisk \in Receipts \cup {None}
  /\ net \subseteq Requests /\ rejections \subseteq net
  /\ replies \subseteq [op : Op, state : {"unknown", "requested", "rejected"}]

ControllerShape ==
  /\ report \in Hosts /\ seen \in Hosts
  /\ pc \in [Op -> {"new", "queued", "hold", "check", "mark", "fence", "send", "sent",
                    "confirm", "failed", "done"}]
  /\ status \in [Op -> Statuses] /\ saved \in [Op -> Statuses]
  /\ hold \in BOOLEAN /\ holdDisk \in BOOLEAN
  /\ fence \in Requests \cup {None}
  /\ enable \in [proof : Hosts \cup {None}, agent : Hosts \cup {None}] \cup {None}
-----------------------------------------------------------------------------
(* The Agent *)

\* Helpers were started on this boot or on earlier ones.
Past == \A i \in DOMAIN attempts : attempts[i].boot \in Nat /\ attempts[i].boot <= boot

\* A helper was started on the present boot.
Helped == \E i \in DOMAIN attempts : attempts[i].boot = boot

\* A request being served is of this boot and instance, was not rejected, and is
\* the first of the boot.
Serving ==
  /\ agent.pc = "idle" <=> agent.request = None
  /\ agent.pc # "idle" =>
       /\ agent.request \in net \ rejections /\ ~Helped
       /\ agent.request.boot = boot /\ agent.request.started = agent.started
  /\ agent.pc = "prepare" => ~HasReceipt

\* Before the helper, its receipt is durable.
Committed ==
  agent.pc = "committed" =>
    receipt = [request |-> agent.request, state |-> "unknown"] /\ receiptDisk = receipt

\* After the helper, its receipt is kept in memory and on disk.
Receipted ==
  \A i \in DOMAIN attempts : attempts[i].boot = boot =>
    /\ HasReceipt /\ receiptDisk # None /\ receiptDisk.request = receipt.request
    /\ receipt.request.op = attempts[i].op /\ receipt.request \in net \ rejections

\* A helper is started for a request that is never rejected.
Attempted ==
  \A i \in DOMAIN attempts : \E r \in net \ rejections :
    r.op = attempts[i].op /\ r.boot = attempts[i].boot

\* A rejection that is told is durable.
Told == \A a \in replies : a.state = "rejected" => \E r \in rejections : r.op = a.op

AgentInv ==
  AgentShape /\ Past /\ OneHelperPerBoot /\ Serving /\ Committed /\ Receipted /\ Attempted /\ Told
-----------------------------------------------------------------------------
(* The Controller *)

\* An operation dispatches one request, after it has recorded that it may have.
Dispatched ==
  \A r \in net :
    /\ r.boot = status[r.op].boot /\ r.started = status[r.op].started
    /\ pc[r.op] \in {"sent", "confirm", "failed", "done"}
    /\ status[r.op].host # "queued" /\ saved[r.op].host # "queued"

\* What the Controller knows of the host is not ahead of it.
Known(h) == h.boot <= boot /\ h.started <= agent.started
Times ==
  /\ Known(report) /\ Known(seen)
  /\ \A o \in Op : /\ Known(status[o])
                   /\ saved[o].boot = status[o].boot /\ saved[o].started = status[o].started
  /\ enable # None /\ enable.proof # None => Known(enable.proof)

\* Reported outcomes are true, also those that only the disk has.
Rejected(o) == \A r \in net : r.op = o => r \in rejections
Faithful(o, s) ==
  /\ s.host = "rejected" => Rejected(o)
  /\ s.host = "rebooted" => s.boot < boot
Outcomes == \A o \in Op : Faithful(o, status[o]) /\ Faithful(o, saved[o])

\* A request that the present Agent serves, or would if it were not pending.
Danger(r) ==
  \/ r.boot = boot /\ r.started = agent.started /\ r \notin rejections /\ ~HasReceipt
  \/ agent.request = r
Safe == \A r \in net : ~Danger(r)

Target(o) == [op |-> o, boot |-> status[o].boot, started |-> status[o].started]

\* The operations pass their stages one at a time.
Staged ==
  /\ \A o, p \in Active : o = p
  /\ \A o \in Op :
       /\ pc[o] \in {"fence", "send", "sent"} =>
            status[o].host = "checking" /\ saved[o].host = "checking"
       /\ pc[o] \in {"mark", "fence", "send"} => Safe
       /\ pc[o] \in {"send", "sent"} => fence = Target(o)

\* A request that can still act is the one of the fence.
Fenced ==
  /\ \A r \in net : Danger(r) => fence = r
  /\ EnableLocked => Active = {} /\ fence = None

\* If a hold is written or not, an operation that dispatches holds the host, and a
\* host without a hold is safe.
Held ==
  ~HoldSyncFails =>
    /\ hold = holdDisk
    /\ \A o \in Op : pc[o] \in {"check", "mark", "fence", "send", "sent"} => hold
    /\ ~hold => Safe

ControllerInv == ControllerShape /\ Dispatched /\ Times /\ Outcomes /\ Staged /\ Fenced /\ Held

IInv == AgentInv /\ ControllerInv
-----------------------------------------------------------------------------
(* Records *)

LEMMA NotNone ==
  /\ \A r \in Requests : r # None
  /\ \A r \in Receipts : r # None
  /\ \A h \in Hosts : h # None
  /\ \A p, a : [proof |-> p, agent |-> a] # None
<1>1. DOMAIN None = {"none"}
  BY Zenon DEF None
<1>2. \A r \in Requests : DOMAIN r = {"op", "boot", "started"}
  BY Zenon DEF Requests
<1>3. \A r \in Receipts : DOMAIN r = {"request", "state"}
  BY Zenon DEF Receipts
<1>4. \A h \in Hosts : DOMAIN h = {"boot", "started", "pending"}
  BY Zenon DEF Hosts
<1>5. \A p, a : DOMAIN [proof |-> p, agent |-> a] = {"proof", "agent"}
  BY Zenon
<1> QED
  BY <1>1, <1>2, <1>3, <1>4, <1>5, Zenon

LEMMA SameRequest ==
  ASSUME NEW r \in Requests, NEW s \in Requests,
         r.op = s.op, r.boot = s.boot, r.started = s.started
  PROVE  r = s
  BY DEF Requests

\* An operation has one request.
LEMMA OneRequest ==
  ASSUME AgentShape, Dispatched, NEW r \in net, NEW s \in net, r.op = s.op
  PROVE  r = s
<1>1. r \in Requests /\ s \in Requests /\ r.boot = s.boot /\ r.started = s.started
  BY Zenon DEF AgentShape, Dispatched
<1> QED
  BY <1>1, SameRequest, Zenon
-----------------------------------------------------------------------------
(* Steps of the Agent *)

\* What the Controller sees of them: rejections are kept, time goes on, and
\* nothing that was safe becomes dangerous.
AgentStep ==
  /\ net' = net /\ rejections \subseteq rejections'
  /\ boot' \in Nat /\ boot <= boot' /\ agent'.started \in Nat /\ agent.started <= agent'.started
  /\ \A r \in net : Danger(r)' => Danger(r)
  /\ UNCHANGED <<report, seen, pc, status, saved, hold, holdDisk, fence, enable>>

LEMMA AgentStepKeeps ==
  ASSUME AgentShape, ControllerInv, AgentStep
  PROVE  ControllerInv'
<1>1. ControllerShape' /\ Dispatched'
  BY Zenon DEF ControllerInv, AgentStep, ControllerShape, Dispatched
<1>2. \A h \in Hosts : Known(h) => Known(h)'
  BY DEF AgentStep, AgentShape, Known, Hosts
<1>3. \A h \in Statuses : Known(h) => Known(h)'
  BY DEF AgentStep, AgentShape, Known, Statuses
<1>4. Times'
  <2>1. Known(report)' /\ Known(seen)'
    BY <1>2, Zenon DEF ControllerInv, ControllerShape, Times, AgentStep, Known
  <2>2. \A o \in Op : /\ Known(status[o])'
                      /\ saved'[o].boot = status'[o].boot /\ saved'[o].started = status'[o].started
    BY <1>3, Zenon DEF ControllerInv, ControllerShape, Times, AgentStep, Known
  <2>3. enable' # None /\ enable'.proof # None => Known(enable.proof)'
    BY <1>2, Zenon DEF ControllerInv, ControllerShape, Times, AgentStep, Known
  <2> QED
    BY <2>1, <2>2, <2>3, Zenon DEF Times, AgentStep, Known
<1>5. Outcomes'
  <2>1. \A o \in Op : Rejected(o) => Rejected(o)'
    BY Zenon DEF Rejected, AgentStep
  <2>2. \A o \in Op : status[o].boot \in Nat /\ saved[o].boot \in Nat
    BY Zenon DEF ControllerInv, ControllerShape, Statuses
  <2>3. \A o \in Op : Faithful(o, status[o])'
    BY <2>1, <2>2 DEF ControllerInv, Outcomes, Faithful, AgentStep, AgentShape
  <2>4. \A o \in Op : Faithful(o, saved[o])'
    BY <2>1, <2>2 DEF ControllerInv, Outcomes, Faithful, AgentStep, AgentShape
  <2> QED
    BY <2>3, <2>4, Zenon DEF Outcomes
<1>6. Safe => Safe'
  BY Zenon DEF Safe, AgentStep
<1>7. Staged'
  BY <1>6, Zenon DEF ControllerInv, Staged, AgentStep, Active, Target
<1>8. Fenced'
  BY Zenon DEF ControllerInv, Fenced, AgentStep, Active, EnableLocked
<1>9. Held'
  BY <1>6, Zenon DEF ControllerInv, Held, AgentStep
<1> QED
  BY <1>1, <1>4, <1>5, <1>7, <1>8, <1>9, Zenon DEF ControllerInv

\* What becomes of a request that is not accepted.
LEMMA RejectFacts ==
  ASSUME AgentShape, Told, NEW r \in net, NEW pending \in BOOLEAN, Reject(r, pending)
  PROVE  /\ agent' \in [started : Nat, pending : BOOLEAN, pc : {"idle", "prepare", "committed"},
                        request : Requests \cup {None}]
         /\ agent'.pc = "idle" /\ agent'.request = None /\ agent'.started = agent.started
         /\ rejections \subseteq rejections' /\ rejections' \subseteq rejections \cup {r}
         /\ replies' \subseteq [op : Op, state : {"unknown", "requested", "rejected"}]
         /\ net' = net => Told'
<1>1. r.op \in Op
  BY Zenon DEF AgentShape, Requests
<1>2. agent'.pc = "idle" /\ agent'.request = None /\ agent'.started = agent.started
  BY Zenon DEF Reject, Unresolved, AgentShape
<1>3. agent' \in [started : Nat, pending : BOOLEAN, pc : {"idle", "prepare", "committed"},
                  request : Requests \cup {None}]
  BY Zenon DEF Reject, Unresolved, AgentShape
<1>4. rejections \subseteq rejections' /\ rejections' \subseteq rejections \cup {r}
  BY Zenon DEF Reject
<1>5. \E state \in {"unknown", "rejected"} :
        /\ replies' = replies \cup {[op |-> r.op, state |-> state]}
        /\ state = "rejected" => r \in rejections'
  BY Zenon DEF Reject, Unresolved
<1>6. Told'
  BY <1>4, <1>5 DEF Told
<1> QED
  BY <1>1, <1>2, <1>3, <1>4, <1>5, <1>6 DEF AgentShape

\* A request that is not accepted, and has no receipt, leaves the Agent idle.
LEMMA RejectKeeps ==
  ASSUME IInv, NEW r \in net, NEW pending \in BOOLEAN, Reject(r, pending), r.boot = boot,
         HasReceipt => receipt.request # r,
         receiptDisk' \in Receipts \cup {None}, Helped => receiptDisk' = receiptDisk,
         UNCHANGED <<boot, attempts, receipt, net>>
  PROVE  AgentInv' /\ rejections \subseteq rejections' /\ agent'.started = agent.started
         /\ \A s \in net : Danger(s)' => Danger(s)
<1>1. /\ AgentShape'
      /\ agent'.pc = "idle" /\ agent'.request = None /\ agent'.started = agent.started
      /\ rejections \subseteq rejections' /\ rejections' \subseteq rejections \cup {r}
      /\ Told'
  BY RejectFacts, Zenon DEF IInv, AgentInv, AgentShape
<1>2. HasReceipt' = HasReceipt /\ Helped' = Helped
  BY Zenon DEF HasReceipt, Helped
<1>3. \A i \in DOMAIN attempts : attempts[i].op # r.op
  <2> SUFFICES ASSUME NEW i \in DOMAIN attempts, attempts[i].op = r.op
               PROVE  FALSE
    BY Zenon
  <2>1. PICK s \in net \ rejections : s.op = attempts[i].op /\ s.boot = attempts[i].boot
    BY Zenon DEF IInv, AgentInv, Attempted
  <2>2. s = r
    BY <2>1, OneRequest, Zenon DEF IInv, AgentInv, ControllerInv
  <2>3. HasReceipt /\ receipt.request.op = r.op /\ receipt.request \in net
    BY <2>1, <2>2, Zenon DEF IInv, AgentInv, Receipted
  <2> QED
    BY <2>3, OneRequest, Zenon DEF IInv, AgentInv, ControllerInv
<1>4. Attempted'
  <2> SUFFICES ASSUME NEW i \in DOMAIN attempts
               PROVE  \E s \in net \ rejections' :
                        s.op = attempts[i].op /\ s.boot = attempts[i].boot
    BY Zenon DEF Attempted
  <2>1. PICK s \in net \ rejections : s.op = attempts[i].op /\ s.boot = attempts[i].boot
    BY Zenon DEF IInv, AgentInv, Attempted
  <2> QED
    BY <1>1, <1>3, <2>1, Zenon
<1>5. Receipted'
  <2> SUFFICES ASSUME NEW i \in DOMAIN attempts, attempts[i].boot = boot
               PROVE  /\ HasReceipt /\ receiptDisk' # None /\ receiptDisk'.request = receipt.request
                      /\ receipt.request.op = attempts[i].op
                      /\ receipt.request \in net \ rejections'
    BY <1>2, Zenon DEF Receipted
  <2>1. /\ HasReceipt /\ receiptDisk # None /\ receiptDisk.request = receipt.request
        /\ receipt.request.op = attempts[i].op /\ receipt.request \in net \ rejections
    BY Zenon DEF IInv, AgentInv, Receipted
  <2>2. receiptDisk' = receiptDisk
    BY Zenon DEF Helped
  <2> QED
    BY <1>1, <2>1, <2>2, Zenon
<1>6. Past' /\ OneHelperPerBoot' /\ Serving' /\ Committed'
  BY <1>1, <1>2, Zenon DEF IInv, AgentInv, Past, OneHelperPerBoot, Serving, Committed
<1>7. ASSUME NEW s \in net, Danger(s)'
      PROVE  Danger(s)
  <2>1. s # None
    BY NotNone, Zenon DEF IInv, AgentInv, AgentShape
  <2> QED
    BY <1>1, <1>2, <1>7, <2>1, Zenon DEF Danger
<1> QED
  BY <1>1, <1>4, <1>5, <1>6, <1>7, Zenon DEF AgentInv

LEMMA ReceiveKeeps ==
  ASSUME IInv, NEW r \in net, Receive(r)
  PROVE  AgentInv' /\ AgentStep
<1>1. /\ UNCHANGED <<boot, attempts, receipt, receiptDisk, net>>
      /\ UNCHANGED <<report, seen, pc, status, saved, hold, holdDisk, fence, enable>>
      /\ agent.pc = "idle" /\ r.boot = boot /\ r.started = agent.started /\ r.op \in Op
  BY Zenon DEF Receive, AgentUnchanged, ctlVars, IInv, AgentInv, AgentShape, Requests
<1>2. HasReceipt' = HasReceipt /\ Helped' = Helped
  BY <1>1, Zenon DEF HasReceipt, Helped
<1>3. boot \in Nat /\ agent.started \in Nat /\ agent.pending \in BOOLEAN
  BY Zenon DEF IInv, AgentInv, AgentShape
<1>4. CASE \/ /\ r \in rejections
              /\ replies' = replies \cup {[op |-> r.op, state |-> "rejected"]}
              /\ UNCHANGED <<agent, rejections>>
           \/ /\ HasReceipt /\ replies' = replies \cup {[op |-> r.op, state |-> receipt.state]}
              /\ UNCHANGED <<agent, rejections>>
  <2>1. PICK state \in {"unknown", "requested", "rejected"} :
          /\ replies' = replies \cup {[op |-> r.op, state |-> state]}
          /\ state = "rejected" => r \in rejections
    BY <1>4, Zenon DEF HasReceipt, IInv, AgentInv, AgentShape, Receipts
  <2>2. AgentShape' /\ Told'
    BY <1>1, <1>4, <2>1 DEF IInv, AgentInv, AgentShape, Told
  <2>3. Past' /\ OneHelperPerBoot' /\ Serving' /\ Committed' /\ Receipted' /\ Attempted'
    BY <1>1, <1>2, <1>4, Zenon DEF IInv, AgentInv, Past, OneHelperPerBoot, Serving, Committed,
         Receipted, Attempted
  <2>4. \A s \in net : Danger(s)' => Danger(s)
    BY <1>1, <1>2, <1>4, Zenon DEF Danger
  <2> QED
    BY <1>1, <1>3, <1>4, <2>2, <2>3, <2>4 DEF AgentInv, AgentStep
<1>5. CASE Unresolved(r) /\ UNCHANGED rejections
  <2>1. /\ agent'.pc = "idle" /\ agent'.request = None /\ agent'.started = agent.started
        /\ AgentShape'
    <3>1. /\ agent' = [agent EXCEPT !.pc = "idle", !.request = None, !.pending = TRUE]
          /\ replies' = replies \cup {[op |-> r.op, state |-> "unknown"]}
      BY <1>5, Zenon DEF Unresolved
    <3>2. /\ agent'.pc = "idle" /\ agent'.request = None /\ agent'.started = agent.started
          /\ agent' \in [started : Nat, pending : BOOLEAN,
                         pc : {"idle", "prepare", "committed"}, request : Requests \cup {None}]
      BY <3>1, Zenon DEF IInv, AgentInv, AgentShape
    <3> QED
      BY <1>1, <1>5, <3>1, <3>2 DEF IInv, AgentInv, AgentShape
  <2>2. Told'
    BY <1>1, <1>5 DEF Unresolved, IInv, AgentInv, Told
  <2>3. Past' /\ OneHelperPerBoot' /\ Serving' /\ Committed' /\ Receipted' /\ Attempted'
    BY <1>1, <1>2, <1>5, <2>1 DEF IInv, AgentInv, Past, OneHelperPerBoot, Serving, Committed,
         Receipted, Attempted
  <2>4. ASSUME NEW s \in net, Danger(s)'
        PROVE  Danger(s)
    <3>1. s # None
      BY NotNone, Zenon DEF IInv, AgentInv, AgentShape
    <3> QED
      BY <1>1, <1>2, <1>5, <2>1, <2>4, <3>1, Zenon DEF Danger
  <2> QED
    BY <1>1, <1>3, <1>5, <2>1, <2>2, <2>3, <2>4 DEF AgentInv, AgentStep
<1>6. CASE \/ OtherReceipt(r) /\ Reject(r, agent.pending)
           \/ /\ ~OtherReceipt(r) /\ ~(HasReceipt /\ receipt.request = r)
              /\ Reject(r, agent.pending)
  <2>1. PICK pending \in BOOLEAN : Reject(r, pending)
    BY <1>3, <1>6, Zenon
  <2>2. HasReceipt => receipt.request # r
    BY <1>6, Zenon DEF OtherReceipt
  <2>3. receiptDisk' \in Receipts \cup {None}
    BY <1>1, Zenon DEF IInv, AgentInv, AgentShape
  <2>4. AgentInv' /\ rejections \subseteq rejections' /\ agent'.started = agent.started
        /\ \A s \in net : Danger(s)' => Danger(s)
    BY <1>1, <2>1, <2>2, <2>3, RejectKeeps, Zenon
  <2> QED
    BY <1>1, <1>3, <2>4 DEF AgentStep
<1>7. CASE /\ r \notin rejections /\ ~OtherReceipt(r) /\ ~(HasReceipt /\ receipt.request = r)
           /\ agent' = [agent EXCEPT !.pc = "prepare", !.request = r, !.pending = TRUE]
           /\ UNCHANGED <<rejections, replies>>
  <2>1. ~HasReceipt /\ ~Helped
    BY <1>7, Zenon DEF OtherReceipt, IInv, AgentInv, Receipted, Helped
  <2>2. /\ agent'.pc = "prepare" /\ agent'.request = r /\ agent'.started = agent.started
        /\ AgentShape' /\ r # None
    BY <1>1, <1>7, NotNone, Zenon DEF IInv, AgentInv, AgentShape
  <2>3. Past' /\ OneHelperPerBoot' /\ Serving' /\ Committed' /\ Receipted' /\ Attempted' /\ Told'
    BY <1>1, <1>2, <1>7, <2>1, <2>2 DEF IInv, AgentInv, Past, OneHelperPerBoot, Serving,
         Committed, Receipted, Attempted, Told
  <2>4. \A s \in net : Danger(s)' => Danger(s)
    BY <1>1, <1>2, <1>7, <2>1, <2>2, Zenon DEF Danger
  <2> QED
    BY <1>1, <1>3, <1>7, <2>2, <2>3, <2>4 DEF AgentInv, AgentStep
<1> QED
  BY <1>4, <1>5, <1>6, <1>7, Zenon DEF Receive

LEMMA RefuseKeeps ==
  ASSUME IInv, Refuse
  PROVE  AgentInv' /\ AgentStep
<1>1. /\ UNCHANGED <<boot, attempts, receipt, receiptDisk, net>>
      /\ UNCHANGED <<report, seen, pc, status, saved, hold, holdDisk, fence, enable>>
      /\ agent.pc = "prepare" /\ Reject(agent.request, FALSE)
  BY Zenon DEF Refuse, AgentUnchanged, ctlVars
<1>2. PICK r \in net : r = agent.request /\ r.boot = boot /\ Reject(r, FALSE) /\ ~HasReceipt
  BY <1>1, Zenon DEF IInv, AgentInv, Serving
<1>3. boot \in Nat /\ agent.started \in Nat /\ receiptDisk' \in Receipts \cup {None}
  BY <1>1, Zenon DEF IInv, AgentInv, AgentShape
<1>4. AgentInv' /\ rejections \subseteq rejections' /\ agent'.started = agent.started
      /\ \A s \in net : Danger(s)' => Danger(s)
  BY <1>1, <1>2, <1>3, RejectKeeps, Zenon
<1> QED
  BY <1>1, <1>3, <1>4 DEF AgentStep

LEMMA CommitKeeps ==
  ASSUME IInv, Commit
  PROVE  AgentInv' /\ AgentStep
<1> DEFINE new == [request |-> agent.request, state |-> "unknown"]
<1>1. /\ UNCHANGED <<boot, attempts, net>> /\ agent.pc = "prepare"
      /\ UNCHANGED <<report, seen, pc, status, saved, hold, holdDisk, fence, enable>>
  BY Zenon DEF Commit, AgentUnchanged, ctlVars
<1>2. /\ agent.request \in net \ rejections /\ agent.request.boot = boot /\ ~HasReceipt /\ ~Helped
      /\ agent.request \in Requests /\ agent.request.started = agent.started
  BY <1>1, Zenon DEF IInv, AgentInv, AgentShape, Serving
<1>3. boot \in Nat /\ agent.started \in Nat /\ new \in Receipts
  BY <1>2, Zenon DEF IInv, AgentInv, AgentShape, Receipts
<1>4. CASE /\ receiptDisk' \in {receiptDisk, new} /\ UNCHANGED receipt
           /\ Reject(agent.request, FALSE)
  <2>1. PICK r \in net : r = agent.request /\ r.boot = boot /\ Reject(r, FALSE)
    BY <1>2, <1>4, Zenon
  <2>2. receiptDisk' \in Receipts \cup {None}
    BY <1>3, <1>4, Zenon DEF IInv, AgentInv, AgentShape
  <2>3. AgentInv' /\ rejections \subseteq rejections' /\ agent'.started = agent.started
        /\ \A s \in net : Danger(s)' => Danger(s)
    BY <1>1, <1>2, <1>4, <2>1, <2>2, RejectKeeps, Zenon
  <2> QED
    BY <1>1, <1>3, <2>3 DEF AgentStep
<1>5. CASE /\ receipt' = new /\ receiptDisk' = new
           /\ agent' = [agent EXCEPT !.pc = "committed"]
           /\ UNCHANGED <<rejections, replies>>
  <2>1. /\ agent'.pc = "committed" /\ agent'.request = agent.request
        /\ agent'.started = agent.started /\ AgentShape'
    BY <1>1, <1>3, <1>5, Zenon DEF IInv, AgentInv, AgentShape
  <2>2. HasReceipt'
    BY <1>1, <1>2, <1>3, <1>5, NotNone, Zenon DEF HasReceipt
  <2>3. Helped' = Helped /\ agent.request # None
    BY <1>1, <1>2, NotNone, Zenon DEF Helped
  <2>4. Past' /\ OneHelperPerBoot' /\ Serving' /\ Committed' /\ Receipted' /\ Attempted' /\ Told'
    BY <1>1, <1>2, <1>5, <2>1, <2>2, <2>3, Zenon DEF IInv, AgentInv, Past, OneHelperPerBoot, Serving,
         Committed, Receipted, Attempted, Told, Helped
  <2>5. \A s \in net : Danger(s)' => Danger(s)
    BY <1>1, <1>5, <2>1, <2>2, Zenon DEF Danger
  <2> QED
    BY <1>1, <1>3, <1>5, <2>1, <2>4, <2>5 DEF AgentInv, AgentStep
<1> QED
  BY <1>4, <1>5, Zenon DEF Commit

LEMMA StartHelperKeeps ==
  ASSUME IInv, NEW state \in {"requested", "unknown"}, StartHelper(state)
  PROVE  AgentInv' /\ AgentStep
<1> DEFINE e == [op |-> agent.request.op, boot |-> boot]
           new == [receipt EXCEPT !.state = state]
<1>1. /\ UNCHANGED <<boot, rejections, net>>
      /\ UNCHANGED <<report, seen, pc, status, saved, hold, holdDisk, fence, enable>>
      /\ agent.pc = "committed" /\ attempts' = Append(attempts, e)
      /\ receipt' \in {receipt, new} /\ receiptDisk' \in {receiptDisk, new}
      /\ agent' = [agent EXCEPT !.pc = "idle", !.request = None]
      /\ replies' = replies \cup {[op |-> agent.request.op, state |-> receipt'.state]}
  BY Zenon DEF StartHelper, AgentUnchanged, ctlVars
<1>2. /\ ~Helped /\ agent.request.boot = boot /\ agent.request \in net \ rejections
      /\ agent.request \in Requests
      /\ receipt = [request |-> agent.request, state |-> "unknown"] /\ receiptDisk = receipt
  BY <1>1, Zenon DEF IInv, AgentInv, AgentShape, Serving, Committed
<1>3. new = [request |-> agent.request, state |-> state]
  BY <1>2
<1>4. /\ receipt' \in Receipts /\ receipt'.request = agent.request
      /\ receiptDisk' \in Receipts /\ receiptDisk'.request = agent.request
      /\ receipt' # None /\ receiptDisk' # None
  BY <1>1, <1>2, <1>3, NotNone DEF Receipts
<1>5. e \in [op : Op, boot : Nat] /\ boot \in Nat /\ agent.started \in Nat
  BY <1>2, Zenon DEF IInv, AgentInv, AgentShape, Requests
<1>6. /\ agent'.pc = "idle" /\ agent'.request = None /\ agent'.started = agent.started
      /\ agent' \in [started : Nat, pending : BOOLEAN, pc : {"idle", "prepare", "committed"},
                     request : Requests \cup {None}]
  BY <1>1, Zenon DEF IInv, AgentInv, AgentShape
<1>7. [op |-> agent.request.op, state |-> receipt'.state] \in [op : Op, state : {"unknown", "requested"}]
  BY <1>2, <1>4, Zenon DEF Receipts, Requests
<1>8. AgentShape' /\ Told'
  BY <1>1, <1>4, <1>5, <1>6, <1>7 DEF IInv, AgentInv, AgentShape, Told
<1>9. /\ attempts \in Seq([op : Op, boot : Nat])
      /\ DOMAIN attempts = 1..Len(attempts) /\ Len(attempts) \in Nat
      /\ DOMAIN attempts' = 1..(Len(attempts) + 1)
      /\ \A i \in 1..Len(attempts) : attempts'[i] = attempts[i]
      /\ attempts'[Len(attempts) + 1] = e
  BY <1>1, <1>5 DEF IInv, AgentInv, AgentShape
<1>10. \A i \in DOMAIN attempts' :
         \/ i \in DOMAIN attempts /\ attempts'[i] = attempts[i] /\ attempts[i].boot # boot
         \/ i = Len(attempts) + 1 /\ attempts'[i].op = agent.request.op /\ attempts'[i].boot = boot
  BY <1>2, <1>9 DEF Helped
<1>11. OneHelperPerBoot'
  BY <1>10, Zenon DEF IInv, AgentInv, OneHelperPerBoot
<1>12. Past' /\ Attempted'
  <2>1. Past'
    BY <1>1, <1>5, <1>10 DEF IInv, AgentInv, Past
  <2>2. Attempted'
    BY <1>1, <1>2, <1>10 DEF IInv, AgentInv, Attempted
  <2> QED
    BY <2>1, <2>2, Zenon
<1>13. HasReceipt'
  BY <1>1, <1>2, <1>4, Zenon DEF HasReceipt
<1>14. Receipted'
  BY <1>1, <1>2, <1>4, <1>10, <1>13 DEF Receipted
<1>15. Serving' /\ Committed'
  BY <1>6, Zenon DEF Serving, Committed
<1>16. ASSUME NEW s \in net, Danger(s)'
       PROVE  Danger(s)
  <2>1. s # None
    BY NotNone, Zenon DEF IInv, AgentInv, AgentShape
  <2> QED
    BY <1>6, <1>13, <1>16, <2>1, Zenon DEF Danger
<1> QED
  BY <1>1, <1>5, <1>6, <1>8, <1>11, <1>12, <1>14, <1>15, <1>16 DEF AgentInv, AgentStep

\* An Agent that starts on the present boot keeps the receipt of a helper; on a
\* new boot no helper was started yet.  No request is for the new instance.
LEMMA InitializeKeeps ==
  ASSUME IInv, NEW b \in {boot, boot + 1}, boot' = b, Initialize(b)
  PROVE  AgentInv' /\ AgentStep
<1>1. /\ UNCHANGED <<attempts, receiptDisk, rejections, net, replies>>
      /\ UNCHANGED <<report, seen, pc, status, saved, hold, holdDisk, fence, enable>>
      /\ receipt' \in {None, receiptDisk}
      /\ agent'.pc = "idle" /\ agent'.request = None /\ agent'.started = agent.started + 1
  BY Zenon DEF Initialize, wire, ctlVars
<1>2. boot \in Nat /\ agent.started \in Nat /\ b \in Nat /\ boot <= b
  BY DEF IInv, AgentInv, AgentShape
<1>3. agent' \in [started : Nat, pending : BOOLEAN, pc : {"idle", "prepare", "committed"},
                  request : Requests \cup {None}]
  BY <1>2 DEF Initialize
<1>4. AgentShape'
  BY <1>1, <1>2, <1>3, Zenon DEF IInv, AgentInv, AgentShape
<1>5. Past' /\ OneHelperPerBoot' /\ Serving' /\ Committed' /\ Attempted' /\ Told'
  <2>1. \A i \in DOMAIN attempts : attempts[i].boot \in Nat
    BY Zenon DEF IInv, AgentInv, Past
  <2> QED
    BY <1>1, <1>2, <2>1 DEF IInv, AgentInv, Past, OneHelperPerBoot, Serving, Committed,
         Attempted, Told
<1>6. Receipted'
  <2> SUFFICES ASSUME NEW i \in DOMAIN attempts, attempts[i].boot = b
               PROVE  /\ HasReceipt' /\ receiptDisk # None
                      /\ receiptDisk.request = receipt'.request
                      /\ receipt'.request.op = attempts[i].op
                      /\ receipt'.request \in net \ rejections
    BY <1>1, Zenon DEF Receipted
  <2>1. b = boot
    BY <1>2 DEF IInv, AgentInv, AgentShape, Past
  <2>2. /\ receiptDisk # None /\ receiptDisk.request.boot = boot
        /\ receiptDisk.request.op = attempts[i].op /\ receiptDisk.request \in net \ rejections
    BY <2>1, Zenon DEF IInv, AgentInv, Receipted, HasReceipt
  <2>3. receipt' = receiptDisk
    BY <2>2, Zenon DEF Initialize
  <2> QED
    BY <1>1, <2>1, <2>2, <2>3, Zenon DEF HasReceipt
<1>7. ASSUME NEW s \in net
      PROVE  ~Danger(s)'
  <2>1. s \in Requests /\ s # None /\ s.op \in Op
    BY NotNone, Zenon DEF IInv, AgentInv, AgentShape, Requests
  <2>2. s.started <= agent.started /\ s.started \in Nat
    BY <2>1, Zenon DEF IInv, ControllerInv, Dispatched, Times, Known, Requests
  <2> QED
    BY <1>1, <1>2, <2>1, <2>2 DEF Danger
<1> QED
  BY <1>1, <1>2, <1>4, <1>5, <1>6, <1>7 DEF AgentInv, AgentStep
-----------------------------------------------------------------------------
(* Steps of the Controller *)

Quiet == UNCHANGED <<boot, attempts, agent, receipt, receiptDisk, rejections, replies>>

Pcs == {"new", "queued", "hold", "check", "mark", "fence", "send", "sent", "confirm", "failed",
        "done"}
Sent == {"sent", "confirm", "failed", "done"}

LEMMA QuietKeepsAgent ==
  ASSUME AgentInv, Quiet, net' = net
  PROVE  AgentInv'
  BY DEF Quiet, AgentInv, AgentShape, Past, OneHelperPerBoot, Serving, Helped, HasReceipt,
         Committed, Receipted, Attempted, Told

LEMMA QuietIsSafe ==
  ASSUME Quiet, net' = net
  PROVE  /\ Safe' = Safe
         /\ \A r \in net : Danger(r)' = Danger(r)
         /\ \A o \in Op, s \in Statuses : Faithful(o, s)' = Faithful(o, s)
         /\ \A h : Known(h)' = Known(h)
  BY Zenon DEF Quiet, Safe, Danger, HasReceipt, Faithful, Rejected, Known

\* updateHostReboot, whether it fails or not.
Writes(o, new) ==
  /\ status' = [status EXCEPT ![o] = new]
  /\ saved' \in {saved, [saved EXCEPT ![o] = new]}

LEMMA WritesFacts ==
  ASSUME NEW o \in Op, NEW new, Set(o, new) \/ SetFails(o, new)
  PROVE  Writes(o, new)
  BY Zenon DEF Set, SetFails, Writes

LEMMA NoWrite ==
  ASSUME ControllerShape, NEW o \in Op, UNCHANGED <<status, saved>>
  PROVE  Writes(o, status[o])
  BY Zenon DEF Writes, ControllerShape

\* What the Controller knows of the host stays behind it while the host rests.
LEMMA TimesKept ==
  ASSUME Times, Quiet, UNCHANGED <<report, seen, enable>>,
         \A p \in Op : /\ status'[p].boot = status[p].boot /\ status'[p].started = status[p].started
                       /\ saved'[p].boot = saved[p].boot /\ saved'[p].started = saved[p].started
  PROVE  Times'
<1>1. /\ boot' = boot /\ agent' = agent /\ report' = report /\ seen' = seen /\ enable' = enable
  BY Zenon DEF Quiet
<1>2. Known(report)' /\ Known(seen)'
  BY <1>1, Zenon DEF Times, Known
<1>3. \A p \in Op : Known(status[p])'
  BY <1>1, Zenon DEF Times, Known
<1>4. enable' # None /\ enable'.proof # None => Known(enable.proof)'
  BY <1>1, Zenon DEF Times, Known
<1>5. \A p \in Op : saved'[p].boot = status'[p].boot /\ saved'[p].started = status'[p].started
  BY Zenon DEF Times
<1> QED
  BY <1>2, <1>3, <1>4, <1>5, Zenon DEF Times

\* One worker at a time has left the queue: a step of o alone keeps it so.
LEMMA ActiveKept ==
  ASSUME NEW o \in Op, NEW to \in Pcs, pc'[o] = to, \A p \in Op : p # o => pc'[p] = pc[p],
         to \in {"new", "queued", "done"} \/ o \in Active \/ (Active = {} /\ ~EnableLocked),
         \A p, q \in Active : p = q
  PROVE  /\ \A p \in Op : p # o => (p \in Active' <=> p \in Active)
         /\ o \in Active' => o \in Active \/ (Active = {} /\ ~EnableLocked)
         /\ \A p, q \in Active' : p = q
<1>1. \A p \in Op : p # o => (p \in Active' <=> p \in Active)
  BY Zenon DEF Active
<1>2. o \in Active' => o \in Active \/ (Active = {} /\ ~EnableLocked)
  BY Zenon DEF Active
<1>3. Active' \subseteq Op
  BY Zenon DEF Active
<1> QED
  BY <1>1, <1>2, <1>3, Zenon

\* A worker goes on to the stage to with the outcome new.
LEMMA WorkerKeeps ==
  ASSUME IInv, Quiet, UNCHANGED <<report, seen, net, enable>>, NEW o \in Op, pc[o] # "new",
         NEW to \in Pcs, pc' = [pc EXCEPT ![o] = to], pc[o] \in Sent => to \in Sent,
         to \in {"new", "queued", "done"} \/ o \in Active \/ (Active = {} /\ ~EnableLocked),
         NEW new \in Statuses, Writes(o, new),
         new.boot = status[o].boot, new.started = status[o].started,
         new.host = "queued" => status[o].host = "queued", Faithful(o, new),
         to \in {"fence", "send", "sent"} => new.host = "checking" /\ saved'[o].host = "checking",
         to \in {"mark", "fence", "send"} => Safe,
         to \in {"send", "sent"} => fence' = Target(o),
         fence' \in Requests \cup {None},
         fence' = fence \/ (o \in Active /\ \A r \in net : Danger(r) => fence' = r),
         hold' \in BOOLEAN, holdDisk' \in BOOLEAN,
         ~HoldSyncFails => /\ hold' = holdDisk' /\ (hold => hold')
                           /\ to \in {"check", "mark", "fence", "send", "sent"} => hold'
  PROVE  IInv'
<1>1. /\ pc \in [Op -> Pcs] /\ pc'[o] = to /\ \A p \in Op : p # o => pc'[p] = pc[p]
      /\ pc' \in [Op -> Pcs]
  BY Zenon DEF IInv, ControllerInv, ControllerShape, Pcs
<1>2. /\ status' \in [Op -> Statuses] /\ status'[o] = new
      /\ \A p \in Op : p # o => status'[p] = status[p]
  BY Zenon DEF IInv, ControllerInv, ControllerShape, Writes
<1>3. /\ saved' \in [Op -> Statuses] /\ saved'[o] \in {saved[o], new}
      /\ \A p \in Op : p # o => saved'[p] = saved[p]
  BY DEF IInv, ControllerInv, ControllerShape, Writes
<1>4. ControllerShape'
  BY <1>1, <1>2, <1>3, Zenon DEF IInv, ControllerInv, ControllerShape, Quiet, Pcs
<1>5. \A p \in Op : /\ status'[p].boot = status[p].boot /\ status'[p].started = status[p].started
                    /\ saved'[p].boot = saved[p].boot /\ saved'[p].started = saved[p].started
  BY <1>2, <1>3, Zenon DEF IInv, ControllerInv, Times
<1>6. Dispatched'
  <2> SUFFICES ASSUME NEW r \in net
               PROVE  /\ r.boot = status'[r.op].boot /\ r.started = status'[r.op].started
                      /\ pc'[r.op] \in Sent
                      /\ status'[r.op].host # "queued" /\ saved'[r.op].host # "queued"
    BY Zenon DEF Dispatched, Sent
  <2>1. r.op \in Op
    BY Zenon DEF IInv, AgentInv, AgentShape, Requests
  <2>2. /\ r.boot = status[r.op].boot /\ r.started = status[r.op].started
        /\ pc[r.op] \in Sent
        /\ status[r.op].host # "queued" /\ saved[r.op].host # "queued"
    BY Zenon DEF IInv, ControllerInv, Dispatched, Sent
  <2> QED
    BY <1>1, <1>2, <1>3, <1>5, <2>1, <2>2
<1>7. Times'
  BY <1>5, TimesKept, Zenon DEF IInv, ControllerInv
<1>8. Outcomes'
  <2>1. \A p \in Op : Faithful(p, status[p])'
    BY <1>2, Zenon DEF IInv, ControllerInv, Outcomes, Faithful, Rejected, Quiet
  <2>2. \A p \in Op : Faithful(p, saved[p])'
    BY <1>3, Zenon DEF IInv, ControllerInv, Outcomes, Faithful, Rejected, Quiet
  <2> QED
    BY <2>1, <2>2, Zenon DEF Outcomes
<1>9. Safe' = Safe /\ \A r \in net : Danger(r)' = Danger(r)
  BY QuietIsSafe, Zenon
<1>10. /\ \A p \in Op : p # o => (p \in Active' <=> p \in Active)
       /\ o \in Active' => o \in Active \/ (Active = {} /\ ~EnableLocked)
       /\ \A p, q \in Active' : p = q
  <2>1. \A p, q \in Active : p = q
    BY Zenon DEF IInv, ControllerInv, Staged
  <2> QED
    BY <1>1, <2>1, ActiveKept, Zenon
<1>12. Staged'
  <2>2. ASSUME NEW p \in Op
        PROVE  /\ pc'[p] \in {"fence", "send", "sent"} =>
                    status'[p].host = "checking" /\ saved'[p].host = "checking"
               /\ pc'[p] \in {"mark", "fence", "send"} => Safe'
               /\ pc'[p] \in {"send", "sent"} => fence' = Target(p)'
    <3>1. Target(p)' = Target(p)
      BY <1>5 DEF Target
    <3>2. CASE p = o
      BY <1>1, <1>2, <1>9, <3>1, <3>2
    <3>3. CASE p # o
      <4>1. p \in Active /\ o \in Active => p = o
        BY Zenon DEF IInv, ControllerInv, Staged
      <4>2. pc[p] \in {"send", "sent"} => p \in Active
        BY Zenon DEF Active
      <4> QED
        BY <1>1, <1>2, <1>3, <1>9, <3>1, <3>3, <4>1, <4>2 DEF IInv, ControllerInv, Staged
    <3> QED
      BY <3>2, <3>3
  <2> QED
    BY <1>10, <2>2, Zenon DEF Staged
<1>13. Fenced'
  <2>1. EnableLocked' = EnableLocked
    BY Zenon DEF EnableLocked
  <2>2. EnableLocked => Active' = {} /\ fence' = None
    <3>1. Active' \subseteq Op
      BY Zenon DEF Active
    <3> QED
      BY <1>10, <3>1, Zenon DEF IInv, ControllerInv, Fenced
  <2> QED
    BY <1>9, <2>1, <2>2, Zenon DEF IInv, ControllerInv, Fenced
<1>14. Held'
  BY <1>1, <1>9 DEF IInv, ControllerInv, Held
<1>15. AgentInv'
  BY QuietKeepsAgent, Zenon DEF IInv
<1> QED
  BY <1>4, <1>6, <1>7, <1>8, <1>12, <1>13, <1>14, <1>15, Zenon DEF IInv, ControllerInv

LEMMA HostFacts ==
  ASSUME ControllerShape, NEW o \in Op,
         NEW h \in {"queued", "checking", "requested", "unknown", "rejected", "rebooted"}
  PROVE  /\ Host(o, h) \in Statuses /\ Host(o, h).host = h
         /\ Host(o, h).boot = status[o].boot /\ Host(o, h).started = status[o].started
<1>1. status[o] \in Statuses
  BY Zenon DEF ControllerShape
<1> QED
  BY <1>1, Zenon DEF Statuses, Host

LEMMA OperationFacts ==
  ASSUME ControllerShape, NEW o \in Op,
         NEW op \in {"none", "queued", "running", "completed", "failed", "interrupted"}
  PROVE  LET new == [status[o] EXCEPT !.op = op]
         IN  /\ new \in Statuses /\ new.host = status[o].host
             /\ new.boot = status[o].boot /\ new.started = status[o].started
<1>1. status[o] \in Statuses
  BY DEF ControllerShape
<1> QED
  BY <1>1, Zenon DEF Statuses

\* The step of a worker that leaves the fence and the hold alone.
LEMMA StepKeeps ==
  ASSUME IInv, Quiet, UNCHANGED <<report, seen, net, enable, fence, hold, holdDisk>>,
         NEW o \in Op, pc[o] # "new",
         NEW to \in Pcs, pc' = [pc EXCEPT ![o] = to], pc[o] \in Sent => to \in Sent,
         to \in {"new", "queued", "done"} \/ o \in Active \/ (Active = {} /\ ~EnableLocked),
         NEW new \in Statuses, Writes(o, new),
         new.boot = status[o].boot, new.started = status[o].started,
         new.host = "queued" => status[o].host = "queued", Faithful(o, new),
         to \in {"fence", "send", "sent"} => new.host = "checking" /\ saved'[o].host = "checking",
         to \in {"mark", "fence", "send"} => Safe,
         to \in {"send", "sent"} => fence = Target(o),
         to \in {"check", "mark", "fence", "send", "sent"} =>
           pc[o] \in {"check", "mark", "fence", "send", "sent"}
  PROVE  IInv'
<1>1. fence' \in Requests \cup {None} /\ hold' \in BOOLEAN /\ holdDisk' \in BOOLEAN
  BY DEF IInv, ControllerInv, ControllerShape
<1>2. ~HoldSyncFails => /\ hold' = holdDisk' /\ (hold => hold')
                        /\ to \in {"check", "mark", "fence", "send", "sent"} => hold'
  BY Zenon DEF IInv, ControllerInv, Held
<1> QED
  BY <1>1, <1>2, WorkerKeeps, Zenon

LEMMA BeginKeeps ==
  ASSUME IInv, NEW o \in Op, Begin(o)
  PROVE  IInv'
<1> DEFINE new == [status[o] EXCEPT !.op = "running"]
<1>1. /\ Quiet /\ UNCHANGED <<report, seen, net, enable, fence, hold, holdDisk>>
      /\ pc[o] = "queued" /\ Active = {} /\ ~EnableLocked
      /\ \E to \in {"hold", "failed"} : pc' = [pc EXCEPT ![o] = to]
      /\ Set(o, new) \/ SetFails(o, new)
  BY Zenon DEF Begin, CtlUnchanged, agentVars, Quiet, Go
<1>2. PICK to \in Pcs : to \in {"hold", "failed"} /\ pc' = [pc EXCEPT ![o] = to]
  BY <1>1, Zenon DEF Pcs
<1>3. /\ new \in Statuses /\ new.boot = status[o].boot /\ new.started = status[o].started
      /\ new.host = status[o].host
  BY OperationFacts, Zenon DEF IInv, ControllerInv
<1>4. Writes(o, new)
  BY <1>1, WritesFacts, Zenon
<1>5. Faithful(o, new)
  BY <1>3, Zenon DEF IInv, ControllerInv, Outcomes, Faithful
<1> HIDE DEF new
<1> QED
  BY <1>1, <1>2, <1>3, <1>4, <1>5, StepKeeps, Zenon DEF Sent

LEMMA SetHostDisabledFacts ==
  ASSUME NEW value \in BOOLEAN, hold \in BOOLEAN, holdDisk \in BOOLEAN, SetHostDisabled(value)
  PROVE  /\ hold' \in BOOLEAN /\ holdDisk' \in BOOLEAN
         /\ hold' = hold \/ hold' = value
         /\ HoldSyncFails \/ (hold' = hold /\ holdDisk' = holdDisk)
            \/ (hold' = value /\ holdDisk' = value)
<1>1. CASE hold' = hold /\ holdDisk' = holdDisk
  BY <1>1, Zenon
<1>2. CASE hold' = value /\ holdDisk' = value
  BY <1>2, Zenon
<1>3. CASE HoldSyncFails /\ holdDisk' = value /\ hold' = hold
  BY <1>3, Zenon
<1> QED
  BY <1>1, <1>2, <1>3, Zenon DEF SetHostDisabled

LEMMA HoldKeeps ==
  ASSUME IInv, NEW o \in Op, Hold(o)
  PROVE  IInv'
<1>1. /\ Quiet /\ UNCHANGED <<report, seen, net, enable, fence, status, saved>>
      /\ pc[o] = "hold" /\ SetHostDisabled(TRUE)
      /\ pc' = [pc EXCEPT ![o] = IF hold' THEN "check" ELSE "failed"]
  BY Zenon DEF Hold, CtlUnchanged, agentVars, Quiet, Go
<1>2. /\ hold' \in BOOLEAN /\ holdDisk' \in BOOLEAN
      /\ hold' = hold \/ hold' = TRUE
      /\ HoldSyncFails \/ (hold' = hold /\ holdDisk' = holdDisk)
         \/ (hold' = TRUE /\ holdDisk' = TRUE)
  <2>1. TRUE \in BOOLEAN /\ hold \in BOOLEAN /\ holdDisk \in BOOLEAN
    BY Zenon DEF IInv, ControllerInv, ControllerShape
  <2> QED
    BY <1>1, <2>1, SetHostDisabledFacts, Zenon
<1>3. PICK to \in Pcs : /\ to \in {"check", "failed"} /\ pc' = [pc EXCEPT ![o] = to]
                        /\ to = "check" => hold'
  BY <1>1, Zenon DEF Pcs
<1>4. PICK new \in Statuses : new = status[o] /\ Writes(o, new) /\ Faithful(o, new)
  BY <1>1, NoWrite, Zenon DEF IInv, ControllerInv, ControllerShape, Outcomes
<1>5. fence' \in Requests \cup {None} /\ o \in Active
  BY <1>1, Zenon DEF IInv, ControllerInv, ControllerShape, Active
<1>6. ~HoldSyncFails => hold' = holdDisk'
  BY <1>2 DEF IInv, ControllerInv, Held
<1>7. ~HoldSyncFails => /\ hold' = holdDisk' /\ (hold => hold')
                        /\ to \in {"check", "mark", "fence", "send", "sent"} => hold'
  BY <1>2, <1>3, <1>6, Zenon
<1> QED
  BY <1>1, <1>2, <1>3, <1>4, <1>5, <1>7, WorkerKeeps, Zenon DEF Sent

LEMMA CheckKeeps ==
  ASSUME IInv, NEW o \in Op, Check(o)
  PROVE  IInv'
<1>1. Quiet /\ UNCHANGED <<report, seen, net, enable, fence, hold, holdDisk>> /\ pc[o] = "check"
  BY Zenon DEF Check, CtlUnchanged, agentVars, Quiet
<1>2. o \in Active
  BY <1>1, Zenon DEF Active
<1>3. CASE /\ CurrentAgent(status[o])
           /\ HostState = [boot |-> status[o].boot, started |-> status[o].started,
                           pending |-> FALSE]
           /\ Go(o, "mark") /\ UNCHANGED <<status, saved>>
  <2>1. agent.started = status[o].started /\ seen.started = status[o].started
    BY <1>3, Zenon DEF HostState, CurrentAgent
  <2>2. Safe
    <3> SUFFICES ASSUME NEW r \in net, Danger(r)
                 PROVE  FALSE
      BY Zenon DEF Safe
    <3>1. r \in Requests /\ r # None
      BY NotNone, Zenon DEF IInv, AgentInv, AgentShape
    <3>2. fence = r /\ r.started = agent.started
      BY <3>1, Zenon DEF Danger, IInv, AgentInv, Serving, ControllerInv, Fenced
    <3>3. seen.started > r.started
      BY <1>3, <3>1, <3>2, Zenon DEF CurrentAgent, NewBoot
    <3>4. seen.started \in Nat
      BY Zenon DEF IInv, ControllerInv, ControllerShape, Hosts
    <3> QED
      BY <2>1, <3>2, <3>3, <3>4
  <2>3. PICK new \in Statuses : new = status[o] /\ Writes(o, new) /\ Faithful(o, new)
    BY <1>3, NoWrite, Zenon DEF IInv, ControllerInv, ControllerShape, Outcomes
  <2>4. PICK to \in Pcs : to = "mark" /\ pc' = [pc EXCEPT ![o] = to]
    BY <1>3, Zenon DEF Go, Pcs
  <2> QED
    BY <1>1, <1>2, <2>2, <2>3, <2>4, StepKeeps, Zenon DEF Sent
<1>4. CASE \/ Go(o, "confirm") /\ Set(o, Host(o, "rejected"))
           \/ Go(o, "failed") /\ SetFails(o, Host(o, "rejected"))
  <2>1. PICK to \in Pcs : to \in {"confirm", "failed"} /\ pc' = [pc EXCEPT ![o] = to]
    BY <1>4, Zenon DEF Go, Pcs
  <2>2. PICK new \in Statuses :
          /\ new = Host(o, "rejected") /\ new.host = "rejected"
          /\ new.boot = status[o].boot /\ new.started = status[o].started
    BY HostFacts, Zenon DEF IInv, ControllerInv
  <2>3. Writes(o, new)
    BY <1>4, <2>2, WritesFacts, Zenon
  <2>4. Faithful(o, new)
    BY <1>1, <2>2, Zenon DEF Faithful, Rejected, IInv, ControllerInv, Dispatched
  <2> QED
    BY <1>1, <1>2, <2>1, <2>2, <2>3, <2>4, StepKeeps, Zenon DEF Sent
<1> QED
  BY <1>3, <1>4, Zenon DEF Check

LEMMA MarkKeeps ==
  ASSUME IInv, NEW o \in Op, Mark(o)
  PROVE  IInv'
<1> DEFINE new == Host(o, "checking")
<1>1. /\ Quiet /\ UNCHANGED <<report, seen, net, enable, fence, hold, holdDisk>> /\ pc[o] = "mark"
      /\ \/ Set(o, new) /\ pc' = [pc EXCEPT ![o] = "fence"]
         \/ SetFails(o, new) /\ pc' = [pc EXCEPT ![o] = "failed"]
  BY Zenon DEF Mark, CtlUnchanged, agentVars, Quiet, Go
<1>2. o \in Active /\ Safe
  BY <1>1, Zenon DEF Active, IInv, ControllerInv, Staged
<1>3. /\ new \in Statuses /\ new.boot = status[o].boot /\ new.started = status[o].started
      /\ new.host = "checking"
  BY HostFacts, Zenon DEF IInv, ControllerInv
<1>4. Writes(o, new) /\ Faithful(o, new)
  BY <1>1, <1>3, WritesFacts, Zenon DEF Faithful
<1>5. saved' = [saved EXCEPT ![o] = new] => saved'[o].host = "checking"
  BY <1>3, Zenon DEF IInv, ControllerInv, ControllerShape
<1>6. PICK to \in Pcs : /\ to \in {"fence", "failed"} /\ pc' = [pc EXCEPT ![o] = to]
                        /\ to = "fence" => saved'[o].host = "checking"
  BY <1>1, <1>5, Zenon DEF Set, Pcs
<1> HIDE DEF new
<1> QED
  BY <1>1, <1>2, <1>3, <1>4, <1>6, StepKeeps, Zenon DEF Sent

LEMMA SetFenceKeeps ==
  ASSUME IInv, NEW o \in Op, SetFence(o)
  PROVE  IInv'
<1>1. Quiet /\ UNCHANGED <<report, seen, net, enable, hold, holdDisk>> /\ pc[o] = "fence"
  BY Zenon DEF SetFence, CtlUnchanged, agentVars, Quiet
<1>2. o \in Active /\ Safe
  BY <1>1, Zenon DEF Active, IInv, ControllerInv, Staged
<1>3. CASE /\ fence' = [op |-> o, boot |-> status[o].boot, started |-> status[o].started]
           /\ Go(o, "send") /\ UNCHANGED <<status, saved>>
  <2>1. fence' = Target(o) /\ fence' \in Requests
    BY <1>3, Zenon DEF Target, Requests, IInv, ControllerInv, ControllerShape, Statuses
  <2>2. PICK to \in Pcs : to = "send" /\ pc' = [pc EXCEPT ![o] = to]
    BY <1>3, Zenon DEF Go, Pcs
  <2>3. PICK new \in Statuses : new = status[o] /\ Writes(o, new) /\ Faithful(o, new)
    BY <1>3, NoWrite, Zenon DEF IInv, ControllerInv, ControllerShape, Outcomes
  <2>4. new.host = "checking" /\ saved'[o].host = "checking"
    BY <1>1, <1>3, <2>3, Zenon DEF IInv, ControllerInv, Staged
  <2>5. hold' \in BOOLEAN /\ holdDisk' \in BOOLEAN /\ (~HoldSyncFails => hold' /\ hold' = holdDisk')
    BY <1>1, Zenon DEF IInv, ControllerInv, ControllerShape, Held
  <2>6. \A r \in net : Danger(r) => fence' = r
    BY <1>2, Zenon DEF Safe
  <2> QED
    BY <1>1, <1>2, <2>1, <2>2, <2>3, <2>4, <2>5, <2>6, WorkerKeeps, Zenon DEF Sent
<1>4. CASE /\ Set(o, Host(o, "rejected")) \/ SetFails(o, Host(o, "rejected"))
           /\ Go(o, "failed") /\ UNCHANGED fence
  <2>1. PICK to \in Pcs : to = "failed" /\ pc' = [pc EXCEPT ![o] = to]
    BY <1>4, Zenon DEF Go, Pcs
  <2>2. PICK new \in Statuses :
          /\ new = Host(o, "rejected") /\ new.host = "rejected"
          /\ new.boot = status[o].boot /\ new.started = status[o].started
    BY HostFacts DEF IInv, ControllerInv
  <2>3. Writes(o, new)
    BY <1>4, <2>2, WritesFacts, Zenon
  <2>4. Faithful(o, new)
    BY <1>1, <2>2, Zenon DEF Faithful, Rejected, IInv, ControllerInv, Dispatched
  <2> QED
    BY <1>1, <1>2, <1>4, <2>1, <2>2, <2>3, <2>4, StepKeeps, Zenon DEF Sent
<1> QED
  BY <1>3, <1>4, Zenon DEF SetFence

LEMMA DispatchKeeps ==
  ASSUME IInv, NEW o \in Op, Dispatch(o)
  PROVE  IInv'
<1>1. Quiet /\ UNCHANGED <<report, seen, enable, hold, holdDisk>> /\ pc[o] = "send"
  BY Zenon DEF Dispatch, CtlUnchanged, agentVars, Quiet
<1>2. /\ o \in Active /\ Safe /\ fence = Target(o)
      /\ status[o].host = "checking" /\ saved[o].host = "checking"
  BY <1>1, Zenon DEF Active, IInv, ControllerInv, Staged
<1>3. \A r \in net : r.op # o
  BY <1>1, Zenon DEF IInv, ControllerInv, Dispatched
<1>4. CASE /\ Set(o, Host(o, "rejected")) \/ SetFails(o, Host(o, "rejected"))
           /\ fence' \in {fence, None} /\ Go(o, "failed") /\ UNCHANGED net
  <2>1. PICK to \in Pcs : to = "failed" /\ pc' = [pc EXCEPT ![o] = to]
    BY <1>4, Zenon DEF Go, Pcs
  <2>2. PICK new \in Statuses :
          /\ new = Host(o, "rejected") /\ new.host = "rejected"
          /\ new.boot = status[o].boot /\ new.started = status[o].started
    BY HostFacts DEF IInv, ControllerInv
  <2>3. Writes(o, new)
    BY <1>4, <2>2, WritesFacts, Zenon
  <2>4. Faithful(o, new)
    BY <1>3, <2>2, Zenon DEF Faithful, Rejected
  <2>5. fence' \in Requests \cup {None} /\ \A r \in net : Danger(r) => fence' = r
    BY <1>2, <1>4, Zenon DEF Safe, IInv, ControllerInv, ControllerShape
  <2>6. hold' \in BOOLEAN /\ holdDisk' \in BOOLEAN /\ (~HoldSyncFails => hold' = holdDisk')
    BY <1>1, Zenon DEF IInv, ControllerInv, ControllerShape, Held
  <2> QED
    BY <1>1, <1>2, <1>4, <2>1, <2>2, <2>3, <2>4, <2>5, <2>6, WorkerKeeps, Zenon DEF Sent
<1>5. CASE /\ net' = net \cup {Request(o)} /\ Go(o, "sent")
           /\ UNCHANGED <<status, saved, fence>>
  <2>1. PICK r \in Requests : r = Request(o) /\ r = Target(o) /\ r.op = o
                              /\ r.boot = status[o].boot /\ r.started = status[o].started
    <3>1. status[o].boot \in Nat /\ status[o].started \in Nat
      BY Zenon DEF IInv, ControllerInv, ControllerShape, Statuses
    <3>2. Request(o) = Target(o) /\ Target(o) \in Requests
      BY <3>1, Zenon DEF Request, Target, Requests
    <3>3. /\ Target(o).op = o /\ Target(o).boot = status[o].boot
          /\ Target(o).started = status[o].started
      BY Zenon DEF Target
    <3> QED
      BY <3>2, <3>3, Zenon
  <2>2. net' = net \cup {r}
    BY <1>5, <2>1, Zenon
  <2>3. pc' \in [Op -> Pcs] /\ pc'[o] = "sent" /\ \A p \in Op : p # o => pc'[p] = pc[p]
    BY <1>5, Zenon DEF Go, IInv, ControllerInv, ControllerShape, Pcs
  <2>4. AgentInv'
    BY <1>1, <2>2, Zenon DEF Quiet, IInv, AgentInv, AgentShape, Past, OneHelperPerBoot, Serving, Helped,
         HasReceipt, Committed, Receipted, Attempted, Told
  <2>5. ControllerShape'
    BY <1>1, <1>5, <2>3, Zenon DEF IInv, ControllerInv, ControllerShape, Pcs
  <2>6. Dispatched'
    <3>1. \A s \in net : s.op \in Op
      BY Zenon DEF IInv, AgentInv, AgentShape, Requests
    <3> QED
      BY <1>2, <1>3, <1>5, <2>1, <2>2, <2>3, <3>1, Zenon DEF IInv, ControllerInv, Dispatched
  <2>7. Times'
    BY <1>1, <1>5, Zenon DEF IInv, ControllerInv, Times, Known, Quiet
  <2>8. Outcomes'
    <3>1. \A p \in Op : p # o /\ Rejected(p) => Rejected(p)'
      BY <1>1, <2>1, <2>2, Zenon DEF Rejected, Quiet
    <3>2. \A p \in Op : Faithful(p, status[p])'
      BY <1>1, <1>2, <1>5, <3>1, Zenon DEF IInv, ControllerInv, Outcomes, Faithful, Quiet
    <3>3. \A p \in Op : Faithful(p, saved[p])'
      BY <1>1, <1>2, <1>5, <3>1, Zenon DEF IInv, ControllerInv, Outcomes, Faithful, Quiet
    <3> QED
      BY <3>2, <3>3, Zenon DEF Outcomes
  <2>9. Active' = Active /\ \A p \in Active : p = o
    BY <1>2, <2>3, <1>1, Zenon DEF Active, IInv, ControllerInv, Staged
  <2>10. Staged'
    <3>1. \A p \in Op : pc'[p] \in {"mark", "fence", "send", "sent"} => p = o
      BY <2>9, Zenon DEF Active
    <3> QED
      BY <1>2, <1>5, <2>3, <2>9, <3>1, Zenon DEF Staged, Target
  <2>11. Fenced'
    <3>1. \A s \in net : ~Danger(s)'
      BY <1>1, <1>2, Zenon DEF Safe, Danger, HasReceipt, Quiet
    <3>2. ~EnableLocked'
      BY <1>1, <1>2, Zenon DEF EnableLocked, IInv, ControllerInv, Fenced
    <3> QED
      BY <1>2, <1>5, <2>1, <2>2, <3>1, <3>2, Zenon DEF Fenced
  <2>12. Held'
    BY <1>1, <2>3, Zenon DEF IInv, ControllerInv, Held
  <2> QED
    BY <2>4, <2>5, <2>6, <2>7, <2>8, <2>10, <2>11, <2>12, Zenon DEF IInv, ControllerInv
<1> QED
  BY <1>4, <1>5, Zenon DEF Dispatch

LEMMA NoAnswerKeeps ==
  ASSUME IInv, NEW o \in Op, NoAnswer(o)
  PROVE  IInv'
<1>1. /\ Quiet /\ UNCHANGED <<report, seen, net, enable, fence, hold, holdDisk>> /\ pc[o] = "sent"
      /\ Set(o, Host(o, "unknown")) \/ SetFails(o, Host(o, "unknown"))
      /\ \E to \in {"confirm", "failed"} : pc' = [pc EXCEPT ![o] = to]
  BY Zenon DEF NoAnswer, CtlUnchanged, agentVars, Quiet, Go
<1>2. PICK to \in Pcs : to \in {"confirm", "failed"} /\ pc' = [pc EXCEPT ![o] = to]
  BY <1>1, Zenon DEF Pcs
<1>3. PICK new \in Statuses :
        /\ new = Host(o, "unknown") /\ new.host = "unknown"
        /\ new.boot = status[o].boot /\ new.started = status[o].started
  BY HostFacts, Zenon DEF IInv, ControllerInv
<1>4. Writes(o, new) /\ Faithful(o, new) /\ o \in Active
  BY <1>1, <1>3, WritesFacts, Zenon DEF Faithful, Active
<1> QED
  BY <1>1, <1>2, <1>3, <1>4, StepKeeps, Zenon DEF Sent

LEMMA AnswerKeeps ==
  ASSUME IInv, NEW o \in Op, NEW state \in {"requested", "unknown", "rejected"}, Answer(o, state)
  PROVE  IInv'
<1>1. /\ Quiet /\ UNCHANGED <<report, seen, net, enable, hold, holdDisk>> /\ pc[o] = "sent"
      /\ [op |-> o, state |-> state] \in replies
      /\ Set(o, Host(o, state)) \/ SetFails(o, Host(o, state))
      /\ \E to \in {"confirm", "failed"} : pc' = [pc EXCEPT ![o] = to]
      /\ fence' = fence \/ (state = "rejected" /\ fence' = None)
  BY Zenon DEF Answer, CtlUnchanged, agentVars, Quiet, Go
<1>2. PICK to \in Pcs : to \in {"confirm", "failed"} /\ pc' = [pc EXCEPT ![o] = to]
  BY <1>1, Zenon DEF Pcs
<1>3. PICK new \in Statuses :
        /\ new = Host(o, state) /\ new.host = state
        /\ new.boot = status[o].boot /\ new.started = status[o].started
  BY HostFacts, Zenon DEF IInv, ControllerInv
<1>4. Writes(o, new) /\ o \in Active /\ fence = Target(o)
  BY <1>1, <1>3, WritesFacts, Zenon DEF Active, IInv, ControllerInv, Staged
<1>5. ASSUME state = "rejected" PROVE Rejected(o)
  <2>1. PICK r \in rejections : r.op = o
    BY <1>1, <1>5, Zenon DEF IInv, AgentInv, Told
  <2>2. r \in net
    BY Zenon DEF IInv, AgentInv, AgentShape
  <2>3. \A s \in net : s.op = o => s = r
    BY <2>1, <2>2, OneRequest, Zenon DEF IInv, AgentInv, ControllerInv
  <2> QED
    BY <2>1, <2>3, Zenon DEF Rejected
<1>6. ASSUME state = "rejected" PROVE Safe
  <2> SUFFICES ASSUME NEW r \in net, Danger(r)
               PROVE  FALSE
    BY Zenon DEF Safe
  <2>1. fence = r /\ r \in Requests /\ r # None
    BY NotNone, Zenon DEF IInv, AgentInv, AgentShape, ControllerInv, Fenced
  <2>2. r.op = o
    BY <1>4, <2>1 DEF Target
  <2>3. r \in rejections
    BY <1>5, <1>6, <2>2, Zenon DEF Rejected
  <2> QED
    BY <2>1, <2>3, Zenon DEF Danger, IInv, AgentInv, Serving
<1>7. Faithful(o, new)
  BY <1>3, <1>5, Zenon DEF Faithful
<1>8. /\ fence' \in Requests \cup {None}
      /\ fence' = fence \/ \A r \in net : Danger(r) => fence' = r
  BY <1>1, <1>6, Zenon DEF Safe, IInv, ControllerInv, ControllerShape
<1>9. hold' \in BOOLEAN /\ holdDisk' \in BOOLEAN /\ (~HoldSyncFails => hold' = holdDisk')
  BY <1>1, Zenon DEF IInv, ControllerInv, ControllerShape, Held
<1> QED
  BY <1>1, <1>2, <1>3, <1>4, <1>7, <1>8, <1>9, WorkerKeeps, Zenon DEF Sent

LEMMA ConfirmKeeps ==
  ASSUME IInv, NEW o \in Op, Confirm(o)
  PROVE  IInv'
<1>1. /\ Quiet /\ UNCHANGED <<report, seen, net, enable, fence, hold, holdDisk>>
      /\ pc[o] = "confirm" /\ boot # status[o].boot
      /\ Set(o, Host(o, "rebooted")) \/ SetFails(o, Host(o, "rebooted"))
      /\ pc' = pc \/ pc' = [pc EXCEPT ![o] = "failed"]
  BY Zenon DEF Confirm, CtlUnchanged, agentVars, Quiet, Go, NewBoot, HostState
<1>2. PICK to \in Pcs : to \in {"confirm", "failed"} /\ pc' = [pc EXCEPT ![o] = to]
  BY <1>1, Zenon DEF Pcs, IInv, ControllerInv, ControllerShape
<1>3. PICK new \in Statuses :
        /\ new = Host(o, "rebooted") /\ new.host = "rebooted"
        /\ new.boot = status[o].boot /\ new.started = status[o].started
  BY HostFacts, Zenon DEF IInv, ControllerInv
<1>4. Writes(o, new) /\ o \in Active
  BY <1>1, <1>3, WritesFacts, Zenon DEF Active
<1>5. status[o].boot <= boot /\ status[o].boot \in Nat /\ boot \in Nat
  BY Zenon DEF IInv, AgentInv, AgentShape, ControllerInv, ControllerShape, Statuses, Times, Known
<1>6. Faithful(o, new)
  BY <1>1, <1>3, <1>5 DEF Faithful
<1> QED
  BY <1>1, <1>2, <1>3, <1>4, <1>6, StepKeeps, Zenon DEF Sent

LEMMA EndKeeps ==
  ASSUME IInv, NEW o \in Op, End(o)
  PROVE  IInv'
<1> DEFINE h == status[o].host
           failedHost == IF h = "queued" THEN "rejected" ELSE IF h = "checking" THEN "unknown" ELSE h
           new == IF pc[o] = "confirm" /\ h = "rebooted" THEN [status[o] EXCEPT !.op = "completed"]
                  ELSE [status[o] EXCEPT !.op = IF canceled[o] THEN "interrupted" ELSE "failed",
                                         !.host = failedHost]
<1>1. /\ Quiet /\ UNCHANGED <<report, seen, net, enable, fence, hold, holdDisk>>
      /\ pc[o] \in {"failed", "confirm", "hold", "queued", "check"}
      /\ Set(o, new) \/ SetFails(o, new)
      /\ pc' = [pc EXCEPT ![o] = "done"]
  BY Zenon DEF End, CtlUnchanged, agentVars, Quiet, Go
<1>2. PICK to \in Pcs : to = "done" /\ pc' = [pc EXCEPT ![o] = to]
  BY <1>1, Zenon DEF Pcs
<1>3. status[o] \in Statuses
  BY Zenon DEF IInv, ControllerInv, ControllerShape
<1>4. /\ new \in Statuses /\ new.boot = status[o].boot /\ new.started = status[o].started
      /\ new.host \in {h, failedHost}
  BY <1>3, Zenon DEF Statuses
<1>5. Writes(o, new)
  BY <1>1, WritesFacts, Zenon
<1>6. /\ new.host = "queued" => h = "queued"
      /\ new.host = "rejected" => h \in {"queued", "rejected"}
      /\ new.host = "rebooted" => h = "rebooted"
  BY <1>4
<1>7. h = "queued" => Rejected(o)
  BY Zenon DEF Rejected, IInv, ControllerInv, Dispatched
<1>8. Faithful(o, new)
  BY <1>4, <1>6, <1>7, Zenon DEF Faithful, IInv, ControllerInv, Outcomes
<1> HIDE DEF new
<1> QED
  BY <1>1, <1>2, <1>4, <1>5, <1>6, <1>8, StepKeeps, Zenon DEF Sent

LEMMA SubmitKeeps ==
  ASSUME IInv, NEW o \in Op, Submit(o)
  PROVE  IInv'
<1> DEFINE new == [op |-> "queued", host |-> "queued", boot |-> seen.boot, started |-> seen.started]
<1>1. /\ Quiet /\ UNCHANGED <<report, seen, net, enable, fence, hold, holdDisk>>
      /\ pc[o] = "new" /\ Set(o, new) /\ pc' = [pc EXCEPT ![o] = "queued"]
  BY Zenon DEF Submit, CtlUnchanged, agentVars, Quiet, Go
<1>2. /\ new \in Statuses /\ new.host = "queued" /\ new.boot = seen.boot
      /\ new.started = seen.started
  BY Zenon DEF IInv, ControllerInv, ControllerShape, Hosts, Statuses
<1> HIDE DEF new
<1>3. /\ pc' \in [Op -> Pcs] /\ pc'[o] = "queued" /\ \A p \in Op : p # o => pc'[p] = pc[p]
      /\ status' \in [Op -> Statuses] /\ status'[o] = new
      /\ saved' \in [Op -> Statuses] /\ saved'[o] = new
      /\ \A p \in Op : p # o => status'[p] = status[p] /\ saved'[p] = saved[p]
  BY <1>1, <1>2, Zenon DEF Set, IInv, ControllerInv, ControllerShape, Pcs
<1>4. ControllerShape' /\ AgentInv'
  BY <1>1, <1>3, QuietKeepsAgent, Zenon DEF IInv, ControllerInv, ControllerShape, Pcs
<1>5. Dispatched'
  <2>1. \A r \in net : r.op \in Op /\ r.op # o
    BY <1>1, Zenon DEF IInv, AgentInv, AgentShape, Requests, ControllerInv, Dispatched
  <2>2. /\ net' = net
        /\ \A r \in net : /\ status'[r.op] = status[r.op] /\ saved'[r.op] = saved[r.op]
                          /\ pc'[r.op] = pc[r.op]
    BY <1>1, <1>3, <2>1, Zenon
  <2>3. Dispatched
    BY Zenon DEF IInv, ControllerInv
  <2> QED
    BY <2>2, <2>3, Zenon DEF Dispatched
<1>6. Times'
  <2>1. \A p \in Op : /\ Known(status[p])'
                      /\ saved'[p].boot = status'[p].boot /\ saved'[p].started = status'[p].started
    BY <1>1, <1>2, <1>3 DEF IInv, ControllerInv, Times, Known, Quiet
  <2> QED
    BY <1>1, <2>1, Zenon DEF IInv, ControllerInv, Times, Known, Quiet
<1>7. Outcomes'
  <2>1. \A p \in Op : Faithful(p, status[p])'
    BY <1>1, <1>2, <1>3, Zenon DEF IInv, ControllerInv, Outcomes, Faithful, Rejected, Quiet
  <2>2. \A p \in Op : Faithful(p, saved[p])'
    BY <1>1, <1>2, <1>3, Zenon DEF IInv, ControllerInv, Outcomes, Faithful, Rejected, Quiet
  <2> QED
    BY <2>1, <2>2, Zenon DEF Outcomes
<1>8. Safe' = Safe /\ \A r \in net : Danger(r)' = Danger(r)
  BY <1>1, QuietIsSafe, Zenon
<1>9. Active' = Active
  BY <1>1, <1>3, Zenon DEF Active
<1>10. Staged'
  <2>1. \A p \in Op : p # o => Target(p)' = Target(p)
    BY <1>3, Zenon DEF Target
  <2> QED
    BY <1>1, <1>3, <1>8, <1>9, <2>1, Zenon DEF IInv, ControllerInv, Staged
<1>11. Fenced'
  BY <1>1, <1>8, <1>9, Zenon DEF IInv, ControllerInv, Fenced, EnableLocked
<1>12. Held'
  BY <1>1, <1>3, <1>8, Zenon DEF IInv, ControllerInv, Held
<1> QED
  BY <1>4, <1>5, <1>6, <1>7, <1>10, <1>11, <1>12, Zenon DEF IInv, ControllerInv

\* Reports and proofs only change what the Controller knows.
LEMMA LearningKeeps ==
  ASSUME IInv, Quiet, UNCHANGED <<net, pc, status, saved, fence, hold, holdDisk>>,
         report' \in Hosts, Known(report'), seen' \in Hosts, Known(seen'),
         \/ enable' = enable \/ enable' = None
         \/ \E proof \in Hosts \cup {None} :
              /\ enable' = [proof |-> proof, agent |-> None] /\ (proof # None => Known(proof))
  PROVE  IInv'
<1>1. /\ enable' \in [proof : Hosts \cup {None}, agent : Hosts \cup {None}] \cup {None}
      /\ enable' # None /\ enable'.proof # None => Known(enable'.proof)
      /\ EnableLocked' => EnableLocked
  <2>1. CASE enable' = enable
    BY <2>1, Zenon DEF IInv, ControllerInv, ControllerShape, Times, EnableLocked
  <2>2. CASE enable' = None
    BY <2>2, Zenon DEF EnableLocked
  <2>3. ASSUME NEW proof \in Hosts \cup {None}, enable' = [proof |-> proof, agent |-> None],
               proof # None => Known(proof)
        PROVE  /\ enable' \in [proof : Hosts \cup {None}, agent : Hosts \cup {None}] \cup {None}
               /\ enable' # None /\ enable'.proof # None => Known(enable'.proof)
               /\ EnableLocked' => EnableLocked
    BY <2>3, Zenon DEF EnableLocked
  <2> QED
    BY <2>1, <2>2, <2>3, Zenon
<1>2. ControllerShape' /\ AgentInv' /\ Dispatched'
  BY <1>1, QuietKeepsAgent, Zenon DEF IInv, ControllerInv, ControllerShape, Dispatched
<1>3. Times'
  BY <1>1, Zenon DEF IInv, ControllerInv, Times, Known, Quiet
<1>4. Outcomes'
  BY Zenon DEF IInv, ControllerInv, Outcomes, Faithful, Rejected, Quiet
<1>5. Safe' = Safe /\ \A r \in net : Danger(r)' = Danger(r)
  BY QuietIsSafe, Zenon
<1>6. Staged' /\ Fenced' /\ Held'
  BY <1>1, <1>5, Zenon DEF IInv, ControllerInv, Staged, Fenced, Held, Active, Target
<1> QED
  BY <1>2, <1>3, <1>4, <1>6, Zenon DEF IInv, ControllerInv

LEMMA HostStateFacts ==
  ASSUME IInv
  PROVE  HostState \in Hosts /\ Known(HostState)
  BY DEF IInv, AgentInv, AgentShape, HostState, Hosts, Known

LEMMA ObservationsKeep ==
  ASSUME IInv, Send \/ Observe \/ EnableBegin \/ \E o \in Op : Cancel(o)
  PROVE  IInv'
<1>1. /\ report \in Hosts /\ Known(report) /\ seen \in Hosts /\ Known(seen)
      /\ HostState \in Hosts /\ Known(HostState)
  BY HostStateFacts, Zenon DEF IInv, ControllerInv, ControllerShape, Times
<1>2. CASE Send
  BY <1>1, <1>2, LearningKeeps, Zenon DEF Send, agentVars, ctlVars, Quiet
<1>3. CASE Observe
  BY <1>1, <1>3, LearningKeeps, Zenon DEF Observe, agentVars, ctlVars, Quiet
<1>4. CASE EnableBegin
  <2>1. \E proof \in Hosts \cup {None} :
          /\ enable' = [proof |-> proof, agent |-> None] /\ (proof # None => Known(proof))
    BY <1>1, <1>4, Zenon DEF EnableBegin
  <2>2. Quiet /\ UNCHANGED <<report, seen, net, pc, status, saved, fence, hold, holdDisk>>
    BY <1>4, Zenon DEF EnableBegin, CtlUnchanged, agentVars, Quiet
  <2> QED
    BY <1>1, <2>1, <2>2, LearningKeeps, Zenon
<1>5. ASSUME NEW o \in Op, Cancel(o) PROVE IInv'
  BY <1>1, <1>5, LearningKeeps, Zenon DEF Cancel, CtlUnchanged, agentVars, Quiet
<1> QED
  BY <1>2, <1>3, <1>4, <1>5, Zenon

\* A fence is released when nothing can act on its request any more.
LEMMA ReleasableIsSafe ==
  ASSUME IInv, enable # None, Releasable
  PROVE  Safe
<1> SUFFICES ASSUME NEW r \in net, Danger(r)
             PROVE  FALSE
  BY Zenon DEF Safe
<1>1. r \in Requests /\ r # None /\ r.op \in Op /\ r.started \in Nat
  BY NotNone, Zenon DEF IInv, AgentInv, AgentShape, Requests
<1>2. fence = r /\ r.started = agent.started /\ r \notin rejections
  BY <1>1, Zenon DEF Danger, IInv, AgentInv, Serving, ControllerInv, Fenced
<1>3. CASE enable.proof # None /\ NewBoot(enable.proof, fence)
  <2>1. enable.proof.started <= agent.started /\ enable.proof.started > r.started
    BY <1>2, <1>3, Zenon DEF NewBoot, IInv, ControllerInv, Times, Known
  <2>2. enable.proof.started \in Nat /\ agent.started \in Nat
    BY <1>3, Zenon DEF IInv, AgentInv, AgentShape, ControllerInv, ControllerShape, Hosts
  <2> QED
    BY <1>1, <1>2, <2>1, <2>2
<1>4. CASE status[fence.op].host = "rejected"
  BY <1>1, <1>2, <1>4, Zenon DEF IInv, ControllerInv, Outcomes, Faithful, Rejected
<1> QED
  BY <1>1, <1>2, <1>3, <1>4, Zenon DEF Releasable

LEMMA EnableReleaseKeeps ==
  ASSUME IInv, EnableRelease
  PROVE  IInv'
<1>1. /\ Quiet /\ UNCHANGED <<report, seen, net, pc, status, saved, hold, holdDisk>>
      /\ enable # None
  BY Zenon DEF EnableRelease, CtlUnchanged, agentVars, Quiet
<1>2. /\ report \in Hosts /\ Known(report) /\ seen \in Hosts /\ Known(seen)
  BY Zenon DEF IInv, ControllerInv, ControllerShape, Times
<1>3. CASE enable' = None /\ UNCHANGED fence
  BY <1>1, <1>2, <1>3, LearningKeeps, Zenon
<1>4. CASE Active = {} /\ Releasable /\ fence' = None /\ enable' = [enable EXCEPT !.agent = seen]
  <2>1. Safe
    BY <1>1, <1>4, ReleasableIsSafe, Zenon
  <2>2. enable \in [proof : Hosts \cup {None}, agent : Hosts \cup {None}]
    BY <1>1, Zenon DEF IInv, ControllerInv, ControllerShape
  <2>3. /\ enable' \in [proof : Hosts \cup {None}, agent : Hosts \cup {None}]
        /\ enable'.proof = enable.proof
    BY <1>2, <1>4, <2>2, Zenon
  <2>4. ControllerShape' /\ AgentInv' /\ Dispatched'
    BY <1>1, <1>4, <2>3, QuietKeepsAgent, Zenon DEF IInv, ControllerInv, ControllerShape, Dispatched
  <2>5. Times'
    BY <1>1, <2>3, Zenon DEF IInv, ControllerInv, Times, Known, Quiet
  <2>6. Outcomes'
    BY <1>1, Zenon DEF IInv, ControllerInv, Outcomes, Faithful, Rejected, Quiet
  <2>7. Safe' /\ \A r \in net : ~Danger(r)'
    BY <1>1, <2>1, QuietIsSafe, Zenon DEF Safe
  <2>8. Active' = {} /\ \A o \in Op : pc'[o] \notin {"fence", "mark", "send", "sent"}
    BY <1>1, <1>4, Zenon DEF Active
  <2>9. Staged' /\ Fenced'
    BY <1>1, <1>4, <2>7, <2>8, Zenon DEF Staged, Fenced
  <2>10. Held'
    BY <1>1, <2>7, Zenon DEF IInv, ControllerInv, Held
  <2> QED
    BY <2>4, <2>5, <2>6, <2>9, <2>10, Zenon DEF IInv, ControllerInv
<1> QED
  BY <1>3, <1>4, Zenon DEF EnableRelease

LEMMA EnableCompleteKeeps ==
  ASSUME IInv, EnableComplete
  PROVE  IInv'
<1>1. /\ Quiet /\ UNCHANGED <<report, seen, net, pc, status, saved, fence>> /\ enable' = None
      /\ EnableLocked
      /\ SetHostDisabled(FALSE) \/ UNCHANGED <<hold, holdDisk>>
  BY Zenon DEF EnableComplete, CtlUnchanged, agentVars, Quiet, EnableLocked
<1>2. Active = {} /\ fence = None
  BY <1>1, Zenon DEF IInv, ControllerInv, Fenced
<1>3. Safe
  BY <1>2, NotNone, Zenon DEF Safe, IInv, AgentInv, AgentShape, ControllerInv, Fenced
<1>4. FALSE \in BOOLEAN /\ hold \in BOOLEAN /\ holdDisk \in BOOLEAN
  BY Zenon DEF IInv, ControllerInv, ControllerShape
<1>5. /\ hold' \in BOOLEAN /\ holdDisk' \in BOOLEAN
      /\ HoldSyncFails \/ (hold' = hold /\ holdDisk' = holdDisk)
         \/ (hold' = FALSE /\ holdDisk' = FALSE)
  BY <1>1, <1>4, SetHostDisabledFacts, Zenon
<1>6. ControllerShape' /\ AgentInv' /\ Dispatched'
  BY <1>1, <1>5, QuietKeepsAgent, Zenon DEF IInv, ControllerInv, ControllerShape, Dispatched
<1>7. Times'
  BY <1>1, Zenon DEF IInv, ControllerInv, Times, Known, Quiet
<1>8. Outcomes'
  BY <1>1, Zenon DEF IInv, ControllerInv, Outcomes, Faithful, Rejected, Quiet
<1>9. Safe' /\ \A r \in net : ~Danger(r)'
  BY <1>1, <1>3, QuietIsSafe, Zenon DEF Safe
<1>10. /\ Active' = {} /\ ~EnableLocked'
       /\ \A o \in Op : pc'[o] \notin {"check", "fence", "mark", "send", "sent"}
  BY <1>1, <1>2, Zenon DEF Active, EnableLocked
<1>11. Staged' /\ Fenced'
  BY <1>1, <1>9, <1>10, Zenon DEF Staged, Fenced
<1>12. Held'
  <2>1. ~HoldSyncFails => hold' = holdDisk'
    BY <1>5 DEF IInv, ControllerInv, Held
  <2> QED
    BY <1>9, <1>10, <2>1, Zenon DEF Held
<1> QED
  BY <1>6, <1>7, <1>8, <1>11, <1>12 DEF IInv, ControllerInv

LEMMA RestartControllerKeeps ==
  ASSUME IInv, RestartController
  PROVE  IInv'
<1> DEFINE load(s) == IF s.op \notin {"queued", "running"} THEN s
                      ELSE [s EXCEPT !.op = "interrupted",
                                     !.host = IF @ = "checking" THEN "unknown"
                                              ELSE IF @ = "queued" THEN "rejected" ELSE @]
<1>1. /\ Quiet /\ UNCHANGED <<report, net, saved, holdDisk, fence>>
      /\ status' = [o \in Op |-> load(saved[o])]
      /\ pc' = [o \in Op |-> IF pc[o] = "new" THEN "new" ELSE "done"]
      /\ enable' = None /\ seen' = Unregistered /\ hold' = holdDisk
  BY Zenon DEF RestartController, agentVars, Quiet
<1>2. ASSUME NEW s \in Statuses
      PROVE  /\ load(s) \in Statuses /\ load(s).boot = s.boot /\ load(s).started = s.started
             /\ load(s).host = "queued" => s.host = "queued"
             /\ load(s).host = "rejected" => s.host \in {"queued", "rejected"}
             /\ load(s).host = "rebooted" => s.host = "rebooted"
  <2>1. CASE s.op \notin {"queued", "running"}
    BY <2>1, Zenon
  <2>2. CASE s.op \in {"queued", "running"}
    <3>1. PICK h \in {"queued", "checking", "requested", "unknown", "rejected", "rebooted"} :
            h = IF s.host = "checking" THEN "unknown"
                ELSE IF s.host = "queued" THEN "rejected" ELSE s.host
      BY Zenon DEF Statuses
    <3>2. load(s) = [s EXCEPT !.op = "interrupted", !.host = h]
      BY <2>2, <3>1, Zenon
    <3>3. /\ load(s) \in Statuses /\ load(s).boot = s.boot /\ load(s).started = s.started
          /\ load(s).host = h
      BY <3>2, Zenon DEF Statuses
    <3> QED
      BY <3>1, <3>3, Zenon
  <2> QED
    BY <2>1, <2>2, Zenon
<1>3. \A o \in Op : /\ saved[o] \in Statuses /\ status'[o] = load(saved[o])
                    /\ pc'[o] = IF pc[o] = "new" THEN "new" ELSE "done"
  BY <1>1, Zenon DEF IInv, ControllerInv, ControllerShape
<1> HIDE DEF load
<1>4. ASSUME NEW o \in Op
      PROVE  /\ status'[o] \in Statuses
             /\ status'[o].boot = status[o].boot /\ status'[o].started = status[o].started
             /\ status'[o].host = "queued" => saved[o].host = "queued"
             /\ status'[o].host = "rejected" => saved[o].host \in {"queued", "rejected"}
             /\ status'[o].host = "rebooted" => saved[o].host = "rebooted"
  BY <1>2, <1>3 DEF IInv, ControllerInv, Times
<1>5. Unregistered \in Hosts /\ Known(Unregistered)
  BY DEF Unregistered, Hosts, Known, IInv, AgentInv, AgentShape
<1>6. ControllerShape' /\ AgentInv'
  BY <1>1, <1>3, <1>4, <1>5, QuietKeepsAgent, Zenon DEF IInv, ControllerInv, ControllerShape
<1>7. Dispatched'
  <2>1. \A r \in net : r.op \in Op
    BY Zenon DEF IInv, AgentInv, AgentShape, Requests
  <2> QED
    BY <1>1, <1>3, <1>4, <2>1 DEF IInv, ControllerInv, Dispatched
<1>8. Times'
  BY <1>1, <1>4, <1>5, Zenon DEF IInv, ControllerInv, Times, Known, Quiet
<1>9. Outcomes'
  <2>1. \A o \in Op : saved[o].host = "queued" => Rejected(o)
    BY Zenon DEF Rejected, IInv, ControllerInv, Dispatched
  <2>2. \A o \in Op : Rejected(o)' = Rejected(o)
    BY <1>1, Zenon DEF Rejected, Quiet
  <2>3. \A o \in Op : Faithful(o, status[o])'
    BY <1>1, <1>4, <2>1, <2>2, Zenon DEF IInv, ControllerInv, Outcomes, Times, Faithful, Quiet
  <2>4. \A o \in Op : Faithful(o, saved[o])'
    BY <1>1, <2>2, Zenon DEF IInv, ControllerInv, Outcomes, Faithful, Quiet
  <2> QED
    BY <2>3, <2>4, Zenon DEF Outcomes
<1>10. Active' = {} /\ ~EnableLocked' /\ \A o \in Op : pc'[o] \in {"new", "done"}
  BY <1>1, <1>3, Zenon DEF Active, EnableLocked
<1>11. Safe' = Safe /\ \A r \in net : Danger(r)' = Danger(r)
  BY <1>1, QuietIsSafe, Zenon
<1>12. Staged' /\ Fenced'
  BY <1>1, <1>10, <1>11, Zenon DEF IInv, ControllerInv, Staged, Fenced
<1>13. ASSUME ~HoldSyncFails
       PROVE  /\ hold' = holdDisk'
              /\ \A o \in Op : pc'[o] \in {"check", "mark", "fence", "send", "sent"} => hold'
              /\ ~hold' => Safe'
  <2>1. hold = holdDisk /\ (~hold => Safe)
    BY <1>13, Zenon DEF IInv, ControllerInv, Held
  <2>2. hold' = holdDisk'
    BY <1>1, Zenon
  <2>3. ~hold' => Safe'
    BY <1>1, <1>11, <2>1, Zenon
  <2> QED
    BY <1>10, <2>2, <2>3, Zenon
<1>14. Held'
  BY <1>13, Zenon DEF Held
<1> QED
  BY <1>6, <1>7, <1>8, <1>9, <1>12, <1>14, Zenon DEF IInv, ControllerInv
-----------------------------------------------------------------------------
LEMMA InitIInv == Init => IInv
<1> SUFFICES ASSUME Init PROVE IInv
  BY Zenon
<1>1. /\ boot = 1 /\ attempts = <<>> /\ net = {} /\ rejections = {} /\ replies = {}
      /\ agent = [started |-> 1, pending |-> FALSE, pc |-> "idle", request |-> None]
      /\ receipt = None /\ receiptDisk = None
  BY Zenon DEF Init
<1>2. attempts \in Seq([op : Op, boot : Nat]) /\ DOMAIN attempts = {}
  BY <1>1
<1>3. AgentInv
  BY <1>1, <1>2, Zenon DEF AgentInv, AgentShape, Past, OneHelperPerBoot, Serving, Committed, Receipted,
       Attempted, Told
<1>4. /\ report = HostState /\ seen = HostState
      /\ HostState = [boot |-> 1, started |-> 1, pending |-> FALSE]
      /\ pc \in [Op -> {"new", "done"}]
      /\ status = [o \in Op |-> NewStatus] /\ saved = [o \in Op |-> NewStatus]
      /\ hold = FALSE /\ holdDisk = FALSE /\ fence = None /\ enable = None
  BY <1>1 DEF Init, HostState
<1>5. /\ NewStatus \in Statuses /\ NewStatus.boot = 0 /\ NewStatus.started = 0
      /\ NewStatus.host = "queued"
  BY Zenon DEF NewStatus, Statuses
<1>6. ControllerShape
  BY <1>4, <1>5, Zenon DEF ControllerShape, Hosts
<1>7. Dispatched /\ Times /\ Outcomes
  BY <1>1, <1>4, <1>5 DEF Dispatched, Times, Known, Outcomes, Faithful
<1>8. Safe /\ ~EnableLocked /\ Active = {} /\ \A o \in Op : pc[o] \in {"new", "done"}
  BY <1>1, <1>4, Zenon DEF Safe, EnableLocked, Active
<1>9. Staged /\ Fenced /\ Held
  BY <1>1, <1>4, <1>8, Zenon DEF Staged, Fenced, Held
<1> QED
  BY <1>3, <1>6, <1>7, <1>9, Zenon DEF IInv, ControllerInv

LEMMA AgentKeeps ==
  ASSUME IInv, AgentNext
  PROVE  IInv'
<1>1. ASSUME NEW r \in net, Receive(r) PROVE AgentInv' /\ AgentStep
  BY <1>1, ReceiveKeeps, Zenon
<1>2. ASSUME Refuse PROVE AgentInv' /\ AgentStep
  BY <1>2, RefuseKeeps, Zenon
<1>3. ASSUME Commit PROVE AgentInv' /\ AgentStep
  BY <1>3, CommitKeeps
<1>4. ASSUME NEW s \in {"requested", "unknown"}, StartHelper(s) PROVE AgentInv' /\ AgentStep
  BY <1>4, StartHelperKeeps, Zenon
<1>5. ASSUME RestartAgent PROVE AgentInv' /\ AgentStep
  BY <1>5, InitializeKeeps, Zenon DEF RestartAgent
<1>6. ASSUME BootHost PROVE AgentInv' /\ AgentStep
  BY <1>6, InitializeKeeps, Zenon DEF BootHost
<1>7. AgentInv' /\ AgentStep
  BY <1>1, <1>2, <1>3, <1>4, <1>5, <1>6, Zenon DEF AgentNext
<1> QED
  BY <1>7, AgentStepKeeps, Zenon DEF IInv, AgentInv

LEMMA ControllerKeeps ==
  ASSUME IInv, ControllerNext
  PROVE  IInv'
<1>1. CASE Send \/ Observe \/ EnableBegin
  BY <1>1, ObservationsKeep, Zenon
<1>2. CASE RestartController
  BY <1>2, RestartControllerKeeps, Zenon
<1>3. CASE EnableRelease
  BY <1>3, EnableReleaseKeeps, Zenon
<1>4. CASE EnableComplete
  BY <1>4, EnableCompleteKeeps
<1>5. ASSUME NEW o \in Op, Submit(o) \/ Cancel(o) \/ Begin(o) \/ Hold(o) \/ Check(o) \/ Mark(o)
      PROVE  IInv'
  BY <1>5, SubmitKeeps, ObservationsKeep, BeginKeeps, HoldKeeps, CheckKeeps, MarkKeeps, Zenon
<1>6. ASSUME NEW o \in Op, SetFence(o) \/ Dispatch(o) \/ NoAnswer(o) \/ Confirm(o) \/ End(o)
      PROVE  IInv'
  BY <1>6, SetFenceKeeps, DispatchKeeps, NoAnswerKeeps, ConfirmKeeps, EndKeeps, Zenon
<1>7. ASSUME NEW o \in Op, NEW s \in {"requested", "unknown", "rejected"}, Answer(o, s)
      PROVE  IInv'
  BY <1>7, AnswerKeeps, Zenon
<1> QED
  BY <1>1, <1>2, <1>3, <1>4, <1>5, <1>6, <1>7, Zenon DEF ControllerNext

LEMMA NextKeeps == IInv /\ [Next]_vars => IInv'
<1> SUFFICES ASSUME IInv, [Next]_vars PROVE IInv'
  BY Zenon
<1>1. CASE UNCHANGED vars
  <2>1. /\ report \in Hosts /\ Known(report) /\ seen \in Hosts /\ Known(seen)
    BY Zenon DEF IInv, ControllerInv, ControllerShape, Times
  <2> QED
    BY <1>1, <2>1, LearningKeeps, Zenon DEF vars, agentVars, wire, ctlVars, Quiet
<1> QED
  BY <1>1, AgentKeeps, ControllerKeeps, Zenon DEF Next

LEMMA OutcomesHold == IInv => TypeOK /\ OneHelperPerBoot /\ OutcomeIsTrue
<1> SUFFICES ASSUME IInv PROVE TypeOK /\ OneHelperPerBoot /\ OutcomeIsTrue
  BY Zenon
<1>1. TypeOK
  BY Zenon DEF TypeOK, IInv, AgentInv, AgentShape, ControllerInv, ControllerShape, Statuses
<1>2. OneHelperPerBoot
  BY Zenon DEF IInv, AgentInv
<1>3. ASSUME NEW o \in Op, status[o].host = "rejected"
      PROVE  /\ \A i \in DOMAIN attempts : attempts[i].op # o
             /\ agent.request # None => agent.request.op # o
             /\ \A r \in net : r.op = o => ~Acceptable(r)
  <2>1. \A r \in net : r.op = o => r \in rejections
    BY <1>3, Zenon DEF IInv, ControllerInv, Outcomes, Faithful, Rejected
  <2>2. \A i \in DOMAIN attempts : attempts[i].op # o
    BY <2>1, Zenon DEF IInv, AgentInv, Attempted
  <2>3. agent.request # None => agent.request.op # o
    BY <2>1, Zenon DEF IInv, AgentInv, Serving
  <2> QED
    BY <2>1, <2>2, <2>3, Zenon DEF Acceptable
<1>4. \A o \in Op : status[o].host = "rebooted" => status[o].boot < boot
  BY Zenon DEF IInv, ControllerInv, Outcomes, Faithful
<1> QED
  BY <1>1, <1>2, <1>3, <1>4, Zenon DEF OutcomeIsTrue

LEMMA EnabledHolds == IInv /\ ~HoldSyncFails => EnabledIsSafe
<1> SUFFICES ASSUME IInv, ~HoldSyncFails, ~hold
             PROVE  agent.pc = "idle" /\ \A r \in net : ~Acceptable(r)
  BY Zenon DEF EnabledIsSafe
<1>1. \A r \in net : ~Danger(r)
  BY Zenon DEF IInv, ControllerInv, Held, Safe
<1> QED
  BY <1>1, Zenon DEF Danger, Acceptable, IInv, AgentInv, Serving

\* "A crash can therefore leave an unknown operation, but can never silently
\* authorize its replay" (agent/host_reboot_storage.go:59), and "a durable explicit
\* rejection proves no reboot was dispatched" (host_reboot_fences.go:121): whatever
\* operations, late or repeated requests, failed writes and restarts there are, at
\* most one reboot helper is started on a boot of the host, a reported rejection has
\* started none and never will, and a reported reboot has happened.
THEOREM RebootIsNotReplayed == Spec => [](TypeOK /\ OneHelperPerBoot /\ OutcomeIsTrue)
  BY InitIInv, NextKeeps, OutcomesHold, PTL DEF Spec

\* "wait for a new boot and ready Agent before enabling the host"
\* (host_reboot_fences.go:136): if the write of the hold (setHostDisabled) leaves the
\* disk alone when it reports a failure, then in addition no reboot is being
\* prepared, and no request under way can still cause one, while the host is enabled
\* for experiments.
THEOREM RebootIsKeptSafe ==
  ASSUME ~HoldSyncFails
  PROVE  Spec => []RebootIsSafe
<1>1. IInv => RebootIsSafe
  BY OutcomesHold, EnabledHolds, Zenon DEF RebootIsSafe
<1> QED
  BY <1>1, InitIInv, NextKeeps, PTL DEF Spec
=============================================================================
