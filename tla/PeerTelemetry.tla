--------------------------- MODULE PeerTelemetry ---------------------------
(***************************************************************************)
(* The telemetry source of one Peer session (internal/peer/telemetry.go).  *)
(* Producers number and admit events under t.mu into a bounded channel;    *)
(* the loop of run() moves them into a batch, posts prefixes of the batch  *)
(* to the Agent, and retries a failed post with the same events.  The      *)
(* shutdown of Server.Run (peer.go) emits the final events and then        *)
(* cancels the loop, which seals the source and drains what is left.       *)
(*                                                                         *)
(* An event is its sequence number, its kind and, for a telemetry_drop,    *)
(* the count it reports.  "huge" stands for an event no request can        *)
(* encode.  Timestamps and clock fields are left out.                      *)
(***************************************************************************)
EXTENDS Integers, Sequences, FiniteSets, SequencesExt, FiniteSetsExt

CONSTANTS
  Cap,          \* capacity of the channel
  BatchCap,     \* capacity of the batch
  Attacks,      \* whether the final attack snapshot is reserved
  MaxEmits      \* bound: producers stop at this sequence number

ASSUME CapAssumption == Cap \in Nat /\ Cap >= (IF Attacks THEN 5 ELSE 4)
ASSUME BatchAssumption == BatchCap \in Nat \ {0}
ASSUME AttacksAssumption == Attacks \in BOOLEAN
ASSUME EmitsAssumption == MaxEmits \in Nat

VARIABLES
  sequence,     \* last sequence number given out
  queue,        \* the channel t.events
  dropped,      \* losses not yet reported
  started, stopped, sealed,
  shutdown,     \* next step of the deferred shutdown of Server.Run
  pc, batch, flush,   \* the loop of run()
  accepted,     \* what the Agent has taken, duplicates of a retry removed
  lost          \* history: every event that was dropped

source == <<sequence, queue, dropped, lost>>
measurement == <<started, stopped>>
loop == <<pc, batch, flush>>
vars == <<source, measurement, sealed, shutdown, loop, accepted>>

Finals == {"stop", "attack", "bandwidth"}
Kinds == {"plain", "huge", "start", "telemetry_drop"} \cup Finals
Event == [seq : Nat, kind : Kinds, count : Nat]

QueueLimit(priority) == IF priority THEN Cap ELSE Cap - 3 - (IF Attacks THEN 1 ELSE 0)

-----------------------------------------------------------------------------
(* The critical sections of the producers, on s = [seq, q, drops, gone].   *)

Source == [seq |-> sequence, q |-> queue, drops |-> dropped, gone |-> lost]

SetSource(s) ==
  /\ sequence' = s.seq
  /\ queue' = s.q
  /\ dropped' = s.drops
  /\ lost' = s.gone

ReportDropsLocked(s, priority) ==
  IF s.drops = 0 \/ Len(s.q) >= QueueLimit(priority) THEN s
  ELSE [s EXCEPT !.seq = @ + 1, !.drops = 0,
                 !.q = Append(@, [seq |-> s.seq + 1, kind |-> "telemetry_drop", count |-> s.drops])]

\* A mutant: a dropped event gives its sequence number back.
EnqueueRenumbered(s, kind, priority) ==
  LET event == [seq |-> s.seq + 1, kind |-> kind, count |-> 0] IN
  IF sealed \/ Len(s.q) >= QueueLimit(priority)
  THEN [s EXCEPT !.drops = @ + 1, !.gone = @ \cup {[event |-> event, late |-> sealed]}]
  ELSE [s EXCEPT !.seq = @ + 1, !.q = Append(@, event)]

EnqueueLocked(s, kind, priority) ==
  LET event == [seq |-> s.seq + 1, kind |-> kind, count |-> 0] IN
  IF sealed \/ Len(s.q) >= QueueLimit(priority)
  THEN [s EXCEPT !.seq = @ + 1, !.drops = @ + 1, !.gone = @ \cup {[event |-> event, late |-> sealed]}]
  ELSE [s EXCEPT !.seq = @ + 1, !.q = Append(@, event)]

Offer(kind, priority) ==
  SetSource(EnqueueLocked(IF sealed THEN Source ELSE ReportDropsLocked(Source, FALSE), kind, priority))

\* Traffic, configuration and status events; callbacks may still arrive late.
Emit(kind) ==
  /\ sequence < MaxEmits
  /\ Offer(kind, FALSE)
  /\ UNCHANGED <<measurement, sealed, shutdown, loop, accepted>>

StartMeasurement ==
  /\ ~started /\ ~stopped
  /\ sequence < MaxEmits
  /\ started' = TRUE
  /\ SetSource(EnqueueLocked(ReportDropsLocked(Source, FALSE), "start", FALSE))
  /\ UNCHANGED <<stopped, sealed, shutdown, loop, accepted>>

Checkpoint ==
  /\ started /\ ~stopped
  /\ sequence < MaxEmits
  /\ SetSource(EnqueueLocked(ReportDropsLocked(Source, FALSE), "plain", FALSE))
  /\ UNCHANGED <<measurement, sealed, shutdown, loop, accepted>>

\* Called by the parent watch, the API server's end and the shutdown; once.
StopMeasurement ==
  /\ ~stopped
  /\ stopped' = TRUE
  /\ IF started
     THEN SetSource(EnqueueLocked(ReportDropsLocked(Source, TRUE), "stop", TRUE))
     ELSE UNCHANGED source
  /\ UNCHANGED <<started, sealed, shutdown, loop, accepted>>

-----------------------------------------------------------------------------
(* The deferred shutdown of Server.Run, after stopMeasurement.             *)

\* finishAttackRuntime flushes the final snapshot only for a Peer that
\* recorded activity or was configured for attacks.
FinishAttackRuntime ==
  /\ shutdown = "attack" /\ stopped
  /\ shutdown' = "bandwidth"
  /\ \/ Attacks /\ Offer("attack", TRUE)
     \/ UNCHANGED source
  /\ UNCHANGED <<measurement, sealed, loop, accepted>>

EmitBandwidth ==
  /\ shutdown = "bandwidth"
  /\ shutdown' = "stop"
  /\ Offer("bandwidth", TRUE)
  /\ UNCHANGED <<measurement, sealed, loop, accepted>>

StopTelemetry ==
  /\ shutdown = "stop"
  /\ shutdown' = "cancelled"
  /\ UNCHANGED <<source, measurement, sealed, loop, accepted>>

-----------------------------------------------------------------------------
(* The loop of run().                                                      *)

\* The loop looks at the cancelled context and seals the source.
Seal ==
  /\ pc = "top"
  /\ sealed' = (sealed \/ shutdown = "cancelled")
  /\ pc' = IF batch # <<>> /\ (flush \/ Len(batch) = BatchCap \/ sealed') THEN "flush" ELSE "report"
  /\ UNCHANGED <<source, measurement, shutdown, batch, flush, accepted>>

DrainTimeout ==
  /\ pc \in {"flush", "report"} /\ sealed
  /\ pc' = "failed"
  /\ UNCHANGED <<source, measurement, sealed, shutdown, batch, flush, accepted>>

\* MarshalEventBatchPrefix stops before an event that cannot be encoded, and
\* may stop earlier at the byte limit.
Sendable == {n \in 1..Len(batch) : \A i \in 1..n : batch[i].kind # "huge"}

Taken(n) == accepted \o SelectSeq(SubSeq(batch, 1, n), LAMBDA e : e \notin ToSet(accepted))

Removed(n) ==
  /\ batch' = SubSeq(batch, n + 1, Len(batch))
  /\ flush' = (batch' # <<>>)
  /\ pc' = IF flush' THEN "top" ELSE "report"

FlushAccepted(n) ==
  /\ pc = "flush"
  /\ n \in Sendable
  /\ accepted' = Taken(n)
  /\ Removed(n)
  /\ UNCHANGED <<source, measurement, sealed, shutdown>>

\* A mutant: a failed batch goes back through the queue.
FlushRequeued(n) ==
  /\ pc = "flush"
  /\ n \in Sendable
  /\ Len(queue) + Len(batch) <= Cap
  /\ queue' = queue \o batch
  /\ batch' = <<>>
  /\ flush' = FALSE
  /\ pc' = "top"
  /\ UNCHANGED <<sequence, dropped, lost, measurement, sealed, shutdown, accepted>>

\* The post fails, before or after the Agent took the events.
FlushFailed(n) ==
  /\ pc = "flush"
  /\ n \in Sendable
  /\ accepted' \in {accepted, Taken(n)}
  /\ flush' = TRUE
  /\ pc' = "top"
  /\ UNCHANGED <<source, measurement, sealed, shutdown, batch>>

FlushUnencodable ==
  /\ pc = "flush"
  /\ Head(batch).kind = "huge"
  /\ dropped' = dropped + 1
  /\ lost' = lost \cup {[event |-> Head(batch), late |-> FALSE]}
  /\ Removed(1)
  /\ UNCHANGED <<sequence, queue, measurement, sealed, shutdown, accepted>>

ReportDrops ==
  /\ pc = "report"
  /\ SetSource(ReportDropsLocked(Source, sealed))
  /\ pc' = "take"
  /\ UNCHANGED <<measurement, sealed, shutdown, batch, flush, accepted>>

\* The select of an open source: an event, the ticker, or the cancellation.
Take ==
  /\ pc = "take" /\ ~sealed
  /\ pc' = "top"
  /\ \/ queue # <<>> /\ queue' = Tail(queue) /\ batch' = Append(batch, Head(queue)) /\ UNCHANGED flush
     \/ flush' = TRUE /\ UNCHANGED <<queue, batch>>
     \/ shutdown = "cancelled" /\ UNCHANGED <<queue, batch, flush>>
  /\ UNCHANGED <<sequence, dropped, lost, measurement, sealed, shutdown, accepted>>

\* A mutant: an empty source keeps waiting for events.
DrainWaits ==
  /\ pc = "take" /\ sealed
  /\ queue # <<>> \/ batch # <<>>
  /\ LET n == Min({Len(queue), BatchCap - Len(batch)} \cup (IF flush THEN {1} ELSE {}))
     IN  /\ pc' = "top"
         /\ batch' = batch \o SubSeq(queue, 1, n)
         /\ queue' = SubSeq(queue, n + 1, Len(queue))
         /\ flush' = (flush \/ Len(batch') < BatchCap)
  /\ UNCHANGED <<sequence, dropped, lost, measurement, sealed, shutdown, accepted>>

\* A sealed source admits nothing, so the whole inner loop is one step.
Drain ==
  /\ pc = "take" /\ sealed
  /\ IF queue = <<>> /\ batch = <<>> THEN pc' = "done" /\ UNCHANGED <<queue, batch, flush>>
     ELSE LET n == Min({Len(queue), BatchCap - Len(batch)} \cup (IF flush THEN {1} ELSE {}))
          IN  /\ pc' = "top"
              /\ batch' = batch \o SubSeq(queue, 1, n)
              /\ queue' = SubSeq(queue, n + 1, Len(queue))
              /\ flush' = (flush \/ Len(batch') < BatchCap)
  /\ UNCHANGED <<sequence, dropped, lost, measurement, sealed, shutdown, accepted>>

-----------------------------------------------------------------------------
Init ==
  /\ sequence = 0 /\ queue = <<>> /\ dropped = 0 /\ lost = {}
  /\ started = FALSE /\ stopped = FALSE /\ sealed = FALSE
  /\ shutdown = "attack"
  /\ pc = "top" /\ batch = <<>> /\ flush = FALSE
  /\ accepted = <<>>

Producers ==
  \/ \E kind \in {"plain", "huge"} : Emit(kind)
  \/ StartMeasurement
  \/ Checkpoint
  \/ StopMeasurement

Shutdown ==
  \/ FinishAttackRuntime
  \/ EmitBandwidth
  \/ StopTelemetry

Loop ==
  \/ Seal
  \/ DrainTimeout
  \/ \E n \in 1..BatchCap : FlushAccepted(n) \/ FlushFailed(n)
  \/ FlushUnencodable
  \/ ReportDrops
  \/ Take
  \/ Drain

\* After the loop returned Server.Run returns and the process ends.
Next == pc \notin {"done", "failed"} /\ (Producers \/ Shutdown \/ Loop)

Spec == Init /\ [][Next]_vars

\* The goroutines of the Peer are scheduled, and the drain timer fires.
FairSpec ==
  /\ Spec
  /\ WF_vars(Next /\ StopMeasurement)
  /\ WF_vars(Next /\ Shutdown)
  /\ WF_vars(Next /\ Loop)
  /\ SF_vars(DrainTimeout)

-----------------------------------------------------------------------------
Pending == ToSet(queue) \cup ToSet(batch) \cup ToSet(accepted)

\* Types, with the channel within its capacity: the unconditional send of a
\* drop notice (telemetry.go:279) never blocks while it holds the mutex.
TypeOK ==
  /\ sequence \in Nat /\ dropped \in Nat
  /\ queue \in Seq(Event) /\ Len(queue) <= Cap
  /\ batch \in Seq(Event) /\ Len(batch) <= BatchCap
  /\ accepted \in Seq(Event)
  /\ \A l \in lost : l.event \in Event /\ l.late \in BOOLEAN
  /\ {started, stopped, sealed, flush} \subseteq BOOLEAN
  /\ shutdown \in {"attack", "bandwidth", "stop", "cancelled"}
  /\ pc \in {"top", "flush", "report", "take", "done", "failed"}

\* Every number the source gave out (identifyLocked) is queued, batched or
\* with the Agent, or was dropped; and the drops still to be reported with
\* the drops reported by telemetry_drop events are exactly the losses.
LossesAreCounted ==
  /\ {e.seq : e \in Pending} \cup {l.event.seq : l \in lost} = 1..sequence
  /\ {e.seq : e \in Pending} \cap {l.event.seq : l \in lost} = {}
  /\ Cardinality(lost) = dropped + MapThenSumSet(LAMBDA e : e.count, Pending)

\* "Keep this bounded batch, preserving source order and IDs": the Agent
\* takes events in source order, and nothing it has not taken precedes what
\* it has, across retries, lost answers, partial and unencodable batches.
SourceOrder ==
  LET rest == SelectSeq(batch \o queue, LAMBDA e : e \notin ToSet(accepted))
      all == accepted \o rest
  IN  \A i \in 1..(Len(all) - 1) : all[i].seq < all[i + 1].seq

\* The slots queueLimit holds back are enough: whatever producers do, the
\* stop checkpoint, the final attack snapshot and the final bandwidth
\* counters are admitted.
FinalsAdmitted == \A l \in lost : l.event.kind \notin Finals

\* A drain that returns nil left nothing behind: the Agent has the final
\* events, and every loss before the source was sealed has been reported.
CleanDrain ==
  pc = "done" =>
    /\ queue = <<>> /\ batch = <<>>
    /\ \E e \in ToSet(accepted) : e.kind = "bandwidth"
    /\ started => \E e \in ToSet(accepted) : e.kind = "stop"
    /\ dropped <= Cardinality({l \in lost : l.late})

\* The shutdown always ends: run() returns, drained or with a timeout.
ShutdownEnds == <>(pc \in {"done", "failed"})

\* An Agent that answers is enough: while posts and encodings do not fail
\* for ever and the timer does not fire, the drain empties the source.
Drains == (sealed ~> (pc = "done")) \/ <>(pc = "failed") \/ []<><<\E n \in 1..BatchCap : FlushFailed(n)>>_vars

\* The bounded queue keeps its type and its bound, admits the final events, and the
\* Agent takes what it holds in source order.
TelemetryConsistent == TypeOK /\ FinalsAdmitted /\ SourceOrder

\* Every loss is counted while the Peer runs, and reported when it has drained.
LossesAreReported == LossesAreCounted /\ CleanDrain

\* A Peer always shuts down, and with an Agent that answers it loses nothing.
ShutdownCompletes == ShutdownEnds /\ Drains
=============================================================================
