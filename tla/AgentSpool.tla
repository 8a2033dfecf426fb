----------------------------- MODULE AgentSpool -----------------------------
(***************************************************************************)
(* The Agent's telemetry spool: internal/agent/telemetry_log.go,           *)
(* telemetry_spool.go, telemetry_window.go, run_drain.go and the event     *)
(* functions of agent.go.                                                  *)
(*                                                                         *)
(* Peers (Sources) post batches of events; the Agent appends them to       *)
(* append-only segment files, answers, and forwards windows of the pending *)
(* prefix to the Controller, one request in flight.  A delivered prefix is *)
(* retired by appending a frame to the segment's acknowledgement journal.  *)
(*                                                                         *)
(* The disk keeps, for every segment, which part is durable (fsync and     *)
(* directory fsync have returned) and which part is only in the page       *)
(* cache.  A process crash loses memory; a host crash also loses any       *)
(* suffix of what is not durable, possibly cutting a line or a frame       *)
(* (torn).  eventsMu makes every operation atomic with respect to the      *)
(* others, so an operation is one action, with one outcome per place where *)
(* it can fail; a crash in the middle of an operation is that failure      *)
(* followed by a crash.                                                    *)
(***************************************************************************)
EXTENDS Integers, FiniteSets, SequencesExt

CONSTANTS
  Sources,       \* Peer sessions; each belongs to one run, named by the session
  EventsPerSource,
  BatchEvents,   \* largest batch one Peer request carries
  SegmentLines,  \* telemetrySegmentBytes, counted in events of size 1
  WindowEvents,  \* telemetryWindowEvents/Bytes
  BacklogEvents, \* telemetryBacklogEvents/Bytes
  MaxSegments,   \* bound: segment files ever created
  MaxFaults,     \* bound: I/O errors and lost replies
  MaxCrashes,    \* bound: process and host crashes, shutdowns
  DrainRuns      \* runs whose drainRunEvents is exercised

ASSUME SpoolConstants ==
  /\ EventsPerSource \in Nat \ {0} /\ BatchEvents \in Nat \ {0}
  /\ SegmentLines \in Nat \ {0} /\ WindowEvents \in Nat \ {0}
  /\ BacklogEvents \in Nat /\ MaxSegments \in Nat /\ MaxFaults \in Nat
  /\ MaxCrashes \in Nat /\ DrainRuns \subseteq Sources

Seg == 1..MaxSegments
NoSeg == 0

\* Event <<s, n>>: the n-th event of session s; <<s, 0>> is the exit marker
\* (measurement_terminated) that the Agent itself records for s.
Event == Sources \X (0..EventsPerSource)

VARIABLES
  disk,      \* [f: segment files, mk: the format marker]
  mem,       \* telemetrySpool and the telemetry fields of Server
  flight,    \* window of the request in flight, << >> if eventsInFlight = 0
  stored,    \* the Controller has committed the window in flight
  ackLeft,   \* events of the delivered window acknowledge() has still to retire
  late,      \* windows of requests the Agent gave up on, still at the Controller
  received,  \* history: events the Controller committed, by first arrival
  accepted,  \* history: events of requests the Agent answered with success
  next,      \* [Sources -> next event number the session has to deliver]
  exited,    \* sessions whose process has finished
  drain,     \* drainRunEvents per run: [st, want]
  faults,
  crashes    \* of the host, and of the process alone, which keeps the page cache

vars == <<disk, mem, flight, stored, ackLeft, late, received, accepted,
          next, exited, drain, faults, crashes>>
spoolVars == <<disk, mem>>
sendVars == <<flight, stored, ackLeft, late, received>>
srcVars == <<accepted, next, exited, drain>>

NoFile == [st |-> "absent", entry |-> FALSE, lines |-> <<>>, synced |-> 0,
           torn |-> FALSE, frames |-> <<>>, fsynced |-> 0, ftorn |-> FALSE]
Gone == [NoFile EXCEPT !.st = "removed"]   \* the name is never used again

EmptyMem == [up |-> TRUE, cnt |-> [g \in Seg |-> 0], ack |-> [g \in Seg |-> 0],
             nfr |-> [g \in Seg |-> 0], recs |-> <<>>, active |-> NoSeg,
             cleanup |-> NoSeg, ready |-> FALSE, terms |-> {}, err |-> FALSE,
             closed |-> FALSE]

Init ==
  /\ disk = [f |-> [g \in Seg |-> NoFile], mk |-> "absent"]
  /\ mem = EmptyMem
  /\ flight = <<>> /\ stored = FALSE /\ ackLeft = 0 /\ late = {}
  /\ received = <<>>
  /\ accepted = {}
  /\ next = [s \in Sources |-> 1]
  /\ exited = {}
  /\ drain = [s \in Sources |-> [st |-> "idle", want |-> {}]]
  /\ faults = 0 /\ crashes = [host |-> 0, process |-> 0]

Running == mem.up /\ ackLeft = 0    \* eventsMu is free
Fault == faults < MaxFaults /\ faults' = faults + 1

\* pendingEventsLocked
Pending == Len(mem.recs) + Cardinality(mem.terms)

\* Segments are named by a strictly increasing stamp.
Fresh(d) == {g \in Seg : \A h \in g..MaxSegments : d.f[h] = NoFile}
NextSeg(d) == CHOOSE g \in Fresh(d) : \A h \in Fresh(d) : g <= h

\* syncTelemetryDirectory: every entry made or removed so far becomes durable.
DirSynced(d) ==
  [f |-> [g \in Seg |-> CASE d.f[g].st = "unlinked" -> Gone
                          [] d.f[g].st = "present" -> [d.f[g] EXCEPT !.entry = TRUE]
                          [] OTHER -> d.f[g]],
   mk |-> CASE d.mk = "cached" -> "durable" [] d.mk = "unlinked" -> "absent" [] OTHER -> d.mk]

\* removeSegment, and the states it can leave behind when it fails.
Removed(d, g) == DirSynced([d EXCEPT !.f[g] = Gone])
RemoveErrors(d, g) == {d, [d EXCEPT !.f[g].st = "unlinked"], Removed(d, g)}
-----------------------------------------------------------------------------
(***************************************************************************)
(* appendLog                                                               *)
(***************************************************************************)

\* ensureLogFormat: a marker found on disk is accepted as it is.
FormatReady(m, d) ==
  [m |-> [m EXCEPT !.ready = TRUE],
   d |-> IF m.ready \/ d.mk \in {"cached", "durable"} THEN d
         ELSE DirSynced([d EXCEPT !.mk = "cached"])]

\* The full active segment a batch of n events does not fit in, or NoSeg.
RollFrom(m, n) ==
  IF m.active # NoSeg /\ m.cnt[m.active] + n > SegmentLines THEN m.active ELSE NoSeg

\* Up to the choice of the file: a full segment is left, and removed if all of
\* it was delivered.
Rolled(m, d, n) ==
  LET r == FormatReady(m, d)
      g == RollFrom(m, n)
  IN  IF g = NoSeg THEN r
      ELSE [m |-> [r.m EXCEPT !.active = NoSeg],
            d |-> IF m.ack[g] = m.cnt[g] THEN Removed(r.d, g) ELSE r.d]

CanAppend(m, d, n) == Rolled(m, d, n).m.active = NoSeg => Fresh(Rolled(m, d, n).d) # {}

\* A new file is written aside, fsynced, renamed and its directory fsynced.
Created(d, g, b) ==
  [d EXCEPT !.f[g] = [NoFile EXCEPT !.st = "present", !.lines = b, !.synced = Len(b)]]

\* Mutant: the extended file is not fsynced.
AppendedUnsynced(m, d, b) ==
  LET r == Rolled(m, d, Len(b))
      new == r.m.active = NoSeg
      g == IF new THEN NextSeg(r.d) ELSE r.m.active
      n == r.m.cnt[g]
  IN  [m |-> [r.m EXCEPT !.active = g, !.cnt[g] = n + Len(b),
                         !.recs = @ \o [i \in 1..Len(b) |-> <<g, n + i>>]],
       d |-> IF new THEN DirSynced(Created(r.d, g, b))
             ELSE [r.d EXCEPT !.f[g].lines = SubSeq(@, 1, n) \o b]]

\* An existing file is cut back to the committed prefix, extended and fsynced.
Appended(m, d, b) ==
  LET r == Rolled(m, d, Len(b))
      new == r.m.active = NoSeg
      g == IF new THEN NextSeg(r.d) ELSE r.m.active
      n == r.m.cnt[g]
      old == r.d.f[g]
  IN  [m |-> [r.m EXCEPT !.active = g, !.cnt[g] = n + Len(b),
                         !.recs = @ \o [i \in 1..Len(b) |-> <<g, n + i>>]],
       d |-> IF new THEN DirSynced(Created(r.d, g, b))
             ELSE [r.d EXCEPT !.f[g] = [old EXCEPT !.lines = SubSeq(@, 1, n) \o b,
                                                   !.synced = n + Len(b), !.torn = FALSE]]]

\* Every state appendLog can leave behind when it returns an error.
AppendErrors(m, d, b) ==
  LET r == Rolled(m, d, Len(b))
      g == RollFrom(m, Len(b))
      a == r.m.active
      n == r.m.cnt[a]
      format == IF m.ready \/ d.mk \in {"cached", "durable"} THEN {}
                ELSE {[m |-> m, d |-> e] : e \in {d, [d EXCEPT !.mk = "cached"]}}
      roll == IF g = NoSeg \/ m.ack[g] # m.cnt[g] THEN {}
              ELSE {[m |-> [r.m EXCEPT !.cleanup = g], d |-> e] :
                      e \in RemoveErrors(FormatReady(m, d).d, g)}
      create == {[m |-> r.m, d |-> e] : e \in {r.d, Created(r.d, NextSeg(r.d), b)}}
      write == {r} \cup
               {[m |-> r.m,
                 d |-> [r.d EXCEPT !.f[a].lines = SubSeq(@, 1, n) \o SubSeq(b, 1, k),
                                   !.f[a].torn = t]] : k \in 0..Len(b), t \in BOOLEAN}
  IN  {[x EXCEPT !.m.err = TRUE] :
         x \in format \cup roll \cup (IF a = NoSeg THEN create ELSE write)}
-----------------------------------------------------------------------------
(***************************************************************************)
(* enqueueEvents, the handler of POST /api/v1/telemetry, and               *)
(* queueTermination                                                        *)
(***************************************************************************)
Batch(s, lo, hi) == [i \in 1..(hi - lo + 1) |-> <<s, lo + i - 1>>]

\* A session posts its unacknowledged events lo..hi; the request may also be a
\* delayed duplicate of one the session has already repeated successfully,
\* which counts as a fault like the lost reply that caused it.
Admitted(s, lo, hi) ==
  /\ Running /\ ~mem.closed
  /\ lo <= next[s] /\ (lo = next[s] => s \notin exited)
  /\ Pending + (hi - lo + 1) <= BacklogEvents
  /\ CanAppend(mem, disk, hi - lo + 1)

Enqueue(s, lo, hi, replied) ==
  LET a == Appended(mem, disk, Batch(s, lo, hi))
  IN  /\ Admitted(s, lo, hi)
      /\ mem' = a.m /\ disk' = a.d
      /\ accepted' = accepted \cup Range(Batch(s, lo, hi))
      /\ next' = IF replied /\ hi >= next[s] THEN [next EXCEPT ![s] = hi + 1] ELSE next
      /\ IF replied /\ lo = next[s] THEN faults' = faults ELSE Fault
      /\ UNCHANGED <<sendVars, exited, drain, crashes>>

EnqueueFails(s, lo, hi) ==
  /\ Admitted(s, lo, hi)
  /\ \E e \in AppendErrors(mem, disk, Batch(s, lo, hi)) : mem' = e.m /\ disk' = e.d
  /\ Fault
  /\ UNCHANGED <<sendVars, srcVars, crashes>>

\* finishProcess: the exit marker bypasses the backlog limit and the closed
\* flag, and stays in memory if it cannot be persisted.
Exit(s) == <<<<s, 0>>>>

QueueTermination(s) ==
  /\ Running
  /\ s \notin exited
  /\ exited' = exited \cup {s}
  /\ CanAppend(mem, disk, 1)
  /\ \/ /\ LET a == Appended(mem, disk, Exit(s)) IN mem' = a.m /\ disk' = a.d
        /\ accepted' = accepted \cup {<<s, 0>>}
        /\ faults' = faults
     \/ /\ \E e \in AppendErrors(mem, disk, Exit(s)) :
             mem' = [e.m EXCEPT !.terms = @ \cup {s}] /\ disk' = e.d
        /\ Fault
        /\ accepted' = accepted
  /\ UNCHANGED <<sendVars, next, drain, crashes>>
-----------------------------------------------------------------------------
(***************************************************************************)
(* flushEvents                                                             *)
(***************************************************************************)

\* admitTerminationsLocked: retained markers are appended in map order, up to
\* the first error.
AdmitSeq(q) ==
  FoldLeft(LAMBDA r, s : LET a == Appended(r.m, r.d, Exit(s))
                         IN  [m |-> [a.m EXCEPT !.terms = @ \ {s}], d |-> a.d],
           [m |-> mem, d |-> disk], q)

\* Mutant: retained markers are never admitted later.
AdmitNone == {[m |-> mem, d |-> disk, ok |-> TRUE]}

AdmitAll == {[m |-> AdmitSeq(q).m, d |-> AdmitSeq(q).d, ok |-> TRUE] : q \in SetToSeqs(mem.terms)}
AdmitFails ==
  UNION {{[m |-> e.m, d |-> e.d, ok |-> FALSE] :
            e \in UNION {AppendErrors(AdmitSeq(q).m, AdmitSeq(q).d, Exit(s)) :
                           s \in mem.terms \ Range(q)}} :
         q \in SetToAllKPermutations(mem.terms)}

\* marshalPrefix and postData: a failed removal is retried first, then a window
\* of the pending prefix is read from disk and sent, one request in flight.
Window(m, d) ==
  [i \in 1..Min({Len(m.recs), WindowEvents}) |-> d.f[m.recs[i][1]].lines[m.recs[i][2]]]

Flush ==
  /\ Running /\ flight = <<>>
  /\ mem.recs # <<>> \/ mem.terms # {} \/ mem.err
  /\ Cardinality(Fresh(disk)) >= Cardinality(mem.terms)    \* bound
  /\ \E a \in AdmitAll \cup AdmitFails :
       LET d == IF a.m.cleanup = NoSeg THEN a.d ELSE Removed(a.d, a.m.cleanup)
           m == [a.m EXCEPT !.cleanup = NoSeg]
       IN  /\ flight' = Window(m, d)
           /\ disk' = d
           /\ mem' = IF m.recs = <<>> /\ m.terms = {} THEN [m EXCEPT !.err = FALSE] ELSE m
           /\ accepted' = accepted \cup {<<s, 0>> : s \in mem.terms \ a.m.terms}
           /\ IF a.ok THEN faults' = faults ELSE Fault
  /\ UNCHANGED <<stored, ackLeft, late, received, next, exited, drain, crashes>>

\* The removal fails again, or the window cannot be read.
FlushReadFails ==
  /\ Running /\ flight = <<>> /\ mem.recs # <<>>
  /\ Cardinality(Fresh(disk)) >= Cardinality(mem.terms)    \* bound
  /\ \E a \in AdmitAll :
       /\ \/ /\ a.m.cleanup # NoSeg
             /\ disk' \in RemoveErrors(a.d, a.m.cleanup)
             /\ mem' = [a.m EXCEPT !.err = TRUE]
          \/ /\ disk' = IF a.m.cleanup = NoSeg THEN a.d ELSE Removed(a.d, a.m.cleanup)
             /\ mem' = [a.m EXCEPT !.cleanup = NoSeg, !.err = TRUE]
       /\ accepted' = accepted \cup {<<s, 0>> : s \in mem.terms}
  /\ Fault
  /\ UNCHANGED <<sendVars, next, exited, drain, crashes>>

\* The Controller commits a window (external: internal/controller keeps each
\* event identity once); received lists the events by their first arrival.
Arrive(w) == received' = received \o SelectSeq(w, LAMBDA e : ~Contains(received, e))

ControllerStore ==
  /\ flight # <<>> /\ ~stored
  /\ Arrive(flight)
  /\ stored' = TRUE
  /\ UNCHANGED <<spoolVars, flight, ackLeft, late, srcVars, faults, crashes>>

\* A request the Agent has given up on is committed afterwards.
LateStore ==
  \E w \in late :
    /\ Arrive(w)
    /\ late' = late \ {w}
    /\ UNCHANGED <<spoolVars, flight, stored, ackLeft, srcVars, faults, crashes>>

\* postData fails: timeout, lost reply or rejection.  The records stay.
FlushFails ==
  /\ Running /\ flight # <<>>
  /\ flight' = <<>>
  /\ stored' = FALSE
  /\ late' = IF stored THEN late ELSE late \cup {flight}
  /\ Fault
  /\ UNCHANGED <<spoolVars, ackLeft, received, srcVars, crashes>>

\* Mutant: the window is acknowledged whatever the Controller answered.
FlushDoneAlways ==
  /\ Running /\ flight # <<>>
  /\ ackLeft' = Len(flight)
  /\ flight' = <<>>
  /\ stored' = FALSE
  /\ UNCHANGED <<spoolVars, late, received, srcVars, faults, crashes>>

\* postData succeeds: acknowledge(count) starts, holding eventsMu.
FlushDone ==
  /\ Running /\ flight # <<>> /\ stored
  /\ ackLeft' = Len(flight)
  /\ flight' = <<>>
  /\ stored' = FALSE
  /\ UNCHANGED <<spoolVars, late, received, srcVars, faults, crashes>>

\* acknowledge: the segment of the first record and the count it is acked to.
AckSeg == mem.recs[1][1]
AckTo == mem.ack[AckSeg] + Min({ackLeft, mem.cnt[AckSeg] - mem.ack[AckSeg]})
Retire == AckTo = mem.cnt[AckSeg] /\ AckSeg # mem.active

Retired(m) ==
  [m EXCEPT !.recs = SubSeq(@, AckTo - m.ack[AckSeg] + 1, Len(@)),
            !.nfr[AckSeg] = @ + 1, !.ack[AckSeg] = AckTo, !.err = FALSE]

\* Mutant: what a failed write left in the journal is not cut.
FramedAfterTail(d) ==
  LET w == [d EXCEPT !.f[AckSeg] =
              [@ EXCEPT !.frames = Append(@, AckTo),
                        !.fsynced = Len(d.f[AckSeg].frames) + 1, !.ftorn = FALSE]]
  IN  IF mem.nfr[AckSeg] = 0 THEN DirSynced(w) ELSE w

\* acknowledgeLog: the frame is durable before the records are dropped; the
\* first frame of a journal also syncs the directory.
Framed(d) ==
  LET n == mem.nfr[AckSeg]
      w == [d EXCEPT !.f[AckSeg] =
              [@ EXCEPT !.frames = Append(SubSeq(@, 1, n), AckTo),
                        !.fsynced = n + 1, !.ftorn = FALSE]]
  IN  IF n = 0 THEN DirSynced(w) ELSE w

\* One iteration of the loop in acknowledge.
AckStep ==
  /\ mem.up /\ ackLeft > 0
  /\ ackLeft' = ackLeft - (AckTo - mem.ack[AckSeg])
  /\ mem' = Retired(mem)
  /\ disk' = IF Retire THEN Removed(Framed(disk), AckSeg) ELSE Framed(disk)
  /\ UNCHANGED <<flight, stored, late, received, srcVars, faults, crashes>>

\* The frame was not made durable, or the delivered segment not removed:
\* acknowledge keeps what it has committed and returns.
AckFails ==
  /\ mem.up /\ ackLeft > 0
  /\ ackLeft' = 0
  /\ \/ /\ \E k \in 0..1, t \in BOOLEAN :
             disk' = [disk EXCEPT !.f[AckSeg].frames =
                        SubSeq(@, 1, mem.nfr[AckSeg]) \o [i \in 1..k |-> AckTo],
                                  !.f[AckSeg].ftorn = t]
        /\ mem' = [mem EXCEPT !.err = TRUE]
     \/ /\ Retire
        /\ disk' \in RemoveErrors(Framed(disk), AckSeg)
        /\ mem' = [Retired(mem) EXCEPT !.cleanup = AckSeg, !.err = TRUE]
  /\ Fault
  /\ UNCHANGED <<flight, stored, late, received, srcVars, crashes>>
-----------------------------------------------------------------------------
(***************************************************************************)
(* drainRunEvents: counts the run's records and retained markers, then     *)
(* takes the lock again to read the recorded spool error.                  *)
(***************************************************************************)
DrainStart(s) ==
  /\ Running /\ drain[s].st = "idle"
  /\ drain' = [drain EXCEPT ![s] =
       [st |-> "wait", want |-> {e \in accepted : e[1] = s} \cup
                                {<<s, 0>> : x \in mem.terms \cap {s}}]]
  /\ UNCHANGED <<spoolVars, sendVars, accepted, next, exited, faults, crashes>>

\* Mutant: markers kept in memory are not counted.
DrainedRecords(s) ==
  \A i \in DOMAIN mem.recs : disk.f[mem.recs[i][1]].lines[mem.recs[i][2]][1] # s

Drained(s) ==
  /\ \A i \in DOMAIN mem.recs : disk.f[mem.recs[i][1]].lines[mem.recs[i][2]][1] # s
  /\ s \notin mem.terms

DrainCheck(s) ==
  /\ Running /\ drain[s].st = "wait"
  /\ Drained(s)
  /\ drain' = [drain EXCEPT ![s].st = "checked"]
  /\ UNCHANGED <<spoolVars, sendVars, accepted, next, exited, faults, crashes>>

DrainReturn(s) ==
  /\ Running /\ drain[s].st = "checked"
  /\ drain' = [drain EXCEPT ![s].st = IF mem.err THEN "idle" ELSE "ok"]
  /\ UNCHANGED <<spoolVars, sendVars, accepted, next, exited, faults, crashes>>

\* The request's deadline passes: runLogsPendingError.
DrainExpires(s) ==
  /\ Running /\ drain[s].st = "wait" /\ ~Drained(s)
  /\ drain' = [drain EXCEPT ![s].st = "idle"]
  /\ UNCHANGED <<spoolVars, sendVars, accepted, next, exited, faults, crashes>>
-----------------------------------------------------------------------------
(***************************************************************************)
(* Shutdown, crashes and readTelemetrySpool                                *)
(***************************************************************************)

\* The end of serve, once every Peer has exited.
CloseTelemetry ==
  /\ Running /\ ~mem.closed /\ exited = Sources
  /\ crashes.host + crashes.process < MaxCrashes
  /\ mem' = [mem EXCEPT !.closed = TRUE]
  /\ UNCHANGED <<disk, sendVars, srcVars, faults, crashes>>

Down(kind) ==
  /\ mem' = [EmptyMem EXCEPT !.up = FALSE]
  /\ flight' = <<>> /\ stored' = FALSE /\ ackLeft' = 0
  /\ late' = IF flight # <<>> /\ ~stored THEN late \cup {flight} ELSE late
  /\ drain' = [s \in Sources |->
                 IF drain[s].st = "ok" THEN drain[s] ELSE [drain[s] EXCEPT !.st = "idle"]]
  /\ crashes.host + crashes.process < MaxCrashes
  /\ crashes' = [crashes EXCEPT ![kind] = @ + 1]
  /\ exited' = Sources    \* startup removes the containers of the previous process
  /\ UNCHANGED <<received, accepted, next, faults>>

\* releaseIdleLog: the delivered segments and then the format marker are
\* removed; the marker only when the spool holds no record.
IdleReleased(d) ==
  LET c == IF mem.cleanup = NoSeg THEN d ELSE Removed(d, mem.cleanup)
      a == IF mem.active = NoSeg THEN c ELSE Removed(c, mem.active)
  IN  DirSynced([a EXCEPT !.mk = IF @ = "absent" THEN @ ELSE "unlinked"])

\* drainEvents finished, or gave up after 10 s leaving the records on disk.
Stop ==
  /\ Running /\ mem.closed
  /\ disk' = IF Pending = 0 THEN IdleReleased(disk) ELSE disk
  /\ Down("process")

ProcessCrash ==
  /\ mem.up
  /\ disk' = disk
  /\ Down("process")

\* What a host crash can leave of a segment file and its journal.
Survivors(f) ==
  IF f.st \in {"absent", "removed"} THEN {f}
  ELSE {[f EXCEPT !.lines = SubSeq(@, 1, k), !.synced = k, !.torn = t,
                  !.frames = SubSeq(@, 1, j), !.fsynced = j, !.ftorn = u,
                  !.st = "present", !.entry = TRUE] :
          k \in f.synced..Len(f.lines), j \in f.fsynced..Len(f.frames),
          t \in {FALSE, f.torn \/ f.synced < Len(f.lines)},
          u \in {FALSE, f.ftorn \/ f.fsynced < Len(f.frames)}} \cup
       (IF f.entry /\ f.st = "present" THEN {} ELSE {Gone})

HostCrash ==
  /\ \E f \in [Seg -> UNION {Survivors(disk.f[g]) : g \in Seg}],
        mk \in IF disk.mk \in {"cached", "unlinked"} THEN {"absent", "durable"} ELSE {disk.mk} :
       /\ \A g \in Seg : f[g] \in Survivors(disk.f[g])
       /\ disk' = [f |-> f, mk |-> mk]
  /\ Down("host")

LastFrame(f) == IF f.frames = <<>> THEN 0 ELSE Last(f.frames)

\* recoverTelemetryAck: strictly increasing frames within the lines read.
JournalValid(f) ==
  /\ \A i \in DOMAIN f.frames : f.frames[i] \in 1..Len(f.lines)
  /\ \A i, j \in DOMAIN f.frames : i < j => f.frames[i] < f.frames[j]

Present(d) == {g \in Seg : d.f[g].st = "present"}

\* recoverLog: a torn line and a torn frame are cut, and what is left of that
\* file is synced; a delivered segment is removed.
Repaired(f) ==
  [f EXCEPT !.torn = FALSE, !.synced = IF f.torn THEN Len(f.lines) ELSE @,
            !.ftorn = FALSE, !.fsynced = IF f.ftorn THEN Len(f.frames) ELSE @]

Recovered(d) ==
  LET done == {g \in Present(d) : LastFrame(d.f[g]) = Len(d.f[g].lines)}
      kept == [d EXCEPT !.f = [g \in Seg |-> IF g \in done THEN Gone
                                             ELSE IF g \in Present(d) THEN Repaired(d.f[g])
                                             ELSE d.f[g]]]
      marked == IF done = Present(d) /\ d.mk # "absent"
                THEN [kept EXCEPT !.mk = "unlinked"] ELSE kept
  IN  IF done # {} \/ marked # kept THEN DirSynced(marked) ELSE kept

\* Mutant: segments are recovered newest first.
NewestFirst(d) == SetToSortSeq(Present(d), >)

\* Recovery reads the segments in the order of their names.
NameOrder(d) == SetToSortSeq(Present(d), <)

UnackedRecs(f, g) == [i \in 1..(Len(f.lines) - LastFrame(f)) |-> <<g, LastFrame(f) + i>>]

\* A journal the lines do not support makes the Agent refuse to start.
RecoveryRefuses == \E g \in Present(disk) : ~JournalValid(disk.f[g])

Recover ==
  /\ ~mem.up /\ ~RecoveryRefuses
  /\ LET d == Recovered(disk)
         live == NameOrder(d)
         of(g, n) == IF g \in Present(d) THEN n ELSE 0
     IN  /\ disk' = d
         /\ mem' = [EmptyMem EXCEPT
              !.cnt = [g \in Seg |-> of(g, Len(d.f[g].lines))],
              !.ack = [g \in Seg |-> of(g, LastFrame(d.f[g]))],
              !.nfr = [g \in Seg |-> of(g, Len(d.f[g].frames))],
              !.ready = live # <<>> /\ d.mk # "absent",
              !.recs = FlattenSeq([i \in 1..Len(live) |-> UnackedRecs(d.f[live[i]], live[i])])]
  /\ UNCHANGED <<sendVars, srcVars, faults, crashes>>
-----------------------------------------------------------------------------
EnqueueAny ==
  \E s \in Sources, lo, hi \in 1..EventsPerSource :
    /\ lo <= hi /\ hi - lo < BatchEvents
    /\ \/ \E replied \in BOOLEAN : Enqueue(s, lo, hi, replied)
       \/ EnqueueFails(s, lo, hi)

Next ==
  \/ EnqueueAny
  \/ \E s \in Sources : QueueTermination(s)
  \/ Flush \/ FlushReadFails \/ ControllerStore \/ LateStore \/ FlushFails \/ FlushDone
  \/ AckStep \/ AckFails
  \/ \E s \in DrainRuns : DrainStart(s) \/ DrainCheck(s) \/ DrainReturn(s) \/ DrainExpires(s)
  \/ CloseTelemetry \/ Stop \/ ProcessCrash \/ HostCrash
  \/ Recover

Spec == Init /\ [][Next]_vars

\* controlLoop flushes every 500 ms, the Controller answers what it received,
\* and a stopped Agent is started again by its supervisor.
Fairness ==
  /\ WF_vars(Flush) /\ WF_vars(ControllerStore) /\ WF_vars(FlushDone)
  /\ WF_vars(AckStep) /\ WF_vars(Recover)
FairSpec == Spec /\ Fairness
-----------------------------------------------------------------------------
\* Files, records, requests and drains have their types, and the durable part of
\* a file is never longer than the file.
TypeOK ==
  /\ DOMAIN disk.f = Seg
  /\ disk.mk \in {"absent", "cached", "durable", "unlinked"}
  /\ \A g \in Seg : /\ disk.f[g].st \in {"absent", "present", "unlinked", "removed"}
                    /\ Range(disk.f[g].lines) \subseteq Event
                    /\ disk.f[g].synced <= Len(disk.f[g].lines)
                    /\ disk.f[g].fsynced <= Len(disk.f[g].frames)
                    /\ mem.ack[g] <= mem.cnt[g]
  /\ mem.active \in Seg \cup {NoSeg} /\ mem.cleanup \in Seg \cup {NoSeg}
  /\ Range(mem.recs) \subseteq Seg \X (1..(EventsPerSource * Cardinality(Sources) * 3))
  /\ Range(flight) \subseteq Event /\ Range(received) \subseteq Event
  /\ accepted \subseteq Event
  /\ ackLeft \in 0..WindowEvents
  /\ \A s \in Sources : drain[s].st \in {"idle", "wait", "checked", "ok"}

\* A line that every later start of the Agent will find: durable, in a file
\* whose entry is durable, beyond the last frame.
Safe(e) ==
  \E g \in Seg : LET f == disk.f[g]
                 IN  /\ f.st = "present" /\ f.entry
                     /\ \E i \in (LastFrame(f) + 1)..f.synced : f.lines[i] = e

\* "A successful append means every event is durable" (telemetry_spool.go:193):
\* an event the Agent answered for is at the Controller or on disk in a line
\* that no crash, failed write, failed frame or failed removal can take away.
NoAcceptedLoss == \A e \in accepted : Contains(received, e) \/ Safe(e)

\* "Acknowledge only a delivered prefix" (telemetry_spool.go:244): whatever the
\* journal on disk says, torn and repeated writes included, the events it
\* covers are at the Controller.
JournalOnlyDelivered ==
  \A g \in Seg :
    LET f == disk.f[g]
    IN  f.st \in {"present", "unlinked"} =>
          \A i \in DOMAIN f.frames : \A j \in 1..Min({f.frames[i], Len(f.lines)}) :
            Contains(received, f.lines[j])

\* "Keep a single request in flight so retries remain ahead of subsequent
\* events" (agent.go:1063): the events of a session reach the Controller for
\* the first time in the order the session produced them.
FirstArrivalInOrder ==
  \A i, j \in DOMAIN received :
    received[i][1] = received[j][1] /\ 0 < received[i][2] /\ received[i][2] < received[j][2]
      => i < j

\* drainRunEvents answers a run's cleanup with success only after every event
\* the Agent held for the run when the request came, exit markers kept in
\* memory included, is at the Controller.
DrainSound ==
  \A s \in Sources : drain[s].st \in {"checked", "ok"} =>
    \A e \in drain[s].want : Contains(received, e)

\* telemetry_log.go:244: an older Agent refuses to start "rather than silently
\* ignoring accepted .jsonl evidence": whatever a crash does, the marker is
\* there as long as an accepted event is only in a segment file.
MarkerGuardsEvidence ==
  (\E e \in accepted : ~Contains(received, e)) => disk.mk = "durable"

\* What memory holds agrees with the disk: the pending records are exactly the
\* committed lines beyond the acknowledgement, in segment order.
RecordsMatchDisk ==
  mem.up =>
    /\ \A i, j \in DOMAIN mem.recs : i < j =>
         \/ mem.recs[i][1] < mem.recs[j][1]
         \/ mem.recs[i][1] = mem.recs[j][1] /\ mem.recs[i][2] < mem.recs[j][2]
    /\ Range(mem.recs) = {<<g, i>> \in Seg \X (1..(SegmentLines + BatchEvents)) :
                            mem.ack[g] < i /\ i <= mem.cnt[g]}
    /\ \A i \in DOMAIN mem.recs : /\ disk.f[mem.recs[i][1]].st = "present"
                                  /\ mem.recs[i][2] <= Len(disk.f[mem.recs[i][1]].lines)

\* Every event the Agent answered for, or kept in memory as an exit marker
\* without a crash, eventually reaches the Controller once the failures stop.
EventuallyDelivered ==
  /\ \A e \in Event : (e \in accepted) ~> Contains(received, e)
  /\ \A s \in Sources : (s \in mem.terms) ~> (Contains(received, <<s, 0>>) \/ ~mem.up)

\* After host crashes alone the journal never claims more lines than survived,
\* so the Agent always starts again and delivers what it holds.
RecoveryAccepts == crashes.process = 0 /\ ~mem.up => ~RecoveryRefuses

\* The state of telemetrySpool (telemetry_spool.go:37) is well formed: it has its
\* type, its records match the files, and its journals cover delivered events only.
SpoolConsistent == TypeOK /\ RecordsMatchDisk /\ JournalOnlyDelivered

\* What the Agent answered for is neither lost nor left to an Agent that would
\* ignore it.
EvidenceIsKept == NoAcceptedLoss /\ MarkerGuardsEvidence
=============================================================================
