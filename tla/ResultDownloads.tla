--------------------------- MODULE ResultDownloads ---------------------------
(***************************************************************************)
(* Downloads of saved results: internal/controller/results.go (the size     *)
(* cache, its flights and slots, HEAD, GET and the list) and                *)
(* library_downloads.go (the one-shot tickets and streams of bulk           *)
(* downloads).                                                              *)
(*                                                                          *)
(* A download announces its exact length before it streams the ZIP.  The    *)
(* length is measured by writing the ZIP once to nowhere; it depends on the *)
(* captured files and, while a publication of the event log has not reached *)
(* its deadline, on the export time.  The measured length is cached per run *)
(* and one measurement at a time (a flight) serves all requests of the run. *)
(*                                                                          *)
(* The bytes of a ZIP are the pair of the files' version and the boundary   *)
(* that the metrics see: the export time before the deadline, the deadline  *)
(* itself once every publication has matured.                               *)
(***************************************************************************)
EXTENDS Naturals, FiniteSets, SequencesExt

CONSTANTS
    Request,        \* the HTTP requests
    Run,            \* the saved runs
    CacheTTL,       \* resultArchiveCacheTTL
    Grace,          \* resultArchiveResponseGrace
    MeasureLimit,   \* resultArchiveMeasureLimit
    StreamLimit,    \* capacity of libraryDownloadSlots
    TicketLimit,    \* libraryDownloadTicketLimit
    TicketTTL,      \* libraryDownloadTTL
    Delays,         \* how far a new deadline may lie ahead
    MaxNow,         \* bound on the clock
    MaxVersion,     \* bound on the changes to the runs
    MaxFaults       \* bound on failing reads

VARIABLES
    now,        \* the clock
    run,        \* per run: version, due, active, marked deleted, removed
    archives,   \* resultArchives: the cached length of each run
    flights,    \* resultArchiveFlights: the request that measures each run
    slots,      \* resultArchiveSlots in use
    leases,     \* resultDownloads: GETs and bulk streams that hold a run
    tickets,    \* libraryDownloads: expiry of the ticket of each request
    streams,    \* libraryDownloadSlots in use
    req,        \* the requests' handlers
    faults      \* failing reads left

vars == <<now, run, archives, flights, slots, leases, tickets, streams, req, faults>>

None == [none |-> TRUE]
NoFlight == "none"

(* A snapshot: the captured files, their deadline and exportedAt. *)
Pending(snap) == snap.at < snap.due
Bytes(snap) == <<snap.version, IF Pending(snap) THEN snap.at ELSE snap.due>>
Captured(x) == [version |-> run[x].version, due |-> run[x].due, at |-> now]
Leased(kind) == kind \in {"get", "bulk"}

Fresh == [pc |-> "idle", kind |-> "get", run |-> CHOOSE x \in Run : TRUE, ids |-> {}, rest |-> <<>>,
          snap |-> None, info |-> None, sent |-> <<>>, out |-> "none"]

Init ==
    /\ now = 0
    /\ \E d \in Delays, a \in BOOLEAN :
          run = [x \in Run |-> [version |-> 0, due |-> d, active |-> a, deleted |-> FALSE,
                          removed |-> FALSE]]
    /\ archives = [x \in Run |-> None]
    /\ flights = [x \in Run |-> NoFlight]
    /\ slots = 0
    /\ leases = [x \in Run |-> 0]
    /\ tickets = [r \in Request |-> None]
    /\ streams = 0
    /\ req = [r \in Request |-> Fresh]
    /\ faults = MaxFaults

Tick ==
    /\ now < MaxNow
    /\ now' = now + 1
    /\ UNCHANGED <<run, archives, flights, slots, leases, tickets, streams, req, faults>>

(* Late telemetry, a note or the end of the experiment: another version of  *)
(* the files, whose last publication matures some time from now.            *)
Change(x) ==
    /\ ~run[x].deleted /\ \A y \in Run : run[y].version < MaxVersion
    /\ \E d \in Delays, a \in {FALSE, run[x].active} :
          run' = [run EXCEPT ![x] = [@ EXCEPT !.version = @ + 1, !.due = now + d, !.active = a]]
    /\ UNCHANGED <<now, archives, flights, slots, leases, tickets, streams, req, faults>>

(* resultDeletionBusyLocked *)
Deletable(x) == ~run[x].active /\ leases[x] = 0

(* deleteSavedResultLocked holds persistMu from its check to the removal of *)
(* the cached length, and every step that could see the run in between      *)
(* takes that lock.  When the directory cannot be removed the marker stays  *)
(* and the deletion may be repeated.                                        *)
DeleteRun(x) ==
    /\ ~run[x].removed /\ Deletable(x)
    /\ \/ /\ run' = [run EXCEPT ![x] = [@ EXCEPT !.deleted = TRUE, !.removed = TRUE]]
          /\ archives' = [archives EXCEPT ![x] = None]
          /\ UNCHANGED faults
       \/ /\ faults > 0 /\ faults' = faults - 1
          /\ run' = [run EXCEPT ![x].deleted = TRUE]
          /\ UNCHANGED archives
    /\ UNCHANGED <<now, flights, slots, leases, tickets, streams, req>>

(* snapshot.close and the end of a handler *)
Released(r) ==
    IF Leased(req[r].kind) /\ req[r].snap # None THEN [leases EXCEPT ![req[r].run] = @ - 1] ELSE leases

End(r, out) ==
    /\ req' = [req EXCEPT ![r] = [@ EXCEPT !.pc = "done", !.out = out, !.snap = None, !.info = None]]
    /\ leases' = Released(r)

(* captureResultFilesContext: the boundary, the lease of a GET, and a       *)
(* missing result.                                                          *)
Capture(r, x, kind) ==
    /\ IF run[x].deleted
       THEN /\ req' = [req EXCEPT ![r] = [@ EXCEPT !.pc = "done", !.out = "missing"]]
            /\ UNCHANGED leases
       ELSE /\ req' = [req EXCEPT ![r] = [@ EXCEPT !.pc = "opened", !.kind = kind, !.run = x,
                                                   !.snap = Captured(x)]]
            /\ leases' = IF Leased(kind) THEN [leases EXCEPT ![x] = @ + 1] ELSE leases

Get(r) ==
    /\ req[r].pc = "idle"
    /\ \E x \in Run, kind \in {"get", "head"} : Capture(r, x, kind)
    /\ UNCHANGED <<now, run, archives, flights, slots, tickets, streams, faults>>

(* The remote files, the metadata and both ends of every file are read      *)
(* after the lock is released; a failure closes the snapshot.               *)
Probe(r) ==
    /\ req[r].pc = "opened" /\ req[r].kind # "bulk"
    /\ \/ /\ req' = [req EXCEPT ![r].pc = "lookup"]
          /\ UNCHANGED <<leases, faults>>
       \/ /\ faults > 0 /\ faults' = faults - 1
          /\ End(r, "error")
    /\ UNCHANGED <<now, run, archives, flights, slots, tickets, streams>>

(* resultArchiveSizeMaxAgeMS and resultArchiveCacheUsable *)
MaxAge(info) == IF info.expires > now + Grace THEN info.expires - now - Grace ELSE 0
Usable(info, version) ==
    /\ info # None
    /\ info.version = version
    /\ info.pending => MaxAge(info) > 0

(* useResultArchiveInfo: a length that still depends on the export time     *)
(* brings its export time along.                                            *)
Pinned(snap, info) == IF info.pending THEN [snap EXCEPT !.at = info.at] ELSE snap

(* One turn of the loop of prepareResultArchiveInfo. *)
Lookup(r) ==
    LET q == req[r] x == q.run IN
    /\ q.pc = "lookup"
    /\ \/ /\ Usable(archives[x], q.snap.version)
          /\ req' = [req EXCEPT ![r] = [@ EXCEPT !.pc = "headers", !.info = archives[x],
                                                 !.snap = Pinned(q.snap, archives[x])]]
          /\ UNCHANGED flights
       \/ /\ ~Usable(archives[x], q.snap.version) /\ flights[x] # NoFlight
          /\ req' = [req EXCEPT ![r].pc = "waiting"]
          /\ UNCHANGED flights
       \/ /\ ~Usable(archives[x], q.snap.version) /\ flights[x] = NoFlight
          /\ flights' = [flights EXCEPT ![x] = r]
          /\ req' = [req EXCEPT ![r].pc = "slot"]
    /\ UNCHANGED <<now, run, archives, slots, leases, tickets, streams, faults>>

(* acquireResultArchiveSlot *)
AcquireSlot(r) ==
    /\ req[r].pc = "slot" /\ slots < MeasureLimit
    /\ slots' = slots + 1
    /\ req' = [req EXCEPT ![r].pc = "measure"]
    /\ UNCHANGED <<now, run, archives, flights, leases, tickets, streams, faults>>

(* writeZIPMeasured to nowhere, and the candidate for the cache *)
Candidate(snap) ==
    [version |-> snap.version, bytes |-> Bytes(snap), pending |-> Pending(snap), at |-> snap.at,
     expires |-> now + CacheTTL, extended |-> FALSE]

Measure(r) ==
    /\ req[r].pc = "measure"
    /\ slots' = slots - 1
    /\ \/ /\ req' = [req EXCEPT ![r] = [@ EXCEPT !.pc = "publish", !.info = Candidate(req[r].snap)]]
          /\ UNCHANGED faults
       \/ /\ faults > 0 /\ faults' = faults - 1
          /\ req' = [req EXCEPT ![r] = [@ EXCEPT !.pc = "publish", !.info = None]]
    /\ UNCHANGED <<now, run, archives, flights, leases, tickets, streams>>

(* finishResultArchiveFlight: the length of a deleted run is not cached, and *)
(* the flight's waiters look again.                                          *)
\* Mutant: a flight that ends after the deletion fills the cache again.
CacheableAlways(x) == TRUE
Cacheable(x) == ~run[x].deleted

Woken(r, q) == IF q.pc = "waiting" /\ q.run = req[r].run THEN [q EXCEPT !.pc = "lookup"] ELSE q

FinishFlight(r) ==
    LET x == req[r].run info == req[r].info IN
    /\ req[r].pc = "publish"
    /\ archives' = IF info # None /\ Cacheable(x) THEN [archives EXCEPT ![x] = info] ELSE archives
    /\ flights' = [flights EXCEPT ![x] = NoFlight]
    /\ req' = [q \in Request |->
                  IF q # r THEN Woken(r, req[q])
                  ELSE IF info # None THEN [req[r] EXCEPT !.pc = "headers"]
                  ELSE [req[r] EXCEPT !.pc = "done", !.out = "error", !.snap = None]]
    /\ leases' = IF info = None THEN Released(r) ELSE leases
    /\ UNCHANGED <<now, run, slots, tickets, streams, faults>>

(* handleResultDownload after prepareResultArchiveInfo: a pinned length too *)
(* close to its end is measured again with a current export time; HEAD ends *)
(* with the headers; GET streams and compares.                              *)
Headers(r) ==
    LET q == req[r] IN
    /\ q.pc = "headers"
    /\ \/ /\ q.info.pending /\ MaxAge(q.info) = 0
          /\ req' = [req EXCEPT ![r] = [@ EXCEPT !.pc = "lookup", !.info = None, !.snap.at = now]]
          /\ UNCHANGED leases
       \/ /\ ~(q.info.pending /\ MaxAge(q.info) = 0)
          /\ IF q.kind = "head" THEN End(r, "ok")
             ELSE req' = [req EXCEPT ![r].pc = "stream"] /\ UNCHANGED leases
    /\ UNCHANGED <<now, run, archives, flights, slots, tickets, streams, faults>>

Stream(r) ==
    LET q == req[r] IN
    /\ q.pc = "stream"
    /\ \/ /\ End(r, IF Bytes(q.snap) = q.info.bytes THEN "ok" ELSE "mismatch")
          /\ UNCHANGED faults
       \/ /\ faults > 0 /\ faults' = faults - 1
          /\ End(r, "abort")
    /\ UNCHANGED <<now, run, archives, flights, slots, tickets, streams>>

(* The client goes away: seen by the waits and between the writes.  The     *)
(* owner of a flight finishes it without a candidate.                       *)
Cancel(r) ==
    /\ faults > 0 /\ faults' = faults - 1
    /\ \/ /\ req[r].pc \in {"lookup", "waiting"}
          /\ End(r, "abort")
          /\ UNCHANGED flights
       \/ /\ req[r].pc = "slot"
          /\ flights' = [flights EXCEPT ![req[r].run] = NoFlight]
          /\ leases' = Released(r)
          /\ req' = [q \in Request |->
                        IF q # r THEN Woken(r, req[q])
                        ELSE [req[r] EXCEPT !.pc = "done", !.out = "abort", !.snap = None]]
    /\ UNCHANGED <<now, run, archives, slots, tickets, streams>>

(* handleResults, one row: the cached length is shown only when it fits the *)
(* files as they are now.                                                   *)
ListRow(r) ==
    /\ req[r].pc = "idle"
    /\ \E x \in Run :
          /\ ~run[x].deleted /\ ~run[x].active
          /\ Usable(archives[x], run[x].version)
          /\ req' = [req EXCEPT ![r] = [@ EXCEPT !.pc = "row", !.kind = "list", !.run = x,
                                                 !.info = archives[x]]]
    /\ UNCHANGED <<now, run, archives, flights, slots, leases, tickets, streams, faults>>

(* extendPendingResultArchiveCache, once the whole list has been read *)
SameRow(cached, row) ==
    cached # None /\ cached.pending /\ cached.bytes = row.bytes /\ cached.version = row.version

ExtendRow(r) ==
    LET row == req[r].info
        x == req[r].run
        cached == archives[x]
        longer == IF cached.extended THEN cached
                  ELSE [cached EXCEPT !.expires = now + CacheTTL, !.extended = TRUE]
    IN
    /\ req[r].pc = "row"
    /\ \/ /\ row.pending /\ SameRow(cached, row)
          /\ archives' = [archives EXCEPT ![x] = longer]
          /\ req' = [req EXCEPT ![r] = [@ EXCEPT !.pc = "done", !.info = longer,
                                                 !.out = IF MaxAge(longer) > 0 THEN "shown" ELSE "hidden"]]
       \/ /\ row.pending /\ ~SameRow(cached, row)
          /\ req' = [req EXCEPT ![r] = [@ EXCEPT !.pc = "done", !.out = "hidden"]]
          /\ UNCHANGED archives
       \/ /\ ~row.pending
          /\ req' = [req EXCEPT ![r] = [@ EXCEPT !.pc = "done", !.out = "shown"]]
          /\ UNCHANGED archives
    /\ UNCHANGED <<now, run, flights, slots, leases, tickets, streams, faults>>

(* handleLibraryDownloadRequest: every selected run is readable, expired    *)
(* tickets are dropped and one more fits.                                   *)
Expired(r) == tickets[r] # None /\ tickets[r].until <= now
Pruned == [r \in Request |-> IF Expired(r) THEN None ELSE tickets[r]]
Held(f) == Cardinality({r \in Request : f[r] # None})

Ticket(r) ==
    /\ req[r].pc = "idle"
    /\ \E ids \in {SetToSeq(s) : s \in (SUBSET Run) \ {{}}} :
          \/ /\ \E i \in DOMAIN ids : run[ids[i]].deleted
             /\ req' = [req EXCEPT ![r] = [@ EXCEPT !.pc = "done", !.kind = "bulk", !.out = "missing"]]
             /\ UNCHANGED tickets
          \/ /\ \A i \in DOMAIN ids : ~run[ids[i]].deleted
             /\ IF Held(Pruned) >= TicketLimit
                THEN /\ req' = [req EXCEPT ![r] = [@ EXCEPT !.pc = "done", !.kind = "bulk", !.out = "busy"]]
                     /\ tickets' = Pruned
                ELSE /\ req' = [req EXCEPT ![r] = [@ EXCEPT !.pc = "ticket", !.kind = "bulk",
                                                                  !.ids = Range(ids), !.rest = ids]]
                     /\ tickets' = [Pruned EXCEPT ![r] = [ids |-> ids, until |-> now + TicketTTL]]
    /\ UNCHANGED <<now, run, archives, flights, slots, leases, streams, faults>>

(* handleLibraryDownload: a stream slot or nothing, then the ticket is used *)
(* up.                                                                      *)
StartBulk(r) ==
    /\ req[r].pc = "ticket"
    /\ \/ /\ streams < StreamLimit
          /\ tickets' = [Pruned EXCEPT ![r] = None]
          /\ IF Pruned[r] = None
             THEN /\ req' = [req EXCEPT ![r] = [@ EXCEPT !.pc = "done", !.out = "gone"]]
                  /\ UNCHANGED streams
             ELSE /\ req' = [req EXCEPT ![r].pc = "next"]
                  /\ streams' = streams + 1
       \/ /\ streams >= StreamLimit
          /\ UNCHANGED <<tickets, streams, req>>
    /\ UNCHANGED <<now, run, archives, flights, slots, leases, faults>>

(* A failed item ends the response: an error before the ZIP has begun, an   *)
(* aborted stream afterwards.                                               *)
ItemFails(q) ==
    [q EXCEPT !.pc = "done", !.out = IF q.sent = <<>> THEN "error" ELSE "abort", !.snap = None]

(* writeLibraryDownloadItem up to the measurement slot, the slot itself and *)
(* the ZIP; after the last item the outer archive is closed.                *)
NextItem(r) ==
    LET q == req[r] x == Head(q.rest) IN
    /\ q.pc = "next" /\ q.rest # <<>>
    /\ \/ /\ ~run[x].deleted
          /\ req' = [req EXCEPT ![r] = [@ EXCEPT !.pc = "opened", !.run = x, !.snap = Captured(x)]]
          /\ leases' = [leases EXCEPT ![x] = @ + 1]
          /\ UNCHANGED streams
       \/ /\ run[x].deleted
          /\ req' = [req EXCEPT ![r] = ItemFails(q)]
          /\ streams' = IF ItemFails(q).pc = "done" THEN streams - 1 ELSE streams
          /\ UNCHANGED leases
    /\ UNCHANGED <<now, run, archives, flights, slots, tickets, faults>>

ItemSlot(r) ==
    /\ req[r].pc = "opened" /\ req[r].kind = "bulk"
    /\ \/ /\ slots < MeasureLimit
          /\ slots' = slots + 1
          /\ req' = [req EXCEPT ![r].pc = "item"]
          /\ UNCHANGED <<leases, streams, faults>>
       \/ /\ faults > 0 /\ faults' = faults - 1
          /\ req' = [req EXCEPT ![r] = ItemFails(@)]
          /\ leases' = Released(r)
          /\ streams' = IF ItemFails(req[r]).pc = "done" THEN streams - 1 ELSE streams
          /\ UNCHANGED slots
    /\ UNCHANGED <<now, run, archives, flights, tickets>>

WriteItem(r) ==
    LET q == req[r] IN
    /\ q.pc = "item"
    /\ slots' = slots - 1
    /\ leases' = Released(r)
    /\ \/ /\ req' = [req EXCEPT ![r] = [@ EXCEPT !.pc = "next", !.rest = Tail(q.rest), !.snap = None,
                                                 !.sent = Append(q.sent, <<q.run, q.snap.version>>)]]
          /\ UNCHANGED <<streams, faults>>
       \/ /\ faults > 0 /\ faults' = faults - 1
          /\ req' = [req EXCEPT ![r] = [ItemFails(q) EXCEPT !.out = "abort"]]
          /\ streams' = IF ItemFails(q).pc = "done" THEN streams - 1 ELSE streams
    /\ UNCHANGED <<now, run, archives, flights, tickets>>

CloseBulk(r) ==
    /\ req[r].pc = "next" /\ req[r].rest = <<>>
    /\ req' = [req EXCEPT ![r] = [@ EXCEPT !.pc = "done", !.out = "ok"]]
    /\ streams' = streams - 1
    /\ UNCHANGED <<now, run, archives, flights, slots, leases, tickets, faults>>

Next ==
    \/ Tick
    \/ \E x \in Run : Change(x) \/ DeleteRun(x)
    \/ \E r \in Request :
          \/ Get(r) \/ Probe(r) \/ Lookup(r) \/ AcquireSlot(r) \/ Measure(r) \/ FinishFlight(r)
          \/ Headers(r) \/ Stream(r) \/ Cancel(r) \/ ListRow(r) \/ ExtendRow(r)
          \/ Ticket(r) \/ StartBulk(r) \/ NextItem(r) \/ ItemSlot(r) \/ WriteItem(r) \/ CloseBulk(r)

Spec == Init /\ [][Next]_vars

-----------------------------------------------------------------------------
At(pcs) == {r \in Request : req[r].pc \in pcs}

(* What requests share is exactly what some handler still holds: a lease    *)
(* for every open download of a run, a slot for every ZIP being measured or *)
(* put into a bulk archive, a stream for every bulk response; a request     *)
(* only waits while another one measures the same run, so no waiter is      *)
(* forgotten; no download holds a run that is marked deleted, and no length *)
(* of a removed run is cached (results.go:1001, "so it cannot repopulate    *)
(* the removed result's cache").                                            *)
DownloadsConsistent ==
    /\ \A x \in Run :
          /\ leases[x] = Cardinality({r \in Request :
                            Leased(req[r].kind) /\ req[r].snap # None /\ req[r].run = x})
          /\ run[x].deleted => leases[x] = 0
          /\ run[x].removed => archives[x] = None
          /\ flights[x] # NoFlight =>
                req[flights[x]].run = x /\ req[flights[x]].pc \in {"slot", "measure", "publish"}
    /\ slots = Cardinality(At({"measure", "item"})) /\ slots <= MeasureLimit
    /\ streams <= StreamLimit
    /\ streams = Cardinality({r \in Request : req[r].kind = "bulk"
                                              /\ req[r].pc \in {"next", "opened", "item"}})
    /\ Held(tickets) <= TicketLimit
    /\ \A r \in At({"waiting"}) : flights[req[r].run] # NoFlight /\ flights[req[r].run] # r

(* A response that ends normally is whole: a single download announces the  *)
(* length of the very files it captured, and a bulk archive that is closed  *)
(* holds every run of its selection (library_downloads.go:158, "Never       *)
(* finish a valid-looking ZIP with silently missing items").                *)
ResponsesAreWhole ==
    \A r \in Request :
        /\ req[r].pc \in {"headers", "stream"} =>
              /\ req[r].info.bytes[1] = req[r].snap.version
              /\ req[r].info.pending => req[r].info.bytes = Bytes(req[r].snap)
        /\ req[r].kind = "bulk" /\ req[r].out = "ok" =>
              {item[1] : item \in Range(req[r].sent)} = req[r].ids

(* The length a download announces is the length it streams.  This does not *)
(* hold: the cache keeps a length without pending publications for any      *)
(* export time of the same files (results.go:1022), also for a request that *)
(* was captured while a publication was pending (README, Observations).     *)
LengthIsExact == \A r \in Request : req[r].out # "mismatch"

(* Nothing shared is lost, and whole responses are whole. *)
DownloadsAreSound == DownloadsConsistent /\ ResponsesAreWhole
=============================================================================
