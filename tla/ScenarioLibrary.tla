--------------------------- MODULE ScenarioLibrary ---------------------------
(***************************************************************************)
(* The scenario library: the record of one saved scenario with the summary *)
(* cache its listings share (internal/controller/scenarios.go), and the    *)
(* group the scenario is filed under (library_groups.go).                  *)
(*                                                                         *)
(* Records are replaced atomically, by this Controller under scenarioMu or *)
(* by another one on the same data directory.  Listings take no lock: they *)
(* stat the record, and a version that is not cached is read and validated *)
(* by one reader (the leader of a flight) for all that wait for it.        *)
(* A version stands for the identity of a file: inode, length and time.    *)
(***************************************************************************)
EXTENDS Naturals, Sequences, SequencesExt

CONSTANTS
  Reader,       \* concurrent listings
  Window,       \* browser windows that edit the groups
  Grp,          \* groups that can be created
  CacheSize,    \* summaries kept per scenario: 4 in the code
  Attempts,     \* reads of a changing record: 4 in the code
  MaxVersion,   \* bound: versions of the record
  MaxRevision   \* bound: revisions of the groups

VARIABLES
  file,       \* version of the record, 0 if there is none
  last,       \* last version written
  cache,      \* scenarioSummaries: versions, oldest first
  rd,         \* the listings
  writer,     \* the operation holding scenarioMu
  lib,        \* library-groups.json
  view,       \* what each window has loaded
  mover,      \* the move holding libraryGroupsMu, between check and save
  failed      \* a clean-up of the groups after a deletion failed

sVars == <<file, last, cache, rd, writer>>
gVars == <<lib, view, mover, failed>>
vars == <<sVars, gVars>>

None == "none"
\* seen is the versions the record had during the listing (history).
IdleReader == [pc |-> "idle", info |-> 0, join |-> None, tries |-> 0, out |-> None, seen |-> {}]
Free == [pc |-> "free", ver |-> 0]
NoMove == [win |-> None, to |-> None]

Init ==
  /\ file = 0 /\ last = 0 /\ cache = <<>>
  /\ rd = [r \in Reader |-> IdleReader] /\ writer = Free
  /\ lib = [rev |-> 0, groups |-> {}, member |-> None]
  /\ view = [w \in Window |-> lib] /\ mover = NoMove /\ failed = FALSE
-----------------------------------------------------------------------------
(***************************************************************************)
(* Writing the record                                                      *)
(***************************************************************************)
\* The record becomes version v; listings in progress may find it.
SetFile(v) ==
  /\ file' = v
  /\ rd' = [r \in Reader |-> IF rd[r].pc = "idle" THEN rd[r] ELSE [rd[r] EXCEPT !.seen = @ \cup {v}]]

\* storeScenarioSummaryLocked keeps the newest few versions.
Stored(v) ==
  IF v \in ToSet(cache) THEN cache
  ELSE LET all == Append(cache, v)
       IN  SubSeq(all, IF Len(all) > CacheSize THEN Len(all) - CacheSize + 1 ELSE 1, Len(all))

\* createSavedScenario and updateSavedScenario, up to the rename of the record.
Save ==
  /\ writer.pc = "free" /\ last < MaxVersion
  /\ last' = last + 1 /\ SetFile(last + 1) /\ writer' = [pc |-> "saved", ver |-> last + 1]
  /\ UNCHANGED <<cache, gVars>>

\* A record that was replaced meanwhile is not cached.
SaveDone ==
  /\ writer.pc = "saved" /\ writer' = Free
  /\ cache' = IF file = writer.ver THEN Stored(file) ELSE cache
  /\ UNCHANGED <<file, last, rd, gVars>>

\* getSavedScenario reads a record and caches it; it retries while the record
\* changes, so it is one step.
Get ==
  /\ writer.pc = "free" /\ file # 0
  /\ cache' = Stored(file)
  /\ UNCHANGED <<file, last, rd, writer, gVars>>

\* deleteSavedScenario: the record, the cached summaries, and after the lock is
\* released the place in the groups.
Delete ==
  /\ writer.pc = "free" /\ file # 0
  /\ SetFile(0) /\ writer' = [pc |-> "removed", ver |-> 0]
  /\ UNCHANGED <<last, cache, gVars>>

DeleteDone ==
  /\ writer.pc = "removed" /\ cache' = <<>> /\ writer' = [pc |-> "cleanup", ver |-> 0]
  /\ UNCHANGED <<file, last, rd, gVars>>

\* Another Controller replaces the record.
OtherReplace ==
  /\ file # 0 /\ last < MaxVersion
  /\ last' = last + 1 /\ SetFile(last + 1)
  /\ UNCHANGED <<cache, writer, gVars>>
-----------------------------------------------------------------------------
(***************************************************************************)
(* Listing                                                                 *)
(***************************************************************************)
Step(r, s) == rd' = [rd EXCEPT ![r] = s]
\* The listing ends: with version v, without the scenario (0), or with an error.
Answer(r, v) == [rd[r] EXCEPT !.pc = "done", !.info = v, !.out = "ok", !.join = None]
Fails(r) == [rd[r] EXCEPT !.pc = "done", !.out = "error", !.join = None]
\* A stat of the record starts the next attempt.
Stat(r, tries) ==
  IF file = 0 THEN Answer(r, 0)
  ELSE [rd[r] EXCEPT !.pc = "load", !.info = file, !.tries = tries, !.out = None, !.join = None]

\* listSavedScenarios finds the record's file.
List(r) ==
  /\ rd[r].pc = "idle"
  /\ Step(r, [Stat(r, 0) EXCEPT !.seen = {file}])
  /\ UNCHANGED <<file, last, cache, writer, gVars>>

Leading(v) == {r \in Reader : rd[r].pc \in {"read", "verify", "finish"} /\ rd[r].info = v}

\* Mutant: the cache is looked up by the scenario alone.
AcquireById(r) ==
  /\ rd[r].pc = "load"
  /\ \/ cache # <<>> /\ Step(r, Answer(r, cache[Len(cache)]))
     \/ cache = <<>> /\ Step(r, [rd[r] EXCEPT !.pc = "read"])
  /\ UNCHANGED <<file, last, cache, writer, gVars>>

\* acquireScenarioSummaryFlight: cached, under way, or ours to validate.
Acquire(r) ==
  LET v == rd[r].info
  IN  /\ rd[r].pc = "load"
      /\ \/ v \in ToSet(cache) /\ Step(r, Answer(r, v))
         \/ /\ v \notin ToSet(cache)
            /\ \E l \in Leading(v) : Step(r, [rd[r] EXCEPT !.pc = "wait", !.join = l])
         \/ v \notin ToSet(cache) /\ Leading(v) = {} /\ Step(r, [rd[r] EXCEPT !.pc = "read"])
      /\ UNCHANGED <<file, last, cache, writer, gVars>>

Outcome(v) == IF file = v THEN "ok" ELSE IF file = 0 THEN "notfound" ELSE "changed"

\* readScenarioRecordExpected checks the version before and after reading.  A
\* record that cannot be validated ends the flight with an error.
Read(r) ==
  /\ rd[r].pc = "read"
  /\ \/ Outcome(rd[r].info) = "ok" /\ Step(r, [rd[r] EXCEPT !.pc = "verify"])
     \/ Outcome(rd[r].info) # "ok" /\ Step(r, [rd[r] EXCEPT !.pc = "finish", !.out = Outcome(rd[r].info)])
     \/ Step(r, [rd[r] EXCEPT !.pc = "finish", !.out = "error"])
  /\ UNCHANGED <<file, last, cache, writer, gVars>>

Verify(r) ==
  /\ rd[r].pc = "verify"
  /\ Step(r, [rd[r] EXCEPT !.pc = "finish", !.out = Outcome(rd[r].info)])
  /\ UNCHANGED <<file, last, cache, writer, gVars>>

\* finishScenarioSummaryFlight: the outcome is stored and handed to everyone
\* who waits.
Finish(r) ==
  /\ rd[r].pc = "finish"
  /\ cache' = IF rd[r].out = "ok" THEN Stored(rd[r].info) ELSE cache
  /\ rd' = [q \in Reader |-> IF q = r \/ rd[q].join = r
                             THEN [rd[q] EXCEPT !.pc = "landed", !.out = rd[r].out, !.join = None] ELSE rd[q]]
  /\ UNCHANGED <<file, last, writer, gVars>>

\* loadScenarioSummary looks again after a change, a few times.
Landed(r) ==
  /\ rd[r].pc = "landed"
  /\ \/ rd[r].out = "ok" /\ Step(r, Answer(r, rd[r].info))
     \/ rd[r].out = "notfound" /\ Step(r, Answer(r, 0))
     \/ rd[r].out = "error" /\ Step(r, Fails(r))
     \/ rd[r].out = "changed" /\ rd[r].tries + 1 < Attempts /\ Step(r, Stat(r, rd[r].tries + 1))
     \/ rd[r].out = "changed" /\ rd[r].tries + 1 >= Attempts /\ Step(r, Fails(r))
  /\ UNCHANGED <<file, last, cache, writer, gVars>>

Leave(r) ==
  /\ rd[r].pc = "done" /\ Step(r, IdleReader)
  /\ UNCHANGED <<file, last, cache, writer, gVars>>
-----------------------------------------------------------------------------
(***************************************************************************)
(* Groups: changeLibraryGroups under libraryGroupsMu                       *)
(***************************************************************************)
Load(w) ==
  /\ mover = NoMove /\ view' = [view EXCEPT ![w] = lib]
  /\ UNCHANGED <<sVars, lib, mover, failed>>

\* A write of library-groups.json: the window that made it sees the result.  A
\* failed write leaves the file replaced or not, and the window unaware.
Write(new) == lib' = [new EXCEPT !.rev = lib.rev + 1] /\ lib.rev < MaxRevision
Edit(w, new) ==
  /\ mover = NoMove /\ view[w].rev = lib.rev /\ Write(new)
  /\ view' \in {view, [view EXCEPT ![w] = lib']}
  /\ UNCHANGED <<sVars, mover, failed>>

CreateGroup(w, g) == g \notin lib.groups /\ Edit(w, [lib EXCEPT !.groups = @ \cup {g}])

DeleteGroup(w, g) ==
  /\ g \in lib.groups
  /\ Edit(w, [lib EXCEPT !.groups = @ \ {g}, !.member = IF @ = g THEN None ELSE @])

\* Taking the scenario out needs no check; filing it checks that it exists,
\* under the lock, and saves afterwards.
MoveOut(w) == lib.member # None /\ Edit(w, [lib EXCEPT !.member = None])

MoveCheck(w, g) ==
  /\ mover = NoMove /\ view[w].rev = lib.rev /\ g \in lib.groups \ {lib.member} /\ file # 0
  /\ mover' = [win |-> w, to |-> g]
  /\ UNCHANGED <<sVars, lib, view, failed>>

MoveSave ==
  /\ mover # NoMove /\ mover' = NoMove
  /\ \/ /\ Write([lib EXCEPT !.member = mover.to])
        /\ view' \in {view, [view EXCEPT ![mover.win] = lib']}
     \/ UNCHANGED <<lib, view>>
  /\ UNCHANGED <<sVars, failed>>

\* removeLibraryMembers after a deletion: a failure is only logged.
Cleanup ==
  /\ writer.pc = "cleanup" /\ mover = NoMove /\ writer' = Free
  /\ \/ lib.member = None /\ UNCHANGED <<lib, failed>>
     \/ lib.member # None /\ Write([lib EXCEPT !.member = None]) /\ UNCHANGED failed
     \/ lib.member # None /\ failed' = TRUE /\ UNCHANGED lib
  /\ UNCHANGED <<file, last, cache, rd, view, mover>>

Next ==
  \/ Save \/ SaveDone \/ Get \/ Delete \/ DeleteDone \/ OtherReplace
  \/ \E r \in Reader : List(r) \/ Acquire(r) \/ Read(r) \/ Verify(r) \/ Finish(r) \/ Landed(r) \/ Leave(r)
  \/ \E w \in Window : \/ Load(w) \/ MoveOut(w)
                       \/ \E g \in Grp : CreateGroup(w, g) \/ DeleteGroup(w, g) \/ MoveCheck(w, g)
  \/ MoveSave \/ Cleanup

Spec == Init /\ [][Next]_vars
-----------------------------------------------------------------------------
\* A listing answers with a version the record had while the listing was in
\* progress, though it may have come from the cache or from a read that another
\* listing started: it never shows a scenario that was already replaced or
\* deleted (loadScenarioSummary, finishScenarioSummaryFlight).
ListIsFresh == \A r \in Reader : rd[r].pc = "done" /\ rd[r].out = "ok" => rd[r].info \in rd[r].seen

\* Types; a membership names a group that exists (readLibraryGroups rejects the
\* whole library otherwise); a window with the current revision has seen the
\* current content, so that no edit overwrites one it has not seen; and no
\* deleted scenario stays filed once its deletion and the moves that raced it
\* are over, unless the clean-up failed ("closing the check/delete race").
LibraryConsistent ==
  /\ file \in 0..MaxVersion /\ Len(cache) <= CacheSize /\ ToSet(cache) \subseteq 1..last
  /\ lib.member \in lib.groups \cup {None}
  /\ \A w \in Window : view[w].rev = lib.rev => view[w] = lib
  /\ writer.pc = "free" /\ mover = NoMove /\ file = 0 /\ ~failed => lib.member = None

\* Listings are fresh, and the groups stay consistent with what is filed in them.
LibraryIsSound == ListIsFresh /\ LibraryConsistent
=============================================================================
