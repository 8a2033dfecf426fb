---------------------------- MODULE RunArchive ----------------------------
(***************************************************************************)
(* The storage of one finished run: local files of the Controller, the     *)
(* archive on network storage (NAS), the manifest that ties them together, *)
(* the single archive worker that moves bytes from one to the other, and   *)
(* the import and deletion of a result (run_archive.go,                    *)
(* run_archive_index.go, run_storage.go, results.go).                      *)
(*                                                                         *)
(* The run has one log, whose lines are numbered in the order they were    *)
(* acknowledged; one retained metadata file that always stays local; and   *)
(* one analysis artifact.  The content of a part of the log is the set of  *)
(* its lines, that of a file its version; a manifest names a set of parts, *)
(* since readRunArchive refuses one that names an object twice.  persistMu *)
(* is held across steps only in Locked.  Sizes, checksums and pacing are   *)
(* abstracted: a checksum is the content it was computed from.             *)
(***************************************************************************)
EXTENDS Integers

CONSTANTS
  MaxLines,     \* bound: lines appended to the log
  MaxVersions,  \* bound: versions of the metadata and of the artifact
  MaxFaults     \* bound: failed worker steps and Controller restarts

\* A run that is stored has a version of its metadata, an archived one a line.
ASSUME BoundsAssumption == {MaxLines, MaxVersions} \subseteq Nat \ {0} /\ MaxFaults \in Nat

VARIABLES
  dir, tail, segs, meta, art,     \* the local directory and its files
  manifest, indexed, importing,   \* the local manifest, whether it is a file, .archive-import
  deleted, done,                  \* .deleted-results and .archived-deletions
  remote, objects, published,     \* the NAS directory, its objects, its manifest
  pending, changed,               \* archivePending; a version newer than the worker's
  pc, work,                       \* the archive worker
  reader,                         \* the remote parts a reader has captured
  lines, artifacts, faults        \* history: lines acknowledged, versions written, faults

local == <<dir, tail, segs, meta, art, manifest, indexed, importing>>
markers == <<deleted, done>>
nas == <<remote, objects, published>>
queue == <<pending, changed>>
worker == <<pc, work>>
history == <<lines, artifacts, faults>>
vars == <<local, markers, nas, queue, worker, reader, history>>

NoLogs == [name \in {} |-> {}]
EmptyManifest == [logs |-> {}, meta |-> 0, art |-> 0]
NoObjects == [logs |-> NoLogs, meta |-> 0, arts |-> {}]
Idle == [segs |-> NoLogs, meta |-> 0, art |-> 0, man |-> EmptyManifest,
         todo |-> {}, cleanup |-> {}, reused |-> {}, fresh |-> FALSE]
NoReader == [state |-> "none", parts |-> {}]

\* A segment is named after the time at which it was sealed, of which its last line
\* is the number; the first log object has a conventional name, and the other files
\* have numbers of their own.
FirstLog == 0
Segments == 1..MaxLines
ArtFile == -2
MetaFile == -1

Locked == pc \in {"cleanup", "importing", "imported"}

KnownSegments(m) == {p.seg : p \in m.logs}

-----------------------------------------------------------------------------
(* Writers.  Each holds persistMu and marks the run dirty.                 *)

MarkRunArchiveDirty == pending' = TRUE /\ changed' = TRUE

\* A mutant: late telemetry is written without looking at the marker.
AppendUnfenced ==
  /\ ~Locked
  /\ lines < MaxLines
  /\ lines' = lines + 1
  /\ dir' = TRUE
  /\ tail' = tail \cup {lines + 1}
  /\ MarkRunArchiveDirty
  /\ UNCHANGED <<segs, meta, art, manifest, indexed, importing, markers, nas, worker, reader, artifacts, faults>>

AppendRunEvents ==
  /\ ~Locked /\ ~deleted
  /\ lines < MaxLines
  /\ lines' = lines + 1
  /\ dir' = TRUE
  /\ tail' = tail \cup {lines + 1}
  /\ MarkRunArchiveDirty
  /\ UNCHANGED <<segs, meta, art, manifest, indexed, importing, markers, nas, worker, reader, artifacts, faults>>

WriteMetadata ==
  /\ ~Locked /\ ~deleted /\ dir
  /\ meta \in 1..(MaxVersions - 1)
  /\ meta' = meta + 1
  /\ MarkRunArchiveDirty
  /\ UNCHANGED <<dir, tail, segs, art, manifest, indexed, importing, markers, nas, worker, reader, history>>

CompleteAnalysis ==
  /\ ~Locked /\ ~deleted /\ dir /\ meta # 0
  /\ artifacts < MaxVersions
  /\ artifacts' = artifacts + 1
  /\ art' = artifacts + 1
  /\ MarkRunArchiveDirty
  /\ UNCHANGED <<dir, tail, segs, meta, manifest, indexed, importing, markers, nas, worker, reader, lines, faults>>

\* A mutant: readers that resolve archived parts do not keep the result.
DeleteUnpinned ==
  /\ ~Locked /\ dir
  /\ deleted' = TRUE
  /\ \/ /\ dir' = FALSE /\ tail' = {} /\ segs' = NoLogs /\ meta' = 0 /\ art' = 0
        /\ manifest' = EmptyManifest /\ indexed' = FALSE /\ importing' = FALSE
        /\ pending' = FALSE /\ UNCHANGED changed
     \/ faults < MaxFaults /\ UNCHANGED <<local, queue>>
  /\ faults' = IF dir' THEN faults + 1 ELSE faults
  /\ UNCHANGED <<done, nas, worker, reader, lines, artifacts>>

\* The marker is durable first; removing the directory may fail and be tried
\* again.  A partly removed directory is as good as a whole one: the marker
\* hides it.
DeleteSavedResult ==
  /\ ~Locked /\ dir
  /\ reader.state # "pinned"
  /\ deleted' = TRUE
  /\ \/ /\ dir' = FALSE /\ tail' = {} /\ segs' = NoLogs /\ meta' = 0 /\ art' = 0
        /\ manifest' = EmptyManifest /\ indexed' = FALSE /\ importing' = FALSE
        /\ pending' = FALSE /\ UNCHANGED changed
     \/ faults < MaxFaults /\ UNCHANGED <<local, queue>>
  /\ faults' = IF dir' THEN faults + 1 ELSE faults
  /\ UNCHANGED <<done, nas, worker, reader, lines, artifacts>>

-----------------------------------------------------------------------------
(* Reading: captureRunSource joins the parts the manifest names, local     *)
(* segments it does not name, and the tail.                                *)

StoredParts == manifest.logs
LocalSegment(name) == name \in DOMAIN segs
RemoteParts == {p \in StoredParts : ~LocalSegment(p.seg)}

\* A part that the manifest names is read locally while its segment is there.
Stored(p) == [from |-> "manifest", name |-> p.obj, lines |-> IF LocalSegment(p.seg) THEN segs[p.seg] ELSE p.data]
Unnamed(s) == [from |-> "segment", name |-> s, lines |-> segs[s]]
CaptureRunSource ==
  {Stored(p) : p \in StoredParts} \cup {Unnamed(s) : s \in DOMAIN segs \ KnownSegments(manifest)}
    \cup {[from |-> "tail", name |-> 0, lines |-> tail]}

\* The remote parts are captured under the lock and pinned in a later
\* critical section, which looks at the marker again.
ReaderCapture ==
  /\ ~Locked /\ ~deleted /\ dir
  /\ reader.state = "none"
  /\ reader' = [state |-> "captured", parts |-> RemoteParts]
  /\ UNCHANGED <<local, markers, nas, queue, worker, history>>

ResolveArchivedRead ==
  /\ reader.state = "captured" /\ ~Locked
  /\ reader' = IF deleted \/ ~dir \/ reader.parts = {} THEN NoReader ELSE [reader EXCEPT !.state = "pinned"]
  /\ UNCHANGED <<local, markers, nas, queue, worker, history>>

ReaderReleases ==
  /\ reader.state = "pinned" /\ ~Locked
  /\ reader' = NoReader
  /\ UNCHANGED <<local, markers, nas, queue, worker, history>>

-----------------------------------------------------------------------------
(* archiveRun.                                                             *)

Return(success) ==
  /\ pc' = "idle"
  /\ work' = Idle
  /\ pending' = IF success /\ ~changed THEN FALSE ELSE pending
  /\ UNCHANGED changed

\* archiveMaintenance notes the version before it calls archiveRun.
NoteVersion ==
  /\ pc = "idle" /\ pending
  /\ pc' = "capture"
  /\ changed' = FALSE
  /\ UNCHANGED <<local, markers, nas, pending, work, reader, history>>

\* The tail is sealed under a name of its own and every file is opened.
Capture ==
  /\ pc = "capture"
  /\ IF deleted \/ ~dir THEN Return(TRUE) /\ UNCHANGED local
     ELSE IF importing \/ meta = 0 THEN Return(FALSE) /\ UNCHANGED local
     ELSE LET next == IF tail = {} THEN segs
                      ELSE [s \in DOMAIN segs \cup {lines} |-> IF s = lines THEN tail ELSE segs[s]]
          IN  /\ segs' = next
              /\ tail' = {}
              /\ indexed' = (indexed \/ tail # {})
              /\ work' = [Idle EXCEPT !.segs = next, !.meta = meta, !.art = art, !.man = manifest]
              /\ pc' = "open"
              /\ UNCHANGED <<dir, meta, art, manifest, importing, queue>>
  /\ UNCHANGED <<markers, nas, reader, history>>

Merged(man) ==
  LET known == {p.obj : p \in man.logs}
  IN  [logs |-> man.logs \cup {p \in published.logs : p.obj \notin known},
       meta |-> IF man.meta = 0 THEN published.meta ELSE man.meta,
       art  |-> IF man.art = 0 THEN published.art ELSE man.art]

\* What has to be copied is decided from the local manifest; segments of an
\* earlier attempt that was published but not recorded locally are reused.
OpenArchive ==
  /\ pc = "open"
  /\ LET man == work.man
         files == {f \in {ArtFile} : work.art # 0 /\ man.art # work.art}
                    \cup {f \in {MetaFile} : man.meta # work.meta}
         kept == {f \in {ArtFile} : work.art # 0 /\ man.art = work.art}
         merged == Merged(man)
         known == {s \in DOMAIN work.segs : s \in KnownSegments(merged)}
         todo == files \cup (DOMAIN work.segs \ known)
     IN  IF files = {} /\ kept = {} /\ DOMAIN work.segs = {}
         THEN Return(TRUE) /\ UNCHANGED nas
         ELSE /\ work' = [work EXCEPT !.man = merged, !.todo = todo, !.cleanup = kept \cup known,
                                      !.reused = kept \cup known, !.fresh = (remote # "published")]
              /\ remote' = IF remote = "none" THEN "incoming" ELSE remote
              /\ pc' = "upload"
              /\ UNCHANGED <<objects, published, queue>>
  /\ UNCHANGED <<local, markers, reader, history>>

UploadSegment(s) ==
  LET obj == IF work.man.logs = {} THEN FirstLog ELSE s IN
  /\ objects' = [objects EXCEPT !.logs = [o \in DOMAIN @ \cup {obj} |-> IF o = obj THEN work.segs[s] ELSE @[o]]]
  /\ work' = [work EXCEPT !.todo = @ \ {s}, !.cleanup = @ \cup {s},
                          !.man.logs = @ \cup {[obj |-> obj, seg |-> s, data |-> work.segs[s]]}]

\* An artifact gets an object of its own; its version stands for the name.
UploadArtifact ==
  /\ objects' = [objects EXCEPT !.arts = @ \cup {work.art}]
  /\ work' = [work EXCEPT !.todo = @ \ {ArtFile}, !.cleanup = @ \cup {ArtFile}, !.man.art = work.art]

\* A retained file keeps its name on the NAS.
UploadMetadata ==
  /\ objects' = [objects EXCEPT !.meta = work.meta]
  /\ work' = [work EXCEPT !.todo = @ \ {MetaFile}, !.man.meta = work.meta]

\* Files are copied in the order of their names.
CopyArchiveFile ==
  /\ pc = "upload" /\ work.todo # {}
  /\ LET segments == work.todo \ {ArtFile, MetaFile}
     IN  IF ArtFile \in work.todo THEN UploadArtifact
         ELSE IF segments # {} THEN \E s \in segments : (\A t \in segments : s <= t) /\ UploadSegment(s)
         ELSE UploadMetadata
  /\ UNCHANGED <<local, markers, remote, published, queue, pc, reader, history>>

Verified(f) ==
  IF f = ArtFile THEN work.man.art \in objects.arts
  ELSE \E p \in work.man.logs : p.seg = f /\ p.obj \in DOMAIN objects.logs /\ objects.logs[p.obj] = p.data

\* A mutant: local bytes are freed before the NAS directory has its name.
PublishRemoteEarly ==
  /\ pc = "upload" /\ work.todo = {}
  /\ \A f \in work.reused : Verified(f)
  /\ published' = work.man
  /\ pc' = "commit"
  /\ UNCHANGED <<local, markers, remote, objects, queue, work, reader, history>>

\* Reused objects are verified, then the manifest is published.
PublishRemote ==
  /\ pc = "upload" /\ work.todo = {}
  /\ \A f \in work.reused : Verified(f)
  /\ published' = work.man
  /\ pc' = IF work.fresh THEN "rename" ELSE "commit"
  /\ UNCHANGED <<local, markers, remote, objects, queue, work, reader, history>>

PublishDirectory ==
  /\ pc = "rename"
  /\ remote' = "published"
  /\ pc' = "commit"
  /\ UNCHANGED <<local, markers, objects, published, queue, work, reader, history>>

\* The object map is durable locally before any copied byte is unlinked.
CommitLocal ==
  /\ pc = "commit"
  /\ IF deleted \/ ~dir THEN Return(TRUE) /\ UNCHANGED local
     ELSE /\ manifest' = work.man /\ indexed' = TRUE
          /\ pc' = "cleanup"
          /\ UNCHANGED <<dir, tail, segs, meta, art, importing, work, queue>>
  /\ UNCHANGED <<markers, nas, reader, history>>

\* Only the very file that was copied is unlinked.
Unlink(f) ==
  IF f = ArtFile THEN art' = (IF art = work.art THEN 0 ELSE art) /\ UNCHANGED segs
  ELSE /\ segs' = [s \in DOMAIN segs \ {f} |-> segs[s]]
       /\ UNCHANGED art

Cleanup ==
  /\ pc = "cleanup"
  /\ IF work.cleanup = {} THEN Return(TRUE) /\ UNCHANGED local
     ELSE \E f \in work.cleanup :
            /\ Unlink(f)
            /\ work' = [work EXCEPT !.cleanup = @ \ {f}]
            /\ UNCHANGED <<dir, tail, meta, manifest, indexed, importing, pc, queue>>
  /\ UNCHANGED <<markers, nas, reader, history>>

-----------------------------------------------------------------------------
(* importArchivedRuns and cleanDeletedArchives, by the same worker.        *)

\* The local record is not complete; the NAS is read without the lock.
ImportScan ==
  /\ pc = "idle"
  /\ ~deleted /\ ~(dir /\ indexed /\ ~importing)
  /\ remote = "published"
  /\ work' = [Idle EXCEPT !.man = published, !.meta = objects.meta]
  /\ pc' = "import"
  /\ UNCHANGED <<local, markers, nas, queue, reader, history>>

ImportIntent ==
  /\ pc = "import"
  /\ IF deleted THEN pc' = "idle" /\ work' = Idle /\ UNCHANGED local
     ELSE /\ dir' = TRUE /\ importing' = TRUE /\ pc' = "importing"
          /\ UNCHANGED <<tail, segs, meta, art, manifest, indexed, work>>
  /\ UNCHANGED <<markers, nas, queue, reader, history>>

\* Existing local metadata wins.
ImportMetadata ==
  /\ pc = "importing"
  /\ meta' = IF meta = 0 THEN work.meta ELSE meta
  /\ pc' = "imported"
  /\ UNCHANGED <<dir, tail, segs, art, manifest, indexed, importing, markers, nas, queue, work, reader, history>>

\* The manifest records the metadata when it is the archived one.
ImportCommit ==
  /\ pc = "imported"
  /\ manifest' = [work.man EXCEPT !.meta = IF meta = work.meta THEN meta ELSE @]
  /\ indexed' = TRUE /\ importing' = FALSE
  /\ pc' = "idle" /\ work' = Idle
  /\ MarkRunArchiveDirty
  /\ UNCHANGED <<dir, tail, segs, meta, art, markers, nas, reader, history>>

\* A mutant: the directory of an unfinished transfer is forgotten.
RemoveArchivedNamed ==
  /\ pc = "idle" /\ deleted /\ ~done
  /\ IF remote = "published" THEN remote' = "none" /\ objects' = NoObjects /\ published' = EmptyManifest
     ELSE UNCHANGED nas
  /\ pc' = "removed"
  /\ UNCHANGED <<local, markers, queue, work, reader, history>>

RemoveArchivedResult ==
  /\ pc = "idle" /\ deleted /\ ~done
  /\ remote' = "none" /\ objects' = NoObjects /\ published' = EmptyManifest
  /\ pc' = "removed"
  /\ UNCHANGED <<local, markers, queue, work, reader, history>>

RecordRemoval ==
  /\ pc = "removed"
  /\ done' = TRUE
  /\ pc' = "idle"
  /\ UNCHANGED <<local, deleted, nas, queue, work, reader, history>>

-----------------------------------------------------------------------------
(* Faults.                                                                 *)

\* A step of the worker returns an error; the run stays queued.
WorkerFails ==
  /\ faults < MaxFaults
  /\ pc # "idle"
  /\ faults' = faults + 1
  /\ pc' = "idle" /\ work' = Idle
  /\ UNCHANGED <<local, markers, nas, queue, reader, lines, artifacts>>

\* A new Controller queues every local result it finds.
Restart ==
  /\ faults < MaxFaults
  /\ faults' = faults + 1
  /\ pc' = "idle" /\ work' = Idle
  /\ pending' = (dir /\ ~deleted) /\ changed' = FALSE
  /\ reader' = NoReader
  /\ UNCHANGED <<local, markers, nas, lines, artifacts>>

-----------------------------------------------------------------------------
\* A run of this Controller, or one that another left on the NAS: a line of the log,
\* the metadata and an artifact.
InitFrom(imported) ==
  /\ dir = ~imported /\ meta = (IF imported THEN 0 ELSE 1)
  /\ tail = {} /\ segs = NoLogs /\ art = 0
  /\ manifest = EmptyManifest /\ indexed = FALSE /\ importing = FALSE
  /\ deleted = FALSE /\ done = FALSE
  /\ IF imported
     THEN LET part == [obj |-> FirstLog, seg |-> 1, data |-> {1}]
          IN  /\ remote = "published"
              /\ objects = [logs |-> [o \in {FirstLog} |-> {1}], meta |-> 1, arts |-> {1}]
              /\ published = [logs |-> {part}, meta |-> 1, art |-> 1]
     ELSE remote = "none" /\ objects = NoObjects /\ published = EmptyManifest
  /\ pending = ~imported /\ changed = FALSE
  /\ pc = "idle" /\ work = Idle
  /\ reader = NoReader
  /\ lines = (IF imported THEN 1 ELSE 0) /\ artifacts = lines /\ faults = 0

Init == \E imported \in BOOLEAN : InitFrom(imported)

ArchiveWorker ==
  \/ NoteVersion \/ Capture \/ OpenArchive \/ CopyArchiveFile
  \/ PublishRemote \/ PublishDirectory \/ CommitLocal \/ Cleanup
  \/ ImportScan \/ ImportIntent \/ ImportMetadata \/ ImportCommit
  \/ RemoveArchivedResult \/ RecordRemoval

Writers == AppendRunEvents \/ WriteMetadata \/ CompleteAnalysis \/ DeleteSavedResult
Reader == ReaderCapture \/ ResolveArchivedRead \/ ReaderReleases
Faults == WorkerFails \/ Restart

Next == ArchiveWorker \/ Writers \/ Reader \/ Faults

Spec == Init /\ [][Next]_vars

\* The worker runs every five seconds for as long as the Controller does; each
\* pass first looks for archives to import (once a minute) and to remove.
FairSpec == Spec /\ WF_vars(ArchiveWorker) /\ SF_vars(ImportScan) /\ SF_vars(RemoveArchivedResult)

-----------------------------------------------------------------------------
\* Types of the files and the manifests; a worker that is between two results
\* holds nothing of either.
TypeOK ==
  /\ {dir, indexed, importing, deleted, done, pending, changed} \subseteq BOOLEAN
  /\ tail \subseteq 1..MaxLines
  /\ \A s \in DOMAIN segs : s \in Segments /\ segs[s] \subseteq 1..MaxLines
  /\ {meta, art, manifest.meta, manifest.art, published.meta, published.art} \subseteq 0..MaxVersions
  /\ remote \in {"none", "incoming", "published"}
  /\ pc \in {"idle", "capture", "open", "upload", "rename", "commit", "cleanup", "import", "importing", "imported", "removed"}
  /\ pc = "idle" => work = Idle
  /\ reader.state \in {"none", "captured", "pinned"}

\* A result is listed and served when it has its metadata.
Readable == dir /\ ~deleted /\ meta # 0

\* What an import that is under way has not recorded yet.
Unrecorded == IF importing THEN published.logs ELSE {}
Awaited(p) == [from |-> "import", name |-> p.obj, lines |-> p.data]

\* What a reader of the log gets is what was acknowledged: the joined parts
\* hold every line exactly once, and every part that is only on the NAS is
\* there under its published name with its content; at every moment of a
\* transfer, a failure or a restart.  An unfinished import is the one exception:
\* readers do not look at .archive-import, so that between the write of the
\* metadata and that of the manifest, or after a failure between them, they are
\* served only what is local; what they miss then is exactly the archived log,
\* which is intact on the NAS for the next import.
LogIsComplete ==
  Readable =>
    LET parts == CaptureRunSource \cup {Awaited(p) : p \in Unrecorded}
    IN  /\ UNION {p.lines : p \in parts} = 1..lines
        /\ \A p, q \in parts : p # q => p.lines \cap q.lines = {}
        /\ \A p \in RemoteParts \cup Unrecorded :
             remote = "published" /\ p.obj \in DOMAIN objects.logs /\ objects.logs[p.obj] = p.data

\* The artifact a reader finds, locally or through the manifest, is the last
\* one written, although it may be replaced while its predecessor is copied.  In
\* an unfinished import it is found through the manifest of the NAS only.
ArtifactIsLatest ==
  Readable =>
    LET archived == IF importing THEN published.art ELSE manifest.art
    IN  /\ (IF art # 0 THEN art ELSE archived) = artifacts
        /\ art = 0 /\ archived # 0 => remote = "published" /\ archived \in objects.arts

\* Bytes that are only local are queued for the worker, or it is at them.
NothingStranded ==
  dir /\ ~deleted /\ ~importing /\ (tail # {} \/ art # 0 \/ DOMAIN segs # {} \/ manifest.meta # meta) => pending

\* No manifest names an object or a segment twice: a file that is to be copied is
\* not one that the manifest already names.
NamedOnce ==
  /\ \A m \in {manifest, published} : \A p, q \in m.logs : p.obj = q.obj \/ p.seg = q.seg => p = q
  /\ pc = "upload" => work.todo \cap KnownSegments(work.man) = {}

\* A reader that pinned the run can open every archived part it captured.
PinnedPartsExist ==
  reader.state = "pinned" =>
    \A p \in reader.parts : remote = "published" /\ p.obj \in DOMAIN objects.logs /\ objects.logs[p.obj] = p.data

\* Neither late telemetry, nor an import, nor the worker recreates the
\* directory of a deleted result.
NoRevival == [][deleted /\ ~dir => ~dir']_vars

\* A deleted result disappears from the NAS for good: its removal is recorded, and
\* no transfer that was under way puts it back.
DeletionCompletes == deleted ~> [](done /\ remote = "none")

\* Once writers are quiet every log line and artifact moves to the NAS.
Archives == <>[](deleted \/ (dir /\ tail = {} /\ segs = NoLogs /\ art = 0 /\ manifest.meta = meta))

\* The stored run is well formed: it has its type, local bytes are queued, manifests
\* are valid, and a reader that pinned the run finds what it captured.
ArchiveConsistent == TypeOK /\ NothingStranded /\ NamedOnce /\ PinnedPartsExist

\* Readers get the whole log and the latest artifact, wherever the parts are; in an
\* unfinished import, what they do not get is on the NAS.
ReadersSeeAll == LogIsComplete /\ ArtifactIsLatest

\* A deleted result leaves the NAS, any other ends up there.
ArchiveSettles == DeletionCompletes /\ Archives
=============================================================================
