-------------------------- MODULE RunArchiveProofs --------------------------
(***************************************************************************)
(* ArchiveConsistent, ReadersSeeAll and NoRevival for any lines, versions, *)
(* failures and restarts.                                                  *)
(*                                                                         *)
(* A reader sees all because, as long as the result is not deleted, every  *)
(* line is in the tail, in a local segment or in a part of the published   *)
(* manifest (Content), and a published part is named by the local manifest *)
(* before its segment is unlinked (Listed).  The published manifest only   *)
(* grows, since the worker starts from it (Copying).  Nothing is stranded  *)
(* because a transfer during which nothing changed covers every local file *)
(* (Covering).                                                             *)
(***************************************************************************)
EXTENDS RunArchive, TLAPS

Lines == SUBSET (1..MaxLines)
LogMaps == UNION {[D -> Lines] : D \in SUBSET (0..MaxLines)}
SegmentMaps == UNION {[D -> Lines] : D \in SUBSET Segments}
Versions == 0..MaxVersions
Parts == [obj : 0..MaxLines, seg : Segments, data : Lines]
Manifests == [logs : SUBSET Parts, meta : Versions, art : Versions]
Files == Segments \cup {ArtFile, MetaFile}
Works ==
  [segs : SegmentMaps, meta : Versions, art : Versions, man : Manifests,
   todo : SUBSET Files, cleanup : SUBSET Files, reused : SUBSET Files, fresh : BOOLEAN]

Importing == {"import", "importing", "imported"}
Copied == {"upload", "rename", "commit"}            \* the transfer of what was opened
Moving == {"open", "cleanup"} \cup Copied           \* the run is captured

Shape ==
  /\ TypeOK
  /\ segs \in SegmentMaps /\ manifest \in Manifests /\ published \in Manifests
  /\ objects \in [logs : LogMaps, meta : Versions, arts : SUBSET Versions]
  /\ work \in Works
  /\ reader \in [state : {"none", "captured", "pinned"}, parts : SUBSET Parts]
  /\ lines \in 0..MaxLines /\ artifacts \in Versions /\ faults \in Nat

\* Where the worker is, and what of the run there is then.
Places ==
  /\ ~dir => /\ tail = {} /\ DOMAIN segs = {} /\ art = 0 /\ meta = 0
             /\ manifest = EmptyManifest /\ ~indexed /\ ~importing
  /\ ~indexed => DOMAIN segs = {} /\ manifest = EmptyManifest
  /\ importing => ~indexed /\ (deleted \/ remote = "published")
  /\ pending => dir \/ deleted
  /\ pc \in {"importing", "imported"} => dir /\ importing /\ ~deleted
  /\ pc \in Importing => ~indexed /\ remote = "published"
  /\ pc \in {"capture"} \cup Moving => deleted \/ (dir /\ pending)
  /\ pc \in Moving => deleted \/ (~importing /\ meta # 0)
  /\ pc = "cleanup" => ~deleted
  /\ pc \in {"capture", "removed"} => work = Idle
  /\ pc = "removed" => deleted

\* Objects and segments are named once.
Valid(m) ==
  /\ \A p \in m.logs : p.obj = FirstLog \/ p.obj = p.seg
  /\ \A p, q \in m.logs : p.obj = q.obj \/ p.seg = q.seg => p = q

OnNas(p) == p.obj \in DOMAIN objects.logs /\ objects.logs[p.obj] = p.data

\* What the worker has read, copied and published.
Copying ==
  /\ Valid(manifest) /\ Valid(published) /\ Valid(work.man)
  /\ \A p \in published.logs : OnNas(p)
  /\ pc = "open" => work.man.logs \subseteq published.logs
  /\ pc = "upload" =>
       /\ published.logs \subseteq work.man.logs
       /\ \A p \in work.man.logs : OnNas(p)
       /\ work.todo \cap KnownSegments(work.man) = {}
       /\ work.todo \subseteq DOMAIN work.segs \cup {ArtFile, MetaFile}
       /\ ArtFile \in work.todo => work.art # 0
  /\ pc \in {"rename", "commit", "cleanup"} \cup Importing => work.man = published
  /\ pc \in {"rename", "commit"} => work.todo = {}
  /\ pc = "cleanup" => manifest = work.man

\* Every line is in one place, or in a segment and in the published part of it.
Content ==
  /\ tail \subseteq 1..lines /\ (tail # {} => lines \in tail)
  /\ \A s \in DOMAIN segs :
       /\ s \in segs[s] /\ segs[s] \subseteq 1..lines /\ segs[s] \cap tail = {}
       /\ \A t \in DOMAIN segs : s # t => segs[s] \cap segs[t] = {}
  /\ \A p \in published.logs :
       /\ p.seg \in p.data /\ p.data \subseteq 1..lines /\ p.data \cap tail = {}
       /\ \A q \in published.logs : p # q => p.data \cap q.data = {}
       /\ \A s \in DOMAIN segs : IF p.seg = s THEN p.data = segs[s] ELSE p.data \cap segs[s] = {}
  /\ \A l \in 1..lines : \/ l \in tail
                         \/ \E s \in DOMAIN segs : l \in segs[s]
                         \/ \E p \in published.logs : l \in p.data

\* What the local manifest has of the published one.
Listed ==
  /\ manifest.logs \subseteq published.logs
  /\ manifest.logs # {} \/ manifest.art # 0 => remote = "published"
  /\ dir /\ meta # 0 /\ ~importing =>
       \A p \in published.logs : p \in manifest.logs \/ p.seg \in DOMAIN segs

\* The transfer under way, and the segments that it may unlink.
Transfer ==
  /\ pc = "open" => work.man = manifest
  /\ pc \in Copied \cup {"open"} => work.segs = segs
  /\ pc \in {"upload", "rename"} => work.fresh \/ remote = "published"
  /\ pc \in {"commit", "cleanup"} => remote = "published"
  /\ pc \in Copied \cup {"cleanup"} => work.cleanup \ {ArtFile} \subseteq KnownSegments(work.man)
  /\ pc \in Copied =>
       \A p \in work.man.logs :
         p \in published.logs \/ (p.seg \in DOMAIN segs /\ p.data = segs[p.seg])

\* The artifact.
Artifact ==
  /\ {manifest.art, published.art} \subseteq objects.arts \cup {0} /\ published.art <= artifacts /\ manifest.art <= artifacts
  /\ art # 0 => art = artifacts
  /\ art = 0 /\ dir /\ meta # 0 /\ ~importing => manifest.art = artifacts
  /\ ~indexed => art = artifacts \/ (art = 0 /\ published.art = artifacts /\ (meta # 0 => importing))
  /\ pc \in Copied \cup {"open"} =>
       /\ art = 0 => work.art = 0 /\ work.man.art = manifest.art
       /\ work.art <= artifacts
       /\ work.man.art \in objects.arts \cup {0} /\ work.man.art <= artifacts
  /\ pc \in Copied \cup {"cleanup"} /\ ArtFile \in work.cleanup => work.art # 0 /\ work.man.art = work.art

\* A transfer covers every local file that did not change since.
Covering ==
  /\ pc \in Copied \cup {"open"} =>
       /\ work.meta # 0
       /\ ~changed => tail = {} /\ meta = work.meta /\ art = work.art
  /\ pc \in Copied =>
       /\ DOMAIN segs \subseteq work.cleanup \cup work.todo
       /\ work.art # 0 => ArtFile \in work.cleanup \cup work.todo
       /\ work.man.meta = work.meta \/ MetaFile \in work.todo
  /\ pc = "cleanup" =>
       /\ DOMAIN segs \subseteq work.cleanup /\ work.man.meta = work.meta
       /\ ~changed => tail = {} /\ meta = work.meta /\ (art # 0 => art = work.art /\ ArtFile \in work.cleanup)
  /\ NothingStranded

\* A reader that has captured the run, and one that has pinned it.
Readers ==
  /\ reader.state = "pinned" => ~deleted
  /\ reader.state # "none" /\ ~deleted =>
       reader.parts \subseteq published.logs /\ (reader.parts # {} => remote = "published")

IInv ==
  /\ Shape /\ Places /\ Copying /\ Readers
  /\ ~deleted => Content /\ Listed /\ Transfer /\ Artifact /\ Covering
-----------------------------------------------------------------------------
(* Types *)

LEMMA Constants ==
  /\ MaxLines \in Nat \ {0} /\ MaxVersions \in Nat \ {0} /\ MaxFaults \in Nat
  /\ 1 \in 1..MaxLines /\ 0 \in 0..MaxLines /\ 0 \in Versions /\ 1 \in Versions
  BY BoundsAssumption DEF Versions

LEMMA NoLogsFacts == NoLogs \in LogMaps /\ NoLogs \in SegmentMaps /\ DOMAIN NoLogs = {}
<1>1. NoLogs \in [{} -> Lines] /\ {} \in SUBSET (0..MaxLines) /\ {} \in SUBSET Segments
  BY DEF NoLogs
<1> QED
  BY <1>1, Zenon DEF LogMaps, SegmentMaps, NoLogs

LEMMA LogMapsFacts ==
  ASSUME NEW m
  PROVE  m \in LogMaps <=> m \in [DOMAIN m -> Lines] /\ DOMAIN m \subseteq 0..MaxLines
<1>1. ASSUME m \in LogMaps PROVE m \in [DOMAIN m -> Lines] /\ DOMAIN m \subseteq 0..MaxLines
  <2>1. PICK D \in SUBSET (0..MaxLines) : m \in [D -> Lines]
    BY <1>1 DEF LogMaps
  <2>2. DOMAIN m = D
    BY <2>1
  <2> QED
    BY <2>1, <2>2
<1>2. ASSUME m \in [DOMAIN m -> Lines], DOMAIN m \subseteq 0..MaxLines PROVE m \in LogMaps
  BY <1>2 DEF LogMaps
<1> QED
  BY <1>1, <1>2

LEMMA SegmentMapsFacts ==
  ASSUME NEW m
  PROVE  m \in SegmentMaps <=> m \in [DOMAIN m -> Lines] /\ DOMAIN m \subseteq Segments
<1>1. ASSUME m \in SegmentMaps PROVE m \in [DOMAIN m -> Lines] /\ DOMAIN m \subseteq Segments
  <2>1. PICK D \in SUBSET Segments : m \in [D -> Lines]
    BY <1>1 DEF SegmentMaps
  <2>2. DOMAIN m = D
    BY <2>1
  <2> QED
    BY <2>1, <2>2
<1>2. ASSUME m \in [DOMAIN m -> Lines], DOMAIN m \subseteq Segments PROVE m \in SegmentMaps
  BY <1>2 DEF SegmentMaps
<1> QED
  BY <1>1, <1>2

LEMMA IdleFacts ==
  /\ EmptyManifest \in Manifests /\ EmptyManifest.logs = {} /\ EmptyManifest.meta = 0 /\ EmptyManifest.art = 0
  /\ Idle \in Works /\ Idle.man = EmptyManifest /\ Idle.todo = {} /\ Idle.cleanup = {}
  /\ NoObjects \in [logs : LogMaps, meta : Versions, arts : SUBSET Versions]
  /\ NoObjects.arts = {} /\ NoObjects.logs = NoLogs
<1>1. EmptyManifest \in Manifests
  BY Constants DEF EmptyManifest, Manifests
<1>2. NoLogs \in LogMaps /\ NoLogs \in SegmentMaps
  BY NoLogsFacts
<1>3. Idle \in Works
  BY <1>1, <1>2, Constants DEF Idle, Works
<1>4. NoObjects \in [logs : LogMaps, meta : Versions, arts : SUBSET Versions]
  BY <1>2, Constants DEF NoObjects
<1> QED
  BY <1>1, <1>3, <1>4 DEF EmptyManifest, Idle, NoObjects

LEMMA ValidEmpty == ASSUME NEW m, m.logs = {} PROVE Valid(m)
  BY DEF Valid

\* The worker is between two results.
AtRest == pc' = "idle" /\ work' = Idle

LEMMA RestShape ==
  ASSUME IInv, AtRest
  PROVE  /\ work' \in Works /\ Valid(work'.man)
         /\ pc' \notin Importing \cup Moving \cup Copied \cup {"capture", "open", "upload", "rename", "commit",
                                                    "cleanup", "importing", "imported", "removed"}
  BY IdleFacts, ValidEmpty DEF AtRest, Importing, Moving, Copied
-----------------------------------------------------------------------------
(* The initial state *)

LEMMA InitIInv == Init => IInv
<1> SUFFICES ASSUME NEW imported \in BOOLEAN, InitFrom(imported) PROVE IInv
  BY DEF Init
<1> USE DEF InitFrom
<1>1. pc = "idle" /\ work = Idle /\ reader = NoReader /\ ~deleted
  OBVIOUS
<1>2. work \in Works /\ work.man.logs = {}
  BY <1>1, IdleFacts
<1>3. segs = NoLogs /\ segs \in SegmentMaps /\ DOMAIN segs = {}
  BY NoLogsFacts
<1>4. manifest = EmptyManifest /\ manifest \in Manifests /\ manifest.logs = {} /\ manifest.art = 0 /\ manifest.meta = 0
  BY IdleFacts
<1>5. reader \in [state : {"none", "captured", "pinned"}, parts : SUBSET Parts] /\ reader.state = "none"
  BY <1>1 DEF NoReader
<1>6. /\ lines \in 0..MaxLines /\ artifacts \in Versions /\ faults \in Nat
      /\ meta \in Versions /\ art \in Versions /\ tail \subseteq 1..MaxLines
  BY Constants
<1>7. CASE ~imported
  <2>1. /\ published \in Manifests /\ published.logs = {} /\ published.art = 0 /\ published.meta = 0
        /\ objects \in [logs : LogMaps, meta : Versions, arts : SUBSET Versions]
    BY <1>7, IdleFacts
  <2>2. dir /\ meta = 1 /\ lines = 0 /\ artifacts = 0 /\ art = 0 /\ tail = {} /\ pending
    BY <1>7, Zenon
  <2>3. Shape
    BY <1>1, <1>2, <1>3, <1>4, <1>5, <1>6, <1>7, <2>1, Constants, Zenon DEF Shape, TypeOK, Versions
  <2>4. Places /\ Copying /\ Readers
    BY <1>1, <1>2, <1>3, <1>4, <1>5, <2>1, <2>2, ValidEmpty
    DEF Places, Copying, Readers, Importing, Moving, Copied
  <2>5. Content /\ Listed /\ Transfer
    BY <1>1, <1>3, <1>4, <2>1, <2>2 DEF Content, Listed, Transfer, Copied
  <2>6. Artifact /\ Covering
    BY <1>1, <1>3, <1>4, <2>1, <2>2 DEF Artifact, Covering, Copied, NothingStranded
  <2> QED
    BY <2>3, <2>4, <2>5, <2>6 DEF IInv
<1>8. CASE imported
  <2> DEFINE part == [obj |-> FirstLog, seg |-> 1, data |-> {1}]
             logs == [o \in {FirstLog} |-> {1}]
  <2>1. part \in Parts
    BY Constants DEF Parts, Segments, Lines, FirstLog
  <2>2. published = [logs |-> {part}, meta |-> 1, art |-> 1] /\ objects = [logs |-> logs, meta |-> 1, arts |-> {1}]
    BY <1>8
  <2>3. published \in Manifests /\ published.logs = {part} /\ published.art = 1 /\ published.meta = 1
    BY <2>1, <2>2, Constants DEF Manifests
  <2>4. logs \in LogMaps
    <3>1. logs \in [{FirstLog} -> Lines] /\ {FirstLog} \in SUBSET (0..MaxLines)
      BY Constants DEF Lines, FirstLog
    <3> QED
      BY <3>1 DEF LogMaps
  <2>5. objects \in [logs : LogMaps, meta : Versions, arts : SUBSET Versions] /\ objects.logs = logs /\ objects.arts = {1}
    BY <2>2, <2>4, Constants
  <2>6. ~dir /\ meta = 0 /\ lines = 1 /\ artifacts = 1 /\ art = 0 /\ tail = {} /\ remote = "published" /\ ~pending
    BY <1>8, Zenon
  <2>7. Shape
    <3>1. /\ {dir, indexed, importing, deleted, done, pending, changed} \subseteq BOOLEAN
          /\ remote = "published" /\ pc = "idle" /\ work = Idle
      BY <1>8, Zenon
    <3>2. {meta, art, manifest.meta, manifest.art, published.meta, published.art} \subseteq 0..MaxVersions
      BY <1>4, <1>6, <2>3, Constants DEF Versions
    <3>3. TypeOK
      BY <1>3, <1>5, <1>6, <3>1, <3>2 DEF TypeOK
    <3> HIDE DEF InitFrom
    <3> QED
      BY <1>2, <1>3, <1>4, <1>5, <1>6, <2>3, <2>5, <3>3 DEF Shape
  <2>8. Valid(published) /\ \A p \in published.logs : OnNas(p)
    BY <2>3, <2>5 DEF Valid, OnNas
  <2>9. Places /\ Copying /\ Readers
    BY <1>1, <1>2, <1>3, <1>4, <1>5, <2>6, <2>8, ValidEmpty, Zenon
    DEF Places, Copying, Readers, Importing, Moving, Copied
  <2>10. Content
    BY <1>3, <2>3, <2>6 DEF Content
  <2>11. Listed /\ Transfer
    BY <1>1, <1>3, <1>4, <2>3, <2>6, Zenon DEF Listed, Transfer, Copied
  <2>12. Artifact /\ Covering
    BY <1>1, <1>3, <1>4, <2>3, <2>5, <2>6 DEF Artifact, Covering, Copied, NothingStranded
  <2> QED
    BY <2>7, <2>9, <2>10, <2>11, <2>12 DEF IInv
<1> QED
  BY <1>7, <1>8
-----------------------------------------------------------------------------
(* The writers *)

LEMMA AppendKeeps == ASSUME IInv, AppendRunEvents PROVE IInv'
<1> USE DEF AppendRunEvents, MarkRunArchiveDirty, markers, nas, worker
<1>1. Shape /\ Places /\ Copying /\ Readers /\ Content /\ Listed /\ Transfer /\ Artifact /\ Covering
  BY DEF IInv
<1>2. lines \in Nat /\ lines + 1 \in 1..MaxLines /\ lines' = lines + 1
  BY <1>1, Constants DEF Shape
<1>3. Shape'
  <2>1. {dir', indexed', importing', deleted', done', pending', changed'} \subseteq BOOLEAN
    BY <1>1 DEF Shape, TypeOK
  <2>2. TypeOK'
    BY <1>1, <1>2, <2>1, Zenon DEF Shape, TypeOK
  <2> QED
    BY <1>1, <1>2, <2>2 DEF Shape
<1>4. Places' /\ Copying' /\ Readers'
  BY <1>1 DEF Places, Copying, Readers, Importing, Moving, Copied, OnNas, Locked
<1>5. Content'
  <2>1. 1..lines' = 1..lines \cup {lines + 1} /\ lines + 1 \notin 1..lines
    BY <1>2
  <2>2. tail' \subseteq 1..lines' /\ lines' \in tail'
    BY <1>1, <1>2, <2>1 DEF Content
  <2>3. ASSUME NEW s \in DOMAIN segs
        PROVE  /\ s \in segs[s] /\ segs[s] \subseteq 1..lines' /\ segs[s] \cap tail' = {}
               /\ \A t \in DOMAIN segs : s # t => segs[s] \cap segs[t] = {}
    BY <1>1, <1>2, <2>1 DEF Content
  <2>4. ASSUME NEW p \in published.logs
        PROVE  /\ p.seg \in p.data /\ p.data \subseteq 1..lines' /\ p.data \cap tail' = {}
               /\ \A q \in published.logs : p # q => p.data \cap q.data = {}
               /\ \A s \in DOMAIN segs : IF p.seg = s THEN p.data = segs[s] ELSE p.data \cap segs[s] = {}
    BY <1>1, <1>2, <2>1 DEF Content
  <2>5. \A l \in 1..lines' : \/ l \in tail'
                             \/ \E s \in DOMAIN segs : l \in segs[s]
                             \/ \E p \in published.logs : l \in p.data
    BY <1>1, <1>2, <2>1 DEF Content
  <2> QED
    BY <2>2, <2>3, <2>4, <2>5 DEF Content
<1>6. Listed'
  BY <1>1 DEF Listed, Places
<1>7. Transfer'
  BY <1>1, Zenon DEF Transfer, Copied
<1>8. Artifact'
  BY <1>1, Zenon DEF Artifact, Copied, Places
<1>9. Covering'
  BY <1>1 DEF Covering, Copied, NothingStranded, Locked
<1> QED
  BY <1>3, <1>4, <1>5, <1>6, <1>7, <1>8, <1>9 DEF IInv

LEMMA WriteMetadataKeeps == ASSUME IInv, WriteMetadata PROVE IInv'
<1> USE DEF WriteMetadata, MarkRunArchiveDirty, markers, nas, worker, history
<1>1. Shape /\ Places /\ Copying /\ Readers /\ Content /\ Listed /\ Transfer /\ Artifact /\ Covering
  BY DEF IInv
<1>2. meta' \in 1..MaxVersions /\ meta # 0 /\ meta' # 0
  BY Constants
<1>3. Shape'
  BY <1>1, <1>2 DEF Shape, TypeOK
<1>4. Places' /\ Copying' /\ Readers'
  BY <1>1, <1>2, Zenon DEF Places, Copying, Readers, Importing, Moving, Copied, OnNas, Locked
<1>5. Content' /\ Listed' /\ Transfer'
  BY <1>1, <1>2, Zenon DEF Content, Listed, Transfer, Copied
<1>6. Artifact'
  BY <1>1, <1>2, Zenon DEF Artifact, Copied
<1>7. Covering'
  BY <1>1 DEF Covering, Copied, NothingStranded, Locked
<1> QED
  BY <1>3, <1>4, <1>5, <1>6, <1>7 DEF IInv

LEMMA CompleteAnalysisKeeps == ASSUME IInv, CompleteAnalysis PROVE IInv'
<1> USE DEF CompleteAnalysis, MarkRunArchiveDirty, markers, nas, worker
<1>1. Shape /\ Places /\ Copying /\ Readers /\ Content /\ Listed /\ Transfer /\ Artifact /\ Covering
  BY DEF IInv
<1>2. artifacts \in Nat /\ artifacts' \in 1..MaxVersions /\ artifacts' = artifacts + 1 /\ art' = artifacts' /\ art' # 0
  BY <1>1, Constants DEF Shape, Versions
<1>3. Shape'
  BY <1>1, <1>2 DEF Shape, TypeOK, Versions
<1>4. Places' /\ Copying' /\ Readers'
  BY <1>1, Zenon DEF Places, Copying, Readers, Importing, Moving, Copied, OnNas, Locked
<1>5. Content' /\ Listed' /\ Transfer'
  BY <1>1, Zenon DEF Content, Listed, Transfer, Copied
<1>6. Artifact'
  <2>1. work \in Works /\ {published.art, manifest.art} \subseteq Nat /\ work.art \in Nat /\ work.man.art \in Nat
    BY <1>1 DEF Shape, Works, Manifests, Versions
  <2> QED
    BY <1>1, <1>2, <2>1 DEF Artifact, Copied
<1>7. Covering'
  BY <1>1 DEF Covering, Copied, NothingStranded, Locked
<1> QED
  BY <1>3, <1>4, <1>5, <1>6, <1>7 DEF IInv

LEMMA DeleteKeeps == ASSUME IInv, DeleteSavedResult PROVE IInv'
<1> USE DEF DeleteSavedResult, nas, worker
<1>1. Shape /\ Places /\ Copying /\ Readers
  BY DEF IInv
<1>2. deleted' /\ pc \notin {"cleanup", "importing", "imported"}
  BY DEF Locked
<1>3. CASE dir' = FALSE /\ tail' = {} /\ segs' = NoLogs /\ meta' = 0 /\ art' = 0
           /\ manifest' = EmptyManifest /\ indexed' = FALSE /\ importing' = FALSE
           /\ pending' = FALSE /\ UNCHANGED changed
  <2>1. segs' \in SegmentMaps /\ DOMAIN segs' = {} /\ manifest' \in Manifests /\ Valid(manifest')
        /\ manifest'.meta = 0 /\ manifest'.art = 0
    BY <1>3, IdleFacts, NoLogsFacts, ValidEmpty
  <2>2. faults' = faults
    BY <1>3
  <2>3. Shape'
    <3>1. {dir', indexed', importing', deleted', done', pending', changed'} \subseteq BOOLEAN
      BY <1>1, <1>2, <1>3, Zenon DEF Shape, TypeOK
    <3>2. {meta', art', manifest'.meta, manifest'.art, published'.meta, published'.art} \subseteq 0..MaxVersions
      BY <1>1, <1>3, <2>1, Constants DEF Shape, TypeOK, Versions
    <3>3. TypeOK'
      BY <1>1, <1>3, <2>1, <3>1, <3>2, Zenon DEF Shape, TypeOK
    <3> QED
      BY <1>1, <2>1, <2>2, <3>3 DEF Shape
  <2>4. Places' /\ Readers'
    BY <1>1, <1>2, <1>3, <2>1, Zenon DEF Places, Readers, Importing, Moving, Copied
  <2>5. Copying'
    BY <1>1, <1>2, <2>1 DEF Copying, OnNas
  <2> QED
    BY <1>2, <2>3, <2>4, <2>5, Zenon DEF IInv
<1>4. CASE UNCHANGED <<local, queue>>
  <2> USE <1>4 DEF local, queue
  <2>1. faults' \in Nat
    BY <1>1 DEF Shape
  <2>2. Shape'
    BY <1>1, <2>1 DEF Shape, TypeOK
  <2>3. Places' /\ Readers'
    BY <1>1, <1>2, Zenon DEF Places, Readers, Importing, Moving, Copied
  <2>4. Copying'
    BY <1>1, <1>2 DEF Copying, OnNas
  <2> QED
    BY <1>2, <2>2, <2>3, <2>4 DEF IInv
<1> QED
  BY <1>3, <1>4, Zenon
-----------------------------------------------------------------------------
(* Readers, failures and restarts *)

LEMMA ReaderKeeps == ASSUME IInv, Reader PROVE IInv'
<1> USE DEF local, markers, nas, queue, worker, history
<1>1. Shape /\ Places /\ Copying /\ Readers /\ (~deleted => Content /\ Listed /\ Transfer /\ Artifact /\ Covering)
  BY DEF IInv
<1>2. UNCHANGED <<local, markers, nas, queue, worker, history>>
  BY DEF Reader, ReaderCapture, ResolveArchivedRead, ReaderReleases
<1>3. Places' /\ Copying' /\ (~deleted' => Content' /\ Listed' /\ Transfer' /\ Artifact' /\ Covering')
  <2>1. Places'
    BY <1>1, <1>2, Zenon DEF Places
  <2>2. Copying'
    BY <1>1, <1>2, Zenon DEF Copying, OnNas
  <2>3. ~deleted' => Content' /\ Listed'
    BY <1>1, <1>2, Zenon DEF Content, Listed
  <2>4. ~deleted' => Transfer' /\ Artifact'
    BY <1>1, <1>2, Zenon DEF Transfer, Artifact
  <2>5. ~deleted' => Covering'
    BY <1>1, <1>2 DEF Covering, NothingStranded
  <2> QED
    BY <2>1, <2>2, <2>3, <2>4, <2>5
<1>4. SUFFICES reader' \in [state : {"none", "captured", "pinned"}, parts : SUBSET Parts] /\ Readers'
  <2>1. ASSUME reader' \in [state : {"none", "captured", "pinned"}, parts : SUBSET Parts] PROVE Shape'
    BY <1>1, <1>2, <2>1 DEF Shape, TypeOK
  <2> QED
    BY <1>3, <2>1, Zenon DEF IInv
<1>5. NoReader \in [state : {"none", "captured", "pinned"}, parts : SUBSET Parts] /\ NoReader.state = "none"
  BY DEF NoReader
<1>6. CASE ReaderCapture
  <2>1. RemoteParts \subseteq manifest.logs /\ manifest.logs \subseteq Parts /\ ~deleted
    BY <1>1, <1>6 DEF RemoteParts, StoredParts, Shape, Manifests, ReaderCapture
  <2>2. reader' = [state |-> "captured", parts |-> RemoteParts]
    BY <1>6 DEF ReaderCapture
  <2>3. reader'.state = "captured" /\ reader'.parts = RemoteParts
    BY <2>2, Zenon
  <2>4. reader' \in [state : {"none", "captured", "pinned"}, parts : SUBSET Parts]
    BY <2>1, <2>2
  <2>5. Readers'
    BY <1>1, <1>2, <2>1, <2>3 DEF Readers, Listed
  <2> QED
    BY <2>4, <2>5
<1>7. CASE ResolveArchivedRead
  <2>1. CASE deleted \/ ~dir \/ reader.parts = {}
    BY <1>5, <1>7, <2>1 DEF ResolveArchivedRead, Readers
  <2>2. CASE ~(deleted \/ ~dir \/ reader.parts = {})
    <3>1. reader' = [reader EXCEPT !.state = "pinned"] /\ reader.state = "captured"
      BY <1>7, <2>2 DEF ResolveArchivedRead
    <3>2. reader \in [state : {"none", "captured", "pinned"}, parts : SUBSET Parts]
      BY <1>1 DEF Shape
    <3>3. reader' \in [state : {"none", "captured", "pinned"}, parts : SUBSET Parts]
          /\ reader'.state = "pinned" /\ reader'.parts = reader.parts
      BY <3>1, <3>2, Zenon
    <3> QED
      BY <1>1, <1>2, <2>2, <3>1, <3>3 DEF Readers
  <2> QED
    BY <2>1, <2>2
<1>8. CASE ReaderReleases
  BY <1>5, <1>8, Zenon DEF ReaderReleases, Readers
<1> QED
  BY <1>6, <1>7, <1>8 DEF Reader

\* A failed step, and one that returns, leave the worker between two results.
LEMMA RestKeeps ==
  ASSUME IInv, AtRest, UNCHANGED <<local, markers, nas, lines, artifacts>>, faults' \in Nat,
         {pending', changed'} \subseteq BOOLEAN, reader' = reader \/ reader' = NoReader,
         pending' => dir \/ deleted, ~deleted => NothingStranded'
  PROVE  IInv'
<1> USE DEF local, markers, nas
<1>1. Shape /\ Places /\ Copying /\ Readers /\ (~deleted => Content /\ Listed /\ Transfer /\ Artifact /\ Covering)
  BY DEF IInv
<1>2. /\ work' \in Works /\ Valid(work'.man) /\ pc' = "idle" /\ work' = Idle
      /\ pc' \notin Importing \cup Moving \cup Copied \cup {"capture", "open", "upload", "rename", "commit",
                                                    "cleanup", "importing", "imported", "removed"}
  BY RestShape, Zenon DEF AtRest
<1>3. reader' \in [state : {"none", "captured", "pinned"}, parts : SUBSET Parts]
      /\ (reader' = reader \/ reader'.state = "none")
  BY <1>1 DEF Shape, NoReader
<1>4. Shape'
  BY <1>1, <1>2, <1>3, Zenon DEF Shape, TypeOK
<1>5. Places' /\ Readers'
  BY <1>1, <1>2, <1>3, Zenon DEF Places, Readers
<1>6. Copying'
  BY <1>1, <1>2 DEF Copying, OnNas
<1>7. ASSUME ~deleted' PROVE Content' /\ Listed' /\ Transfer' /\ Artifact' /\ Covering'
  <2>1. Content'
    BY <1>1, <1>2, <1>7 DEF Content
  <2>2. Listed'
    BY <1>1, <1>2, <1>7, Zenon DEF Listed
  <2>3. Transfer'
    BY <1>1, <1>2, <1>7, Zenon DEF Transfer, Copied
  <2>4. Artifact'
    BY <1>1, <1>2, <1>7, Zenon DEF Artifact, Copied
  <2>5. Covering'
    BY <1>1, <1>2, <1>7 DEF Covering, NothingStranded, Copied
  <2> QED
    BY <2>1, <2>2, <2>3, <2>4, <2>5, Zenon
<1> QED
  BY <1>4, <1>5, <1>6, <1>7 DEF IInv

LEMMA FaultsKeep == ASSUME IInv, Faults PROVE IInv'
<1>1. Shape /\ Places /\ (~deleted => NothingStranded)
  BY DEF IInv, Covering
<1>2. CASE WorkerFails
  <2>1. AtRest /\ UNCHANGED <<local, markers, nas, lines, artifacts>> /\ UNCHANGED <<queue, reader>>
        /\ faults' = faults + 1
    BY <1>2, Zenon DEF WorkerFails, AtRest
  <2>2. faults' \in Nat /\ {pending', changed'} \subseteq BOOLEAN /\ (pending' => dir \/ deleted)
    BY <1>1, <2>1 DEF Shape, TypeOK, Places, queue
  <2>3. ~deleted => NothingStranded'
    BY <1>1, <2>1 DEF NothingStranded, local, markers, queue
  <2> QED
    BY <2>1, <2>2, <2>3, RestKeeps
<1>3. CASE Restart
  <2>1. AtRest /\ UNCHANGED <<local, markers, nas, lines, artifacts>> /\ reader' = NoReader
        /\ faults' = faults + 1 /\ pending' = (dir /\ ~deleted) /\ changed' = FALSE
    BY <1>3 DEF Restart, AtRest
  <2>2. faults' \in Nat /\ {pending', changed'} \subseteq BOOLEAN /\ (pending' => dir \/ deleted)
    <3>1. pending' \in BOOLEAN /\ changed' \in BOOLEAN /\ (pending' => dir \/ deleted)
      BY <2>1, Zenon
    <3> QED
      BY <1>1, <2>1, <3>1 DEF Shape
  <2>3. ~deleted => NothingStranded'
    BY <1>1, <2>1, Zenon DEF NothingStranded, local, markers
  <2> QED
    BY <2>1, <2>2, <2>3, RestKeeps
<1> QED
  BY <1>2, <1>3, Zenon DEF Faults
-----------------------------------------------------------------------------
(* The worker: noting, capturing and opening *)

LEMMA NoteVersionKeeps == ASSUME IInv, NoteVersion PROVE IInv'
<1> USE DEF NoteVersion, local, markers, nas, history
<1>1. Shape /\ Places /\ Copying /\ Readers /\ (~deleted => Content /\ Listed /\ Transfer /\ Artifact /\ Covering)
  BY Zenon DEF IInv
<1>2. pc' = "capture" /\ work' = Idle /\ changed' = FALSE /\ pending'
  BY <1>1 DEF Shape, TypeOK
<1>3. Shape'
  BY <1>1, <1>2, Zenon DEF Shape, TypeOK
<1>4. Places' /\ Readers'
  BY <1>1, <1>2 DEF Places, Readers, Importing, Moving, Copied
<1>5. Copying'
  BY <1>1, <1>2, Zenon DEF Copying, OnNas, Importing
<1>6. ASSUME ~deleted' PROVE Content' /\ Listed' /\ Transfer' /\ Artifact' /\ Covering'
  <2>1. Content'
    BY <1>1, <1>2, <1>6, Zenon DEF Content
  <2>2. Listed'
    BY <1>1, <1>2, <1>6, Zenon DEF Listed
  <2>3. Transfer'
    BY <1>1, <1>2, <1>6, Zenon DEF Transfer, Copied
  <2>4. Artifact'
    BY <1>1, <1>2, <1>6, Zenon DEF Artifact, Copied
  <2>5. Covering'
    BY <1>1, <1>2, <1>6 DEF Covering, NothingStranded, Copied
  <2> QED
    BY <2>1, <2>2, <2>3, <2>4, <2>5, Zenon
<1> QED
  BY <1>3, <1>4, <1>5, <1>6 DEF IInv

LEMMA ReturnKeeps ==
  ASSUME IInv, NEW success \in BOOLEAN, Return(success), UNCHANGED <<local, markers, nas, reader, history>>,
         ~deleted => NothingStranded'
  PROVE  IInv'
<1>1. Shape /\ Places
  BY DEF IInv
<1>2. AtRest /\ changed' = changed /\ (pending' = FALSE \/ pending' = pending)
  BY DEF Return, AtRest
<1>3. UNCHANGED <<local, markers, nas, lines, artifacts>> /\ faults' \in Nat /\ reader' = reader
  BY <1>1 DEF Shape, history
<1>4. {pending', changed'} \subseteq BOOLEAN
  BY <1>1, <1>2, Zenon DEF Shape, TypeOK
<1>5. pending' => dir \/ deleted
  BY <1>1, <1>2, Zenon DEF Places
<1> QED
  BY <1>2, <1>3, <1>4, <1>5, RestKeeps

\* The tail is sealed under a name that no segment and no published part has.
LEMMA SealedContent ==
  ASSUME Shape, Content, tail # {}, tail' = {}, UNCHANGED <<published, lines>>,
         segs' = [s \in DOMAIN segs \cup {lines} |-> IF s = lines THEN tail ELSE segs[s]]
  PROVE  Content' /\ segs' \in SegmentMaps
<1>1. lines \in tail /\ tail \subseteq 1..lines /\ tail \in Lines /\ lines \in Segments
  BY Constants, Zenon DEF Content, Shape, TypeOK, Lines, Segments
<1>2. lines \notin DOMAIN segs /\ \A p \in published.logs : p.seg # lines
  BY <1>1 DEF Content
<1>3. DOMAIN segs' = DOMAIN segs \cup {lines} /\ segs'[lines] = tail /\ \A s \in DOMAIN segs : segs'[s] = segs[s]
  BY <1>2
<1>4. segs' \in SegmentMaps
  <2>1. segs \in [DOMAIN segs -> Lines] /\ DOMAIN segs \subseteq Segments
    BY SegmentMapsFacts DEF Shape
  <2>2. segs' \in [DOMAIN segs' -> Lines] /\ DOMAIN segs' \subseteq Segments
    BY <1>1, <1>3, <2>1
  <2> QED
    BY <2>2, SegmentMapsFacts
<1>5. ASSUME NEW s \in DOMAIN segs'
      PROVE  /\ s \in segs'[s] /\ segs'[s] \subseteq 1..lines /\ segs'[s] \cap tail' = {}
             /\ \A t \in DOMAIN segs' : s # t => segs'[s] \cap segs'[t] = {}
  BY <1>1, <1>3, Zenon DEF Content
<1>6. ASSUME NEW p \in published.logs
      PROVE  /\ p.seg \in p.data /\ p.data \subseteq 1..lines /\ p.data \cap tail' = {}
             /\ \A q \in published.logs : p # q => p.data \cap q.data = {}
             /\ \A s \in DOMAIN segs' : IF p.seg = s THEN p.data = segs'[s] ELSE p.data \cap segs'[s] = {}
  BY <1>2, <1>3 DEF Content
<1>7. \A l \in 1..lines : \/ \E s \in DOMAIN segs' : l \in segs'[s]
                          \/ \E p \in published.logs : l \in p.data
  BY <1>3 DEF Content
<1>8. Content'
  <2>1. lines' = lines /\ published' = published /\ tail' = {}
    OBVIOUS
  <2>2. tail' \subseteq 1..lines' /\ (tail' # {} => lines' \in tail')
    BY <2>1, Zenon
  <2>3. \A s \in DOMAIN segs' :
          /\ s \in segs'[s] /\ segs'[s] \subseteq 1..lines' /\ segs'[s] \cap tail' = {}
          /\ \A t \in DOMAIN segs' : s # t => segs'[s] \cap segs'[t] = {}
    BY <1>5, <2>1
  <2>4. \A p \in published'.logs :
          /\ p.seg \in p.data /\ p.data \subseteq 1..lines' /\ p.data \cap tail' = {}
          /\ \A q \in published'.logs : p # q => p.data \cap q.data = {}
          /\ \A s \in DOMAIN segs' : IF p.seg = s THEN p.data = segs'[s] ELSE p.data \cap segs'[s] = {}
    BY <1>6, <2>1, Zenon
  <2>5. \A l \in 1..lines' : \/ l \in tail'
                             \/ \E s \in DOMAIN segs' : l \in segs'[s]
                             \/ \E p \in published'.logs : l \in p.data
    BY <1>7, <2>1, Zenon
  <2> QED
    BY <2>2, <2>3, <2>4, <2>5, Zenon DEF Content
<1> QED
  BY <1>4, <1>8, Zenon

LEMMA CaptureKeeps == ASSUME IInv, Capture PROVE IInv'
<1>1. Shape /\ Places /\ Copying /\ Readers /\ (~deleted => Content /\ Listed /\ Transfer /\ Artifact /\ Covering)
  BY DEF IInv
<1>2. pc = "capture" /\ UNCHANGED <<markers, nas, reader, history>>
  BY DEF Capture
<1>3. CASE deleted \/ ~dir
  <2>1. Return(TRUE) /\ UNCHANGED local /\ deleted
    BY <1>1, <1>2, <1>3, Zenon DEF Capture, Places
  <2> QED
    BY <1>2, <2>1, ReturnKeeps, Zenon
<1>4. CASE ~(deleted \/ ~dir) /\ (importing \/ meta = 0)
  <2>1. Return(FALSE) /\ UNCHANGED local
    BY <1>4, Zenon DEF Capture
  <2>2. ~deleted => NothingStranded'
    BY <1>1, <1>2, <2>1 DEF Covering, NothingStranded, Return, local, markers
  <2> QED
    BY <1>2, <2>1, <2>2, ReturnKeeps, Zenon
<1>5. CASE ~(deleted \/ ~dir) /\ ~(importing \/ meta = 0)
  <2> DEFINE next == IF tail = {} THEN segs
                     ELSE [s \in DOMAIN segs \cup {lines} |-> IF s = lines THEN tail ELSE segs[s]]
  <2>1. /\ segs' = next /\ tail' = {} /\ indexed' = (indexed \/ tail # {})
        /\ work' = [Idle EXCEPT !.segs = next, !.meta = meta, !.art = art, !.man = manifest]
        /\ pc' = "open" /\ UNCHANGED <<dir, meta, art, manifest, importing, queue>>
    BY <1>5 DEF Capture
  <2>2. Content /\ Listed /\ Transfer /\ Artifact /\ Covering /\ ~deleted /\ dir /\ ~importing /\ meta # 0 /\ pending
    BY <1>1, <1>2, <1>5 DEF Places
  <2>3. Content' /\ segs' \in SegmentMaps /\ DOMAIN segs \subseteq DOMAIN segs'
    <3>1. CASE tail = {}
      BY <1>1, <1>2, <2>1, <2>2, <3>1 DEF Content, Shape, nas, history
    <3>2. CASE tail # {}
      BY <1>1, <1>2, <2>1, <2>2, <3>2, SealedContent DEF nas, history
    <3> QED
      BY <3>1, <3>2
  <2> HIDE DEF next
  <2>4. /\ work'.segs = segs' /\ work'.meta = meta /\ work'.art = art /\ work'.man = manifest
        /\ work' \in Works
    <3>1. Idle \in Works /\ next \in SegmentMaps
      BY <2>1, <2>3, IdleFacts, Zenon
    <3>2. meta \in Versions /\ art \in Versions /\ manifest \in Manifests
      BY <1>1 DEF Shape, TypeOK, Versions
    <3> QED
      BY <2>1, <3>1, <3>2, Zenon DEF Works
  <2>5. indexed' \in BOOLEAN /\ (~indexed' => ~indexed /\ tail = {})
    BY <2>1, Zenon
  <2>6. \A s \in DOMAIN segs' : s \in Segments /\ segs'[s] \subseteq 1..MaxLines
    BY <2>3, SegmentMapsFacts DEF Lines
  <2>7. Shape'
    BY <1>1, <1>2, <2>1, <2>3, <2>4, <2>5, <2>6 DEF Shape, TypeOK, markers, nas, history, queue
  <2>8. Places'
    <3>1. ~indexed' => DOMAIN segs' = {} /\ manifest' = EmptyManifest
      BY <1>1, <2>1, <2>5 DEF Places, next
    <3> QED
      BY <1>1, <1>2, <2>1, <2>2, <3>1 DEF Places, Importing, Moving, Copied, markers, nas, queue
  <2>9. Readers'
    BY <1>1, <1>2 DEF Readers, markers, nas
  <2>10. Copying'
    BY <1>1, <1>2, <2>1, <2>2, <2>4 DEF Copying, OnNas, Importing, Listed, nas
  <2>11. Listed'
    BY <1>2, <2>1, <2>2, <2>3 DEF Listed, nas
  <2>12. Transfer'
    BY <2>1, <2>4 DEF Transfer, Copied
  <2>13. Artifact'
    <3>1. artifacts \in Nat /\ 0 <= artifacts
      BY <1>1 DEF Shape, Versions
    <3> QED
      BY <1>2, <2>1, <2>2, <2>4, <2>5, <3>1 DEF Artifact, Copied, nas, history
  <2>14. Covering'
    BY <1>2, <2>1, <2>2, <2>4, Zenon DEF Covering, NothingStranded, Copied, markers, queue
  <2> QED
    BY <2>3, <2>7, <2>8, <2>9, <2>10, <2>11, <2>12, <2>13, <2>14 DEF IInv
<1> QED
  BY <1>3, <1>4, <1>5

\* What the worker starts from is what was published.
LEMMA MergedLogs ==
  ASSUME NEW man \in Manifests, published \in Manifests, Valid(published), man.logs \subseteq published.logs
  PROVE  /\ Merged(man) \in Manifests /\ Merged(man).logs = published.logs
         /\ Merged(man).meta = (IF man.meta = 0 THEN published.meta ELSE man.meta)
         /\ Merged(man).art = (IF man.art = 0 THEN published.art ELSE man.art)
<1> DEFINE known == {p.obj : p \in man.logs}
           logs == man.logs \cup {p \in published.logs : p.obj \notin known}
           mmeta == IF man.meta = 0 THEN published.meta ELSE man.meta
           mart == IF man.art = 0 THEN published.art ELSE man.art
<1>1. Merged(man) = [logs |-> logs, meta |-> mmeta, art |-> mart]
  BY DEF Merged
<1>2. logs = published.logs
  <2>1. ASSUME NEW p \in published.logs, p.obj \in known PROVE p \in man.logs
    BY <2>1, Zenon DEF Valid
  <2> QED
    BY <2>1
<1>3. mmeta \in Versions /\ mart \in Versions /\ logs \in SUBSET Parts
  BY <1>2, Zenon DEF Manifests
<1> HIDE DEF logs, mmeta, mart
<1>4. Merged(man) \in Manifests
  BY <1>1, <1>3 DEF Manifests
<1> QED
  BY <1>1, <1>2, <1>4 DEF mmeta, mart

LEMMA FileNames == ArtFile \notin 0..MaxLines /\ MetaFile \notin 0..MaxLines /\ ArtFile # MetaFile /\ FirstLog \notin Segments
  BY Constants DEF ArtFile, MetaFile, FirstLog, Segments

LEMMA OpenArchiveKeeps == ASSUME IInv, OpenArchive PROVE IInv'
<1> DEFINE man == work.man
           files == {f \in {ArtFile} : work.art # 0 /\ man.art # work.art} \cup {f \in {MetaFile} : man.meta # work.meta}
           kept == {f \in {ArtFile} : work.art # 0 /\ man.art = work.art}
           merged == Merged(man)
           known == {s \in DOMAIN work.segs : s \in KnownSegments(merged)}
           todo == files \cup (DOMAIN work.segs \ known)
<1>1. Shape /\ Places /\ Copying /\ Readers /\ (~deleted => Content /\ Listed /\ Transfer /\ Artifact /\ Covering)
  BY DEF IInv
<1>2. pc = "open" /\ UNCHANGED <<local, markers, reader, history>>
  BY DEF OpenArchive
<1>3. CASE files = {} /\ kept = {} /\ DOMAIN work.segs = {}
  <2>1. Return(TRUE) /\ UNCHANGED nas
    BY <1>3, Zenon DEF OpenArchive
  <2>2. work.art = 0 /\ man.meta = work.meta
    BY <1>3
  <2>3. ASSUME ~deleted PROVE NothingStranded'
    <3>1. work.segs = segs /\ work.man = manifest /\ pending /\ changed \in BOOLEAN
      BY <1>1, <1>2, <2>3 DEF Transfer, Places, Moving, Copied, Shape, TypeOK
    <3>2. CASE changed
      BY <2>1, <3>1, <3>2 DEF Return, NothingStranded
    <3>3. CASE ~changed
      <4>1. tail = {} /\ meta = work.meta /\ art = 0 /\ DOMAIN segs = {} /\ manifest.meta = meta
        BY <1>1, <1>2, <1>3, <2>2, <2>3, <3>1, <3>3 DEF Covering
      <4> QED
        BY <1>2, <4>1, Zenon DEF NothingStranded, local
    <3> QED
      BY <3>2, <3>3, Zenon
  <2> QED
    BY <1>2, <2>1, <2>3, ReturnKeeps, Zenon
<1>4. CASE ~(files = {} /\ kept = {} /\ DOMAIN work.segs = {})
  <2>1. /\ work' = [work EXCEPT !.man = merged, !.todo = todo, !.cleanup = kept \cup known,
                                !.reused = kept \cup known, !.fresh = (remote # "published")]
        /\ remote' = IF remote = "none" THEN "incoming" ELSE remote
        /\ pc' = "upload" /\ UNCHANGED <<objects, published, queue>>
    BY <1>4, Zenon DEF OpenArchive
  <2>2. man \in Manifests /\ man.logs \subseteq published.logs /\ published \in Manifests /\ Valid(published)
    BY <1>1, <1>2, Zenon DEF Shape, Works, Copying
  <2>3. /\ merged \in Manifests /\ merged.logs = published.logs
        /\ merged.meta = (IF man.meta = 0 THEN published.meta ELSE man.meta)
        /\ merged.art = (IF man.art = 0 THEN published.art ELSE man.art)
    BY <2>2, MergedLogs
  <2> HIDE DEF man, merged
  <2>4. work.segs \in SegmentMaps /\ DOMAIN work.segs \subseteq Segments /\ work \in Works
    BY <1>1, SegmentMapsFacts, Zenon DEF Shape, Works
  <2>5. todo \in SUBSET Files /\ kept \cup known \in SUBSET Files
    BY <2>4 DEF Files
  <2> HIDE DEF kept, known, todo
  <2>6. (remote # "published") \in BOOLEAN
    BY Zenon
  <2>7. /\ work' \in Works /\ work'.man = merged /\ work'.todo = todo /\ work'.cleanup = kept \cup known
        /\ work'.fresh = (remote # "published") /\ work'.segs = work.segs /\ work'.meta = work.meta /\ work'.art = work.art
    BY <2>1, <2>3, <2>4, <2>5, <2>6, Zenon DEF Works
  <2>8. remote' \in {"none", "incoming", "published"} /\ (remote = "published" => remote' = "published")
        /\ (remote # "published" <=> remote' # "published")
    BY <1>1, <2>1 DEF Shape, TypeOK
  <2>9. Shape'
    BY <1>1, <1>2, <2>1, <2>7, <2>8 DEF Shape, TypeOK, local, markers, history, queue
  <2>10. Places'
    BY <1>1, <1>2, <2>1, <2>8 DEF Places, Importing, Moving, Copied, local, markers, queue
  <2>11. Readers'
    BY <1>1, <1>2, <2>1, <2>8, Zenon DEF Readers, markers
  <2>12. KnownSegments(work'.man) = KnownSegments(merged) /\ Valid(merged)
    BY <2>2, <2>3, <2>7 DEF Valid, KnownSegments
  <2>13. todo \cap KnownSegments(merged) = {}
    <3>1. KnownSegments(merged) \subseteq Segments
      BY <2>3 DEF KnownSegments, Manifests, Parts
    <3>2. Segments \subseteq 0..MaxLines
      BY DEF Segments
    <3> QED
      BY <3>1, <3>2, FileNames, Zenon DEF todo, known
  <2>14. todo \subseteq DOMAIN work.segs \cup {ArtFile, MetaFile} /\ (ArtFile \in todo => work.art # 0)
    <3>1. ArtFile \notin DOMAIN work.segs
      BY <2>4, FileNames DEF Segments
    <3> QED
      BY <3>1, FileNames, Zenon DEF todo
  <2>15. Copying'
    <3>1. objects' = objects /\ published' = published /\ manifest' = manifest
      BY <1>2, <2>1, Zenon DEF local
    <3>2. \A p \in published.logs : OnNas(p)'
      BY <1>1, <3>1 DEF Copying, OnNas
    <3> QED
      BY <1>1, <1>2, <2>1, <2>3, <2>7, <2>12, <2>13, <2>14, <3>1, <3>2 DEF Copying, Importing
  <2>16. ASSUME ~deleted' PROVE Content' /\ Listed' /\ Transfer' /\ Artifact' /\ Covering'
    <3>1. ~deleted /\ Content /\ Listed /\ Transfer /\ Artifact /\ Covering
      BY <1>1, <1>2, <2>16, Zenon DEF markers
    <3>2. man = manifest /\ work.segs = segs /\ dir /\ pending /\ ~importing /\ meta # 0
      BY <1>1, <1>2, <3>1 DEF Transfer, Places, Moving, Copied, man
    <3>3. Content' /\ Listed'
      BY <1>2, <2>1, <2>8, <3>1 DEF Content, Listed, local, history
    <3>4. known \subseteq KnownSegments(merged) /\ kept \subseteq {ArtFile}
          /\ (ArtFile \in kept \cup known => work.art # 0 /\ man.art = work.art)
      <4>1. ArtFile \notin known
        BY <2>4, FileNames DEF Segments, known
      <4> QED
        BY <4>1, Zenon DEF known, kept
    <3>5. Transfer'
      <4>1. work'.fresh \/ remote' = "published"
        BY <2>7, <2>8, Zenon
      <4>2. work'.cleanup \ {ArtFile} \subseteq KnownSegments(work'.man)
        BY <2>7, <2>12, <3>4
      <4>3. work'.segs = segs' /\ work'.man.logs = published'.logs
        BY <1>2, <2>1, <2>3, <2>7, <3>2 DEF local
      <4> QED
        BY <2>1, <4>1, <4>2, <4>3 DEF Transfer, Copied
    <3>6. Artifact'
      <4>1. {manifest.art, published.art} \subseteq objects.arts \cup {0} /\ published.art <= artifacts /\ manifest.art <= artifacts
        BY <3>1, Zenon DEF Artifact
      <4>2. merged.art \in objects.arts \cup {0} /\ merged.art <= artifacts
        BY <2>3, <3>2, <4>1, Zenon
      <4>3. ASSUME art = 0 PROVE work.art = 0 /\ merged.art = manifest.art
        <5>1. manifest.art = artifacts /\ work.art = 0
          BY <1>2, <3>1, <3>2, <4>3 DEF Artifact
        <5>2. published.art \in Nat
          BY <1>1 DEF Shape, Manifests, Versions
        <5> QED
          BY <2>3, <3>2, <4>1, <5>1, <5>2
      <4>4. ArtFile \in work'.cleanup => work'.art # 0 /\ work'.man.art = work'.art
        BY <2>3, <2>7, <3>4
      <4> QED
        BY <1>2, <2>1, <2>7, <3>1, <4>2, <4>3, <4>4, Zenon DEF Artifact, Copied, local, history
    <3>7. Covering'
      <4>1. DOMAIN segs \subseteq (kept \cup known) \cup todo
        BY <3>2 DEF todo
      <4>2. work.art # 0 => ArtFile \in (kept \cup known) \cup todo
        BY Zenon DEF kept, todo
      <4>3. work.meta # 0
        BY <1>2, <3>1, Zenon DEF Covering
      <4>4. merged.meta = work.meta \/ MetaFile \in todo
        BY <2>3, <4>3 DEF todo
      <4>5. NothingStranded'
        BY <1>2, <2>1, <3>2, Zenon DEF NothingStranded, queue
      <4> QED
        BY <1>2, <2>1, <2>7, <3>1, <4>1, <4>2, <4>3, <4>4, <4>5 DEF Covering, Copied, local, queue
    <3> QED
      BY <3>3, <3>5, <3>6, <3>7
  <2> QED
    BY <2>9, <2>10, <2>11, <2>15, <2>16 DEF IInv
<1> QED
  BY <1>3, <1>4
-----------------------------------------------------------------------------
(* The worker: copying *)

\* What a step that copies a file leaves alone.
LEMMA CopyKeeps ==
  ASSUME IInv, pc = "upload", UNCHANGED <<local, markers, remote, published, queue, pc, reader, history>>,
         work' \in Works, objects' \in [logs : LogMaps, meta : Versions, arts : SUBSET Versions],
         Copying', ~deleted => Transfer' /\ Artifact' /\ Covering'
  PROVE  IInv'
<1> USE DEF local, markers, queue, history
<1>1. Shape /\ Places /\ Readers /\ (~deleted => Content /\ Listed)
  BY Zenon DEF IInv
<1>2. Shape'
  BY <1>1, Zenon DEF Shape, TypeOK
<1>3. Places' /\ Readers'
  BY <1>1 DEF Places, Readers, Importing, Moving, Copied
<1>4. ~deleted => Content' /\ Listed'
  BY <1>1, Zenon DEF Content, Listed
<1> QED
  BY <1>2, <1>3, <1>4 DEF IInv

LEMMA UploadArtifactKeeps ==
  ASSUME IInv, pc = "upload", UNCHANGED <<local, markers, remote, published, queue, pc, reader, history>>,
         ArtFile \in work.todo, UploadArtifact
  PROVE  IInv'
<1> USE DEF local, markers, queue, history
<1>1. Shape /\ Places /\ Copying /\ Readers /\ (~deleted => Content /\ Listed /\ Transfer /\ Artifact /\ Covering)
  BY DEF IInv
<1>2. /\ objects' = [objects EXCEPT !.arts = @ \cup {work.art}]
      /\ work' = [work EXCEPT !.todo = @ \ {ArtFile}, !.cleanup = @ \cup {ArtFile}, !.man.art = work.art]
  BY Zenon DEF UploadArtifact
<1>3. /\ work \in Works /\ work.man \in Manifests /\ work.art \in Versions
      /\ objects \in [logs : LogMaps, meta : Versions, arts : SUBSET Versions]
  BY <1>1 DEF Shape, Works
<1>4. PICK m : m = [work.man EXCEPT !.art = work.art]
  BY Zenon
<1>5. m \in Manifests /\ m.logs = work.man.logs /\ m.meta = work.man.meta /\ m.art = work.art
  BY <1>3, <1>4 DEF Manifests
<1>6. work' = [work EXCEPT !.todo = @ \ {ArtFile}, !.cleanup = @ \cup {ArtFile}, !.man = m]
  BY <1>2, <1>4
<1>7. /\ work' \in Works /\ work'.man = m /\ work'.todo = work.todo \ {ArtFile} /\ work'.cleanup = work.cleanup \cup {ArtFile}
      /\ work'.segs = work.segs /\ work'.meta = work.meta /\ work'.art = work.art /\ work'.fresh = work.fresh
  BY <1>3, <1>5, <1>6, Zenon DEF Works, Files
<1>8. /\ objects' \in [logs : LogMaps, meta : Versions, arts : SUBSET Versions]
      /\ objects'.logs = objects.logs /\ objects'.arts = objects.arts \cup {work.art}
  BY <1>2, <1>3, Zenon
<1>9. KnownSegments(m) = KnownSegments(work.man) /\ (Valid(work.man) => Valid(m))
  BY <1>5, Zenon DEF KnownSegments, Valid
<1>10. \A p : OnNas(p) <=> OnNas(p)'
  BY <1>8 DEF OnNas
<1>11. Copying'
  BY <1>1, <1>5, <1>7, <1>9, <1>10, Zenon DEF Copying, Importing
<1>12. ASSUME ~deleted PROVE Transfer' /\ Artifact' /\ Covering'
  <2>1. Transfer'
    BY <1>1, <1>5, <1>7, <1>9, <1>12, Zenon DEF Transfer, Copied
  <2>2. work.art # 0 /\ (art = 0 => work.art = 0) /\ work.art <= artifacts
    BY <1>1, <1>12, Zenon DEF Copying, Artifact, Copied
  <2>3. Artifact'
    BY <1>1, <1>5, <1>7, <1>8, <1>12, <2>2, Zenon DEF Artifact, Copied
  <2>4. Covering'
    BY <1>1, <1>5, <1>7, <1>12, FileNames DEF Covering, Copied, NothingStranded
  <2> QED
    BY <2>1, <2>3, <2>4
<1> QED
  BY <1>7, <1>8, <1>11, <1>12, CopyKeeps, Zenon

LEMMA UploadMetadataKeeps ==
  ASSUME IInv, pc = "upload", UNCHANGED <<local, markers, remote, published, queue, pc, reader, history>>,
         UploadMetadata
  PROVE  IInv'
<1> USE DEF local, markers, queue, history
<1>1. Shape /\ Places /\ Copying /\ Readers /\ (~deleted => Content /\ Listed /\ Transfer /\ Artifact /\ Covering)
  BY DEF IInv
<1>2. /\ objects' = [objects EXCEPT !.meta = work.meta]
      /\ work' = [work EXCEPT !.todo = @ \ {MetaFile}, !.man.meta = work.meta]
  BY Zenon DEF UploadMetadata
<1>3. /\ work \in Works /\ work.man \in Manifests /\ work.meta \in Versions
      /\ objects \in [logs : LogMaps, meta : Versions, arts : SUBSET Versions]
  BY <1>1 DEF Shape, Works
<1>4. PICK m : m = [work.man EXCEPT !.meta = work.meta]
  BY Zenon
<1>5. m \in Manifests /\ m.logs = work.man.logs /\ m.meta = work.meta /\ m.art = work.man.art
  BY <1>3, <1>4 DEF Manifests
<1>6. work' = [work EXCEPT !.todo = @ \ {MetaFile}, !.man = m]
  BY <1>2, <1>4
<1>7. /\ work' \in Works /\ work'.man = m /\ work'.todo = work.todo \ {MetaFile} /\ work'.cleanup = work.cleanup
      /\ work'.segs = work.segs /\ work'.meta = work.meta /\ work'.art = work.art /\ work'.fresh = work.fresh
  BY <1>3, <1>5, <1>6, Zenon DEF Works
<1>8. /\ objects' \in [logs : LogMaps, meta : Versions, arts : SUBSET Versions]
      /\ objects'.logs = objects.logs /\ objects'.arts = objects.arts
  BY <1>2, <1>3
<1>9. KnownSegments(m) = KnownSegments(work.man) /\ (Valid(work.man) => Valid(m))
  BY <1>5, Zenon DEF KnownSegments, Valid
<1>10. \A p : OnNas(p) <=> OnNas(p)'
  BY <1>8 DEF OnNas
<1>11. Copying'
  BY <1>1, <1>5, <1>7, <1>9, <1>10, Zenon DEF Copying, Importing
<1>12. ASSUME ~deleted PROVE Transfer' /\ Artifact' /\ Covering'
  <2>1. Transfer'
    BY <1>1, <1>5, <1>7, <1>9, <1>12, Zenon DEF Transfer, Copied
  <2>2. Artifact'
    BY <1>1, <1>5, <1>7, <1>8, <1>12, Zenon DEF Artifact, Copied
  <2>3. MetaFile \notin DOMAIN segs
    BY <1>1, SegmentMapsFacts, FileNames DEF Shape, Segments
  <2>4. Covering'
    BY <1>1, <1>5, <1>7, <1>12, <2>3, FileNames, Zenon DEF Covering, Copied, NothingStranded
  <2> QED
    BY <2>1, <2>2, <2>4
<1> QED
  BY <1>7, <1>8, <1>11, <1>12, CopyKeeps, Zenon

\* A segment gets an object that no part has, and a part that no other has.
LEMMA UploadSegmentKeeps ==
  ASSUME IInv, pc = "upload", UNCHANGED <<local, markers, remote, published, queue, pc, reader, history>>,
         NEW s \in work.todo \ {ArtFile, MetaFile}, UploadSegment(s)
  PROVE  IInv'
<1> USE DEF local, markers, queue, history
<1>1. Shape /\ Places /\ Copying /\ Readers /\ (~deleted => Content /\ Listed /\ Transfer /\ Artifact /\ Covering)
  BY Zenon DEF IInv
<1>2. PICK obj : obj = IF work.man.logs = {} THEN FirstLog ELSE s
  BY Zenon
<1>3. PICK part : part = [obj |-> obj, seg |-> s, data |-> work.segs[s]]
  BY Zenon
<1>4. /\ objects' = [objects EXCEPT !.logs = [o \in DOMAIN @ \cup {obj} |-> IF o = obj THEN work.segs[s] ELSE @[o]]]
      /\ work' = [work EXCEPT !.todo = @ \ {s}, !.cleanup = @ \cup {s}, !.man.logs = @ \cup {part}]
  BY <1>2, <1>3, Zenon DEF UploadSegment
<1>5. /\ work \in Works /\ work.man \in Manifests /\ work.segs \in SegmentMaps
      /\ objects \in [logs : LogMaps, meta : Versions, arts : SUBSET Versions]
  BY <1>1, Zenon DEF Shape, Works
<1>6. s \in DOMAIN work.segs /\ s \in Segments /\ work.segs[s] \in Lines /\ s \notin KnownSegments(work.man)
  BY <1>1, <1>5, SegmentMapsFacts, Zenon DEF Copying
<1>7. obj \in 0..MaxLines
  <2>1. FirstLog \in 0..MaxLines /\ Segments \subseteq 0..MaxLines
    BY Constants DEF FirstLog, Segments
  <2>2. obj = FirstLog \/ obj = s
    BY <1>2, Zenon
  <2> QED
    BY <1>6, <2>1, <2>2, Zenon
<1>8. part \in Parts /\ part.obj = obj /\ part.seg = s /\ part.data = work.segs[s]
  BY <1>3, <1>6, <1>7 DEF Parts
<1>9. PICK m : m = [work.man EXCEPT !.logs = @ \cup {part}]
  BY Zenon
<1>10. m \in Manifests /\ m.logs = work.man.logs \cup {part} /\ m.meta = work.man.meta /\ m.art = work.man.art
  BY <1>5, <1>8, <1>9 DEF Manifests
<1>11. work' = [work EXCEPT !.todo = @ \ {s}, !.cleanup = @ \cup {s}, !.man = m]
  BY <1>4, <1>9
<1>12. /\ work' \in Works /\ work'.man = m /\ work'.todo = work.todo \ {s} /\ work'.cleanup = work.cleanup \cup {s}
       /\ work'.segs = work.segs /\ work'.meta = work.meta /\ work'.art = work.art /\ work'.fresh = work.fresh
  BY <1>5, <1>6, <1>10, <1>11, Zenon DEF Works, Files
<1>13. PICK logs : logs = [o \in DOMAIN objects.logs \cup {obj} |-> IF o = obj THEN work.segs[s] ELSE objects.logs[o]]
  BY Zenon
<1>14. DOMAIN logs = DOMAIN objects.logs \cup {obj} /\ logs[obj] = work.segs[s]
       /\ \A o \in DOMAIN objects.logs \ {obj} : logs[o] = objects.logs[o]
  BY <1>13, Zenon
<1>15. logs \in LogMaps
  <2>1. objects.logs \in [DOMAIN objects.logs -> Lines] /\ DOMAIN objects.logs \subseteq 0..MaxLines
    BY <1>5, LogMapsFacts, Zenon
  <2>2. logs \in [DOMAIN logs -> Lines] /\ DOMAIN logs \subseteq 0..MaxLines
    BY <1>6, <1>7, <1>13, <1>14, <2>1
  <2> QED
    BY <2>2, LogMapsFacts, Zenon
<1>16. objects' = [objects EXCEPT !.logs = logs]
  BY <1>4, <1>13
<1>17. /\ objects' \in [logs : LogMaps, meta : Versions, arts : SUBSET Versions]
       /\ objects'.logs = logs /\ objects'.arts = objects.arts
  BY <1>5, <1>15, <1>16, Zenon
<1>18. \A p \in work.man.logs : p.obj # obj /\ p.seg # s
  <2>1. ASSUME NEW p \in work.man.logs PROVE p.obj # obj /\ p.seg # s
    <3>1. obj = s /\ p.seg # s
      BY <1>2, <1>6, <2>1, Zenon DEF KnownSegments
    <3>2. p.obj = FirstLog \/ p.obj = p.seg
      BY <1>1, Zenon DEF Copying, Valid
    <3> QED
      BY <1>6, <3>1, <3>2, FileNames
  <2> QED
    BY <2>1, Zenon
<1>19. \A p \in m.logs : OnNas(p)'
  <2>1. ASSUME NEW p \in work.man.logs PROVE OnNas(p)'
    BY <1>1, <1>14, <1>17, <1>18, Zenon DEF Copying, OnNas
  <2>2. OnNas(part)'
    BY <1>8, <1>14, <1>17, Zenon DEF OnNas
  <2> QED
    BY <1>10, <2>1, <2>2
<1>20. Valid(m)
  <2>1. Valid(work.man) /\ (obj = FirstLog \/ obj = s)
    BY <1>1, <1>2, Zenon DEF Copying
  <2> QED
    BY <1>8, <1>10, <1>18, <2>1 DEF Valid
<1>21. KnownSegments(m) = KnownSegments(work.man) \cup {s}
  BY <1>8, <1>10, Zenon DEF KnownSegments
<1>22. published.logs \subseteq m.logs /\ \A p \in published.logs : OnNas(p)'
  BY <1>1, <1>10, <1>19 DEF Copying
<1>23. Copying'
  BY <1>1, <1>12, <1>19, <1>20, <1>21, <1>22, Zenon DEF Copying, Importing
<1>24. ASSUME ~deleted PROVE Transfer' /\ Artifact' /\ Covering'
  <2>1. part.seg \in DOMAIN segs /\ part.data = segs[part.seg]
    BY <1>1, <1>6, <1>8, <1>24, Zenon DEF Transfer, Copied
  <2>2. Transfer'
    BY <1>1, <1>10, <1>12, <1>21, <1>24, <2>1, Zenon DEF Transfer, Copied
  <2>3. s # ArtFile /\ s # MetaFile
    OBVIOUS
  <2>4. Artifact'
    BY <1>1, <1>10, <1>12, <1>17, <1>24, <2>3, Zenon DEF Artifact, Copied
  <2>5. Covering'
    BY <1>1, <1>10, <1>12, <1>24, <2>3, Zenon DEF Covering, Copied, NothingStranded
  <2> QED
    BY <2>2, <2>4, <2>5, Zenon
<1> QED
  BY <1>12, <1>17, <1>23, <1>24, CopyKeeps, Zenon

LEMMA CopyArchiveFileKeeps == ASSUME IInv, CopyArchiveFile PROVE IInv'
<1>1. pc = "upload" /\ UNCHANGED <<local, markers, remote, published, queue, pc, reader, history>>
  BY Zenon DEF CopyArchiveFile
<1>2. CASE ArtFile \in work.todo
  <2>1. UploadArtifact
    BY <1>2, Zenon DEF CopyArchiveFile
  <2> QED
    BY <1>1, <1>2, <2>1, UploadArtifactKeeps, Zenon
<1>3. CASE ArtFile \notin work.todo /\ work.todo \ {ArtFile, MetaFile} # {}
  <2>1. PICK s \in work.todo \ {ArtFile, MetaFile} : UploadSegment(s)
    BY <1>3 DEF CopyArchiveFile
  <2> QED
    BY <1>1, <2>1, UploadSegmentKeeps, Zenon
<1>4. CASE ArtFile \notin work.todo /\ work.todo \ {ArtFile, MetaFile} = {}
  <2>1. UploadMetadata
    BY <1>4 DEF CopyArchiveFile
  <2> QED
    BY <1>1, <2>1, UploadMetadataKeeps, Zenon
<1> QED
  BY <1>2, <1>3, <1>4
-----------------------------------------------------------------------------
(* The worker: publishing, recording and unlinking *)

\* A part that is published is one that was, or a local segment.
LEMMA PublishedContent ==
  ASSUME Content, NEW logs, Valid([logs |-> logs]), published.logs \subseteq logs, published'.logs = logs,
         UNCHANGED <<tail, segs, lines>>,
         \A p \in logs : p \in published.logs \/ (p.seg \in DOMAIN segs /\ p.data = segs[p.seg])
  PROVE  Content'
<1>1. \A p, q \in logs : p.obj = q.obj \/ p.seg = q.seg => p = q
  BY Zenon DEF Valid
<1>2. ASSUME NEW p \in logs
      PROVE  /\ p.seg \in p.data /\ p.data \subseteq 1..lines /\ p.data \cap tail = {}
             /\ \A s \in DOMAIN segs : IF p.seg = s THEN p.data = segs[s] ELSE p.data \cap segs[s] = {}
  BY DEF Content
<1>3. ASSUME NEW p \in logs, NEW q \in logs, p # q PROVE p.data \cap q.data = {}
  <2>1. p.seg # q.seg
    BY <1>1, <1>3, Zenon
  <2>2. CASE p \in published.logs /\ q \in published.logs
    BY <1>3, <2>2, Zenon DEF Content
  <2>3. CASE p \notin published.logs
    BY <1>2, <2>1, <2>3, Zenon
  <2>4. CASE q \notin published.logs
    BY <1>2, <2>1, <2>4, Zenon
  <2> QED
    BY <2>2, <2>3, <2>4, Zenon
<1>4. tail' \subseteq 1..lines' /\ (tail' # {} => lines' \in tail')
  BY Zenon DEF Content
<1>5. \A s \in DOMAIN segs' :
        /\ s \in segs'[s] /\ segs'[s] \subseteq 1..lines' /\ segs'[s] \cap tail' = {}
        /\ \A t \in DOMAIN segs' : s # t => segs'[s] \cap segs'[t] = {}
  BY Zenon DEF Content
<1>6. \A p \in published'.logs :
        /\ p.seg \in p.data /\ p.data \subseteq 1..lines' /\ p.data \cap tail' = {}
        /\ \A q \in published'.logs : p # q => p.data \cap q.data = {}
        /\ \A s \in DOMAIN segs' : IF p.seg = s THEN p.data = segs'[s] ELSE p.data \cap segs'[s] = {}
  BY <1>2, <1>3
<1>7. \A l \in 1..lines' : \/ l \in tail'
                           \/ \E s \in DOMAIN segs' : l \in segs'[s]
                           \/ \E p \in published'.logs : l \in p.data
  BY Zenon DEF Content
<1> QED
  BY <1>4, <1>5, <1>6, <1>7, Zenon DEF Content

LEMMA PublishRemoteKeeps == ASSUME IInv, PublishRemote PROVE IInv'
<1>1. Shape /\ Places /\ Copying /\ Readers /\ (~deleted => Content /\ Listed /\ Transfer /\ Artifact /\ Covering)
  BY DEF IInv
<1>2. /\ pc = "upload" /\ work.todo = {} /\ published' = work.man
      /\ pc' = IF work.fresh THEN "rename" ELSE "commit"
      /\ UNCHANGED <<local, markers, remote, objects, queue, work, reader, history>>
  BY Zenon DEF PublishRemote
<1> USE DEF local, markers, queue, history
<1>3. work \in Works /\ work.man \in Manifests /\ pc' \in {"rename", "commit"} /\ (pc' = "commit" => ~work.fresh)
  BY <1>1, <1>2, Zenon DEF Shape, Works
<1>4. published.logs \subseteq work.man.logs /\ \A p \in work.man.logs : OnNas(p)
  BY <1>1, <1>2, Zenon DEF Copying
<1>5. Shape'
  <2>1. {published'.meta, published'.art} \subseteq 0..MaxVersions
    BY <1>2, <1>3, Zenon DEF Manifests, Versions
  <2> QED
    BY <1>1, <1>2, <1>3, <2>1, Zenon DEF Shape, TypeOK
<1>6. Places'
  BY <1>1, <1>2, <1>3 DEF Places, Importing, Moving, Copied
<1>7. Readers'
  BY <1>1, <1>2, <1>4, Zenon DEF Readers
<1>8. Copying'
  <2>1. \A p \in work.man.logs : OnNas(p)'
    BY <1>2, <1>4 DEF OnNas
  <2> QED
    BY <1>1, <1>2, <1>3, <2>1, Zenon DEF Copying, Importing
<1>9. ASSUME ~deleted' PROVE Content' /\ Listed' /\ Transfer' /\ Artifact' /\ Covering'
  <2>1. ~deleted /\ Content /\ Listed /\ Transfer /\ Artifact /\ Covering
    BY <1>1, <1>2, <1>9, Zenon
  <2>2. \A p \in work.man.logs : p \in published.logs \/ (p.seg \in DOMAIN segs /\ p.data = segs[p.seg])
    BY <1>2, <2>1, Zenon DEF Transfer, Copied
  <2>3. Content'
    <3>1. Valid([logs |-> work.man.logs]) /\ published'.logs = work.man.logs
      BY <1>1, <1>2, Zenon DEF Copying, Valid
    <3> QED
      BY <1>2, <1>4, <2>1, <2>2, <3>1, PublishedContent
  <2>4. Listed'
    BY <1>2, <1>4, <2>1, <2>2, Zenon DEF Listed
  <2>5. Transfer'
    <3>1. work.fresh \/ remote = "published"
      BY <1>2, <2>1, Zenon DEF Transfer
    <3>2. work.cleanup \ {ArtFile} \subseteq KnownSegments(work.man) /\ work.segs = segs
      BY <1>2, <2>1, Zenon DEF Transfer, Copied
    <3> QED
      BY <1>2, <1>3, <3>1, <3>2, Zenon DEF Transfer, Copied
  <2>6. Artifact'
    <3>1. /\ art = 0 => work.art = 0 /\ work.man.art = manifest.art
          /\ work.art <= artifacts
          /\ work.man.art \in objects.arts \cup {0} /\ work.man.art <= artifacts
          /\ ArtFile \in work.cleanup => work.art # 0 /\ work.man.art = work.art
      BY <1>2, <2>1, Zenon DEF Artifact, Copied
    <3>2. ~indexed => art = artifacts
      BY <1>1, <1>2, <2>1, Zenon DEF Artifact, Places, Moving, Copied
    <3> QED
      BY <1>2, <1>3, <2>1, <3>1, <3>2 DEF Artifact
  <2>7. Covering'
    <3>1. pc \in Copied /\ pc' \in Copied /\ pc' # "cleanup"
      BY <1>2, <1>3, Zenon DEF Copied
    <3> QED
      BY <1>2, <2>1, <3>1, Zenon DEF Covering, NothingStranded
  <2> QED
    BY <2>3, <2>4, <2>5, <2>6, <2>7, Zenon
<1> QED
  BY <1>5, <1>6, <1>7, <1>8, <1>9 DEF IInv

LEMMA PublishDirectoryKeeps == ASSUME IInv, PublishDirectory PROVE IInv'
<1>1. Shape /\ Places /\ Copying /\ Readers /\ (~deleted => Content /\ Listed /\ Transfer /\ Artifact /\ Covering)
  BY DEF IInv
<1>2. /\ pc = "rename" /\ pc' = "commit" /\ remote' = "published"
      /\ UNCHANGED <<local, markers, objects, published, queue, work, reader, history>>
  BY DEF PublishDirectory
<1> USE DEF local, markers, queue, history
<1>3. Shape'
  BY <1>1, <1>2, Zenon DEF Shape, TypeOK
<1>4. Places' /\ Readers'
  BY <1>1, <1>2, Zenon DEF Places, Readers, Importing, Moving, Copied
<1>5. Copying'
  BY <1>1, <1>2, Zenon DEF Copying, OnNas, Importing
<1>6. ASSUME ~deleted' PROVE Content' /\ Listed' /\ Transfer' /\ Artifact' /\ Covering'
  <2>1. Content'
    BY <1>1, <1>2, <1>6, Zenon DEF Content
  <2>2. Listed'
    BY <1>1, <1>2, <1>6, Zenon DEF Listed
  <2>3. Transfer'
    BY <1>1, <1>2, <1>6, Zenon DEF Transfer, Copied
  <2>4. Artifact'
    BY <1>1, <1>2, <1>6, Zenon DEF Artifact, Copied
  <2>5. Covering'
    BY <1>1, <1>2, <1>6 DEF Covering, NothingStranded, Copied
  <2> QED
    BY <2>1, <2>2, <2>3, <2>4, <2>5
<1> QED
  BY <1>3, <1>4, <1>5, <1>6 DEF IInv

LEMMA CommitLocalKeeps == ASSUME IInv, CommitLocal PROVE IInv'
<1>1. Shape /\ Places /\ Copying /\ Readers /\ (~deleted => Content /\ Listed /\ Transfer /\ Artifact /\ Covering)
  BY DEF IInv
<1>2. pc = "commit" /\ UNCHANGED <<markers, nas, reader, history>>
  BY DEF CommitLocal
<1>3. CASE deleted \/ ~dir
  <2>1. Return(TRUE) /\ UNCHANGED local /\ deleted
    BY <1>1, <1>2, <1>3, Zenon DEF CommitLocal, Places, Moving, Copied
  <2> QED
    BY <1>2, <2>1, ReturnKeeps, Zenon
<1>4. CASE ~(deleted \/ ~dir)
  <2> USE DEF markers, nas, history, queue
  <2>1. /\ manifest' = work.man /\ indexed' = TRUE /\ pc' = "cleanup"
        /\ UNCHANGED <<dir, tail, segs, meta, art, importing, work, queue>>
    BY <1>4, Zenon DEF CommitLocal
  <2>2. Content /\ Listed /\ Transfer /\ Artifact /\ Covering /\ ~deleted /\ dir /\ ~importing /\ meta # 0 /\ pending
    BY <1>1, <1>2, <1>4 DEF Places, Moving, Copied
  <2>3. work.man = published /\ work.man \in Manifests /\ work.todo = {} /\ remote = "published"
    BY <1>1, <1>2, <2>2, Zenon DEF Copying, Shape, Transfer
  <2>4. Shape'
    <3>1. {manifest'.meta, manifest'.art} \subseteq 0..MaxVersions
      BY <2>1, <2>3, Zenon DEF Manifests, Versions
    <3> QED
      BY <1>1, <1>2, <2>1, <2>3, <3>1, Zenon DEF Shape, TypeOK
  <2>5. Places'
    BY <1>1, <1>2, <2>1, <2>2, Zenon DEF Places, Importing, Moving, Copied
  <2>6. Readers'
    BY <1>1, <1>2, Zenon DEF Readers
  <2>7. Copying'
    BY <1>1, <1>2, <2>1, <2>3, Zenon DEF Copying, OnNas, Importing
  <2>8. Content' /\ Listed'
    BY <1>2, <2>1, <2>2, <2>3 DEF Content, Listed
  <2>9. Transfer'
    BY <1>2, <2>1, <2>2, <2>3, Zenon DEF Transfer, Copied
  <2>10. Artifact'
    <3>1. art = 0 => work.man.art = manifest.art /\ manifest.art = artifacts
      BY <1>2, <2>2, Zenon DEF Artifact, Copied
    <3>2. ArtFile \in work.cleanup => work.art # 0 /\ work.man.art = work.art
      BY <1>2, <2>2, Zenon DEF Artifact, Copied
    <3> QED
      BY <1>2, <2>1, <2>2, <2>3, <3>1, <3>2, Zenon DEF Artifact, Copied
  <2>11. Covering'
    BY <1>2, <2>1, <2>2, <2>3 DEF Covering, NothingStranded, Copied
  <2> QED
    BY <2>4, <2>5, <2>6, <2>7, <2>8, <2>9, <2>10, <2>11, Zenon DEF IInv
<1> QED
  BY <1>3, <1>4

\* A segment is unlinked when its part is published.
LEMMA UnlinkedContent ==
  ASSUME Content, NEW f, f \in KnownSegments(published),
         segs' = [s \in DOMAIN segs \ {f} |-> segs[s]], UNCHANGED <<tail, published, lines>>
  PROVE  Content'
<1>1. DOMAIN segs' = DOMAIN segs \ {f} /\ \A s \in DOMAIN segs' : segs'[s] = segs[s]
  OBVIOUS
<1>2. PICK p \in published.logs : p.seg = f
  BY Zenon DEF KnownSegments
<1>3. \A l \in 1..lines' : \/ l \in tail'
                           \/ \E s \in DOMAIN segs' : l \in segs'[s]
                           \/ \E q \in published'.logs : l \in q.data
  <2> SUFFICES ASSUME NEW l \in 1..lines, l \notin tail, \A q \in published.logs : l \notin q.data
               PROVE  \E s \in DOMAIN segs' : l \in segs'[s]
    OBVIOUS
  <2>1. PICK s \in DOMAIN segs : l \in segs[s]
    BY Zenon DEF Content
  <2>2. s # f
    BY <1>2, <2>1, Zenon DEF Content
  <2> QED
    BY <1>1, <2>1, <2>2, Zenon
<1>4. tail' \subseteq 1..lines' /\ (tail' # {} => lines' \in tail')
  BY Zenon DEF Content
<1>5. \A s \in DOMAIN segs' :
        /\ s \in segs'[s] /\ segs'[s] \subseteq 1..lines' /\ segs'[s] \cap tail' = {}
        /\ \A t \in DOMAIN segs' : s # t => segs'[s] \cap segs'[t] = {}
  BY <1>1, Zenon DEF Content
<1>6. \A q \in published'.logs :
        /\ q.seg \in q.data /\ q.data \subseteq 1..lines' /\ q.data \cap tail' = {}
        /\ \A r \in published'.logs : q # r => q.data \cap r.data = {}
        /\ \A s \in DOMAIN segs' : IF q.seg = s THEN q.data = segs'[s] ELSE q.data \cap segs'[s] = {}
  BY <1>1 DEF Content
<1> QED
  BY <1>3, <1>4, <1>5, <1>6, Zenon DEF Content

LEMMA CleanupKeeps == ASSUME IInv, Cleanup PROVE IInv'
<1>1. Shape /\ Places /\ Copying /\ Readers /\ (~deleted => Content /\ Listed /\ Transfer /\ Artifact /\ Covering)
  BY DEF IInv
<1>2. pc = "cleanup" /\ UNCHANGED <<markers, nas, reader, history>>
  BY Zenon DEF Cleanup
<1>3. Content /\ Listed /\ Transfer /\ Artifact /\ Covering /\ ~deleted /\ dir /\ ~importing /\ meta # 0 /\ pending
  BY <1>1, <1>2 DEF Places, Moving
<1>4. manifest = work.man /\ work.man = published /\ remote = "published" /\ changed \in BOOLEAN
  BY <1>1, <1>2, <1>3, Zenon DEF Copying, Transfer, Shape, TypeOK
<1>5. CASE work.cleanup = {}
  <2>1. Return(TRUE) /\ UNCHANGED local
    BY <1>5, Zenon DEF Cleanup
  <2>2. NothingStranded'
    <3>1. CASE changed
      BY <1>3, <2>1, <3>1, Zenon DEF Return, NothingStranded
    <3>2. CASE ~changed
      <4>1. tail = {} /\ meta = work.meta /\ art = 0 /\ DOMAIN segs = {} /\ manifest.meta = meta
        BY <1>2, <1>3, <1>4, <1>5, <3>2, Zenon DEF Covering
      <4> QED
        BY <2>1, <4>1 DEF NothingStranded, local
    <3> QED
      BY <1>4, <3>1, <3>2
  <2> QED
    BY <1>2, <2>1, <2>2, ReturnKeeps, Zenon
<1>6. CASE work.cleanup # {}
  <2> USE DEF markers, nas, history, queue
  <2>1. PICK f \in work.cleanup :
          /\ Unlink(f)
          /\ work' = [work EXCEPT !.cleanup = @ \ {f}]
          /\ UNCHANGED <<dir, tail, meta, manifest, indexed, importing, pc, queue>>
    BY <1>6, Zenon DEF Cleanup
  <2>2. /\ work' \in Works /\ work'.cleanup = work.cleanup \ {f}
        /\ work'.man = work.man /\ work'.meta = work.meta /\ work'.art = work.art
    <3>1. work \in Works
      BY <1>1 DEF Shape
    <3> QED
      BY <2>1, <3>1, Zenon DEF Works
  <2>3. work.cleanup \ {ArtFile} \subseteq KnownSegments(work.man)
    BY <1>2, <1>3, Zenon DEF Transfer
  <2>4. SUFFICES /\ art' \in 0..MaxVersions /\ segs' \in SegmentMaps /\ DOMAIN segs' \subseteq DOMAIN segs
                 /\ Content' /\ Listed' /\ Artifact' /\ Covering'
    <3>1. ASSUME art' \in 0..MaxVersions, segs' \in SegmentMaps PROVE Shape'
      <4>1. \A s \in DOMAIN segs' : s \in Segments /\ segs'[s] \subseteq 1..MaxLines
        BY <3>1, SegmentMapsFacts DEF Lines
      <4> QED
        BY <1>1, <1>2, <2>1, <2>2, <3>1, <4>1 DEF Shape, TypeOK
    <3>2. ASSUME DOMAIN segs' \subseteq DOMAIN segs PROVE Places'
      BY <1>1, <1>2, <1>3, <2>1, <3>2, Zenon DEF Places, Importing, Moving, Copied
    <3>3. Readers'
      BY <1>1, <1>2 DEF Readers
    <3>4. Copying'
      BY <1>1, <1>2, <2>1, <2>2 DEF Copying, OnNas, Importing
    <3>5. Transfer'
      BY <1>2, <1>4, <2>1, <2>2, <2>3, Zenon DEF Transfer, Copied
    <3> QED
      BY <3>1, <3>2, <3>3, <3>4, <3>5 DEF IInv
  <2>5. art \in 0..MaxVersions /\ segs \in SegmentMaps
    BY <1>1, Zenon DEF Shape, TypeOK
  <2>6. CASE f = ArtFile
    <3>1. art' = (IF art = work.art THEN 0 ELSE art) /\ segs' = segs
      BY <2>1, <2>6 DEF Unlink
    <3>2. art' \in 0..MaxVersions /\ Content' /\ Listed'
      BY <1>2, <1>3, <2>1, <2>5, <3>1, Constants DEF Content, Listed, Versions
    <3>3. Artifact'
      <4>1. work.art # 0 /\ work.man.art = work.art
        BY <1>2, <1>3, <2>6, Zenon DEF Artifact
      <4>2. art' = 0 => manifest.art = artifacts
        BY <1>3, <1>4, <3>1, <4>1, Zenon DEF Artifact
      <4>3. indexed
        BY <1>1, <1>3, <1>4, <4>1, IdleFacts DEF Places
      <4> QED
        BY <1>2, <1>3, <2>1, <2>2, <3>1, <4>1, <4>2, <4>3, Zenon DEF Artifact, Copied
    <3>4. Covering'
      <4>1. NothingStranded'
        BY <1>3, <2>1 DEF NothingStranded
      <4>2. ArtFile \notin DOMAIN segs
        BY <2>5, SegmentMapsFacts, FileNames DEF Segments
      <4> QED
        BY <1>2, <1>3, <2>1, <2>2, <2>6, <3>1, <4>1, <4>2 DEF Covering, Copied
    <3> QED
      BY <2>5, <3>1, <3>2, <3>3, <3>4
  <2>7. CASE f # ArtFile
    <3>1. segs' = [s \in DOMAIN segs \ {f} |-> segs[s]] /\ art' = art
      BY <2>1, <2>7, Zenon DEF Unlink
    <3>2. DOMAIN segs' = DOMAIN segs \ {f}
      BY <3>1
    <3>3. segs' \in SegmentMaps
      <4>1. segs' \in [DOMAIN segs' -> Lines] /\ DOMAIN segs' \subseteq Segments
        BY <2>5, <3>1, SegmentMapsFacts, Zenon
      <4> QED
        BY <4>1, SegmentMapsFacts
    <3>4. f \in KnownSegments(published)
      BY <1>4, <2>3, <2>7
    <3>5. Content'
      BY <1>2, <1>3, <2>1, <3>1, <3>4, UnlinkedContent
    <3>6. Listed'
      BY <1>2, <1>3, <1>4, <2>1 DEF Listed
    <3>7. Artifact'
      BY <1>2, <1>3, <2>1, <2>2, <3>1 DEF Artifact, Copied
    <3>8. Covering'
      <4>1. NothingStranded'
        BY <1>3, <2>1 DEF NothingStranded
      <4> QED
        BY <1>2, <1>3, <2>1, <2>2, <2>7, <3>1, <3>2, <4>1, Zenon DEF Covering, Copied
    <3> QED
      BY <2>5, <3>1, <3>2, <3>3, <3>5, <3>6, <3>7, <3>8
  <2> QED
    BY <2>6, <2>7
<1> QED
  BY <1>5, <1>6
-----------------------------------------------------------------------------
(* The worker: importing and removing *)

LEMMA ImportScanKeeps == ASSUME IInv, ImportScan PROVE IInv'
<1>1. Shape /\ Places /\ Copying /\ Readers /\ (~deleted => Content /\ Listed /\ Transfer /\ Artifact /\ Covering)
  BY DEF IInv
<1>2. /\ pc = "idle" /\ pc' = "import" /\ ~deleted /\ ~(dir /\ indexed /\ ~importing) /\ remote = "published"
      /\ work' = [Idle EXCEPT !.man = published, !.meta = objects.meta]
      /\ UNCHANGED <<local, markers, nas, queue, reader, history>>
  BY DEF ImportScan
<1> USE DEF local, markers, nas, queue, history
<1>3. work' \in Works /\ work'.man = published
  <2>1. published \in Manifests /\ objects.meta \in Versions /\ Idle \in Works
    BY <1>1, IdleFacts DEF Shape
  <2> QED
    BY <1>2, <2>1, Zenon DEF Works
<1>4. ~indexed
  BY <1>1, <1>2 DEF Places
<1>5. Shape'
  BY <1>1, <1>2, <1>3 DEF Shape, TypeOK
<1>6. Places' /\ Readers'
  BY <1>1, <1>2, <1>4 DEF Places, Readers, Importing, Moving, Copied
<1>7. Copying'
  BY <1>1, <1>2, <1>3 DEF Copying, OnNas, Importing
<1>8. Content' /\ Listed' /\ Transfer' /\ Artifact' /\ Covering'
  <2>1. Content'
    BY <1>1, <1>2 DEF Content
  <2>2. Listed'
    BY <1>1, <1>2 DEF Listed
  <2>3. Transfer'
    BY <1>1, <1>2 DEF Transfer, Copied
  <2>4. Artifact'
    BY <1>1, <1>2 DEF Artifact, Copied
  <2>5. Covering'
    BY <1>1, <1>2 DEF Covering, NothingStranded, Copied
  <2> QED
    BY <2>1, <2>2, <2>3, <2>4, <2>5
<1> QED
  BY <1>5, <1>6, <1>7, <1>8 DEF IInv

LEMMA ImportIntentKeeps == ASSUME IInv, ImportIntent PROVE IInv'
<1>1. Shape /\ Places /\ Copying /\ Readers /\ (~deleted => Content /\ Listed /\ Transfer /\ Artifact /\ Covering)
  BY DEF IInv
<1>2. pc = "import" /\ UNCHANGED <<markers, nas, queue, reader, history>>
  BY Zenon DEF ImportIntent
<1>3. CASE deleted
  <2>1. AtRest /\ UNCHANGED local
    BY <1>3, Zenon DEF ImportIntent, AtRest
  <2>2. UNCHANGED <<local, markers, nas, lines, artifacts>> /\ faults' \in Nat /\ reader' = reader
    BY <1>1, <1>2, <2>1, Zenon DEF Shape, history
  <2>3. {pending', changed'} \subseteq BOOLEAN
    BY <1>1, <1>2, Zenon DEF Shape, TypeOK, queue
  <2> QED
    BY <1>3, <2>1, <2>2, <2>3, RestKeeps
<1>4. CASE ~deleted
  <2> USE DEF markers, nas, queue, history
  <2>1. /\ dir' = TRUE /\ importing' = TRUE /\ pc' = "importing"
        /\ UNCHANGED <<tail, segs, meta, art, manifest, indexed, work>>
    BY <1>4, Zenon DEF ImportIntent
  <2>2. Shape'
    <3>1. {dir', indexed', importing', deleted', done', pending', changed'} \subseteq BOOLEAN
      BY <1>1, <1>2, <2>1, Zenon DEF Shape, TypeOK
    <3>2. TypeOK'
      BY <1>1, <1>2, <2>1, <3>1 DEF Shape, TypeOK
    <3> QED
      BY <1>1, <1>2, <2>1, <3>2, Zenon DEF Shape
  <2>3. Places' /\ Readers'
    BY <1>1, <1>2, <1>4, <2>1, Zenon DEF Places, Readers, Importing, Moving, Copied
  <2>4. Copying'
    BY <1>1, <1>2, <2>1, Zenon DEF Copying, OnNas, Importing
  <2>5. Content' /\ Listed' /\ Transfer' /\ Artifact' /\ Covering'
    <3>1. Content'
      BY <1>1, <1>2, <1>4, <2>1, Zenon DEF Content
    <3>2. Listed'
      BY <1>1, <1>2, <1>4, <2>1, Zenon DEF Listed
    <3>3. Transfer'
      BY <1>1, <1>2, <1>4, <2>1, Zenon DEF Transfer, Copied
    <3>4. Artifact'
      BY <1>1, <1>2, <1>4, <2>1 DEF Artifact, Copied
    <3>5. Covering'
      BY <1>1, <1>2, <1>4, <2>1, Zenon DEF Covering, NothingStranded, Copied
    <3> QED
      BY <3>1, <3>2, <3>3, <3>4, <3>5
  <2> QED
    BY <2>2, <2>3, <2>4, <2>5 DEF IInv
<1> QED
  BY <1>3, <1>4, Zenon

LEMMA ImportMetadataKeeps == ASSUME IInv, ImportMetadata PROVE IInv'
<1>1. Shape /\ Places /\ Copying /\ Readers /\ (~deleted => Content /\ Listed /\ Transfer /\ Artifact /\ Covering)
  BY DEF IInv
<1>2. /\ pc = "importing" /\ pc' = "imported" /\ meta' = IF meta = 0 THEN work.meta ELSE meta
      /\ UNCHANGED <<dir, tail, segs, art, manifest, indexed, importing, markers, nas, queue, work, reader, history>>
  BY DEF ImportMetadata
<1> USE DEF markers, nas, queue, history
<1>3. meta' \in 0..MaxVersions /\ importing /\ dir /\ ~deleted
  BY <1>1, <1>2, Zenon DEF Shape, TypeOK, Works, Versions, Places
<1>4. Shape'
  BY <1>1, <1>2, <1>3, Zenon DEF Shape, TypeOK
<1>5. Places' /\ Readers'
  BY <1>1, <1>2, <1>3 DEF Places, Readers, Importing, Moving, Copied
<1>6. Copying'
  BY <1>1, <1>2, Zenon DEF Copying, OnNas, Importing
<1>7. Content' /\ Listed' /\ Transfer' /\ Artifact' /\ Covering'
  <2>1. Content'
    BY <1>1, <1>2, <1>3, Zenon DEF Content
  <2>2. Listed'
    BY <1>1, <1>2, <1>3 DEF Listed
  <2>3. Transfer'
    BY <1>1, <1>2, <1>3, Zenon DEF Transfer, Copied
  <2>4. Artifact'
    BY <1>1, <1>2, <1>3 DEF Artifact, Copied
  <2>5. Covering'
    BY <1>1, <1>2, <1>3, Zenon DEF Covering, NothingStranded, Copied
  <2> QED
    BY <2>1, <2>2, <2>3, <2>4, <2>5
<1> QED
  BY <1>4, <1>5, <1>6, <1>7 DEF IInv

LEMMA ImportCommitKeeps == ASSUME IInv, ImportCommit PROVE IInv'
<1>1. Shape /\ Places /\ Copying /\ Readers /\ (~deleted => Content /\ Listed /\ Transfer /\ Artifact /\ Covering)
  BY DEF IInv
<1>2. /\ pc = "imported" /\ manifest' = [work.man EXCEPT !.meta = IF meta = work.meta THEN meta ELSE @]
      /\ indexed' = TRUE /\ importing' = FALSE /\ pc' = "idle" /\ work' = Idle /\ pending' = TRUE /\ changed' = TRUE
      /\ UNCHANGED <<dir, tail, segs, meta, art, markers, nas, reader, history>>
  BY Zenon DEF ImportCommit, MarkRunArchiveDirty
<1> USE DEF markers, nas, history
<1>3. work.man = published /\ work.man \in Manifests /\ meta \in Versions /\ dir /\ ~deleted /\ ~indexed /\ remote = "published"
  BY <1>1, <1>2 DEF Copying, Shape, TypeOK, Versions, Places, Importing
<1>4. manifest' \in Manifests /\ manifest'.logs = published.logs /\ manifest'.art = published.art
  BY <1>2, <1>3 DEF Manifests
<1>5. /\ work' \in Works /\ Valid(work'.man) /\ work'.man.logs = {}
      /\ pc' \notin Importing \cup Moving \cup Copied \cup {"capture", "open", "upload", "rename", "commit",
                                                    "cleanup", "importing", "imported", "removed"}
  BY <1>2, RestShape, IdleFacts DEF AtRest
<1>6. Shape'
  <2>1. {dir', indexed', importing', deleted', done', pending', changed'} \subseteq BOOLEAN
    BY <1>1, <1>2, Zenon DEF Shape, TypeOK
  <2>2. {manifest'.meta, manifest'.art} \subseteq 0..MaxVersions
    BY <1>4 DEF Manifests, Versions
  <2>3. TypeOK'
    BY <1>1, <1>2, <2>1, <2>2 DEF Shape, TypeOK
  <2> QED
    BY <1>1, <1>2, <1>4, <1>5, <2>3 DEF Shape
<1>7. Places' /\ Readers'
  BY <1>1, <1>2, <1>3, <1>5 DEF Places, Readers
<1>8. Copying'
  <2>1. Valid(manifest')
    BY <1>1, <1>4 DEF Copying, Valid
  <2> QED
    BY <1>1, <1>2, <1>5, <2>1, Zenon DEF Copying, OnNas
<1>9. Content' /\ Listed'
  BY <1>1, <1>2, <1>3, <1>4 DEF Content, Listed
<1>10. Transfer' /\ Covering'
  BY <1>2, <1>5 DEF Transfer, Covering, NothingStranded
<1>11. Artifact'
  <2>1. published.art <= artifacts /\ published.art \in Nat /\ artifacts \in Nat
    BY <1>1, <1>3 DEF Artifact, Shape, Manifests, Versions
  <2>2. art = 0 => artifacts = 0 \/ published.art = artifacts
    BY <1>1, <1>3, Zenon DEF Artifact
  <2>3. art = 0 => published.art = artifacts
    BY <2>1, <2>2
  <2> QED
    BY <1>1, <1>2, <1>3, <1>4, <1>5, <2>1, <2>3 DEF Artifact
<1> QED
  BY <1>6, <1>7, <1>8, <1>9, <1>10, <1>11 DEF IInv

LEMMA RemoveArchivedResultKeeps == ASSUME IInv, RemoveArchivedResult PROVE IInv'
<1>1. Shape /\ Places /\ Copying /\ Readers
  BY DEF IInv
<1>2. /\ pc = "idle" /\ pc' = "removed" /\ deleted /\ remote' = "none" /\ objects' = NoObjects /\ published' = EmptyManifest
      /\ UNCHANGED <<local, markers, queue, work, reader, history>>
  BY Zenon DEF RemoveArchivedResult
<1> USE DEF local, markers, queue, history
<1>3. /\ published' \in Manifests /\ published'.logs = {} /\ published'.meta = 0 /\ published'.art = 0
      /\ objects' \in [logs : LogMaps, meta : Versions, arts : SUBSET Versions] /\ work' = Idle
  <2>1. work = Idle
    BY <1>1, <1>2, Zenon DEF Shape, TypeOK
  <2> QED
    BY <1>2, <2>1, IdleFacts, Zenon
<1>4. Shape'
  BY <1>1, <1>2, <1>3, Constants DEF Shape, TypeOK, Versions
<1>5. Places' /\ Readers'
  BY <1>1, <1>2, <1>3, Zenon DEF Places, Readers, Importing, Moving, Copied
<1>6. Copying'
  BY <1>1, <1>2, <1>3, ValidEmpty, Zenon DEF Copying, Importing
<1> QED
  BY <1>2, <1>4, <1>5, <1>6 DEF IInv

LEMMA RecordRemovalKeeps == ASSUME IInv, RecordRemoval PROVE IInv'
<1>1. Shape /\ Places /\ Copying /\ Readers
  BY DEF IInv
<1>2. /\ pc = "removed" /\ pc' = "idle" /\ done' = TRUE
      /\ UNCHANGED <<local, deleted, nas, queue, work, reader, history>>
  BY Zenon DEF RecordRemoval
<1> USE DEF local, nas, queue, history
<1>3. deleted /\ work = Idle
  BY <1>1, <1>2 DEF Places
<1>4. Shape'
  BY <1>1, <1>2, <1>3, Zenon DEF Shape, TypeOK
<1>5. Places' /\ Readers'
  BY <1>1, <1>2, <1>3, Zenon DEF Places, Readers, Importing, Moving, Copied
<1>6. Copying'
  BY <1>1, <1>2, <1>3, Zenon DEF Copying, OnNas, Importing
<1> QED
  BY <1>2, <1>3, <1>4, <1>5, <1>6 DEF IInv

LEMMA NextKeeps == ASSUME IInv, [Next]_vars PROVE IInv'
<1>1. CASE ArchiveWorker
  BY <1>1, NoteVersionKeeps, CaptureKeeps, OpenArchiveKeeps, CopyArchiveFileKeeps, PublishRemoteKeeps,
     PublishDirectoryKeeps, CommitLocalKeeps, CleanupKeeps, ImportScanKeeps, ImportIntentKeeps, ImportMetadataKeeps,
     ImportCommitKeeps, RemoveArchivedResultKeeps, RecordRemovalKeeps
  DEF ArchiveWorker
<1>2. CASE Writers
  BY <1>2, AppendKeeps, WriteMetadataKeeps, CompleteAnalysisKeeps, DeleteKeeps DEF Writers
<1>3. CASE Reader
  BY <1>3, ReaderKeeps
<1>4. CASE Faults
  BY <1>4, FaultsKeep, Zenon
<1>5. CASE UNCHANGED vars
  <2> USE <1>5 DEF vars, local, markers, nas, queue, worker, history
  <2>1. Shape'
    BY Zenon DEF IInv, Shape, TypeOK
  <2>2. Places' /\ Readers'
    BY Zenon DEF IInv, Places, Readers
  <2>3. Copying'
    BY Zenon DEF IInv, Copying, OnNas
  <2>4. ~deleted' => Content' /\ Listed'
    BY Zenon DEF IInv, Content, Listed
  <2>5. ~deleted' => Transfer' /\ Artifact'
    BY Zenon DEF IInv, Transfer, Artifact
  <2>6. ~deleted' => Covering'
    BY Zenon DEF IInv, Covering, NothingStranded
  <2> QED
    BY <2>1, <2>2, <2>3, <2>4, <2>5, <2>6 DEF IInv
<1> QED
  BY <1>1, <1>2, <1>3, <1>4, <1>5, Zenon DEF Next
-----------------------------------------------------------------------------
(* What readers see *)

\* The parts of a run that is not being imported.
LEMMA SettledLog ==
  ASSUME IInv, Readable, ~importing
  PROVE  /\ UNION {p.lines : p \in CaptureRunSource} = 1..lines
         /\ \A p, q \in CaptureRunSource : p # q => p.lines \cap q.lines = {}
         /\ \A p \in RemoteParts : remote = "published" /\ OnNas(p)
<1>1. Copying /\ Content /\ Listed /\ dir /\ meta # 0 /\ manifest.logs \subseteq published.logs
  BY DEF IInv, Readable, Listed
<1> DEFINE end == [from |-> "tail", name |-> 0, lines |-> tail]
           loose == DOMAIN segs \ KnownSegments(manifest)
<1>2. ASSUME NEW p \in manifest.logs
      PROVE  Stored(p).lines = p.data /\ Stored(p) \in CaptureRunSource
  <2>1. p \in published.logs /\ p \in StoredParts
    BY <1>1, Zenon DEF StoredParts
  <2>2. p.seg \in DOMAIN segs => p.data = segs[p.seg]
    BY <1>1, <2>1, Zenon DEF Content
  <2>3. Stored(p).lines = IF p.seg \in DOMAIN segs THEN segs[p.seg] ELSE p.data
    BY Zenon DEF Stored, LocalSegment
  <2>4. Stored(p) \in CaptureRunSource
    BY <2>1, Zenon DEF CaptureRunSource
  <2> QED
    BY <2>2, <2>3, <2>4, Zenon
<1>3. ASSUME NEW s \in loose
      PROVE  Unnamed(s).lines = segs[s] /\ Unnamed(s) \in CaptureRunSource /\ \A p \in manifest.logs : p.seg # s
  BY Zenon DEF Unnamed, CaptureRunSource, KnownSegments
<1>4. end.lines = tail /\ end \in CaptureRunSource
  BY Zenon DEF CaptureRunSource
<1>5. ASSUME NEW x \in CaptureRunSource
      PROVE  \/ \E p \in manifest.logs : x = Stored(p)
             \/ \E s \in loose : x = Unnamed(s)
             \/ x = end
  BY Zenon DEF CaptureRunSource, StoredParts
<1> HIDE DEF end
<1>6. ASSUME NEW s \in DOMAIN segs PROVE \E x \in CaptureRunSource : x.lines = segs[s]
  <2>1. CASE s \in loose
    BY <1>3, <2>1, Zenon
  <2>2. CASE s \notin loose
    <3>1. PICK p \in manifest.logs : p.seg = s
      BY <2>2, Zenon DEF KnownSegments
    <3>2. p.data = segs[s]
      BY <1>1, <3>1, Zenon DEF Content
    <3> QED
      BY <1>2, <3>2, Zenon
  <2> QED
    BY <2>1, <2>2, Zenon
<1>7. ASSUME NEW p \in published.logs PROVE \E x \in CaptureRunSource : x.lines = p.data
  <2>1. CASE p \in manifest.logs
    BY <1>2, <2>1, Zenon
  <2>2. CASE p \notin manifest.logs
    <3>1. p.seg \in DOMAIN segs /\ p.data = segs[p.seg]
      BY <1>1, <2>2, Zenon DEF Listed, Content
    <3> QED
      BY <1>6, <3>1, Zenon
  <2> QED
    BY <2>1, <2>2, Zenon
<1>8. UNION {x.lines : x \in CaptureRunSource} = 1..lines
  <2>1. ASSUME NEW l \in 1..lines PROVE \E x \in CaptureRunSource : l \in x.lines
    <3>1. \/ l \in tail \/ (\E s \in DOMAIN segs : l \in segs[s]) \/ (\E p \in published.logs : l \in p.data)
      BY <1>1, Zenon DEF Content
    <3> QED
      BY <1>4, <1>6, <1>7, <3>1, Zenon
  <2>2. ASSUME NEW x \in CaptureRunSource PROVE x.lines \subseteq 1..lines
    <3>1. CASE \E p \in manifest.logs : x = Stored(p)
      BY <1>1, <1>2, <3>1 DEF Content
    <3>2. CASE \E s \in loose : x = Unnamed(s)
      BY <1>1, <1>3, <3>2, Zenon DEF Content
    <3>3. CASE x = end
      BY <1>1, <1>4, <3>3, Zenon DEF Content
    <3> QED
      BY <1>5, <3>1, <3>2, <3>3, Zenon
  <2> QED
    BY <2>1, <2>2, Zenon
<1>9. ASSUME NEW x \in CaptureRunSource, NEW y \in CaptureRunSource, x # y PROVE x.lines \cap y.lines = {}
  <2>1. ASSUME NEW p \in manifest.logs, NEW q \in manifest.logs, p # q PROVE Stored(p).lines \cap Stored(q).lines = {}
    <3>1. p \in published.logs /\ q \in published.logs
      BY <1>1, Zenon
    <3>2. p.data \cap q.data = {}
      BY <1>1, <2>1, <3>1, Zenon DEF Content
    <3> QED
      BY <1>2, <3>2, Zenon
  <2>2. ASSUME NEW p \in manifest.logs, NEW s \in loose PROVE Stored(p).lines \cap Unnamed(s).lines = {}
    <3>1. p \in published.logs /\ s \in DOMAIN segs /\ p.seg # s
      BY <1>1, <1>3, Zenon
    <3>2. p.data \cap segs[s] = {}
      BY <1>1, <3>1, Zenon DEF Content
    <3> QED
      BY <1>2, <1>3, <3>2, Zenon
  <2>3. ASSUME NEW s \in loose, NEW t \in loose, s # t PROVE Unnamed(s).lines \cap Unnamed(t).lines = {}
    BY <1>1, <1>3, <2>3, Zenon DEF Content
  <2>4. ASSUME NEW p \in manifest.logs PROVE Stored(p).lines \cap end.lines = {}
    BY <1>1, <1>2, <1>4, Zenon DEF Content
  <2>5. ASSUME NEW s \in loose PROVE Unnamed(s).lines \cap end.lines = {}
    BY <1>1, <1>3, <1>4, Zenon DEF Content
  <2>6. CASE \E p \in manifest.logs : x = Stored(p)
    BY <1>5, <1>9, <2>1, <2>2, <2>4, <2>6, Zenon
  <2>7. CASE \E s \in loose : x = Unnamed(s)
    BY <1>5, <1>9, <2>2, <2>3, <2>5, <2>7, Zenon
  <2>8. CASE x = end
    BY <1>5, <1>9, <2>4, <2>5, <2>8, Zenon
  <2> QED
    BY <1>5, <2>6, <2>7, <2>8
<1>10. \A p \in RemoteParts : remote = "published" /\ OnNas(p)
  BY <1>1, Zenon DEF RemoteParts, StoredParts, Listed, Copying
<1> QED
  BY <1>8, <1>9, <1>10, Zenon

\* A run that is being imported has only a tail beside the archived parts.
LEMMA ImportedLog ==
  ASSUME IInv, Readable, importing,
         NEW parts, parts = CaptureRunSource \cup {Awaited(p) : p \in published.logs}
  PROVE  /\ UNION {p.lines : p \in parts} = 1..lines
         /\ \A p, q \in parts : p # q => p.lines \cap q.lines = {}
         /\ RemoteParts = {} /\ \A p \in published.logs : remote = "published" /\ OnNas(p)
<1>1. Copying /\ Content /\ remote = "published" /\ DOMAIN segs = {} /\ manifest.logs = {}
  BY IdleFacts, Zenon DEF IInv, Readable, Places
<1>2. PICK end : end = [from |-> "tail", name |-> 0, lines |-> tail]
  BY Zenon
<1>3. CaptureRunSource = {end} /\ RemoteParts = {}
  BY <1>1, <1>2, Zenon DEF CaptureRunSource, RemoteParts, StoredParts
<1>4. end.lines = tail
  BY <1>2, Zenon
<1>5. \A p \in published.logs : Awaited(p).lines = p.data /\ Awaited(p) \in parts
  BY Zenon DEF Awaited
<1>6. end \in parts /\ \A x \in parts : x = end \/ \E p \in published.logs : x = Awaited(p)
  BY <1>3, Zenon
<1>7. UNION {x.lines : x \in parts} = 1..lines
  <2>1. ASSUME NEW l \in 1..lines PROVE \E x \in parts : l \in x.lines
    <3>1. l \in tail \/ \E p \in published.logs : l \in p.data
      BY <1>1, Zenon DEF Content
    <3>2. CASE l \in tail
      BY <1>4, <1>6, <3>2, Zenon
    <3>3. CASE \E p \in published.logs : l \in p.data
      BY <1>5, <3>3, Zenon
    <3> QED
      BY <3>1, <3>2, <3>3, Zenon
  <2>2. ASSUME NEW x \in parts PROVE x.lines \subseteq 1..lines
    <3>1. CASE x = end
      BY <1>1, <1>4, <3>1, Zenon DEF Content
    <3>2. CASE \E p \in published.logs : x = Awaited(p)
      <4>1. PICK p \in published.logs : x = Awaited(p)
        BY <3>2, Zenon
      <4>2. x.lines = p.data /\ p.data \subseteq 1..lines
        BY <1>1, <1>5, <4>1, Zenon DEF Content
      <4> QED
        BY <4>2, Zenon
    <3> QED
      BY <1>6, <3>1, <3>2, Zenon
  <2> QED
    BY <2>1, <2>2, Zenon
<1>8. ASSUME NEW x \in parts, NEW y \in parts, x # y PROVE x.lines \cap y.lines = {}
  <2>1. ASSUME NEW p \in published.logs PROVE Awaited(p).lines \cap end.lines = {}
    BY <1>1, <1>4, <1>5, Zenon DEF Content
  <2>2. ASSUME NEW p \in published.logs, NEW q \in published.logs, p # q
        PROVE  Awaited(p).lines \cap Awaited(q).lines = {}
    BY <1>1, <1>5, <2>2, Zenon DEF Content
  <2>3. CASE x = end
    BY <1>6, <1>8, <2>1, <2>3, Zenon
  <2>4. CASE \E p \in published.logs : x = Awaited(p)
    BY <1>6, <1>8, <2>1, <2>2, <2>4, Zenon
  <2> QED
    BY <1>6, <2>3, <2>4, Zenon
<1> QED
  BY <1>1, <1>3, <1>7, <1>8, Zenon DEF Copying

LEMMA CompleteLog == ASSUME IInv PROVE LogIsComplete
<1> SUFFICES ASSUME Readable, NEW parts, parts = CaptureRunSource \cup {Awaited(p) : p \in Unrecorded}
             PROVE  /\ UNION {p.lines : p \in parts} = 1..lines
                    /\ \A p, q \in parts : p # q => p.lines \cap q.lines = {}
                    /\ \A p \in RemoteParts \cup Unrecorded : remote = "published" /\ OnNas(p)
  BY Zenon DEF LogIsComplete, OnNas
<1>1. CASE importing
  <2>1. Unrecorded = published.logs
    BY <1>1, Zenon DEF Unrecorded
  <2> QED
    BY <1>1, <2>1, ImportedLog, Zenon
<1>2. CASE ~importing
  <2>1. Unrecorded = {}
    BY <1>2, Zenon DEF Unrecorded
  <2>2. parts = CaptureRunSource
    BY <2>1, Zenon
  <2> QED
    BY <1>2, <2>1, <2>2, SettledLog, Zenon
<1> QED
  BY <1>1, <1>2, Zenon

LEMMA LatestArtifact == ASSUME IInv PROVE ArtifactIsLatest
<1> SUFFICES ASSUME Readable, NEW archived, archived = IF importing THEN published.art ELSE manifest.art
             PROVE  /\ (IF art # 0 THEN art ELSE archived) = artifacts
                    /\ art = 0 /\ archived # 0 => remote = "published" /\ archived \in objects.arts
  BY DEF ArtifactIsLatest
<1>1. Artifact /\ Listed /\ Places /\ dir /\ meta # 0 /\ ~deleted
  BY Zenon DEF IInv, Readable
<1>2. CASE ~importing
  BY <1>1, <1>2, Zenon DEF Artifact, Listed
<1>3. CASE importing
  <2>1. remote = "published" /\ ~indexed /\ archived = published.art /\ published.art \in objects.arts \cup {0}
    BY <1>1, <1>3, Zenon DEF Places, Artifact
  <2>2. art # 0 => art = artifacts
    BY <1>1, Zenon DEF Artifact
  <2>3. art = 0 => published.art = artifacts
    <3>1. published.art <= artifacts /\ published.art \in Nat /\ artifacts \in Nat
      BY <1>1 DEF IInv, Shape, Artifact, Manifests, Versions
    <3>2. art = 0 => artifacts = 0 \/ published.art = artifacts
      BY <1>1, <2>1, Zenon DEF Artifact
    <3> QED
      BY <3>1, <3>2
  <2> QED
    BY <2>1, <2>2, <2>3, Zenon
<1> QED
  BY <1>2, <1>3, Zenon

LEMMA Consistent == ASSUME IInv PROVE ArchiveConsistent
<1>1. TypeOK
  BY DEF IInv, Shape
<1>2. NothingStranded
  BY Zenon DEF IInv, Covering, NothingStranded
<1>3. NamedOnce
  BY Zenon DEF IInv, Copying, Valid, NamedOnce
<1>4. PinnedPartsExist
  BY Zenon DEF IInv, Readers, Copying, OnNas, PinnedPartsExist
<1> QED
  BY <1>1, <1>2, <1>3, <1>4 DEF ArchiveConsistent
-----------------------------------------------------------------------------
(* The theorems *)

\* Every step of the worker, the writers, the readers and the faults keeps IInv.
THEOREM Invariance == Spec => []IInv
<1>1. Init => IInv
  BY InitIInv
<1>2. IInv /\ [Next]_vars => IInv'
  BY NextKeeps
<1> QED
  BY <1>1, <1>2, PTL DEF Spec

\* The stored run stays well formed through transfers, failures, restarts, imports
\* and deletion: archiveRun names no object twice, a run with bytes that are only
\* local stays in archivePending, and the parts a reader pinned with
\* resolveArchivedRead stay on the NAS until it releases them.
THEOREM ArchiveStaysConsistent == Spec => []ArchiveConsistent
<1>1. IInv => ArchiveConsistent
  BY Consistent
<1> QED
  BY <1>1, Invariance, PTL

\* captureRunSource gives a reader every acknowledged line exactly once, and the
\* last artifact written, at every moment at which the result can be read, whether
\* the parts are in the local directory, on the NAS or between the two; while
\* importArchivedRuns is between the metadata and the manifest, what readers do not
\* find is exactly what the NAS has.
THEOREM ReadersMissNothing == Spec => []ReadersSeeAll
<1>1. IInv => ReadersSeeAll
  BY CompleteLog, LatestArtifact DEF ReadersSeeAll
<1> QED
  BY <1>1, Invariance, PTL

\* No step recreates the directory of a deleted result: appendRunEvents and
\* importArchivedRuns look at the deletion marker under persistMu.
THEOREM DeletedIsNotRevived == Spec => NoRevival
<1>1. [Next]_vars => [deleted /\ ~dir => ~dir']_vars
  <2> SUFFICES ASSUME Next, deleted, ~dir PROVE ~dir'
    OBVIOUS
  <2> USE DEF local
  <2>1. CASE ArchiveWorker
    BY <2>1, Zenon DEF ArchiveWorker, NoteVersion, Capture, OpenArchive, CopyArchiveFile, PublishRemote, PublishDirectory,
                CommitLocal, Cleanup, ImportScan, ImportIntent, ImportMetadata, ImportCommit, RemoveArchivedResult,
                RecordRemoval
  <2>2. CASE Writers
    BY <2>2 DEF Writers, AppendRunEvents, WriteMetadata, CompleteAnalysis, DeleteSavedResult
  <2>3. CASE Reader
    BY <2>3, Zenon DEF Reader, ReaderCapture, ResolveArchivedRead, ReaderReleases
  <2>4. CASE Faults
    BY <2>4 DEF Faults, WorkerFails, Restart
  <2> QED
    BY <2>1, <2>2, <2>3, <2>4 DEF Next
<1> QED
  BY <1>1, PTL DEF Spec, NoRevival
=============================================================================
