----------------------------- MODULE HostFiles -----------------------------
(***************************************************************************)
(* The mesh files of the mailbox host: ops.ts, maintenance.ts and the file *)
(* handlers of worker.ts, over the tables files and mesh_paths of schema.ts*)
(* and the two caches of every colo.                                       *)
(*                                                                         *)
(* A mesh has one remote root.  A file is named by its folder and its kind;*)
(* its content is a number: the generation of a pointer, the latestHlc of  *)
(* a head, otherwise what tells two contents apart.  0 is a content that   *)
(* does not parse.  Counters of files and bytes decide nothing and are     *)
(* left out, and so are the folders, which only grow and are removed with  *)
(* their files.                                                            *)
(***************************************************************************)
EXTENDS HostRequests, FiniteSets, Functions

CONSTANTS
  Address,     \* the addresses of meshes, the reserved one included
  Name,        \* the files of a mesh: records [dir, file]
  Value,       \* their contents
  Colo,        \* the data centres, each with caches of its own
  PathTtl,     \* how long a mesh may go unwritten, in ticks
  MaxTime      \* bound: ticks of the clock

ASSUME HostAssumption ==
  /\ RecoveryStoragePrefix \in Address
  /\ Value \subseteq Nat
  /\ PathTtl \in Nat \ {0}
  /\ MaxTime \in Nat \ {0}

VARIABLES
  files,       \* files[<<a, n>>]: the row of a file, where there is one
  mesh,        \* mesh[a]: the row of mesh_paths
  cached,      \* cached[k]: the file cache of colo k, <<a, n>> to content
  listings,    \* listings[k]: the listing cache of k, <<a, dir>> to names
  sweep,       \* the maintenance run in progress: the meshes left to evict
  now          \* the clock; 0 stands for NULL

fileVars == <<files, mesh, cached, listings, sweep, now>>

classifyPath(n) ==
  CASE n.file = "evicted" -> "eviction-record"
    [] n.file = "manifest" -> "manifest-pointer"
    [] n.file = "manifest-1" -> "manifest-snapshot"
    [] n.file = "head" /\ n.dir = "changes" -> "head"
    [] n.file = "chg" /\ n.dir = "changes" -> "change-file"
    [] n.dir = "mainline" -> "mainline-snapshot"
    [] n.dir = "devices" -> "device-heartbeat"
    [] OTHER -> "other"

Semantic(n) == classifyPath(n) \in {"manifest-pointer", "head"}
Overwritten(n) == classifyPath(n) = "device-heartbeat"
Immutable(n) == ~Semantic(n) /\ ~Overwritten(n)

\* Only a manifest snapshot is served from the file cache.
isCacheableImmutablePathType(n) == classifyPath(n) = "manifest-snapshot"

\* A mutant of the next definition: the changes folder is listed from a cache.
isAuthoritativeCompactionListing_Mainline(dir) == dir = "mainline"

\* The folders compaction deletes from are never listed from a cache.
isAuthoritativeCompactionListing(dir) == dir \in {"changes", "mainline"}

\* A write that sends an invalidation.
shouldBroadcast(n) ==
  classifyPath(n) \notin {"device-heartbeat", "manifest-snapshot"}

\* The name p of a request stands for n: the file itself, or its folder.
Covers(p, n) ==
  \/ p = n
  \/ p.file = "*" /\ p.dir \in {n.dir, "", "/"}

\* The row of a mesh that has none.
NoMesh == [created |-> 0, lastWrite |-> 0, ttlDelete |-> 0, deleted |-> 0]

Without(f, keys) == Restrict(f, DOMAIN f \ keys)
With(f, key, v) == [k \in DOMAIN f \cup {key} |-> IF k = key THEN v ELSE f[k]]

KeysOf(a, p) == {k \in DOMAIN files : k[1] = a /\ Covers(p, k[2])}
NamesIn(a, dir) == {k[2] : k \in {q \in DOMAIN files : q[1] = a /\ q[2].dir = dir}}
Changes(a) == {n \in NamesIn(a, "changes") : classifyPath(n) = "change-file"}

\* The row of mesh_paths after an operation; a write revives the mesh.
\* Recovery wrappers belong to no remote root.
meshDelta(a, write) ==
  LET row == IF mesh[a] = NoMesh THEN [NoMesh EXCEPT !.created = now] ELSE mesh[a]
      new == IF write THEN [row EXCEPT !.lastWrite = now, !.deleted = 0] ELSE row
  IN  IF a = RecoveryStoragePrefix THEN mesh ELSE [mesh EXCEPT ![a] = new]

\* readEvictionRecord: what evicted.json of the mesh tells, if there is one.
readEvictionRecord(a) ==
  IF mesh[a].deleted = 0 THEN Absent
  ELSE IF mesh[a].deleted = mesh[a].ttlDelete THEN "idle" ELSE "operator"

\* An operation that changes the folder of n drops its listing in this colo.
listingCacheDelete(h, dir) ==
  listings' = [listings EXCEPT ![req[h].colo] = Without(@, {<<req[h].address, dir>>})]

Key(h) == <<req[h].address, req[h].name>>
Stored(h) == IF Key(h) \in DOMAIN files THEN files[Key(h)] ELSE Absent

-----------------------------------------------------------------------------
FilesInit ==
  /\ files = [k \in {} |-> 0]
  /\ mesh = [a \in Address |-> NoMesh]
  /\ cached = [k \in Colo |-> [f \in {} |-> 0]]
  /\ listings = [k \in Colo |-> [f \in {} |-> {}]]
  /\ sweep = [todo |-> {}, at |-> 0]
  /\ now = 1

\* handleGetFile, handleMetadata and the recovery route read alike.
Reading(h) ==
  \/ At(h, "file", "GET", "start")
  \/ At(h, "metadata", "POST", "start")
  \/ At(h, "recovery", "GET", "start")

\* opGetFile: a cached snapshot is served without the row store; a stored
\* file goes on to GetFill.  The eviction record is made from the mesh row.
GetFile(h) ==
  /\ Reading(h)
  /\ LET hit == /\ isCacheableImmutablePathType(req[h].name)
                /\ Key(h) \in DOMAIN cached[req[h].colo]
     IN  IF hit \/ Stored(h) = Absent \/ classifyPath(req[h].name) = "eviction-record"
         THEN Respond(h)
         ELSE Continue(h, "fill", Stored(h))
  /\ UNCHANGED <<files, mesh, cached, listings, sweep, now, load, budget>>

\* The rest of opGetFile: the snapshot that was read enters the cache.
GetFill(h) ==
  /\ req[h].pc = "fill" /\ req[h].op \in {"file", "metadata", "recovery"}
  /\ cached' = IF isCacheableImmutablePathType(req[h].name)
               THEN [cached EXCEPT ![req[h].colo] = With(@, Key(h), req[h].seen)]
               ELSE cached
  /\ mesh' = meshDelta(req[h].address, FALSE)
  /\ Respond(h)
  /\ UNCHANGED <<files, listings, sweep, now, load, budget>>

\* opPutImmutable: INSERT OR IGNORE and the mesh row, in one batch.
PutImmutable(h) ==
  /\ At(h, "file", "PUT", "start") \/ At(h, "recovery", "PUT", "start")
  /\ Immutable(req[h].name) /\ classifyPath(req[h].name) # "eviction-record"
  /\ files' = IF Stored(h) = Absent THEN With(files, Key(h), req[h].value) ELSE files
  /\ mesh' = meshDelta(req[h].address, TRUE)
  /\ Continue(h, IF Stored(h) = Absent THEN "wrote" ELSE "kept", Absent)
  /\ UNCHANGED <<cached, listings, sweep, now, load, budget>>

\* A mutant of the next definition: any value is accepted.
PutSemantic_Uncompared(h) ==
  /\ At(h, "file", "PUT", "start")
  /\ Semantic(req[h].name)
  /\ Continue(h, "write", Stored(h))
  /\ UNCHANGED <<files, mesh, cached, listings, sweep, now, load, budget>>

\* opPutSemantic reads the row and compares; an older value is refused.
PutSemantic(h) ==
  /\ At(h, "file", "PUT", "start")
  /\ Semantic(req[h].name)
  /\ IF Stored(h) # Absent /\ Stored(h) # 0 /\ req[h].value # 0 /\ req[h].value < Stored(h)
     THEN Respond(h)
     ELSE Continue(h, "write", Stored(h))
  /\ UNCHANGED <<files, mesh, cached, listings, sweep, now, load, budget>>

\* The second batch of opPutSemantic, and opPutOverwrite.
PutOver(h) ==
  /\ \/ At(h, "file", "PUT", "write") /\ mesh' = meshDelta(req[h].address, FALSE)
     \/ At(h, "file", "PUT", "start") /\ Overwritten(req[h].name) /\ mesh' = mesh
  /\ files' = With(files, Key(h), req[h].value)
  /\ Continue(h, "wrote", Absent)
  /\ UNCHANGED <<cached, listings, sweep, now, load, budget>>

\* After the write: the caches of this colo, and the answer.
PutFinish(h) ==
  /\ req[h].op \in {"file", "recovery"} /\ req[h].pc \in {"wrote", "kept"}
  /\ IF req[h].pc = "wrote"
     THEN /\ listingCacheDelete(h, req[h].name.dir)
          /\ cached' = IF isCacheableImmutablePathType(req[h].name)
                       THEN [cached EXCEPT ![req[h].colo] = With(@, Key(h), req[h].value)]
                       ELSE cached
     ELSE UNCHANGED <<listings, cached>>
  /\ Respond(h)
  /\ UNCHANGED <<files, mesh, sweep, now, load, budget>>

\* handleListFiles and handleListFolders list alike; so does ensure-folder.
Listing(h) == req[h].op \in {"list-files", "list-folders", "ensure-folder"}

\* opListChildren.
ListFiles(h) ==
  /\ req[h].pc = "start" /\ Listing(h)
  /\ LET a == req[h].address
         dir == req[h].name.dir
         hit == /\ ~isAuthoritativeCompactionListing(dir)
                /\ <<a, dir>> \in DOMAIN listings[req[h].colo]
     IN  IF hit
         THEN Continue(h, "listed", listings[req[h].colo][<<a, dir>>])
         ELSE Continue(h, IF isAuthoritativeCompactionListing(dir) THEN "listed" ELSE "fill",
                       NamesIn(a, dir))
  /\ UNCHANGED <<files, mesh, cached, listings, sweep, now, load, budget>>

\* A listing that was read enters the cache of this colo.
ListFill(h) ==
  /\ req[h].pc = "fill" /\ Listing(h)
  /\ listings' = [listings EXCEPT ![req[h].colo] =
                    With(@, <<req[h].address, req[h].name.dir>>, req[h].seen)]
  /\ Continue(h, "listed", req[h].seen)
  /\ UNCHANGED <<files, mesh, cached, sweep, now, load, budget>>

ListDone(h) ==
  /\ req[h].pc = "listed"
  /\ Respond(h)
  /\ UNCHANGED <<files, mesh, cached, listings, sweep, now, load, budget>>

\* opDeletePath selects the rows it will report, and then deletes.
DeleteSelect(h) ==
  /\ At(h, "file", "DELETE", "start")
  /\ classifyPath(req[h].name) # "eviction-record"
  /\ Continue(h, "remove", KeysOf(req[h].address, req[h].name))
  /\ UNCHANGED <<files, mesh, cached, listings, sweep, now, load, budget>>

\* Nothing found is answered at once, except for a wipe of the address.
\* A change file that is gone is no longer owed to a listing.
DeleteRemove(h) ==
  /\ At(h, "file", "DELETE", "remove")
  /\ LET gone == KeysOf(req[h].address, req[h].name)
     IN  /\ files' = Without(files, gone)
         /\ req' = [g \in Handler |->
              IF g = h
              THEN IF gone = {} /\ req[h].name.dir # "/" THEN Idle
                   ELSE [req[h] EXCEPT !.pc = "finish"]
              ELSE IF req[g] = Idle THEN Idle
              ELSE [req[g] EXCEPT !.due = @ \ gone]]
  /\ UNCHANGED <<mesh, cached, listings, sweep, now, load, budget>>

\* The rest of opDeletePath.  A wipe marks the mesh as deleted, at a time of
\* its own: two evictions in one millisecond are not considered.
DeleteFinish(h) ==
  /\ At(h, "file", "DELETE", "finish")
  /\ LET a == req[h].address
         wipe == req[h].name.dir = "/"
     IN  /\ cached' = [cached EXCEPT ![req[h].colo] = Without(@, req[h].seen)]
         /\ IF wipe
            THEN /\ now < MaxTime
                 /\ now' = now + 1
                 /\ mesh' = IF mesh[a] = NoMesh THEN mesh
                            ELSE [mesh EXCEPT ![a].deleted = now + 1]
            ELSE now' = now /\ mesh' = meshDelta(a, FALSE)
         /\ listingCacheDelete(h, IF req[h].name.file # "*" THEN req[h].name.dir
                                  ELSE IF req[h].name.dir \in {"", "/"} THEN "/" ELSE "")
  /\ Respond(h)
  /\ UNCHANGED <<files, sweep, load, budget>>

\* The eviction record is read-only.
RefuseRecord(h) ==
  /\ req[h].pc = "start" /\ req[h].op = "file" /\ req[h].method \in {"PUT", "DELETE"}
  /\ classifyPath(req[h].name) = "eviction-record"
  /\ Respond(h)
  /\ UNCHANGED <<files, mesh, cached, listings, sweep, now, load, budget>>

-----------------------------------------------------------------------------
\* When the mesh was last written, or else created.
idleSince(a) == IF mesh[a].lastWrite # 0 THEN mesh[a].lastWrite ELSE mesh[a].created

\* The schedule sweeps every mesh, the operation run-maintenance one.
SweepScopes == {Address} \cup {{a} : a \in Address}

\* runMaintenance reads the rows and picks the idle meshes ...
SweepSelect ==
  /\ sweep.todo = {}
  /\ \E scope \in SweepScopes :
     LET idle == {a \in scope :   /\ mesh[a] # NoMesh
                                  /\ mesh[a].deleted = 0
                                  /\ idleSince(a) + PathTtl <= now}
     IN  idle # {} /\ sweep' = [todo |-> idle, at |-> now]
  /\ UNCHANGED <<files, mesh, cached, listings, now, req, load, budget>>

\* ... and evicts them one batch at a time, whatever was written since.
SweepEvict ==
  \E a \in sweep.todo :
    LET gone == {k \in DOMAIN files : k[1] = a}
    IN  /\ files' = Without(files, gone)
        /\ mesh' = [mesh EXCEPT ![a].deleted = sweep.at, ![a].ttlDelete = sweep.at]
        /\ sweep' = [sweep EXCEPT !.todo = @ \ {a}]
        /\ req' = [g \in Handler |-> IF req[g] = Idle THEN Idle
                                     ELSE [req[g] EXCEPT !.due = @ \ gone]]
        /\ UNCHANGED <<cached, listings, now, load, budget>>

\* The scheduled event ends early.
SweepKilled ==
  /\ sweep.todo # {}
  /\ sweep' = [sweep EXCEPT !.todo = {}]
  /\ UNCHANGED <<files, mesh, cached, listings, now, req, load, budget>>

\* A cached listing reaches its time to live.
ListingExpires ==
  \E k \in Colo : \E f \in DOMAIN listings[k] :
    /\ listings' = [listings EXCEPT ![k] = Without(@, {f})]
    /\ UNCHANGED <<files, mesh, cached, sweep, now, req, load, budget>>

Tick ==
  /\ now < MaxTime
  /\ now' = now + 1
  /\ UNCHANGED <<files, mesh, cached, listings, sweep, req, load, budget>>

FileStep(h) ==
  \/ GetFile(h) \/ GetFill(h)
  \/ PutImmutable(h) \/ PutSemantic(h) \/ PutOver(h) \/ PutFinish(h)
  \/ ListFiles(h) \/ ListFill(h) \/ ListDone(h)
  \/ DeleteSelect(h) \/ DeleteRemove(h) \/ DeleteFinish(h) \/ RefuseRecord(h)

HostStep == SweepSelect \/ SweepEvict \/ SweepKilled \/ ListingExpires \/ Tick

-----------------------------------------------------------------------------
\* A listing of the change files that is answered names every change file
\* that was stored when it was asked for and not deleted since, whatever
\* colo wrote it and whatever any colo has cached: opListChildren must not
\* serve the folders of compaction from a cache.
ListingsAreCurrent ==
  \A h \in Handler :
    req[h].pc = "listed" /\ req[h].name.dir = "changes"
      => \A k \in req[h].due : k[1] = req[h].address => k[2] \in req[h].seen

\* A recovery wrapper stays, with its first content: neither DELETE nor the
\* sweep of idle meshes nor another PUT reaches the reserved prefix
\* (handleRecoveryRequest, isReservedMeshStorageAddress).
RecoveryWrappersKept ==
  [][\A k \in DOMAIN files :
       k[1] = RecoveryStoragePrefix => k \in DOMAIN files' /\ files'[k] = files[k]]_fileVars

\* An eviction record with the reason "idle" (readEvictionRecord) describes
\* a mesh without change files and snapshots: the first one written after
\* the sweep withdraws it.
IdleRecordTrue ==
  \A a \in Address :
    readEvictionRecord(a) = "idle"
      => \A k \in DOMAIN files : k[1] = a => ~Immutable(k[2])

\* What a client may believe of the host's answers: a listing misses nothing,
\* and a mesh that is said to be evicted as idle is empty.
AnswersTrue == ListingsAreCurrent /\ IdleRecordTrue

\* A head or a pointer is lowered only by a handler that read it before
\* another one wrote it (opPutSemantic reads, compares and writes in two
\* steps), or over a content that does not parse.
LoweredOnlyByRace ==
  [][\A k \in DOMAIN files \cap DOMAIN files' :
       Semantic(k[2]) /\ files'[k] < files[k] /\ files'[k] # 0
         => \E h \in Handler : /\ req[h].pc = "write"
                               /\ Key(h) = k
                               /\ req[h].seen # files[k]]_fileVars
=============================================================================
