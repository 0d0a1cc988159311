--------------------------- MODULE RemoteFolders ---------------------------
(***************************************************************************)
(* The calls of storage adapters that take several requests: those of the  *)
(* Google Drive adapter, which finds objects by name and caches their ids, *)
(* and the listing of the S3 adapter, which reads pages.  The calls of the *)
(* other adapters are one request each.                                    *)
(*                                                                         *)
(* One mailbox folder is modelled.  Drive, the external service, may hold  *)
(* several objects of one name and returns any of them first.              *)
(***************************************************************************)
EXTENDS Presence, Naturals, FiniteSets

CONSTANTS
    Client,         \* the adapters that share the mailbox
    FileName,       \* names of files in the folder, numbers in the order of names
    PageSize,       \* what Drive and S3 return at most in one answer
    MaxObjects,     \* bound: ids Drive hands out
    MaxRequests,    \* bound: calls the engines make
    MaxErrors       \* bound: requests that are answered with an error

ASSUME FoldersAssumption ==
    /\ FileName \subseteq Nat /\ PageSize \in Nat \ {0}
    /\ MaxObjects \in Nat /\ MaxRequests \in Nat /\ MaxErrors \in Nat

VARIABLES
    service,    \* "drive" or "s3"
    obj,        \* obj[i]: the Drive object that got id i, live or deleted
    bucket,     \* the files S3 has
    cache,      \* cache[c]: folderIdCache and fileIdCache
    op,         \* op[c]: the call c is in, or the last listing it returned
    left,       \* calls and errors left
    span,       \* for the properties: files there throughout and sometime in c's call
    twin        \* for the properties: how Drive first got two objects of one name

folderVars == <<service, obj, bucket, cache, op, left, span, twin>>

Id == 1..MaxObjects
Folder == 0
Methods == {"ensure", "write", "read", "delete", "list"}

Unused == {i \in Id : obj[i] = Absent}
Live == {i \in Id \ Unused : obj[i].live}
Folders == {i \in Live : obj[i].name = Folder}
FilesIn(d) == {i \in Live : obj[i].name # Folder /\ obj[i].parent = d}
Named(x, d) == {i \in Live : obj[i].name = x /\ obj[i].parent = d}
Present == IF service = "s3" THEN bucket ELSE {obj[i].name : i \in Live}

Quiet == [kind |-> "none", name |-> Absent, pc |-> "none", id |-> Absent,
          listed |-> {}, tokens |-> {}, blind |-> FALSE]
NoCache == [folder |-> Absent, file |-> [x \in FileName |-> Absent]]

\* The state is well formed: folderIdCache holds ids of folders and
\* fileIdCache, for each path, an id that Drive gave an object of that name.
FoldersTypeOK ==
    /\ service \in {"drive", "s3"} /\ bucket \subseteq FileName
    /\ obj \in [Id -> [name : FileName \cup {Folder}, parent : Id \cup {Folder}, live : BOOLEAN] \cup {Absent}]
    /\ cache \in [Client -> [folder : Id \cup {Absent}, file : [FileName -> Id \cup {Absent}]]]
    /\ \A c \in Client : /\ cache[c].folder # Absent => obj[cache[c].folder].name = Folder
                        /\ \A x \in FileName : cache[c].file[x] # Absent => obj[cache[c].file[x]].name = x
    /\ \A c \in Client : op[c].kind \in Methods \cup {"none", "listed"} /\ op[c].listed \subseteq FileName
    /\ left \in [calls : 0..MaxRequests, errors : 0..MaxErrors]

\* A mailbox with some files, which no adapter has cached yet.
FoldersInit ==
    /\ service \in {"drive", "s3"}
    /\ \E F \in SUBSET FileName :
         /\ bucket = IF service = "s3" THEN F ELSE {}
         /\ \/ obj = [i \in Id |-> Absent]
            \/ /\ service = "drive"
               /\ obj = [i \in Id |-> IF i = 1 THEN [name |-> Folder, parent |-> Folder, live |-> TRUE]
                                      ELSE IF i - 1 \in F THEN [name |-> i - 1, parent |-> 1, live |-> TRUE] ELSE Absent]
    /\ cache = [c \in Client |-> NoCache] /\ op = [c \in Client |-> Quiet]
    /\ left = [calls |-> MaxRequests, errors |-> MaxErrors]
    /\ span = [c \in Client |-> [must |-> {}, may |-> {}]] /\ twin = Absent

-----------------------------------------------------------------------------
(* Requests and their answers *)

\* An access decision is an error of its own kind; 404 is one only where a
\* route stands for the mesh.
kindForStatus(status, notFoundIsAccess) ==
    CASE status = 401 -> "unauthenticated"
      [] status = 403 -> "forbidden"
      [] status = 404 /\ notFoundIsAccess -> "not-found"
      [] status = 429 -> "rate-limited"
      [] status = 503 -> "policy-unavailable"
      [] OTHER -> Absent

throwIfAccessDenied(status) == kindForStatus(status, FALSE) # Absent

Errors == {403, 500}

Answered(status) ==
    \/ status = 200 /\ UNCHANGED left
    \/ status \in Errors /\ left.errors > 0 /\ left' = [left EXCEPT !.errors = @ - 1]

At(c, pc) == op[c].pc = pc
Goes(c, pc) == op' = [op EXCEPT ![c].pc = pc]
Returns(c) == op' = [op EXCEPT ![c] = Quiet]
Throws(c) == Returns(c)

-----------------------------------------------------------------------------
(* Google Drive *)

\* A mutant of the next definition: a write whose id is not cached creates.
resolveFileId_Cached(c, kind, x) ==
    CASE x # Absent /\ cache[c].file[x] # Absent -> "act"
      [] kind = "write" /\ cache[c].folder # Absent -> "create"
      [] cache[c].folder # Absent -> "file"
      [] OTHER -> "folder"

\* Where the walk to a file begins: at its id, in its folder, or at the root.
resolveFileId(c, kind, x) ==
    CASE x # Absent /\ cache[c].file[x] # Absent -> "act"
      [] cache[c].folder # Absent -> "file"
      [] OTHER -> "folder"

FirstRequest(c, kind, x) ==
    CASE kind = "ensure" -> "ensure"
      [] kind = "list"   -> IF cache[c].folder # Absent THEN "list" ELSE "folder"
      [] OTHER           -> resolveFileId(c, kind, x)

\* A call; ensureFolder() of a folder that is cached returns at once.
Calls(c, kind, x) ==
    /\ op[c].kind \in {"none", "listed"} /\ left.calls > 0
    /\ service = "drive" /\ ~(kind = "ensure" /\ cache[c].folder # Absent)
    /\ left' = [left EXCEPT !.calls = @ - 1]
    /\ op' = [op EXCEPT ![c] = [Quiet EXCEPT !.kind = kind, !.name = x, !.pc = FirstRequest(c, kind, x),
                                             !.id = IF x = Absent THEN Absent ELSE cache[c].file[x]]]
    /\ UNCHANGED <<service, obj, bucket, cache, twin>>

\* What a lookup finds: any match, and nothing when Drive answers an error
\* that is no access decision, unless its body is no JSON.
Finds(c, status, M, found(_), none) ==
    IF throwIfAccessDenied(status) THEN Throws(c) /\ UNCHANGED cache
    ELSE IF status = 200 /\ M # {} THEN \E i \in M : found(i)
    ELSE (none \/ (status # 200 /\ Throws(c))) /\ UNCHANGED cache

\* The id of the folder or of a file is cached by path.
Cached(c, x, i) ==
    IF x = Folder THEN [cache EXCEPT ![c].folder = i] ELSE [cache EXCEPT ![c].file[x] = i]

\* A call that is told there is nothing, although there is.
Blinded(c, M, pc) == op' = [op EXCEPT ![c].pc = pc, ![c].blind = @ \/ M # {}]

\* resolveFolderId(): the folder from the root, on the way to a file, a
\* listing or, once more, to the parent of a file that is created.
resolveFolderId(c, status) ==
    LET found(i) == /\ cache' = Cached(c, Folder, i)
                    /\ Goes(c, CASE At(c, "parent") -> "create"
                                 [] op[c].kind = "list" -> "list"
                                 [] OTHER -> "file")
        none == CASE At(c, "parent") -> Blinded(c, Folders, "ensure")
                  [] op[c].kind = "write" -> Blinded(c, Folders, "parent")
                  [] op[c].kind = "list" -> op' = [op EXCEPT ![c].kind = "listed", ![c].pc = "none", ![c].blind = @ \/ Folders # {}]
                  [] OTHER -> Returns(c)
    IN  /\ At(c, "folder") \/ At(c, "parent")
        /\ Answered(status) /\ Finds(c, status, Folders, found, none)
        /\ UNCHANGED <<service, obj, bucket, twin>>

\* The last part of the walk; a write that finds nothing creates.
FindFile(c, status) ==
    LET d == cache[c].folder
        M == Named(op[c].name, d)
        found(i) == /\ cache' = Cached(c, op[c].name, i)
                    /\ op' = [op EXCEPT ![c].pc = "act", ![c].id = i]
        none == IF op[c].kind = "write" THEN Blinded(c, M, "create") ELSE Returns(c)
    IN  /\ At(c, "file")
        /\ Answered(status) /\ Finds(c, status, M, found, none)
        /\ UNCHANGED <<service, obj, bucket, twin>>

\* ensureFolder() looks again, and creates the folder it does not find.
EnsureFolder(c, status) ==
    LET found(i) == /\ cache' = Cached(c, Folder, i)
                    /\ IF op[c].kind = "write" THEN Goes(c, "create") ELSE Returns(c)
    IN  /\ At(c, "ensure")
        /\ Answered(status) /\ Finds(c, status, Folders, found, Blinded(c, Folders, "mkdir"))
        /\ UNCHANGED <<service, obj, bucket, twin>>

Creates(c, x, d, i) ==
    /\ obj' = [obj EXCEPT ![i] = [name |-> x, parent |-> d, live |-> TRUE]]
    /\ twin' = IF twin = Absent /\ Named(x, d) # {}
               THEN [blind |-> op[c].blind, known |-> x \in span[c].must] ELSE twin

CreateFolder(c, status) ==
    /\ At(c, "mkdir") /\ Answered(status)
    /\ IF status = 200
       THEN LET i == CHOOSE u \in Unused : \A v \in Unused : u <= v IN
            /\ Unused # {} /\ Creates(c, Folder, Folder, i)
            /\ cache' = Cached(c, Folder, i)
            /\ IF op[c].kind = "write" THEN Goes(c, "create") ELSE Returns(c)
       ELSE Throws(c) /\ UNCHANGED <<obj, cache, twin>>
    /\ UNCHANGED <<service, bucket>>

\* The multipart upload, into the folder whose id is cached.
CreateFile(c, status) ==
    LET x == op[c].name IN
    /\ At(c, "create") /\ Answered(status)
    /\ IF status = 200
       THEN LET i == CHOOSE u \in Unused : \A v \in Unused : u <= v IN
            /\ Unused # {} /\ Creates(c, x, cache[c].folder, i)
            /\ cache' = Cached(c, x, i)
            /\ Returns(c)
       ELSE Throws(c) /\ UNCHANGED <<obj, cache, twin>>
    /\ UNCHANGED <<service, bucket>>

\* A read or an overwrite by id; it throws when the object is gone, and the
\* id stays cached.
ActOnFile(c, status) ==
    /\ At(c, "act") /\ op[c].kind # "delete"
    /\ Answered(status) /\ Returns(c)
    /\ UNCHANGED <<service, obj, bucket, cache, twin>>

\* A deletion by id counts every answer but an access decision as done.
DeleteById(c, status) ==
    /\ At(c, "act") /\ op[c].kind = "delete"
    /\ Answered(status)
    /\ IF throwIfAccessDenied(status) THEN UNCHANGED <<obj, cache>>
       ELSE /\ obj' = IF status = 200 THEN [obj EXCEPT ![op[c].id].live = FALSE] ELSE obj
            /\ cache' = [cache EXCEPT ![c].file[op[c].name] = Absent]
    /\ Returns(c)
    /\ UNCHANGED <<service, bucket, twin>>

\* The files of the folder, one page of them; their ids go to the cache.
listFiles(c, status) ==
    LET F == FilesIn(cache[c].folder)
        Pages == {G \in SUBSET F : Cardinality(G) = PageSize}
        Got(G) == /\ op' = [op EXCEPT ![c].kind = "listed", ![c].pc = "none", ![c].blind = G # F,
                                      ![c].listed = {obj[i].name : i \in G}]
                  /\ \E pick \in [{obj[i].name : i \in G} -> G] :
                       /\ \A x \in DOMAIN pick : obj[pick[x]].name = x
                       /\ cache' = [cache EXCEPT ![c].file =
                                      [x \in FileName |-> IF x \in DOMAIN pick THEN pick[x] ELSE @[x]]]
    IN  /\ At(c, "list") /\ Answered(status)
        /\ IF status = 200 THEN \E G \in IF Cardinality(F) <= PageSize THEN {F} ELSE Pages : Got(G)
           ELSE Throws(c) /\ UNCHANGED cache
        /\ UNCHANGED <<service, obj, bucket, twin>>

\* An application may empty the caches at any time.
clearCache(c) ==
    /\ service = "drive" /\ op[c].kind = "none" /\ cache[c] # NoCache /\ left.calls > 0
    /\ left' = [left EXCEPT !.calls = @ - 1]
    /\ cache' = [cache EXCEPT ![c] = NoCache]
    /\ UNCHANGED <<service, obj, bucket, op, twin>>

-----------------------------------------------------------------------------
(* S3 *)

\* A put and a deletion are one request each and name their object; one that
\* is answered with an error changes nothing.
S3Request(c, kind, x) ==
    /\ service = "s3" /\ op[c].kind \in {"none", "listed"} /\ left.calls > 0
    /\ left' = [left EXCEPT !.calls = @ - 1]
    /\ bucket' = IF kind = "write" THEN bucket \cup {x} ELSE bucket \ {x}
    /\ Returns(c)
    /\ UNCHANGED <<service, obj, cache, twin>>

S3List(c) ==
    /\ service = "s3" /\ op[c].kind \in {"none", "listed"} /\ left.calls > 0
    /\ left' = [left EXCEPT !.calls = @ - 1]
    /\ op' = [op EXCEPT ![c] = [Quiet EXCEPT !.kind = "list", !.pc = "page"]]
    /\ UNCHANGED <<service, obj, bucket, cache, twin>>

\* The service returns the names after the token in order and, while there
\* are more, the last one as the next token.
After(tok) == {x \in bucket : x > tok}
Page(tok) == {x \in After(tok) : Cardinality({y \in After(tok) : y <= x}) <= PageSize}
Last(S) == CHOOSE x \in S : \A y \in S : y <= x

\* The pages are put together by name.
Collected(c, page) == op[c].listed \cup page

\* A page: the listing ends when no token comes with it, and throws on a bad
\* answer: an error, a token it has seen, a truncated page without a token.
listPage(c, status) ==
    LET tok == IF op[c].tokens = {} THEN 0 ELSE Last(op[c].tokens)
        page == Page(tok)
    IN  /\ At(c, "page") /\ Answered(status)
        /\ IF status # 200 THEN Throws(c)
           ELSE op' = [op EXCEPT ![c].listed = Collected(c, page),
                                 ![c].tokens = IF page = After(tok) THEN @ ELSE @ \cup {Last(page)},
                                 ![c].kind = IF page = After(tok) THEN "listed" ELSE @,
                                 ![c].pc = IF page = After(tok) THEN "none" ELSE @]
        /\ UNCHANGED <<service, obj, bucket, cache, twin>>

\* What is there throughout a call, and what at some time in it.
Watches ==
    span' = [c \in Client |->
               IF op[c].pc = "none" /\ op'[c].pc # "none" THEN [must |-> Present', may |-> Present']
               ELSE IF op[c].pc # "none" /\ op'[c].kind # "none"
               THEN [must |-> span[c].must \cap Present', may |-> span[c].may \cup Present']
               ELSE IF op'[c].kind = "listed" THEN span[c]
               ELSE [must |-> {}, may |-> {}]]

Requests(c, status) ==
    \/ resolveFolderId(c, status) \/ FindFile(c, status) \/ EnsureFolder(c, status)
    \/ CreateFolder(c, status) \/ CreateFile(c, status) \/ ActOnFile(c, status) \/ DeleteById(c, status)
    \/ listFiles(c, status) \/ listPage(c, status)

FoldersNext ==
    /\ \E c \in Client :
         \/ \E x \in FileName, kind \in {"write", "read", "delete"} : Calls(c, kind, x)
         \/ Calls(c, "ensure", Absent) \/ Calls(c, "list", Absent)
         \/ \E status \in {200} \cup Errors : Requests(c, status)
         \/ \E x \in FileName, kind \in {"write", "delete"} : S3Request(c, kind, x)
         \/ S3List(c)
         \/ clearCache(c)
    /\ Watches

-----------------------------------------------------------------------------
(* Properties *)

\* Drive gets two objects of one name in one folder only when no such object
\* was there all through the call that made the second one, or a failed lookup
\* told that call there is none: a call always finds what nobody deletes or
\* creates meanwhile, by name or by the id in its cache (writeFile,
\* ensureFolder).
TwinsOnlyByRace == twin # Absent => twin.blind \/ ~twin.known

\* A listing that returns holds every file that was in the folder from its
\* call to its return, and no file that never was in that time, whatever other
\* members write and delete between the pages (S3 list), and on Drive while
\* there are no twins and the folder fits one page (listFiles).
ListingSpans ==
    \A c \in Client :
      op[c].kind = "listed" /\ twin = Absent /\ ~op[c].blind =>
        span[c].must \ {Folder} \subseteq op[c].listed /\ op[c].listed \subseteq span[c].may

\* What the adapters promise of a folder that several members change at once
\* (google-drive.ts, s3.ts).
FoldersInv == FoldersTypeOK /\ TwinsOnlyByRace /\ ListingSpans
=============================================================================
