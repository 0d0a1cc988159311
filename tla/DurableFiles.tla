---------------------------- MODULE DurableFiles ----------------------------
(***************************************************************************)
(* Durable application files as the engines and their adapters keep them:  *)
(* putFile(), openFile(), getFileMetadata() and deleteFile() of the web    *)
(* engine and of the Python engine, over a store that records seal guards  *)
(* (the Worker and the memory adapter), over WebDAV, which keeps metadata  *)
(* in a file of its own, and over a plain object store.                    *)
(*                                                                         *)
(* A content stands for its bytes, its size and its digest, and every      *)
(* upload has its own, numbered by the calls left; a remote name           *)
(* is the file's path and the mesh key it is hidden under.  StoredFiles    *)
(* models what the host itself does with a request.                        *)
(***************************************************************************)
EXTENDS Presence, Naturals

CONSTANTS
    Member,     \* the engines that share the mesh
    File,       \* application paths
    SealKey,    \* the extra keys of sealed files
    MaxCalls    \* bound: calls the application makes

ASSUME DurableAssumption == MaxCalls \in Nat

VARIABLES
    store,      \* "guarded", "webdav" or "plain"
    keys,       \* keys[m]: [port, key]: the mesh key, Absent once it was cleared
    object,     \* object[n]: the frame stored under the remote name n
    side,       \* side[n]: the content the store's metadata of n describes
    guard,      \* guard[n]: the seal guard recorded for n
    call,       \* call[m]: the call m is in
    refs,       \* the references rows hold
    calls,      \* calls the application still makes
    got,        \* for the properties: what m's open returned
    kept,       \* for the properties: the seal of the last upload that ran alone on n
    alone,      \* for the properties: the names whose last call ran alone
    torn        \* for the properties: the names of uploads that lost their key on the way

durableVars == <<store, keys, object, side, guard, call, refs, calls, got, kept, alone, torn>>

MeshKey == "mesh"
Content == 1..MaxCalls
Name == [key : {MeshKey, Absent}, file : File]
Frame == [key : {MeshKey, Absent}, digest : Content, seal : SealKey \cup {Absent}, body : Content]
Ref == [file : File, digest : Content]

\* A frame is never taken for a missing object.
ASSUME FrameAssumption == Absent \notin Frame

Idle ==
    [op |-> "none", pc |-> "none", file |-> Absent, name |-> Absent, content |-> Absent,
     seal |-> Absent, ref |-> Absent, frame |-> Absent, seen |-> Absent, alone |-> TRUE, sound |-> FALSE]

DurableTypeOK ==
    /\ store \in {"guarded", "webdav", "plain"}
    /\ keys \in [Member -> [port : {"web", "python"}, key : {MeshKey, Absent}]]
    /\ object \in [Name -> Frame \cup {Absent}]
    /\ side \in [Name -> Content \cup {Absent}]
    /\ guard \in [Name -> SealKey \cup {Absent}]
    /\ \A m \in Member : call[m] # Idle => call[m].name \in Name
    /\ refs \subseteq Ref /\ calls \in 0..MaxCalls
    /\ kept \in [Name -> SealKey \cup {Absent}] /\ alone \subseteq Name /\ torn \subseteq Name

DurableInit ==
    /\ store \in {"guarded", "webdav", "plain"}
    /\ keys \in [Member -> [port : {"web", "python"}, key : {MeshKey}]]
    /\ store = "webdav" => \A m \in Member : keys[m].port = "web"
    /\ object = [n \in Name |-> Absent] /\ side = [n \in Name |-> Absent]
    /\ guard = [n \in Name |-> Absent] /\ kept = [n \in Name |-> Absent]
    /\ call = [m \in Member |-> Idle] /\ refs = {} /\ calls = MaxCalls
    /\ got = [m \in Member |-> Absent] /\ alone = {} /\ torn = {}

-----------------------------------------------------------------------------
(* Names, frames and guards *)

\* The remote name: a keyed hash of the path while the engine has the key.
storedFilePath(m, f) == [key |-> keys[m].key, file |-> f]

\* A mutant of the next definition: a sealed body is not wrapped again.
encodeStoredFile_SealOnly(m, c, s) ==
    [key |-> IF s = Absent THEN keys[m].key ELSE Absent, digest |-> c, seal |-> s, body |-> c]

\* The frame, wrapped under the key the engine has at this moment.
encodeStoredFile(m, c, s) == [key |-> keys[m].key, digest |-> c, seal |-> s, body |-> c]

\* The frame opens under the key it was wrapped with, and the body under its seal.
decodeStoredFile(m, frame) == frame.key = keys[m].key

\* A mutant of the next definition: a caller without a guard is let through.
requireSealGuard_Open(n, s) == guard[n] \in {Absent, s} \/ s = Absent

\* An unsealed object accepts any caller, a sealed one its own key.
requireSealGuard(n, s) == guard[n] \in {Absent, s}

\* openFile().open() compares the plaintext with the reference's digest.
Verified(ref, frame) == ref # Absent => frame.body = ref

\* _verified_body() compares it with the digest of the frame's own header.
_verified_body(frame) == frame.body = frame.digest

-----------------------------------------------------------------------------
(* Calls *)

Active(m, pc) == call[m] # Idle /\ call[m].pc = pc
Step(m, rec) == call' = [call EXCEPT ![m] = rec]
To(m, pc) == Step(m, [call[m] EXCEPT !.pc = pc])

\* Calls under the same name that overlap are no longer alone.
Starts(m, n, rec) ==
    /\ call[m] = Idle /\ calls > 0 /\ calls' = calls - 1
    /\ LET with == {x \in Member : call[x] # Idle /\ call[x].name = n} IN
       call' = [x \in Member |->
                  IF x = m THEN [rec EXCEPT !.name = n, !.alone = with = {}, !.sound = n \in alone]
                  ELSE IF x \in with THEN [call[x] EXCEPT !.alone = FALSE] ELSE call[x]]
    /\ alone' = alone \ {n} /\ got' = [got EXCEPT ![m] = Absent]
    /\ UNCHANGED <<store, keys, object, side, guard, refs, kept, torn>>

\* The call returns or throws; sound says whether its name is in order again.
Ends(m, sound) ==
    /\ Step(m, Idle)
    /\ alone' = IF call[m].alone /\ sound THEN alone \cup {call[m].name} ELSE alone

First == IF store = "guarded" THEN "check" ELSE "body"

\* A caller that presents the seal may replace or remove what was kept under it.
Released(m) ==
    kept' = [kept EXCEPT ![call[m].name] = IF @ = call[m].seal THEN Absent ELSE @]

\* putFile() names the object, and after more awaits encodes it ...
putFile(m, f, s) ==
    /\ keys[m].port = "web"
    /\ Starts(m, storedFilePath(m, f),
             [Idle EXCEPT !.op = "put", !.file = f, !.content = calls, !.seal = s, !.pc = "encode"])

Encode(m) ==
    /\ Active(m, "encode")
    /\ Step(m, [call[m] EXCEPT !.pc = First,
                               !.frame = encodeStoredFile(m, call[m].content, call[m].seal)])
    /\ UNCHANGED <<store, keys, object, side, guard, refs, calls, got, kept, alone, torn>>

\* ... put_file() does both without an await.
put_file(m, f, s) ==
    /\ keys[m].port = "python"
    /\ Starts(m, storedFilePath(m, f),
             [Idle EXCEPT !.op = "put", !.file = f, !.content = calls, !.seal = s, !.pc = First,
                          !.frame = encodeStoredFile(m, calls, s)])

deleteFile(m, f, s) ==
    /\ keys[m].port = "web"
    /\ Starts(m, storedFilePath(m, f), [Idle EXCEPT !.op = "delete", !.file = f, !.seal = s, !.pc = First])

delete_file(m, f, s) ==
    /\ keys[m].port = "python"
    /\ Starts(m, storedFilePath(m, f), [Idle EXCEPT !.op = "delete", !.file = f, !.seal = s, !.pc = First])

\* A store with guards refuses a caller without the seal.  The Worker answers
\* a deletion of what it has no row for at once.
Check(m) ==
    LET n == call[m].name IN
    /\ Active(m, "check")
    /\ \/ requireSealGuard(n, call[m].seal) /\ To(m, "body") /\ UNCHANGED alone
       \/ ~requireSealGuard(n, call[m].seal) /\ Ends(m, call[m].sound)
       \/ call[m].op = "delete" /\ side[n] = Absent /\ Ends(m, call[m].sound)
    /\ UNCHANGED <<store, keys, object, side, guard, refs, calls, got, kept, torn>>

\* What the caller of putFile() learns, and what an upload that ran alone keeps.
Uploaded(m) ==
    /\ refs' = refs \cup {[file |-> call[m].file, digest |-> call[m].content]}
    /\ kept' = [kept EXCEPT ![call[m].name] = IF call[m].alone THEN call[m].seal ELSE @]
    /\ Ends(m, TRUE)

PutBody(m) ==
    /\ Active(m, "body") /\ call[m].op = "put"
    /\ object' = [object EXCEPT ![call[m].name] = call[m].frame]
    /\ IF store = "plain" THEN Uploaded(m)
       ELSE Released(m) /\ To(m, IF store = "webdav" THEN "stat" ELSE "record") /\ UNCHANGED <<refs, alone>>
    /\ UNCHANGED <<store, keys, side, guard, calls, got, torn>>

\* WebDAV describes the object it finds after the upload.
Stat(m) ==
    LET o == object[call[m].name] IN
    /\ Active(m, "stat")
    /\ Step(m, [call[m] EXCEPT !.pc = "record",
                               !.seen = IF o = Absent THEN call[m].content ELSE o.body])
    /\ UNCHANGED <<store, keys, object, side, guard, refs, calls, got, kept, alone, torn>>

\* The metadata, and on a store with guards the guard beside it.
PutRecord(m) ==
    LET n == call[m].name IN
    /\ Active(m, "record") /\ call[m].op = "put"
    /\ side' = [side EXCEPT ![n] = IF store = "webdav" THEN call[m].seen ELSE call[m].content]
    /\ guard' = IF store = "guarded" THEN [guard EXCEPT ![n] = call[m].seal] ELSE guard
    /\ Uploaded(m)
    /\ UNCHANGED <<store, keys, object, calls, got, torn>>

DeleteBody(m) ==
    /\ Active(m, "body") /\ call[m].op = "delete"
    /\ object' = [object EXCEPT ![call[m].name] = Absent]
    /\ Released(m)
    /\ IF store = "plain" THEN Ends(m, TRUE) ELSE To(m, "record") /\ UNCHANGED alone
    /\ UNCHANGED <<store, keys, side, guard, refs, calls, got, torn>>

\* A mutant of the next definition: the metadata of a deleted file stays.
DeleteRecord_Kept(m) ==
    /\ Active(m, "record") /\ call[m].op = "delete"
    /\ guard' = [guard EXCEPT ![call[m].name] = Absent]
    /\ Ends(m, TRUE)
    /\ UNCHANGED <<store, keys, object, side, refs, calls, got, kept, torn>>

\* WebDAV swallows a failure to delete the metadata.
DeleteRecord(m) ==
    LET n == call[m].name IN
    /\ Active(m, "record") /\ call[m].op = "delete"
    /\ guard' = [guard EXCEPT ![n] = Absent]
    /\ \/ side' = [side EXCEPT ![n] = Absent] /\ Ends(m, TRUE)
       \/ store = "webdav" /\ Ends(m, FALSE) /\ UNCHANGED side
    /\ UNCHANGED <<store, keys, object, refs, calls, got, kept, torn>>

\* getFile() and openFile(), by path or by reference; getStoredFile() of WebDAV
\* writes the metadata back.
openFile(m, f, r, s) ==
    /\ keys[m].port = "web"
    /\ Starts(m, storedFilePath(m, f),
             [Idle EXCEPT !.op = "open", !.file = f, !.ref = r, !.seal = s, !.pc = "bytes"])

\* open_file() takes paths only.
open_file(m, f, s) ==
    /\ keys[m].port = "python"
    /\ Starts(m, storedFilePath(m, f), [Idle EXCEPT !.op = "open", !.file = f, !.seal = s, !.pc = "bytes"])

\* Both look for the metadata first, and then read the object.
getFileMetadata(m, f) ==
    /\ keys[m].port = "web"
    /\ Starts(m, storedFilePath(m, f), [Idle EXCEPT !.op = "describe", !.file = f, !.pc = "look"])

get_file_metadata(m, f) ==
    /\ keys[m].port = "python"
    /\ Starts(m, storedFilePath(m, f), [Idle EXCEPT !.op = "describe", !.file = f, !.pc = "look"])

Described(n) == IF side[n] # Absent THEN side[n] ELSE IF object[n] # Absent THEN object[n].body ELSE Absent

Look(m) ==
    /\ Active(m, "look")
    /\ IF Described(call[m].name) = Absent THEN Ends(m, call[m].sound)
       ELSE To(m, "bytes") /\ UNCHANGED alone
    /\ UNCHANGED <<store, keys, object, side, guard, refs, calls, got, kept, torn>>

Bytes(m) ==
    LET o == object[call[m].name] IN
    /\ Active(m, "bytes")
    /\ IF o = Absent THEN Ends(m, call[m].sound)
       ELSE /\ Step(m, [call[m] EXCEPT !.pc = IF store = "webdav" THEN "meta" ELSE "decode", !.frame = o])
            /\ UNCHANGED alone
    /\ UNCHANGED <<store, keys, object, side, guard, refs, calls, got, kept, torn>>

Meta(m) ==
    LET d == Described(call[m].name) IN
    /\ Active(m, "meta")
    /\ Step(m, [call[m] EXCEPT !.pc = IF d = Absent THEN "decode" ELSE "touch", !.seen = d])
    /\ UNCHANGED <<store, keys, object, side, guard, refs, calls, got, kept, alone, torn>>

\* The metadata read before, with one more use counted.
Touch(m) ==
    /\ Active(m, "touch")
    /\ side' = [side EXCEPT ![call[m].name] = call[m].seen]
    /\ To(m, "decode")
    /\ UNCHANGED <<store, keys, object, guard, refs, calls, got, kept, alone, torn>>

\* The frame under the mesh key, the body under the seal, and the digest.
Decode(m) ==
    LET frame == call[m].frame
        opens == /\ decodeStoredFile(m, frame)
                 /\ frame.seal \in {Absent, call[m].seal}
                 /\ IF keys[m].port = "web" THEN Verified(call[m].ref, frame) ELSE _verified_body(frame)
    IN
    /\ Active(m, "decode")
    /\ got' = IF call[m].op = "open" /\ opens
              THEN [got EXCEPT ![m] = [name |-> call[m].name, ref |-> call[m].ref, content |-> frame.body]]
              ELSE got
    /\ Ends(m, call[m].sound)
    /\ UNCHANGED <<store, keys, object, side, guard, refs, calls, kept, torn>>

\* The network fails, or the process stops, part of the way.
Breaks(m) ==
    /\ call[m] # Idle /\ call[m].pc # "encode"
    /\ Ends(m, FALSE)
    /\ UNCHANGED <<store, keys, object, side, guard, refs, calls, got, kept, torn>>

\* clearCredentials() turns the engine to plain names and plain frames at once.
clearCredentials(m) ==
    /\ keys[m] = [port |-> "web", key |-> MeshKey] /\ calls > 0 /\ calls' = calls - 1
    /\ keys' = [keys EXCEPT ![m].key = Absent]
    /\ torn' = IF Active(m, "encode") THEN torn \cup {call[m].name} ELSE torn
    /\ UNCHANGED <<store, object, side, guard, call, refs, got, kept, alone>>

DurableNext ==
    \E m \in Member :
      \/ \E f \in File :
           \/ \E s \in SealKey \cup {Absent} : putFile(m, f, s) \/ put_file(m, f, s)
           \/ \E s \in SealKey \cup {Absent} : deleteFile(m, f, s) \/ delete_file(m, f, s)
           \/ \E s \in SealKey \cup {Absent} : open_file(m, f, s)
           \/ \E s \in SealKey \cup {Absent}, r \in {x.digest : x \in {y \in refs : y.file = f}} \cup {Absent} :
                openFile(m, f, r, s)
           \/ getFileMetadata(m, f) \/ get_file_metadata(m, f)
      \/ Encode(m) \/ Check(m) \/ PutBody(m) \/ Stat(m) \/ PutRecord(m) \/ DeleteBody(m) \/ DeleteRecord(m)
      \/ Look(m) \/ Bytes(m) \/ Meta(m) \/ Touch(m) \/ Decode(m)
      \/ Breaks(m) \/ clearCredentials(m)

-----------------------------------------------------------------------------
\* A file opened by a reference holds exactly what the reference was made for,
\* however often the path was overwritten since: an overwrite is an error, and
\* never other bytes (openFile() with a FileRef).
OpenedAsReferenced == \A m \in Member : got[m] # Absent /\ got[m].ref # Absent => got[m].content = got[m].ref

\* On a store with guards an upload that was sealed and ran alone on its path
\* stays until someone with its seal replaces or removes it, whatever other
\* members try and whichever calls break off (requireSealGuard).
SealHolds ==
    store = "guarded" =>
      \A n \in Name : kept[n] # Absent => object[n] # Absent /\ object[n].seal = kept[n]

\* Every object is wrapped under the key its name is hidden under, so whoever
\* finds it can read it, unless clearCredentials() came between the naming and
\* the encoding of that very upload (storedFilePath() and encodeStoredFile()
\* each read the key).
FramedUnderItsName == \A n \in Name : object[n] # Absent /\ object[n].key # n.key => n \in torn

\* What a reader of a durable file relies on: the frame opens with the key its
\* name was found by, and a reference opens what it was made for (openFile()).
DurableInv == DurableTypeOK /\ OpenedAsReferenced /\ FramedUnderItsName

\* After an upload or a deletion that ran alone, the metadata describes the
\* object and is gone with it, and reading alone keeps it so (putStoredFile(),
\* getStoredFile() and deleteStoredFile() write object and metadata apart).
MetadataAgrees ==
    store # "plain" =>
      \A n \in alone : IF object[n] = Absent THEN side[n] = Absent ELSE side[n] = object[n].body
=============================================================================
