---------------------------- MODULE StoredFiles ----------------------------
(***************************************************************************)
(* Stored files of the mailbox host: a row in stored_files and a body in   *)
(* the file body store, written and deleted in two steps (the stored-file  *)
(* handlers of worker.ts, mesh-info.ts, upload-policy.ts).                 *)
(*                                                                         *)
(* The key of a body is made from the address and the path, so rows and    *)
(* bodies have the same keys.  A body is its size.                         *)
(***************************************************************************)
EXTENDS HostFiles

CONSTANTS
  MaxStoredFileBytes,
  MaxMeshStoredBytes,
  Policy        \* the upload policy: [minAge, minDevices, unknownAge]

ASSUME StoredAssumption ==
  /\ MaxStoredFileBytes \in Nat
  /\ MaxMeshStoredBytes \in Nat
  /\ Policy \in [minAge : Nat, minDevices : Nat, unknownAge : {"allow", "reject"}]

VARIABLES
  rows,         \* rows[k]: [size, guard] of the row of k, where there is one
  bodies,       \* bodies[k]: the body of k, where there is one
  clean         \* for the properties: the last writer of these ran alone

storedVars == <<rows, bodies, clean>>

StoredInit ==
  /\ rows = [k \in {} |-> 0]
  /\ bodies = [k \in {} |-> 0]
  /\ clean = {}

StoredWrite(r) == r.op = "stored-file" /\ r.method \in {"PUT", "DELETE"}

\* An unsealed row accepts any guard, a sealed one only its own.
sealGuardMatches(k, guard) ==
  k \in DOMAIN rows => rows[k].guard \in {Absent, guard}

currentStoredUsage(a) ==
  SumFunctionOnSet([k \in DOMAIN rows |-> rows[k].size], {k \in DOMAIN rows : k[1] = a})

SizeOf(k) == IF k \in DOMAIN rows THEN rows[k].size ELSE 0

\* loadMeshInfo counts the heartbeats and dates the mesh by its row.
deviceCount(a) ==
  Cardinality({k \in DOMAIN files : k[1] = a /\ classifyPath(k[2]) = "device-heartbeat"})

standardUploadPolicy(a) ==
  /\ Policy.minAge > 0 =>
       IF mesh[a].created = 0 THEN Policy.unknownAge = "allow"
       ELSE now - mesh[a].created >= Policy.minAge
  /\ Policy.minDevices > 1 => deviceCount(a) >= Policy.minDevices

\* handlePutStoredFile: the size, the row it replaces and its seal ...
StoredPut(h) ==
  /\ At(h, "stored-file", "PUT", "start")
  /\ IF req[h].value > MaxStoredFileBytes \/ ~sealGuardMatches(Key(h), req[h].guard)
     THEN Respond(h)
     ELSE Continue(h, "usage", SizeOf(Key(h)))
  /\ UNCHANGED <<rows, bodies, clean, load, budget>>

\* ... the quota, from the usage at this moment and the size read before ...
StoredQuota(h) ==
  /\ At(h, "stored-file", "PUT", "usage")
  /\ IF currentStoredUsage(req[h].address) + req[h].value
          > MaxMeshStoredBytes + req[h].seen
     THEN Respond(h)
     ELSE Continue(h, "policy", req[h].seen)
  /\ UNCHANGED <<rows, bodies, clean, load, budget>>

\* ... the application's policy ...
StoredPolicy(h) ==
  /\ At(h, "stored-file", "PUT", "policy")
  /\ IF standardUploadPolicy(req[h].address)
     THEN Continue(h, "body", req[h].seen)
     ELSE Respond(h)
  /\ UNCHANGED <<rows, bodies, clean, load, budget>>

\* ... the body ...
StoredPutBody(h) ==
  /\ At(h, "stored-file", "PUT", "body")
  /\ bodies' = With(bodies, Key(h), req[h].value)
  /\ Continue(h, "row", req[h].seen)
  /\ UNCHANGED <<rows, clean, load, budget>>

\* A mutant of the next definition: an existing row is left as it is.
StoredPutRow_Ignored(h) ==
  /\ At(h, "stored-file", "PUT", "row")
  /\ rows' = IF Key(h) \in DOMAIN rows THEN rows
             ELSE With(rows, Key(h), [size |-> req[h].value, guard |-> req[h].guard])
  /\ clean' = IF req[h].due = {} THEN clean \cup {Key(h)} ELSE clean
  /\ Respond(h)
  /\ UNCHANGED <<bodies, load, budget>>

\* ... and the row.
StoredPutRow(h) ==
  /\ At(h, "stored-file", "PUT", "row")
  /\ rows' = With(rows, Key(h), [size |-> req[h].value, guard |-> req[h].guard])
  /\ clean' = IF req[h].due = {} THEN clean \cup {Key(h)} ELSE clean
  /\ Respond(h)
  /\ UNCHANGED <<bodies, load, budget>>

\* handleGetStoredFile and handleStoredFileMetadata.
StoredGet(h) ==
  /\ At(h, "stored-file", "GET", "start") \/ At(h, "stored-file-metadata", "POST", "start")
  /\ Respond(h)
  /\ UNCHANGED <<rows, bodies, clean, load, budget>>

\* handleDeleteStoredFile reads the row, deletes the body ...
StoredDelete(h) ==
  /\ At(h, "stored-file", "DELETE", "start")
  /\ IF Key(h) \notin DOMAIN rows \/ ~sealGuardMatches(Key(h), req[h].guard)
     THEN Respond(h)
     ELSE Continue(h, "body", Absent)
  /\ UNCHANGED <<rows, bodies, clean, load, budget>>

StoredDeleteBody(h) ==
  /\ At(h, "stored-file", "DELETE", "body")
  /\ bodies' = Without(bodies, {Key(h)})
  /\ Continue(h, "row", Absent)
  /\ UNCHANGED <<rows, clean, load, budget>>

\* ... and then the row.
StoredDeleteRow(h) ==
  /\ At(h, "stored-file", "DELETE", "row")
  /\ rows' = Without(rows, {Key(h)})
  /\ Respond(h)
  /\ UNCHANGED <<bodies, clean, load, budget>>

StoredStep(h) ==
  \/ StoredPut(h) \/ StoredQuota(h) \/ StoredPolicy(h) \/ StoredPutBody(h) \/ StoredPutRow(h)
  \/ StoredGet(h)
  \/ StoredDelete(h) \/ StoredDeleteBody(h) \/ StoredDeleteRow(h)

\* For the properties: the handlers that write k besides h, and what the
\* arrival of r leaves of the solitude of the others.
Rivals(h, k) == {g \in Handler \ {h} : req[g] # Idle /\ StoredWrite(req[g]) /\ Key(g) = k}

-----------------------------------------------------------------------------
\* Uploads that overlap may pass the quota together, but the bytes of a
\* mesh never exceed it by more than one largest file for every handler but
\* one (handlePutStoredFile checks before it stores).
QuotaOvershootBounded ==
  \A a \in Address :
    currentStoredUsage(a)
      <= MaxMeshStoredBytes + (Cardinality(Handler) - 1) * MaxStoredFileBytes

\* An upload that runs alone on its path leaves a row and a body that
\* agree, whatever overlapping or interrupted uploads and deletions left
\* there before (body first, row second in handlePutStoredFile).
UploadRepairs ==
  \A k \in clean : k \in DOMAIN rows /\ k \in DOMAIN bodies /\ rows[k].size = bodies[k]

\* What overlapping and interrupted uploads leave behind is bounded and mended.
StoredFilesInv == QuotaOvershootBounded /\ UploadRepairs
=============================================================================
