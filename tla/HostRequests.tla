---------------------------- MODULE HostRequests ----------------------------
(***************************************************************************)
(* Requests to the mailbox host (packages/workers): which of them reach    *)
(* the storage operations, and the handlers that carry them out.           *)
(*                                                                         *)
(* A request names an operation, a method, the address of a mesh, a file   *)
(* and what is written to it.  Its handler runs between the awaits of the  *)
(* code without interruption; at an await the others run.                  *)
(***************************************************************************)
EXTENDS Naturals, Sequences, Presence

CONSTANTS
  Handler,      \* request handlers that may be active at the same time
  Loads,        \* what clients may be doing: sets of requests
  GateRuns,     \* what the integrity gates of the host may answer, in order
  LayerRuns,    \* what the layers of the middleware may decide, in order
  MaxRequests   \* bound: requests in all

VARIABLES
  req,          \* req[h]: the request handler h works on, and its progress
  load,         \* the requests of this behaviour
  budget        \* how many of them are still to come

requestVars == <<req, load, budget>>

\* The prefix that holds the recovery wrappers; no mesh may have it.
RecoveryStoragePrefix == "__interocitor_recovery__"

Idle == [op |-> "none", pc |-> "idle"]

\* What a request needs of its mesh; "none" when there is no such operation.
ioRequestAccess(op, method) ==
  CASE op = "health" /\ method = "GET" -> "read"
    [] op \in {"file", "stored-file"} /\ method = "GET" -> "read"
    [] op \in {"file", "stored-file"} /\ method \in {"PUT", "DELETE"} -> "write"
    [] op \in {"metadata", "stored-file-metadata", "ensure-folder",
               "list-files", "list-folders"} /\ method = "POST" -> "read"
    [] OTHER -> "none"

\* The gates are asked in order until one answers TRUE; anything but a
\* Boolean makes integrity unavailable, and no TRUE at all is "not found".
admitMeshRoute(gates) ==
  LET decisive == {i \in 1..Len(gates) : gates[i] # "false"}
      first == CHOOSE i \in decisive : \A j \in decisive : i <= j
  IN  decisive # {} /\ gates[first] = "true"

\* A public route leads to its mesh unless it names the reserved prefix.
resolvePublicMeshRoute(address, gates) ==
  /\ address # RecoveryStoragePrefix
  /\ admitMeshRoute(gates)

\* The authorization layer: "readonly" stops writes; "deny", a failing
\* authorizer and an unknown decision stop everything.
meshAuthorization(decision, access) ==
  \/ decision \in {"none", "full"}
  \/ decision = "readonly" /\ access = "read"

\* Every layer has to go on to the next one.
runMeshMiddleware(layers, access) ==
  \A i \in 1..Len(layers) : meshAuthorization(layers[i], access)

Admitted(address, access) ==
  /\ \E gates \in GateRuns : resolvePublicMeshRoute(address, gates)
  /\ \E layers \in LayerRuns : runMeshMiddleware(layers, access)

\* Recovery requests have a route of their own, outside the meshes.
recoveryRoute(r) ==
  /\ r.op = "recovery"
  /\ r.address = RecoveryStoragePrefix
  /\ r.method \in {"GET", "PUT"}

\* The request r passes routing and middleware and reaches its operation.
Reaches(r) ==
  \/ recoveryRoute(r)
  \/ LET access == ioRequestAccess(r.op, r.method)
     IN  access # "none" /\ Admitted(r.address, access)

\* The request r as handler h begins it.  due is for the properties: it is
\* carried along and read by no operation.
Begun(r, due) ==
  [op |-> r.op, method |-> r.method, address |-> r.address, name |-> r.name,
   value |-> r.value, guard |-> r.guard, colo |-> r.colo,
   pc |-> "start", seen |-> Absent, due |-> due]

\* A request reaches its operation.  Refused ones change nothing.
Arrive(h, r) ==
  /\ req[h] = Idle
  /\ budget > 0
  /\ budget' = budget - 1
  /\ load' = load
  /\ Reaches(r)

At(h, op, method, pc) ==
  req[h].pc = pc /\ req[h].op = op /\ req[h].method = method

\* The handler goes on to pc, having read s.
Continue(h, pc, s) ==
  req' = [req EXCEPT ![h] = [@ EXCEPT !.pc = pc, !.seen = s]]

\* The handler answers, and is free.
Respond(h) == req' = [req EXCEPT ![h] = Idle]

\* The runtime ends a handler between two of its steps.
Killed(h) ==
  /\ req[h] # Idle
  /\ Respond(h)
  /\ UNCHANGED <<load, budget>>
=============================================================================
