---------------------------- MODULE MailboxHost ----------------------------
(***************************************************************************)
(* The mailbox host as a whole: handlers of mesh files, recovery wrappers  *)
(* and stored files share the row store; writes and deletions of mesh      *)
(* files are announced through the relay of the mesh.                      *)
(***************************************************************************)
EXTENDS StoredFiles, Relay

hostVars == <<requestVars, fileVars, storedVars, relayVars>>

ChangeKeys == {k \in DOMAIN files : classifyPath(k[2]) = "change-file"}

\* due: for a listing, the change files it must name; for a writer of a
\* stored file, the handlers it has shared its path with.
ArriveRequest(h) ==
  \E r \in load :
    LET k == <<r.address, r.name>>
        due == CASE r.op = "list-files" -> ChangeKeys
                 [] StoredWrite(r) -> Rivals(h, k)
                 [] OTHER -> {}
        next == [req EXCEPT ![h] = Begun(r, due)]
    IN  /\ Arrive(h, r)
        /\ IF StoredWrite(r)
           THEN /\ req' = [g \in Handler |->
                             IF g \in Rivals(h, k) THEN [req[g] EXCEPT !.due = @ \cup {h}]
                             ELSE next[g]]
                /\ clean' = clean \ {k}
           ELSE req' = next /\ clean' = clean
        /\ UNCHANGED <<fileVars, rows, bodies, relayVars>>

\* The answer to a successful write or deletion is followed by broadcast().
Announces(h) ==
  /\ req[h].op = "file"
  /\ \/ req[h].method = "PUT" /\ req[h].pc \in {"wrote", "kept"} /\ shouldBroadcast(req[h].name)
     \/ req[h].method = "DELETE" /\ req[h].pc = "finish"

HostInit ==
  /\ req = [h \in Handler |-> Idle]
  /\ load \in Loads
  /\ budget = MaxRequests
  /\ FilesInit
  /\ StoredInit
  /\ RelayInit

HandleFile(h) ==
  /\ req[h] # Idle
  /\ FileStep(h)
  /\ IF Announces(h) THEN Broadcast ELSE NoBroadcast
  /\ UNCHANGED storedVars

HandleStored(h) ==
  /\ req[h] # Idle
  /\ StoredStep(h)
  /\ UNCHANGED <<fileVars, relayVars>>

KillHandler(h) ==
  /\ Killed(h)
  /\ UNCHANGED <<fileVars, storedVars, relayVars>>

Maintain == HostStep /\ UNCHANGED <<storedVars, relayVars>>

\* handleWsUpgrade: a socket needs read access to its mesh.
OpenSocket(s) ==
  /\ \E a \in Address : Admitted(a, "read")
  /\ SocketConnect(s)
  /\ UNCHANGED <<requestVars, fileVars, storedVars>>

RelayWorks == RelayStep /\ UNCHANGED <<requestVars, fileVars, storedVars>>

HostNext ==
  \/ \E h \in Handler : \/ ArriveRequest(h)
                        \/ HandleFile(h)
                        \/ HandleStored(h)
                        \/ KillHandler(h)
  \/ Maintain
  \/ \E s \in Socket : OpenSocket(s)
  \/ RelayWorks

HostSpec == HostInit /\ [][HostNext]_hostVars

-----------------------------------------------------------------------------
\* The types of the host's state.
TypeOK ==
  /\ load \in Loads /\ budget \in 0..MaxRequests
  /\ \A h \in Handler : req[h] # Idle => /\ req[h].address \in Address
                                         /\ req[h].colo \in Colo
                                         /\ Reaches(req[h])
  /\ \A k \in DOMAIN files : k \in Address \X Name /\ files[k] \in Value
  /\ mesh \in [Address -> [created : 0..MaxTime, lastWrite : 0..MaxTime,
                           ttlDelete : 0..MaxTime, deleted : 0..MaxTime]]
  /\ \A c \in Colo : \A k \in DOMAIN cached[c] : cached[c][k] \in Value
  /\ \A c \in Colo : \A f \in DOMAIN listings[c] : listings[c][f] \subseteq Name
  /\ sweep.todo \subseteq Address /\ sweep.at \in 0..MaxTime
  /\ now \in 1..MaxTime
  /\ \A k \in DOMAIN rows : rows[k].size \in 1..MaxStoredFileBytes
  /\ \A k \in DOMAIN bodies : bodies[k] \in 1..MaxStoredFileBytes
  /\ clean \subseteq DOMAIN rows
  /\ calls \in 0..MaxCalls
  /\ sockets \subseteq Socket /\ owed \subseteq sockets
  /\ payload \in BOOLEAN /\ timer \in BOOLEAN
=============================================================================
