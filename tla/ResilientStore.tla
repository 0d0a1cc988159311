--------------------------- MODULE ResilientStore ---------------------------
(***************************************************************************)
(* createResilientLocalStore and rotateLocalDatabaseName: a store that     *)
(* falls back to memory when IndexedDB does not get on, unless a marker in *)
(* localStorage says that the database holds writes the remote has never   *)
(* seen; a store that fell back also moves the pointer of its base name to *)
(* a fresh database, under the same condition.                             *)
(***************************************************************************)
EXTENDS LocalDatabase

VARIABLES
  marker,       \* marker[g]: the database named g holds unpushed writes
  pointer,      \* the name the next page opens
  minted        \* names in use

slotVars == <<marker, pointer, minted>>

\* The store an operation of t goes to, and whether its handle is gone.
Active(t) == IF tab[t].active = "idb" THEN db[tab[t].gen] ELSE tab[t].mem
Broken(t) == tab[t].active = "idb" /\ <<t, tab[t].gen>> \notin conn
Usable(t) == tab[t].active # "none" /\ ~Broken(t)

\* Tab t is done with pc and its active store now holds s.
Store(t, s, pc) ==
  IF tab[t].active = "idb"
  THEN db' = [db EXCEPT ![tab[t].gen] = s] /\ tab' = [tab EXCEPT ![t].pc = pc]
  ELSE db' = db /\ tab' = [tab EXCEPT ![t].pc = pc, ![t].mem = s]

\* The pointer moves to a name nobody has used (its suffix is random).
rotateLocalDatabaseName ==
  IF marker[pointer]
  THEN UNCHANGED <<pointer, minted>>
  ELSE /\ minted < MaxGen
       /\ pointer' = minted + 1
       /\ minted' = minted + 1

\* fallback(): refuse, or go on with an empty store in memory.
fallback(t, refused, pc) ==
  /\ IF marker[tab[t].gen]
     THEN /\ tab' = [tab EXCEPT ![t] = refused]
          /\ UNCHANGED <<pointer, minted>>
     ELSE /\ tab' = [tab EXCEPT ![t] = [@ EXCEPT !.active = "memory", !.mem = Absent,
                                                 !.progressed = FALSE, !.pc = pc]]
          /\ rotateLocalDatabaseName
  /\ conn' = conn \ {<<t, tab[t].gen>>}
  /\ UNCHANGED <<build, due, db, marker>>

\* open(): the primary is asked for its database, at first without progress.
OpenCall_Disarmed(t) ==
  /\ tab[t].pc = "closed" /\ build[t].idb /\ Len(queue[tab[t].gen]) < MaxQueue
  /\ budget.opens > 0 /\ budget' = [budget EXCEPT !.opens = @ - 1]
  /\ queue' = [queue EXCEPT ![tab[t].gen] = Append(@, openDB(t, tab[t].gen, DEFAULT_DB_VERSION))]
  /\ tab' = [tab EXCEPT ![t].pc = "opening", ![t].progressed = TRUE]
  /\ UNCHANGED <<build, due, db, conn, slotVars>>

OpenCall(t) ==
  /\ tab[t].pc = "closed" /\ build[t].idb /\ Len(queue[tab[t].gen]) < MaxQueue
  /\ budget.opens > 0 /\ budget' = [budget EXCEPT !.opens = @ - 1]
  /\ queue' = [queue EXCEPT ![tab[t].gen] = Append(@, openDB(t, tab[t].gen, DEFAULT_DB_VERSION))]
  /\ tab' = [tab EXCEPT ![t].pc = "opening", ![t].progressed = FALSE]
  /\ UNCHANGED <<build, due, db, conn, slotVars>>

\* There is no IndexedDB.
OpenWithout(t) ==
  /\ tab[t].pc = "closed" /\ ~build[t].idb
  /\ fallback(t, Closed(t), tab[t].then)
  /\ UNCHANGED <<queue, budget>>

\* The open failed: after a refusal a later open() may try again.
OpenFails(t) ==
  /\ fallback(t, Closed(t), tab[t].then)
  /\ queue' = [queue EXCEPT ![tab[t].gen] = Abandon(@, t)]
  /\ UNCHANGED budget

\* openWithProgressDeadline: the deadline holds until the platform reacts.
DeadlineFires(t) ==
  /\ tab[t].pc = "opening" /\ ~tab[t].progressed
  /\ OpenFails(t)

\* onblocked, and then nothing for the time of grace.
BlockedGivesUp(g) ==
  LET r == Head(queue[g])
  IN  /\ Upgrades(g) /\ r.live /\ ~r.begun /\ Connected(g) # {}
      /\ OpenFails(r.tab)

\* onerror: the upgrade is rolled back.
UpgradeFails(g) ==
  LET r == Head(queue[g])
  IN  /\ Upgrades(g) /\ r.begun
      /\ Fault
      /\ queue' = [queue EXCEPT ![g] = Tail(@)]
      /\ IF r.live THEN fallback(r.tab, Closed(r.tab), tab[r.tab].then)
         ELSE UNCHANGED <<build, due, db, conn, tab, slotVars>>

\* runWithRecovery, when the handle is gone: the call is repeated on memory
\* or fails.
Recover(t) ==
  /\ Broken(t)
  /\ \/ tab[t].pc \in {"format", "idle", "locked", "queued", "sent"}
     \/ tab[t].pc \in {"copy", "history", "batch"} /\ ~marker[tab[t].gen]
  /\ fallback(t, [tab[t] EXCEPT !.pc = IF @ = "format" THEN "refused" ELSE "idle",
                              !.sent = {}], tab[t].pc)
  /\ UNCHANGED <<queue, budget>>

\* refreshUnpushedMarker reads the store, if it can ...
RefreshRead(t) ==
  /\ tab[t].pc \in {"opened", "acked"}
  /\ LET next == IF tab[t].pc = "opened" THEN tab[t].then ELSE "idle"
     IN  IF Usable(t)
         THEN tab' = [tab EXCEPT ![t].pc = IF @ = "opened" THEN "seed" ELSE "reread",
                                 ![t].then = next, ![t].sent = {}, ![t].dirty = (Unpushed(Active(t)) # {})]
         ELSE tab' = [tab EXCEPT ![t].pc = next, ![t].sent = {}]
  /\ UNCHANGED <<build, due, db, conn, queue, budget, slotVars>>

\* ... and then writes what it read into the marker.
RefreshSet(t) ==
  /\ tab[t].pc \in {"seed", "reread"}
  /\ marker' = [marker EXCEPT ![tab[t].gen] = tab[t].dirty]
  /\ tab' = [tab EXCEPT ![t].pc = tab[t].then, ![t].dirty = FALSE]
  /\ UNCHANGED <<build, due, db, conn, queue, budget, pointer, minted>>

\* markUnpushed, once the write is durable.
Mark(t) ==
  /\ tab[t].pc \in {"wrote", "promoted"}
  /\ marker' = [marker EXCEPT ![tab[t].gen] = TRUE]
  /\ tab' = [tab EXCEPT ![t].pc = IF @ = "wrote" THEN "idle" ELSE "queued"]
  /\ UNCHANGED <<build, due, db, conn, queue, budget, pointer, minted>>

\* close(): what is only in memory goes with it.
Close(t) ==
  /\ tab[t].pc \in {"idle", "refused"}
  /\ tab' = [tab EXCEPT ![t] = [Closed(t) EXCEPT !.mem = Absent]]
  /\ conn' = conn \ {<<t, tab[t].gen>>}
  /\ UNCHANGED <<build, due, db, queue, budget, slotVars>>
=============================================================================
