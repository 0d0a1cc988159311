--------------------------- MODULE LocalDatabase ---------------------------
(***************************************************************************)
(* The physical IndexedDB databases of one origin as IndexedDbLocalStore   *)
(* uses them: every database name has one queue of open and delete         *)
(* requests, of which the platform handles the first; an upgrade or a      *)
(* deletion waits for the connections of the other tabs, which are told to *)
(* close.  A request cannot be cancelled: a store that gives up only       *)
(* forgets it.                                                             *)
(*                                                                         *)
(* Left out: values of rows, cursors and the fingerprint of the indexes    *)
(* (it decides nothing).                                                   *)
(***************************************************************************)
EXTENDS Naturals, Sequences, FiniteSets

CONSTANTS
  Tab,
  Write,        \* local mutations
  MaxGen,       \* physical names in use: the base name is 1
  Loads,        \* what the tabs run, what they start from and may still do
  MaxQueue      \* requests for one name that a further open or reset waits for

VARIABLES
  build,        \* build[t]: schema, locks, wanted format and known formats
  db,           \* db[g]: the database named g
  conn,         \* connections: pairs of a tab and a name
  queue,        \* queue[g]: requests for g, oldest first
  tab,          \* tab[t]: the page, its store and the call it is in
  due,          \* due[t]: what a copy by t has to carry over
  budget        \* opens, writes, resets and faults that may still happen

localVars == <<build, db, conn, queue, tab, due, budget>>

Gen == 1..MaxGen

DEFAULT_DB_VERSION == 2

\* version 0: no such database.  format "none": no store format recorded.
Absent == [version |-> 0, indexes |-> 0, format |-> "none", rows |-> FALSE,
           pending |-> {}, outbox |-> {}]

\* An open store holds the writes the remote has not seen in an open batch
\* and in promoted batches.
Unpushed(store) == store.pending \cup UNION store.outbox

Connected(g) == {c \in conn : c[2] = g}

Closed(t) == [tab[t] EXCEPT !.pc = "closed", !.active = "none", !.progressed = FALSE,
                            !.then = "format"]

\* A handle is lost, an upgrade or a copy fails, a page goes away.
Fault == budget.faults > 0 /\ budget' = [budget EXCEPT !.faults = @ - 1]

\* openDB: a request of tab t for name g at version v.
openDB(t, g, v) == [kind |-> "open", tab |-> t, want |-> v, live |-> TRUE, begun |-> FALSE]

Upgrades(g) == LET r == Head(queue[g])
               IN  queue[g] # <<>> /\ r.kind = "open" /\ db[g].version < r.want

\* close() during an open: every request of tab t on g is abandoned.
Abandon(q, t) ==
  [i \in DOMAIN q |-> IF q[i].tab = t /\ q[i].kind = "open" THEN [q[i] EXCEPT !.live = FALSE]
                      ELSE q[i]]

\* onupgradeneeded: every other connection is gone.
UpgradeBegins(g) ==
  /\ Upgrades(g) /\ ~Head(queue[g]).begun
  /\ Connected(g) = {}
  /\ queue' = [queue EXCEPT ![g][1].begun = TRUE]
  /\ tab' = IF Head(queue[g]).live
            THEN [tab EXCEPT ![Head(queue[g]).tab].progressed = TRUE] ELSE tab
  /\ UNCHANGED <<build, due, db, conn, budget>>

\* onsuccess.  A live request goes on in performOpen: if the indexes are not
\* those of the schema the handle is closed and the database reopened at a
\* higher version.  The handle of an abandoned request is closed.
Opened_Revived(g) ==
  LET r == Head(queue[g])
      upgraded == IF r.begun
                  THEN [db[g] EXCEPT !.version = r.want, !.indexes = build[r.tab].schema]
                  ELSE db[g]
  IN  /\ queue[g] # <<>> /\ r.kind = "open"
      /\ r.begun \/ db[g].version >= r.want
      /\ db' = [db EXCEPT ![g] = upgraded]
      /\ queue' = [queue EXCEPT ![g] = Tail(@)]
      /\ conn' = conn \cup {<<r.tab, g>>}
      /\ tab' = IF r.live THEN [tab EXCEPT ![r.tab].pc = "opened", ![r.tab].active = "idb",
                                           ![r.tab].progressed = FALSE]
                ELSE tab
      /\ UNCHANGED <<build, due, budget>>

Opened(g) ==
  LET r == Head(queue[g])
      upgraded == IF r.begun
                  THEN [db[g] EXCEPT !.version = r.want, !.indexes = build[r.tab].schema]
                  ELSE db[g]
      needsRepair == upgraded.indexes # build[r.tab].schema
  IN  /\ queue[g] # <<>> /\ r.kind = "open"
      /\ r.begun \/ db[g].version >= r.want
      /\ db' = [db EXCEPT ![g] = upgraded]
      /\ queue' = [queue EXCEPT ![g] =
                     IF r.live /\ needsRepair
                     THEN Append(Tail(@), openDB(r.tab, g, upgraded.version + 1))
                     ELSE Tail(@)]
      /\ IF r.live /\ ~needsRepair
         THEN /\ conn' = conn \cup {<<r.tab, g>>}
              /\ tab' = [tab EXCEPT ![r.tab].pc = "opened", ![r.tab].active = "idb",
                                   ![r.tab].progressed = FALSE]
         ELSE UNCHANGED <<conn, tab>>
      /\ UNCHANGED <<build, due, budget>>

\* onversionchange: the handle of t gives way to an upgrade or a deletion.
VersionChange(t, g) ==
  /\ <<t, g>> \in conn
  /\ \/ Upgrades(g)
     \/ queue[g] # <<>> /\ Head(queue[g]).kind = "delete"
  /\ conn' = conn \ {<<t, g>>}
  /\ UNCHANGED <<build, due, db, queue, tab, budget>>

\* The platform closes a handle.
HandleLost(t, g) ==
  /\ <<t, g>> \in conn
  /\ Fault
  /\ conn' = conn \ {<<t, g>>}
  /\ UNCHANGED <<build, due, db, queue, tab>>

\* The page goes away with its handles and its requests; what it has asked
\* to delete may still be deleted.
Crash(t) ==
  /\ tab[t].pc # "off"
  /\ Fault
  /\ tab' = [tab EXCEPT ![t] = [Closed(t) EXCEPT !.pc = "off", !.mem = Absent,
                                            !.target = 0, !.sent = {}, !.dirty = FALSE]]
  /\ conn' = {c \in conn : c[1] # t}
  /\ queue' = [g \in Gen |->
                 LET mine(r) == r.tab = t /\ r.kind = "open"
                     kept == SelectSeq(queue[g], LAMBDA r : ~mine(r))
                 IN  [i \in DOMAIN kept |->
                        IF kept[i].tab = t THEN [kept[i] EXCEPT !.live = FALSE] ELSE kept[i]]]
  /\ due' = [due EXCEPT ![t] = {}]
  /\ UNCHANGED <<build, db>>
=============================================================================
