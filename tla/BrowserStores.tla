--------------------------- MODULE BrowserStores ---------------------------
(***************************************************************************)
(* The tabs of one origin on a shared local store: every page loads, opens *)
(* its named store, commits local mutations, publishes them under a lock,  *)
(* closes, resets and goes away, while the platform handles the requests.  *)
(* How the engine publishes is modelled in Mailbox; here a published write *)
(* is one the remote holds.                                                *)
(***************************************************************************)
EXTENDS NamedStore

VARIABLE
  remote        \* mutations the remote holds

browserVars == <<localVars, slotVars, remote>>

\* commitLocalMutation
Commit(t, w) ==
  /\ tab[t].pc = "idle" /\ Usable(t)
  /\ w \in budget.writes /\ budget' = [budget EXCEPT !.writes = @ \ {w}]
  /\ Store(t, [Active(t) EXCEPT !.rows = TRUE, !.pending = @ \cup {w}], "wrote")
  /\ UNCHANGED <<build, due, conn, queue, slotVars, remote>>

\* withLock: Web Locks exclude every tab on the same database, the chain of
\* promises only the callers in one tab, a store in memory only its own.
InSection(t) == tab[t].pc \in {"locked", "promoted", "queued", "sent", "acked", "reread"}
SharesLock(t, u) ==
  /\ tab[t].gen = tab[u].gen
  /\ \A s \in {t, u} : build[s].locks = "web" /\ tab[s].active = "idb"

Lock(t) ==
  /\ tab[t].pc = "idle" /\ Usable(t) /\ Unpushed(Active(t)) # {}
  /\ ~ \E u \in Tab : InSection(u) /\ SharesLock(t, u)
  /\ tab' = [tab EXCEPT ![t].pc = "locked"]
  /\ UNCHANGED <<build, due, db, conn, queue, budget, slotVars, remote>>

promotePendingBatch(t) ==
  /\ tab[t].pc = "locked" /\ Usable(t)
  /\ LET s == Active(t)
     IN  IF s.pending = {} THEN Store(t, s, "queued")
         ELSE Store(t, [s EXCEPT !.pending = {}, !.outbox = @ \cup {s.pending}], "promoted")
  /\ due' = [u \in Tab |-> IF tab[u].gen = tab[t].gen THEN due[u] \ Active(t).pending ELSE due[u]]
  /\ UNCHANGED <<build, conn, queue, budget, slotVars, remote>>

\* What is in the outbox is uploaded, or the upload fails.
Publish(t) ==
  /\ tab[t].pc = "queued" /\ Usable(t)
  /\ LET s == Active(t)
     IN  \/ /\ tab' = [tab EXCEPT ![t].pc = "sent", ![t].sent = s.outbox]
            /\ remote' = remote \cup UNION s.outbox
         \/ /\ tab' = [tab EXCEPT ![t].pc = "idle"]
            /\ UNCHANGED remote
  /\ UNCHANGED <<build, due, db, conn, queue, budget, slotVars>>

acknowledgeOutbox(t) ==
  /\ tab[t].pc = "sent" /\ Usable(t)
  /\ Store(t, [Active(t) EXCEPT !.outbox = @ \ tab[t].sent], "acked")
  /\ UNCHANGED <<build, due, conn, queue, budget, slotVars, remote>>

\* resetLocalDatabase, called by a page that has closed its store.
resetLocalDatabase(t) ==
  /\ tab[t].pc = "closed" /\ Len(queue[pointer]) < MaxQueue
  /\ ~marker[pointer]
  /\ budget.resets > 0 /\ budget' = [budget EXCEPT !.resets = @ - 1]
  /\ queue' = [queue EXCEPT ![pointer] =
                 Append(@, [kind |-> "delete", tab |-> t, want |-> 0, live |-> TRUE,
                            begun |-> FALSE])]
  /\ tab' = [tab EXCEPT ![t].pc = "resetting"]
  /\ UNCHANGED <<build, due, db, conn, slotVars, remote>>

Deletes(g) == queue[g] # <<>> /\ Head(queue[g]).kind = "delete"

DeleteSucceeds(g) ==
  /\ Deletes(g) /\ Connected(g) = {}
  /\ LET r == Head(queue[g])
     IN  /\ marker' = IF r.live THEN [marker EXCEPT ![g] = FALSE] ELSE marker
         /\ tab' = IF r.live THEN [tab EXCEPT ![r.tab].pc = IF @ = "resetting" THEN "closed" ELSE @]
                   ELSE tab
  /\ db' = [db EXCEPT ![g] = Absent]
  /\ queue' = [queue EXCEPT ![g] = Tail(@)]
  /\ UNCHANGED <<build, due, conn, budget, pointer, minted, remote>>

\* The deletion stays blocked until the deadline, or fails.
ResetGivesUp(t) ==
  /\ tab[t].pc = "resetting"
  /\ tab' = [tab EXCEPT ![t].pc = "closed"]
  /\ UNCHANGED <<build, due, db, conn, queue, budget, slotVars, remote>>

Init ==
  /\ \E load \in Loads :
       /\ build = load.build
       /\ db = [g \in Gen |-> IF g = 1 THEN load.first ELSE Absent]
       /\ budget = load.budget
  /\ conn = {}
  /\ queue = [g \in Gen |-> <<>>]
  /\ tab = [t \in Tab |-> [pc |-> "off", gen |-> 1, target |-> 0, active |-> "none",
                           mem |-> Absent, progressed |-> FALSE, dirty |-> FALSE,
                           then |-> "format", sent |-> {}]]
  /\ due = [t \in Tab |-> {}]
  /\ marker = [g \in Gen |-> FALSE]
  /\ pointer = 1 /\ minted = 1
  /\ remote = {}

Platform(g) ==
  \/ UpgradeBegins(g) /\ UNCHANGED slotVars
  \/ Opened(g) /\ UNCHANGED slotVars
  \/ BlockedGivesUp(g)
  \/ UpgradeFails(g)

Handles(t, g) == (VersionChange(t, g) \/ HandleLost(t, g)) /\ UNCHANGED slotVars

Calls(t) ==
  \/ Load(t) \/ OpenCall(t) \/ OpenWithout(t) \/ DeadlineFires(t) \/ Recover(t)
  \/ RefreshRead(t) \/ RefreshSet(t) \/ Mark(t) \/ Close(t)
  \/ Refuse(t) \/ Stamp(t) \/ MigrateStart(t) \/ CopyRows(t) \/ CopyOutbox(t)
  \/ CopyPending(t) \/ StampTarget(t) \/ CopyFails(t) \/ Swap(t)
  \/ Crash(t) /\ UNCHANGED slotVars

Publishes(t) == Lock(t) \/ promotePendingBatch(t) \/ Publish(t) \/ acknowledgeOutbox(t)

Next ==
  \/ \E g \in Gen : Platform(g) /\ UNCHANGED remote
  \/ \E t \in Tab, g \in Gen : Handles(t, g) /\ UNCHANGED remote
  \/ \E t \in Tab : Calls(t) /\ UNCHANGED remote
  \/ \E t \in Tab, w \in Write : Commit(t, w)
  \/ \E t \in Tab : Publishes(t) \/ resetLocalDatabase(t) \/ ResetGivesUp(t)
  \/ \E g \in Gen : DeleteSucceeds(g)

\* Timers fire; an upgrade that has begun ends.
Fairness ==
  /\ \A t \in Tab : WF_browserVars(DeadlineFires(t) /\ UNCHANGED remote)
  /\ \A g \in Gen :
       /\ WF_browserVars(BlockedGivesUp(g) /\ UNCHANGED remote)
       /\ WF_browserVars(Opened(g) /\ Head(queue[g]).begun /\ UNCHANGED <<slotVars, remote>>)

Spec == Init /\ [][Next]_browserVars /\ Fairness

----------------------------------------------------------------------------

\* Types, and: a store works on a database only while it is open or opening.
TypeOK ==
  /\ \A g \in Gen : db[g].pending \subseteq Write /\ db[g].outbox \subseteq SUBSET Write
  /\ conn \subseteq Tab \X Gen
  /\ marker \in [Gen -> BOOLEAN]
  /\ pointer \in 1..minted /\ minted \in Gen
  /\ remote \subseteq Write \ budget.writes

\* A generation whose marker says that it holds unpushed writes is never left
\* behind with them: no fallback, rotation or migration moves the pointer to a
\* database without one of them.  What another tab writes or promotes while a
\* migration copies is not covered (nothing locks the source).
UnpushedNeverAbandoned ==
  [][LET Late(w) == \E t \in Tab : /\ tab[t].pc = "swap"
                                   /\ w \notin due[t] \/ tab[t].active = "memory"
     IN  marker[pointer] /\ pointer' # pointer
           => \A w \in Unpushed(db[pointer]) :
                w \in remote' \cup Unpushed(db[pointer]') \/ Late(w)]_browserVars

\* An open that was given up leaves no handle behind: the late answer of the
\* platform closes it, so that the tab blocks no upgrade or deletion.
AbandonedOpensRelease ==
  \A c \in conn :
    \/ tab[c[1]].active = "idb" /\ tab[c[1]].gen = c[2]
    \/ tab[c[1]].pc \in {"copy", "history", "batch", "stamp"} /\ tab[c[1]].target = c[2]

\* What the tabs of one origin hold of the shared databases, at every moment of
\* an open that may be blocked, given up or answered late.
BrowserInv == TypeOK /\ AbandonedOpensRelease

\* A batch leaves a database only when the remote holds it or the database is
\* deleted, also when two tabs publish at once.
SentBeforeForgotten ==
  [][\A g \in Gen : Unpushed(db[g]) \ Unpushed(db'[g]) # {}
       => Unpushed(db[g]) \subseteq remote' \cup Unpushed(db'[g]) \/ db'[g].version = 0]_browserVars

\* open() leaves a database in a format the build does not know as it is.
UnknownFormatUntouched ==
  [][\A t \in Tab : tab[t].pc = "format" /\ tab'[t] # tab[t] /\ tab[t].active = "idb"
       => LET g == tab[t].gen
          IN  db[g].format \notin build[t].known \cup {"none"}
                => db'[g] = db[g] /\ tab'[t].pc \notin {"idle", "copy"}]_browserVars

\* open() never hangs: it ends with the database, with memory or with a
\* refusal (unless the names of the model are used up).
OpenSettles ==
  \A t \in Tab : tab[t].pc = "opening" ~> (tab[t].pc # "opening" \/ minted = MaxGen)
=============================================================================
