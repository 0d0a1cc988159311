---------------------------- MODULE NamedStore ----------------------------
(***************************************************************************)
(* createNamedLocalStore: a page opens the database the pointer of its     *)
(* base name names, finds out which store format it is in and, when the    *)
(* build wants another one, moves its contents: in place, or into a fresh  *)
(* database that the pointer names only once it is complete.               *)
(***************************************************************************)
EXTENDS ResilientStore

CONSTANTS
  MigratesFrom, \* MigratesFrom[f]: the formats a migration into f starts from
  InPlace       \* the formats that need no fresh database

LEGACY_PLAINTEXT_ROWS_FORMAT == "plain"

\* A page is loaded.
Load(t) ==
  /\ tab[t].pc = "off"
  /\ tab' = [tab EXCEPT ![t] = [@ EXCEPT !.pc = "closed", !.gen = pointer, !.then = "format",
                                         !.target = 0]]
  /\ UNCHANGED <<build, due, db, conn, queue, budget, slotVars>>

readRecordedFormat(t) ==
  LET s == Active(t)
  IN  IF s.format # "none" THEN s.format
      ELSE IF ~s.rows /\ Unpushed(s) = {} THEN build[t].want ELSE LEGACY_PLAINTEXT_ROWS_FORMAT

\* What to do with a database in format recorded under build b.
resolveFormatPlan(recorded, b) ==
  CASE {recorded, b.want} \ b.known # {} -> "refuse"
    [] recorded = b.want -> "identity"
    [] recorded \notin MigratesFrom[b.want] -> "refuse"
    [] OTHER -> IF b.want \in InPlace THEN "inPlace" ELSE "fresh"

Plan(t) == resolveFormatPlan(readRecordedFormat(t), build[t])

\* reconcileFormat, up to the copy.
Refuse(t) ==
  /\ tab[t].pc = "format" /\ Usable(t)
  /\ Plan(t) = "refuse"
  /\ tab' = [tab EXCEPT ![t].pc = "refused"]
  /\ UNCHANGED <<build, due, db, conn, queue, budget, slotVars>>

Stamp(t) ==
  /\ tab[t].pc = "format" /\ Usable(t)
  /\ Plan(t) \in {"identity", "inPlace"}
  /\ Store(t, [Active(t) EXCEPT !.format = build[t].want], "idle")
  /\ UNCHANGED <<build, due, conn, queue, budget, slotVars>>

\* A fresh name is minted and its database created; the pointer stays.
\* What the source holds now has to be carried over.
MigrateStart(t) ==
  /\ tab[t].pc = "format" /\ Usable(t)
  /\ Plan(t) = "fresh"
  /\ minted < MaxGen
  /\ minted' = minted + 1
  /\ db' = [db EXCEPT ![minted + 1] = [Absent EXCEPT !.version = DEFAULT_DB_VERSION,
                                                    !.indexes = build[t].schema]]
  /\ conn' = conn \cup {<<t, minted + 1>>}
  /\ tab' = [tab EXCEPT ![t].pc = "copy", ![t].target = minted + 1]
  /\ due' = [due EXCEPT ![t] = Unpushed(Active(t))]
  /\ UNCHANGED <<build, queue, budget, marker, pointer>>

\* copyLocalStoreState writes s into the target.
Copied(t, s, pc) ==
  /\ Usable(t) /\ <<t, tab[t].target>> \in conn
  /\ db' = [db EXCEPT ![tab[t].target] = s]
  /\ tab' = [tab EXCEPT ![t].pc = pc]
  /\ UNCHANGED <<build, due, conn, queue, budget, slotVars>>

\* Rows, cursors and meta (which a store in memory cannot list) ...
CopyRows(t) ==
  /\ tab[t].pc = "copy" /\ tab[t].active = "idb"
  /\ Copied(t, [db[tab[t].target] EXCEPT !.rows = Active(t).rows], "history")

\* ... then the promoted batches ...
CopyOutbox(t) ==
  /\ tab[t].pc = "history"
  /\ Copied(t, [db[tab[t].target] EXCEPT !.outbox = Active(t).outbox], "batch")

\* ... then the open batch.
CopyPending_Dropped(t) ==
  /\ tab[t].pc = "batch"
  /\ Copied(t, db[tab[t].target], "stamp")

CopyPending(t) ==
  /\ tab[t].pc = "batch"
  /\ Copied(t, [db[tab[t].target] EXCEPT !.pending = Active(t).pending], "stamp")

\* The target records its format and gets its marker.
StampTarget(t) ==
  /\ tab[t].pc = "stamp" /\ <<t, tab[t].target>> \in conn
  /\ LET g == tab[t].target
     IN  /\ db' = [db EXCEPT ![g].format = build[t].want]
         /\ marker' = [marker EXCEPT ![g] = Unpushed(db[g]) # {}]
         /\ conn' = conn \ {<<t, g>>}
  /\ tab' = [tab EXCEPT ![t].pc = "swap"]
  /\ UNCHANGED <<build, due, queue, budget, pointer, minted>>

\* A read, a write or the migration itself throws: the target is left alone.
CopyFails(t) ==
  /\ tab[t].pc \in {"copy", "history", "batch", "stamp"}
  /\ \/ <<t, tab[t].target>> \notin conn /\ UNCHANGED budget
     \/ tab[t].pc = "copy" /\ tab[t].active = "memory" /\ UNCHANGED budget
     \/ tab[t].pc # "stamp" /\ Broken(t) /\ marker[tab[t].gen] /\ UNCHANGED budget
     \/ Fault
  /\ tab' = [tab EXCEPT ![t].pc = "refused", ![t].target = 0]
  /\ due' = [due EXCEPT ![t] = {}]
  /\ conn' = conn \ {<<t, tab[t].target>>}
  /\ UNCHANGED <<build, db, queue, slotVars>>

\* The source is closed, the pointer moves and the target is opened.
Swap(t) ==
  /\ tab[t].pc = "swap"
  /\ pointer' = tab[t].target
  /\ tab' = [tab EXCEPT ![t] = [@ EXCEPT !.pc = "opening", !.gen = tab[t].target,
                                         !.active = "none", !.mem = Absent, !.then = "idle",
                                         !.target = 0, !.progressed = FALSE]]
  /\ due' = [due EXCEPT ![t] = {}]
  /\ conn' = conn \ {<<t, tab[t].gen>>}
  /\ queue' = [queue EXCEPT ![tab[t].target] =
                 Append(@, openDB(t, tab[t].target, DEFAULT_DB_VERSION))]
  /\ UNCHANGED <<build, db, budget, marker, minted>>
=============================================================================
