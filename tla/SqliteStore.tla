---------------------------- MODULE SqliteStore -----------------------------
(***************************************************************************)
(* IndexedSQLiteStore of the Swift port: the local store on one SQLite     *)
(* connection.  An operation is a list of statements run one after the     *)
(* other on the actor; a statement may fail (the file is busy, the disk is *)
(* full) and the process may be killed between any two.                    *)
(***************************************************************************)
EXTENDS Integers, Sequences, Presence

LOCAL INSTANCE SequencesExt

CONSTANTS
    Item,           \* rows, and the outbox entries and clock values of their writes
    MaxFaults,      \* bound on failing statements and kills
    MaxOps          \* bound on operations

VARIABLES
    disk,       \* what the file holds
    work,       \* what the connection sees: disk, and the open transaction
    tx,         \* the connection is inside a transaction
    job,        \* the operation under way and its remaining statements
    told,       \* what the callers know the store to hold
    lost,       \* a clearAll() failed and left its transaction open
    spent       \* operations and faults so far

sqliteVars == <<disk, work, tx, job, told, lost, spent>>

Nothing == [rows |-> {}, outbox |-> {}, meta |-> 0]

SqliteInit ==
    /\ disk = Nothing /\ work = Nothing /\ told = Nothing
    /\ tx = FALSE /\ lost = FALSE /\ job = Absent
    /\ spent = [ops |-> 0, faults |-> 0]

-----------------------------------------------------------------------------
(* Statements and operations.                                              *)

Stmt(kind, x) == [kind |-> kind, x |-> x]
Begin == Stmt("begin", 0)
Commit == Stmt("commit", 0)

\* The effect of a statement on what the connection sees.
Applied(c, s) ==
    CASE s.kind = "row"     -> [c EXCEPT !.rows = @ \cup {s.x}]
      [] s.kind = "push"    -> [c EXCEPT !.outbox = @ \cup {s.x}]
      [] s.kind = "meta"    -> [c EXCEPT !.meta = s.x]
      [] s.kind = "unrow"   -> [c EXCEPT !.rows = {}]
      [] s.kind = "unqueue" -> [c EXCEPT !.outbox = {}]
      [] s.kind = "drop"    -> [c EXCEPT !.outbox = @ \ {s.x}]
      [] s.kind = "unmeta"  -> [c EXCEPT !.meta = 0]
      [] OTHER              -> c

\* guarded: a failure after BEGIN rolls back.
Op(guarded, statements) == [guarded |-> guarded, todo |-> statements]

putRows_Bare(x, y) == Op(TRUE, <<Stmt("row", x), Stmt("row", y)>>)

putRows(x, y) == Op(TRUE, <<Begin, Stmt("row", x), Stmt("row", y), Commit>>)

putRow(x) == Op(FALSE, <<Stmt("row", x)>>)

clearRows == Op(FALSE, <<Stmt("unrow", 0)>>)

pushOutbox(x) == Op(FALSE, <<Stmt("push", x)>>)

setMeta(x) == Op(FALSE, <<Stmt("meta", x)>>)

commitLocalMutation(x) ==
    Op(TRUE, <<Begin, Stmt("row", x), Stmt("push", x), Stmt("meta", x), Commit>>)

\* Only entries that are there are deleted; with none the transaction is empty.
acknowledgeOutbox(x) ==
    Op(TRUE, IF x \in work.outbox THEN <<Begin, Stmt("drop", x), Commit>> ELSE <<Begin, Commit>>)

replaceOutbox(x) == Op(TRUE, <<Begin, Stmt("unqueue", 0), Stmt("push", x), Commit>>)

drainOutbox == Op(FALSE, <<Stmt("unqueue", 0)>>)

clearAll == Op(FALSE, <<Begin, Stmt("unrow", 0), Stmt("unqueue", 0), Stmt("unmeta", 0), Commit>>)

Ops ==
    {putRow(x) : x \in Item} \cup {putRows(x, y) : x, y \in Item} \cup {clearRows, drainOutbox, clearAll}
    \cup {pushOutbox(x) : x \in Item} \cup {setMeta(x) : x \in Item} \cup {replaceOutbox(x) : x \in Item}
    \cup {commitLocalMutation(x) : x \in Item} \cup {acknowledgeOutbox(x) : x \in Item}

Call(op) ==
    /\ job = Absent /\ spent.ops < MaxOps
    /\ job' = [op |-> op, todo |-> op.todo]
    /\ spent' = [spent EXCEPT !.ops = @ + 1]
    /\ UNCHANGED <<disk, work, tx, told, lost>>

\* A statement outside a transaction is a transaction of its own.
Execute ==
    /\ job # Absent /\ job.todo # <<>>
    /\ LET s == Head(job.todo)
           seen == Applied(work, s)
       IN  /\ s.kind = "begin" => ~tx
           /\ tx' = (s.kind = "begin" \/ (tx /\ s.kind # "commit"))
           /\ work' = seen
           /\ disk' = IF tx' THEN disk ELSE seen
    /\ job' = [job EXCEPT !.todo = Tail(@)]
    /\ UNCHANGED <<told, lost, spent>>

\* What an operation changes when all its statements are done.
Effect(c, op) == FoldLeft(Applied, c, op.todo)

Return ==
    /\ job # Absent /\ job.todo = <<>>
    /\ told' = Effect(told, job.op)
    /\ job' = Absent
    /\ UNCHANGED <<disk, work, tx, lost, spent>>

rollback(ended) == IF ended THEN tx' = FALSE /\ work' = disk ELSE UNCHANGED <<tx, work>>

\* A failing statement ends the operation with an error.  BEGIN fails inside a
\* transaction; any other failure is a fault, after which SQLite itself may have
\* rolled back.  Only a guarded operation rolls back, and not for its BEGIN.
Throw ==
    /\ job # Absent /\ job.todo # <<>>
    /\ LET begins == Head(job.todo).kind = "begin"
           nested == begins /\ tx
       IN  /\ nested \/ spent.faults < MaxFaults
           /\ spent' = [spent EXCEPT !.faults = IF nested THEN @ ELSE @ + 1]
           /\ \E itself \in IF nested THEN {FALSE} ELSE BOOLEAN :
                 rollback(itself \/ (job.op.guarded /\ ~begins))
    /\ lost' = (lost \/ (tx' /\ job.op = clearAll))
    /\ job' = Absent
    /\ UNCHANGED <<disk, told>>

\* The store is closed, or the process killed, and opened again: SQLite rolls
\* back what was not committed.
Reopen ==
    /\ job = Absent \/ spent.faults < MaxFaults
    /\ spent' = [spent EXCEPT !.faults = IF job = Absent THEN @ ELSE @ + 1]
    /\ work' = disk /\ told' = disk
    /\ tx' = FALSE /\ lost' = FALSE /\ job' = Absent
    /\ UNCHANGED disk

SqliteNext == (\E op \in Ops : Call(op)) \/ Execute \/ Return \/ Throw \/ Reopen

-----------------------------------------------------------------------------
(* Properties.                                                             *)

\* A connection is inside a transaction between two operations only if a
\* clearAll() failed on it: every other operation that begins one ends it.
LeftOpenOnlyByClear ==
    /\ ~tx => work = disk
    /\ tx /\ job = Absent => lost

\* All or nothing, and for good: the file holds what the callers were told, or
\* also all of the operation under way, whatever statement failed and whenever
\* the process was killed; after a failed clearAll(), which alone leaves its
\* transaction open, only until the next open.
ReturnedIsStored ==
    /\ LeftOpenOnlyByClear
    /\ ~lost => disk = told \/ (job # Absent /\ disk = Effect(told, job.op))
=============================================================================
