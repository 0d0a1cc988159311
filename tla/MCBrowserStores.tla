-------------------------- MODULE MCBrowserStores --------------------------
EXTENDS BrowserStores, TLC

CONSTANTS t1, t2, w1, w2

Build(schema, locks, want, known) ==
  [idb |-> TRUE, schema |-> schema, locks |-> locks, want |-> want, known |-> known]
Plain == Build(1, "web", "plain", {"plain"})
Chain == Build(1, "chain", "plain", {"plain"})
Sealed == Build(1, "web", "sealed", {"plain", "sealed"})
Flat == Build(1, "web", "flat", {"plain", "flat"})

MCMigratesFrom == [f \in {"plain", "sealed", "flat"} |-> {"plain"}]
MCInPlace == {"plain", "flat"}

Legacy == [Absent EXCEPT !.version = 1, !.rows = TRUE, !.outbox = {{w1}}]
Future == [Absent EXCEPT !.version = 3, !.indexes = 1, !.format = "future", !.rows = TRUE]
Both(b1, b2) == (t1 :> b1) @@ (t2 :> b2)
Load_(b, first, opens, writes, resets, faults) ==
  [build |-> b, first |-> first,
   budget |-> [opens |-> opens, writes |-> writes, resets |-> resets, faults |-> faults]]

MCLoads ==
  { \* two tabs write and publish
    Load_(Both(Chain, Chain), Absent, 2, {w1, w2}, 0, 0),
    \* a deployment with other indexes
    Load_(Both(Plain, [Plain EXCEPT !.schema = 2]), Legacy, 2, {w2}, 0, 0),
    \* a deployment with another format, in a fresh database and in place
    Load_(Both(Plain, Sealed), Legacy, 2, {w2}, 0, 1),
    Load_(Both([Plain EXCEPT !.idb = FALSE], Flat), Legacy, 2, {w2}, 0, 1),
    Load_(Both(Plain, Sealed), Future, 2, {w2}, 0, 0),
    \* a page on a name that others have left
    Load_(Both(Plain, Plain), Absent, 3, {w1}, 0, 2),
    \* a reset while the other tab is at work
    Load_(Both(Plain, Plain), Absent, 2, {w1}, 1, 1) }
=============================================================================
