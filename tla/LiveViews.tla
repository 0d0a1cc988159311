----------------------------- MODULE LiveViews -----------------------------
(***************************************************************************)
(* What an application sees of one table: the engine's query and row       *)
(* caches (core/sync-engine.ts), the handles of core/table.ts that read    *)
(* them, and the hooks useLiveQuery() and useRow() of the React package.   *)
(*                                                                         *)
(* A view is the whole table or one row of it.  A row's content is the     *)
(* number of the write it comes from.  A load is a promise of the cache:   *)
(* it reads the store some time after it starts, and is delivered some     *)
(* time after that.                                                        *)
(***************************************************************************)
EXTENDS Integers, FiniteSets, FiniteSetsExt, Presence

CONSTANTS
    Rows,       \* the rows of the table
    All,        \* the view of the whole table
    Hooks,      \* mounted components
    Loads,      \* promises that may be under way at a time
    MaxWrites   \* bound on the writes of an instance

VARIABLES
    data,   \* the committed rows
    due,    \* the rows whose change event has not been emitted yet
    cache,  \* queryCache and rowCache, and the loads under way
    hook,   \* what each component shows and listens to
    left    \* writes, forced reloads, faults and mounts still to come

viewVars == <<data, due, cache, hook, left>>

Views     == {All} \cup Rows
RowsOf(v) == IF v = All THEN Rows ELSE {v}
See(v)    == [r \in RowsOf(v) |-> data[r]]

NoEntry == [status |-> "empty", rows |-> Absent, load |-> Absent]
NoLoad  == [pc |-> "idle", view |-> Absent, rows |-> Absent, waits |-> {}]
NoHook  == [pc |-> "off", view |-> Absent, shown |-> Absent, status |-> "empty", crossed |-> "no"]

ViewsTypeOK ==
    /\ data \in [Rows -> 0 .. MaxWrites] /\ due \subseteq Rows
    /\ \A v \in Views :
         /\ cache.entry[v].status \in {"empty", "pending", "ready", "error"}
         /\ cache.entry[v].status = "pending" <=> cache.entry[v].load \in Loads
         /\ cache.entry[v].status = "pending" => cache.load[cache.entry[v].load].view = v
    /\ \A p \in Loads : cache.load[p].pc \in {"idle", "start", "read"} /\ cache.load[p].waits \subseteq Hooks
    /\ \A h \in Hooks : hook[h].pc \in {"off", "rendered", "on"} /\ hook[h].crossed \in {"no", "event", "reload"}

ViewsInit(lefts) ==
    /\ data = [r \in Rows |-> 0] /\ due = {}
    /\ cache = [entry |-> [v \in Views |-> NoEntry], load |-> [p \in Loads |-> NoLoad]]
    /\ hook = [h \in Hooks |-> NoHook]
    /\ left \in lefts

Take(what) == left[what] > 0 /\ left' = [left EXCEPT ![what] = @ - 1]

-----------------------------------------------------------------------------
(* The caches *)

FreeLoads(c) == {p \in Loads : c.load[p].pc = "idle"}

\* runQuery() and runRow(): a new promise takes the entry over, and the rows
\* of the last one stay visible.
runQuery(c, v) ==
    LET p == CHOOSE q \in FreeLoads(c) : TRUE IN
    [c EXCEPT !.entry[v] = [status |-> "pending", rows |-> @.rows, load |-> p],
              !.load[p] = [NoLoad EXCEPT !.pc = "start", !.view = v]]

\* load() without bypassCache shares a promise that is pending, is content
\* with rows that are ready, and otherwise starts a load.
NeedsLoad(v) == cache.entry[v].status \in {"empty", "error"}

loadQueryRows(c, v) == IF NeedsLoad(v) THEN runQuery(c, v) ELSE c

\* notifyWhenLoaded()
notifyWhenLoaded(c, v, hs) ==
    IF c.entry[v].status = "pending" THEN [c EXCEPT !.load[c.entry[v].load].waits = @ \cup hs] ELSE c

Reads(p) ==
    /\ cache.load[p].pc = "start"
    /\ cache' = [cache EXCEPT !.load[p].pc = "read", !.load[p].rows = See(cache.load[p].view)]
    /\ UNCHANGED <<data, due, hook, left>>

\* A load that another one has taken the entry from does not touch it.
Stored_Always(c, p, status, rows) ==
    [c EXCEPT !.entry[c.load[p].view] = [status |-> status, rows |-> rows, load |-> Absent]]

Stored(c, p, status, rows) ==
    LET v == c.load[p].view IN
    IF c.entry[v].load # p THEN c
    ELSE [c EXCEPT !.entry[v] = [status |-> status, rows |-> rows, load |-> Absent]]

\* notify(): the component reads the snapshot again.
Notified(c, h) == [hook[h] EXCEPT !.shown = c.entry[hook[h].view].rows, !.status = c.entry[hook[h].view].status]

Listening(hs) == {h \in hs : hook[h].pc = "on"}

Settle(p, status, rows) ==
    LET c == [Stored(cache, p, status, rows) EXCEPT !.load[p] = NoLoad] IN
    /\ cache' = c
    /\ hook' = [h \in Hooks |-> IF h \in Listening(cache.load[p].waits) THEN Notified(c, h) ELSE hook[h]]

Resolves(p) ==
    /\ cache.load[p].pc = "read" /\ Settle(p, "ready", cache.load[p].rows)
    /\ UNCHANGED <<data, due, left>>

Rejects(p) ==
    /\ cache.load[p].pc = "start" /\ Take("faults")
    /\ Settle(p, "error", cache.entry[cache.load[p].view].rows)
    /\ UNCHANGED <<data, due>>

\* load({ bypassCache: true }) by a caller that shows nothing.
CrossedBy(what, c, told) ==
    [h \in Hooks |->
       IF /\ h \notin told
          /\ \E p \in Loads : cache.load[p].pc # "idle" /\ h \in cache.load[p].waits
                              /\ c.entry[cache.load[p].view].load # p
         THEN [hook[h] EXCEPT !.crossed = what] ELSE hook[h]]

ForcedLoad(v) ==
    /\ FreeLoads(cache) # {} /\ Take("reloads")
    /\ cache' = runQuery(cache, v) /\ hook' = CrossedBy("reload", cache', {})
    /\ UNCHANGED <<data, due>>

-----------------------------------------------------------------------------
(* Changes *)

\* A put, a delete or a pull commits rows before it emits their events.
Commits(rs) ==
    /\ rs # {} /\ Take("writes")
    /\ data' = [r \in Rows |-> IF r \in rs THEN data[r] + 1 ELSE data[r]]
    /\ due' = due \cup rs
    /\ UNCHANGED <<cache, hook>>

Cached == {v \in Views : cache.entry[v].status # "empty"}

Invalidated == FoldSet(LAMBDA v, c : runQuery(c, v), cache, Cached)

\* QueryResult.subscribe() hears of every row of the table, RowResult's of one.
Hears_Rows(h, r) == hook[h].view = r

Hears(h, r) == hook[h].view \in {All, r}

\* emit(): every cached view of the table is loaded anew, then the listeners
\* show what is there and wait for the new load.
Emits(r) ==
    /\ r \in due /\ Cardinality(FreeLoads(cache)) >= Cardinality(Cached)
    /\ due' = due \ {r}
    /\ LET told    == {h \in Listening(Hooks) : Hears(h, r)}
           crossed == CrossedBy("event", Invalidated, told)
       IN  /\ cache' = FoldSet(LAMBDA v, c : notifyWhenLoaded(c, v, {h \in told : hook[h].view = v}),
                               Invalidated, {hook[h].view : h \in told})
           /\ hook' = [h \in Hooks |-> IF h \in told THEN Notified(Invalidated, h) ELSE crossed[h]]
    /\ UNCHANGED <<data, left>>

-----------------------------------------------------------------------------
(* Components *)

\* The first render starts a load and shows what the cache has.
Renders(h, v) ==
    /\ hook[h].pc = "off" /\ h = CHOOSE g \in Hooks : hook[g].pc = "off"
    /\ Take("mounts")
    /\ NeedsLoad(v) => FreeLoads(cache) # {}
    /\ cache' = loadQueryRows(cache, v)
    /\ hook' = [hook EXCEPT ![h] = [NoHook EXCEPT !.pc = "rendered", !.view = v,
                                                  !.shown = cache'.entry[v].rows, !.status = cache'.entry[v].status]]
    /\ UNCHANGED <<data, due>>

\* The effect subscribes, and React compares the snapshot once more.
Subscribes(h) ==
    /\ hook[h].pc = "rendered" /\ (NeedsLoad(hook[h].view) => FreeLoads(cache) # {})
    /\ cache' = notifyWhenLoaded(loadQueryRows(cache, hook[h].view), hook[h].view, {h})
    /\ hook' = [hook EXCEPT ![h] = [Notified(cache', h) EXCEPT !.pc = "on"]]
    /\ UNCHANGED <<data, due, left>>

Unmounts(h) ==
    /\ hook[h].pc # "off" /\ hook' = [hook EXCEPT ![h] = NoHook]
    /\ cache' = [cache EXCEPT !.load = [p \in Loads |-> [@[p] EXCEPT !.waits = @ \ {h}]]]
    /\ UNCHANGED <<data, due, left>>

ViewsNext ==
    \/ \E p \in Loads : Reads(p) \/ Resolves(p) \/ Rejects(p)
    \/ \E v \in Views : ForcedLoad(v) \/ \E h \in Hooks : Renders(h, v)
    \/ \E rs \in SUBSET Rows : Commits(rs)
    \/ \E r \in Rows : Emits(r)
    \/ \E h \in Hooks : Subscribes(h) \/ Unmounts(h)

\* The store answers, the commit's caller goes on to emit, effects run: the
\* thread goes on while any of it is left to do.
ViewsFairness ==
    WF_viewVars(\/ \E p \in Loads : Reads(p) \/ Resolves(p)
                \/ \E r \in Rows : Emits(r)
                \/ \E h \in Hooks : Subscribes(h))

-----------------------------------------------------------------------------
(* What the views promise *)

\* Rows that the cache calls ready are the committed ones, or the event that
\* will replace them is on its way: a load that read the table before a commit
\* never settles over the load which that commit's event has started.
CacheCurrent ==
    \A v \in Views : cache.entry[v].status = "ready" =>
       cache.entry[v].rows = See(v) \/ due \cap RowsOf(v) # {}

\* What a component reads synchronously from the caches (query(), row()).
ViewsInv == ViewsTypeOK /\ CacheCurrent

\* "Bridge that first load, and every table invalidation, back into React": a
\* mounted component comes to show the committed rows, unless the read failed.
\* What can leave it behind is a load it waits for being replaced without its
\* being told: by a caller that bypasses the cache, and for useRow() by a
\* change of another row of the table.
ComponentsShow ==
    \A h \in Hooks :
       (hook[h].pc # "off" /\ hook[h].shown # See(hook[h].view))
       ~> \/ hook[h].pc = "off" \/ hook[h].shown = See(hook[h].view)
          \/ hook[h].status = "error" \/ hook[h].crossed = "reload"
          \/ hook[h].crossed = "event" /\ hook[h].view # All
============================================================================
