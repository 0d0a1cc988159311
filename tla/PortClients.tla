---------------------------- MODULE PortClients ----------------------------
(***************************************************************************)
(* The Python and the Swift client (interocitor-python/engine.py,          *)
(* InterocitorSwift/SyncEngine.swift) on one remote folder.                *)
(*                                                                         *)
(* Both run the same protocol of change files, snapshots and manifests.    *)
(* Python serialises the calls of a client with one lock; the Swift client *)
(* is an actor, so its calls interleave wherever they await.  A call is    *)
(* the list of phases it has still to go through; one phase is one request *)
(* to the remote or one access of the local store.                         *)
(*                                                                         *)
(* A row is the set of mutations it reflects, and a client shows a set of  *)
(* mutations (LWW columns: RowMerge).  Generation and epoch of the         *)
(* manifest grow together, so the epoch names both; a snapshot's name      *)
(* depends on its epoch only, the server id being the shared default.  The *)
(* mesh exists and is not managed; the head file, which neither port reads *)
(* for a decision, and device metadata are left out.                       *)
(***************************************************************************)
EXTENDS Integers, Sequences, FiniteSets, FiniteSetsExt, Presence

CONSTANTS
    Python, Swift,   \* the clients of either kind
    Mutations,       \* numbers, in the order the writes are made
    RowOf,           \* the row each mutation writes
    Calls,           \* calls of one client that may be under way, numbers
    MaxEpoch         \* bound on the compactions

Clients == Python \cup Swift
Epochs  == 0 .. MaxEpoch

VARIABLES
    folder,  \* change files, the epoch the pointer leads to, the snapshots
    client,  \* the local store and the flags of each client
    call,    \* the calls under way
    cargo,   \* what the change entry of a mutation carries: its full row
    acked,   \* the mutations that some flush has acknowledged
    gone,    \* the mutations that went with a volatile store
    spare    \* what each client still does, and the faults it still meets

portVars == <<folder, client, call, cargo, acked, gone, spare>>

Phases == {"load", "sync", "flush", "publish", "mark", "ack", "restore", "reload", "fill", "list", "read",
           "note", "capture", "rows", "cut", "point", "delete", "prune", "up", "close", "fetch", "commit"}

\* fresh: no change file was removed since the manifest was read; files, snaps:
\* the removals by compactions during the call.
NoCall == [plan |-> <<>>, todo |-> {}, seen |-> {}, base |-> 0, from |-> 0, rows |-> {}, retried |-> FALSE,
           met |-> {}, fresh |-> FALSE, files |-> 0, snaps |-> 0]

\* crossed: two calls of this client have overlapped.
Fresh == [rows |-> {}, seen |-> {}, out |-> {}, epoch |-> 0, man |-> 0, up |-> FALSE, open |-> TRUE,
          poisoned |-> "no", crossed |-> FALSE, files |-> 0, snaps |-> 0]

PortTypeOK ==
    /\ folder.files \cup acked \cup gone \subseteq Mutations
    /\ folder.epoch \in Epochs /\ folder.snap[folder.epoch] # Absent
    /\ \A m \in Mutations : cargo[m] \subseteq {x \in Mutations : RowOf[x] = RowOf[m] /\ x <= m}
    /\ \A c \in Clients : /\ client[c].rows \cup client[c].seen \cup client[c].out \subseteq Mutations
                          /\ client[c].epoch \in Epochs /\ client[c].man \in Epochs
                          /\ client[c].poisoned \in {"no", "read", "snapshot", "fault", "closed"}
                          /\ c \in Python /\ client[c].poisoned # "no" => ~client[c].up
                          /\ \A k \in Calls : \A i \in 1 .. Len(call[c][k].plan) : call[c][k].plan[i] \in Phases

PortInit(spares) ==
    /\ folder = [files |-> {}, epoch |-> 0,
                 snap |-> [e \in Epochs |-> IF e = 0 THEN [rows |-> {}, covered |-> {}] ELSE Absent]]
    /\ client = [c \in Clients |-> Fresh]
    /\ call = [c \in Clients |-> [k \in Calls |-> NoCall]]
    /\ cargo = [m \in Mutations |-> {}]
    /\ acked = {} /\ gone = {}
    /\ spare \in spares

Carried(files) == UNION {cargo[m] : m \in files}
Held           == Carried(folder.files) \cup folder.snap[folder.epoch].rows

-----------------------------------------------------------------------------
(* Calls *)

Idle(c, k)  == call[c][k].plan = <<>>
InPhase(c, k, p) == ~Idle(c, k) /\ Head(call[c][k].plan) = p

\* A store that is closed answers no request of a call that is under way.
Remote      == {"load", "publish", "delete", "prune", "up"}
At(c, k, p) == InPhase(c, k, p) /\ (client[c].open \/ p \in Remote)
Busy(c)     == \E k \in Calls : ~Idle(c, k)

\* The state lock of a Python client.  An actor admits a call at every await;
\* with alone, its application awaits one call before it makes the next.
Admits(c) == c \in Python \/ spare[c].alone => ~Busy(c)

Spend(c, job) == spare[c][job] > 0 /\ spare' = [spare EXCEPT ![c][job] = @ - 1]

Begins(c, job, plan) ==
    /\ Admits(c) /\ Spend(c, job) /\ \E k \in Calls : Idle(c, k)
    /\ call' = [call EXCEPT ![c][Min({j \in Calls : Idle(c, j)})] = [NoCall EXCEPT !.plan = plan]]
    /\ client' = [client EXCEPT ![c].crossed = @ \/ Busy(c)]

\* The call goes on, with these phases in place of the one it was in.
Goes(c, k, phases, cl) == call' = [call EXCEPT ![c][k] = [cl EXCEPT !.plan = phases \o Tail(cl.plan)]]
Ends(c, k)             == call' = [call EXCEPT ![c][k] = NoCall]

pull  == <<"sync">>
flush == <<"flush">>

\* Python compacts on the manifest its pull has loaded; Swift on the one it
\* had before it flushed and pulled.
compact(c) ==
    (IF c \in Python THEN <<"load", "list", "capture">> ELSE <<"capture">> \o flush \o pull)
      \o <<"rows", "cut", "point", "delete", "prune">>

connect    == pull \o flush \o <<"up">>
disconnect == flush \o <<"close">>
put        == <<"fetch", "commit">>

\* What the application calls, or the poll loop of Swift (pull).  Applications
\* connect before they pull, flush or compact.
Starts(c) ==
    /\ \/ client[c].up /\ Begins(c, "pull", pull)
       \/ /\ client[c].open
          /\ \/ Begins(c, "put", put)
             \/ client[c].poisoned = "no" /\ ~client[c].up /\ Begins(c, "connect", connect)
             \/ client[c].up /\ (Begins(c, "flush", flush) \/ Begins(c, "compact", compact(c)))
             \/ Begins(c, "disconnect", IF client[c].poisoned = "no" THEN disconnect ELSE <<"close">>)
    /\ UNCHANGED <<folder, cargo, acked, gone>>

\* Swift's initialize() after a disconnect; a Python client opens by itself.
initialize(c) ==
    /\ c \in Swift /\ ~client[c].open
    /\ client' = [client EXCEPT ![c].open = TRUE]
    /\ UNCHANGED <<folder, call, cargo, acked, gone, spare>>

-----------------------------------------------------------------------------
(* Local writes *)

Committed == {m \in Mutations : cargo[m] # {}}
Writing   == UNION {call[c][k].todo : <<c, k>> \in {ck \in Clients \X Calls : At(ck[1], ck[2], "commit")}}

\* The row a write starts from, of the rows that are stored.
OnRow(S, m) == {x \in S : RowOf[x] = RowOf[m]}

\* put(): reads the row ...
Fetch(c, k) ==
    /\ At(c, k, "fetch") /\ Mutations \ (Committed \cup Writing) # {}
    /\ LET m == Min(Mutations \ (Committed \cup Writing)) IN
       Goes(c, k, <<>>, [call[c][k] EXCEPT !.todo = {m}, !.rows = OnRow(client[c].rows, m)])
    /\ UNCHANGED <<folder, client, cargo, acked, gone, spare>>

\* ... and commits the row it made of it, with the entry, to rows and outbox.
Commit(c, k) ==
    /\ At(c, k, "commit")
    /\ \E m \in call[c][k].todo :
         LET row == call[c][k].rows \cup {m} IN
         /\ cargo' = [cargo EXCEPT ![m] = row]
         /\ client' = [client EXCEPT ![c].rows = (@ \ OnRow(@, m)) \cup row, ![c].out = @ \cup {m}]
    /\ Ends(c, k)
    /\ UNCHANGED <<folder, acked, gone, spare>>

-----------------------------------------------------------------------------
(* Flush *)

\* An empty outbox ends the flush before any request; otherwise the manifest
\* is loaded again.
Flush(c, k) ==
    /\ At(c, k, "flush")
    /\ LET sent == client[c].out IN
       IF sent = {} THEN Goes(c, k, <<>>, call[c][k]) /\ UNCHANGED client
       ELSE /\ Goes(c, k, <<"publish", "mark", "ack">>, [call[c][k] EXCEPT !.todo = sent])
            /\ client' = [client EXCEPT ![c].man = folder.epoch]
    /\ UNCHANGED <<folder, cargo, acked, gone, spare>>

Publish(c, k) ==
    /\ At(c, k, "publish")
    /\ folder' = [folder EXCEPT !.files = @ \cup call[c][k].todo]
    /\ Goes(c, k, <<>>, call[c][k])
    /\ UNCHANGED <<client, cargo, acked, gone, spare>>

Mark(c, k) ==
    /\ At(c, k, "mark")
    /\ client' = [client EXCEPT ![c].seen = @ \cup call[c][k].todo]
    /\ Goes(c, k, <<>>, call[c][k])
    /\ UNCHANGED <<folder, cargo, acked, gone, spare>>

\* acknowledgeOutbox takes the ids that were read, not the whole outbox.
Acknowledged(c, sent) == client[c].out \cap sent

Ack(c, k) ==
    /\ At(c, k, "ack")
    /\ client' = [client EXCEPT ![c].out = @ \ Acknowledged(c, call[c][k].todo)]
    /\ acked' = acked \cup call[c][k].todo
    /\ Goes(c, k, <<>>, call[c][k])
    /\ UNCHANGED <<folder, cargo, gone, spare>>

-----------------------------------------------------------------------------
(* Pull and rehydrate *)

\* The manifest is loaded, and with it the folder as this pull will find it.
Loaded(c, k) ==
    /\ client' = [client EXCEPT ![c].man = folder.epoch]
    /\ UNCHANGED <<folder, cargo, acked, gone, spare>>

AsOfNow(c, k) == [call[c][k] EXCEPT !.met = @ \cup Held \cup client[c].rows, !.fresh = TRUE]

\* compact() of Python loads the manifest and pulls, whatever its epoch.
Load(c, k) ==
    /\ At(c, k, "load") /\ Loaded(c, k)
    /\ Goes(c, k, <<>>, AsOfNow(c, k))

Rehydrate_Unflushed(c) == IF c \in Python THEN <<"restore", "list">> ELSE <<"restore", "sync">>

\* The outbox goes out before the rows are replaced; Swift then pulls anew.
Rehydrate(c) == flush \o (IF c \in Python THEN <<"restore", "list">> ELSE <<"restore", "sync">>)

Sync(c, k) ==
    /\ At(c, k, "sync") /\ Loaded(c, k)
    /\ Goes(c, k, IF folder.epoch > client[c].epoch THEN Rehydrate(c) ELSE <<"list">>, AsOfNow(c, k))

Poison(c, k, why) ==
    /\ client' = [client EXCEPT ![c].poisoned = IF @ = "no" THEN why ELSE @, ![c].up = FALSE,
                                ![c].files = call[c][k].files, ![c].snaps = call[c][k].snaps]
    /\ Ends(c, k)

\* A snapshot that cannot be read is tried once more, from a newer manifest.
Retry(c, k) ==
    IF call[c][k].retried THEN Poison(c, k, "snapshot")
    ELSE Goes(c, k, <<"reload">>, [call[c][k] EXCEPT !.retried = TRUE, !.from = client[c].man]) /\ UNCHANGED client

\* Rows are cleared and coverage replaced before the snapshot's rows go in.
Restore(c, k) ==
    /\ At(c, k, "restore")
    /\ LET snap == folder.snap[client[c].man] IN
       IF snap = Absent THEN Retry(c, k)
       ELSE /\ Goes(c, k, <<"fill">>, [call[c][k] EXCEPT !.rows = snap.rows, !.from = client[c].man])
            /\ client' = [client EXCEPT ![c].rows = {}, ![c].seen = snap.covered]
    /\ UNCHANGED <<folder, cargo, acked, gone, spare>>

Reload(c, k) ==
    /\ At(c, k, "reload")
    /\ IF folder.epoch = call[c][k].from THEN Poison(c, k, "snapshot")
       ELSE /\ client' = [client EXCEPT ![c].man = folder.epoch]
            /\ Goes(c, k, <<"restore">>, [call[c][k] EXCEPT !.fresh = TRUE])
    /\ UNCHANGED <<folder, cargo, acked, gone, spare>>

Fill(c, k) ==
    /\ At(c, k, "fill")
    /\ LET rows == call[c][k].rows IN
       client' = [client EXCEPT ![c].rows = {x \in @ : OnRow(rows, x) = {}} \cup rows, ![c].epoch = call[c][k].from]
    /\ Goes(c, k, <<>>, [call[c][k] EXCEPT !.retried = FALSE])
    /\ UNCHANGED <<folder, cargo, acked, gone, spare>>

List(c, k) ==
    /\ At(c, k, "list")
    /\ LET seen == client[c].seen IN
       Goes(c, k, <<"read", "note">>, [call[c][k] EXCEPT !.seen = seen, !.todo = folder.files \ seen])
    /\ UNCHANGED <<folder, client, cargo, acked, gone, spare>>

\* The unseen files, in the order of their stamps; one that was listed and is
\* gone halts the session like one that does not decode.
Read(c, k) ==
    /\ At(c, k, "read")
    /\ LET todo == call[c][k].todo
           m == Min(todo) IN
       IF todo = {} THEN Goes(c, k, <<>>, call[c][k]) /\ UNCHANGED client
       ELSE IF m \notin folder.files THEN Poison(c, k, "read")
       ELSE /\ client' = [client EXCEPT ![c].rows = @ \cup cargo[m]]
            /\ Goes(c, k, <<"read">>, [call[c][k] EXCEPT !.todo = @ \ {m}, !.seen = @ \cup {m}])
    /\ UNCHANGED <<folder, cargo, acked, gone, spare>>

Note(c, k) ==
    /\ At(c, k, "note")
    /\ client' = [client EXCEPT ![c].seen = call[c][k].seen]
    /\ Goes(c, k, <<>>, [call[c][k] EXCEPT !.seen = {}])
    /\ UNCHANGED <<folder, cargo, acked, gone, spare>>

-----------------------------------------------------------------------------
(* Compaction *)

Capture(c, k) ==
    /\ At(c, k, "capture") /\ client[c].man < MaxEpoch
    /\ Goes(c, k, <<>>, [call[c][k] EXCEPT !.base = client[c].man + 1])
    /\ UNCHANGED <<folder, client, cargo, acked, gone, spare>>

ReadRows(c, k) ==
    /\ At(c, k, "rows")
    /\ Goes(c, k, <<>>, [call[c][k] EXCEPT !.rows = client[c].rows])
    /\ UNCHANGED <<folder, client, cargo, acked, gone, spare>>

Covered_Listed(c) == folder.files

\* coveredChangeFiles: what this client has merged, never the listing.
Covered(c) == client[c].seen

Cut(c, k) ==
    /\ At(c, k, "cut")
    /\ LET snap == [rows |-> call[c][k].rows, covered |-> Covered(c)] IN
       /\ folder' = [folder EXCEPT !.snap[call[c][k].base] = snap]
       /\ Goes(c, k, <<>>, [call[c][k] EXCEPT !.todo = snap.covered])
    /\ UNCHANGED <<client, cargo, acked, gone, spare>>

\* The manifest file and the pointer to it, then the client's own epoch.
Point(c, k) ==
    /\ At(c, k, "point")
    /\ folder' = [folder EXCEPT !.epoch = call[c][k].base]
    /\ client' = [client EXCEPT ![c].man = call[c][k].base, ![c].epoch = call[c][k].base]
    /\ Goes(c, k, <<>>, call[c][k])
    /\ UNCHANGED <<cargo, acked, gone, spare>>

\* What the other calls meet: files, or snapshots, that are no longer there.
Removes(c, k, files, snaps) ==
    call' = [d \in Clients |-> [j \in Calls |->
               LET cl == call[d][j] IN
               IF <<d, j>> = <<c, k>> THEN [cl EXCEPT !.plan = Tail(@)]
               ELSE IF cl.plan = <<>> THEN cl
               ELSE [cl EXCEPT !.fresh = @ /\ files = 0, !.files = @ + files, !.snaps = @ + snaps]]]

\* Best effort: any of the deletions may fail.
Delete(c, k) ==
    /\ At(c, k, "delete")
    /\ \/ folder' = [folder EXCEPT !.files = @ \ call[c][k].todo] /\ UNCHANGED spare
       \/ Spend(c, "fault") /\ \E S \in SUBSET call[c][k].todo : folder' = [folder EXCEPT !.files = @ \ S]
    /\ Removes(c, k, 1, 0)
    /\ UNCHANGED <<client, cargo, acked, gone>>

Prune(c, k) ==
    /\ At(c, k, "prune")
    /\ folder' = [folder EXCEPT !.snap = [e \in Epochs |-> IF e = call[c][k].base THEN @[e] ELSE Absent]]
    /\ Removes(c, k, 0, 1)
    /\ UNCHANGED <<client, cargo, acked, gone, spare>>

-----------------------------------------------------------------------------
(* The ends of connect() and disconnect(), failures and crashes *)

Up(c, k) ==
    /\ At(c, k, "up")
    /\ client' = [client EXCEPT ![c].up = TRUE]
    /\ Ends(c, k)
    /\ UNCHANGED <<folder, cargo, acked, gone, spare>>

\* A store that outlives the process keeps rows, coverage, outbox and epoch.
Kept(c) == IF c \in Python THEN Fresh
           ELSE [Fresh EXCEPT !.rows = client[c].rows, !.seen = client[c].seen, !.out = client[c].out,
                              !.epoch = client[c].epoch, !.crossed = client[c].crossed]
Lost(c) == IF c \in Python THEN client[c].out ELSE {}

Close(c, k) ==
    /\ At(c, k, "close")
    /\ client' = [client EXCEPT ![c] = [Kept(c) EXCEPT !.open = c \in Python]]
    /\ gone' = gone \cup Lost(c)
    /\ Ends(c, k)
    /\ UNCHANGED <<folder, cargo, acked, spare>>

Crash(c) ==
    /\ Spend(c, "crash")
    /\ client' = [client EXCEPT ![c] = Kept(c)]
    /\ gone' = gone \cup Lost(c)
    /\ call' = [call EXCEPT ![c] = [k \in Calls |-> NoCall]]
    /\ UNCHANGED <<folder, cargo, acked>>

\* An error ends the call; disconnect() of Python closes all the same.
Throws(c, k) ==
    IF c \in Python /\ call[c][k].plan[Len(call[c][k].plan)] = "close"
      THEN call' = [call EXCEPT ![c][k].plan = <<"close">>]
      ELSE Ends(c, k)

\* A request fails: some of the files of a flush may have been written; an
\* unreadable change file halts the session, an unreadable snapshot is tried
\* again, and Swift takes a listing that fails for an empty one.  The read of
\* the manifest pointer does not fail: Swift would take that for a missing mesh.
Fails(c, k) ==
    /\ Spend(c, "fault")
    /\ \/ \E p \in {"load", "sync", "ack", "cut", "point"} : At(c, k, p) /\ Throws(c, k) /\ UNCHANGED <<folder, client>>
       \/ At(c, k, "flush") /\ client[c].out # {} /\ Throws(c, k) /\ UNCHANGED <<folder, client>>
       \/ /\ At(c, k, "publish") /\ Throws(c, k) /\ UNCHANGED client
          /\ \E S \in SUBSET call[c][k].todo : folder' = [folder EXCEPT !.files = @ \cup S]
       \/ /\ At(c, k, "list") /\ UNCHANGED <<folder, client>>
          /\ IF c \in Python THEN Ends(c, k) ELSE Goes(c, k, <<>>, call[c][k])
       \/ At(c, k, "restore") /\ Retry(c, k) /\ UNCHANGED folder
       \/ (At(c, k, "reload") \/ (At(c, k, "read") /\ call[c][k].todo # {})) /\ Poison(c, k, "fault") /\ UNCHANGED folder
    /\ UNCHANGED <<cargo, acked, gone>>

\* A call that finds its store closed ends; within the merge or the restore, and
\* on the mesh id the manifest is compared with, the error halts the session; a
\* compaction has moved the pointer by the time it cannot store the epoch.
Halting == {"sync", "restore", "reload", "fill", "read"}

Shut(c, k) ==
    /\ ~client[c].open
    /\ \/ (\E p \in Halting : InPhase(c, k, p)) /\ Poison(c, k, "closed") /\ UNCHANGED folder
       \/ /\ InPhase(c, k, "point") /\ Ends(c, k) /\ UNCHANGED client
          /\ folder' = [folder EXCEPT !.epoch = call[c][k].base]
       \/ /\ \E p \in Phases \ (Remote \cup Halting \cup {"point"}) : InPhase(c, k, p)
          /\ Ends(c, k) /\ UNCHANGED <<client, folder>>
    /\ UNCHANGED <<cargo, acked, gone, spare>>

PhaseStep(c, k) ==
    \/ Fetch(c, k) \/ Commit(c, k) \/ Flush(c, k) \/ Publish(c, k) \/ Mark(c, k) \/ Ack(c, k)
    \/ Load(c, k) \/ Sync(c, k) \/ Restore(c, k) \/ Reload(c, k) \/ Fill(c, k)
    \/ List(c, k) \/ Read(c, k) \/ Note(c, k)
    \/ Capture(c, k) \/ ReadRows(c, k) \/ Cut(c, k) \/ Point(c, k) \/ Delete(c, k) \/ Prune(c, k)
    \/ Up(c, k) \/ Close(c, k) \/ Fails(c, k) \/ Shut(c, k)

PortNext == \E c \in Clients : Starts(c) \/ initialize(c) \/ Crash(c) \/ \E k \in Calls : PhaseStep(c, k)

-----------------------------------------------------------------------------
(* Properties *)

\* What a flush has acknowledged, in Python the boundary at which a job may
\* report success, is held by the folder from then on, in a change file or in
\* the snapshot of the current manifest: while one client compacts, whatever
\* the calls of the others interleave and wherever a client crashes.
FlushedKept == acked \subseteq Held

\* A committed write is in an outbox until a flush has acknowledged that very
\* write; only the outbox of a volatile store goes with its process.
QueuedUntilFlushed == Committed \subseteq acked \cup gone \cup UNION {client[c].out : c \in Clients}

\* A pull of a client whose calls have not overlapped (in Python they cannot),
\* and during which no change file was removed, shows all that the folder held and all that the
\* client showed when it loaded the manifest, also when it replaced the rows
\* by a snapshot on the way.
PullShown ==
    \A c \in Clients, k \in Calls :
       Note(c, k) /\ ~client[c].crossed /\ call[c][k].fresh => call[c][k].met \subseteq client'[c].rows

\* Where every request is answered, a session is halted over a change file only
\* if a compaction removed files during the call, and over a snapshot only if two
\* did: one retry with a refreshed manifest outlives one compaction.
HaltedByCompaction ==
    \A c \in Clients : /\ client[c].poisoned = "read" => client[c].files >= 1
                      /\ client[c].poisoned = "snapshot" /\ spare[c].whole => client[c].snaps >= 2

\* What a caller of flush() and put() relies on, whatever the other client does:
\* acknowledged is kept, committed is queued, and a session halts for a reason.
PortInv == PortTypeOK /\ FlushedKept /\ QueuedUntilFlushed /\ HaltedByCompaction
=============================================================================
