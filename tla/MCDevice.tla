------------------------------ MODULE MCDevice ------------------------------
(***************************************************************************)
(* What one device does around its engine: its clock, the rows it can      *)
(* query and, on Swift, its SQLite file; and below the engine its          *)
(* adapters, in what takes them more than one request: the relay           *)
(* subscription, durable files, and finding and listing files.  The parts  *)
(* share no state; an initial state wakes one of them, named by awake.     *)
(*                                                                         *)
(* Timestamps are small numbers and the skew is 1; a counter is written    *)
(* with one digit of base 3, so that it outgrows its width at 3.  The      *)
(* device is node 1 and its peer node 2.                                   *)
(***************************************************************************)
EXTENDS DeviceClock, LocalQueries, SqliteStore, RelaySocket, DurableFiles, RemoteFolders

VARIABLE awake

peer(ts, counter) == [ts |-> ts, counter |-> counter, nodeId |-> 2]

\* One stamp in the past, one at the skew, one beyond it.
PeerHlcs == {peer(0, 1), peer(2, 0), peer(4, 0)}

\* A snapshot cut by a compactor whose clock is behind.
BehindHlcs == {peer(0, 0)}

StoredKeys == {[table |-> "t", id |-> 1], [table |-> "t", id |-> 2], [table |-> "u", id |-> 1]}

\* No index, the index of a field, a unique field beside a declared index, and
\* that index under the same name on the other field.
Declared ==
    LET x(f) == [name |-> "x", field |-> f, unique |-> FALSE]
    IN  {[index |-> {}, unique |-> {}, indexes |-> {}],
         [index |-> {"f"}, unique |-> {}, indexes |-> {}],
         [index |-> {}, unique |-> {"f"}, indexes |-> {x("g")}],
         [index |-> {"f"}, unique |-> {}, indexes |-> {x("f")}]}

Kinds ==
    {[f |-> V, g |-> {Num(1)}] :
        V \in {{Num(1), Num(2)}, {Bool(0), Bool(1)}, {Date(1), Date(2)},
               {Str(<<1>>), Str(<<1, 2>>), Str(<<2>>)}}}

NoQueries ==
    /\ rows = [k \in Key |-> Absent] /\ built = {}
    /\ schema = [index |-> {}, unique |-> {}, indexes |-> {}]
    /\ column = [f |-> {}, g |-> {}]

adapterVars == <<relayVars, durableVars, folderVars>>

\* A subscription that was cancelled and whose socket has closed.
NoRelay ==
    /\ port = "web" /\ sub = [cancelled |-> TRUE, backoff |-> 1, streak |-> 0]
    /\ sockets = <<>> /\ timers = <<>>
    /\ host = [up |-> TRUE, turns |-> 0]
    /\ refused = 0 /\ after = {}

NoFiles ==
    /\ DurableInit /\ store = "plain" /\ \A m \in Member : keys[m].port = "web"

NoFolders ==
    /\ FoldersInit /\ service = "s3" /\ bucket = {}

\* Members are interchangeable: of two that differ the first runs the web port.
PortsOnce ==
    (\E m \in Member : keys[m].port = "web") => keys[CHOOSE m \in Member : TRUE].port = "web"

AdaptersInit(running) ==
    /\ IF running = "relay" THEN RelayInit ELSE NoRelay
    /\ IF running = "files" THEN DurableInit /\ PortsOnce ELSE NoFiles
    /\ IF running = "folders" THEN FoldersInit ELSE NoFolders

AdaptersNext(running) ==
    \/ running = "relay" /\ RelayNext /\ UNCHANGED <<durableVars, folderVars>>
    \/ running = "files" /\ DurableNext /\ UNCHANGED <<relayVars, folderVars>>
    \/ running = "folders" /\ FoldersNext /\ UNCHANGED <<relayVars, durableVars>>

\* Sockets open or fail, close, and timers fire.
AdaptersSettle(running) == running = "relay" /\ RelaySettles /\ UNCHANGED <<durableVars, folderVars>>

Local == {"clock", "queries", "sqlite"}
Remote == {"relay", "files", "folders"}

DeviceInit ==
    /\ Init /\ SqliteInit
    /\ awake \in Local \cup Remote
    /\ awake # "clock" => wallMax = 0
    /\ IF awake = "queries" THEN QueryInit ELSE NoQueries
    /\ AdaptersInit(awake)

DeviceNext ==
    /\ UNCHANGED awake
    /\ \/ /\ UNCHANGED adapterVars
          /\ \/ awake = "clock" /\ SteadyNext /\ UNCHANGED <<queryVars, sqliteVars>>
             \/ awake = "queries" /\ QueryNext /\ UNCHANGED <<vars, sqliteVars>>
             \/ awake = "sqlite" /\ SqliteNext /\ UNCHANGED <<vars, queryVars>>
       \/ AdaptersNext(awake) /\ UNCHANGED <<vars, queryVars, sqliteVars>>

deviceVars == <<vars, queryVars, sqliteVars, adapterVars, awake>>

\* Only the sockets and timers of the relay have to move.
DeviceSpec ==
    /\ DeviceInit /\ [][DeviceNext]_deviceVars
    /\ WF_deviceVars(AdaptersSettle(awake) /\ UNCHANGED <<vars, queryVars, sqliteVars, awake>>)
=============================================================================
