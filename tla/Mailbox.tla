------------------------------ MODULE Mailbox ------------------------------
(***************************************************************************)
(* Mailbox synchronisation: the devices of a mesh exchange immutable       *)
(* change files through a remote folder (flush.ts, pull.ts,                *)
(* change-observation.ts), a compactor replaces files by snapshots and     *)
(* devices restore from them (compaction.ts), all driven by the operations *)
(* of sync-engine.ts.                                                      *)
(*                                                                         *)
(* A mutation is its stamp.  A change entry, and the file that publishes   *)
(* it, is the set of the mutations of one batch; its HLC is their largest. *)
(* The rows of a store are the set of the mutations merged into them       *)
(* (RowMerge models the merge itself, DeviceClock the stamps).             *)
(*                                                                         *)
(* An engine operation holds the lock SYNC_STATE_LOCK of its device from   *)
(* start to end: pc[d] = "idle" when the lock is free.  Between two        *)
(* requests to the remote the steps of the other devices interleave.       *)
(***************************************************************************)
EXTENDS Naturals

CONSTANTS
  Device,
  Readers,     \* devices that run in reader mode
  Writers,     \* devices whose application writes
  Compactors,  \* devices that may compact: one when the mesh is managed
  MaxStamp,    \* bound: the largest stamp
  MaxEpoch,    \* bound: the number of compactions
  Faults,      \* the kinds of faults considered
  MaxFaults    \* bound: how many faults happen

ASSUME MailboxAssumption ==
  /\ Readers \subseteq Device
  /\ Writers \subseteq Device \ Readers
  /\ Compactors \subseteq Device \ Readers
  /\ MaxStamp \in Nat
  /\ MaxEpoch \in Nat
  /\ MaxFaults \in Nat

VARIABLES
  files,       \* the remote folder changes/: the change files
  head,        \* latestHlc of changes/head.json, 0 before the first one
  epoch,       \* the epoch of the manifest the remote pointer names
  snaps,       \* snaps[n]: the snapshot file of epoch n
  rows,        \* rows[d]: the mutations merged into d's rows
  pending,     \* pending[d]: the pending batch, {} when there is none
  outbox,      \* outbox[d]: the entries queued for publication
  seen,        \* seen[d]: the ledger of observed change files
  lepoch,      \* lepoch[d]: the local epoch
  sync,        \* sync[d]: how long ago d last completed a sync
  quarantine,  \* quarantine[d]: the entries withheld after a long absence
  cache,       \* cache[d]: a manifest is cached in d's store
  pc,          \* pc[d]: where the operation that holds d's lock is
  goal,        \* goal[d]: which operation that is
  conn,        \* conn[d]: the progress of connect()
  man,         \* man[d]: the epoch of the manifest in memory
  todo,        \* todo[d]: the entries the operation has yet to handle
  obs,         \* obs[d]: the files applied by the pull in progress
  cut,         \* cut[d]: what the restore in progress writes
  paused,      \* paused[d]: the remote denied access
  poisoned,    \* poisoned[d]: a remote file could not be read
  accepted,    \* the mutations put() has accepted so far
  faults       \* how many faults happened

remote == <<files, head, epoch, snaps>>
store  == <<rows, pending, outbox, seen, lepoch, sync, quarantine, cache>>
engine == <<pc, goal, conn, man, todo, obs, cut, paused, poisoned>>
vars   == <<remote, store, engine, accepted, faults>>

Stamp == 1 .. MaxStamp
Entry == (SUBSET Stamp) \ {{}}
Epoch == 0 .. MaxEpoch
NoManifest == MaxEpoch + 1

Snapshot == [rows : SUBSET Stamp, covered : SUBSET Entry]
NoSnapshot == [rows |-> {}, covered |-> {{}}]

Sync == {"never", "fresh", "lapsed"}

Replacement == [rows : SUBSET Stamp, covered : SUBSET Entry, epoch : Epoch,
                quarantine : SUBSET Entry, sync : Sync]
NoReplacement == [rows |-> {}, covered |-> {}, epoch |-> 0, quarantine |-> {},
                  sync |-> "never"]

Conn == {"off", "loaded", "current", "expired", "syncing", "pulled", "on"}

ConnectGoal == {"connectPull", "connectRestore", "connectReset", "connectFlush"}
Goal == ConnectGoal \cup {"none", "flush", "disconnect", "pull", "rehydrate", "compact",
                          "reset"}

Pc == {"idle", "flush", "publish", "head", "check", "list", "apply", "restore", "retry",
       "clear", "fill", "settle", "snapshot", "pointer", "local", "delete"}

highest(S) == IF S = {} THEN 0 ELSE CHOOSE s \in S : \A t \in S : t <= s

(***************************************************************************)
(* changeFileName and compareChangeFiles: files are ordered by their HLC.  *)
(***************************************************************************)
isFirst(e, E) == e \in E /\ \A f \in E : highest(e) <= highest(f)

snapshotRows == IF epoch = 0 THEN {} ELSE snaps[epoch].rows

Init ==
  /\ files = {} /\ head = 0 /\ epoch = 0
  /\ snaps = [n \in Epoch \ {0} |-> NoSnapshot]
  /\ rows = [d \in Device |-> {}]
  /\ pending = [d \in Device |-> {}]
  /\ outbox = [d \in Device |-> {}]
  /\ seen = [d \in Device |-> {}]
  /\ lepoch = [d \in Device |-> 0]
  /\ sync = [d \in Device |-> "never"]
  /\ quarantine = [d \in Device |-> {}]
  /\ cache = [d \in Device |-> FALSE]
  /\ pc = [d \in Device |-> "idle"]
  /\ goal = [d \in Device |-> "none"]
  /\ conn = [d \in Device |-> "off"]
  /\ man = [d \in Device |-> NoManifest]
  /\ todo = [d \in Device |-> {}]
  /\ obs = [d \in Device |-> {}]
  /\ cut = [d \in Device |-> NoReplacement]
  /\ paused = [d \in Device |-> FALSE]
  /\ poisoned = [d \in Device |-> FALSE]
  /\ accepted = {} /\ faults = 0
-----------------------------------------------------------------------------
(***************************************************************************)
(* Local writes.  putNow and deleteNow commit the mutation to the rows and *)
(* to the pending batch in one transaction; flushPendingBatch moves the    *)
(* batch to the outbox.  A stamp is above what the device has merged.      *)
(***************************************************************************)
Put(d, s) ==
  /\ d \in Writers /\ pc[d] = "idle"
  /\ s \notin accepted /\ \A t \in rows[d] : t < s
  /\ rows' = [rows EXCEPT ![d] = @ \cup {s}]
  /\ pending' = [pending EXCEPT ![d] = @ \cup {s}]
  /\ accepted' = accepted \cup {s}
  /\ UNCHANGED <<remote, outbox, seen, lepoch, sync, quarantine, cache, engine, faults>>

promoted_Replaces(d) == IF pending[d] = {} THEN outbox[d] ELSE {pending[d]}

promoted(d) == IF pending[d] = {} THEN outbox[d] ELSE outbox[d] \cup {pending[d]}

flushPendingBatch(d) ==
  /\ outbox' = [outbox EXCEPT ![d] = promoted(d)]
  /\ pending' = [pending EXCEPT ![d] = {}]

Promote(d) ==
  /\ pc[d] = "idle" /\ pending[d] # {}
  /\ flushPendingBatch(d)
  /\ UNCHANGED <<remote, rows, seen, lepoch, sync, quarantine, cache, engine, accepted, faults>>

(***************************************************************************)
(* quarantineExpiredOfflineWrites: a device that was absent for too long   *)
(* withholds what it has queued.                                           *)
(***************************************************************************)
quarantineExpired(d) ==
  /\ quarantine' = [quarantine EXCEPT ![d] = @ \cup promoted(d)]
  /\ outbox' = [outbox EXCEPT ![d] = {}]
  /\ pending' = [pending EXCEPT ![d] = {}]
-----------------------------------------------------------------------------
(***************************************************************************)
(* The lock.  Start begins an operation, Resume goes on with it at p or    *)
(* ends it when p is "idle", Throw ends it with an error.                  *)
(***************************************************************************)
Start(d, g, p) ==
  /\ pc[d] = "idle"
  /\ pc' = [pc EXCEPT ![d] = p]
  /\ goal' = [goal EXCEPT ![d] = g]

(* connect() ends with this operation; a writer still has to flush after   *)
(* its initial pull.                                                       *)
connects(d) ==
  goal[d] \in ConnectGoal /\ (goal[d] = "connectPull" => d \in Readers)

endedConn(d) ==
  IF goal[d] = "disconnect" THEN "off"
  ELSE IF connects(d) THEN "on"
  ELSE IF goal[d] = "connectPull" THEN "pulled"
  ELSE conn[d]

Resume(d, p) ==
  IF p = "idle"
  THEN /\ pc' = [pc EXCEPT ![d] = "idle"]
       /\ goal' = [goal EXCEPT ![d] = "none"]
       /\ conn' = [conn EXCEPT ![d] = endedConn(d)]
       /\ paused' = [paused EXCEPT ![d] = @ /\ ~connects(d) /\ goal[d] # "disconnect"]
       /\ poisoned' = [poisoned EXCEPT ![d] = @ /\ goal[d] # "disconnect"]
  ELSE /\ pc' = [pc EXCEPT ![d] = p]
       /\ UNCHANGED <<goal, conn, paused, poisoned>>

(* markSuccessfulRemoteSync when the operation completes connect().        *)
syncAfter(d, p, t) == IF p = "idle" /\ connects(d) THEN "fresh" ELSE t

Throw(d, denied) ==
  /\ pc' = [pc EXCEPT ![d] = "idle"]
  /\ goal' = [goal EXCEPT ![d] = "none"]
  /\ todo' = [todo EXCEPT ![d] = {}]
  /\ obs' = [obs EXCEPT ![d] = {}]
  /\ conn' = [conn EXCEPT ![d] =
                IF denied \/ goal[d] \in ConnectGoal \cup {"disconnect"} THEN "off" ELSE @]
  /\ paused' = [paused EXCEPT ![d] = (@ \/ denied) /\ goal[d] # "disconnect"]

(***************************************************************************)
(* poisonRemote: synchronisation stops until disconnect().                 *)
(***************************************************************************)
poisonRemote(d) ==
  /\ pc' = [pc EXCEPT ![d] = "idle"]
  /\ goal' = [goal EXCEPT ![d] = "none"]
  /\ todo' = [todo EXCEPT ![d] = {}]
  /\ obs' = [obs EXCEPT ![d] = {}]
  /\ conn' = [conn EXCEPT ![d] = "off"]
  /\ poisoned' = [poisoned EXCEPT ![d] = TRUE]
-----------------------------------------------------------------------------
(***************************************************************************)
(* flush(): publish the outbox.  all tells whether the pending batch is    *)
(* promoted first; the debounced flush leaves it alone.                    *)
(***************************************************************************)
Flush(d, all) ==
  /\ Start(d, "flush", "flush")
  /\ ~paused[d]
  /\ IF all THEN flushPendingBatch(d) ELSE UNCHANGED <<outbox, pending>>
  /\ outbox'[d] # {}
  /\ UNCHANGED <<remote, rows, seen, lepoch, sync, quarantine, cache, conn, man, todo, obs,
                 cut, paused, poisoned, accepted, faults>>

afterFlush(d) ==
  IF goal[d] \in {"rehydrate", "connectRestore"} THEN "restore"
  ELSE IF goal[d] = "compact" THEN "list"
  ELSE "idle"

(* doFlush returns at once when access is paused or nothing is queued.     *)
FlushSkip(d) ==
  /\ pc[d] = "flush" /\ (paused[d] \/ outbox[d] = {})
  /\ Resume(d, afterFlush(d))
  /\ sync' = [sync EXCEPT ![d] = syncAfter(d, afterFlush(d), @)]
  /\ UNCHANGED <<remote, rows, pending, outbox, seen, lepoch, quarantine, cache, man, todo,
                 obs, cut, accepted, faults>>

(* The manifest is reloaded; a device past the retention limit publishes   *)
(* nothing.                                                                *)
FlushQuarantine(d) ==
  /\ pc[d] = "flush" /\ ~paused[d] /\ outbox[d] # {} /\ sync[d] = "lapsed"
  /\ quarantineExpired(d)
  /\ man' = [man EXCEPT ![d] = epoch]
  /\ cache' = [cache EXCEPT ![d] = TRUE]
  /\ Resume(d, afterFlush(d))
  /\ sync' = [sync EXCEPT ![d] = syncAfter(d, afterFlush(d), @)]
  /\ UNCHANGED <<remote, rows, seen, lepoch, todo, obs, cut, accepted, faults>>

(* recordFlushedChanges: the receipts are stored before anything is        *)
(* published.                                                              *)
FlushRecord(d) ==
  /\ pc[d] = "flush" /\ ~paused[d] /\ outbox[d] # {} /\ sync[d] # "lapsed"
  /\ man' = [man EXCEPT ![d] = epoch]
  /\ cache' = [cache EXCEPT ![d] = TRUE]
  /\ seen' = [seen EXCEPT ![d] = @ \cup outbox[d]]
  /\ todo' = [todo EXCEPT ![d] = outbox[d]]
  /\ pc' = [pc EXCEPT ![d] = "publish"]
  /\ UNCHANGED <<remote, rows, pending, outbox, lepoch, sync, quarantine, goal, conn, obs,
                 cut, paused, poisoned, accepted, faults>>

PublishFile(d) ==
  /\ pc[d] = "publish"
  /\ \E e \in todo[d] :
       /\ isFirst(e, todo[d])
       /\ files' = files \cup {e}
       /\ todo' = [todo EXCEPT ![d] = @ \ {e}]
  /\ UNCHANGED <<head, epoch, snaps, store, pc, goal, conn, man, obs, cut, paused, poisoned,
                 accepted, faults>>

(* The outbox is acknowledged after the publication.                       *)
acknowledgeOutbox(d) ==
  /\ outbox' = [outbox EXCEPT ![d] = {}]
  /\ sync' = [sync EXCEPT ![d] = "fresh"]
  /\ Resume(d, afterFlush(d))

lastWritten(d) == highest(UNION outbox[d])

(* The head is read, and written when it is behind.                        *)
HeadRead(d) ==
  /\ pc[d] = "publish" /\ todo[d] = {}
  /\ IF head >= lastWritten(d)
     THEN acknowledgeOutbox(d)
     ELSE /\ pc' = [pc EXCEPT ![d] = "head"]
          /\ UNCHANGED <<outbox, sync, goal, conn, paused, poisoned>>
  /\ UNCHANGED <<remote, rows, pending, seen, lepoch, quarantine, cache, man, todo, obs, cut,
                 accepted, faults>>

HeadWrite(d) ==
  /\ pc[d] = "head"
  /\ head' = lastWritten(d)
  /\ acknowledgeOutbox(d)
  /\ UNCHANGED <<files, epoch, snaps, rows, pending, seen, lepoch, quarantine, cache, man,
                 todo, obs, cut, accepted, faults>>
-----------------------------------------------------------------------------
(***************************************************************************)
(* pull(): apply the listed files that have no receipt, in order, then     *)
(* store the receipts.  A reader first reloads the manifest and restores   *)
(* the snapshot when the epoch has advanced.                               *)
(***************************************************************************)
Pull(d) ==
  /\ conn[d] = "on"
  /\ Start(d, "pull", IF d \in Readers THEN "check" ELSE "list")
  /\ UNCHANGED <<remote, store, conn, man, todo, obs, cut, paused, poisoned, accepted, faults>>

readerRestores_Never(d) == FALSE

readerRestores(d) == epoch > lepoch[d]

ReaderCheck(d) ==
  /\ pc[d] = "check"
  /\ man' = [man EXCEPT ![d] = epoch]
  /\ cache' = [cache EXCEPT ![d] = TRUE]
  /\ pc' = [pc EXCEPT ![d] = IF readerRestores(d) THEN "restore" ELSE "list"]
  /\ UNCHANGED <<remote, rows, pending, outbox, seen, lepoch, sync, quarantine, goal, conn,
                 todo, obs, cut, paused, poisoned, accepted, faults>>

PullList(d) ==
  /\ pc[d] = "list"
  /\ todo' = [todo EXCEPT ![d] = files \ seen[d]]
  /\ obs' = [obs EXCEPT ![d] = {}]
  /\ pc' = [pc EXCEPT ![d] = "apply"]
  /\ UNCHANGED <<remote, store, goal, conn, man, cut, paused, poisoned, accepted, faults>>

(* The bodies are fetched ahead of their turn: a file that is gone by now  *)
(* may have been read before.                                              *)
PullApply(d) ==
  /\ pc[d] = "apply"
  /\ \E e \in todo[d] :
       /\ isFirst(e, todo[d])
       /\ rows' = [rows EXCEPT ![d] = @ \cup e]
       /\ obs' = [obs EXCEPT ![d] = @ \cup {e}]
       /\ todo' = [todo EXCEPT ![d] = @ \ {e}]
  /\ UNCHANGED <<remote, pending, outbox, seen, lepoch, sync, quarantine, cache, pc, goal,
                 conn, man, cut, paused, poisoned, accepted, faults>>

(* Any error on a listed file poisons the remote, its absence included.    *)
PullMissing(d) ==
  /\ pc[d] = "apply"
  /\ \E e \in todo[d] : isFirst(e, todo[d]) /\ e \notin files
  /\ poisonRemote(d)
  /\ UNCHANGED <<remote, store, man, cut, paused, accepted, faults>>

afterPull(d) == IF goal[d] = "compact" THEN "snapshot" ELSE "idle"

(* The receipts are stored; a connected device has completed a sync.       *)
PullDone(d) ==
  /\ pc[d] = "apply" /\ todo[d] = {}
  /\ seen' = [seen EXCEPT ![d] = @ \cup obs[d]]
  /\ obs' = [obs EXCEPT ![d] = {}]
  /\ Resume(d, afterPull(d))
  /\ sync' = [sync EXCEPT ![d] =
                syncAfter(d, afterPull(d), IF conn[d] = "on" THEN "fresh" ELSE @)]
  /\ UNCHANGED <<remote, rows, pending, outbox, lepoch, quarantine, cache, man, todo, cut,
                 accepted, faults>>
-----------------------------------------------------------------------------
(***************************************************************************)
(* rehydrate(): publish what is queued, then replace the local state by    *)
(* the snapshot of the manifest in memory and pull.                        *)
(***************************************************************************)
flushAndRehydrateNow_NoFlush(d, g) == Start(d, g, "restore") /\ flushPendingBatch(d)

flushAndRehydrateNow(d, g) == Start(d, g, "flush") /\ flushPendingBatch(d)

Rehydrate(d) ==
  /\ conn[d] = "on" /\ d \notin Readers
  /\ flushAndRehydrateNow(d, "rehydrate")
  /\ UNCHANGED <<remote, rows, seen, lepoch, sync, quarantine, cache, conn, man, todo, obs,
                 cut, paused, poisoned, accepted, faults>>

(* preservedRetentionMeta: what the replacement keeps.  A reader's keeps   *)
(* nothing.                                                                *)
replacement_CurrentEpoch(d, snapshot, n) ==
  [rows |-> snapshot.rows, covered |-> snapshot.covered, epoch |-> epoch,
   quarantine |-> {}, sync |-> sync[d]]

replacement(d, snapshot, n) ==
  [rows |-> snapshot.rows, covered |-> snapshot.covered, epoch |-> n,
   quarantine |-> IF d \in Readers THEN {} ELSE quarantine[d],
   sync |-> IF d \in Readers THEN "never" ELSE sync[d]]

(* Without a snapshot there is nothing to restore: an expired client is    *)
(* cleared all the same, any other one only pulls.                         *)
RestoreNone(d) ==
  /\ pc[d] = "restore" /\ man[d] = 0
  /\ IF goal[d] \in {"reset", "connectReset"}
     THEN /\ cut' = [cut EXCEPT ![d] = replacement(d, [rows |-> {}, covered |-> {}], 0)]
          /\ pc' = [pc EXCEPT ![d] = "clear"]
     ELSE /\ pc' = [pc EXCEPT ![d] = "list"]
          /\ UNCHANGED cut
  /\ UNCHANGED <<remote, store, goal, conn, man, todo, obs, paused, poisoned, accepted, faults>>

RestoreRead(d) ==
  /\ pc[d] \in {"restore", "retry"} /\ man[d] # 0 /\ snaps[man[d]] # NoSnapshot
  /\ cut' = [cut EXCEPT ![d] = replacement(d, snaps[man[d]], man[d])]
  /\ pc' = [pc EXCEPT ![d] = "clear"]
  /\ UNCHANGED <<remote, store, goal, conn, man, todo, obs, paused, poisoned, accepted, faults>>

(* The snapshot is gone: the manifest is reloaded and, if it names another *)
(* snapshot, that one is tried, once.                                      *)
RestoreRetry(d) ==
  /\ pc[d] = "restore" /\ man[d] # 0 /\ snaps[man[d]] = NoSnapshot /\ epoch # man[d]
  /\ man' = [man EXCEPT ![d] = epoch]
  /\ cache' = [cache EXCEPT ![d] = TRUE]
  /\ pc' = [pc EXCEPT ![d] = "retry"]
  /\ UNCHANGED <<remote, rows, pending, outbox, seen, lepoch, sync, quarantine, goal, conn,
                 todo, obs, cut, paused, poisoned, accepted, faults>>

RestoreMissing(d) ==
  /\ pc[d] \in {"restore", "retry"} /\ man[d] # 0 /\ snaps[man[d]] = NoSnapshot
  /\ pc[d] = "restore" => epoch = man[d]
  /\ poisonRemote(d)
  /\ UNCHANGED <<remote, store, man, cut, paused, accepted, faults>>

(* clearAll, then the preserved records and the rows, then the receipts    *)
(* and the epoch.                                                          *)
RestoreClear(d) ==
  /\ pc[d] = "clear"
  /\ rows' = [rows EXCEPT ![d] = {}]
  /\ pending' = [pending EXCEPT ![d] = {}]
  /\ outbox' = [outbox EXCEPT ![d] = {}]
  /\ seen' = [seen EXCEPT ![d] = {}]
  /\ lepoch' = [lepoch EXCEPT ![d] = 0]
  /\ sync' = [sync EXCEPT ![d] = "never"]
  /\ quarantine' = [quarantine EXCEPT ![d] = {}]
  /\ cache' = [cache EXCEPT ![d] = FALSE]
  /\ pc' = [pc EXCEPT ![d] = "fill"]
  /\ UNCHANGED <<remote, goal, conn, man, todo, obs, cut, paused, poisoned, accepted, faults>>

RestoreFill(d) ==
  /\ pc[d] = "fill"
  /\ quarantine' = [quarantine EXCEPT ![d] = cut[d].quarantine]
  /\ sync' = [sync EXCEPT ![d] = cut[d].sync]
  /\ rows' = [rows EXCEPT ![d] = cut[d].rows]
  /\ pc' = [pc EXCEPT ![d] = "settle"]
  /\ UNCHANGED <<remote, pending, outbox, seen, lepoch, cache, goal, conn, man, todo, obs,
                 cut, paused, poisoned, accepted, faults>>

restoredReceipts_Listed(d) == cut[d].covered \cup files

restoredReceipts(d) == cut[d].covered

RestoreSettle(d) ==
  /\ pc[d] = "settle"
  /\ seen' = [seen EXCEPT ![d] = restoredReceipts(d)]
  /\ lepoch' = [lepoch EXCEPT ![d] = cut[d].epoch]
  /\ cut' = [cut EXCEPT ![d] = NoReplacement]
  /\ pc' = [pc EXCEPT ![d] = "list"]
  /\ UNCHANGED <<remote, rows, pending, outbox, sync, quarantine, cache, goal, conn, man,
                 todo, obs, paused, poisoned, accepted, faults>>
-----------------------------------------------------------------------------
(***************************************************************************)
(* compact(): flush, pull, publish a snapshot of the local rows with the   *)
(* receipts as its coverage, then delete exactly the covered files and the *)
(* superseded snapshots, as far as the remote obeys.  The deployment       *)
(* serialises compactions.                                                 *)
(***************************************************************************)
Compact(d) ==
  /\ d \in Compactors /\ conn[d] = "on" /\ epoch < MaxEpoch
  /\ \A c \in Device : goal[c] # "compact"
  /\ man' = [man EXCEPT ![d] = epoch]
  /\ cache' = [cache EXCEPT ![d] = TRUE]
  /\ IF sync[d] = "lapsed"
     THEN Start(d, "reset", "restore") /\ quarantineExpired(d)
     ELSE Start(d, "compact", "flush") /\ flushPendingBatch(d) /\ UNCHANGED quarantine
  /\ UNCHANGED <<remote, rows, seen, lepoch, sync, conn, todo, obs, cut, paused, poisoned,
                 accepted, faults>>

(* capturedChangeFileNames: what the snapshot covers.                      *)
coveredChangeFiles_Listed(d) == seen[d] \cup files

coveredChangeFiles(d) == seen[d]

CompactSnapshot(d) ==
  /\ pc[d] = "snapshot"
  /\ snaps' = [snaps EXCEPT ![man[d] + 1] = [rows |-> rows[d], covered |-> coveredChangeFiles(d)]]
  /\ pc' = [pc EXCEPT ![d] = "pointer"]
  /\ UNCHANGED <<files, head, epoch, store, goal, conn, man, todo, obs, cut, paused, poisoned,
                 accepted, faults>>

CompactPointer(d) ==
  /\ pc[d] = "pointer"
  /\ epoch' = man[d] + 1
  /\ pc' = [pc EXCEPT ![d] = "local"]
  /\ UNCHANGED <<files, head, snaps, store, goal, conn, man, todo, obs, cut, paused, poisoned,
                 accepted, faults>>

CompactLocal(d) ==
  /\ pc[d] = "local"
  /\ lepoch' = [lepoch EXCEPT ![d] = man[d] + 1]
  /\ pc' = [pc EXCEPT ![d] = "delete"]
  /\ UNCHANGED <<remote, rows, pending, outbox, seen, sync, quarantine, cache, goal, conn, man,
                 todo, obs, cut, paused, poisoned, accepted, faults>>

deletable_Listed(d) == files

deletable(d) == coveredChangeFiles(d) \cap files

CompactDelete(d) ==
  /\ pc[d] = "delete"
  /\ \E e \in deletable(d) : files' = files \ {e}
  /\ UNCHANGED <<head, epoch, snaps, store, engine, accepted, faults>>

(* pruneSupersededSnapshots, and the end of the compaction.                *)
CompactPrune(d) ==
  /\ pc[d] = "delete"
  /\ \E gone \in SUBSET (DOMAIN snaps \ {man[d] + 1}) :
       snaps' = [n \in DOMAIN snaps |-> IF n \in gone THEN NoSnapshot ELSE snaps[n]]
  /\ man' = [man EXCEPT ![d] = @ + 1]
  /\ Resume(d, "idle")
  /\ UNCHANGED <<files, head, epoch, store, todo, obs, cut, accepted, faults>>
-----------------------------------------------------------------------------
(***************************************************************************)
(* connect().  The fast path checks that every listed file has a receipt   *)
(* and that the head is not beyond the largest HLC observed.  Otherwise    *)
(* connect() loads the manifest, fences an expired client, restores or     *)
(* pulls, and flushes, releasing the lock between these stages.            *)
(***************************************************************************)
fastPath(d, cursor) ==
  /\ d \notin Readers /\ (man[d] # NoManifest \/ cache[d])
  /\ cursor # 0 /\ sync[d] # "lapsed"
  /\ outbox[d] = {} /\ pending[d] = {}
  /\ head # 0 /\ head <= cursor
  /\ files \subseteq seen[d]

(* globalHighWaterHlc: the largest HLC observed.  A restore raises it to   *)
(* the clock of the compactor, which may be ahead of any stamp.            *)
highWater(d) ==
  IF lepoch[d] = 0
  THEN {highest(UNION seen[d])}
  ELSE {s \in 0 .. MaxStamp : highest(UNION seen[d]) <= s}

ConnectFast(d) ==
  /\ conn[d] = "off" /\ pc[d] = "idle" /\ ~poisoned[d]
  /\ \E cursor \in highWater(d) : fastPath(d, cursor)
  /\ man' = [man EXCEPT ![d] = epoch]
  /\ conn' = [conn EXCEPT ![d] = "on"]
  /\ paused' = [paused EXCEPT ![d] = FALSE]
  /\ sync' = [sync EXCEPT ![d] = "fresh"]
  /\ UNCHANGED <<remote, rows, pending, outbox, seen, lepoch, quarantine, cache, pc, goal,
                 todo, obs, cut, poisoned, accepted, faults>>

ConnectLoad(d) ==
  /\ conn[d] = "off" /\ pc[d] = "idle" /\ ~poisoned[d]
  /\ \E cursor \in highWater(d) : ~fastPath(d, cursor)
  /\ man' = [man EXCEPT ![d] = epoch]
  /\ cache' = [cache EXCEPT ![d] = TRUE]
  /\ conn' = [conn EXCEPT ![d] = IF d \in Readers THEN "current" ELSE "loaded"]
  /\ UNCHANGED <<remote, rows, pending, outbox, seen, lepoch, sync, quarantine, pc, goal,
                 todo, obs, cut, paused, poisoned, accepted, faults>>

fenced_WithoutReset(d) == "current"

fenced(d) == IF sync[d] = "lapsed" THEN "expired" ELSE "current"

ConnectFence(d) ==
  /\ conn[d] = "loaded" /\ pc[d] = "idle"
  /\ conn' = [conn EXCEPT ![d] = fenced(d)]
  /\ IF sync[d] = "lapsed"
     THEN quarantineExpired(d)
     ELSE UNCHANGED <<quarantine, outbox, pending>>
  /\ UNCHANGED <<remote, rows, seen, lepoch, sync, cache, pc, goal, man, todo, obs, cut,
                 paused, poisoned, accepted, faults>>

ConnectReset(d) ==
  /\ conn[d] = "expired"
  /\ Start(d, "connectReset", "restore")
  /\ conn' = [conn EXCEPT ![d] = "syncing"]
  /\ UNCHANGED <<remote, store, man, todo, obs, cut, paused, poisoned, accepted, faults>>

ConnectRestore(d) ==
  /\ conn[d] = "current" /\ d \notin Readers /\ lepoch[d] < man[d]
  /\ flushAndRehydrateNow(d, "connectRestore")
  /\ conn' = [conn EXCEPT ![d] = "syncing"]
  /\ UNCHANGED <<remote, rows, seen, lepoch, sync, quarantine, cache, man, todo, obs, cut,
                 paused, poisoned, accepted, faults>>

ConnectPull(d) ==
  /\ conn[d] = "current" /\ (d \in Readers \/ lepoch[d] >= man[d])
  /\ Start(d, "connectPull", IF man[d] > lepoch[d] THEN "restore" ELSE "list")
  /\ conn' = [conn EXCEPT ![d] = "syncing"]
  /\ UNCHANGED <<remote, store, man, todo, obs, cut, paused, poisoned, accepted, faults>>

ConnectFlush(d) ==
  /\ conn[d] = "pulled"
  /\ Start(d, "connectFlush", "flush")
  /\ flushPendingBatch(d)
  /\ conn' = [conn EXCEPT ![d] = "syncing"]
  /\ UNCHANGED <<remote, rows, seen, lepoch, sync, quarantine, cache, man, todo, obs, cut,
                 paused, poisoned, accepted, faults>>

(***************************************************************************)
(* disconnect() flushes first, unless the remote is poisoned, and forgets  *)
(* why synchronisation had stopped.                                        *)
(***************************************************************************)
Disconnect(d) ==
  /\ conn[d] = "on" \/ (conn[d] = "off" /\ (paused[d] \/ poisoned[d]))
  /\ IF d \in Readers \/ poisoned[d]
     THEN /\ pc[d] = "idle"
          /\ conn' = [conn EXCEPT ![d] = "off"]
          /\ paused' = [paused EXCEPT ![d] = FALSE]
          /\ poisoned' = [poisoned EXCEPT ![d] = FALSE]
          /\ UNCHANGED <<pc, goal, outbox, pending>>
     ELSE /\ Start(d, "disconnect", "flush")
          /\ flushPendingBatch(d)
          /\ UNCHANGED <<conn, paused, poisoned>>
  /\ UNCHANGED <<remote, rows, seen, lepoch, sync, quarantine, cache, man, todo, obs, cut,
                 accepted, faults>>
-----------------------------------------------------------------------------
(***************************************************************************)
(* Faults of the environment.                                              *)
(***************************************************************************)
Fault(kind) == kind \in Faults /\ faults < MaxFaults /\ faults' = faults + 1

(* The process stops; what is in the local store survives.                 *)
Crash(d) ==
  /\ Fault("crash")
  /\ pc' = [pc EXCEPT ![d] = "idle"]
  /\ goal' = [goal EXCEPT ![d] = "none"]
  /\ conn' = [conn EXCEPT ![d] = "off"]
  /\ man' = [man EXCEPT ![d] = NoManifest]
  /\ todo' = [todo EXCEPT ![d] = {}]
  /\ obs' = [obs EXCEPT ![d] = {}]
  /\ cut' = [cut EXCEPT ![d] = NoReplacement]
  /\ paused' = [paused EXCEPT ![d] = FALSE]
  /\ poisoned' = [poisoned EXCEPT ![d] = FALSE]
  /\ UNCHANGED <<remote, store, accepted>>

(* A request fails and the operation throws.                               *)
RequestFails(d) ==
  /\ Fault("fail")
  /\ \/ pc[d] \in {"publish", "head", "check", "snapshot", "pointer"}
     \/ pc[d] = "flush" /\ ~paused[d] /\ outbox[d] # {}
  /\ Throw(d, FALSE)
  /\ poisoned' = [poisoned EXCEPT ![d] = @ /\ goal[d] # "disconnect"]
  /\ UNCHANGED <<remote, store, man, cut, accepted>>

(* handleRemoteAccessError: a denial pauses the session until connect().   *)
AccessDenied(d) ==
  /\ Fault("deny")
  /\ pc[d] \in {"publish", "head", "check", "list"}
  /\ Throw(d, TRUE)
  /\ poisoned' = [poisoned EXCEPT ![d] = @ /\ goal[d] # "disconnect"]
  /\ UNCHANGED <<remote, store, man, cut, accepted>>

(* The listing fails: pull() returns as if there was nothing to merge.     *)
ListFails(d) ==
  /\ Fault("list")
  /\ pc[d] = "list"
  /\ Resume(d, afterPull(d))
  /\ sync' = [sync EXCEPT ![d] =
                syncAfter(d, afterPull(d), IF conn[d] = "on" THEN "fresh" ELSE @)]
  /\ UNCHANGED <<remote, rows, pending, outbox, seen, lepoch, quarantine, cache, man, todo,
                 obs, cut, accepted>>

(* The head cannot be read: the flush takes it as absent.                  *)
HeadUnreadable(d) ==
  /\ Fault("read")
  /\ pc[d] = "publish" /\ todo[d] = {}
  /\ pc' = [pc EXCEPT ![d] = "head"]
  /\ UNCHANGED <<remote, store, goal, conn, man, todo, obs, cut, paused, poisoned, accepted>>

FileUnreadable(d) ==
  /\ Fault("read")
  /\ pc[d] = "apply" /\ todo[d] # {}
  /\ poisonRemote(d)
  /\ UNCHANGED <<remote, store, man, cut, paused, accepted>>

(* A request of connect() outside the lock fails or exceeds its deadline.  *)
ConnectFails(d) ==
  /\ Fault("fail")
  /\ conn[d] \in {"loaded", "current", "expired", "pulled"}
  /\ conn' = [conn EXCEPT ![d] = "off"]
  /\ UNCHANGED <<remote, store, pc, goal, man, todo, obs, cut, paused, poisoned, accepted>>

(* A stage of connect() exceeds its deadline: connect() returns, and the   *)
(* operation goes on in the background.                                    *)
ConnectStalls(d) ==
  /\ Fault("stall")
  /\ goal[d] \in ConnectGoal
  /\ goal' = [goal EXCEPT ![d] = CASE @ = "connectPull" -> "pull"
                                   [] @ = "connectRestore" -> "rehydrate"
                                   [] @ = "connectReset" -> "reset"
                                   [] @ = "connectFlush" -> "flush"]
  /\ conn' = [conn EXCEPT ![d] = "off"]
  /\ UNCHANGED <<remote, store, pc, man, todo, obs, cut, paused, poisoned, accepted>>

(* The device stays away longer than retention.maxOfflineDurationMs: it is *)
(* not connected, or its process is suspended while it is.                 *)
Lapse(d) ==
  /\ Fault(IF conn[d] = "on" THEN "sleep" ELSE "lapse")
  /\ conn[d] \in {"off", "on"} /\ pc[d] = "idle" /\ sync[d] = "fresh"
  /\ sync' = [sync EXCEPT ![d] = "lapsed"]
  /\ UNCHANGED <<remote, rows, pending, outbox, seen, lepoch, quarantine, cache, engine,
                 accepted>>
-----------------------------------------------------------------------------
FlushStep(d) ==
  \/ FlushSkip(d) \/ FlushQuarantine(d) \/ FlushRecord(d) \/ PublishFile(d)
  \/ HeadRead(d) \/ HeadWrite(d)

PullStep(d) ==
  ReaderCheck(d) \/ PullList(d) \/ PullApply(d) \/ PullMissing(d) \/ PullDone(d)

RestoreStep(d) ==
  \/ RestoreNone(d) \/ RestoreRead(d) \/ RestoreRetry(d) \/ RestoreMissing(d)
  \/ RestoreClear(d) \/ RestoreFill(d) \/ RestoreSettle(d)

CompactStep(d) ==
  \/ CompactSnapshot(d) \/ CompactPointer(d) \/ CompactLocal(d) \/ CompactDelete(d)
  \/ CompactPrune(d)

(* A step of the operation that holds d's lock.                            *)
LockStep(d) == FlushStep(d) \/ PullStep(d) \/ RestoreStep(d) \/ CompactStep(d)

ConnectStep(d) ==
  \/ ConnectFast(d) \/ ConnectLoad(d) \/ ConnectFence(d) \/ ConnectReset(d)
  \/ ConnectRestore(d) \/ ConnectPull(d) \/ ConnectFlush(d)

AppStep(d) ==
  \/ \E s \in Stamp : Put(d, s)
  \/ Promote(d)
  \/ \E all \in BOOLEAN : Flush(d, all)
  \/ Pull(d) \/ Rehydrate(d) \/ Compact(d) \/ Disconnect(d)

FaultStep(d) ==
  \/ Crash(d) \/ RequestFails(d) \/ AccessDenied(d) \/ ListFails(d) \/ HeadUnreadable(d)
  \/ FileUnreadable(d) \/ ConnectFails(d) \/ ConnectStalls(d) \/ Lapse(d)

Next == \E d \in Device : AppStep(d) \/ LockStep(d) \/ ConnectStep(d) \/ FaultStep(d)

Spec == Init /\ [][Next]_vars

(***************************************************************************)
(* An operation in progress goes on, and a connected device polls: the     *)
(* poll timer is armed again after every pull, and the lock serves its     *)
(* callers in order.                                                       *)
(***************************************************************************)
Fairness == \A d \in Device : WF_vars(LockStep(d)) /\ SF_vars(Pull(d))

LiveSpec == Spec /\ Fairness
-----------------------------------------------------------------------------
(***************************************************************************)
(* Types.  Beyond the shapes: nothing empty is ever queued, published or   *)
(* observed, because promotePendingBatch moves a batch only if there is    *)
(* one.                                                                    *)
(***************************************************************************)
TypeOK ==
  /\ files \subseteq Entry
  /\ head \in 0 .. MaxStamp
  /\ epoch \in Epoch
  /\ snaps \in [Epoch \ {0} -> Snapshot \cup {NoSnapshot}]
  /\ rows \in [Device -> SUBSET Stamp]
  /\ pending \in [Device -> SUBSET Stamp]
  /\ outbox \in [Device -> SUBSET Entry]
  /\ seen \in [Device -> SUBSET Entry]
  /\ lepoch \in [Device -> Epoch]
  /\ sync \in [Device -> Sync]
  /\ quarantine \in [Device -> SUBSET Entry]
  /\ cache \in [Device -> BOOLEAN]
  /\ pc \in [Device -> Pc]
  /\ goal \in [Device -> Goal]
  /\ conn \in [Device -> Conn]
  /\ man \in [Device -> Epoch \cup {NoManifest}]
  /\ todo \in [Device -> SUBSET Entry]
  /\ obs \in [Device -> SUBSET Entry]
  /\ cut \in [Device -> Replacement]
  /\ paused \in [Device -> BOOLEAN]
  /\ poisoned \in [Device -> BOOLEAN]
  /\ accepted \subseteq Stamp
  /\ faults \in 0 .. MaxFaults

(***************************************************************************)
(* A receipt means applied: whatever the ledger of a device names, its     *)
(* rows contain, so that no pull skips a change the device lacks.          *)
(***************************************************************************)
ReceiptsApplied == \A d \in Device : UNION seen[d] \subseteq rows[d]

(***************************************************************************)
(* A snapshot's rows contain every change file its coverage names:         *)
(* compact() deletes those files.                                          *)
(***************************************************************************)
SnapshotsCover ==
  \A n \in DOMAIN snaps :
    snaps[n] # NoSnapshot => UNION snaps[n].covered \subseteq snaps[n].rows

(* What a device that starts from nothing can still obtain.                *)
reachable == (UNION files) \cup snapshotRows

(***************************************************************************)
(* What was published stays obtainable: no flush, compaction or cleanup    *)
(* takes a mutation out of the change files and the current snapshot.      *)
(***************************************************************************)
PublishedStays == [][reachable \subseteq reachable']_vars

(* The quarantine of d; while a restore runs, what it preserves of it is   *)
(* in memory.                                                              *)
held(d) == (UNION quarantine[d]) \cup (UNION cut[d].quarantine)

(***************************************************************************)
(* No accepted write is lost: a mutation that put() accepted is queued or  *)
(* quarantined on some device, or published.                               *)
(***************************************************************************)
AcceptedKept ==
  \A s \in accepted :
    \/ s \in reachable
    \/ \E d \in Device : s \in pending[d] \cup (UNION outbox[d]) \cup held(d)

(***************************************************************************)
(* The remote is never declared poisoned while every request to it is      *)
(* answered: a file that compact() deleted is not a corrupt one.           *)
(***************************************************************************)
NeverPoisoned == \A d \in Device : ~poisoned[d]

(***************************************************************************)
(* changes/head.json never goes backwards.                                 *)
(***************************************************************************)
HeadMonotone == [][head' >= head]_vars

(***************************************************************************)
(* connect() leaves no device at an epoch older than the manifest it       *)
(* loaded: it restores the snapshot first.                                 *)
(***************************************************************************)
ConnectedAtEpoch ==
  [][\A d \in Device : conn[d] # "on" /\ conn'[d] = "on" => lepoch'[d] >= man'[d]]_vars

(***************************************************************************)
(* The replacement of the local state does not erase the quarantine.       *)
(***************************************************************************)
QuarantineKept == [][\A d \in Device : held(d) \subseteq held(d)']_vars

(***************************************************************************)
(* A quarantined change is never published by itself.                      *)
(***************************************************************************)
QuarantineWithheld ==
  [][\A d \in Device : \A s \in (UNION quarantine[d]) \ reachable : s \notin reachable']_vars

(***************************************************************************)
(* The local epoch is a promise: connect() skips the restore when it is    *)
(* not behind, so the rows of a device that no restore is rewriting        *)
(* contain the snapshot of its epoch.                                      *)
(***************************************************************************)
EpochRestored ==
  \A d \in Device :
    lepoch[d] # 0 /\ pc[d] \notin {"fill", "settle"} /\ snaps[lepoch[d]] # NoSnapshot
      => snaps[lepoch[d]].rows \subseteq rows[d]

(***************************************************************************)
(* The mesh implements the log: change files and the current snapshot are  *)
(* the log, rows are what a device shows, and pending batch, outbox and    *)
(* quarantine are what it has queued.                                      *)
(***************************************************************************)
queued(d) == pending[d] \cup (UNION outbox[d]) \cup held(d)

Log == INSTANCE SyncLog WITH log <- reachable, view <- rows,
                             queue <- [d \in Device |-> queued(d)]

(***************************************************************************)
(* Every step of the mesh is a step of the log or leaves it unchanged.     *)
(***************************************************************************)
ImplementsLog == Log!Spec

catchesUp(d, s) ==
  (s \in reachable /\ conn[d] = "on") ~> (s \in rows[d] \/ conn[d] # "on")

(***************************************************************************)
(* A reader that stays connected obtains every published mutation, even    *)
(* when the file was compacted away before the reader listed it.           *)
(***************************************************************************)
ReadersCatchUp == \A d \in Readers, s \in Stamp : catchesUp(d, s)

(***************************************************************************)
(* A device that stays connected obtains every published mutation.         *)
(***************************************************************************)
DevicesCatchUp == \A d \in Device, s \in Stamp : catchesUp(d, s)
=============================================================================
