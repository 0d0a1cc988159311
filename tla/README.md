# A verification project for interocitor

interocitor is a local-first database: every device keeps its rows in a local store
and synchronises with the other devices of its *mesh* through a remote folder
(the *mailbox*): no server code takes part in the protocol. Devices publish immutable
change files, list the folder to find the files of the others, and a compactor replaces
files by snapshots. This directory holds TLA+ models of that protocol and of the parts
around it, the TLC configurations that check them, and TLAPS proofs.

Paths below are relative to `src/packages/core/` unless they start with `packages/`.

## Parts of the system

| part | code | module | status |
|---|---|---|---|
| hybrid logical clock, a device's clock | `src/core/hlc.ts`, `sync-engine.ts`, `pull.ts`, `compaction.ts` | `Hlc`, `DeviceClock` | modelled |
| merge of rows | `src/core/crdt.ts`, `putNow`/`deleteNow` of `sync-engine.ts` | `RowMerge` | custom merge functions left out |
| flush, pull, receipts, compaction, restore, retention | `src/core/flush.ts`, `pull.ts`, `change-observation.ts`, `compaction.ts`, `retention.ts` | `Mailbox`, `SyncLog` | replicas left out, durations abstracted |
| connection, polling, relay invalidations | `src/core/sync-engine.ts` | `Mailbox`, `Session` | intervals abstracted |
| flush timers, automatic compaction | `src/core/sync-engine.ts` | `Upkeep` | modelled |
| manifest, lineage, eviction, refill | `src/core/manifest.ts`, `sync-engine.ts` | `Lineage` | without compaction |
| query and row cache, React hooks | `src/core/sync-engine.ts`, `table.ts`, `packages/react/src/` | `LiveViews`, `ConnectedStores` | one table |
| where clauses, indexes | `packages/web/src/storage/indexed-db-local-store.ts` and the stores of the three ports | `LocalQueries` | columns of one kind |
| Swift SQLite store | `packages/interocitor-swift/.../IndexedSQLiteStore.swift` | `SqliteStore` | cursors left out |
| browser stores | `packages/web/src/storage/` | `LocalDatabase`, `ResilientStore`, `NamedStore`, `BrowserStores` | clearAll, cursors left out |
| pairing, key custody, grants, connected stores | `src/handshake/`, `packages/web/src/`, `packages/workers/src/access-control.ts`, `src/core/connected-stores.ts` | `Handshake`, `KeyCustody`, `PasskeyCustody`, `MeshGrants`, `ConnectedStores`, `Trust` | perfect cryptography |
| mailbox host | `packages/workers/src/` | `HostRequests`, `HostFiles`, `StoredFiles`, `Relay`, `MailboxHost` | metrics left out |
| relay client, durable files, Drive and S3 adapters | `src/adapters/`, `src/core/stored-file.ts`, `sync-engine.ts` | `RelaySocket`, `DurableFiles`, `RemoteFolders` | signing, XML left out |
| Python and Swift engines | `packages/interocitor-python`, `packages/interocitor-swift` | `PortClients` | replicas left out |
| cryptography, codecs, identifiers, development server | `src/crypto/`, `src/core/codec.ts`, ... | | stateless or a tool; not modelled |

How they interact: an application mutates rows through the engine; the engine stamps the
mutation with the device clock, commits row and pending batch to the local store in one
transaction, and later flushes the batch as a change file. A pull merges other devices'
files row by row. All engine operations of one device are serialised by a lock of the
local store (`SYNC_STATE_LOCK`); devices know each other only through remote files. The
session decides when the engine flushes and pulls; the host stores the files and announces
them through its relay; the browser stores, the SQLite store and the memory store are the
local stores; pairing and custody give a device the key its files are read with.

## Modules

An action is the code between two points where something else can happen: two awaits of
one thread, two requests to the remote, two writes to a store with a crash in between.
`Presence` declares the value `Absent`, which stands for null, undefined and a missing
record. Operators whose name has a suffix after an underscore (`promoted_Replaces`) are
plausible slips in the definition of the same name; each is used to confirm that a
property notices it.

**`Hlc`** gives the clock operators. A clock is a record; `textLess` is the order of the
serialized strings, which differs from the order of clocks once the counter needs more
digits than its fixed width. The width and base are constants, so the overflow the code
meets at 65536 is met at 3.

**`DeviceClock`** is one device's clock: `engine` is `this.hlc`, `saved` the meta record
`hlc` of the store, `pending` the clock of the pending batch. The actions are `Mutate`
(putNow, deleteNow, and the store's commit), `Promote`, `Pull`, `PullFails`, `Restart`,
`Rehydrate` and `RehydrateUnlisted`. The wall clock is chosen anew by every step and may
go back.

**`RowMerge`** is one row on several devices: `applyOp`, `mergeColumn`, tombstones and
resurrection, under local puts and deletes, publication in any order, and pulls that
apply the listed files in stamp order while other devices publish.

**`Mailbox`** is the mesh. A mutation is its stamp, an entry or change file a non-empty
set of stamps, the rows of a device the set of stamps merged into them. Variables fall
in three groups: the remote (`files`, `head`, `epoch`, `snaps`), the local store of each
device, which survives a crash (`rows`, `pending`, `outbox`, `seen`, `lepoch`, `sync`,
`quarantine`, `cache`), and the memory of its engine (`pc`, `goal`, `conn`, `man`,
`todo`, `obs`, `cut`, `paused`, `poisoned`). `pc[d]` is the place of the operation that
holds the lock and `goal[d]` which operation that is.

| actions | code |
|---|---|
| `Put`, `Promote` | `putNow`, `flushPendingBatch` |
| `Flush`, `FlushSkip`, `FlushQuarantine`, `FlushRecord`, `PublishFile`, `HeadRead`, `HeadWrite` | `flushQueued`, `doFlush`, `flushPrimary`, `flushToAdapter` |
| `Pull`, `ReaderCheck`, `PullList`, `PullApply`, `PullMissing`, `PullDone` | `pullNow`, `pull` |
| `Rehydrate`, `Restore*` | `flushAndRehydrateNow`, `rehydrate`, `resetExpiredClientFromRemote` |
| `Compact*` | `compact` of the engine and of `compaction.ts`, `pruneSupersededSnapshots` |
| `Connect*`, `Disconnect` | `connect` and its stages, `tryConnectFastPath`, `disconnect` |
| `Crash`, `RequestFails`, `AccessDenied`, `ListFails`, `HeadUnreadable`, `FileUnreadable`, `ConnectFails`, `ConnectStalls`, `Lapse` | the error paths of the above, `handleRemoteAccessError`, `poisonRemote`, `withDeadline` |

**`SyncLog`** is the abstract specification: one log that only grows, devices that show
part of it and queue what is not in it. `Mailbox!ImplementsLog` is the refinement, with
the change files and the current snapshot as the log.

**`Lineage`** is who a mesh is and which life it is in: devices that find no manifest
bootstrap one, the host evicts the folder (`Evict`), and returning devices tell by the
lineage that their rows have to be published again. `room` is the folder, `dev[d]` store and
memory of a device, whose `pc` walks through doConnect.

**`Session`** is connect(), disconnect(), setRemoteStorage(), denials, the poll loop and
the relay subscription of one engine, with calls that overlap at every await; **`Upkeep`**
adds the batch and flush timers and the three automatic compactions, on the lock.

**`LiveViews`** is the query and row cache of one table with the React hooks on it: loads
are promises that read, resolve and may be superseded; a commit emits its events later.

**`PortClients`** is a Python and a Swift client on one folder: the Python lock admits
one call at a time, the Swift actor interleaves calls at every await.

**`LocalQueries`** evaluates where clauses by an IndexedDB index, by a scan, and by the
memory and SQLite stores of the ports; **`SqliteStore`** runs the statements of each
operation with a failure or a kill between any two.

**`RelaySocket`** is the client's WebSocket subscription with its reconnect timers;
**`DurableFiles`** are putFile(), openFile(), getFileMetadata() and deleteFile() and their
Python forms over three kinds of store, with hidden names, seals and guards;
**`RemoteFolders`** are the calls of the Drive and S3 adapters that take several requests.

**`LocalDatabase`, `ResilientStore`, `NamedStore`, `BrowserStores`** build on each other:
IndexedDB's queue of opens and deletions (external, as the stores use it), the fallback to
memory with its marker of unpushed writes, formats and migration, and the tabs.

**`Handshake`** is one generator and several scanners over two relay files, **`KeyCustody`**
and **`PasskeyCustody`** the mesh key of an origin's tabs, **`ConnectedStores`** a stored
list and the hook that shows it, **`MeshGrants`** chains of delegated access; **`Trust`**
composes them.

**`HostRequests`** routes requests, **`HostFiles`** has mesh files, caches and the sweep,
**`StoredFiles`** bodies and rows, **`Relay`** the batching of broadcasts; **`MailboxHost`**
composes them.

The modules `MC...` are the ones the configurations are about. `MCDevice`, `MCMailboxHost`
and `MCTrust` check components that share no state side by side: a behaviour
begins with the choice of one of them and the others rest in a fixed state.

## What the runs check

| run | shows |
|---|---|
| `device` | clock: without a snapshot restore, and while counters fit their width, stamps strictly increase across restarts, failed pulls and wall clocks that step back. Queries: an index answers what a scan answers, whatever schemas came before, and the engines agree on shared rows. SQLite: what was returned is stored, whole. Relay client: one socket or one timer, a refusing host is spared, silence after the unsubscribe, and the subscription reconnects. Files: opened as referenced, sealed until the seal's holder acts, wrapped under the key of their name, described by their metadata. Drive and S3: twins arise only by a race or a failed lookup, and a listing spans its call |
| `row_merge` | whatever the order of arrival, the newest stamp decides between tombstone and live row; without deletes, the same operations give the same row |
| `mailbox_managed` | two writers, one compactor, an answering remote: no accepted mutation is lost, nothing published becomes unobtainable, snapshots contain what they cover |
| `mailbox_crash` | one fault anywhere (crash, failed request, failed listing, unreadable file, stalled connect): a receipt means applied, and the mesh implements `SyncLog` |
| `mailbox_retention` | a device that stayed away too long: quarantined writes stay unpublished through any three faults |
| `mailbox_readers` | three compactions against a polling reader: it obtains every published mutation (liveness), and its local epoch is a promise about its rows |
| `host` | listings name what was stored, heads are lowered only by a race of two handlers, "idle" records are true, the quota is overshot by a bounded amount, an upload repairs what others left, broadcasts reach the sockets they are owed to; and of the devices of an evicted mesh: rows once published survive evictions while one identity was minted, and each way in which a refill can fail is one of three that are named |
| `browser` | no fallback, rotation or migration leaves unpushed writes behind, abandoned opens release their handles, open() settles (liveness) |
| `trust` | credentials come from the counterpart of the run, one mesh key per origin and it outlives the page, the hook settles, no delegation widens access; beside them the ports: acknowledged is kept, queued until flushed, a pull shows what was there |
| `session` | one poll loop and none after a teardown, one compaction at a time, writes are owed a flush, the retention timer is armed; every invalidation is pulled (liveness) |
| `views` | what the caches call ready is committed, and components come to show the committed rows (liveness) |

One run shows a disagreement between the code and what its documents say; `findings` in
`PROJECT.json` quotes the lines. In `auto_compaction` an immediate automatic compaction
stores its own promise as the guard before the compact() it called looks at the guard, and
then waits for itself.

### Smaller disagreements

TLC also refutes the following properties; they are defined in the modules and are not
among the runs. The constants given reproduce each trace (`d1`, `d2` are model values).

| property | constants | what happens |
|---|---|---|
| `StampsIncrease` | `RestoreSpec` of `DeviceClock`, constants as in `device` | a restore takes the compactor's older clock; the device's next stamp is below its last (`compaction.ts:254`) |
| `BatchCoversStamps` | `SteadySpec`, `MaxCounter = 4`, `MaxMints = 5` and peers at the skew | past the counter's width the store's string comparison (`src/storage/memory-store.ts:163`) keeps the older batch HLC |
| `FarFutureGuard` | `SteadySpec`, as in `device` | a mutation of a row that carries a far-future stamp saves it unclamped (`sync-engine.ts:506`; `hlc.ts:15` announces a guard) |
| `SameFilesSameRows`, `NoColumnFromBeforeADelete` | as `row_merge` | with a delete, two orders of the same operations give two different live rows: resurrection drops older columns on one device only (`crdt.ts:164`, `:192`) |
| `PublishedStays` | `d1` writes, both compact one after the other, `MaxStamp = 1`, `MaxEpoch = 2`, no faults | a connected device behind the current snapshot compacts, and drops what only that snapshot held |
| `AcceptedKept` | `d1` writes, `d2` compacts, `MaxStamp = 1`, `MaxEpoch = 1`, `Faults = {"deny"}`, `MaxFaults = 1` | after a denial, rehydrate() skips the flush and clears the outbox |
| `AcceptedKept`, `PublishedStays` | one device that writes and compacts, `MaxStamp = 2`, `MaxEpoch = 2`, `Faults = {"crash"}`, `MaxFaults = 1` | a crash after clearAll() in a restore, a put() and a flush() without connect(); connect() then takes the fast path, as it has seen every file, and the next snapshot lacks the older rows |
| `AcceptedKept` | one device, `MaxStamp = 1`, `MaxEpoch = 0`, `Faults = {"lapse"}`, `MaxFaults = 1` | a put() between the two lock holds of an expired connect() is erased |
| `DevicesCatchUp` | `LiveSpec`, `d1` writes and compacts, no readers, `MaxStamp = 1`, `MaxEpoch = 1`, no faults | a connected writer never obtains a mutation compacted away before it listed it |
| `QuarantineKept` | one writer, `MaxStamp = 1`, `MaxEpoch = 0`, `Faults = {"lapse", "crash"}`, `MaxFaults = 2` | a crash after clearAll() loses the quarantine, which was only in memory (`sync-engine.ts:1566`) |
| `NeverPoisoned` | as `DevicesCatchUp`, with `Spec` | a file compacted away between listing and read poisons the remote (`pull.ts:181`) |
| `HeadMonotone` | two writers, no compactor, `MaxStamp = 2`, `MaxEpoch = 0`, no faults | two flushes read the head and write it in the other order (`flush.ts:147`, against `flush.ts:72`) |
| `ConnectedAtEpoch` | as `mailbox_crash` without faults | the fast path compares no epochs (`sync-engine.ts:2428`, against `docs/compaction.md:390`) |
| `QuarantineWithheld` | one device, `MaxStamp = 1`, `MaxEpoch = 1`, `Faults = {"sleep"}`, `MaxFaults = 1` | a quarantine made by flush() leaves the rows, which a later snapshot publishes (`sync-engine.ts:3618`, against `docs/compaction.md:177`) |

Further behaviours met while modelling, which the properties of the runs allow for by name:

- *Eviction.* A stop after `sync-engine.ts:1650` and before the rebuild queues nothing. Two
  evictions can give two lives one lineage (`manifest.ts:191`). A device whose flush comes
  first recreates the manifest (`sync-engine.ts:3617`). Any error of the pointer's read is
  taken for a missing mesh.
- *Session.* disconnect() during a connect() is followed by `connected = true`; connect()
  during disconnect()'s last flush leaves a poll loop; connect()'s `finally` can clear a
  newer promise; setRemoteStorage() keeps the compaction timers; a failed flush arms no timer
  (`sync-engine.ts:3658`). useRow() listens to one row while its cache is invalidated by table.
- *Host.* Two semantic puts that overlap can lower a head (`ops.ts:478`). `deleted_at` is not
  cleared by every write, though `worker.ts:605` says so. The sweep can evict a mesh written
  to meanwhile. Repeated uploads add to the counters again (`ops.ts:432`).
- *Browser.* The unpushed marker is set after the commit (`resilient-store.ts:462`) and
  refreshed by a read and a write; copyLocalStoreState() takes no lock.
- *Trust.* Two passphrase provisions at once strand one envelope (`passphrase-envelope.ts:582`);
  connected stores are read and written whole without a lock (`connected-stores.ts:110`); a
  chain can be attenuated past the length the middleware loads.
- *Ports.* Python's compact() does not restore a newer snapshot first; Swift's uses the
  manifest from before its pull; a Swift put() during rehydrate() can be cleared locally; a
  compaction that races a pull halts the session.
- *Files and folders.* clearCredentials() during a put leaves a plain frame under a hidden
  name. WebDAV's metadata can be written back by a reader. Drive's listing reads one page;
  folders are made twice by two clients; cached ids of deleted files stay in use.
- *Stores.* Booleans are not IndexedDB keys, so an index over them makes every clause throw;
  SQLite orders booleans as equal; its clearAll() has no ROLLBACK.

### Bounds

- Clocks: three wall-clock values, a skew of 1, one counter digit of base 3, peers in the
  past, at the skew and beyond it, four mutations. The comparisons only depend on
  the order of these values and on whether the skew or the width is exceeded.
- Rows: two devices and two columns are the least with a column that loses and one that
  wins; five stamps give a put, a delete, a put after it and a late arrival.
- Mailbox: two devices, as all interaction is with "the others"; one or two mutations
  (two are needed for order and for batches); one compaction, or three where a reader's
  restore must be overtaken twice; no fault, one, or three around retention. The abstract
  stamps are given out in any order above the rows of the device, so late publication of
  an older HLC happens with two.
- Host: two handlers, two colos, three requests, a quota of one largest file. Browser: two
  tabs, three database names. Trust: two scanners, two complete() calls, two tabs, three
  grants. Session: two adapters, two connects, two flushes, compactions and retention checks.
  Ports: one client of each, two calls at a time, three mutations. Adapters: two members or
  clients, three calls each. Two of a kind are what a race needs; a third mostly repeats it.
- `MaxStamp`, `MaxEpoch`, `MaxFaults`, `MaxMints`, `MaxCounter`, `MaxDeletes`, `MaxRequests`,
  `MaxCalls`, `MaxTurns`, `MaxObjects`, the `budget`, `spare` and `left` variables bound the
  stamps, compactions, faults, mutations and calls; no guard of the code depends on them.
- Runs with `Loads`, `Stories` or an initial choice of `awake` do not multiply components
  that share nothing.

Runs set `CHECK_DEADLOCK FALSE` where the application may stop calling once the bounds are
used up. The mailbox and host runs check deadlock: they can always connect, poll or accept.

### Fairness

`LiveSpec` of `Mailbox` asks that an operation in progress goes on (`WF` of `LockStep`:
requests are answered, as no fault is enabled in those runs) and that a connected device
polls (`SF` of `Pull`). The poll timer is armed again after every pull, and the lock serves
its callers in order, so a poll that waits for the lock gets it although the lock is taken
and released in between: weak fairness would not say so. The other liveness properties
assume the same of their parts: a request is answered in the end, well or badly; a timer
that is armed fires; a socket that is opening opens or closes; IndexedDB handles the first
request of a queue once nothing blocks it, and deadlines fire; a promise that is settled
runs its continuations. In `Upkeep` the callers of the lock get it (`SF`), since
`withLock` queues them. Nothing is assumed of the application, of users, of connect() or of
the compactor.

## What is proved

| theorem | says |
|---|---|
| `Device_proofs!SerializedOrder` | within the width, text order is clock order |
| `Device_proofs!SteadyInvariants`, `SteadyStampsIncrease` | `ClockCoversStamps` and `StampsIncrease` for all wall clocks, peers, widths and bounds |
| `RowMerge_proofs!TypeCorrect`, `NewestStampDecides`, `VerdictConverges`, `ConvergesWithoutDeletes` | the properties of `row_merge`, and agreement on the tombstone, for all devices, columns and bounds |
| `Mailbox_proofs!TypeCorrect`, `ReceiptsAreApplied`, `SnapshotsCoverTheirFiles`, `EpochsAreRestored` | the types, `ReceiptsApplied`, `SnapshotsCover` and `EpochRestored`, for all devices, roles, numbers of compactions and faults |
| `MailboxLog_proofs!MailboxImplementsLog`, `PublishedIsKept`, `AcceptedIsKept` | a mesh that is `Managed` implements `SyncLog`, keeps what was published and loses no accepted write, for all devices, readers, bounds and all other faults |
| `RelaySocket_proofs!SubscriptionsHold` | `RelayInv` for all limits, waits and numbers of failures |
| `Device_proofs!ReadersRelyOn`, `SealStands`, `MetadataFollows` | `DurableInv`, `SealHolds` and `MetadataAgrees` for all members, names, contents, seals and numbers of calls, on each kind of store |
| `Trust_proofs!PairsAsNegotiated` | `PairingInv` for all finite sets of scanners, all calls of complete() and all profiles |
| `Trust_proofs!HookShowsWhatIsStored` | `HookSettles` for all stores, changes and numbers of refreshes |
| `Trust_proofs!DelegationNarrows`, `AttenuationSuffices` | `GrantedWithinRoot` (an action property) and `BuiltChainsValidate`, for all numbers of grants, lengths of chain, rights and windows |
| `Session_proofs!SessionsAreWhole` | `SessionInv` for all adapters, numbers of overlapping connects and pulls, and all numbers of calls |
| `Upkeep_proofs!UpkeepIsOwed` | `UpkeepInv` for all thresholds and numbers of flushes, compactions and retention checks, on the same engine |

The assumptions are those named in the modules (`HlcAssumption`, `DeviceClockAssumption`,
`RowMergeAssumption`, `MailboxAssumption`, `RelayAssumption`, `DurableAssumption`,
`FrameAssumption`, `ScannersAssumption`, `GrantAssumption`, `SessionBounds`,
`UpkeepAssumption`) and, for the clock, `InWidth`: the counters stay within their width,
without which `BatchCoversStamps` fails (above). `SessionBounds` asks for more generations than
MaxPulls, so that a fresh one can always be found as the code's counter finds it, and both that
`Absent` is no call, adapter or generation; `UpkeepAssumption` that thresholds are natural
numbers. The theorems on the session hold without fairness. The
three theorems on the log assume `Managed`, the deployment of `docs/sync-completeness.md` and
`docs/compaction.md`: one device compacts; no device is denied access, lapses or sleeps past
the retention; and if processes may crash, the compactor writes nothing itself. Each part
is needed, as the rows on `PublishedStays` and `AcceptedKept` above show. The configurations
of `mailbox_managed` and `mailbox_crash` are managed, so the theorems are about them too.

*Clock.* `ClockCoversStamps` is inductive with the types once the pending batch's clock
is known to fit its digits: otherwise the store may keep the smaller of two clocks.

*Rows.* `NewestDecides` is not inductive: a row forgets losing deletes and columns. The
invariant adds that all stamps known are distinct and used, that a device's clock is
ahead of what it merged, and that what a row keeps came from operations it merged.
Convergence then follows without induction: the newest stamp is a function of the set.

*Mailbox.* "A receipt means applied" is not inductive, since receipts are made from other
things: `FlushRecord` takes the outbox, `PullDone` the files applied so far, `RestoreSettle`
the coverage of the snapshot read earlier. `MergedAt(d)` therefore says of each of these,
and of the pending batch, that it is in the rows (or, before the rows of a snapshot are
written, in the rows to be written), and `Covered` says it of the snapshots. `ControlAt(d)`
relates the place of an operation to its manifest and to the remote epoch, which the types
need: `CompactSnapshot` writes snapshot `man[d] + 1`. It survives the other devices' steps
because of `OneCompacts`: compactions are serialised. A frame lemma (`OthersKept`) says that
a step of one device leaves the others' part of the invariant alone.

*Epochs.* That a device holds the snapshot of its epoch is kept by restores only if the
replacement read earlier still is that snapshot, and by compactions only if the snapshot just
written is what the compactor still shows: `EpochAt(d)` adds both. `Plain` names what nearly
all steps have in common, so the proof goes through restore and compaction step by step and
through the others at once.

*The log.* "Published stays obtainable" needs to know that a compactor holds everything its
new snapshot replaces, which depends on its whole past. `LInv` says for every device that it is
neither paused nor expired (`CalmAt`), that nothing is queued when its rows are replaced or
captured (`QueueAt`: the operation has flushed everything), that what it shows, is about to
show or has published is in the log or its own (`PublishedAt`); and for the compactor that
its rows contain the current snapshot whenever it may write the next (`LeadAt`). The one
exception is a compactor that stopped between clearAll() and the new rows: it then has no
receipts and no epoch (`Stranded`), so every path leads it through a restore first. `Known`
adds that every accepted mutation is published or queued. `Effects` sorts the steps by what
they do to rows and queue: nothing, an acknowledgement, an application, a clearing, a refill or
a put(); `StepIsLogStep` maps these to a stutter, `Settle`, `Learn`, `Drop`, `Learn` and `Write`,
and the upload of a file to `Publish`. TLC checked the parts of `LInv` as invariants of the
configurations of the runs before they were proved.

*The relay client.* `HostSpared` is not inductive: the client compares its own streak with the
limit, and not the refusals. `CountsAt` says that the streak is at least the refusals since the
last open socket or long wait, that an open socket has reset both, and that the sockets of a
cancelled subscription are on their way out.

*Durable files.* A call decides at one step and acts at a later one, so the invariant says for
every call under way (`CallOK`) what it still knows: the frame it made, the key it was named
under, whether it has the path to itself. `Apart` says that a call marked alone shares its name
with no other call, and `Quiet` that a name counted as in order has no call under way:
`MetadataAgrees` needs both, because object and metadata are written apart. `Guarded` ties the guard to the seal of the object, without which a
replacement that passes the guard could remove an object sealed by another.

*Pairing.* A call remembers the scanner it read at the start and meets its files again later.
`FilesFit`, `CallFits` and `ScanFits` say for every file and every step who wrote it, for whom
and under which profile, and that a mismatch means `Contended`: two scanners began.

*The hook.* `Fresh` says that the answer of the latest request is what is stored unless a
change has still to ask for its refresh, and `Numbered` that requests are numbered in order;
an answer that is out of date then has a number the hook ignores.

*Grants.* `GrantIInv` speaks of single links: a stored grant narrows its parent, which was
stored before it. `validateGrantChain()` compares neighbours only, so `GrantedWithinRoot` needs
an induction along the chain; the prover has no induction scheme for an arbitrary formula, and
`AlongChain` argues by a least position at which it fails. The chain is defined by what it is
(`ChainsTo`: stored grants, root first, each naming the one before it), and not by a recursive
operator, so that the prover can use it; loadGrantChain() finds the only one there is.

*The session.* That one loop polls is not inductive: startPolling() runs at the end of a connect()
that began long before. `OneLoop` says that an armed timer belongs to the current generation,
which otherwise is pulling, so that a pull of an older generation arms nothing when it returns;
`Intact` that a connect() which no teardown has crossed finds the gate open and still has the
adapter it started with. A halted engine has no generation, a poisoned one is not whole. What
a step does to the flags, the loop and the relay is proved operator by operator (`FlagsCore`,
`LoopCore`, `RelayCore`), and one step per action puts these together.

*The upkeep.* `OneCompaction` needs to know whom the guard names: `Locking` says that whoever
publishes or compacts holds the lock, and that the guard is the promise of the compaction queued
or at work, so a second call joins it. What was written is owed a flush only in a session that is
whole, but the session becomes whole after the connect() has flushed: `Live` therefore
counts a connect() that has flushed and that nothing has crossed, and `Owes` holds from there on.
`Armed` carries the retention timer through a check: it is armed, or the check that will arm it is
under way. The invariant is inductive together with that of the session.

TLC checked `IInv` (of the durable files), `PairingIInv`, `HookIInv`, `GrantIInv`, `SessionIInv`
and `UpkeepIInv` on the configurations of `device`, `trust` and `session` before they were proved.

Only model-checked, on the small instances of the runs: all liveness (it needs fairness, which
the prover does not handle; for the session `InvalidationAnswered` and `AutoCompactionEnds`),
`QuarantineWithheld`, and the properties of the other
components, whose invariants have not been proved inductive; the statements of `SqliteStore`
are applied by a fold, over which the prover has no induction. Some modules define further
properties that hold but belong to no run, since a property of the runs says more or the
instance that needs them is not among the runs (`StatusRecovers`, `RetentionEnforced`,
`PatientPairs`, `MintsOnlyWhenAbsent`, `BuiltChainsValidate`, which is proved,
`RecoveryWrappersKept`, `SentBeforeForgotten`, `UnknownFormatUntouched`, the `TypeOK`s).

## What the models leave out

- In `Mailbox` a new stamp is above the stamps of the device's rows. That a restore can
  take the clock back is `DeviceClock`'s subject and is not repeated.
- The cursor of the fast path, `globalHighWaterHlc`, is raised by a restore to the
  compactor's clock, which may be ahead of every stamp: after a restore it is any value
  at or above the receipts. The fast path itself is one step.
- The ledger's generation check guards against two ledgers open at once, which the lock
  excludes within one process.
- In `Mailbox` the manifest file and its pointer are written in one step, as are the preserved
  records and rows of a restore, and its receipts and epoch. `Lineage` separates the two.
- In `Mailbox` compactions are serialised, as `docs/compaction.md` demands; Compact and
  Rehydrate are called while connected; disconnect() does not overlap a running connect()
  (that is `Session`'s subject). A snapshot is named by its epoch, and one that exists but
  cannot be read is not a fault of the model. The local store is durable, as IndexedDB is.
- The worker host refuses a head that goes back (`HostFiles`); the other adapters do not,
  and `Mailbox` models those. Replicas and device metadata are not modelled.
- `Lineage` has no compaction, no readers and no eviction in the middle of a connect();
  `Session` and `Upkeep` no lengths of time and no setLocalStore(); `LiveViews` one table.
- `PortClients` leaves out replicas, setRemoteStorage, the head file and the bootstrap.
- The host's counters (opReconcileMetrics, use counts), the browser stores' clearAll and
  cursors, columns of mixed kinds, SQLite cursors, the messages on the relay's socket, S3
  request signing, WebDAV's XML and all cryptography are left out.
- `RehydrateUnlisted` of `DeviceClock` and the fault "sleep" of `Mailbox` occur in no run.
