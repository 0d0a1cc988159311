---------------------------- MODULE DeviceClock ----------------------------
(***************************************************************************)
(* One device's clock across everything that moves it: local mutations,    *)
(* pulls, restarts and snapshot restores (sync-engine.ts, pull.ts,         *)
(* compaction.ts and the commit of the local stores).                      *)
(*                                                                         *)
(* The engine keeps its clock in memory; the store keeps the meta record   *)
(* "hlc".  Every operation below runs under the sync-state lock, so one    *)
(* operation is one step.  The wall clock read by an operation is any      *)
(* value of Walls: it may stand still or step back between operations.     *)
(***************************************************************************)
EXTENDS Hlc

CONSTANTS
  Device,        \* this device's node identifier
  Walls,         \* the values Date.now() may return
  RemoteHlcs,    \* stamps carried by the change files other devices publish
  SnapshotHlcs,  \* clocks carried by the snapshots other devices publish
  MaxCounter,    \* bound: the device mints while its counter is below this
  MaxMints       \* bound: number of stamps the device mints

ASSUME DeviceClockAssumption ==
  /\ Device \in NodeId
  /\ Walls \subseteq Nat
  /\ RemoteHlcs \subseteq HLC
  /\ SnapshotHlcs \subseteq HLC
  /\ MaxCounter \in Nat
  /\ MaxMints \in Nat

VARIABLES
  engine,   \* this.hlc
  saved,    \* the store's meta record "hlc"
  pending,  \* the clock of the store's pending batch
  merged,   \* the remote stamps that rows of the store carry
  seen,     \* the stamps of the change files with a saved receipt
  last,     \* the stamp most recently given to a local mutation
  mints,    \* how many stamps were given
  wallMax   \* the latest wall clock read so far

vars == <<engine, saved, pending, merged, seen, last, mints, wallMax>>

(***************************************************************************)
(* "No clock": an absent meta record, batch or stamp.  It precedes every   *)
(* clock, as an absent record does in the code's comparisons.              *)
(***************************************************************************)
NoHlc == [ts |-> -1, counter |-> 0, nodeId |-> Device]

own(hlc) == [hlc EXCEPT !.nodeId = Device]

latest(a, b) == IF hlcLessStr(a, b) THEN b ELSE a

Init ==
  \E wall \in Walls :
    /\ engine = hlcInit(Device, wall)
    /\ wallMax = wall
    /\ saved = NoHlc
    /\ pending = NoHlc
    /\ merged = {}
    /\ seen = {}
    /\ last = NoHlc
    /\ mints = 0

refreshHlcFromLocal ==
  IF saved # NoHlc /\ hlcLessStr(engine, saved) THEN own(saved) ELSE engine

(***************************************************************************)
(* The clock the store's commit gives the pending batch, which is also     *)
(* what it saves as "hlc".                                                 *)
(***************************************************************************)
batchHlc(hlc) ==
  IF pending = NoHlc \/ textLess(pending, hlc) THEN hlc ELSE pending

(***************************************************************************)
(* put() or delete(): mint a stamp and commit the row.  The commit carries *)
(* the newest stamp of the whole row: "held" is the newest one the row     *)
(* keeps from other devices, NoHlc when it keeps none.                     *)
(***************************************************************************)
Mutate(wall, held) ==
  LET stamp == hlcNow(refreshHlcFromLocal, wall)
      hlc == latest(held, stamp)
  IN  /\ mints < MaxMints
      /\ refreshHlcFromLocal.counter < MaxCounter
      /\ engine' = stamp
      /\ pending' = batchHlc(hlc)
      /\ saved' = batchHlc(hlc)
      /\ last' = stamp
      /\ mints' = mints + 1
      /\ wallMax' = larger(wallMax, wall)
      /\ UNCHANGED <<merged, seen>>

(***************************************************************************)
(* flushPendingBatch(): the batch moves to the outbox.                     *)
(***************************************************************************)
Promote ==
  /\ pending # NoHlc
  /\ pending' = NoHlc
  /\ UNCHANGED <<engine, saved, merged, seen, last, mints, wallMax>>

(***************************************************************************)
(* The clock a pull reaches when the one new file it finds is stamped      *)
(* "remote", NoHlc standing for no new file.  A pull of several files is   *)
(* as many pulls of one.                                                   *)
(***************************************************************************)
pulled(remote, wall) ==
  IF remote = NoHlc THEN engine ELSE hlcReceive(engine, remote, wall)

Pull(remote, wall) ==
  /\ remote \notin seen
  /\ pulled(remote, wall).counter <= MaxCounter
  /\ engine' = pulled(remote, wall)
  /\ saved' = pulled(remote, wall)
  /\ merged' = (merged \cup {remote}) \ {NoHlc}
  /\ seen' = (seen \cup {remote}) \ {NoHlc}
  /\ wallMax' = larger(wallMax, wall)
  /\ UNCHANGED <<pending, last, mints>>

(***************************************************************************)
(* A pull that stores a file's rows and then fails, or is cut by a crash   *)
(* of the tab, before the receipt and the clock are saved: the advanced    *)
(* clock was a local variable of the pull and is gone.                     *)
(***************************************************************************)
PullFails(remote) ==
  /\ remote \notin seen
  /\ merged' = merged \cup {remote}
  /\ UNCHANGED <<engine, saved, pending, seen, last, mints, wallMax>>

(***************************************************************************)
(* A new process on the same store: the constructor, then loadLocalState().*)
(***************************************************************************)
Restart_ForgetsSaved(wall) ==
  /\ engine' = hlcInit(Device, wall)
  /\ wallMax' = larger(wallMax, wall)
  /\ UNCHANGED <<saved, pending, merged, seen, last, mints>>

Restart(wall) ==
  /\ engine' = IF saved = NoHlc THEN hlcInit(Device, wall) ELSE own(saved)
  /\ wallMax' = larger(wallMax, wall)
  /\ UNCHANGED <<saved, pending, merged, seen, last, mints>>

(***************************************************************************)
(* rehydrate(): the store is cleared, the pull that follows the restore    *)
(* saves the clock it reaches, and the engine then takes the snapshot's.   *)
(* The pending batch was promoted and flushed first.  The receipts start   *)
(* over: files the snapshot does not cover are received again.             *)
(***************************************************************************)
Rehydrate(snapshotHlc, remote, wall) ==
  /\ pulled(remote, wall).counter <= MaxCounter
  /\ engine' = own(snapshotHlc)
  /\ saved' = pulled(remote, wall)
  /\ pending' = NoHlc
  /\ merged' = (merged \cup {remote}) \ {NoHlc}
  /\ seen' = {remote} \ {NoHlc}
  /\ wallMax' = larger(wallMax, wall)
  /\ UNCHANGED <<last, mints>>

(***************************************************************************)
(* rehydrate() when the listing fails: the pull returns as if there were   *)
(* nothing to merge, and the meta record "hlc" stays erased.               *)
(***************************************************************************)
RehydrateUnlisted(snapshotHlc) ==
  /\ engine' = own(snapshotHlc)
  /\ saved' = NoHlc
  /\ pending' = NoHlc
  /\ seen' = {}
  /\ UNCHANGED <<merged, last, mints, wallMax>>

(***************************************************************************)
(* The steps of a device that never restores a snapshot; of one whose      *)
(* restores always reach the remote; of any device.                        *)
(***************************************************************************)
SteadyNext ==
  \/ \E wall \in Walls, held \in merged \cup {NoHlc} : Mutate(wall, held)
  \/ Promote
  \/ \E remote \in RemoteHlcs \cup {NoHlc}, wall \in Walls : Pull(remote, wall)
  \/ \E remote \in RemoteHlcs : PullFails(remote)
  \/ \E wall \in Walls : Restart(wall)

RestoreNext ==
  \/ SteadyNext
  \/ \E snapshotHlc \in SnapshotHlcs, remote \in RemoteHlcs \cup {NoHlc},
        wall \in Walls : Rehydrate(snapshotHlc, remote, wall)

Next ==
  \/ RestoreNext
  \/ \E snapshotHlc \in SnapshotHlcs : RehydrateUnlisted(snapshotHlc)

SteadySpec == Init /\ [][SteadyNext]_vars
RestoreSpec == Init /\ [][RestoreNext]_vars
Spec == Init /\ [][Next]_vars
-----------------------------------------------------------------------------
(***************************************************************************)
(* Types.  The clock in memory and every stamp given out carry the         *)
(* device's own node identifier, whatever clocks it received or restored.  *)
(***************************************************************************)
TypeOK ==
  /\ engine \in HLC /\ engine.nodeId = Device
  /\ saved \in HLC \cup {NoHlc}
  /\ pending \in HLC \cup {NoHlc}
  /\ merged \subseteq RemoteHlcs
  /\ seen \subseteq merged
  /\ last \in HLC \cup {NoHlc} /\ last.nodeId = Device
  /\ mints \in 0 .. MaxMints
  /\ wallMax \in Walls

(***************************************************************************)
(* The store's record is never behind the newest stamp the device gave out *)
(* (so a crash at any point resumes at or above it), and neither is the    *)
(* clock in memory.                                                        *)
(***************************************************************************)
ClockCoversStamps == hlcLeq(last, own(saved)) /\ hlcLeq(last, engine)

(***************************************************************************)
(* docs/sync-completeness.md: "One device generates strictly increasing    *)
(* HLC values."  Whatever happened since the last mutation (pulls, crashes,*)
(* wall clocks that step back), the next mutation's stamp is greater.      *)
(***************************************************************************)
StampsIncrease == [][mints' # mints => hlcLess(last, last')]_vars

(***************************************************************************)
(* hlc.ts: "Guard against poisoned/misconfigured peers that report         *)
(* far-future clocks."  The device's clock stays within the allowed skew   *)
(* of the latest wall clock it has read.                                   *)
(***************************************************************************)
FarFutureGuard == engine.ts <= wallMax + MaxFutureSkew

(***************************************************************************)
(* local-store.ts: "later changes only advance the batch HLC".  The batch  *)
(* that holds the newest mutation is stamped at or above it: the file it   *)
(* becomes sorts, and moves the head, no earlier than what it contains.    *)
(***************************************************************************)
BatchCoversStamps == [][mints' # mints => hlcLeq(last', pending')]_vars
=============================================================================
