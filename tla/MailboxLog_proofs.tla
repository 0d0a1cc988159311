-------------------------- MODULE MailboxLog_proofs --------------------------
(***************************************************************************)
(* Proofs about Mailbox, concluded: a managed mesh implements the log of   *)
(* SyncLog, published mutations stay obtainable and no accepted one is     *)
(* lost.                                                                   *)
(*                                                                         *)
(* LInv is the inductive invariant. It says of every device that it is     *)
(* neither paused nor expired (CalmAt), that restores and compactions      *)
(* start from an empty queue (QueueAt), that it shows and publishes        *)
(* nothing foreign (PublishedAt); and of the compactor that its rows hold  *)
(* the current snapshot whenever it may write the next one (LeadAt). First *)
(* a step keeps CalmAt and QueueAt, and loses nothing that was obtainable  *)
(* (ReachableKept). Then Effects sorts the steps of a device by what they  *)
(* do to its rows and its queue; LogInvHolds puts together that LInv is an *)
(* invariant; StepIsLogStep maps each sort of step to a step of the log.   *)
(***************************************************************************)
EXTENDS Mailbox_proofs

(* As in Mailbox_proofs, a leaf that does not say SMTT is left to Zenon. *)
USE ZenonT(60)

-----------------------------------------------------------------------------
(* The deployment that sync-completeness.md and compaction.md describe: one device compacts,
   no device stays away for too long, none is denied access, and the process of the compactor
   does not stop while it restores, unless it writes nothing itself. Without any one of these
   an accepted write can be lost. *)
Managed ==
  /\ \A c, d \in Compactors : c = d
  /\ Faults \cap {"deny", "lapse", "sleep"} = {}
  /\ "crash" \in Faults => Compactors \cap Writers = {}

(* No device is paused, expired or quarantined. *)
CalmAt(d) ==
  /\ paused[d] = FALSE /\ sync[d] # "lapsed" /\ cut[d].sync # "lapsed"
  /\ quarantine[d] = {} /\ cut[d].quarantine = {}
  /\ conn[d] # "expired" /\ goal[d] \notin {"reset", "connectReset"}

(* Nothing waits to be published. *)
Empty(d) == pending[d] = {} /\ outbox[d] = {}

(* The operations that flush everything before they go on. *)
Emptying == {"rehydrate", "connectRestore", "compact"}

(* A device that does not write has nothing queued, and whatever replaces the rows or captures
   them in a snapshot runs after a flush that has left nothing behind. *)
QueueAt(d) ==
  /\ goal[d] = "compact" => d \in Compactors
  /\ d \notin Writers => Empty(d)
  /\ pc[d] \in {"flush", "publish", "head"} /\ goal[d] \in Emptying => pending[d] = {}
  /\ pc[d] = "check" => d \notin Writers
  /\ pc[d] \in {"restore", "retry", "clear", "fill", "settle", "snapshot"} => Empty(d)
  /\ goal[d] = "compact" /\ pc[d] \in {"list", "apply"} => Empty(d)

(* The types CalmAt and QueueAt need. *)
LEMMA CalmTypes ==
  ASSUME TypeOK
  PROVE  /\ pc \in [Device -> Pc] /\ goal \in [Device -> Goal] /\ conn \in [Device -> Conn]
         /\ sync \in [Device -> Sync] /\ quarantine \in [Device -> SUBSET Entry]
         /\ cut \in [Device -> Replacement]
         /\ pending \in [Device -> SUBSET Stamp] /\ outbox \in [Device -> SUBSET Entry]
BY DEF TypeOK

(* No access is denied, so no device is paused. *)
LEMMA NotPaused ==
  ASSUME Managed, TypeOK, NEW d \in Device, Steps(d), NEW c \in Device, paused[c] = FALSE
  PROVE  paused'[c] = FALSE
<1>1. paused \in [Device -> BOOLEAN]
  BY DEF TypeOK
<1> USE <1>1
<1>2. CASE FlushStep(d)
  BY <1>2 DEF FlushStep, FlushSkip, Resume, FlushQuarantine, FlushRecord, PublishFile, HeadRead,
     acknowledgeOutbox, HeadWrite
<1>3. CASE PullStep(d)
  BY <1>3 DEF PullStep, ReaderCheck, PullList, PullApply, PullMissing, PullDone, Resume
<1>4. CASE RestoreStep(d)
  BY <1>4 DEF RestoreStep, RestoreNone, RestoreRead, RestoreRetry, RestoreMissing,
     RestoreClear, RestoreFill, RestoreSettle
<1>5. CASE CompactStep(d)
  BY <1>5 DEF CompactStep, CompactSnapshot, CompactPointer, CompactLocal, CompactDelete,
     engine, CompactPrune, Resume
<1>6. CASE ConnectStep(d)
  BY <1>6 DEF ConnectStep, ConnectFast, ConnectLoad, ConnectFence, ConnectReset, ConnectRestore,
     ConnectPull, ConnectFlush
<1>7. CASE AppStep(d)
  BY <1>7 DEF AppStep, Put, engine, Promote, Flush, Pull, Rehydrate, Compact, Disconnect
<1>8. CASE FaultStep(d)
  <2>1. ~AccessDenied(d)
    BY DEF Managed, AccessDenied, Fault
  <2> QED
    BY <1>8, <2>1 DEF FaultStep, Crash, RequestFails, Throw, ListFails, Resume, HeadUnreadable,
       FileUnreadable, ConnectFails, ConnectStalls, Lapse, engine
<1> QED
  BY <1>2, <1>3, <1>4, <1>5, <1>6, <1>7, <1>8 DEF Steps, LockStep

(* A step of d keeps d calm: nothing lapses, so no operation starts that treats d as expired,
   and a restore brings back what it set aside. *)
LEMMA CalmKept ==
  ASSUME Managed, TypeOK, NEW d \in Device, CalmAt(d), Steps(d)
  PROVE  CalmAt(d)'
<1> USE CalmTypes DEF CalmAt
<1>0. paused'[d] = FALSE
  BY NotPaused
<1>1. CASE FlushStep(d)
  <2>1. CASE FlushSkip(d)
    BY <1>0, <2>1 DEF FlushSkip, Resume, syncAfter, endedConn
  <2>2. CASE FlushQuarantine(d) \/ FlushRecord(d) \/ PublishFile(d)
    BY <1>0, <2>2 DEF FlushQuarantine, FlushRecord, PublishFile, store
  <2>3. CASE HeadRead(d) \/ HeadWrite(d)
    BY <1>0, <2>3, SMTT(30) DEF HeadRead, acknowledgeOutbox, HeadWrite, Resume, endedConn
  <2> QED
    BY <1>1, <2>1, <2>2, <2>3 DEF FlushStep
<1>2. CASE PullStep(d)
  BY <1>0, <1>2 DEF PullStep, ReaderCheck, PullList, store, PullApply, PullMissing, poisonRemote,
     PullDone, Resume, syncAfter, endedConn
<1>3. CASE RestoreStep(d)
  <2>1. CASE RestoreNone(d)
    BY <1>0, <2>1 DEF RestoreNone, store
  <2>2. CASE RestoreRead(d)
    <3>1. cut'[d] = replacement(d, snaps[man[d]], man[d]) /\ UNCHANGED <<store, goal, conn>>
      BY <2>2 DEF RestoreRead
    <3>2. cut'[d].quarantine \in {{}, quarantine[d]} /\ cut'[d].sync \in {"never", sync[d]}
      BY <3>1, SMTT(30) DEF replacement
    <3> QED
      BY <1>0, <3>1, <3>2 DEF store
  <2>3. CASE RestoreRetry(d) \/ RestoreMissing(d) \/ RestoreClear(d) \/ RestoreFill(d)
    BY <1>0, <2>3 DEF RestoreRetry, RestoreMissing, poisonRemote, store, RestoreClear, RestoreFill
  <2>4. CASE RestoreSettle(d)
    BY <1>0, <2>4 DEF RestoreSettle, NoReplacement
  <2> QED
    BY <1>3, <2>1, <2>2, <2>3, <2>4 DEF RestoreStep
<1>4. CASE CompactStep(d)
  BY <1>0, <1>4 DEF CompactStep, CompactSnapshot, store, CompactPointer, CompactLocal,
     CompactDelete, engine, CompactPrune, Resume, endedConn
<1>5. CASE ConnectStep(d)
  BY <1>0, <1>5 DEF ConnectStep, ConnectFast, ConnectLoad, ConnectFence, fenced, ConnectReset,
     Start, store, ConnectRestore, flushAndRehydrateNow, ConnectPull, ConnectFlush
<1>6. CASE AppStep(d)
  BY <1>0, <1>6 DEF AppStep, Put, engine, Promote, Flush, Start, Pull, store, Rehydrate,
     flushAndRehydrateNow, Compact, Disconnect
<1>7. CASE FaultStep(d)
  <2>1. ~AccessDenied(d) /\ ~Lapse(d)
    BY DEF Managed, AccessDenied, Lapse, Fault
  <2>2. CASE Crash(d)
    BY <1>0, <2>2 DEF Crash, store, NoReplacement
  <2>3. CASE ListFails(d)
    BY <1>0, <2>3 DEF ListFails, Resume, syncAfter, endedConn
  <2>4. CASE ConnectStalls(d)
    <3>1. goal'[d] \in {"pull", "rehydrate", "flush"}
      BY <2>4 DEF ConnectStalls, ConnectGoal
    <3> QED
      BY <1>0, <2>4, <3>1 DEF ConnectStalls, store
  <2>5. CASE RequestFails(d) \/ HeadUnreadable(d) \/ FileUnreadable(d) \/ ConnectFails(d)
    BY <1>0, <2>5 DEF RequestFails, Throw, store, HeadUnreadable, FileUnreadable, poisonRemote,
       ConnectFails
  <2> QED
    BY <1>7, <2>1, <2>2, <2>3, <2>4, <2>5 DEF FaultStep
<1> QED
  BY <1>1, <1>2, <1>3, <1>4, <1>5, <1>6, <1>7 DEF Steps, LockStep

(* A step of d keeps what QueueAt says of d: a calm flush publishes all that is queued. *)
LEMMA QueueKept ==
  ASSUME Managed, TypeOK, NEW d \in Device, CalmAt(d), QueueAt(d), Steps(d)
  PROVE  QueueAt(d)'
<1> USE CalmTypes, MailboxAssumption DEF QueueAt, Empty, Emptying
<1>1. CASE FlushStep(d)
  <2>1. CASE FlushSkip(d)
    <3>1. outbox[d] = {} /\ pc'[d] = afterFlush(d) /\ UNCHANGED <<outbox, pending>>
      BY <2>1 DEF CalmAt, FlushSkip, Resume
    <3>2. goal'[d] \in {"none", goal[d]} /\ pc[d] = "flush"
      BY <2>1 DEF FlushSkip, Resume
    <3> QED
      BY <3>1, <3>2 DEF afterFlush
  <2>2. CASE FlushQuarantine(d) \/ FlushRecord(d) \/ PublishFile(d)
    BY <2>2 DEF CalmAt, FlushQuarantine, FlushRecord, PublishFile, store
  <2>3. CASE pc[d] \in {"publish", "head"} /\ pending' = pending /\ acknowledgeOutbox(d)
    <3>1. outbox'[d] = {} /\ pc'[d] = afterFlush(d) /\ goal'[d] \in {"none", goal[d]}
      BY <2>3 DEF acknowledgeOutbox, Resume
    <3> QED
      BY <2>3, <3>1 DEF afterFlush
  <2>4. CASE HeadRead(d) /\ ~acknowledgeOutbox(d)
    BY <2>4 DEF HeadRead
  <2> QED
    BY <1>1, <2>1, <2>2, <2>3, <2>4 DEF FlushStep, HeadRead, HeadWrite
<1>2. CASE PullStep(d)
  <2>1. CASE PullDone(d)
    BY <2>1 DEF PullDone, Resume, afterPull
  <2>2. CASE ReaderCheck(d) \/ PullList(d) \/ PullApply(d) \/ PullMissing(d)
    BY <2>2 DEF ReaderCheck, PullList, store, PullApply, PullMissing, poisonRemote
  <2> QED
    BY <1>2, <2>1, <2>2 DEF PullStep
<1>3. CASE RestoreStep(d)
  BY <1>3 DEF RestoreStep, RestoreNone, RestoreRead, RestoreRetry, RestoreMissing, poisonRemote,
     store, RestoreClear, RestoreFill, RestoreSettle
<1>4. CASE CompactStep(d)
  <2>1. CASE CompactSnapshot(d) \/ CompactPointer(d) \/ CompactLocal(d)
    BY <2>1 DEF CompactSnapshot, store, CompactPointer, CompactLocal
  <2>2. CASE CompactDelete(d)
    BY <2>2 DEF CompactDelete, store, engine
  <2>3. CASE CompactPrune(d)
    <3>1. pc'[d] = "idle" /\ UNCHANGED <<outbox, pending>> /\ goal'[d] \in {"none", goal[d]}
      BY <2>3 DEF CompactPrune, store, Resume
    <3> QED
      BY <3>1
  <2> QED
    BY <1>4, <2>1, <2>2, <2>3 DEF CompactStep
<1>5. CASE ConnectStep(d)
  <2>1. CASE ConnectPull(d)
    BY <2>1, EpochTypes, SMTT(30) DEF ConnectPull, Start, store
  <2>2. CASE ConnectFast(d) \/ ConnectLoad(d) \/ ConnectFence(d) \/ ConnectReset(d)
    BY <2>2 DEF CalmAt, ConnectFast, ConnectLoad, ConnectFence, ConnectReset
  <2>3. CASE ConnectRestore(d) \/ ConnectFlush(d)
    BY <2>3 DEF Start, ConnectRestore, flushAndRehydrateNow, flushPendingBatch, promoted,
       ConnectFlush
  <2> QED
    BY <1>5, <2>1, <2>2, <2>3 DEF ConnectStep
<1>6. CASE AppStep(d)
  <2>1. CASE Promote(d) \/ \E x \in Stamp : Put(d, x)
    BY <2>1 DEF Put, engine, Promote
  <2>0. ASSUME NEW g, Start(d, g, "flush"), flushPendingBatch(d), g = "compact" => d \in Compactors
        PROVE  QueueAt(d)'
    <3>1. pc'[d] = "flush" /\ goal'[d] = g /\ pending'[d] = {} /\ outbox'[d] = promoted(d)
      BY <2>0 DEF Start, flushPendingBatch
    <3> QED
      BY <2>0, <3>1 DEF promoted
  <2>2. CASE \E all \in BOOLEAN : Flush(d, all)
    <3>1. Start(d, "flush", "flush") /\ (flushPendingBatch(d) \/ UNCHANGED <<outbox, pending>>)
      BY <2>2 DEF Flush
    <3>2. CASE UNCHANGED <<outbox, pending>>
      <4>1. pc'[d] = "flush" /\ goal'[d] = "flush"
        BY <3>1 DEF Start
      <4> QED
        BY <3>2, <4>1
    <3> QED
      BY <2>0, <3>1, <3>2
  <2>3. CASE Pull(d) \/ Rehydrate(d)
    BY <2>3 DEF CalmAt, Pull, Rehydrate, flushAndRehydrateNow, Start, store, flushPendingBatch, promoted
  <2>4. CASE Compact(d) \/ Disconnect(d)
    <3>1. CASE Compact(d)
      BY <2>0, <3>1 DEF CalmAt, Compact
    <3>2. CASE Disconnect(d)
      <4>1. \/ UNCHANGED <<pc, goal, outbox, pending>>
            \/ Start(d, "disconnect", "flush") /\ flushPendingBatch(d)
        BY <3>2 DEF Disconnect
      <4> QED
        BY <2>0, <4>1
    <3> QED
      BY <2>4, <3>1, <3>2
  <2> QED
    BY <1>6, <2>1, <2>2, <2>3, <2>4 DEF AppStep
<1>7. CASE FaultStep(d)
  <2>1. CASE Crash(d) \/ RequestFails(d) \/ AccessDenied(d) \/ HeadUnreadable(d) \/ FileUnreadable(d)
             \/ ConnectFails(d) \/ Lapse(d)
    BY <2>1 DEF Crash, RequestFails, AccessDenied, Throw, store, HeadUnreadable, FileUnreadable,
       poisonRemote, ConnectFails, Lapse, engine
  <2>2. CASE ListFails(d)
    BY <2>2 DEF ListFails, Resume, afterPull
  <2>3. CASE ConnectStalls(d)
    BY <2>3 DEF ConnectStalls, ConnectGoal, store
  <2> QED
    BY <1>7, <2>1, <2>2, <2>3 DEF FaultStep
<1> QED
  BY <1>1, <1>2, <1>3, <1>4, <1>5, <1>6, <1>7 DEF Steps, LockStep

-----------------------------------------------------------------------------
(* What device d has still to publish. *)
Unsent(d) == pending[d] \cup (UNION outbox[d])

(* What device d shows is published or queued by d itself. A flush has published what it has
   checked off, a pull and a restore bring in published mutations only. *)
PublishedAt(d) ==
  /\ rows[d] \subseteq reachable \cup Unsent(d)
  /\ pc[d] = "publish" => /\ todo[d] \subseteq outbox[d]
                          /\ \A e \in outbox[d] \ todo[d] : e \subseteq reachable
  /\ pc[d] = "head" => \A e \in outbox[d] : e \subseteq reachable
  /\ pc[d] = "apply" => \A e \in todo[d] : e \subseteq reachable
  /\ pc[d] \in {"clear", "fill"} => cut[d].rows \subseteq reachable
  /\ pc[d] = "fill" => rows[d] = {}

(* The rows of device c lack a part of the current snapshot. *)
Hollow(c) == ~(snapshotRows \subseteq rows[c])

(* The state of a compactor that a crash has left without the rows of the snapshot. *)
Stranded(c) ==
  /\ c \notin Writers /\ lepoch[c] = 0 /\ seen[c] = {}
  /\ pc[c] \in {"idle", "flush", "restore", "clear"}
  /\ conn[c] \in {"off", "loaded", "current", "syncing"}
  /\ goal[c] \in {"none", "connectRestore", "rehydrate"}
  /\ pc[c] = "idle" <=> goal[c] = "none"
  /\ poisoned[c] = FALSE

(* The compactor c works from the newest manifest and holds what its next snapshot has to
   replace. It lacks it only while a restore has cleared the rows, or after a crash in that
   moment: then it has no receipt and no epoch, the fast path of connect() is closed to it,
   and it cannot do anything but restore. *)
LeadAt(c) ==
  /\ man[c] \in {NoManifest, epoch} \/ pc[c] \in {"local", "delete"}
  /\ pc[c] \in {"clear", "fill", "settle"} => snapshotRows \subseteq cut[c].rows
  /\ Hollow(c) => pc[c] = "fill" \/ Stranded(c)

(* The snapshots hold published mutations only. *)
SnapsPublished ==
  \A n \in Epoch \ {0} : snaps[n] # NoSnapshot => snaps[n].rows \subseteq reachable

(* The mutations published, queued and accepted. *)
Known ==
  /\ reachable \subseteq accepted
  /\ \A d \in Device : Unsent(d) \subseteq accepted
  /\ \A s \in accepted : s \in reachable \/ \E d \in Device : s \in Unsent(d)

(* The inductive invariant of a managed mesh. *)
LInv ==
  /\ EInv
  /\ epoch # 0 => snaps[epoch] # NoSnapshot
  /\ \A d \in Device : CalmAt(d) /\ QueueAt(d) /\ PublishedAt(d)
  /\ \A c \in Compactors : LeadAt(c)
  /\ SnapsPublished
  /\ Known

(* What LInv says of a device that is taking a step of compact(). *)
LEMMA AtCompaction ==
  ASSUME LInv, NEW d \in Device, pc[d] \in Compacting
  PROVE  /\ d \in Compactors /\ ~Hollow(d)
         /\ pc[d] \in {"snapshot", "pointer"} => man[d] = epoch /\ epoch < MaxEpoch
         /\ pc[d] \in {"local", "delete"} => epoch = man[d] + 1
         /\ pc[d] \in {"pointer", "local", "delete"}
              => snaps[man[d] + 1] = [rows |-> rows[d], covered |-> seen[d]]
         /\ man[d] \in Nat /\ man[d] + 1 \in Epoch \ {0}
<1>1. ControlAt(d) /\ QueueAt(d) /\ EpochAt(d) /\ TypeOK
  BY DEF LInv, EInv, IInv
<1>2. goal[d] = "compact" /\ d \in Compactors
  BY <1>1 DEF ControlAt, QueueAt
<1>3. ~Hollow(d)
  <2>1. LeadAt(d)
    BY <1>2 DEF LInv
  <2> QED
    BY <2>1 DEF LeadAt, Stranded, Compacting
<1>4. /\ pc[d] \in {"snapshot", "pointer"} => man[d] = epoch /\ epoch < MaxEpoch
      /\ pc[d] \in {"local", "delete"} => epoch = man[d] + 1
  BY <1>1, <1>2 DEF ControlAt, Compacting
<1>5. man[d] \in Nat /\ man[d] + 1 \in Epoch \ {0}
  BY <1>1, <1>4, EpochTypes, SMTT(30) DEF Compacting, Epoch
<1> QED
  BY <1>1, <1>2, <1>3, <1>4, <1>5 DEF EpochAt

(* A snapshot with more of what the change files hold... *)
LEMMA MovedToSnapshot ==
  ASSUME NEW F, NEW S, NEW R, S \subseteq R, R \subseteq F \cup S
  PROVE  F \cup R = F \cup S
OBVIOUS

(* ... allows to delete a file that it covers. *)
LEMMA CoveredBySnapshot ==
  ASSUME NEW F, NEW R, NEW e, e \subseteq R
  PROVE  (UNION (F \ {e})) \cup R = (UNION F) \cup R
<1>1. ASSUME NEW x \in UNION F PROVE x \in (UNION (F \ {e})) \cup R
  <2>1. PICK f \in F : x \in f
    OBVIOUS
  <2>2. CASE f = e
    BY <2>1, <2>2
  <2>3. CASE f # e
    <3>1. f \in F \ {e}
      BY <2>3
    <3> QED
      BY <2>1, <3>1
  <2> QED
    BY <2>2, <2>3
<1>2. UNION (F \ {e}) \subseteq UNION F
  OBVIOUS
<1> QED
  BY <1>1, <1>2

(* What can be obtained changes only by a flush: a compaction moves mutations from change
   files to the snapshot. *)
LEMMA ReachableKept ==
  ASSUME LInv, NEW d \in Device, Steps(d)
  PROVE  /\ reachable' = reachable \/ PublishFile(d)
         /\ snapshotRows' = snapshotRows \/ CompactPointer(d)
         /\ epoch' # 0 => snaps'[epoch'] # NoSnapshot
<1>1. TypeOK /\ MergedAt(d) /\ PublishedAt(d) /\ IInv /\ (epoch # 0 => snaps[epoch] # NoSnapshot)
  BY DEF LInv, EInv, IInv
<1> USE EpochTypes
<1>2. /\ epoch' = epoch \/ CompactPointer(d)
      /\ snaps' = snaps \/ CompactSnapshot(d) \/ CompactPrune(d)
      /\ files' = files \/ PublishFile(d) \/ CompactDelete(d)
  BY <1>1, RemoteKept, FilesKept DEF Steps
<1>3. CASE CompactPointer(d)
  <2>1. /\ epoch' = man[d] + 1 /\ UNCHANGED <<files, snaps>>
        /\ snaps[man[d] + 1] = [rows |-> rows[d], covered |-> seen[d]]
        /\ man[d] + 1 \in Epoch \ {0} /\ ~Hollow(d)
    BY <1>3, AtCompaction DEF CompactPointer, Compacting
  <2>2. snapshotRows' = rows[d] /\ snapshotRows \subseteq rows[d]
    BY <2>1, SMTT(30) DEF snapshotRows, Hollow
  <2>3. snaps[man[d] + 1] # NoSnapshot
    <3>1. {} \notin seen[d]
      BY <1>1 DEF Entry
    <3> QED
      BY <2>1, <3>1, SMTT(30) DEF NoSnapshot
  <2>4. rows[d] \subseteq reachable
    <3>1. snaps[man[d] + 1].rows \subseteq reachable
      BY <2>1, <2>3 DEF LInv, SnapsPublished
    <3> QED
      BY <2>1, <3>1, SMTT(30)
  <2>5. reachable' = reachable
    <3>1. reachable' = (UNION files) \cup rows[d]
      BY <2>1, <2>2 DEF reachable
    <3>2. /\ rows[d] \subseteq (UNION files) \cup snapshotRows
          /\ reachable = (UNION files) \cup snapshotRows
      BY <2>4 DEF reachable
    <3>3. (UNION files) \cup rows[d] = (UNION files) \cup snapshotRows
      BY ONLY <2>2, <3>2, MovedToSnapshot, Zenon
    <3> QED
      BY ONLY <3>1, <3>2, <3>3
  <2> QED
    BY <1>3, <2>1, <2>3, <2>5
<1>4. CASE CompactSnapshot(d)
  <2>1. UNCHANGED <<files, epoch>> /\ man[d] = epoch
    BY <1>4, AtCompaction DEF CompactSnapshot, Compacting
  <2>2. epoch # 0 => snaps'[epoch] = snaps[epoch]
    <3>1. epoch # 0 => epoch \in Epoch \ {0}
      BY <1>1, SMTT(30) DEF Epoch
    <3> QED
      BY <1>1, <1>4, <2>1, <3>1, SMTT(30) DEF CompactSnapshot
  <2> QED
    BY <1>1, <2>1, <2>2 DEF reachable, snapshotRows
<1>5. CASE CompactPrune(d)
  <2>1. UNCHANGED <<files, epoch>> /\ man[d] + 1 = epoch /\ epoch \in Epoch \ {0}
    BY <1>5, AtCompaction DEF CompactPrune, Compacting
  <2>2. snaps'[epoch] = snaps[epoch]
    BY <1>1, <1>5, <2>1 DEF CompactPrune
  <2> QED
    BY <1>1, <2>1, <2>2 DEF reachable, snapshotRows
<1>6. CASE CompactDelete(d)
  <2>1. /\ UNCHANGED <<snaps, epoch>> /\ epoch # 0
        /\ snaps[epoch] = [rows |-> rows[d], covered |-> seen[d]]
    BY <1>6, AtCompaction DEF CompactDelete, Compacting
  <2>2. PICK e \in seen[d] : files' = files \ {e}
    BY <1>6 DEF CompactDelete, deletable, coveredChangeFiles
  <2>3. e \subseteq rows[d] /\ snapshotRows = rows[d] /\ snapshotRows' = rows[d]
    BY <1>1, <2>1, SMTT(30) DEF MergedAt, Applied, snapshotRows
  <2>4. reachable' = (UNION (files \ {e})) \cup rows[d] /\ reachable = (UNION files) \cup rows[d]
    BY <2>2, <2>3 DEF reachable
  <2>5. reachable' = reachable
    BY ONLY <2>3, <2>4, CoveredBySnapshot
  <2> QED
    BY <1>1, <2>1, <2>3, <2>5
<1>7. CASE PublishFile(d)
  BY <1>1, <1>7 DEF PublishFile, snapshotRows
<1>8. CASE UNCHANGED <<files, snaps, epoch>>
  BY <1>1, <1>8 DEF reachable, snapshotRows
<1> QED
  BY <1>2, <1>3, <1>4, <1>5, <1>6, <1>7, <1>8

-----------------------------------------------------------------------------
(* The log *)

(* A step that changes neither the rows of d nor what d has queued. *)
Quiet(d) == rows'[d] = rows[d] /\ Unsent(d)' = Unsent(d)

(* The flush of d has published its outbox and forgets it. *)
Acknowledges(d) ==
  /\ pc[d] = "head" \/ (pc[d] = "publish" /\ todo[d] = {})
  /\ rows'[d] = rows[d] /\ pending'[d] = pending[d] /\ outbox'[d] = {}
  /\ pc'[d] \notin {"publish", "head", "apply", "clear", "fill"}

(* Promoting the pending batch to the outbox leaves queued what was queued. *)
LEMMA PromotedUnsent ==
  ASSUME NEW d \in Device, TypeOK, outbox'[d] = promoted(d), pending'[d] = {}
  PROVE  Unsent(d)' = Unsent(d)
<1>1. CASE pending[d] = {}
  BY <1>1 DEF promoted, Unsent
<1>2. CASE pending[d] # {}
  <2>1. UNION (outbox[d] \cup {pending[d]}) = (UNION outbox[d]) \cup pending[d]
    OBVIOUS
  <2> QED
    BY <1>2, <2>1 DEF promoted, Unsent
<1> QED
  BY <1>1, <1>2

(* What a step of d does to its rows and its queue. *)
LEMMA Effects ==
  ASSUME TypeOK, NEW d \in Device, CalmAt(d), Steps(d)
  PROVE  \/ Quiet(d) \/ Acknowledges(d) \/ PullApply(d) \/ RestoreClear(d) \/ RestoreFill(d)
         \/ \E s \in Stamp : Put(d, s)
<1> USE MergedTypes DEF CalmAt
<1>1. CASE FlushStep(d)
  <2>1. CASE FlushSkip(d) \/ FlushRecord(d) \/ PublishFile(d)
    BY <2>1 DEF FlushSkip, FlushRecord, PublishFile, store, Quiet, Unsent
  <2>2. CASE HeadRead(d) /\ ~acknowledgeOutbox(d)
    BY <2>2 DEF HeadRead, Quiet, Unsent
  <2>3. CASE (HeadRead(d) /\ acknowledgeOutbox(d)) \/ HeadWrite(d)
    <3>1. pc'[d] \in {"idle", "restore", "list"} /\ outbox'[d] = {}
      BY <2>3 DEF HeadWrite, acknowledgeOutbox, Resume, afterFlush
    <3> QED
      BY <2>3, <3>1 DEF HeadRead, HeadWrite, Acknowledges
  <2> QED
    BY <1>1, <2>1, <2>2, <2>3 DEF FlushStep, FlushQuarantine
<1>2. CASE PullStep(d) /\ ~PullApply(d)
  BY <1>2 DEF PullStep, ReaderCheck, PullList, store, PullMissing, PullDone, Quiet, Unsent
<1>3. CASE RestoreStep(d) /\ ~RestoreClear(d) /\ ~RestoreFill(d)
  BY <1>3 DEF RestoreStep, RestoreNone, RestoreRead, RestoreRetry, RestoreMissing, store,
     RestoreSettle, Quiet, Unsent
<1>4. CASE CompactStep(d)
  BY <1>4 DEF CompactStep, CompactSnapshot, store, CompactPointer, CompactLocal, CompactDelete,
     CompactPrune, Quiet, Unsent
<1>5. CASE ConnectStep(d)
  <2>1. CASE \/ ConnectFast(d) \/ ConnectLoad(d) \/ ConnectFence(d) \/ ConnectReset(d)
             \/ ConnectPull(d)
    BY <2>1 DEF ConnectFast, ConnectLoad, ConnectFence, ConnectReset, ConnectPull, store, Quiet,
       Unsent
  <2>2. CASE ConnectRestore(d) \/ ConnectFlush(d)
    <3>1. outbox'[d] = promoted(d) /\ pending'[d] = {} /\ rows' = rows
      BY <2>2 DEF ConnectRestore, ConnectFlush, flushAndRehydrateNow, flushPendingBatch
    <3> QED
      BY <3>1, PromotedUnsent DEF Quiet
  <2> QED
    BY <1>5, <2>1, <2>2 DEF ConnectStep
<1>6. CASE AppStep(d) /\ ~\E s \in Stamp : Put(d, s)
  <2>1. rows' = rows
    BY <1>6 DEF AppStep, Promote, Flush, Pull, store, Rehydrate, Compact, Disconnect
  <2>2. \/ outbox'[d] = promoted(d) /\ pending'[d] = {}
        \/ outbox'[d] = outbox[d] /\ pending'[d] = pending[d]
    BY <1>6 DEF AppStep, Promote, Flush, Pull, store, Rehydrate, flushAndRehydrateNow, Compact,
       Disconnect, flushPendingBatch
  <2> QED
    BY <2>1, <2>2, PromotedUnsent DEF Quiet, Unsent
<1>7. CASE FaultStep(d)
  BY <1>7 DEF FaultStep, Crash, store, RequestFails, AccessDenied, ListFails, HeadUnreadable,
     FileUnreadable, ConnectFails, ConnectStalls, Lapse, Quiet, Unsent
<1> QED
  BY <1>1, <1>2, <1>3, <1>4, <1>5, <1>6, <1>7 DEF Steps, LockStep

(* A flush makes one more entry obtainable. *)
LEMMA FilePublished ==
  ASSUME NEW d \in Device, TypeOK, PublishFile(d)
  PROVE  \E e \in todo[d] : /\ reachable' = reachable \cup e /\ todo'[d] = todo[d] \ {e}
                           /\ UNCHANGED <<rows, pending, outbox, pc>>
<1>1. PICK e \in todo[d] : files' = files \cup {e} /\ todo' = [todo EXCEPT ![d] = @ \ {e}]
  BY DEF PublishFile
<1>2. UNION (files \cup {e}) = (UNION files) \cup e
  OBVIOUS
<1>3. snapshotRows' = snapshotRows
  BY DEF PublishFile, snapshotRows
<1>4. reachable' = reachable \cup e
  BY <1>1, <1>2, <1>3 DEF reachable
<1> QED
  BY <1>1, <1>4 DEF PublishFile, store, TypeOK

(* The operation of d stays where it is. *)
Stays(d) ==
  /\ pc'[d] = pc[d] /\ todo'[d] = todo[d] /\ outbox'[d] = outbox[d] /\ cut'[d] = cut[d]
  /\ rows'[d] = rows[d]

(* How the operation of d gets to a stage that PublishedAt speaks of. *)
LEMMA Arrivals ==
  ASSUME TypeOK, NEW d \in Device, CalmAt(d), Steps(d)
  PROVE  \/ Stays(d)
         \/ /\ pc'[d] = "publish" => FlushRecord(d) \/ PublishFile(d)
            /\ pc'[d] = "head" => pc[d] = "publish" /\ todo[d] = {} /\ outbox'[d] = outbox[d]
            /\ pc'[d] = "apply" => PullList(d) \/ PullApply(d)
            /\ pc'[d] = "clear" => RestoreRead(d)
            /\ pc'[d] = "fill" => RestoreClear(d)
            /\ pc'[d] = "settle" => RestoreFill(d)
<1> USE MergedTypes, RestTypes DEF Stays
<1>1. CASE FlushStep(d)
  <2>1. CASE FlushSkip(d) \/ HeadWrite(d) \/ (HeadRead(d) /\ acknowledgeOutbox(d))
    <3>1. pc'[d] \in {"idle", "restore", "list"}
      BY <2>1 DEF FlushSkip, HeadWrite, acknowledgeOutbox, Resume, afterFlush
    <3> QED
      BY <3>1
  <2>2. CASE HeadRead(d) /\ ~acknowledgeOutbox(d)
    BY <2>2 DEF HeadRead
  <2>3. CASE FlushRecord(d) \/ PublishFile(d)
    BY <2>3 DEF FlushRecord, PublishFile
  <2> QED
    BY <1>1, <2>1, <2>2, <2>3 DEF CalmAt, FlushStep, FlushQuarantine
<1>2. CASE PullStep(d)
  <2>1. CASE PullDone(d)
    <3>1. pc'[d] \in {"idle", "snapshot"}
      BY <2>1 DEF PullDone, Resume, afterPull
    <3> QED
      BY <3>1
  <2>2. CASE ReaderCheck(d) \/ PullList(d) \/ PullApply(d) \/ PullMissing(d)
    BY <2>2 DEF ReaderCheck, PullList, PullApply, PullMissing, poisonRemote
  <2> QED
    BY <1>2, <2>1, <2>2 DEF PullStep
<1>3. CASE RestoreStep(d)
  BY <1>3 DEF CalmAt, RestoreStep, RestoreNone, RestoreRead, RestoreRetry, RestoreMissing,
     poisonRemote, RestoreClear, RestoreFill, RestoreSettle
<1>4. CASE CompactStep(d)
  BY <1>4 DEF CompactStep, CompactSnapshot, CompactPointer, CompactLocal, CompactDelete, engine,
     store, CompactPrune, Resume
<1>5. CASE ConnectStep(d)
  BY <1>5 DEF ConnectStep, ConnectFast, ConnectLoad, ConnectFence, ConnectReset, Start,
     ConnectRestore, flushAndRehydrateNow, ConnectPull, ConnectFlush
<1>6. CASE AppStep(d)
  BY <1>6 DEF AppStep, Put, engine, Promote, Flush, Start, Pull, Rehydrate,
     flushAndRehydrateNow, Compact, Disconnect
<1>7. CASE FaultStep(d)
  <2>1. CASE ListFails(d)
    <3>1. pc'[d] \in {"idle", "snapshot"}
      BY <2>1 DEF ListFails, Resume, afterPull
    <3> QED
      BY <3>1
  <2>2. CASE Crash(d) \/ RequestFails(d) \/ AccessDenied(d) \/ FileUnreadable(d)
    BY <2>2 DEF Crash, RequestFails, AccessDenied, Throw, FileUnreadable, poisonRemote
  <2>3. CASE HeadUnreadable(d) \/ ConnectFails(d) \/ ConnectStalls(d) \/ Lapse(d)
    BY <2>3 DEF HeadUnreadable, ConnectFails, ConnectStalls, Lapse, engine, store
  <2> QED
    BY <1>7, <2>1, <2>2, <2>3 DEF FaultStep
<1> QED
  BY <1>1, <1>2, <1>3, <1>4, <1>5, <1>6, <1>7 DEF Steps, LockStep

(* A step of d keeps what PublishedAt says of d. *)
LEMMA PublishedKept ==
  ASSUME Managed, LInv, NEW d \in Device, Steps(d)
  PROVE  PublishedAt(d)' /\ reachable \subseteq reachable'
<1>1. TypeOK /\ CalmAt(d) /\ QueueAt(d) /\ PublishedAt(d) /\ ControlAt(d) /\ EpochAt(d)
  BY DEF LInv, EInv, IInv
<1> USE MergedTypes, RestTypes
<1>2. reachable \subseteq reachable'
  BY <1>1, ReachableKept, FilePublished
<1>3. rows'[d] \subseteq reachable' \cup Unsent(d)'
  <2>1. CASE Quiet(d)
    BY <1>1, <1>2, <2>1 DEF Quiet, PublishedAt
  <2>2. CASE Acknowledges(d)
    <3>1. UNION outbox[d] \subseteq reachable
      BY <1>1, <2>2 DEF PublishedAt, Acknowledges
    <3>2. pending[d] \subseteq Unsent(d)'
      BY <2>2 DEF Acknowledges, Unsent
    <3>3. rows'[d] \subseteq reachable \cup pending[d] \cup (UNION outbox[d])
      BY <1>1, <2>2 DEF Acknowledges, PublishedAt, Unsent
    <3> QED
      BY <1>2, <3>1, <3>2, <3>3
  <2>3. CASE PullApply(d)
    <3>1. PICK e \in todo[d] : rows' = [rows EXCEPT ![d] = @ \cup e]
      BY <2>3 DEF PullApply
    <3>2. rows'[d] = rows[d] \cup e /\ e \subseteq reachable /\ Unsent(d)' = Unsent(d)
      BY <1>1, <2>3, <3>1 DEF PullApply, PublishedAt, Unsent
    <3> QED
      BY <1>1, <1>2, <3>2 DEF PublishedAt
  <2>4. CASE RestoreClear(d)
    BY <1>1, <2>4 DEF RestoreClear
  <2>5. CASE RestoreFill(d)
    BY <1>1, <1>2, <2>5 DEF RestoreFill, PublishedAt
  <2>6. CASE \E s \in Stamp : Put(d, s)
    <3>1. PICK s \in Stamp : Put(d, s)
      BY <2>6
    <3>2. rows'[d] = rows[d] \cup {s} /\ Unsent(d)' = Unsent(d) \cup {s}
      BY <1>1, <3>1 DEF Put, Unsent
    <3> QED
      BY <1>1, <1>2, <3>2 DEF PublishedAt
  <2> QED
    BY <1>1, <2>1, <2>2, <2>3, <2>4, <2>5, <2>6, Effects
<1>4. CASE Stays(d)
  BY <1>1, <1>2, <1>3, <1>4 DEF Stays, PublishedAt
<1>5. CASE ~Stays(d)
  <2>0. /\ pc'[d] = "publish" => FlushRecord(d) \/ PublishFile(d)
        /\ pc'[d] = "head" => pc[d] = "publish" /\ todo[d] = {} /\ outbox'[d] = outbox[d]
        /\ pc'[d] = "apply" => PullList(d) \/ PullApply(d)
        /\ pc'[d] = "clear" => RestoreRead(d)
        /\ pc'[d] = "fill" => RestoreClear(d)
    BY <1>1, <1>5, Arrivals
  <2>1. ASSUME FlushRecord(d) \/ PublishFile(d)
        PROVE  /\ todo'[d] \subseteq outbox'[d]
               /\ \A e \in outbox'[d] \ todo'[d] : e \subseteq reachable'
    <3>1. CASE FlushRecord(d)
      BY <1>1, <3>1 DEF FlushRecord
    <3>2. CASE PublishFile(d)
      <4>1. PICK e \in todo[d] : /\ reachable' = reachable \cup e /\ todo'[d] = todo[d] \ {e}
                                 /\ outbox' = outbox
        BY <1>1, <3>2, FilePublished
      <4> QED
        BY <1>1, <3>2, <4>1 DEF PublishFile, PublishedAt
    <3> QED
      BY <2>1, <3>1, <3>2
  <2>2. pc'[d] = "head" => \A e \in outbox'[d] : e \subseteq reachable'
    BY <1>1, <1>2, <2>0 DEF PublishedAt
  <2>3. ASSUME PullList(d) \/ PullApply(d) PROVE \A e \in todo'[d] : e \subseteq reachable'
    <3>1. CASE PullList(d)
      <4>1. todo'[d] \subseteq files /\ files' = files
        BY <1>1, <3>1 DEF PullList, remote
      <4> QED
        BY <1>2, <4>1 DEF reachable
    <3>2. CASE PullApply(d)
      BY <1>1, <1>2, <3>2, SMTT(30) DEF PullApply, PublishedAt
    <3> QED
      BY <2>3, <3>1, <3>2
  <2>4. ASSUME RestoreRead(d) PROVE cut'[d].rows \subseteq reachable'
    <3>1. cut'[d] = replacement(d, snaps[man[d]], man[d]) /\ snaps[man[d]] # NoSnapshot
      BY <1>1, <2>4 DEF RestoreRead
    <3>2. man[d] \in Epoch \ {0}
      BY <1>1, <2>4, ControlTypes DEF RestoreRead, ControlAt
    <3>3. snaps[man[d]].rows \subseteq reachable
      BY <3>1, <3>2 DEF LInv, SnapsPublished
    <3>4. cut'[d].rows = snaps[man[d]].rows
      BY ONLY <3>1, ReplacementFields
    <3> QED
      BY <1>2, <3>3, <3>4
  <2>5. ASSUME RestoreClear(d) PROVE cut'[d].rows \subseteq reachable' /\ rows'[d] = {}
    BY <1>1, <1>2, <2>5 DEF RestoreClear, PublishedAt
  <2>6. pc'[d] = "publish" => /\ todo'[d] \subseteq outbox'[d]
                              /\ \A e \in outbox'[d] \ todo'[d] : e \subseteq reachable'
    BY <2>0, <2>1
  <2>7. pc'[d] = "apply" => \A e \in todo'[d] : e \subseteq reachable'
    BY <2>0, <2>3
  <2>8. /\ pc'[d] \in {"clear", "fill"} => cut'[d].rows \subseteq reachable'
        /\ pc'[d] = "fill" => rows'[d] = {}
    BY <2>0, <2>4, <2>5
  <2> QED
    BY ONLY <1>2, <1>3, <2>2, <2>6, <2>7, <2>8 DEF PublishedAt
<1> QED
  BY <1>2, <1>4, <1>5

(* How the manifest in the memory of d changes. *)
LEMMA ManifestKept ==
  ASSUME TypeOK, NEW d \in Device, ControlAt(d), CalmAt(d), Steps(d)
  PROVE  \/ man'[d] \in {NoManifest, epoch} /\ epoch' = epoch
         \/ man'[d] = man[d] /\ pc[d] \notin {"local", "delete"} /\ epoch' = epoch
         \/ pc'[d] \in {"local", "delete"}
         \/ man'[d] = epoch'
<1> USE ControlTypes
<1>1. CASE FlushStep(d)
  BY <1>1 DEF FlushStep, FlushSkip, FlushQuarantine, FlushRecord, PublishFile, HeadRead,
     HeadWrite, remote
<1>2. CASE PullStep(d)
  BY <1>2 DEF PullStep, ReaderCheck, PullList, PullApply, PullMissing, PullDone, remote
<1>3. CASE RestoreStep(d)
  BY <1>3 DEF RestoreStep, RestoreNone, RestoreRead, RestoreRetry, RestoreMissing, RestoreClear,
     RestoreFill, RestoreSettle, remote
<1>4. CASE CompactStep(d)
  <2>1. CASE CompactPrune(d)
    <3>1. man'[d] = man[d] + 1 /\ epoch' = epoch /\ epoch = man[d] + 1
      BY <2>1 DEF CompactPrune, ControlAt
    <3> QED
      BY <3>1
  <2>2. CASE CompactSnapshot(d) \/ CompactPointer(d) \/ CompactLocal(d) \/ CompactDelete(d)
    BY <2>2 DEF CompactSnapshot, CompactPointer, CompactLocal, CompactDelete, engine, remote
  <2> QED
    BY <1>4, <2>1, <2>2 DEF CompactStep
<1>5. CASE ConnectStep(d)
  BY <1>5 DEF ConnectStep, ConnectFast, ConnectLoad, ConnectFence, ConnectReset, ConnectRestore,
     flushAndRehydrateNow, Start, ConnectPull, ConnectFlush, remote
<1>6. CASE AppStep(d)
  <2>1. CASE Disconnect(d)
    <3>1. pc[d] = "idle" /\ man' = man /\ epoch' = epoch
      BY <2>1 DEF Disconnect, Start, remote
    <3> QED
      BY <3>1
  <2>2. CASE AppStep(d) /\ ~Disconnect(d)
    BY <2>2 DEF AppStep, Put, engine, Promote, Flush, Start, Pull, Rehydrate,
       flushAndRehydrateNow, Compact, remote
  <2> QED
    BY <1>6, <2>1, <2>2
<1>7. CASE FaultStep(d)
  BY <1>7 DEF FaultStep, Crash, RequestFails, AccessDenied, ListFails, HeadUnreadable,
     FileUnreadable, ConnectFails, ConnectStalls, Lapse, engine, remote
<1> QED
  BY <1>1, <1>2, <1>3, <1>4, <1>5, <1>6, <1>7 DEF Steps, LockStep

(* A stranded compactor restores: it has neither a receipt that would open the fast path of
   connect() to it nor an epoch that would let it skip the restore. *)
LEMMA StrandedRestores ==
  ASSUME Managed, LInv, NEW d \in Compactors, d \in Device, Hollow(d), Stranded(d), Steps(d)
  PROVE  Stranded(d)' \/ pc'[d] = "fill"
<1>1. TypeOK /\ CalmAt(d) /\ QueueAt(d) /\ ControlAt(d) /\ LeadAt(d)
  BY DEF LInv, EInv, IInv
<1>2. man[d] \in {NoManifest, epoch} /\ epoch # 0 /\ snaps[epoch] # NoSnapshot
  BY <1>1 DEF LInv, LeadAt, Stranded, Hollow, snapshotRows
<1>3. pending[d] = {} /\ outbox[d] = {} /\ paused[d] = FALSE
  BY <1>1 DEF QueueAt, Empty, Stranded, CalmAt
<1>4. /\ pc \in [Device -> Pc] /\ goal \in [Device -> Goal] /\ conn \in [Device -> Conn]
      /\ lepoch \in [Device -> Epoch] /\ seen \in [Device -> SUBSET Entry]
      /\ poisoned \in [Device -> BOOLEAN] /\ epoch \in Nat /\ NoManifest \in Nat
      /\ NoManifest # 0
  BY <1>1, MailboxAssumption, SMTT(30) DEF TypeOK, Epoch, NoManifest
<1> USE <1>4 DEF Stranded
<1>5. CASE FlushStep(d)
  <2>1. FlushSkip(d) /\ pc[d] = "flush"
    BY <1>3, <1>5 DEF FlushStep, FlushSkip, FlushQuarantine, FlushRecord, PublishFile, HeadRead,
       HeadWrite
  <2>2. afterFlush(d) = "restore"
    BY <2>1 DEF afterFlush
  <2> QED
    BY <2>1, <2>2 DEF FlushSkip, Resume
<1>6. CASE PullStep(d)
  BY <1>6 DEF PullStep, ReaderCheck, PullList, PullApply, PullMissing, PullDone
<1>7. CASE RestoreStep(d)
  <2>1. pc[d] = "restore" => man[d] = epoch
    BY <1>1, <1>2 DEF ControlAt
  <2> QED
    BY <1>2, <1>7, <2>1 DEF RestoreStep, RestoreNone, RestoreRead, RestoreRetry, RestoreMissing,
       RestoreClear, RestoreFill, RestoreSettle, store
<1>8. CASE CompactStep(d)
  BY <1>8 DEF CompactStep, CompactSnapshot, CompactPointer, CompactLocal, CompactDelete,
     CompactPrune
<1>9. CASE ConnectStep(d)
  <2>1. ~ConnectFast(d)
    <3>1. highWater(d) = {0}
      <4>1. UNION seen[d] = {}
        OBVIOUS
      <4> QED
        BY <4>1 DEF highWater, highest
    <3> QED
      BY <3>1 DEF ConnectFast, fastPath
  <2>2. ~ConnectPull(d)
    <3>1. d \notin Readers /\ ~(lepoch[d] >= man[d])
      BY <1>2, MailboxAssumption, SMTT(30)
    <3> QED
      BY <3>1 DEF ConnectPull
  <2>3. CASE ConnectLoad(d) \/ ConnectFence(d)
    BY <1>1, <2>3 DEF ConnectLoad, ConnectFence, fenced, CalmAt
  <2>4. CASE ConnectRestore(d)
    BY <2>4 DEF ConnectRestore, flushAndRehydrateNow, Start
  <2> QED
    BY <1>9, <2>1, <2>2, <2>3, <2>4 DEF ConnectStep, ConnectReset, ConnectFlush
<1>10. CASE AppStep(d)
  <2>1. ASSUME NEW all \in BOOLEAN PROVE ~Flush(d, all)
    <3>1. outbox \in [Device -> SUBSET Entry]
      BY <1>1 DEF TypeOK
    <3> QED
      BY <1>3, <3>1 DEF Flush, flushPendingBatch, promoted
  <2> QED
    BY <1>3, <1>10, <2>1 DEF AppStep, Put, Promote, Pull, Rehydrate, Compact, Disconnect
<1>11. CASE FaultStep(d)
  BY <1>3, <1>11 DEF FaultStep, Crash, RequestFails, AccessDenied, ListFails, HeadUnreadable,
     FileUnreadable, ConnectFails, ConnectStalls, ConnectGoal, Lapse, store, Fault, Managed
<1> QED
  BY <1>5, <1>6, <1>7, <1>8, <1>9, <1>10, <1>11 DEF Steps, LockStep

(* In the middle of a restore the operation goes on, or the process stops. *)
LEMMA AtFill ==
  ASSUME TypeOK, NEW d \in Device, CalmAt(d), Steps(d), pc[d] = "fill"
  PROVE  RestoreFill(d) \/ pc'[d] = "fill" \/ Crash(d)
<1> USE ControlTypes
<1>1. CASE LockStep(d)
  BY <1>1 DEF LockStep, FlushStep, FlushSkip, FlushQuarantine, FlushRecord, PublishFile,
     HeadRead, HeadWrite, PullStep, ReaderCheck, PullList, PullApply, PullMissing, PullDone,
     RestoreStep, RestoreNone, RestoreRead, RestoreRetry, RestoreMissing, RestoreClear,
     RestoreSettle, CompactStep, CompactSnapshot, CompactPointer, CompactLocal, CompactDelete,
     CompactPrune
<1>2. CASE ConnectStep(d)
  BY <1>2 DEF ConnectStep, ConnectFast, ConnectLoad, ConnectFence, ConnectReset, ConnectRestore,
     flushAndRehydrateNow, Start, ConnectPull, ConnectFlush
<1>3. CASE AppStep(d)
  BY <1>3 DEF AppStep, Put, Promote, Flush, Start, Pull, Rehydrate, flushAndRehydrateNow,
     Compact, Disconnect
<1>4. CASE FaultStep(d)
  BY <1>4 DEF FaultStep, RequestFails, AccessDenied, ListFails, HeadUnreadable, FileUnreadable,
     ConnectFails, ConnectStalls, Lapse
<1> QED
  BY <1>1, <1>2, <1>3, <1>4 DEF Steps

(* A step of the compactor keeps what LeadAt says of it. *)
LEMMA LeadKept ==
  ASSUME Managed, LInv, NEW d \in Compactors, d \in Device, Steps(d)
  PROVE  LeadAt(d)'
<1>1. /\ TypeOK /\ CalmAt(d) /\ QueueAt(d) /\ PublishedAt(d) /\ ControlAt(d) /\ EpochAt(d)
      /\ MergedAt(d) /\ LeadAt(d)
  BY DEF LInv, EInv, IInv
<1> USE MergedTypes
<1>2. man'[d] \in {NoManifest, epoch'} \/ pc'[d] \in {"local", "delete"}
  BY <1>1, ManifestKept DEF LeadAt
<1>3. CASE CompactPointer(d)
  <2>1. snapshotRows' = rows'[d] /\ pc'[d] = "local"
    <3>1. /\ snaps[man[d] + 1] = [rows |-> rows[d], covered |-> seen[d]]
          /\ man[d] \in Nat
      BY <1>3, AtCompaction DEF CompactPointer, Compacting
    <3> QED
      BY <1>1, <1>3, <3>1, SMTT(30) DEF CompactPointer, snapshotRows, store
  <2> QED
    BY <1>2, <2>1 DEF LeadAt, Hollow
<1>4. CASE ~CompactPointer(d)
  <2>1. snapshotRows' = snapshotRows
    BY <1>4, ReachableKept
  <2>2. pc'[d] \in {"clear", "fill", "settle"} => snapshotRows \subseteq cut'[d].rows
    <3>1. CASE Stays(d)
      BY <1>1, <3>1 DEF Stays, LeadAt
    <3>2. CASE RestoreRead(d)
      <4>1. man[d] = epoch /\ epoch # 0
        BY <1>1, <3>2 DEF RestoreRead, LeadAt, ControlAt
      <4>2. cut'[d] = replacement(d, snaps[epoch], epoch)
        BY <1>1, <3>2, <4>1 DEF RestoreRead
      <4>3. cut'[d].rows = snaps[epoch].rows
        BY ONLY <4>2, ReplacementFields
      <4> QED
        BY <4>1, <4>3 DEF snapshotRows
    <3>3. CASE RestoreClear(d) \/ RestoreFill(d)
      BY <1>1, <3>3 DEF RestoreClear, RestoreFill, LeadAt
    <3> QED
      BY <1>1, <3>1, <3>2, <3>3, Arrivals
  <2>3. Hollow(d)' => pc'[d] = "fill" \/ Stranded(d)'
    <3>1. CASE Hollow(d) /\ Stranded(d)
      BY <3>1, StrandedRestores
    <3>2. CASE RestoreFill(d)
      BY <1>1, <2>1, <3>2 DEF RestoreFill, Hollow, LeadAt
    <3>3. CASE pc[d] = "fill" /\ Crash(d)
      <4>1. d \notin Writers /\ lepoch[d] = 0 /\ seen[d] = {}
        BY <1>1, <3>3 DEF Crash, Fault, Managed, EpochAt, MergedAt
      <4>2. /\ lepoch' = lepoch /\ seen' = seen /\ pc'[d] = "idle" /\ conn'[d] = "off"
            /\ goal'[d] = "none" /\ poisoned'[d] = FALSE
        BY <1>1, <3>3 DEF Crash, store, TypeOK
      <4> QED
        BY <4>1, <4>2 DEF Stranded
    <3>4. CASE pc[d] = "fill"
      BY <1>1, <3>2, <3>3, <3>4, AtFill
    <3>5. CASE ~Hollow(d)
      <4>1. CASE RestoreClear(d)
        BY <1>1, <4>1 DEF RestoreClear
      <4>2. CASE ~RestoreClear(d) /\ ~RestoreFill(d)
        <5>1. rows[d] \subseteq rows'[d]
          <6>1. ASSUME NEW s \in Stamp, Put(d, s) PROVE rows[d] \subseteq rows'[d]
            BY <1>1, <6>1 DEF Put
          <6>2. ASSUME PullApply(d) PROVE rows[d] \subseteq rows'[d]
            BY <1>1, <6>2 DEF PullApply
          <6> QED
            BY <1>1, <4>2, <6>1, <6>2, Effects DEF Quiet, Acknowledges
        <5> QED
          BY <2>1, <3>5, <5>1 DEF Hollow
      <4> QED
        BY <3>2, <4>1, <4>2
    <3> QED
      BY <1>1, <3>1, <3>4, <3>5 DEF LeadAt
  <2> QED
    BY <1>2, <2>1, <2>2, <2>3 DEF LeadAt
<1> QED
  BY <1>3, <1>4

(* A step of one device leaves the flag of another one alone. *)
LEMMA PoisonedOthers ==
  ASSUME TypeOK, NEW d \in Device, Steps(d), NEW c \in Device, c # d
  PROVE  poisoned'[c] = poisoned[c]
<1>1. poisoned \in [Device -> BOOLEAN]
  BY DEF TypeOK
<1> USE <1>1
<1>2. CASE FlushStep(d)
  BY <1>2 DEF FlushStep, FlushSkip, Resume, FlushQuarantine, FlushRecord, PublishFile, HeadRead,
     acknowledgeOutbox, HeadWrite
<1>3. CASE PullStep(d)
  BY <1>3 DEF PullStep, ReaderCheck, PullList, PullApply, PullMissing, poisonRemote, PullDone,
     Resume
<1>4. CASE RestoreStep(d)
  BY <1>4 DEF RestoreStep, RestoreNone, RestoreRead, RestoreRetry, RestoreMissing, poisonRemote,
     RestoreClear, RestoreFill, RestoreSettle
<1>5. CASE CompactStep(d)
  BY <1>5 DEF CompactStep, CompactSnapshot, CompactPointer, CompactLocal, CompactDelete, engine,
     CompactPrune, Resume
<1>6. CASE ConnectStep(d)
  BY <1>6 DEF ConnectStep, ConnectFast, ConnectLoad, ConnectFence, ConnectReset, ConnectRestore,
     ConnectPull, ConnectFlush
<1>7. CASE AppStep(d)
  BY <1>7 DEF AppStep, Put, engine, Promote, Flush, Pull, Rehydrate, Compact, Disconnect
<1>8. CASE FaultStep(d)
  BY <1>8 DEF FaultStep, Crash, RequestFails, AccessDenied, ListFails, Resume, HeadUnreadable,
     FileUnreadable, poisonRemote, ConnectFails, ConnectStalls, Lapse, engine
<1> QED
  BY <1>2, <1>3, <1>4, <1>5, <1>6, <1>7, <1>8 DEF Steps, LockStep

(* A step of d keeps what LInv says of another device c. *)
LEMMA CalmOthers ==
  ASSUME Managed, LInv, NEW d \in Device, Steps(d), NEW c \in Device, c # d
  PROVE  /\ CalmAt(c)' /\ QueueAt(c)' /\ PublishedAt(c)' /\ Unsent(c)' = Unsent(c)
         /\ c \in Compactors => LeadAt(c)'
<1>1. TypeOK /\ CalmAt(c) /\ QueueAt(c) /\ PublishedAt(c)
  BY DEF LInv, EInv, IInv
<1>2. Same(c) /\ SameRest(c) /\ poisoned'[c] = poisoned[c] /\ paused'[c] = FALSE
  BY <1>1, OthersKept, OthersRest, PoisonedOthers, NotPaused DEF Steps, CalmAt
<1>3. Unsent(c)' = Unsent(c)
  BY <1>2 DEF Unsent, Same
<1>4. CalmAt(c)' /\ QueueAt(c)'
  BY <1>1, <1>2 DEF CalmAt, QueueAt, Same, SameRest, Empty
<1>5. PublishedAt(c)'
  <2>1. reachable \subseteq reachable'
    BY PublishedKept
  <2> QED
    BY <1>1, <1>2, <1>3, <2>1 DEF PublishedAt, Same, SameRest
<1>6. ASSUME c \in Compactors PROVE LeadAt(c)'
  <2>1. d \notin Compactors
    BY <1>6 DEF Managed
  <2>2. ~CompactPointer(d)
    BY <2>1, AtCompaction DEF CompactPointer, Compacting
  <2>3. epoch' = epoch /\ snapshotRows' = snapshotRows
    BY <1>1, <2>2, ReachableKept, RemoteKept DEF Steps
  <2>4. LeadAt(c)
    BY <1>6 DEF LInv
  <2>5. Hollow(c)' = Hollow(c) /\ Stranded(c)' = Stranded(c)
    BY <1>2, <2>3 DEF Hollow, Stranded, Same, SameRest
  <2> QED
    BY <1>2, <2>3, <2>4, <2>5 DEF LeadAt, Same
<1> QED
  BY <1>3, <1>4, <1>5, <1>6

(* put() alone accepts a mutation. *)
LEMMA AcceptedByPut ==
  ASSUME NEW d \in Device, Steps(d)
  PROVE  accepted' = accepted \/ \E s \in Stamp : Put(d, s)
<1>1. CASE LockStep(d)
  BY <1>1 DEF LockStep, FlushStep, FlushSkip, FlushQuarantine, FlushRecord, PublishFile,
     HeadRead, HeadWrite, PullStep, ReaderCheck, PullList, PullApply, PullMissing, PullDone,
     RestoreStep, RestoreNone, RestoreRead, RestoreRetry, RestoreMissing, RestoreClear,
     RestoreFill, RestoreSettle, CompactStep, CompactSnapshot, CompactPointer, CompactLocal,
     CompactDelete, CompactPrune
<1>2. CASE ConnectStep(d)
  BY <1>2 DEF ConnectStep, ConnectFast, ConnectLoad, ConnectFence, ConnectReset, ConnectRestore,
     ConnectPull, ConnectFlush
<1>3. CASE AppStep(d)
  BY <1>3 DEF AppStep, Promote, Flush, Pull, Rehydrate, Compact, Disconnect
<1>4. CASE FaultStep(d)
  BY <1>4 DEF FaultStep, Crash, RequestFails, AccessDenied, ListFails, HeadUnreadable,
     FileUnreadable, ConnectFails, ConnectStalls, Lapse
<1> QED
  BY <1>1, <1>2, <1>3, <1>4 DEF Steps

(* What a put() does to the queue. *)
LEMMA PutQueues ==
  ASSUME TypeOK, NEW d \in Device, NEW s \in Stamp, Put(d, s)
  PROVE  /\ Unsent(d)' = Unsent(d) \cup {s} /\ accepted' = accepted \cup {s}
         /\ rows'[d] = rows[d] \cup {s} /\ s \notin accepted
BY MergedTypes DEF Put, Unsent

(* What leaves the queue of d is published, and what enters it has just been accepted. *)
LEMMA QueueMoves ==
  ASSUME Managed, LInv, NEW d \in Device, Steps(d)
  PROVE  /\ Unsent(d) \subseteq reachable' \cup Unsent(d)'
         /\ Unsent(d)' \subseteq Unsent(d) \cup accepted'
         /\ accepted \subseteq accepted'
         /\ accepted' \subseteq accepted \cup Unsent(d)'
<1>1. TypeOK /\ CalmAt(d) /\ QueueAt(d) /\ PublishedAt(d)
  BY DEF LInv, EInv, IInv
<1>2. reachable \subseteq reachable'
  BY PublishedKept
<1> USE MergedTypes
<1>3. CASE \E s \in Stamp : Put(d, s)
  BY <1>1, <1>3, PutQueues
<1>4. CASE ~\E s \in Stamp : Put(d, s)
  <2>1. accepted' = accepted
    BY <1>4, AcceptedByPut
  <2>2. Unsent(d) \subseteq reachable' \cup Unsent(d)' /\ Unsent(d)' \subseteq Unsent(d)
    <3>1. CASE Quiet(d)
      BY <3>1 DEF Quiet
    <3>2. CASE Acknowledges(d)
      <4>1. UNION outbox[d] \subseteq reachable
        BY <1>1, <3>2 DEF PublishedAt, Acknowledges
      <4>2. Unsent(d)' = pending[d]
        BY <3>2 DEF Acknowledges, Unsent
      <4> QED
        BY <1>2, <4>1, <4>2 DEF Unsent
    <3>3. CASE PullApply(d) \/ RestoreFill(d)
      BY <3>3 DEF PullApply, RestoreFill, Unsent
    <3>4. CASE RestoreClear(d)
      <4>1. pending[d] = {} /\ outbox[d] = {}
        BY <1>1, <3>4 DEF RestoreClear, QueueAt, Empty
      <4>2. pending'[d] = {} /\ outbox'[d] = {}
        BY <1>1, <3>4 DEF RestoreClear
      <4> QED
        BY <4>1, <4>2 DEF Unsent
    <3> QED
      BY <1>1, <1>4, <3>1, <3>2, <3>3, <3>4, Effects
  <2> QED
    BY <2>1, <2>2
<1> QED
  BY <1>3, <1>4

(* Known is kept. *)
LEMMA KnownKept ==
  ASSUME Managed, LInv, NEW d \in Device, Steps(d)
  PROVE  Known'
<1>1. TypeOK /\ PublishedAt(d) /\ Known
  BY DEF LInv, EInv, IInv
<1>2. /\ Unsent(d) \subseteq reachable' \cup Unsent(d)' /\ reachable \subseteq reachable'
      /\ Unsent(d)' \subseteq Unsent(d) \cup accepted'
      /\ accepted \subseteq accepted' /\ accepted' \subseteq accepted \cup Unsent(d)'
      /\ \A c \in Device : c # d => Unsent(c)' = Unsent(c)
  BY QueueMoves, PublishedKept, CalmOthers
<1>3. reachable' \subseteq accepted'
  <2>1. CASE PublishFile(d)
    <3>1. PICK e \in todo[d] : reachable' = reachable \cup e
      BY <1>1, <2>1, FilePublished
    <3>2. todo[d] \subseteq outbox[d]
      BY <1>1, <2>1 DEF PublishedAt, PublishFile
    <3>3. e \subseteq Unsent(d)
      BY <3>1, <3>2 DEF Unsent
    <3> QED
      BY <1>1, <1>2, <3>1, <3>3 DEF Known
  <2>2. CASE reachable' = reachable
    BY <1>1, <1>2, <2>2 DEF Known
  <2> QED
    BY <2>1, <2>2, ReachableKept
<1>4. ASSUME NEW c \in Device PROVE Unsent(c)' \subseteq accepted'
  BY <1>1, <1>2 DEF Known
<1>5. ASSUME NEW s \in accepted'
      PROVE  s \in reachable' \/ \E c \in Device : s \in Unsent(c)'
  BY <1>1, <1>2 DEF Known
<1> QED
  BY <1>3, <1>4, <1>5 DEF Known

(* A snapshot is written when the queue of the compactor is empty, so it holds published
   mutations only. *)
LEMMA SnapsPublishedKept ==
  ASSUME Managed, LInv, NEW d \in Device, Steps(d)
  PROVE  SnapsPublished'
<1>1. TypeOK /\ QueueAt(d) /\ PublishedAt(d) /\ SnapsPublished
  BY DEF LInv, EInv, IInv
<1> USE EpochTypes
<1>2. reachable \subseteq reachable'
  BY PublishedKept
<1> SUFFICES ASSUME NEW n \in Epoch \ {0}, snaps'[n] # NoSnapshot
             PROVE  snaps'[n].rows \subseteq reachable'
  BY DEF SnapsPublished
<1>3. CASE CompactSnapshot(d)
  <2>1. pending[d] = {} /\ outbox[d] = {}
    BY <1>1, <1>3 DEF CompactSnapshot, QueueAt, Empty
  <2>2. rows[d] \subseteq reachable
    BY <1>1, <2>1 DEF PublishedAt, Unsent
  <2>3. snaps'[n].rows \in {snaps[n].rows, rows[d]} /\ (n # man[d] + 1 => snaps'[n] = snaps[n])
        /\ (n = man[d] + 1 => snaps'[n].rows = rows[d])
    BY <1>1, <1>3 DEF CompactSnapshot
  <2> QED
    BY <1>1, <1>2, <2>2, <2>3 DEF SnapsPublished
<1>4. CASE CompactPrune(d)
  <2>1. snaps'[n] \in {snaps[n], NoSnapshot}
    BY <1>1, <1>4 DEF CompactPrune
  <2> QED
    BY <1>1, <1>2, <2>1 DEF SnapsPublished
<1>5. CASE snaps' = snaps
  BY <1>1, <1>2, <1>5 DEF SnapsPublished
<1> QED
  BY <1>1, <1>3, <1>4, <1>5, RemoteKept DEF Steps

-----------------------------------------------------------------------------
(* LInv holds initially, *)
LEMMA LogInvInit == Init => LInv
<1> SUFFICES ASSUME Init PROVE LInv
  OBVIOUS
<1>1. EInv
  <2>1. ASSUME NEW d \in Device PROVE EpochAt(d)
    BY MailboxAssumption, SMTT(30) DEF Init, EpochAt, Restored, NoReplacement, Epoch, NoManifest
  <2> QED
    BY <2>1, InitInv DEF EInv
<1>2. reachable = {} /\ snapshotRows = {} /\ epoch = 0 /\ accepted = {}
  BY DEF Init, reachable, snapshotRows
<1>3. ASSUME NEW d \in Device
      PROVE  /\ pc[d] = "idle" /\ goal[d] = "none" /\ conn[d] = "off" /\ man[d] = NoManifest
             /\ rows[d] = {} /\ pending[d] = {} /\ outbox[d] = {} /\ cut[d] = NoReplacement
             /\ sync[d] = "never" /\ quarantine[d] = {} /\ paused[d] = FALSE
  BY DEF Init
<1>4. ASSUME NEW d \in Device PROVE Unsent(d) = {}
  BY <1>3 DEF Unsent
<1>5. ASSUME NEW d \in Device PROVE CalmAt(d) /\ QueueAt(d)
  <2>0. cut[d] = NoReplacement
    BY <1>3
  <2>1. cut[d].sync = "never" /\ cut[d].quarantine = {}
    BY ONLY <2>0 DEF NoReplacement
  <2>2. CalmAt(d)
    BY <1>3, <2>1 DEF CalmAt
  <2>3. QueueAt(d)
    BY <1>3 DEF QueueAt, Empty
  <2> QED
    BY <2>2, <2>3
<1>6. ASSUME NEW d \in Device PROVE PublishedAt(d)
  BY <1>3 DEF PublishedAt
<1>7. ASSUME NEW c \in Compactors PROVE LeadAt(c)
  BY <1>2, <1>3, MailboxAssumption DEF LeadAt, Hollow
<1>8. SnapsPublished /\ Known
  <2>1. \A n \in Epoch \ {0} : snaps[n] = NoSnapshot
    BY DEF Init
  <2> QED
    BY <1>2, <1>4, <2>1 DEF SnapsPublished, Known
<1> QED
  BY <1>1, <1>2, <1>5, <1>6, <1>7, <1>8 DEF LInv

(* and every step of a managed mesh keeps it. *)
LEMMA LogInvStep ==
  ASSUME Managed, LInv, NEW d \in Device, Steps(d)
  PROVE  LInv'
<1>1. EInv'
  <2>1. EInv /\ IInv
    BY DEF LInv, EInv
  <2>2. IInv'
    BY <2>1, StepInv DEF Steps
  <2>3. \A c \in Device : EpochAt(c)'
    BY <2>1, EpochKept, EpochOthers
  <2> QED
    BY <2>2, <2>3 DEF EInv
<1>2. epoch' # 0 => snaps'[epoch'] # NoSnapshot
  BY ReachableKept
<1>3. CalmAt(d)' /\ QueueAt(d)'
  <2>1. TypeOK /\ CalmAt(d) /\ QueueAt(d) /\ ControlAt(d)
    BY DEF LInv, EInv, IInv
  <2> QED
    BY <2>1, CalmKept, QueueKept
<1>4. \A c \in Device : CalmAt(c)' /\ QueueAt(c)' /\ PublishedAt(c)'
  BY <1>3, PublishedKept, CalmOthers
<1>5. \A c \in Compactors : LeadAt(c)'
  BY LeadKept, CalmOthers, MailboxAssumption
<1>6. SnapsPublished' /\ Known'
  BY SnapsPublishedKept, KnownKept
<1> QED
  BY <1>1, <1>2, <1>4, <1>5, <1>6 DEF LInv

(* So LInv is an invariant of a managed mesh. *)
LEMMA LogInvHolds == ASSUME Managed PROVE Spec => []LInv
<1>1. LInv /\ [Next]_vars => LInv'
  <2>1. ASSUME LInv, Next PROVE LInv'
    BY <2>1, LogInvStep DEF Next, Steps
  <2>2. ASSUME LInv, UNCHANGED vars PROVE LInv'
    <3>1. IInv'
      BY <2>2, NextInv DEF LInv, EInv
    <3>2. /\ UNCHANGED <<epoch, snaps, rows, pending, outbox, seen, lepoch, sync, quarantine>>
          /\ UNCHANGED <<pc, goal, conn, man, todo, cut, paused, poisoned, accepted>>
          /\ reachable' = reachable /\ snapshotRows' = snapshotRows
          /\ \A c \in Device : Unsent(c)' = Unsent(c)
      BY <2>2 DEF vars, remote, store, engine, reachable, snapshotRows, Unsent
    <3>3. ASSUME NEW c \in Device
          PROVE  EpochAt(c)' /\ CalmAt(c)' /\ QueueAt(c)' /\ PublishedAt(c)'
      BY <2>2, <3>2 DEF LInv, EInv, EpochAt, Restored, CalmAt, QueueAt, Empty, PublishedAt
    <3>4. ASSUME NEW c \in Compactors PROVE LeadAt(c)'
      BY <2>2, <3>2 DEF LInv, LeadAt, Hollow, Stranded
    <3>5. SnapsPublished' /\ Known'
      BY <2>2, <3>2 DEF LInv, SnapsPublished, Known
    <3>6. epoch' # 0 => snaps'[epoch'] # NoSnapshot
      BY <2>2, <3>2 DEF LInv
    <3> QED
      BY <3>1, <3>3, <3>4, <3>5, <3>6 DEF LInv, EInv
  <2> QED
    BY <2>1, <2>2
<1> QED
  BY <1>1, LogInvInit, PTL DEF Spec

-----------------------------------------------------------------------------
(* Nothing is quarantined, so what is queued is what has still to be published. *)
LEMMA QueuedUnsent ==
  ASSUME NEW d \in Device, CalmAt(d)
  PROVE  queued(d) = Unsent(d)
<1>1. held(d) = {}
  BY DEF CalmAt, held
<1> QED
  BY <1>1 DEF queued, Unsent

(* Every step of a managed mesh is a step of the log, or the log does not notice it. *)
LEMMA StepIsLogStep ==
  ASSUME Managed, LInv, LInv', NEW d \in Device, Steps(d)
  PROVE  Log!Next \/ UNCHANGED Log!vars
<1> DEFINE Q == [c \in Device |-> queued(c)]
<1>1. /\ TypeOK /\ CalmAt(d) /\ CalmAt(d)' /\ QueueAt(d) /\ PublishedAt(d) /\ Known
      /\ TypeOK' /\ MergedAt(d)
  BY DEF LInv, EInv, IInv
<1> USE MergedTypes
<1>2. /\ \A c \in Device : queued(c) = Unsent(c)
      /\ \A c \in Device : queued(c)' = Unsent(c)'
  <2>1. ASSUME NEW c \in Device PROVE queued(c) = Unsent(c)
    BY QueuedUnsent DEF LInv
  <2>2. ASSUME NEW c \in Device PROVE queued(c)' = Unsent(c)'
    <3>1. CalmAt(c)'
      BY DEF LInv
    <3>2. held(c)' = {}
      BY <3>1 DEF CalmAt, held
    <3> QED
      BY <3>2 DEF queued, Unsent
  <2> QED
    BY <2>1, <2>2
<1>3. ASSUME NEW c \in Device, c # d PROVE rows'[c] = rows[c] /\ queued(c)' = queued(c)
  BY <1>1, <1>2, <1>3, OthersKept, CalmOthers DEF Steps, Same
<1>4. rows' = [rows EXCEPT ![d] = rows'[d]]
  <2>1. rows \in [Device -> SUBSET Stamp] /\ rows' \in [Device -> SUBSET Stamp]
    BY <1>1 DEF TypeOK
  <2> QED
    BY <1>3, <2>1
<1>5. Q' = [Q EXCEPT ![d] = Unsent(d)']
  BY <1>2, <1>3
<1>6. Q[d] = Unsent(d)
  BY <1>2
<1> HIDE DEF Q
<1>7. ASSUME NEW s \in Stamp, Put(d, s) PROVE Log!Next
  <2>1. reachable' = reachable
    BY <1>7 DEF Put, remote, reachable, snapshotRows
  <2>2. s \notin reachable /\ \A c \in Device : s \notin Q[c]
    BY <1>1, <1>2, <1>7, PutQueues DEF Known, Q
  <2>3. Q' = [Q EXCEPT ![d] = @ \cup {s}] /\ rows' = [rows EXCEPT ![d] = @ \cup {s}]
    BY <1>1, <1>4, <1>5, <1>6, <1>7, PutQueues
  <2>4. Log!Write(d, s)
    BY <2>1, <2>2, <2>3 DEF Log!Write, Q
  <2> QED
    BY <2>4 DEF Log!Next
<1>8. CASE PublishFile(d)
  <2>1. PICK e \in todo[d] : /\ reachable' = reachable \cup e
                             /\ UNCHANGED <<rows, pending, outbox, pc>>
    BY <1>1, <1>8, FilePublished
  <2>2. e \in SUBSET Q[d]
    <3>1. todo[d] \subseteq outbox[d]
      BY <1>1, <1>8 DEF PublishedAt, PublishFile
    <3>2. e \subseteq Unsent(d)
      BY <2>1, <3>1 DEF Unsent
    <3> QED
      BY <1>6, <3>2
  <2>3. Q' = Q
    <3>1. Unsent(d)' = Q[d]
      BY <1>6, <2>1 DEF Unsent
    <3> QED
      BY <1>5, <3>1 DEF Q
  <2>4. Log!Publish(d)
    BY <2>1, <2>2, <2>3 DEF Log!Publish, Q
  <2> QED
    BY <2>4 DEF Log!Next
<1>9. ASSUME ~PublishFile(d) PROVE reachable' = reachable
  BY <1>9, ReachableKept
<1>10. CASE Acknowledges(d)
  <2>1. reachable' = reachable
    BY <1>9, <1>10 DEF Acknowledges, PublishFile
  <2>2. UNION outbox[d] \subseteq reachable
    BY <1>1, <1>10 DEF PublishedAt, Acknowledges
  <2> DEFINE S == Unsent(d) \ pending[d]
  <2>3. S \in SUBSET (Q[d] \cap reachable)
    <3>1. S \subseteq UNION outbox[d]
      BY DEF Unsent
    <3> QED
      BY <1>6, <2>2, <3>1
  <2>4. Unsent(d)' = Unsent(d) \ S
    <3>1. Unsent(d)' = pending[d]
      BY <1>10 DEF Acknowledges, Unsent
    <3>2. pending[d] \subseteq Unsent(d)
      BY DEF Unsent
    <3> QED
      BY <3>1, <3>2
  <2>5. Q' = [Q EXCEPT ![d] = @ \ S] /\ rows' = rows
    <3>1. rows' = [rows EXCEPT ![d] = rows[d]]
      BY <1>4, <1>10 DEF Acknowledges
    <3>2. rows' = rows
      BY <1>1, <3>1
    <3> QED
      BY <1>5, <1>6, <2>4, <3>2
  <2> HIDE DEF S
  <2>6. Log!Settle(d)
    BY <2>1, <2>3, <2>5 DEF Log!Settle, Q
  <2> QED
    BY <2>6 DEF Log!Next
<1>11. ASSUME Unsent(d)' = Unsent(d) PROVE Q' = Q
  <2>1. Unsent(d)' = Q[d]
    BY <1>6, <1>11
  <2> QED
    BY <1>5, <2>1 DEF Q
<1>12. ASSUME NEW S \in SUBSET reachable, rows'[d] = rows[d] \cup S, Unsent(d)' = Unsent(d),
              ~PublishFile(d)
       PROVE  Log!Next
  <2>1. rows' = [rows EXCEPT ![d] = @ \cup S] /\ Q' = Q /\ reachable' = reachable
    BY <1>4, <1>9, <1>11, <1>12
  <2>2. Log!Learn(d)
    BY <2>1 DEF Log!Learn, Q
  <2> QED
    BY <2>2 DEF Log!Next
<1>13. CASE PullApply(d)
  <2>1. PICK e \in todo[d] : rows' = [rows EXCEPT ![d] = @ \cup e]
    BY <1>13 DEF PullApply
  <2>2. e \in SUBSET reachable /\ rows'[d] = rows[d] \cup e
    BY <1>1, <1>13, <2>1 DEF PullApply, PublishedAt
  <2>3. Unsent(d)' = Unsent(d) /\ ~PublishFile(d)
    BY <1>13 DEF PullApply, PublishFile, Unsent
  <2> QED
    BY <1>12, <2>2, <2>3
<1>14. CASE RestoreFill(d)
  <2>1. cut[d].rows \in SUBSET reachable /\ rows'[d] = rows[d] \cup cut[d].rows
    BY <1>1, <1>14 DEF RestoreFill, PublishedAt
  <2>2. Unsent(d)' = Unsent(d) /\ ~PublishFile(d)
    BY <1>14 DEF RestoreFill, PublishFile, Unsent
  <2> QED
    BY <1>12, <2>1, <2>2
<1>15. CASE RestoreClear(d)
  <2>1. pending[d] = {} /\ outbox[d] = {} /\ pending'[d] = {} /\ outbox'[d] = {}
    BY <1>1, <1>15 DEF RestoreClear, QueueAt, Empty
  <2>2. Unsent(d)' = Unsent(d) /\ ~PublishFile(d)
    BY <1>15, <2>1 DEF RestoreClear, PublishFile, Unsent
  <2>3. rows' = [rows EXCEPT ![d] = {}] /\ Q' = Q /\ reachable' = reachable
    BY <1>9, <1>11, <1>15, <2>2 DEF RestoreClear
  <2>4. Log!Drop(d)
    BY <2>3 DEF Log!Drop, Q
  <2> QED
    BY <2>4 DEF Log!Next
<1>16. CASE Quiet(d) /\ ~PublishFile(d)
  <2>1. Q' = Q /\ reachable' = reachable
    BY <1>9, <1>11, <1>16 DEF Quiet
  <2>2. rows' = rows
    <3>1. rows' = [rows EXCEPT ![d] = rows[d]]
      BY <1>4, <1>16 DEF Quiet
    <3> QED
      BY <1>1, <3>1
  <2> QED
    BY <2>1, <2>2 DEF Log!vars, Q
<1> QED
  BY <1>1, <1>7, <1>8, <1>10, <1>13, <1>14, <1>15, <1>16, Effects

(* A managed mesh implements the log of sync-completeness.md: its change files and its current
   snapshot are one log that only grows, a device shows mutations of the log and its own, what
   it wrote stays queued until the log has it, and a restore drops what can be obtained again.
   Flushes, pulls, restores and compactions of all devices interleave between requests, in any
   number, with crashes and failing, stalling and unreadable requests. *)
THEOREM MailboxImplementsLog == ASSUME Managed PROVE Spec => ImplementsLog
<1>1. Init => Log!Init
  <2> SUFFICES ASSUME Init PROVE Log!Init
    OBVIOUS
  <2>1. reachable = {} /\ rows = [d \in Device |-> {}]
    BY DEF Init, reachable, snapshotRows
  <2>2. ASSUME NEW d \in Device PROVE queued(d) = {}
    <3>1. pending[d] = {} /\ outbox[d] = {} /\ quarantine[d] = {} /\ cut[d] = NoReplacement
      BY DEF Init
    <3>2. cut[d].quarantine = {}
      BY ONLY <3>1 DEF NoReplacement
    <3> QED
      BY <3>1, <3>2 DEF queued, held
  <2> QED
    BY <2>1, <2>2 DEF Log!Init
<1>2. LInv /\ LInv' /\ [Next]_vars => [Log!Next]_(Log!vars)
  <2>1. ASSUME LInv, LInv', Next PROVE Log!Next \/ UNCHANGED Log!vars
    BY <2>1, StepIsLogStep DEF Next, Steps
  <2>2. ASSUME UNCHANGED vars PROVE UNCHANGED Log!vars
    BY <2>2 DEF vars, remote, store, engine, Log!vars, reachable, snapshotRows, queued, held
  <2> QED
    BY <2>1, <2>2
<1> QED
  BY <1>1, <1>2, LogInvHolds, PTL DEF Spec, ImplementsLog, Log!Spec

(* No flush, compaction or cleanup takes a published mutation out of the change files and the
   current snapshot: compact() deletes a file only when the snapshot the pointer names holds
   it, and a new snapshot holds the previous one. *)
THEOREM PublishedIsKept == ASSUME Managed PROVE Spec => PublishedStays
<1>1. LInv /\ [Next]_vars => [reachable \subseteq reachable']_vars
  <2>1. ASSUME LInv, Next PROVE reachable \subseteq reachable'
    BY <2>1, PublishedKept DEF Next, Steps
  <2> QED
    BY <2>1
<1> QED
  BY <1>1, LogInvHolds, PTL DEF Spec, PublishedStays

(* No accepted write is lost: what put() accepted is queued on some device or can be obtained
   from the remote, through every interleaving of flushes, restores, compactions and crashes
   of a managed mesh. *)
THEOREM AcceptedIsKept == ASSUME Managed PROVE Spec => []AcceptedKept
<1>1. LInv => AcceptedKept
  <2> SUFFICES ASSUME LInv, NEW s \in accepted
               PROVE  \/ s \in reachable
                      \/ \E d \in Device : s \in pending[d] \cup (UNION outbox[d]) \cup held(d)
    BY DEF AcceptedKept
  <2> QED
    BY DEF LInv, Known, Unsent
<1> QED
  BY <1>1, LogInvHolds, PTL

=============================================================================
