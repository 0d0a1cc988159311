--------------------------- MODULE Mailbox_proofs ---------------------------
(***************************************************************************)
(* Proofs about Mailbox: the inductive invariant IInv holds in every       *)
(* reachable state, and with it the types, the receipts and the snapshots, *)
(* for any devices, readers, writers, compactors, bounds and faults.       *)
(*                                                                         *)
(* The first half shows that every step of an engine preserves the types.  *)
(* In the second a step of device d is taken apart by what it does to d    *)
(* itself (ControlKept, MergedKept, RestoreStepMerged), that it leaves the *)
(* other devices alone (OthersKept) and which steps change the epoch or a  *)
(* snapshot (RemoteKept). StepInv puts the parts together. The last part   *)
(* adds that a device holds the snapshot of its epoch (EInv).              *)
(***************************************************************************)
EXTENDS Mailbox, TLAPS, WellFoundedInduction

(* Most leaves are first-order; the ones that need arithmetic or records say SMTT. *)
USE ZenonT(60)

(* The program counters of compact() after its flush, pull and check. *)
Compacting == {"snapshot", "pointer", "local", "delete"}

(* What the position of device d in its operation says about its manifest and the epoch of
   the remote. A compactor works from the current manifest until it has moved the pointer,
   and then sits one epoch behind it; a device without a manifest is not connected and can at
   most flush. Typing needs it: CompactSnapshot writes snapshot man[d] + 1, RestoreRead reads
   snapshot man[d]. *)
ControlAt(d) ==
  /\ pc[d] \in Compacting => goal[d] = "compact"
  /\ goal[d] = "compact" /\ pc[d] \notin {"local", "delete"}
       => man[d] = epoch /\ epoch < MaxEpoch
  /\ pc[d] \in {"local", "delete"} => epoch = man[d] + 1
  /\ man[d] = NoManifest => /\ conn[d] = "off"
                            /\ goal[d] \in {"none", "flush", "disconnect"}
                            /\ pc[d] \notin {"restore", "retry"}

(* compact() calls are serialised over the whole mesh, as its documentation asks of the
   application. *)
OneCompacts == \A c, d \in Device : goal[c] = "compact" /\ goal[d] = "compact" => c = d

(* Every mutation of the entries E has been merged into the rows R. *)
Applied(E, R) == \A e \in E : e \subseteq R

(* What device d claims to hold is in its rows: its receipts, its outbox and its pending
   batch, the files a running pull has observed so far and, while a restore replaces the
   store, the rows of the snapshot before the receipts of the snapshot. *)
MergedAt(d) ==
  /\ Applied(seen[d], rows[d])
  /\ Applied(outbox[d], rows[d])
  /\ pending[d] \subseteq rows[d]
  /\ pc[d] = "apply" => Applied(obs[d], rows[d])
  /\ Applied(cut[d].covered, cut[d].rows)
  /\ pc[d] = "fill" => seen[d] = {} /\ outbox[d] = {} /\ pending[d] = {}
  /\ pc[d] = "settle" => cut[d].rows \subseteq rows[d]

(* Every snapshot holds the mutations of the change files it claims to cover. *)
Covered ==
  \A n \in Epoch \ {0} : snaps[n] \in Snapshot => Applied(snaps[n].covered, snaps[n].rows)

(* The inductive invariant. *)
IInv ==
  /\ TypeOK
  /\ OneCompacts
  /\ \A d \in Device : ControlAt(d) /\ MergedAt(d)
  /\ Covered

(* The part of the state of device c that IInv speaks about does not change. *)
Same(c) ==
  /\ pc'[c] = pc[c] /\ goal'[c] = goal[c] /\ conn'[c] = conn[c] /\ man'[c] = man[c]
  /\ rows'[c] = rows[c] /\ pending'[c] = pending[c] /\ outbox'[c] = outbox[c]
  /\ seen'[c] = seen[c] /\ obs'[c] = obs[c] /\ cut'[c] = cut[c]
-----------------------------------------------------------------------------
(* A non-empty set of stamps has a largest element, so highest() is well defined on it: the
   least distance to MaxStamp exists because < is well founded on Nat. *)
LEMMA HasMax ==
  ASSUME NEW S \in SUBSET Stamp, S # {}
  PROVE  \E s \in S : \A t \in S : t <= s
<1> DEFINE T == {n \in Nat : \E s \in S : n + s = MaxStamp}
<1>1. T \subseteq Nat /\ T # {}
  <2>1. PICK s \in S : TRUE
    OBVIOUS
  <2>2. s \in 1 .. MaxStamp /\ MaxStamp - s \in Nat /\ (MaxStamp - s) + s = MaxStamp
    BY MailboxAssumption, SMTT(30) DEF Stamp
  <2> QED
    BY <2>2
<1>2. PICK n \in T : \A m \in T : ~(<<m, n>> \in OpToRel(<, Nat))
  BY <1>1, NatLessThanWellFounded, WFMin, Zenon
<1>3. \A m \in T : ~(m < n)
  BY <1>2 DEF OpToRel
<1> QED
  BY <1>3, MailboxAssumption, SMTT(30) DEF Stamp

(* The HLC that head.json receives is a stamp, or 0 for an empty outbox. *)
LEMMA LastWrittenType ==
  ASSUME TypeOK, NEW d \in Device
  PROVE  lastWritten(d) \in 0 .. MaxStamp
<1> DEFINE S == UNION outbox[d]
<1>1. S \in SUBSET Stamp
  BY DEF TypeOK, Entry
<1>2. CASE S = {}
  BY <1>2, MailboxAssumption, SMTT(30) DEF lastWritten, highest
<1>3. CASE S # {}
  <2>1. \E s \in S : \A t \in S : t <= s
    BY <1>1, <1>3, HasMax
  <2>2. highest(S) \in S
    BY <1>3, <2>1 DEF highest
  <2>3. highest(S) \in Stamp
    BY <1>1, <2>2
  <2> QED
    BY <2>3, MailboxAssumption, SMTT(30) DEF lastWritten, Stamp
<1> QED
  BY <1>2, <1>3

(* promotePendingBatch yields change entries. *)
LEMMA PromotedType ==
  ASSUME TypeOK, NEW d \in Device
  PROVE  promoted(d) \in SUBSET Entry
BY SMTT(30) DEF TypeOK, promoted, Entry

(* The end of an operation, or of one of its stages, is well typed. *)
LEMMA ResumeTypes ==
  ASSUME TypeOK, NEW d \in Device, NEW p \in Pc, Resume(d, p)
  PROVE  /\ pc' \in [Device -> Pc]
         /\ goal' \in [Device -> Goal]
         /\ conn' \in [Device -> Conn]
         /\ paused' \in [Device -> BOOLEAN]
         /\ poisoned' \in [Device -> BOOLEAN]
<1>1. endedConn(d) \in Conn
  BY DEF TypeOK, endedConn, Conn
<1>2. pc' \in [Device -> Pc] /\ goal' \in [Device -> Goal] /\ conn' \in [Device -> Conn]
  BY <1>1, SMTT(30) DEF TypeOK, Resume, Pc, Goal
<1>3. paused' \in [Device -> BOOLEAN] /\ poisoned' \in [Device -> BOOLEAN]
  BY Zenon DEF TypeOK, Resume
<1> QED
  BY <1>2, <1>3

(* An operation that throws leaves the engine well typed. *)
LEMMA ThrowTypes ==
  ASSUME TypeOK, NEW d \in Device, Throw(d, TRUE) \/ Throw(d, FALSE)
  PROVE  /\ pc' \in [Device -> Pc]
         /\ goal' \in [Device -> Goal]
         /\ todo' \in [Device -> SUBSET Entry]
         /\ obs' \in [Device -> SUBSET Entry]
         /\ conn' \in [Device -> Conn]
         /\ paused' \in [Device -> BOOLEAN]
<1>1. paused' \in [Device -> BOOLEAN]
  BY Zenon DEF TypeOK, Throw
<1>2. conn' \in [Device -> Conn]
  BY SMTT(30) DEF TypeOK, Throw, Conn
<1>3. pc' \in [Device -> Pc] /\ goal' \in [Device -> Goal]
  BY DEF TypeOK, Throw, Pc, Goal
<1> QED
  BY <1>1, <1>2, <1>3 DEF TypeOK, Throw

(* The replacement state a restore carries is well typed. *)
LEMMA ReplacementType ==
  ASSUME TypeOK, NEW d \in Device, NEW snapshot \in Snapshot, NEW n \in Epoch
  PROVE  replacement(d, snapshot, n) \in Replacement
<1>1. (IF d \in Readers THEN {} ELSE quarantine[d]) \in SUBSET Entry
  BY DEF TypeOK
<1>2. (IF d \in Readers THEN "never" ELSE sync[d]) \in Sync
  BY DEF TypeOK, Sync
<1> QED
  BY <1>1, <1>2 DEF replacement, Replacement, Snapshot

(* So is the empty replacement state. *)
LEMMA NoReplacementType == NoReplacement \in Replacement
<1>1. 0 \in Epoch /\ "never" \in Sync
  BY MailboxAssumption, SMTT(30) DEF Epoch, Sync
<1> QED
  BY <1>1 DEF NoReplacement, Replacement

(* Faults stay within their bound. *)
LEMMA FaultTypes ==
  ASSUME TypeOK, NEW kind, Fault(kind)
  PROVE  faults' \in 0 .. MaxFaults
BY MailboxAssumption, SMTT(30) DEF TypeOK, Fault

(* The variables that IInv reads per device are functions on Device; the proofs cite this
   rather than all of TypeOK. *)
LEMMA DeviceTypes ==
  ASSUME TypeOK
  PROVE  /\ pc \in [Device -> Pc] /\ goal \in [Device -> Goal] /\ conn \in [Device -> Conn]
         /\ man \in [Device -> Epoch \cup {NoManifest}]
         /\ rows \in [Device -> SUBSET Stamp] /\ pending \in [Device -> SUBSET Stamp]
         /\ outbox \in [Device -> SUBSET Entry] /\ seen \in [Device -> SUBSET Entry]
         /\ obs \in [Device -> SUBSET Entry] /\ cut \in [Device -> Replacement]
BY DEF TypeOK

-----------------------------------------------------------------------------
(* Every step of doFlush and flushToAdapter preserves the types. *)
LEMMA FlushStepTypes ==
  ASSUME NEW d \in Device, TypeOK, ControlAt(d), FlushStep(d)
  PROVE  TypeOK'
<1>1. CASE FlushSkip(d)
  BY <1>1, ResumeTypes DEF TypeOK, FlushSkip, syncAfter, afterFlush, remote, Pc, Goal,
     Conn, Sync
<1>2. CASE FlushQuarantine(d)
  BY <1>2, ResumeTypes, PromotedType DEF TypeOK, FlushQuarantine, syncAfter,
     quarantineExpired, afterFlush, remote, Pc, Goal, Conn, Sync
<1>3. CASE FlushRecord(d)
  BY <1>3 DEF TypeOK, FlushRecord, remote, Pc, Goal, Conn, Sync
<1>4. CASE PublishFile(d)
  BY <1>4 DEF TypeOK, PublishFile, store, Pc, Goal, Conn, Sync
<1>5. CASE HeadRead(d)
  <2>1. CASE head >= lastWritten(d)
    <3>1. afterFlush(d) \in Pc
      BY DEF afterFlush, Pc
    <3>2. Resume(d, afterFlush(d))
      BY <1>5, <2>1 DEF HeadRead, acknowledgeOutbox
    <3> QED
      BY <1>5, <2>1, <3>1, <3>2, ResumeTypes DEF TypeOK, HeadRead, acknowledgeOutbox, remote,
         Sync
  <2>2. CASE ~(head >= lastWritten(d))
    BY <1>5, <2>2 DEF TypeOK, HeadRead, remote, Pc
  <2> QED
    BY <2>1, <2>2
<1>6. CASE HeadWrite(d)
  BY <1>6, ResumeTypes, LastWrittenType DEF TypeOK, HeadWrite, acknowledgeOutbox,
     afterFlush, Pc, Goal, Conn, Sync
<1> QED
  BY <1>1, <1>2, <1>3, <1>4, <1>5, <1>6 DEF FlushStep

(* Every step of pull preserves the types. *)
LEMMA PullStepTypes ==
  ASSUME NEW d \in Device, TypeOK, ControlAt(d), PullStep(d)
  PROVE  TypeOK'
<1>1. CASE ReaderCheck(d)
  BY <1>1 DEF TypeOK, ReaderCheck, readerRestores, remote, Pc, Goal, Conn, Sync
<1>2. CASE PullList(d)
  BY <1>2 DEF TypeOK, PullList, remote, store, Pc, Goal, Conn, Sync
<1>3. CASE PullApply(d)
  <2>1. PICK e \in todo[d] : /\ rows' = [rows EXCEPT ![d] = @ \cup e]
                             /\ obs' = [obs EXCEPT ![d] = @ \cup {e}]
                             /\ todo' = [todo EXCEPT ![d] = @ \ {e}]
    BY <1>3 DEF PullApply
  <2>2. e \in Entry /\ e \subseteq Stamp
    BY DEF TypeOK, Entry
  <2>3. rows' \in [Device -> SUBSET Stamp]
    BY <2>1, <2>2 DEF TypeOK
  <2>4. obs' \in [Device -> SUBSET Entry] /\ todo' \in [Device -> SUBSET Entry]
    BY <2>1, <2>2 DEF TypeOK
  <2> QED
    BY <1>3, <2>3, <2>4 DEF TypeOK, PullApply, remote
<1>4. CASE PullMissing(d)
  BY <1>4 DEF TypeOK, PullMissing, poisonRemote, remote, store, Pc, Goal, Conn, Sync
<1>5. CASE PullDone(d)
  BY <1>5, ResumeTypes DEF TypeOK, PullDone, syncAfter, afterPull, remote, Pc, Goal, Conn,
     Sync
<1> QED
  BY <1>1, <1>2, <1>3, <1>4, <1>5 DEF PullStep

(* Every step of rehydrate preserves the types. *)
LEMMA RestoreStepTypes ==
  ASSUME NEW d \in Device, TypeOK, ControlAt(d), RestoreStep(d)
  PROVE  TypeOK'
<1>1. CASE RestoreNone(d)
  <2>1. [rows |-> {}, covered |-> {}] \in Snapshot /\ 0 \in Epoch
    BY MailboxAssumption, SMTT(30) DEF Snapshot, Epoch
  <2>2. replacement(d, [rows |-> {}, covered |-> {}], 0) \in Replacement
    BY <2>1, ReplacementType
  <2>3. cut' \in [Device -> Replacement]
    BY <1>1, <2>2 DEF TypeOK, RestoreNone
  <2> QED
    BY <1>1, <2>3 DEF TypeOK, RestoreNone, remote, store, Pc
<1>2. CASE RestoreRead(d)
  BY <1>2, ReplacementType DEF TypeOK, RestoreRead, remote, store, Pc, Goal, Conn, Sync,
     ControlAt, NoManifest
<1>3. CASE RestoreRetry(d)
  BY <1>3 DEF TypeOK, RestoreRetry, remote, Pc, Goal, Conn, Sync
<1>4. CASE RestoreMissing(d)
  BY <1>4 DEF TypeOK, RestoreMissing, poisonRemote, remote, store, Pc, Goal, Conn, Sync
<1>5. CASE RestoreClear(d)
  <2>1. lepoch' \in [Device -> Epoch]
    BY <1>5, MailboxAssumption, SMTT(30) DEF TypeOK, RestoreClear, Epoch
  <2>2. cache' \in [Device -> BOOLEAN] /\ sync' \in [Device -> Sync] /\ pc' \in [Device -> Pc]
    BY <1>5 DEF TypeOK, RestoreClear, Sync, Pc
  <2> QED
    BY <1>5, <2>1, <2>2 DEF TypeOK, RestoreClear, remote
<1>6. CASE RestoreFill(d)
  BY <1>6 DEF TypeOK, RestoreFill, remote, Pc, Goal, Conn, Sync, Replacement
<1>7. CASE RestoreSettle(d)
  <2>1. cut[d] \in Replacement /\ NoReplacement \in Replacement
    BY NoReplacementType DEF TypeOK
  <2>2. cut[d].covered \in SUBSET Entry /\ cut[d].epoch \in Epoch
    BY <2>1 DEF Replacement
  <2> QED
    BY <1>7, <2>1, <2>2 DEF TypeOK, RestoreSettle, restoredReceipts, remote, Pc
<1> QED
  BY <1>1, <1>2, <1>3, <1>4, <1>5, <1>6, <1>7 DEF RestoreStep

(* Every step of compact preserves the types. *)
LEMMA CompactStepTypes ==
  ASSUME NEW d \in Device, TypeOK, ControlAt(d), CompactStep(d)
  PROVE  TypeOK'
<1>1. CASE CompactSnapshot(d)
  BY <1>1, MailboxAssumption DEF TypeOK, CompactSnapshot, coveredChangeFiles, store, Pc,
     Goal, Conn, Sync, Snapshot, Epoch, ControlAt, Compacting
<1>2. CASE CompactPointer(d)
  BY <1>2, MailboxAssumption, SMTT(30) DEF TypeOK, CompactPointer, store, Pc, Goal, Conn, Sync,
     Epoch, ControlAt, Compacting
<1>3. CASE CompactLocal(d)
  BY <1>3, MailboxAssumption DEF TypeOK, CompactLocal, remote, Pc, Goal, Conn, Sync,
     Epoch, ControlAt, Compacting
<1>4. CASE CompactDelete(d)
  BY <1>4, MailboxAssumption DEF TypeOK, CompactDelete, deletable, coveredChangeFiles,
     store, engine, Pc, Goal, Conn, Sync
<1>5. CASE CompactPrune(d)
  <2>1. "idle" \in Pc /\ Resume(d, "idle")
    BY <1>5 DEF CompactPrune, Pc
  <2>2. man[d] + 1 = epoch
    BY <1>5 DEF ControlAt, CompactPrune
  <2>3. man' \in [Device -> Epoch \cup {NoManifest}]
    BY <1>5, <2>2 DEF TypeOK, CompactPrune
  <2>4. snaps' \in [Epoch \ {0} -> Snapshot \cup {NoSnapshot}]
    BY <1>5 DEF TypeOK, CompactPrune
  <2> QED
    BY <1>5, <2>1, <2>3, <2>4, ResumeTypes DEF TypeOK, CompactPrune, store
<1> QED
  BY <1>1, <1>2, <1>3, <1>4, <1>5 DEF CompactStep

(* Every stage of doConnect preserves the types. *)
LEMMA ConnectStepTypes ==
  ASSUME NEW d \in Device, TypeOK, ControlAt(d), ConnectStep(d)
  PROVE  TypeOK'
<1>1. CASE ConnectFast(d)
  BY <1>1 DEF TypeOK, ConnectFast, remote, Pc, Goal, Conn, Sync
<1>2. CASE ConnectLoad(d)
  BY <1>2 DEF TypeOK, ConnectLoad, remote, Pc, Goal, Conn, Sync
<1>3. CASE ConnectFence(d)
  <2>1. /\ quarantine' \in [Device -> SUBSET Entry] /\ outbox' \in [Device -> SUBSET Entry]
        /\ pending' \in [Device -> SUBSET Stamp]
    <3>1. CASE sync[d] = "lapsed"
      <4>1. /\ quarantine' = [quarantine EXCEPT ![d] = @ \cup promoted(d)]
            /\ outbox' = [outbox EXCEPT ![d] = {}] /\ pending' = [pending EXCEPT ![d] = {}]
        BY <1>3, <3>1 DEF ConnectFence, quarantineExpired
      <4>2. /\ quarantine \in [Device -> SUBSET Entry] /\ outbox \in [Device -> SUBSET Entry]
            /\ pending \in [Device -> SUBSET Stamp] /\ promoted(d) \in SUBSET Entry
        BY PromotedType DEF TypeOK
      <4> QED
        BY <4>1, <4>2, SMTT(30)
    <3>2. CASE sync[d] # "lapsed"
      BY <1>3, <3>2 DEF TypeOK, ConnectFence
    <3> QED
      BY <3>1, <3>2
  <2>2. conn' \in [Device -> Conn]
    BY <1>3 DEF TypeOK, ConnectFence, fenced, Conn
  <2> QED
    BY <1>3, <2>1, <2>2 DEF TypeOK, ConnectFence, remote
<1>4. CASE ConnectReset(d)
  BY <1>4 DEF TypeOK, ConnectReset, Start, remote, store, Pc, Goal, ConnectGoal, Conn, Sync
<1>5. CASE ConnectRestore(d)
  BY <1>5, PromotedType DEF TypeOK, ConnectRestore, flushAndRehydrateNow, Start,
     flushPendingBatch, remote, Pc, Goal, ConnectGoal, Conn, Sync
<1>6. CASE ConnectPull(d)
  BY <1>6 DEF TypeOK, ConnectPull, Start, remote, store, Pc, Goal, ConnectGoal, Conn, Sync
<1>7. CASE ConnectFlush(d)
  BY <1>7, PromotedType DEF TypeOK, ConnectFlush, Start, flushPendingBatch, remote, Pc,
     Goal, ConnectGoal, Conn, Sync
<1> QED
  BY <1>1, <1>2, <1>3, <1>4, <1>5, <1>6, <1>7 DEF ConnectStep

(* Every call of the application preserves the types. *)
LEMMA AppStepTypes ==
  ASSUME NEW d \in Device, TypeOK, ControlAt(d), AppStep(d)
  PROVE  TypeOK'
<1>1. CASE \E s \in Stamp : Put(d, s)
  BY <1>1, SMTT(30) DEF TypeOK, Put, remote, engine, Pc, Goal, Conn, Sync, Stamp
<1>2. CASE Promote(d)
  BY <1>2, PromotedType DEF TypeOK, Promote, flushPendingBatch, remote, engine, Pc, Goal,
     Conn, Sync
<1>3. CASE \E all \in BOOLEAN : Flush(d, all)
  BY <1>3, PromotedType, SMTT(30) DEF TypeOK, Flush, Start, flushPendingBatch, remote, Pc, Goal,
     Conn, Sync
<1>4. CASE Pull(d)
  BY <1>4 DEF TypeOK, Pull, Start, remote, store, Pc, Goal, Conn, Sync
<1>5. CASE Rehydrate(d)
  BY <1>5, PromotedType DEF TypeOK, Rehydrate, flushAndRehydrateNow, Start,
     flushPendingBatch, remote, Pc, Goal, Conn, Sync
<1>6. CASE Compact(d)
  <2>1. man' \in [Device -> Epoch \cup {NoManifest}] /\ cache' \in [Device -> BOOLEAN]
    BY <1>6 DEF TypeOK, Compact
  <2>2. /\ outbox' \in [Device -> SUBSET Entry] /\ pending' \in [Device -> SUBSET Stamp]
        /\ quarantine' \in [Device -> SUBSET Entry]
    BY <1>6, PromotedType, SMTT(30) DEF TypeOK, Compact, flushPendingBatch, quarantineExpired
  <2>3. pc' \in [Device -> Pc] /\ goal' \in [Device -> Goal]
    BY <1>6 DEF TypeOK, Compact, Start, Pc, Goal
  <2> QED
    BY <1>6, <2>1, <2>2, <2>3 DEF TypeOK, Compact, remote
<1>7. CASE Disconnect(d)
  <2>1. CASE d \in Readers \/ poisoned[d]
    BY <1>7, <2>1 DEF TypeOK, Disconnect, remote, Conn
  <2>2. CASE ~(d \in Readers \/ poisoned[d])
    <3>1. outbox' \in [Device -> SUBSET Entry] /\ pending' \in [Device -> SUBSET Stamp]
      BY <1>7, <2>2, PromotedType DEF TypeOK, Disconnect, flushPendingBatch
    <3>2. pc' \in [Device -> Pc] /\ goal' \in [Device -> Goal]
      BY <1>7, <2>2 DEF TypeOK, Disconnect, Start, Pc, Goal
    <3> QED
      BY <1>7, <2>2, <3>1, <3>2 DEF TypeOK, Disconnect, remote
  <2> QED
    BY <2>1, <2>2
<1> QED
  BY <1>1, <1>2, <1>3, <1>4, <1>5, <1>6, <1>7 DEF AppStep

(* Every fault preserves the types. *)
LEMMA FaultStepTypes ==
  ASSUME NEW d \in Device, TypeOK, ControlAt(d), FaultStep(d)
  PROVE  TypeOK'
<1>1. CASE Crash(d)
  <2>1. cut' \in [Device -> Replacement]
    BY <1>1, NoReplacementType DEF TypeOK, Crash
  <2>2. pc' \in [Device -> Pc] /\ goal' \in [Device -> Goal] /\ conn' \in [Device -> Conn]
    BY <1>1 DEF TypeOK, Crash, Pc, Goal, Conn
  <2>3. faults' \in 0 .. MaxFaults
    BY <1>1, FaultTypes DEF Crash
  <2> QED
    BY <1>1, <2>1, <2>2, <2>3 DEF TypeOK, Crash, remote, store
<1>2. CASE RequestFails(d)
  <2>1. poisoned' \in [Device -> BOOLEAN]
    BY <1>2, Zenon DEF TypeOK, RequestFails
  <2>2. faults' \in 0 .. MaxFaults
    BY <1>2, FaultTypes DEF RequestFails
  <2> QED
    BY <1>2, <2>1, <2>2, ThrowTypes DEF TypeOK, RequestFails, remote, store
<1>3. CASE AccessDenied(d)
  <2>1. poisoned' \in [Device -> BOOLEAN]
    BY <1>3, Zenon DEF TypeOK, AccessDenied
  <2>2. faults' \in 0 .. MaxFaults
    BY <1>3, FaultTypes DEF AccessDenied
  <2> QED
    BY <1>3, <2>1, <2>2, ThrowTypes DEF TypeOK, AccessDenied, remote, store
<1>4. CASE ListFails(d)
  <2>1. afterPull(d) \in Pc /\ Resume(d, afterPull(d))
    BY <1>4 DEF ListFails, afterPull, Pc
  <2>2. sync' \in [Device -> Sync]
    BY <1>4 DEF TypeOK, ListFails, syncAfter, Sync
  <2>3. faults' \in 0 .. MaxFaults
    BY <1>4, FaultTypes DEF ListFails
  <2> QED
    BY <1>4, <2>1, <2>2, <2>3, ResumeTypes DEF TypeOK, ListFails, remote
<1>5. CASE HeadUnreadable(d)
  BY <1>5, MailboxAssumption, SMTT(30) DEF TypeOK, HeadUnreadable, Fault, remote, store, Pc, Goal,
     Conn, Sync
<1>6. CASE FileUnreadable(d)
  <2>1. faults' \in 0 .. MaxFaults
    BY <1>6, FaultTypes DEF FileUnreadable
  <2> QED
    BY <1>6, <2>1 DEF TypeOK, FileUnreadable, poisonRemote, remote, store, Pc, Goal, Conn
<1>7. CASE ConnectFails(d)
  BY <1>7, MailboxAssumption, SMTT(30) DEF TypeOK, ConnectFails, Fault, remote, store, Pc, Goal,
     Conn, Sync
<1>8. CASE ConnectStalls(d)
  BY <1>8, MailboxAssumption, SMTT(30) DEF TypeOK, ConnectStalls, Fault, remote, store, Pc,
     Goal, ConnectGoal, Conn, Sync
<1>9. CASE Lapse(d)
  <2>1. faults' \in 0 .. MaxFaults
    BY <1>9, FaultTypes DEF Lapse
  <2>2. sync' \in [Device -> Sync]
    BY <1>9 DEF TypeOK, Lapse, Sync
  <2> QED
    BY <1>9, <2>1, <2>2 DEF TypeOK, Lapse, remote, engine
<1> QED
  BY <1>1, <1>2, <1>3, <1>4, <1>5, <1>6, <1>7, <1>8, <1>9 DEF FaultStep

-----------------------------------------------------------------------------

(* A step of one device changes nothing IInv says of another one: devices share the remote
   folder only. *)
LEMMA OthersKept ==
  ASSUME NEW d \in Device, TypeOK, AppStep(d) \/ LockStep(d) \/ ConnectStep(d) \/ FaultStep(d),
         NEW c \in Device, c # d
  PROVE  Same(c)
<1> USE DeviceTypes DEF Same
<1>1. CASE FlushStep(d)
  BY <1>1 DEF FlushStep, FlushSkip, Resume, FlushQuarantine, quarantineExpired, FlushRecord,
     PublishFile, store, HeadRead, acknowledgeOutbox, HeadWrite
<1>2. CASE PullStep(d)
  BY <1>2 DEF PullStep, ReaderCheck, PullList, store, PullApply, PullMissing, poisonRemote,
     PullDone, Resume
<1>3. CASE RestoreStep(d)
  <2>1. CASE RestoreNone(d) \/ RestoreRead(d) \/ RestoreRetry(d) \/ RestoreMissing(d)
    BY <2>1 DEF RestoreNone, RestoreRead, RestoreRetry, RestoreMissing, poisonRemote, store
  <2>2. CASE RestoreClear(d)
    BY <2>2 DEF RestoreClear
  <2>3. CASE RestoreFill(d) \/ RestoreSettle(d)
    BY <2>3 DEF RestoreFill, RestoreSettle
  <2> QED
    BY <1>3, <2>1, <2>2, <2>3 DEF RestoreStep
<1>4. CASE CompactStep(d)
  BY <1>4 DEF CompactStep, CompactSnapshot, store, CompactPointer, CompactLocal, CompactDelete,
     engine, CompactPrune, Resume
<1>5. CASE ConnectStep(d)
  BY <1>5 DEF ConnectStep, ConnectFast, ConnectLoad, ConnectFence, quarantineExpired,
     ConnectReset, Start, store, ConnectRestore, flushAndRehydrateNow, flushPendingBatch,
     ConnectPull, ConnectFlush
<1>6. CASE AppStep(d)
  <2>1. CASE Compact(d)
    BY <2>1 DEF Compact, Start, flushPendingBatch, quarantineExpired
  <2>2. CASE Disconnect(d)
    BY <2>2 DEF Disconnect, Start, flushPendingBatch
  <2>3. CASE (\E s \in Stamp : Put(d, s)) \/ Promote(d) \/ Pull(d) \/ Rehydrate(d)
    BY <2>3 DEF Put, engine, Promote, flushPendingBatch, Pull, Start, store, Rehydrate,
       flushAndRehydrateNow
  <2>4. CASE \E all \in BOOLEAN : Flush(d, all)
    BY <2>4 DEF Flush, Start, flushPendingBatch
  <2> QED
    BY <1>6, <2>1, <2>2, <2>3, <2>4 DEF AppStep
<1>7. CASE FaultStep(d)
  BY <1>7 DEF FaultStep, Crash, store, RequestFails, Throw, AccessDenied, ListFails, Resume,
     HeadUnreadable, FileUnreadable, poisonRemote, ConnectFails, ConnectStalls, Lapse, engine
<1> QED
  BY <1>1, <1>2, <1>3, <1>4, <1>5, <1>6, <1>7 DEF LockStep

(* The types the control half of IInv needs. *)
LEMMA ControlTypes ==
  ASSUME TypeOK
  PROVE  /\ pc \in [Device -> Pc] /\ goal \in [Device -> Goal] /\ conn \in [Device -> Conn]
         /\ man \in [Device -> Epoch \cup {NoManifest}]
         /\ epoch # NoManifest
BY MailboxAssumption, SMTT(30) DEF TypeOK, Epoch, NoManifest

(* A flush that ends, or hands over to the next stage of its operation, keeps ControlAt. *)
LEMMA FlushEnds ==
  ASSUME NEW d \in Device, TypeOK, ControlAt(d), Resume(d, afterFlush(d)),
         pc[d] \in {"flush", "publish", "head"}, man'[d] \in {man[d], epoch}, epoch' = epoch
  PROVE  ControlAt(d)'
<1>1. pc'[d] = afterFlush(d) /\ goal'[d] = IF afterFlush(d) = "idle" THEN "none" ELSE goal[d]
  BY ControlTypes DEF Resume
<1>2. conn'[d] \in {"off", conn[d]} \/ goal[d] \in ConnectGoal
  BY ControlTypes DEF Resume, endedConn, connects, ConnectGoal
<1> QED
  BY <1>1, <1>2, ControlTypes DEF ControlAt, Compacting, afterFlush, ConnectGoal

(* So does a pull. *)
LEMMA PullEnds ==
  ASSUME NEW d \in Device, TypeOK, ControlAt(d), Resume(d, afterPull(d)),
         pc[d] \in {"list", "apply"}, man' = man, epoch' = epoch
  PROVE  ControlAt(d)'
<1>1. pc'[d] = afterPull(d) /\ goal'[d] = IF afterPull(d) = "idle" THEN "none" ELSE goal[d]
  BY ControlTypes DEF Resume
<1>2. conn'[d] \in {"off", conn[d]} \/ goal[d] \in ConnectGoal
  BY ControlTypes DEF Resume, endedConn, connects, ConnectGoal
<1> QED
  BY <1>1, <1>2, ControlTypes DEF ControlAt, Compacting, afterPull, ConnectGoal

(* A step of d keeps what ControlAt says of d. *)
LEMMA ControlKept ==
  ASSUME NEW d \in Device, TypeOK, ControlAt(d),
         AppStep(d) \/ LockStep(d) \/ ConnectStep(d) \/ FaultStep(d)
  PROVE  ControlAt(d)'
<1> USE ControlTypes, FlushEnds, PullEnds DEF ControlAt, Compacting
<1>1. CASE FlushStep(d)
  BY <1>1 DEF FlushStep, FlushSkip, ConnectGoal, remote, FlushQuarantine, FlushRecord,
     PublishFile, HeadRead, acknowledgeOutbox, HeadWrite
<1>2. CASE PullStep(d)
  BY <1>2 DEF PullStep, ReaderCheck, readerRestores, remote, PullList, PullApply, PullMissing,
     poisonRemote, PullDone, ConnectGoal
<1>3. CASE RestoreStep(d)
  BY <1>3 DEF RestoreStep, RestoreNone, remote, RestoreRead, RestoreRetry, RestoreMissing,
     poisonRemote, RestoreClear, RestoreFill, RestoreSettle
<1>4. CASE CompactStep(d)
  BY <1>4 DEF CompactStep, CompactSnapshot, CompactPointer, CompactLocal, remote, CompactDelete,
     engine, CompactPrune, ConnectGoal, Resume, endedConn, connects, ConnectGoal
<1>5. CASE ConnectStep(d)
  BY <1>5 DEF ConnectStep, ConnectFast, remote, ConnectLoad, ConnectFence, ConnectReset, Start,
     ConnectRestore, flushAndRehydrateNow, ConnectPull, ConnectFlush
<1>6. CASE AppStep(d)
  <2>1. CASE Compact(d)
    BY <2>1 DEF Compact, Start, remote
  <2>2. CASE Disconnect(d)
    <3>1. man' = man /\ epoch' = epoch
      BY <2>2 DEF Disconnect, remote
    <3>2. CASE UNCHANGED <<pc, goal>>
      <4>1. conn'[d] \in {"off", conn[d]}
        BY <2>2 DEF Disconnect
      <4> QED
        BY <3>1, <3>2, <4>1
    <3>3. CASE Start(d, "disconnect", "flush") /\ conn' = conn
      BY <3>1, <3>3 DEF Start
    <3> QED
      BY <2>2, <3>2, <3>3 DEF Disconnect
  <2>3. CASE Pull(d) \/ Rehydrate(d) \/ \E all \in BOOLEAN : Flush(d, all)
    BY <2>3 DEF Pull, Rehydrate, flushAndRehydrateNow, Flush, Start, remote
  <2>4. CASE Promote(d) \/ \E s \in Stamp : Put(d, s)
    BY <2>4 DEF Promote, Put, remote, engine
  <2> QED
    BY <1>6, <2>1, <2>2, <2>3, <2>4 DEF AppStep
<1>7. CASE FaultStep(d)
  <2>1. CASE RequestFails(d) \/ AccessDenied(d)
    BY <2>1 DEF RequestFails, AccessDenied, Throw, remote
  <2>2. CASE ListFails(d)
    BY <2>2 DEF ListFails, remote
  <2>3. CASE ConnectFails(d) \/ ConnectStalls(d)
    BY <2>3 DEF ConnectFails, ConnectStalls, ConnectGoal, remote
  <2>4. CASE Crash(d) \/ HeadUnreadable(d) \/ FileUnreadable(d) \/ Lapse(d)
    BY <2>4 DEF Crash, HeadUnreadable, FileUnreadable, poisonRemote, Lapse, remote, engine
  <2> QED
    BY <1>7, <2>1, <2>2, <2>3, <2>4 DEF FaultStep
<1> QED
  BY <1>1, <1>2, <1>3, <1>4, <1>5, <1>6, <1>7 DEF LockStep

(* Only moving the manifest pointer changes the epoch, only writing or pruning a snapshot
   changes the snapshots, and only compact() starts a compaction. *)
LEMMA RemoteKept ==
  ASSUME NEW d \in Device, TypeOK, AppStep(d) \/ LockStep(d) \/ ConnectStep(d) \/ FaultStep(d)
  PROVE  /\ epoch' = epoch \/ CompactPointer(d)
         /\ snaps' = snaps \/ CompactSnapshot(d) \/ CompactPrune(d)
         /\ goal'[d] = "compact" => goal[d] = "compact" \/ Compact(d)
<1> USE ControlTypes
<1>1. CASE FlushStep(d)
  BY <1>1 DEF FlushStep, FlushSkip, Resume, remote, FlushQuarantine, FlushRecord, PublishFile,
     HeadRead, acknowledgeOutbox, HeadWrite
<1>2. CASE PullStep(d)
  BY <1>2 DEF PullStep, ReaderCheck, remote, PullList, PullApply, PullMissing, poisonRemote,
     PullDone, Resume
<1>3. CASE RestoreStep(d)
  BY <1>3 DEF RestoreStep, RestoreNone, remote, RestoreRead, RestoreRetry, RestoreMissing,
     poisonRemote, RestoreClear, RestoreFill, RestoreSettle
<1>4. CASE CompactStep(d)
  BY <1>4 DEF CompactStep, CompactSnapshot, CompactPointer, CompactLocal, remote, CompactDelete,
     engine, CompactPrune, Resume
<1>5. CASE ConnectStep(d)
  BY <1>5 DEF ConnectStep, ConnectFast, remote, ConnectLoad, ConnectFence, ConnectReset, Start,
     ConnectRestore, flushAndRehydrateNow, ConnectPull, ConnectFlush
<1>6. CASE AppStep(d)
  BY <1>6 DEF AppStep, Put, remote, engine, Promote, Flush, Start, Pull, Rehydrate,
     flushAndRehydrateNow, Compact, Disconnect
<1>7. CASE FaultStep(d)
  <2>1. CASE ConnectStalls(d)
    BY <2>1 DEF ConnectStalls, ConnectGoal, remote
  <2>2. CASE ListFails(d)
    BY <2>2 DEF ListFails, Resume, remote
  <2>3. CASE RequestFails(d) \/ AccessDenied(d)
    BY <2>3 DEF RequestFails, AccessDenied, Throw, remote
  <2>4. CASE Crash(d) \/ HeadUnreadable(d) \/ FileUnreadable(d) \/ ConnectFails(d) \/ Lapse(d)
    BY <2>4 DEF Crash, HeadUnreadable, FileUnreadable, poisonRemote, ConnectFails, Lapse, remote,
       engine
  <2> QED
    BY <1>7, <2>1, <2>2, <2>3, <2>4 DEF FaultStep
<1> QED
  BY <1>1, <1>2, <1>3, <1>4, <1>5, <1>6, <1>7 DEF LockStep
-----------------------------------------------------------------------------
(* The types the merge half of IInv needs. *)
LEMMA MergedTypes ==
  ASSUME TypeOK
  PROVE  /\ pc \in [Device -> Pc]
         /\ rows \in [Device -> SUBSET Stamp] /\ pending \in [Device -> SUBSET Stamp]
         /\ outbox \in [Device -> SUBSET Entry] /\ seen \in [Device -> SUBSET Entry]
         /\ obs \in [Device -> SUBSET Entry] /\ cut \in [Device -> Replacement]
BY DEF TypeOK

(* The batch a flush promotes holds mutations the device has already merged. *)
LEMMA PromotedApplied ==
  ASSUME NEW d \in Device, MergedAt(d)
  PROVE  Applied(promoted(d), rows[d])
BY DEF MergedAt, Applied, promoted

(* A restore takes the rows and the covered files of the snapshot as they are. *)
LEMMA ReplacementFields ==
  ASSUME NEW d, NEW snapshot, NEW n
  PROVE  /\ replacement(d, snapshot, n).covered = snapshot.covered
         /\ replacement(d, snapshot, n).rows = snapshot.rows
BY DEF replacement

(* No entry needs merging when there is none. *)
LEMMA NothingApplied == \A R : Applied({}, R)
BY DEF Applied

(* A step of d outside a restore keeps what MergedAt says of d. The receipts of a flush are
   recorded for entries that are in the rows already, and a pull persists its receipts after
   the rows of each file. *)
LEMMA MergedKept ==
  ASSUME NEW d \in Device, TypeOK, MergedAt(d),
         \/ AppStep(d) \/ FlushStep(d) \/ PullStep(d) \/ CompactStep(d) \/ ConnectStep(d)
         \/ FaultStep(d)
  PROVE  MergedAt(d)'
<1> USE MergedTypes DEF MergedAt
<1>1. CASE FlushStep(d)
  <2>1. CASE FlushSkip(d) \/ FlushQuarantine(d) \/ HeadRead(d) \/ HeadWrite(d)
    <3>1. pc'[d] \notin {"apply", "fill", "settle"}
      BY <2>1 DEF FlushSkip, FlushQuarantine, HeadRead, HeadWrite, acknowledgeOutbox, Resume,
         afterFlush
    <3>2. outbox'[d] \in {{}, outbox[d]} /\ pending'[d] \in {{}, pending[d]}
      BY <2>1 DEF FlushSkip, FlushQuarantine, quarantineExpired, HeadRead, HeadWrite,
         acknowledgeOutbox
    <3>3. UNCHANGED <<rows, seen, cut>>
      BY <2>1 DEF FlushSkip, FlushQuarantine, HeadRead, HeadWrite
    <3> QED
      BY <3>1, <3>2, <3>3, NothingApplied
  <2>2. CASE FlushRecord(d)
    BY <2>2 DEF FlushRecord, Applied
  <2>3. CASE PublishFile(d)
    BY <2>3 DEF PublishFile, store
  <2> QED
    BY <1>1, <2>1, <2>2, <2>3 DEF FlushStep
<1>2. CASE PullStep(d)
  <2>1. CASE ReaderCheck(d) \/ PullMissing(d)
    BY <2>1 DEF ReaderCheck, PullMissing, poisonRemote, store
  <2>4. CASE PullList(d)
    BY <2>4, NothingApplied DEF PullList, store
  <2>2. CASE PullApply(d)
    <3>1. PICK e \in todo[d] : /\ rows' = [rows EXCEPT ![d] = @ \cup e]
                               /\ obs' = [obs EXCEPT ![d] = @ \cup {e}]
      BY <2>2 DEF PullApply
    <3>2. rows'[d] = rows[d] \cup e /\ obs'[d] = obs[d] \cup {e}
      BY <3>1
    <3>3. UNCHANGED <<seen, outbox, pending, cut, pc>> /\ pc[d] = "apply"
      BY <2>2 DEF PullApply
    <3> QED
      BY <3>2, <3>3 DEF Applied
  <2>3. CASE PullDone(d)
    <3>1. pc'[d] \notin {"apply", "fill", "settle"}
      BY <2>3 DEF PullDone, Resume, afterPull
    <3>2. UNCHANGED <<rows, outbox, pending, cut>> /\ seen'[d] = seen[d] \cup obs[d]
      BY <2>3 DEF PullDone
    <3>3. Applied(seen'[d], rows[d])
      BY <2>3, <3>2 DEF PullDone, Applied
    <3> QED
      BY <3>1, <3>2, <3>3
  <2> QED
    BY <1>2, <2>1, <2>2, <2>3, <2>4 DEF PullStep
<1>3. CASE CompactStep(d)
  BY <1>3 DEF CompactStep, CompactSnapshot, store, CompactPointer, CompactLocal, CompactDelete,
     engine, CompactPrune, Resume
<1>4. CASE ConnectStep(d)
  <2>1. CASE ConnectFast(d) \/ ConnectLoad(d) \/ ConnectReset(d) \/ ConnectPull(d)
    BY <2>1 DEF ConnectFast, ConnectLoad, ConnectReset, ConnectPull, Start, store
  <2>2. CASE ConnectFence(d)
    BY <2>2, NothingApplied DEF ConnectFence, quarantineExpired
  <2>3. CASE ConnectRestore(d) \/ ConnectFlush(d)
    BY <2>3, PromotedApplied DEF ConnectRestore, ConnectFlush, flushAndRehydrateNow,
       flushPendingBatch, Start
  <2> QED
    BY <1>4, <2>1, <2>2, <2>3 DEF ConnectStep
<1>5. CASE AppStep(d)
  <2>1. CASE \E s \in Stamp : Put(d, s)
    <3>1. PICK s \in Stamp : Put(d, s)
      BY <2>1
    <3>2. rows'[d] = rows[d] \cup {s} /\ pending'[d] = pending[d] \cup {s}
      BY <3>1 DEF Put
    <3>3. UNCHANGED <<seen, outbox, obs, cut, pc>> /\ pc[d] = "idle"
      BY <3>1 DEF Put, engine
    <3> QED
      BY <3>2, <3>3 DEF Applied
  <2>2. CASE \/ Promote(d) \/ \E all \in BOOLEAN : Flush(d, all)
             \/ Rehydrate(d) \/ Compact(d) \/ Disconnect(d)
    <3>1. pc'[d] \notin {"apply", "fill", "settle"}
      BY <2>2 DEF Promote, engine, Flush, Rehydrate, flushAndRehydrateNow, Compact, Disconnect,
         Start
    <3>2. /\ outbox'[d] \in {{}, outbox[d], promoted(d)}
          /\ pending'[d] \in {{}, pending[d]}
      BY <2>2 DEF Promote, Flush, Rehydrate, flushAndRehydrateNow, Compact, Disconnect,
         flushPendingBatch, quarantineExpired
    <3>3. UNCHANGED <<rows, seen, cut>>
      BY <2>2 DEF Promote, engine, Flush, Rehydrate, Compact, Disconnect
    <3> QED
      BY <3>1, <3>2, <3>3, NothingApplied, PromotedApplied
  <2>3. CASE Pull(d)
    BY <2>3 DEF Pull, Start, store
  <2> QED
    BY <1>5, <2>1, <2>2, <2>3 DEF AppStep
<1>6. CASE FaultStep(d)
  <2>1. CASE Crash(d)
    BY <2>1, NothingApplied DEF Crash, store, NoReplacement
  <2>2. CASE ListFails(d)
    <3>1. pc'[d] \notin {"apply", "fill", "settle"}
      BY <2>2 DEF ListFails, Resume, afterPull
    <3> QED
      BY <2>2, <3>1 DEF ListFails
  <2>3. CASE RequestFails(d) \/ AccessDenied(d) \/ FileUnreadable(d)
    BY <2>3 DEF RequestFails, AccessDenied, Throw, FileUnreadable, poisonRemote, store
  <2>4. CASE HeadUnreadable(d) \/ ConnectFails(d) \/ ConnectStalls(d) \/ Lapse(d)
    BY <2>4 DEF HeadUnreadable, ConnectFails, ConnectStalls, Lapse, store, engine
  <2> QED
    BY <1>6, <2>1, <2>2, <2>3, <2>4 DEF FaultStep
<1> QED
  BY <1>1, <1>2, <1>3, <1>4, <1>5, <1>6

(* A restore keeps MergedAt: it clears the receipts together with the rows, fills the rows of
   the snapshot before it settles the receipts, and by Covered the snapshot holds what those
   receipts claim. *)
LEMMA RestoreStepMerged ==
  ASSUME NEW d \in Device, IInv, RestoreStep(d)
  PROVE  MergedAt(d)'
<1> USE MergedTypes DEF IInv, MergedAt
<1>1. CASE RestoreNone(d)
  <2>1. cut'[d] = cut[d] \/ cut'[d] = replacement(d, [rows |-> {}, covered |-> {}], 0)
    BY <1>1 DEF RestoreNone
  <2>a. ASSUME cut'[d] = replacement(d, [rows |-> {}, covered |-> {}], 0)
        PROVE  cut'[d].covered = {}
    BY ONLY <2>a, ReplacementFields
  <2>2. Applied(cut'[d].covered, cut'[d].rows)
    BY <2>1, <2>a, NothingApplied
  <2>3. pc'[d] \in {"clear", "list"}
    BY <1>1 DEF RestoreNone
  <2> QED
    BY <1>1, <2>2, <2>3 DEF RestoreNone, store
<1>2. CASE RestoreRead(d)
  <2>1. man[d] \in Epoch \ {0}
    BY <1>2, ControlTypes DEF RestoreRead, ControlAt
  <2>2. snaps[man[d]] \in Snapshot
    BY <1>2, <2>1 DEF RestoreRead, TypeOK
  <2>3. Applied(snaps[man[d]].covered, snaps[man[d]].rows)
    BY <2>1, <2>2 DEF Covered
  <2>4. cut'[d] = replacement(d, snaps[man[d]], man[d]) /\ pc'[d] = "clear"
    BY <1>2 DEF RestoreRead
  <2>a. cut'[d].covered = snaps[man[d]].covered /\ cut'[d].rows = snaps[man[d]].rows
    BY ONLY <2>4, ReplacementFields
  <2>5. Applied(cut'[d].covered, cut'[d].rows)
    BY <2>3, <2>a
  <2> QED
    BY <1>2, <2>4, <2>5 DEF RestoreRead, store
<1>3. CASE RestoreRetry(d)
  BY <1>3 DEF RestoreRetry
<1>4. CASE RestoreMissing(d)
  BY <1>4 DEF RestoreMissing, poisonRemote, store
<1>5. CASE RestoreClear(d)
  BY <1>5 DEF RestoreClear, Applied
<1>6. CASE RestoreFill(d)
  BY <1>6 DEF RestoreFill, Replacement, Applied
<1>7. CASE RestoreSettle(d)
  BY <1>7 DEF RestoreSettle, restoredReceipts, NoReplacement, Replacement, Applied
<1> QED
  BY <1>1, <1>2, <1>3, <1>4, <1>5, <1>6, <1>7 DEF RestoreStep

-----------------------------------------------------------------------------
(* Every step of every device preserves IInv. *)
LEMMA StepInv ==
  ASSUME IInv, NEW d \in Device, AppStep(d) \/ LockStep(d) \/ ConnectStep(d) \/ FaultStep(d)
  PROVE  IInv'
<1>1. TypeOK /\ OneCompacts /\ Covered /\ \A c \in Device : ControlAt(c) /\ MergedAt(c)
  BY DEF IInv
<1>2. TypeOK'
  BY <1>1, FlushStepTypes, PullStepTypes, RestoreStepTypes, CompactStepTypes, ConnectStepTypes,
     AppStepTypes, FaultStepTypes DEF LockStep
<1>3. ControlAt(d)'
  BY <1>1, ControlKept
<1>4. MergedAt(d)'
  BY <1>1, MergedKept, RestoreStepMerged DEF LockStep
<1>5. \A c \in Device : c # d => Same(c)
  BY <1>1, OthersKept
<1>6. /\ epoch' = epoch \/ CompactPointer(d)
      /\ snaps' = snaps \/ CompactSnapshot(d) \/ CompactPrune(d)
      /\ goal'[d] = "compact" => goal[d] = "compact" \/ Compact(d)
  BY <1>1, RemoteKept
<1>7. OneCompacts'
  <2>1. Compact(d) => \A c \in Device : goal[c] # "compact"
    BY DEF Compact
  <2>2. \A c \in Device : c # d => goal'[c] = goal[c]
    BY <1>5 DEF Same
  <2> QED
    BY <1>1, <1>6, <2>1, <2>2 DEF OneCompacts
<1>8. ASSUME NEW c \in Device, c # d
      PROVE  ControlAt(c)' /\ MergedAt(c)'
  <2>1. Same(c) /\ ControlAt(c) /\ MergedAt(c)
    BY <1>1, <1>5, <1>8
  <2>2. MergedAt(c)'
    BY <2>1 DEF MergedAt, Same
  <2>3. CASE epoch' = epoch
    BY <2>1, <2>3, <2>2 DEF ControlAt, Same
  <2>4. CASE CompactPointer(d)
    <3>1. goal[d] = "compact"
      BY <1>1, <2>4 DEF ControlAt, CompactPointer, Compacting
    <3>2. goal[c] # "compact"
      BY <1>1, <1>8, <3>1 DEF OneCompacts
    <3> QED
      BY <2>1, <2>2, <3>2 DEF ControlAt, Same, Compacting
  <2> QED
    BY <1>6, <2>3, <2>4
<1>9. Covered'
  <2>1. CASE snaps' = snaps
    BY <1>1, <2>1 DEF Covered
  <2>2. CASE CompactSnapshot(d)
    <3>1. Applied(seen[d], rows[d])
      BY <1>1 DEF MergedAt
    <3>2. snaps' = [snaps EXCEPT ![man[d] + 1] = [rows |-> rows[d], covered |-> seen[d]]]
      BY <2>2 DEF CompactSnapshot, coveredChangeFiles
    <3>3. snaps \in [Epoch \ {0} -> Snapshot \cup {NoSnapshot}]
      BY <1>1 DEF TypeOK
    <3> QED
      BY <1>1, <3>1, <3>2, <3>3 DEF Covered
  <2>3. CASE CompactPrune(d)
    <3>1. \A n \in DOMAIN snaps : snaps'[n] \in {snaps[n], NoSnapshot}
      BY <2>3 DEF CompactPrune
    <3>2. NoSnapshot \notin Snapshot
      BY DEF NoSnapshot, Snapshot, Entry
    <3>3. DOMAIN snaps = Epoch \ {0}
      BY <1>1 DEF TypeOK
    <3>4. ASSUME NEW n \in Epoch \ {0}, snaps'[n] \in Snapshot
          PROVE  Applied(snaps'[n].covered, snaps'[n].rows)
      <4>1. snaps'[n] = snaps[n]
        BY <3>1, <3>2, <3>3, <3>4
      <4> QED
        BY <1>1, <3>4, <4>1 DEF Covered
    <3> QED
      BY <3>4 DEF Covered
  <2> QED
    BY <1>6, <2>1, <2>2, <2>3
<1> QED
  BY <1>2, <1>3, <1>4, <1>7, <1>8, <1>9 DEF IInv

(* IInv holds initially. *)
LEMMA InitInv == Init => IInv
<1> SUFFICES ASSUME Init PROVE IInv
  OBVIOUS
<1>1. TypeOK
  <2>1. 0 \in Epoch /\ 0 \in 0 .. MaxStamp /\ 0 \in 0 .. MaxFaults
    BY MailboxAssumption, SMTT(30) DEF Epoch
  <2>2. "never" \in Sync /\ "idle" \in Pc /\ "none" \in Goal /\ "off" \in Conn
    BY DEF Sync, Pc, Goal, Conn
  <2>3. NoReplacement \in Replacement
    BY <2>1, <2>2 DEF NoReplacement, Replacement
  <2> QED
    BY <2>1, <2>2, <2>3 DEF Init, TypeOK
<1>2. OneCompacts /\ Covered
  BY DEF Init, OneCompacts, Covered, NoSnapshot, Snapshot, Entry
<1>3. \A d \in Device : ControlAt(d)
  BY MailboxAssumption DEF Init, ControlAt, Compacting, Epoch, NoManifest
<1>4. \A d \in Device : MergedAt(d)
  BY DEF Init, MergedAt, Applied, NoReplacement
<1> QED
  BY <1>1, <1>2, <1>3, <1>4 DEF IInv

(* IInv is preserved by the next-state relation. *)
LEMMA NextInv == IInv /\ [Next]_vars => IInv'
<1>1. ASSUME IInv, Next PROVE IInv'
  BY <1>1, StepInv DEF Next
<1>2. ASSUME IInv, UNCHANGED vars PROVE IInv'
  <2>1. IInv
    BY <1>2
  <2> QED
    BY <1>2, <2>1 DEF vars, remote, store, engine, IInv, TypeOK, OneCompacts, Covered, ControlAt,
       MergedAt
<1> QED
  BY <1>1, <1>2

(* IInv holds in every reachable state. *)
LEMMA InvHolds == Spec => []IInv
BY InitInv, NextInv, PTL DEF Spec

(* Every reachable state of the mailbox is well typed: in particular a device that restores
   always has a manifest, and the snapshot a compactor writes lies one epoch after the
   current one. *)
THEOREM TypeCorrect == Spec => []TypeOK
<1>1. IInv => TypeOK
  BY DEF IInv
<1> QED
  BY <1>1, InvHolds, PTL

(* A device never holds a receipt for a change file (change-observation.ts) whose mutations
   are not in its rows, whatever crashes, failed requests, lapses and restores happen: a
   receipt is what makes a pull skip a file for good, so a false one would lose its mutations
   silently. *)
THEOREM ReceiptsAreApplied == Spec => []ReceiptsApplied
<1>1. IInv => ReceiptsApplied
  <2> SUFFICES ASSUME IInv, NEW d \in Device PROVE UNION seen[d] \subseteq rows[d]
    BY DEF ReceiptsApplied
  <2>1. \A e \in seen[d] : e \subseteq rows[d]
    BY DEF IInv, MergedAt, Applied
  <2> QED
    BY <2>1
<1> QED
  BY <1>1, InvHolds, PTL

(* A snapshot holds the mutations of every change file it lists as covered (compaction.ts),
   so the files compact() deletes on its account are not lost. *)
THEOREM SnapshotsCoverTheirFiles == Spec => []SnapshotsCover
<1>1. IInv => SnapshotsCover
  <2> SUFFICES ASSUME IInv, NEW n \in DOMAIN snaps, snaps[n] # NoSnapshot
               PROVE  UNION snaps[n].covered \subseteq snaps[n].rows
    BY DEF SnapshotsCover
  <2>1. n \in Epoch \ {0} /\ snaps[n] \in Snapshot
    BY DEF IInv, TypeOK
  <2>2. \A e \in snaps[n].covered : e \subseteq snaps[n].rows
    BY <2>1 DEF IInv, Covered, Applied
  <2> QED
    BY <2>2
<1> QED
  BY <1>1, InvHolds, PTL

-----------------------------------------------------------------------------
(* The epochs *)

(* A step of one device, as Next composes it. *)
Steps(d) == AppStep(d) \/ LockStep(d) \/ ConnectStep(d) \/ FaultStep(d)

(* The rest of the state of device c does not change. *)
SameRest(c) ==
  /\ lepoch'[c] = lepoch[c] /\ sync'[c] = sync[c] /\ quarantine'[c] = quarantine[c]
  /\ todo'[c] = todo[c]

(* The types of the variables that SameRest names. *)
LEMMA RestTypes ==
  ASSUME TypeOK
  PROVE  /\ lepoch \in [Device -> Epoch] /\ sync \in [Device -> Sync]
         /\ quarantine \in [Device -> SUBSET Entry] /\ todo \in [Device -> SUBSET Entry]
BY DEF TypeOK

(* A step of one device changes nothing of another one. *)
LEMMA OthersRest ==
  ASSUME NEW d \in Device, TypeOK, Steps(d), NEW c \in Device, c # d
  PROVE  SameRest(c)
<1> USE RestTypes DEF SameRest
<1>1. CASE FlushStep(d)
  BY <1>1 DEF FlushStep, FlushSkip, FlushQuarantine, quarantineExpired, FlushRecord,
     PublishFile, store, HeadRead, acknowledgeOutbox, HeadWrite
<1>2. CASE PullStep(d)
  BY <1>2 DEF PullStep, ReaderCheck, PullList, store, PullApply, PullMissing, poisonRemote,
     PullDone
<1>3. CASE RestoreStep(d)
  BY <1>3 DEF RestoreStep, RestoreNone, RestoreRead, RestoreRetry, RestoreMissing, poisonRemote,
     store, RestoreClear, RestoreFill, RestoreSettle
<1>4. CASE CompactStep(d)
  BY <1>4 DEF CompactStep, CompactSnapshot, store, CompactPointer, CompactLocal, CompactDelete,
     engine, CompactPrune
<1>5. CASE ConnectStep(d)
  BY <1>5 DEF ConnectStep, ConnectFast, ConnectLoad, ConnectFence, quarantineExpired,
     ConnectReset, store, ConnectRestore, ConnectPull, ConnectFlush
<1>6. CASE AppStep(d)
  <2>1. CASE Compact(d) \/ Disconnect(d)
    BY <2>1 DEF Compact, quarantineExpired, Disconnect
  <2>2. CASE (\E s \in Stamp : Put(d, s)) \/ Promote(d) \/ Pull(d) \/ Rehydrate(d)
    BY <2>2 DEF Put, engine, Promote, Pull, store, Rehydrate
  <2>3. CASE \E all \in BOOLEAN : Flush(d, all)
    BY <2>3 DEF Flush
  <2> QED
    BY <1>6, <2>1, <2>2, <2>3 DEF AppStep
<1>7. CASE FaultStep(d)
  BY <1>7 DEF FaultStep, Crash, store, RequestFails, Throw, AccessDenied, ListFails,
     HeadUnreadable, FileUnreadable, poisonRemote, ConnectFails, ConnectStalls, Lapse, engine
<1> QED
  BY <1>1, <1>2, <1>3, <1>4, <1>5, <1>6, <1>7 DEF Steps, LockStep

(* Only a flush adds a change file, only a compaction deletes one. *)
LEMMA FilesKept ==
  ASSUME NEW d \in Device, Steps(d)
  PROVE  files' = files \/ PublishFile(d) \/ CompactDelete(d)
<1>1. CASE FlushStep(d)
  BY <1>1 DEF FlushStep, FlushSkip, remote, FlushQuarantine, FlushRecord, HeadRead, HeadWrite
<1>2. CASE PullStep(d)
  BY <1>2 DEF PullStep, ReaderCheck, remote, PullList, PullApply, PullMissing, PullDone
<1>3. CASE RestoreStep(d)
  BY <1>3 DEF RestoreStep, RestoreNone, remote, RestoreRead, RestoreRetry, RestoreMissing,
     RestoreClear, RestoreFill, RestoreSettle
<1>4. CASE CompactStep(d)
  BY <1>4 DEF CompactStep, CompactSnapshot, CompactPointer, CompactLocal, remote, CompactPrune
<1>5. CASE ConnectStep(d)
  BY <1>5 DEF ConnectStep, ConnectFast, remote, ConnectLoad, ConnectFence, ConnectReset,
     ConnectRestore, ConnectPull, ConnectFlush
<1>6. CASE AppStep(d)
  BY <1>6 DEF AppStep, Put, remote, Promote, Flush, Pull, Rehydrate, Compact, Disconnect
<1>7. CASE FaultStep(d)
  BY <1>7 DEF FaultStep, Crash, remote, RequestFails, AccessDenied, ListFails, HeadUnreadable,
     FileUnreadable, ConnectFails, ConnectStalls, Lapse
<1> QED
  BY <1>1, <1>2, <1>3, <1>4, <1>5, <1>6, <1>7 DEF Steps, LockStep
-----------------------------------------------------------------------------
(* The rows R hold the snapshot of epoch n, as long as that snapshot exists. *)
Restored(n, R) == n # 0 /\ snaps[n] # NoSnapshot => snaps[n].rows \subseteq R

(* What the epochs that device d knows say about its rows. None is ahead of the remote. The
   rows hold the snapshot of the local epoch; a restore gives the epoch up together with the
   rows and takes the new one last. Between its snapshot and its own epoch, a compaction holds
   exactly what it wrote. *)
EpochAt(d) ==
  /\ lepoch[d] <= epoch /\ cut[d].epoch <= epoch
  /\ man[d] # NoManifest => man[d] <= epoch
  /\ pc[d] \notin {"fill", "settle"} => Restored(lepoch[d], rows[d])
  /\ pc[d] \in {"clear", "fill", "settle"} => Restored(cut[d].epoch, cut[d].rows)
  /\ pc[d] = "settle" => rows[d] = cut[d].rows
  /\ pc[d] \in {"fill", "settle"} => lepoch[d] = 0
  /\ pc[d] \in {"pointer", "local", "delete"}
       => snaps[man[d] + 1] = [rows |-> rows[d], covered |-> seen[d]]

(* IInv with the epochs. *)
EInv == IInv /\ \A d \in Device : EpochAt(d)

(* Epochs are ordered as natural numbers are. *)
LEMMA EpochOrder ==
  \A x, y, z \in Nat : 0 <= x /\ x <= x /\ x <= x + 1 /\ (x <= y /\ y <= z => x <= z)
BY SMTT(30)

(* The types EpochAt needs. *)
LEMMA EpochTypes ==
  ASSUME TypeOK
  PROVE  /\ epoch \in Nat /\ epoch <= MaxEpoch /\ lepoch \in [Device -> Epoch]
         /\ pc \in [Device -> Pc] /\ rows \in [Device -> SUBSET Stamp]
         /\ seen \in [Device -> SUBSET Entry]
         /\ cut \in [Device -> Replacement] /\ man \in [Device -> Epoch \cup {NoManifest}]
         /\ snaps \in [Epoch \ {0} -> Snapshot \cup {NoSnapshot}]
         /\ Epoch \subseteq Nat /\ NoManifest \in Nat /\ 0 \in Epoch /\ MaxEpoch \in Nat
BY MailboxAssumption, SMTT(30) DEF TypeOK, Epoch, NoManifest

(* The epoch of the remote only grows, and a snapshot that exists is pruned or stays as it
   is: a compaction writes the one after the current epoch. *)
LEMMA SnapsKept ==
  ASSUME NEW d \in Device, IInv, Steps(d)
  PROVE  /\ epoch <= epoch'
         /\ \A n \in Epoch \ {0} : n <= epoch => snaps'[n] \in {snaps[n], NoSnapshot}
<1> USE EpochTypes
<1>1. TypeOK /\ ControlAt(d)
  BY DEF IInv
<1>2. /\ epoch' = epoch \/ CompactPointer(d)
      /\ snaps' = snaps \/ CompactSnapshot(d) \/ CompactPrune(d)
  BY <1>1, RemoteKept DEF Steps
<1>3. CompactPointer(d) => epoch' = epoch + 1
  BY <1>1 DEF CompactPointer, ControlAt, Compacting
<1>4. ASSUME CompactSnapshot(d), NEW n \in Epoch \ {0}, n <= epoch PROVE snaps'[n] = snaps[n]
  <2>1. man[d] = epoch /\ n # man[d] + 1
    BY <1>1, <1>4, SMTT(30) DEF CompactSnapshot, ControlAt, Compacting
  <2> QED
    BY <1>1, <1>4, <2>1 DEF CompactSnapshot
<1>5. ASSUME CompactPrune(d), NEW n \in Epoch \ {0} PROVE snaps'[n] \in {snaps[n], NoSnapshot}
  BY <1>1, <1>5 DEF CompactPrune
<1>6. epoch <= epoch'
  BY <1>1, <1>2, <1>3, EpochOrder
<1> QED
  BY <1>2, <1>4, <1>5, <1>6

(* A step that neither takes rows away nor touches an epoch or the replacement of a restore. *)
Plain(d) ==
  /\ lepoch'[d] = lepoch[d] /\ cut'[d] = cut[d] /\ rows[d] \subseteq rows'[d]
  /\ man'[d] \in {man[d], epoch}
  /\ \/ pc'[d] \notin {"clear", "fill", "settle", "pointer", "local", "delete"}
     \/ /\ pc'[d] = pc[d] /\ rows'[d] = rows[d] /\ man'[d] = man[d] /\ seen'[d] = seen[d]
        /\ snaps' = snaps

(* Most steps are of that kind. *)
LEMMA PlainSteps ==
  ASSUME NEW d \in Device, TypeOK,
         \/ AppStep(d) \/ FlushStep(d) \/ PullStep(d) \/ ConnectStep(d)
         \/ FaultStep(d) /\ ~Crash(d)
         \/ RestoreRetry(d) \/ RestoreMissing(d) \/ CompactDelete(d)
         \/ RestoreNone(d) /\ pc'[d] = "list"
  PROVE  Plain(d)
<1> USE EpochTypes DEF Plain
<1>1. CASE FlushStep(d)
  BY <1>1 DEF FlushStep, FlushSkip, Resume, afterFlush, remote, FlushQuarantine, FlushRecord,
     PublishFile, store, HeadRead, acknowledgeOutbox, HeadWrite
<1>2. CASE PullStep(d)
  <2>1. CASE ReaderCheck(d) \/ PullList(d) \/ PullMissing(d)
    BY <2>1 DEF ReaderCheck, PullList, store, PullMissing, poisonRemote
  <2>2. CASE PullApply(d)
    BY <2>2 DEF PullApply
  <2>3. CASE PullDone(d)
    BY <2>3 DEF PullDone, Resume, afterPull
  <2> QED
    BY <1>2, <2>1, <2>2, <2>3 DEF PullStep
<1>3. CASE \/ RestoreRetry(d) \/ RestoreMissing(d) \/ CompactDelete(d)
           \/ RestoreNone(d) /\ pc'[d] = "list"
  BY <1>3 DEF RestoreRetry, RestoreMissing, poisonRemote, store, CompactDelete, engine,
     RestoreNone
<1>4. CASE ConnectStep(d)
  BY <1>4 DEF ConnectStep, ConnectFast, remote, ConnectLoad, ConnectFence, ConnectReset, Start,
     ConnectRestore, flushAndRehydrateNow, ConnectPull, ConnectFlush, store
<1>5. CASE AppStep(d)
  <2>1. CASE Compact(d) \/ Disconnect(d)
    BY <2>1 DEF Compact, Start, remote, Disconnect
  <2>2. CASE Pull(d) \/ Rehydrate(d) \/ \E all \in BOOLEAN : Flush(d, all)
    BY <2>2 DEF Pull, Rehydrate, flushAndRehydrateNow, Flush, Start, store
  <2>3. CASE Promote(d) \/ \E s \in Stamp : Put(d, s)
    <3>1. CASE Promote(d)
      BY <3>1 DEF Promote, engine, remote
    <3>2. ASSUME NEW s \in Stamp, Put(d, s) PROVE Plain(d)
      BY <3>2 DEF Put, engine, remote
    <3> QED
      BY <2>3, <3>1, <3>2
  <2> QED
    BY <1>5, <2>1, <2>2, <2>3 DEF AppStep
<1>6. CASE FaultStep(d) /\ ~Crash(d)
  <2>1. CASE RequestFails(d) \/ AccessDenied(d) \/ ListFails(d)
    BY <2>1 DEF RequestFails, AccessDenied, Throw, ListFails, Resume, afterPull, store
  <2>2. CASE \/ ConnectFails(d) \/ ConnectStalls(d) \/ HeadUnreadable(d)
             \/ FileUnreadable(d) \/ Lapse(d)
    BY <2>2 DEF ConnectFails, ConnectStalls, HeadUnreadable, FileUnreadable, poisonRemote, Lapse,
       remote, store, engine
  <2> QED
    BY <1>6, <2>1, <2>2 DEF FaultStep
<1> QED
  BY <1>1, <1>2, <1>3, <1>4, <1>5, <1>6

(* A step of d keeps what EpochAt says of d. *)
LEMMA EpochKept ==
  ASSUME NEW d \in Device, EInv, Steps(d)
  PROVE  EpochAt(d)'
<1> USE EpochTypes
<1>1. TypeOK /\ ControlAt(d) /\ EpochAt(d) /\ IInv
  BY DEF EInv, IInv
<1>2. /\ epoch' \in Nat /\ epoch <= epoch'
      /\ \A n \in Epoch \ {0} : n <= epoch => snaps'[n] \in {snaps[n], NoSnapshot}
  <2>1. IInv'
    BY <1>1, StepInv DEF Steps
  <2> QED
    BY <1>1, <2>1, SnapsKept, EpochTypes DEF IInv, TypeOK, Epoch
<1>3. ASSUME NEW n \in Epoch, n <= epoch, NEW R, NEW S, Restored(n, R), R \subseteq S
      PROVE  n # 0 /\ snaps'[n] # NoSnapshot => snaps'[n].rows \subseteq S
  BY <1>2, <1>3 DEF Restored
<1>4. cut[d].epoch \in Epoch /\ cut[d].rows \in SUBSET Stamp
  BY <1>1 DEF Replacement
<1>0. /\ lepoch[d] \in Nat /\ cut[d].epoch \in Nat /\ man[d] \in Nat /\ epoch \in Nat
      /\ lepoch[d] <= epoch /\ cut[d].epoch <= epoch /\ (man[d] # NoManifest => man[d] <= epoch)
  BY <1>1, <1>4 DEF EpochAt
<1>5. CASE Plain(d)
  <2>1. /\ lepoch'[d] <= epoch' /\ cut'[d].epoch <= epoch'
        /\ man'[d] # NoManifest => man'[d] <= epoch'
    <3>1. lepoch'[d] = lepoch[d] /\ cut'[d] = cut[d] /\ man'[d] \in {man[d], epoch}
      BY <1>5 DEF Plain
    <3> QED
      BY <1>0, <1>2, <3>1, EpochOrder
  <2>2. ASSUME pc'[d] \notin {"fill", "settle"}
        PROVE  Restored(lepoch[d], rows[d])'
    <3>1. Restored(lepoch[d], rows[d])
      BY <1>1 DEF EpochAt, Restored
    <3>2. lepoch[d] \in Epoch /\ lepoch[d] <= epoch
      BY <1>1 DEF EpochAt
    <3> QED
      BY <1>3, <1>5, <3>1, <3>2 DEF Plain, Restored
  <2>3. pc'[d] \in {"clear", "fill", "settle", "pointer", "local", "delete"}
          => /\ pc'[d] = pc[d] /\ rows'[d] = rows[d] /\ man'[d] = man[d] /\ seen'[d] = seen[d]
             /\ snaps' = snaps
    BY <1>5 DEF Plain
  <2>4. ASSUME pc'[d] \in {"clear", "fill", "settle"}
        PROVE  Restored(cut[d].epoch, cut[d].rows)'
    <3>1. Restored(cut[d].epoch, cut[d].rows) /\ snaps' = snaps
      BY <1>1, <2>3, <2>4 DEF EpochAt
    <3> QED
      BY <1>5, <3>1 DEF Plain, Restored
  <2> QED
    BY <1>1, <1>5, <2>1, <2>2, <2>3, <2>4 DEF Plain, EpochAt
<1>6. CASE RestoreStep(d) /\ ~Plain(d)
  <2>0. snaps' = snaps /\ epoch' = epoch /\ man' = man
    BY <1>1, <1>6, PlainSteps DEF RestoreStep, RestoreNone, remote, RestoreRead, RestoreClear,
       RestoreFill, RestoreSettle
  <2>1. CASE RestoreNone(d) /\ pc'[d] # "list"
    <3>1. /\ cut'[d] = replacement(d, [rows |-> {}, covered |-> {}], 0) /\ pc'[d] = "clear"
          /\ lepoch' = lepoch /\ rows' = rows /\ pc[d] = "restore"
      BY <1>1, <2>1 DEF RestoreNone, store
    <3>2. cut'[d].epoch = 0
      BY <3>1, SMTT(30) DEF replacement
    <3>3. Restored(lepoch[d], rows[d])' /\ Restored(cut[d].epoch, cut[d].rows)'
      BY <1>1, <2>0, <3>1, <3>2 DEF EpochAt, Restored
    <3> QED
      BY <1>0, <2>0, <3>1, <3>2, <3>3, EpochOrder DEF EpochAt
  <2>2. CASE RestoreRead(d)
    <3>1. /\ cut'[d] = replacement(d, snaps[man[d]], man[d]) /\ pc'[d] = "clear"
          /\ lepoch' = lepoch /\ rows' = rows /\ pc[d] \in {"restore", "retry"}
      BY <1>1, <2>2 DEF RestoreRead, store
    <3>2. cut'[d].epoch = man[d] /\ cut'[d].rows = snaps[man[d]].rows
      BY <3>1, SMTT(30) DEF replacement
    <3>3. man[d] # NoManifest
      BY <1>1, <3>1 DEF ControlAt
    <3> QED
      BY <1>1, <2>0, <3>1, <3>2, <3>3 DEF EpochAt, Restored
  <2>3. CASE RestoreClear(d)
    <3>1. pc'[d] = "fill" /\ lepoch'[d] = 0 /\ cut' = cut /\ pc[d] = "clear"
      BY <1>1, <2>3 DEF RestoreClear
    <3>2. Restored(cut[d].epoch, cut[d].rows)'
      BY <1>1, <2>0, <3>1 DEF EpochAt, Restored
    <3> QED
      BY <1>0, <2>0, <3>1, <3>2, EpochOrder DEF EpochAt
  <2>4. CASE RestoreFill(d)
    <3>1. /\ pc'[d] = "settle" /\ lepoch' = lepoch /\ cut' = cut /\ pc[d] = "fill"
          /\ rows'[d] = cut[d].rows
      BY <1>1, <2>4 DEF RestoreFill
    <3> QED
      BY <1>1, <2>0, <3>1 DEF EpochAt, Restored
  <2>5. CASE RestoreSettle(d)
    <3>1. /\ pc'[d] = "list" /\ lepoch'[d] = cut[d].epoch /\ cut'[d] = NoReplacement
          /\ pc[d] = "settle" /\ rows' = rows
      BY <1>1, <2>5 DEF RestoreSettle
    <3>2. cut'[d].epoch = 0
      BY <3>1, SMTT(30) DEF NoReplacement
    <3> QED
      BY <1>1, <2>0, <3>1, <3>2 DEF EpochAt, Restored
  <2> QED
    BY <1>1, <1>6, <2>1, <2>2, <2>3, <2>4, <2>5, PlainSteps DEF RestoreStep
<1>7. CASE CompactStep(d) /\ ~Plain(d)
  <2>0. cut' = cut /\ rows' = rows /\ seen' = seen /\ pc[d] \in Compacting
    BY <1>1, <1>7, PlainSteps DEF CompactStep, CompactSnapshot, store, CompactPointer,
       CompactLocal, CompactPrune, Compacting
  <2>1. Restored(lepoch[d], rows[d])
    BY <1>1, <2>0 DEF EpochAt, Compacting
  <2>2. CASE CompactSnapshot(d) \/ CompactPointer(d)
    <3>1. lepoch' = lepoch /\ man' = man /\ pc'[d] \in {"pointer", "local"}
      BY <1>1, <2>2 DEF CompactSnapshot, CompactPointer, store
    <3>2. Restored(lepoch[d], rows[d])'
      BY <1>1, <1>3, <2>0, <2>1, <3>1 DEF EpochAt, Restored
    <3>3. snaps'[man[d] + 1] = [rows |-> rows[d], covered |-> seen[d]]
      <4>1. man[d] + 1 \in Epoch \ {0}
        <5>1. pc[d] \in {"snapshot", "pointer"}
          BY <2>2 DEF CompactSnapshot, CompactPointer
        <5>2. man[d] = epoch /\ epoch < MaxEpoch
          BY <1>1, <2>0, <5>1 DEF ControlAt
        <5>3. epoch \in Nat /\ MaxEpoch \in Nat
          BY <1>1
        <5> QED
          BY <5>2, <5>3, SMTT(30) DEF Epoch
      <4> QED
        BY <1>1, <2>2, <4>1 DEF CompactSnapshot, coveredChangeFiles, CompactPointer, EpochAt
    <3> QED
      BY <1>0, <1>2, <2>0, <3>1, <3>2, <3>3, EpochOrder DEF EpochAt
  <2>3. CASE CompactLocal(d)
    <3>1. /\ lepoch'[d] = man[d] + 1 /\ man' = man /\ pc'[d] = "delete" /\ pc[d] = "local"
          /\ snaps' = snaps /\ epoch' = epoch
      BY <1>1, <2>3 DEF CompactLocal, remote
    <3>2. epoch = man[d] + 1 /\ snaps[man[d] + 1] = [rows |-> rows[d], covered |-> seen[d]]
      BY <1>1, <3>1 DEF ControlAt, EpochAt
    <3>3. Restored(lepoch[d], rows[d])'
      <4>1. [rows |-> rows[d], covered |-> seen[d]].rows = rows[d]
        OBVIOUS
      <4> QED
        BY <2>0, <3>1, <3>2, <4>1 DEF Restored
    <3>4. snaps'[man'[d] + 1] = [rows |-> rows'[d], covered |-> seen'[d]]
      BY <2>0, <3>1, <3>2
    <3> QED
      BY <1>0, <2>0, <3>1, <3>2, <3>3, <3>4, EpochOrder DEF EpochAt
  <2>4. CASE CompactPrune(d)
    <3>1. /\ lepoch' = lepoch /\ man'[d] = man[d] + 1 /\ pc'[d] = "idle" /\ pc[d] = "delete"
          /\ epoch' = epoch
      BY <1>1, <2>4 DEF CompactPrune, store, Resume
    <3>2. Restored(lepoch[d], rows[d])'
      BY <1>1, <1>3, <2>0, <2>1, <3>1 DEF EpochAt, Restored
    <3> QED
      BY <1>1, <1>2, <2>0, <3>1, <3>2 DEF EpochAt, ControlAt
  <2> QED
    BY <1>1, <1>7, <2>2, <2>3, <2>4, PlainSteps DEF CompactStep
<1>8. CASE Crash(d)
  <2>1. /\ pc'[d] = "idle" /\ man'[d] = NoManifest /\ cut'[d] = NoReplacement
        /\ UNCHANGED <<lepoch, rows, snaps, epoch>>
    BY <1>1, <1>8 DEF Crash, store, remote
  <2>2. cut'[d].epoch = 0
    BY <2>1, SMTT(30) DEF NoReplacement
  <2>3. Restored(lepoch[d], rows[d])
    BY <1>1 DEF EpochAt, Restored
  <2> QED
    <3>1. lepoch'[d] <= epoch' /\ cut'[d].epoch <= epoch'
      BY <1>0, <2>1, <2>2, EpochOrder
    <3>2. Restored(lepoch[d], rows[d])'
      BY <2>1, <2>3 DEF Restored
    <3> QED
      BY <2>1, <3>1, <3>2 DEF EpochAt
<1> QED
  BY <1>1, <1>5, <1>6, <1>7, <1>8, PlainSteps DEF Steps, LockStep

(* A step of d keeps what EpochAt says of another device. *)
LEMMA EpochOthers ==
  ASSUME NEW d \in Device, EInv, Steps(d), NEW c \in Device, c # d
  PROVE  EpochAt(c)'
<1> USE EpochTypes
<1>1. TypeOK /\ ControlAt(d) /\ ControlAt(c) /\ EpochAt(c) /\ IInv /\ OneCompacts
  BY DEF EInv, IInv
<1>2. Same(c) /\ SameRest(c)
  BY <1>1, OthersKept, OthersRest DEF Steps
<1>3. /\ epoch' \in Nat /\ epoch <= epoch'
      /\ \A n \in Epoch \ {0} : n <= epoch => snaps'[n] \in {snaps[n], NoSnapshot}
  <2>1. IInv'
    BY <1>1, StepInv DEF Steps
  <2> QED
    BY <1>1, <2>1, SnapsKept, EpochTypes DEF IInv, TypeOK, Epoch
<1>4. cut[c].epoch \in Epoch /\ lepoch[c] \in Epoch
  BY <1>1 DEF Replacement
<1>5. Restored(lepoch[c], rows[c]) => Restored(lepoch[c], rows[c])'
  BY <1>1, <1>2, <1>3, <1>4 DEF Restored, EpochAt, Same, SameRest
<1>6. Restored(cut[c].epoch, cut[c].rows) => Restored(cut[c].epoch, cut[c].rows)'
  BY <1>1, <1>2, <1>3, <1>4 DEF Restored, EpochAt, Same, SameRest
<1>7. pc[c] \in Compacting => snaps' = snaps
  <2>1. snaps' = snaps \/ CompactSnapshot(d) \/ CompactPrune(d)
    BY <1>1, RemoteKept DEF Steps
  <2>2. CompactSnapshot(d) \/ CompactPrune(d) => goal[d] = "compact"
    BY <1>1 DEF CompactSnapshot, CompactPrune, ControlAt, Compacting
  <2>3. pc[c] \in Compacting => goal[c] = "compact"
    BY <1>1 DEF ControlAt
  <2> QED
    BY <1>1, <2>1, <2>2, <2>3 DEF OneCompacts
<1>8. /\ lepoch'[c] <= epoch' /\ cut'[c].epoch <= epoch'
      /\ man'[c] # NoManifest => man'[c] <= epoch'
  <2>1. lepoch'[c] = lepoch[c] /\ cut'[c] = cut[c] /\ man'[c] = man[c]
    BY <1>2 DEF Same, SameRest
  <2>2. lepoch[c] <= epoch /\ cut[c].epoch <= epoch /\ (man[c] # NoManifest => man[c] <= epoch)
    BY <1>1 DEF EpochAt
  <2>3. lepoch[c] \in Nat /\ cut[c].epoch \in Nat /\ man[c] \in Nat /\ epoch \in Nat
    BY <1>1, <1>4
  <2> QED
    BY <1>3, <2>1, <2>2, <2>3, EpochOrder
<1> QED
  BY <1>1, <1>2, <1>5, <1>6, <1>7, <1>8 DEF EpochAt, Same, SameRest, Compacting

(* EInv is an invariant. *)
LEMMA EpochsHold == Spec => []EInv
<1>1. Init => EInv
  <2> SUFFICES ASSUME Init PROVE EInv
    OBVIOUS
  <2>1. ASSUME NEW d \in Device PROVE EpochAt(d)
    BY MailboxAssumption, SMTT(30) DEF Init, EpochAt, Restored, NoReplacement, Epoch, NoManifest
  <2> QED
    BY <2>1, InitInv DEF EInv
<1>2. EInv /\ [Next]_vars => EInv'
  <2>1. ASSUME EInv, NEW d \in Device, Steps(d) PROVE EInv'
    <3>1. IInv'
      BY <2>1, StepInv DEF EInv, Steps
    <3>2. \A c \in Device : EpochAt(c)'
      BY <2>1, EpochKept, EpochOthers
    <3> QED
      BY <3>1, <3>2 DEF EInv
  <2>2. ASSUME EInv, UNCHANGED vars PROVE EInv'
    <3>1. IInv'
      BY <2>2, NextInv DEF EInv
    <3>2. ASSUME NEW c \in Device PROVE EpochAt(c)'
      BY <2>2 DEF EInv, EpochAt, Restored, vars, remote, store, engine
    <3> QED
      BY <3>1, <3>2 DEF EInv
  <2> QED
    BY <2>1, <2>2 DEF Next, Steps
<1> QED
  BY <1>1, <1>2, PTL DEF Spec

(* The local epoch is a promise that connect() and a reader's pull rely on when they skip the
   restore: whatever crashes, failures and overlapping compactions happen, a device holds the
   snapshot of its epoch. rehydrate() (compaction.ts) writes the epoch after the rows, and
   compact() after the pointer. *)
THEOREM EpochsAreRestored == Spec => []EpochRestored
<1>1. EInv => EpochRestored
  BY DEF EInv, EpochAt, Restored, EpochRestored
<1> QED
  BY <1>1, EpochsHold, PTL
=============================================================================
