------------------------------ MODULE RowMerge ------------------------------
(***************************************************************************)
(* The merge of one row (packages/core/src/core/crdt.ts) on several        *)
(* devices that mutate it locally and exchange change files                *)
(* (putNow and deleteNow of sync-engine.ts, flush.ts, pull.ts).            *)
(*                                                                         *)
(* A stamp is a positive number: the code's stamps are totally ordered and *)
(* no two mutations share one, and only their order matters here.  A       *)
(* column entry is its stamp (one mutation writes one value), 0 when the   *)
(* column is absent.  Each mutation is published as a change file of its   *)
(* own.  Columns merge by last-writer-wins, the default strategy.          *)
(***************************************************************************)
EXTENDS Naturals

CONSTANTS
  Device,
  Col,         \* the columns of the row
  MaxStamp,    \* bound: the largest stamp
  MaxDeletes   \* bound: how many deletes the devices perform

ASSUME RowMergeAssumption == MaxStamp \in Nat /\ MaxDeletes \in Nat

VARIABLES
  row,     \* row[d]: the row in d's store
  clock,   \* clock[d]: the newest stamp d gave out or received
  outbox,  \* outbox[d]: operations committed and not yet published
  files,   \* the operations published to the remote folder
  seen,    \* seen[d]: operations merged into row[d], d's own included
  todo,    \* todo[d]: what the pull in progress on d has yet to apply
  used,    \* the stamps given out so far
  deletes  \* how many deletes were performed

vars == <<row, clock, outbox, files, seen, todo, used, deletes>>

Stamp == 1 .. MaxStamp
Columns == [Col -> 0 .. MaxStamp]
NoColumns == [c \in Col |-> 0]

Row == [state : {"absent", "live", "deleted"},
        deletedHlc : 0 .. MaxStamp,
        payload : Columns]

blankRow == [state |-> "absent", deletedHlc |-> 0, payload |-> NoColumns]

tombstone(hlc) == [state |-> "deleted", deletedHlc |-> hlc, payload |-> NoColumns]

liveRow(columns) == [state |-> "live", deletedHlc |-> 0, payload |-> columns]

Op == [type : {"upsert", "delete"}, hlc : Stamp, columns : Columns]

(***************************************************************************)
(* Last-writer-wins on one column.                                         *)
(***************************************************************************)
mergeColumn(existing, incoming) ==
  IF incoming > existing THEN incoming ELSE existing

(***************************************************************************)
(* A delete is dropped when it is not newer than the tombstone, or when    *)
(* some column is newer than it.                                           *)
(***************************************************************************)
applyDelete_IgnoresColumns(r, op) ==
  IF op.hlc <= r.deletedHlc THEN r ELSE tombstone(op.hlc)

applyDelete(r, op) ==
  IF op.hlc <= r.deletedHlc \/ \E c \in Col : r.payload[c] > op.hlc
  THEN r
  ELSE tombstone(op.hlc)

(***************************************************************************)
(* An upsert of a deleted row applies only the columns newer than the      *)
(* tombstone, and forgets the tombstone if there is one.                   *)
(***************************************************************************)
applyUpsert(r, op) ==
  IF r.state = "deleted"
  THEN IF \E c \in Col : op.columns[c] > r.deletedHlc
       THEN liveRow([c \in Col |-> IF op.columns[c] > r.deletedHlc
                                   THEN op.columns[c] ELSE 0])
       ELSE r
  ELSE liveRow([c \in Col |-> mergeColumn(r.payload[c], op.columns[c])])

applyOp_SkipsOlder(r, op) ==
  IF op.type = "delete" THEN applyDelete(r, op)
  ELSE IF \E c \in Col : r.payload[c] > op.hlc THEN r ELSE applyUpsert(r, op)

applyOp(r, op) ==
  IF op.type = "delete" THEN applyDelete(r, op) ELSE applyUpsert(r, op)
-----------------------------------------------------------------------------
Init ==
  /\ row = [d \in Device |-> blankRow]
  /\ clock = [d \in Device |-> 0]
  /\ outbox = [d \in Device |-> {}]
  /\ files = {}
  /\ seen = [d \in Device |-> {}]
  /\ todo = [d \in Device |-> {}]
  /\ used = {}
  /\ deletes = 0

(***************************************************************************)
(* A stamp d's clock may give out next.                                    *)
(***************************************************************************)
Fresh(d) == {s \in Stamp : s > clock[d] /\ s \notin used}

(***************************************************************************)
(* d commits a mutation that leaves its row at r and is published as op.   *)
(***************************************************************************)
commitLocalMutation(d, r, op) ==
  /\ todo[d] = {}
  /\ row' = [row EXCEPT ![d] = r]
  /\ clock' = [clock EXCEPT ![d] = op.hlc]
  /\ outbox' = [outbox EXCEPT ![d] = @ \cup {op}]
  /\ seen' = [seen EXCEPT ![d] = @ \cup {op}]
  /\ used' = used \cup {op.hlc}
  /\ UNCHANGED <<files, todo>>

(***************************************************************************)
(* put(): the written columns take the new stamp; the operation published  *)
(* carries every column the row has.                                       *)
(***************************************************************************)
putPayload(r, columns, stamp) ==
  LET kept == IF r.state = "deleted" THEN NoColumns ELSE r.payload
  IN  [c \in Col |-> IF c \in columns THEN stamp ELSE kept[c]]

upsert(stamp, columns) == [type |-> "upsert", hlc |-> stamp, columns |-> columns]

Put(d, columns, stamp) ==
  LET payload == putPayload(row[d], columns, stamp)
  IN  /\ commitLocalMutation(d, liveRow(payload), upsert(stamp, payload))
      /\ UNCHANGED deletes

(***************************************************************************)
(* delete(): nothing happens unless the row is there and alive.            *)
(***************************************************************************)
Delete(d, stamp) ==
  /\ row[d].state = "live"
  /\ deletes < MaxDeletes
  /\ deletes' = deletes + 1
  /\ commitLocalMutation(d, tombstone(stamp),
       [type |-> "delete", hlc |-> stamp, columns |-> NoColumns])

(***************************************************************************)
(* flush(): the oldest entry of the outbox becomes a change file.  Devices *)
(* flush when they can, so files appear in any order of their stamps.      *)
(***************************************************************************)
Publish(d, op) ==
  /\ todo[d] = {}
  /\ \A o \in outbox[d] : op.hlc <= o.hlc
  /\ files' = files \cup {op}
  /\ outbox' = [outbox EXCEPT ![d] = @ \ {op}]
  /\ UNCHANGED <<row, clock, seen, todo, used, deletes>>

(***************************************************************************)
(* pull(): list the folder, then apply the unseen files in the order of    *)
(* their stamps.  The sync-state lock keeps mutations out meanwhile; other *)
(* devices go on publishing.                                               *)
(***************************************************************************)
PullList(d) ==
  /\ todo[d] = {}
  /\ files \ seen[d] # {}
  /\ todo' = [todo EXCEPT ![d] = files \ seen[d]]
  /\ UNCHANGED <<row, clock, outbox, files, seen, used, deletes>>

PullApply(d, op) ==
  /\ \A o \in todo[d] : op.hlc <= o.hlc
  /\ row' = [row EXCEPT ![d] = applyOp(@, op)]
  /\ clock' = [clock EXCEPT ![d] = IF op.hlc > @ THEN op.hlc ELSE @]
  /\ seen' = [seen EXCEPT ![d] = @ \cup {op}]
  /\ todo' = [todo EXCEPT ![d] = @ \ {op}]
  /\ UNCHANGED <<outbox, files, used, deletes>>

Next ==
  \E d \in Device :
    \/ \E columns \in (SUBSET Col) \ {{}}, stamp \in Fresh(d) : Put(d, columns, stamp)
    \/ \E stamp \in Fresh(d) : Delete(d, stamp)
    \/ \E op \in outbox[d] : Publish(d, op)
    \/ PullList(d)
    \/ \E op \in todo[d] : PullApply(d, op)

Spec == Init /\ [][Next]_vars
-----------------------------------------------------------------------------
(***************************************************************************)
(* Types.  An operation carries a proper stamp, and every column stamp of  *)
(* a row or an operation is within the stamps that exist.                  *)
(***************************************************************************)
TypeOK ==
  /\ row \in [Device -> Row]
  /\ clock \in [Device -> 0 .. MaxStamp]
  /\ files \subseteq Op
  /\ outbox \in [Device -> SUBSET Op]
  /\ seen \in [Device -> SUBSET Op]
  /\ todo \in [Device -> SUBSET Op]
  /\ used \subseteq Stamp
  /\ deletes \in 0 .. MaxDeletes

(***************************************************************************)
(* What a set of operations says about the row, whatever order they were   *)
(* merged in.                                                              *)
(***************************************************************************)
DeletesIn(ops) == {o \in ops : o.type = "delete"}

AtOrAboveAll(s, ops) == \A o \in ops : o.hlc <= s /\ \A c \in Col : o.columns[c] <= s

Decided(r, ops) ==
  /\ r.state = "absent" => ops = {}
  /\ r.state = "deleted" => /\ \E o \in DeletesIn(ops) : o.hlc = r.deletedHlc
                            /\ AtOrAboveAll(r.deletedHlc, ops)
  /\ r.state = "live" => \E c \in Col : /\ r.payload[c] > 0
                                        /\ AtOrAboveAll(r.payload[c], ops)

(***************************************************************************)
(* crdt.ts, applyOp: whatever order operations arrive in, the row is       *)
(* deleted exactly when the newest stamp among all those merged is a       *)
(* delete's, with that stamp on the tombstone; otherwise the newest column *)
(* entry of all is visible in the row.                                     *)
(***************************************************************************)
NewestDecides == \A d \in Device : Decided(row[d], seen[d])

(***************************************************************************)
(* Two devices that merged the same operations agree on whether the row is *)
(* deleted, and on the tombstone if it is.                                 *)
(***************************************************************************)
SameFilesSameVerdict ==
  \A d, e \in Device :
    seen[d] = seen[e] => /\ row[d].state = row[e].state
                         /\ row[d].deletedHlc = row[e].deletedHlc

(***************************************************************************)
(* Two devices that merged the same operations, none of them a delete,     *)
(* have the same row.                                                      *)
(***************************************************************************)
SameFilesSameRowsWithoutDeletes ==
  \A d, e \in Device :
    seen[d] = seen[e] /\ DeletesIn(seen[d]) = {} => row[d] = row[e]

(***************************************************************************)
(* docs/decisions/sync-completeness.md: "Convergence is order-independent: *)
(* clients with the same file set choose the same LWW winners."            *)
(***************************************************************************)
SameFilesSameRows ==
  \A d, e \in Device : seen[d] = seen[e] => row[d] = row[e]

(***************************************************************************)
(* crdt.ts: "The tombstone wins over every payload column at or before     *)
(* deletedHlc, including ... stale columns bundled in a remote upsert."    *)
(* No row shows a column older than a delete the device has merged.        *)
(***************************************************************************)
NoColumnFromBeforeADelete ==
  \A d \in Device : \A o \in DeletesIn(seen[d]) : \A c \in Col :
    row[d].payload[c] > 0 => row[d].payload[c] > o.hlc
=============================================================================
