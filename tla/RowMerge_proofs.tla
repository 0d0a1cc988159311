-------------------------- MODULE RowMerge_proofs --------------------------
(***************************************************************************)
(* Proofs about the merge of a row: what its outcome depends on, for any   *)
(* number of devices, columns, mutations and deletes, and any order of     *)
(* arrival.                                                                *)
(***************************************************************************)
EXTENDS RowMerge, TLAPS

(* A leaf that needs arithmetic or records says SMTT; the others are left to Zenon. *)
USE ZenonT(60)

Known == files \cup UNION {seen[d] : d \in Device}

(***************************************************************************)
(* The shape of an operation: no column is newer than the operation; a     *)
(* delete has no columns; an upsert has a column with its own stamp.       *)
(***************************************************************************)
WellFormed(o) ==
  /\ o \in Op
  /\ \A c \in Col : o.columns[c] <= o.hlc
  /\ o.type = "delete" => o.columns = NoColumns
  /\ o.type = "upsert" => \E c \in Col : o.columns[c] = o.hlc

OpsWellFormed == \A o \in Known : WellFormed(o)

(***************************************************************************)
(* Every stamp an operation carries was given out, and no column was ever  *)
(* written with the stamp of a delete.                                     *)
(***************************************************************************)
StampsUsed ==
  \A o \in Known : o.hlc \in used /\ \A c \in Col : o.columns[c] \in used \cup {0}

Distinct(ops) ==
  \A o, p \in ops : \A c \in Col : o.type = "delete" => p.columns[c] # o.hlc

OpsKnown ==
  \A d \in Device : outbox[d] \subseteq seen[d] /\ todo[d] \subseteq files

ClockCovers == \A d \in Device : \A o \in seen[d] : o.hlc <= clock[d]

Shaped(r, ops) ==
  /\ r.state # "deleted" => r.deletedHlc = 0
  /\ r.state # "live" => r.payload = NoColumns
  /\ \A c \in Col : r.payload[c] > 0 => \E o \in ops : o.columns[c] = r.payload[c]

(***************************************************************************)
(* Without deletes a column holds the newest entry merged for it.          *)
(***************************************************************************)
ColumnsNewest(r, ops) ==
  DeletesIn(ops) = {} => \A c \in Col : \A o \in ops : o.columns[c] <= r.payload[c]

(***************************************************************************)
(* What holds of a row that is the merge of a set of operations.           *)
(***************************************************************************)
MergeOf(r, ops) ==
  /\ r \in Row
  /\ Shaped(r, ops)
  /\ Decided(r, ops)
  /\ ColumnsNewest(r, ops)

RowsMerged == \A d \in Device : MergeOf(row[d], seen[d])

(***************************************************************************)
(* The inductive invariant.  NewestDecides alone is not inductive: that a  *)
(* row forgets the deletes and the columns that lost is harmless only      *)
(* because what it keeps came from operations it merged, because clocks    *)
(* are ahead of those, and because stamps are distinct.                    *)
(***************************************************************************)
IInv ==
  /\ TypeOK
  /\ OpsWellFormed
  /\ StampsUsed
  /\ Distinct(Known)
  /\ OpsKnown
  /\ ClockCovers
  /\ RowsMerged

(***************************************************************************)
(* An entry of column c is absent, new with stamp s, or one already merged.*)
(***************************************************************************)
Inherited(entry, c, s, ops) ==
  entry = 0 \/ entry = s \/ \E o \in ops : o.columns[c] = entry

LEMMA RowTypes ==
  /\ NoColumns \in Columns
  /\ blankRow \in Row
  /\ \A s \in Stamp : tombstone(s) \in Row
  /\ \A columns \in Columns : liveRow(columns) \in Row
  <1>1. NoColumns \in Columns
    BY SMTT(30), RowMergeAssumption DEF NoColumns, Columns
  <1>2. Stamp \subseteq 0 .. MaxStamp /\ 0 \in 0 .. MaxStamp
    BY SMTT(30), RowMergeAssumption DEF Stamp
  <1> QED
    BY <1>1, <1>2 DEF blankRow, tombstone, liveRow, Row

LEMMA InitInv == Init => IInv
  <1> SUFFICES ASSUME Init PROVE IInv
    OBVIOUS
  <1>1. TypeOK
    BY SMTT(30), RowTypes, RowMergeAssumption DEF Init, TypeOK
  <1>2. Known = {}
    BY DEF Init, Known
  <1>3. MergeOf(blankRow, {})
    BY SMTT(30), RowTypes DEF MergeOf, Shaped, Decided, ColumnsNewest, blankRow, NoColumns
  <1>4. RowsMerged /\ ClockCovers /\ OpsKnown
    BY <1>3 DEF Init, RowsMerged, ClockCovers, OpsKnown
  <1> QED
    BY <1>1, <1>2, <1>4 DEF IInv, OpsWellFormed, StampsUsed, Distinct

(***************************************************************************)
(* applyOp with a delete.                                                  *)
(***************************************************************************)
LEMMA ApplyDelete ==
  ASSUME NEW ops, \A o \in ops : WellFormed(o), NEW op, WellFormed(op),
         op.type = "delete", NEW r, MergeOf(r, ops)
  PROVE  MergeOf(applyOp(r, op), ops \cup {op})
  <1> DEFINE all == ops \cup {op}
  <1>1. /\ op \in DeletesIn(all) /\ op.columns = NoColumns /\ op.hlc \in Stamp
        /\ op.hlc \in Nat /\ op.hlc > 0 /\ \A c \in Col : op.columns[c] = 0
    BY SMTT(30), RowMergeAssumption DEF DeletesIn, WellFormed, Op, Stamp, NoColumns
  <1>2. /\ r \in Row /\ r.deletedHlc \in Nat
        /\ \A c \in Col : r.payload[c] \in Nat
    BY SMTT(30), RowMergeAssumption DEF MergeOf, Row, Columns
  <1>3. \A o \in ops : /\ o.hlc \in Nat
                       /\ \A c \in Col : o.columns[c] \in Nat /\ o.columns[c] <= o.hlc
    BY SMTT(30), RowMergeAssumption DEF WellFormed, Op, Stamp, Columns
  <1>4. ColumnsNewest(applyOp(r, op), all)
    BY <1>1 DEF ColumnsNewest
  <1>5. CASE op.hlc <= r.deletedHlc
    <2>1. r.state = "deleted"
      BY SMTT(30), <1>1, <1>2, <1>5 DEF MergeOf, Shaped
    <2>2. applyOp(r, op) = r
      BY <1>5 DEF applyOp, applyDelete
    <2>3. AtOrAboveAll(r.deletedHlc, all)
      BY SMTT(30), <1>1, <1>2, <1>5, <2>1 DEF MergeOf, Decided, AtOrAboveAll
    <2>4. Decided(r, all)
      BY <2>1, <2>3 DEF MergeOf, Decided, DeletesIn
    <2>5. Shaped(r, all)
      BY DEF MergeOf, Shaped
    <2> QED
      BY <1>2, <1>4, <2>2, <2>4, <2>5 DEF MergeOf
  <1>6. CASE op.hlc > r.deletedHlc /\ \E c \in Col : r.payload[c] > op.hlc
    <2>1. applyOp(r, op) = r
      BY <1>6 DEF applyOp, applyDelete
    <2>2. r.state = "live"
      BY SMTT(30), <1>1, <1>6 DEF MergeOf, Shaped, NoColumns
    <2>3. PICK c \in Col : r.payload[c] > 0 /\ AtOrAboveAll(r.payload[c], ops)
      BY <2>2 DEF MergeOf, Decided
    <2>4. PICK b \in Col : r.payload[b] > op.hlc
      BY <1>6
    <2>5. r.payload[b] <= r.payload[c]
      <3>1. PICK o \in ops : o.columns[b] = r.payload[b]
        BY SMTT(30), <1>1, <1>2, <2>4 DEF MergeOf, Shaped
      <3> QED
        BY <3>1, <2>3 DEF AtOrAboveAll
    <2>6. AtOrAboveAll(r.payload[c], all)
      BY SMTT(30), <1>1, <1>2, <2>3, <2>4, <2>5 DEF AtOrAboveAll
    <2>7. Decided(r, all) /\ Shaped(r, all)
      BY <2>2, <2>3, <2>6 DEF MergeOf, Decided, Shaped
    <2> QED
      BY <1>2, <1>4, <2>1, <2>7 DEF MergeOf
  <1>7. CASE op.hlc > r.deletedHlc /\ \A c \in Col : ~ (r.payload[c] > op.hlc)
    <2>1. applyOp(r, op) = tombstone(op.hlc)
      BY SMTT(30), <1>1, <1>2, <1>7 DEF applyOp, applyDelete
    <2>2. AtOrAboveAll(op.hlc, ops)
      BY SMTT(30), <1>1, <1>2, <1>3, <1>7 DEF MergeOf, Decided, AtOrAboveAll, Row
    <2>3. AtOrAboveAll(op.hlc, all)
      BY SMTT(30), <1>1, <2>2 DEF AtOrAboveAll
    <2>4. Decided(tombstone(op.hlc), all)
      BY <1>1, <2>3 DEF Decided, tombstone
    <2>5. Shaped(tombstone(op.hlc), all) /\ tombstone(op.hlc) \in Row
      BY <1>1, RowTypes DEF Shaped, tombstone, NoColumns
    <2> QED
      BY <1>4, <2>1, <2>4, <2>5 DEF MergeOf
  <1> QED
    BY SMTT(30), <1>1, <1>2, <1>5, <1>6, <1>7

(***************************************************************************)
(* applyOp with an upsert.                                                 *)
(***************************************************************************)
LEMMA ApplyUpsert ==
  ASSUME NEW ops, \A o \in ops : WellFormed(o), NEW op, WellFormed(op),
         op.type = "upsert", NEW r, MergeOf(r, ops)
  PROVE  MergeOf(applyOp(r, op), ops \cup {op})
  <1> DEFINE all == ops \cup {op}
  <1>1. /\ op.hlc \in Nat /\ op.hlc > 0 /\ op.columns \in Columns
        /\ \A c \in Col : op.columns[c] \in Nat /\ op.columns[c] <= op.hlc
        /\ \A c \in Col : op.columns[c] \in 0 .. MaxStamp
    BY SMTT(30), RowMergeAssumption DEF WellFormed, Op, Stamp, Columns
  <1>2. PICK k \in Col : op.columns[k] = op.hlc
    BY DEF WellFormed
  <1>3. /\ r \in Row /\ r.deletedHlc \in Nat
        /\ \A c \in Col : r.payload[c] \in Nat /\ r.payload[c] \in 0 .. MaxStamp
    BY SMTT(30), RowMergeAssumption DEF MergeOf, Row, Columns
  <1>4. \A o \in ops : /\ o.hlc \in Nat
                       /\ \A c \in Col : o.columns[c] \in Nat /\ o.columns[c] <= o.hlc
    BY SMTT(30), RowMergeAssumption DEF WellFormed, Op, Stamp, Columns
  <1>5. CASE r.state = "deleted" /\ \E c \in Col : op.columns[c] > r.deletedHlc
    <2> DEFINE new == [c \in Col |-> IF op.columns[c] > r.deletedHlc
                                    THEN op.columns[c] ELSE 0]
    <2>1. applyOp(r, op) = liveRow(new)
      BY <1>5 DEF applyOp, applyUpsert
    <2>2. new \in Columns
      BY SMTT(30), <1>1, RowMergeAssumption DEF Columns
    <2>3. op.hlc > r.deletedHlc /\ new[k] = op.hlc
      BY SMTT(30), <1>1, <1>2, <1>3, <1>5
    <2>4. AtOrAboveAll(r.deletedHlc, ops) /\ DeletesIn(ops) # {}
      BY <1>5 DEF MergeOf, Decided
    <2>5. AtOrAboveAll(new[k], all)
      BY SMTT(30), <1>1, <1>3, <1>4, <2>3, <2>4 DEF AtOrAboveAll
    <2>6. \A c \in Col : new[c] > 0 => op.columns[c] = new[c]
      BY SMTT(30)
    <2> HIDE DEF new
    <2>7. Decided(liveRow(new), all)
      BY <1>1, <2>3, <2>5 DEF Decided, liveRow
    <2>8. Shaped(liveRow(new), all)
      BY <2>6 DEF Shaped, liveRow
    <2>9. ColumnsNewest(liveRow(new), all)
      BY <2>4 DEF ColumnsNewest, DeletesIn
    <2> QED
      BY <2>1, <2>2, <2>7, <2>8, <2>9, RowTypes DEF MergeOf
  <1>6. CASE r.state = "deleted" /\ ~ \E c \in Col : op.columns[c] > r.deletedHlc
    <2>1. applyOp(r, op) = r
      BY <1>6 DEF applyOp, applyUpsert
    <2>2. op.hlc <= r.deletedHlc
      BY SMTT(30), <1>1, <1>2, <1>3, <1>6
    <2>3. AtOrAboveAll(r.deletedHlc, ops) /\ DeletesIn(ops) # {}
      BY <1>6 DEF MergeOf, Decided
    <2>4. AtOrAboveAll(r.deletedHlc, all)
      BY SMTT(30), <1>1, <1>3, <2>2, <2>3 DEF AtOrAboveAll
    <2>5. Decided(r, all) /\ Shaped(r, all) /\ ColumnsNewest(r, all)
      BY <1>6, <2>3, <2>4 DEF MergeOf, Decided, Shaped, ColumnsNewest, DeletesIn
    <2> QED
      BY <1>3, <2>1, <2>5 DEF MergeOf
  <1>7. CASE r.state # "deleted"
    <2> DEFINE new == [c \in Col |-> mergeColumn(r.payload[c], op.columns[c])]
    <2>1. applyOp(r, op) = liveRow(new)
      BY <1>7 DEF applyOp, applyUpsert
    <2>2. \A c \in Col : /\ new[c] \in 0 .. MaxStamp /\ new[c] \in Nat
                         /\ new[c] >= r.payload[c] /\ new[c] >= op.columns[c]
                         /\ new[c] = r.payload[c] \/ new[c] = op.columns[c]
      BY SMTT(30), <1>1, <1>3 DEF mergeColumn
    <2>3. new \in Columns
      BY <2>2 DEF Columns
    <2> HIDE DEF new
    <2>4. \E c \in Col : new[c] > 0 /\ AtOrAboveAll(new[c], all)
      <3>1. CASE AtOrAboveAll(op.hlc, ops)
        <4>1. AtOrAboveAll(new[k], all)
          BY SMTT(30), <1>1, <1>2, <1>4, <2>2, <3>1 DEF AtOrAboveAll
        <4> QED
          BY SMTT(30), <1>1, <1>2, <2>2, <4>1
      <3>2. CASE ~ AtOrAboveAll(op.hlc, ops)
        <4>1. PICK c \in Col : r.payload[c] > 0 /\ AtOrAboveAll(r.payload[c], ops)
          BY <1>7, <3>2 DEF MergeOf, Decided, Row, AtOrAboveAll
        <4>2. op.hlc < r.payload[c]
          BY SMTT(30), <1>1, <1>3, <1>4, <3>2, <4>1 DEF AtOrAboveAll
        <4>3. AtOrAboveAll(new[c], all)
          BY SMTT(30), <1>1, <1>3, <1>4, <2>2, <4>1, <4>2 DEF AtOrAboveAll
        <4> QED
          BY SMTT(30), <1>3, <2>2, <4>1, <4>3
      <3> QED
        BY <3>1, <3>2
    <2>5. Decided(liveRow(new), all)
      BY <2>4 DEF Decided, liveRow
    <2>6. Shaped(liveRow(new), all)
      BY <2>2 DEF Shaped, liveRow, MergeOf
    <2>7. ColumnsNewest(liveRow(new), all)
      <3> SUFFICES ASSUME DeletesIn(all) = {}, NEW c \in Col, NEW o \in all
                   PROVE  o.columns[c] <= new[c]
        BY DEF ColumnsNewest, liveRow
      <3>1. o \in ops => o.columns[c] <= r.payload[c]
        BY DEF MergeOf, ColumnsNewest, DeletesIn
      <3> QED
        BY SMTT(30), <1>1, <1>3, <1>4, <2>2, <3>1
    <2> QED
      BY <2>1, <2>3, <2>5, <2>6, <2>7, RowTypes DEF MergeOf
  <1> QED
    BY <1>5, <1>6, <1>7

(***************************************************************************)
(* put(): a stamp above everything merged.                                 *)
(***************************************************************************)
LEMMA LocalPut ==
  ASSUME NEW ops, \A o \in ops : WellFormed(o), NEW r, MergeOf(r, ops),
         NEW s \in Stamp, \A o \in ops : o.hlc < s,
         NEW columns \in (SUBSET Col) \ {{}}
  PROVE  LET payload == putPayload(r, columns, s)
             op == upsert(s, payload)
         IN  /\ WellFormed(op)
             /\ MergeOf(liveRow(payload), ops \cup {op})
             /\ \A c \in Col : Inherited(payload[c], c, s, ops)
  <1> DEFINE kept == IF r.state = "deleted" THEN NoColumns ELSE r.payload
             payload == putPayload(r, columns, s)
             op == upsert(s, payload)
             all == ops \cup {op}
  <1>0. /\ payload = [c \in Col |-> IF c \in columns THEN s ELSE kept[c]]
        /\ op = [type |-> "upsert", hlc |-> s, columns |-> payload]
    BY DEF putPayload, upsert
  <1> HIDE DEF payload, op
  <1>1. s \in Nat /\ s > 0 /\ s \in 0 .. MaxStamp /\ columns \subseteq Col
    BY SMTT(30), RowMergeAssumption DEF Stamp
  <1>2. PICK k \in Col : k \in columns
    <2>1. columns # {}
      OBVIOUS
    <2>2. \E k \in columns : TRUE
      BY <2>1
    <2> QED
      BY <1>1, <2>2
  <1>3. \A o \in ops : /\ o.hlc \in Nat
                       /\ \A c \in Col : o.columns[c] \in Nat /\ o.columns[c] <= o.hlc
    BY SMTT(30), RowMergeAssumption DEF WellFormed, Op, Stamp, Columns
  <1>4. \A c \in Col : /\ kept[c] \in 0 .. MaxStamp
                       /\ kept[c] > 0 => \E o \in ops : o.columns[c] = kept[c]
    BY RowMergeAssumption DEF MergeOf, Shaped, Row, Columns, NoColumns
  <1>5. \A c \in Col : kept[c] < s
    BY SMTT(30), <1>1, <1>3, <1>4
  <1>6. payload \in Columns /\ payload[k] = s
    BY <1>0, <1>1, <1>2, <1>4 DEF Columns
  <1>7. \A c \in Col : payload[c] <= s
    BY SMTT(30), <1>0, <1>1, <1>4, <1>5
  <1>8. WellFormed(op)
    BY <1>0, <1>6, <1>7 DEF WellFormed, Op
  <1>9. \A c \in Col : Inherited(payload[c], c, s, ops)
    <2> TAKE c \in Col
    <2>1. payload[c] = s \/ payload[c] = kept[c]
      BY <1>0
    <2>2. kept[c] = 0 \/ \E o \in ops : o.columns[c] = kept[c]
      BY SMTT(30), <1>4
    <2> QED
      BY <2>1, <2>2 DEF Inherited
  <1>10. AtOrAboveAll(s, all)
    BY SMTT(30), <1>0, <1>1, <1>3, <1>7 DEF AtOrAboveAll
  <1>11. Decided(liveRow(payload), all)
    BY <1>1, <1>6, <1>10 DEF Decided, liveRow
  <1>12. Shaped(liveRow(payload), all)
    BY SMTT(30), <1>0 DEF Shaped, liveRow
  <1>13. ColumnsNewest(liveRow(payload), all)
    <2> SUFFICES ASSUME DeletesIn(all) = {}, NEW c \in Col, NEW o \in all
                 PROVE  o.columns[c] <= payload[c]
      BY DEF ColumnsNewest, liveRow
    <2>1. DeletesIn(ops) = {}
      BY DEF DeletesIn, all
    <2>2. r.state # "deleted"
      BY <2>1 DEF MergeOf, Decided
    <2>3. o \in ops => o.columns[c] <= kept[c]
      BY <2>1, <2>2 DEF MergeOf, ColumnsNewest
    <2>4. CASE o \in ops
      BY SMTT(30), <1>0, <1>1, <1>3, <1>4, <1>5, <2>3, <2>4
    <2>5. CASE o = op
      BY SMTT(30), <1>0, <1>6, <1>1, <1>4, <2>5
    <2> QED
      BY <2>4, <2>5
  <1> QED
    BY <1>6, <1>8, <1>9, <1>11, <1>12, <1>13, RowTypes DEF MergeOf, payload, op

(***************************************************************************)
(* delete(): a stamp above everything merged.                              *)
(***************************************************************************)
LEMMA LocalDelete ==
  ASSUME NEW ops, \A o \in ops : WellFormed(o),
         NEW s \in Stamp, \A o \in ops : o.hlc < s,
         NEW op, op = [type |-> "delete", hlc |-> s, columns |-> NoColumns]
  PROVE  WellFormed(op) /\ MergeOf(tombstone(s), ops \cup {op})
  <1> DEFINE all == ops \cup {op}
  <1>1. s \in Nat /\ s > 0
    BY SMTT(30), RowMergeAssumption DEF Stamp
  <1>2. WellFormed(op)
    BY SMTT(30), <1>1, RowTypes DEF WellFormed, Op, NoColumns
  <1>3. \A o \in ops : /\ o.hlc \in Nat
                       /\ \A c \in Col : o.columns[c] \in Nat /\ o.columns[c] <= o.hlc
    BY SMTT(30), RowMergeAssumption DEF WellFormed, Op, Stamp, Columns
  <1>4. AtOrAboveAll(s, all)
    BY SMTT(30), <1>1, <1>3 DEF AtOrAboveAll, NoColumns
  <1>5. op \in DeletesIn(all)
    BY DEF DeletesIn
  <1>6. Decided(tombstone(s), all)
    BY <1>4, <1>5 DEF Decided, tombstone
  <1>7. Shaped(tombstone(s), all) /\ ColumnsNewest(tombstone(s), all)
    BY SMTT(30), <1>5 DEF Shaped, ColumnsNewest, tombstone, NoColumns
  <1> QED
    BY <1>2, <1>6, <1>7, RowTypes DEF MergeOf

(* hlcCompare on stamps: a stamp above the clock is above what the clock covers. *)
LEMMA StampOrder ==
  \A x, y, z \in Nat : x <= x /\ (x <= y /\ z > y => x <= z)
  BY SMTT(30)

(***************************************************************************)
(* The step of commitLocalMutation, given what put() and delete() hand it. *)
(***************************************************************************)
LEMMA CommitStep ==
  ASSUME IInv, NEW d \in Device, NEW r, NEW op, NEW stamp \in Fresh(d),
         commitLocalMutation(d, r, op),
         WellFormed(op), op.hlc = stamp, MergeOf(r, seen[d] \cup {op}),
         \A c \in Col : Inherited(op.columns[c], c, stamp, seen[d]),
         op.type = "delete" => op.columns = NoColumns,
         deletes' \in 0 .. MaxDeletes
  PROVE  IInv'
  <1>1. /\ row' = [row EXCEPT ![d] = r] /\ clock' = [clock EXCEPT ![d] = stamp]
        /\ outbox' = [outbox EXCEPT ![d] = @ \cup {op}]
        /\ seen' = [seen EXCEPT ![d] = @ \cup {op}]
        /\ used' = used \cup {stamp} /\ files' = files /\ todo' = todo
    BY DEF commitLocalMutation
  <1>2. /\ stamp \in Stamp /\ stamp > clock[d] /\ stamp \notin used
        /\ stamp \in Nat /\ stamp > 0 /\ stamp \in 0 .. MaxStamp
    BY SMTT(30), RowMergeAssumption DEF Fresh, Stamp
  <1>3. TypeOK'
    BY <1>1, <1>2 DEF IInv, TypeOK, MergeOf, WellFormed
  <1>4. Known' = Known \cup {op}
    BY SMTT(30), <1>1 DEF IInv, TypeOK, Known
  <1>5. OpsWellFormed'
    BY <1>4 DEF IInv, OpsWellFormed, WellFormed
  <1>6. seen[d] \subseteq Known
    BY DEF Known
  <1>7. StampsUsed'
    BY <1>1, <1>4, <1>6 DEF IInv, StampsUsed, Inherited
  <1>8. Distinct(Known)'
    <2> SUFFICES ASSUME NEW o \in Known', NEW p \in Known', NEW c \in Col,
                        o.type = "delete"
                 PROVE  p.columns[c] # o.hlc
      BY DEF Distinct
    <2>1. CASE o \in Known /\ p \in Known
      BY <2>1 DEF IInv, Distinct
    <2>2. CASE o = op /\ p = op
      BY SMTT(30), <1>2, <2>2 DEF NoColumns
    <2>3. CASE o = op /\ p \in Known
      BY SMTT(30), <1>2, <2>3 DEF IInv, StampsUsed
    <2>4. CASE o \in Known /\ p = op
      <3>1. o.hlc \in used /\ o.hlc \in Nat /\ o.hlc > 0
        BY SMTT(30), <2>4, RowMergeAssumption DEF IInv, StampsUsed, OpsWellFormed, WellFormed, Op, Stamp
      <3>2. \A q \in seen[d] : q.columns[c] # o.hlc
        BY <1>6, <2>4 DEF IInv, Distinct
      <3> QED
        BY SMTT(30), <1>2, <2>4, <3>1, <3>2 DEF Inherited
    <2> QED
      BY <1>4, <2>1, <2>2, <2>3, <2>4
  <1>9. OpsKnown'
    BY <1>1 DEF IInv, TypeOK, OpsKnown
  <1>10. ClockCovers'
    <2> SUFFICES ASSUME NEW e \in Device, NEW o \in seen'[e]
                 PROVE  o.hlc <= clock'[e]
      BY DEF ClockCovers
    <2>1. CASE e # d
      BY <1>1, <2>1 DEF IInv, TypeOK, ClockCovers
    <2>2. CASE e = d
      <3>1. clock'[d] = stamp /\ seen'[d] = seen[d] \cup {op} /\ clock[d] \in Nat
        BY SMTT(30), <1>1 DEF IInv, TypeOK
      <3>2. \A q \in seen[d] : q.hlc <= clock[d] /\ q.hlc \in Nat
        BY SMTT(30), <1>6, RowMergeAssumption
        DEF IInv, ClockCovers, OpsWellFormed, WellFormed, Op, Stamp
      <3>3. CASE o = op
        BY <1>2, <2>2, <3>1, <3>3, StampOrder
      <3>4. CASE o \in seen[d]
        <4>1. o.hlc <= clock[d] /\ o.hlc \in Nat
          BY <3>2, <3>4
        <4> QED
          BY <1>2, <2>2, <3>1, <4>1, StampOrder
      <3> QED
        BY <2>2, <3>1, <3>3, <3>4
    <2> QED
      BY <2>1, <2>2
  <1>11. RowsMerged'
    BY <1>1 DEF IInv, TypeOK, RowsMerged
  <1> QED
    BY <1>3, <1>5, <1>7, <1>8, <1>9, <1>10, <1>11 DEF IInv

LEMMA SeenFacts ==
  ASSUME IInv, NEW d \in Device, NEW stamp \in Fresh(d)
  PROVE  /\ \A o \in seen[d] : WellFormed(o) /\ o.hlc < stamp
         /\ MergeOf(row[d], seen[d])
         /\ stamp \in Stamp
  <1>1. seen[d] \subseteq Known
    BY DEF Known
  <1>2. stamp \in Stamp /\ stamp \in Nat /\ stamp > clock[d] /\ clock[d] \in Nat
    BY SMTT(30), RowMergeAssumption DEF Fresh, Stamp, IInv, TypeOK
  <1>3. \A o \in seen[d] : WellFormed(o) /\ o.hlc \in Nat /\ o.hlc <= clock[d]
    BY SMTT(30), <1>1, RowMergeAssumption
    DEF IInv, OpsWellFormed, ClockCovers, WellFormed, Op, Stamp
  <1> QED
    BY SMTT(30), <1>2, <1>3 DEF IInv, RowsMerged

LEMMA PutStep ==
  ASSUME IInv, NEW d \in Device, NEW columns \in (SUBSET Col) \ {{}},
         NEW stamp \in Fresh(d), Put(d, columns, stamp)
  PROVE  IInv'
  <1> DEFINE payload == putPayload(row[d], columns, stamp)
             op == upsert(stamp, payload)
  <1>1. commitLocalMutation(d, liveRow(payload), op) /\ deletes' = deletes
    BY DEF Put
  <1>2. /\ WellFormed(op)
        /\ MergeOf(liveRow(payload), seen[d] \cup {op})
        /\ \A c \in Col : Inherited(payload[c], c, stamp, seen[d])
    <2>1. /\ \A o \in seen[d] : WellFormed(o)
          /\ \A o \in seen[d] : o.hlc < stamp
          /\ MergeOf(row[d], seen[d])
          /\ stamp \in Stamp
      BY SeenFacts
    <2> QED
      BY <2>1, LocalPut
  <1>3. op.hlc = stamp /\ op.columns = payload /\ op.type = "upsert"
    BY DEF upsert
  <1> HIDE DEF op, payload
  <1>4. deletes' \in 0 .. MaxDeletes
    BY <1>1 DEF IInv, TypeOK
  <1> QED
    BY <1>1, <1>2, <1>3, <1>4, CommitStep

LEMMA DeleteStep ==
  ASSUME IInv, NEW d \in Device, NEW stamp \in Fresh(d), Delete(d, stamp)
  PROVE  IInv'
  <1> DEFINE op == [type |-> "delete", hlc |-> stamp, columns |-> NoColumns]
  <1>1. commitLocalMutation(d, tombstone(stamp), op)
    BY DEF Delete
  <1>2. WellFormed(op) /\ MergeOf(tombstone(stamp), seen[d] \cup {op})
    BY SeenFacts, LocalDelete
  <1>3. op.hlc = stamp /\ op.columns = NoColumns
    OBVIOUS
  <1>4. \A c \in Col : Inherited(op.columns[c], c, stamp, seen[d])
    BY <1>3 DEF NoColumns, Inherited
  <1> HIDE DEF op
  <1>5. deletes' \in 0 .. MaxDeletes
    <2>1. deletes \in 0 .. MaxDeletes /\ deletes < MaxDeletes /\ deletes' = deletes + 1
      BY DEF Delete, IInv, TypeOK
    <2> QED
      BY SMTT(30), <2>1, RowMergeAssumption
  <1> QED
    BY <1>1, <1>2, <1>3, <1>4, <1>5, CommitStep

LEMMA PublishStep ==
  ASSUME IInv, NEW d \in Device, NEW op \in outbox[d], Publish(d, op)
  PROVE  IInv'
  <1>1. /\ files' = files \cup {op} /\ outbox' = [outbox EXCEPT ![d] = @ \ {op}]
        /\ row' = row /\ clock' = clock /\ seen' = seen /\ todo' = todo /\ used' = used
        /\ deletes' = deletes
    BY DEF Publish
  <1>2. op \in seen[d] /\ op \in Op
    BY DEF IInv, OpsKnown, TypeOK
  <1>3. Known' = Known
    BY <1>1, <1>2 DEF Known
  <1>4. TypeOK'
    BY <1>1, <1>2 DEF IInv, TypeOK
  <1>5. OpsKnown'
    BY <1>1 DEF IInv, TypeOK, OpsKnown
  <1>6. OpsWellFormed' /\ StampsUsed' /\ Distinct(Known)'
    BY <1>1, <1>3 DEF IInv, OpsWellFormed, StampsUsed, Distinct
  <1>7. ClockCovers' /\ RowsMerged'
    BY <1>1 DEF IInv, ClockCovers, RowsMerged
  <1> QED
    BY <1>4, <1>5, <1>6, <1>7 DEF IInv

LEMMA PullListStep ==
  ASSUME IInv, NEW d \in Device, PullList(d)
  PROVE  IInv'
  <1>1. /\ todo' = [todo EXCEPT ![d] = files \ seen[d]] /\ files' = files
        /\ row' = row /\ clock' = clock /\ seen' = seen /\ outbox' = outbox /\ used' = used
        /\ deletes' = deletes
    BY DEF PullList
  <1>2. Known' = Known
    BY <1>1 DEF Known
  <1>3. TypeOK' /\ OpsKnown'
    BY <1>1 DEF IInv, TypeOK, OpsKnown
  <1>4. OpsWellFormed' /\ StampsUsed' /\ Distinct(Known)'
    BY <1>1, <1>2 DEF IInv, OpsWellFormed, StampsUsed, Distinct
  <1>5. ClockCovers' /\ RowsMerged'
    BY <1>1 DEF IInv, ClockCovers, RowsMerged
  <1> QED
    BY <1>3, <1>4, <1>5 DEF IInv

LEMMA PullApplyStep ==
  ASSUME IInv, NEW d \in Device, NEW op \in todo[d], PullApply(d, op)
  PROVE  IInv'
  <1>1. /\ row' = [row EXCEPT ![d] = applyOp(row[d], op)]
        /\ clock' = [clock EXCEPT ![d] = IF op.hlc > clock[d] THEN op.hlc ELSE clock[d]]
        /\ seen' = [seen EXCEPT ![d] = seen[d] \cup {op}]
        /\ todo' = [todo EXCEPT ![d] = todo[d] \ {op}]
        /\ outbox' = outbox /\ files' = files /\ used' = used /\ deletes' = deletes
    BY DEF PullApply, IInv, TypeOK
  <1>2. op \in files /\ op \in Known /\ seen[d] \subseteq Known
    BY DEF IInv, OpsKnown, Known
  <1>3. WellFormed(op) /\ op \in Op /\ \A o \in seen[d] : WellFormed(o)
    BY <1>2 DEF IInv, OpsWellFormed, WellFormed
  <1>4. /\ op.hlc \in Nat /\ op.hlc \in 0 .. MaxStamp
        /\ clock[d] \in Nat /\ clock[d] \in 0 .. MaxStamp
        /\ \A o \in seen[d] : o.hlc \in Nat
    BY SMTT(30), <1>3, RowMergeAssumption DEF WellFormed, Op, Stamp, IInv, TypeOK
  <1>5. MergeOf(applyOp(row[d], op), seen[d] \cup {op})
    <2>1. op.type = "delete" \/ op.type = "upsert"
      BY <1>3 DEF Op
    <2>2. MergeOf(row[d], seen[d])
      BY DEF IInv, RowsMerged
    <2> QED
      BY <1>3, <2>1, <2>2, ApplyDelete, ApplyUpsert
  <1>6. Known' = Known
    BY SMTT(30), <1>1, <1>2 DEF IInv, TypeOK, Known
  <1>7. TypeOK'
    BY <1>1, <1>3, <1>4, <1>5 DEF IInv, TypeOK, MergeOf
  <1>8. OpsKnown'
    BY <1>1 DEF IInv, TypeOK, OpsKnown
  <1>9. OpsWellFormed' /\ StampsUsed' /\ Distinct(Known)'
    BY <1>1, <1>6 DEF IInv, OpsWellFormed, StampsUsed, Distinct
  <1>10. ClockCovers'
    BY SMTT(30), <1>1, <1>4 DEF IInv, TypeOK, ClockCovers
  <1>11. RowsMerged'
    BY <1>1, <1>5 DEF IInv, TypeOK, RowsMerged
  <1> QED
    BY <1>7, <1>8, <1>9, <1>10, <1>11 DEF IInv

LEMMA NextInv == IInv /\ [Next]_vars => IInv'
  <1> SUFFICES ASSUME IInv, [Next]_vars PROVE IInv'
    OBVIOUS
  <1>1. CASE Next
    BY <1>1, PutStep, DeleteStep, PublishStep, PullListStep, PullApplyStep DEF Next
  <1>2. CASE UNCHANGED vars
    <2>1. Known' = Known
      BY <1>2 DEF vars, Known
    <2>2. TypeOK' /\ OpsKnown' /\ ClockCovers' /\ RowsMerged'
      BY <1>2 DEF vars, IInv, TypeOK, OpsKnown, ClockCovers, RowsMerged
    <2> QED
      BY <1>2, <2>1, <2>2 DEF vars, IInv, OpsWellFormed, StampsUsed, Distinct
  <1> QED
    BY <1>1, <1>2
-----------------------------------------------------------------------------
(***************************************************************************)
(* The type invariant.                                                     *)
(***************************************************************************)
THEOREM TypeCorrect == Spec => []TypeOK
  <1>1. IInv => TypeOK
    BY DEF IInv
  <1> QED
    BY InitInv, NextInv, <1>1, PTL DEF Spec

(***************************************************************************)
(* crdt.ts, applyOp: the newest stamp of all operations merged decides     *)
(* whether the row is deleted, in whatever order they arrived.             *)
(***************************************************************************)
THEOREM NewestStampDecides == Spec => []NewestDecides
  <1>1. IInv => NewestDecides
    BY DEF IInv, RowsMerged, MergeOf, NewestDecides
  <1> QED
    BY InitInv, NextInv, <1>1, PTL DEF Spec

(***************************************************************************)
(* Devices that merged the same operations agree on the row's existence.   *)
(***************************************************************************)
THEOREM VerdictConverges == Spec => []SameFilesSameVerdict
  <1>1. ASSUME IInv, NEW d \in Device, NEW e \in Device, seen[d] = seen[e]
        PROVE  row[d].state = row[e].state /\ row[d].deletedHlc = row[e].deletedHlc
    <2> DEFINE ops == seen[d]
    <2>1. /\ MergeOf(row[d], ops) /\ MergeOf(row[e], ops)
          /\ \A o \in ops : WellFormed(o)
          /\ Distinct(ops)
      BY <1>1 DEF IInv, RowsMerged, OpsWellFormed, Known, Distinct
    <2>2. ASSUME NEW r, NEW q, MergeOf(r, ops), MergeOf(q, ops)
          PROVE  /\ r.state = "absent" => q.state = "absent"
                 /\ r.state = "deleted" => q.state = "deleted" /\ q.deletedHlc = r.deletedHlc
      <3>0. /\ r \in Row /\ q \in Row /\ r.deletedHlc \in Nat /\ q.deletedHlc \in Nat
            /\ \A c \in Col : q.payload[c] \in Nat
        BY SMTT(30), <2>2, RowMergeAssumption DEF MergeOf, Row, Columns
      <3>1. q.state = "deleted" => ops # {}
        BY <2>2 DEF MergeOf, Decided, DeletesIn
      <3>2. q.state = "live" => ops # {}
        BY <2>2 DEF MergeOf, Decided, Shaped
      <3>3. r.state = "absent" => q.state = "absent"
        BY <2>2, <3>0, <3>1, <3>2 DEF MergeOf, Decided, Row
      <3>4. ASSUME r.state = "deleted", q.state = "deleted"
            PROVE  q.deletedHlc = r.deletedHlc
        <4>1. /\ \E o \in ops : o.hlc = r.deletedHlc
              /\ \E o \in ops : o.hlc = q.deletedHlc
          BY <2>2, <3>4 DEF MergeOf, Decided, DeletesIn
        <4>2. \A o \in ops : o.hlc <= r.deletedHlc /\ o.hlc <= q.deletedHlc
          BY <2>2, <3>4 DEF MergeOf, Decided, AtOrAboveAll
        <4> QED
          BY SMTT(30), <3>0, <4>1, <4>2
      <3>5. ASSUME r.state = "deleted", q.state = "live"
            PROVE  FALSE
        <4>1. PICK o \in ops : o.type = "delete" /\ o.hlc = r.deletedHlc
          BY <2>2, <3>5 DEF MergeOf, Decided, DeletesIn
        <4>2. PICK c \in Col : q.payload[c] > 0 /\ AtOrAboveAll(q.payload[c], ops)
          BY <2>2, <3>5 DEF MergeOf, Decided
        <4>3. PICK p \in ops : p.columns[c] = q.payload[c]
          BY <2>2, <4>2 DEF MergeOf, Shaped
        <4>4. q.payload[c] <= r.deletedHlc /\ r.deletedHlc <= q.payload[c]
          BY <2>2, <3>5, <4>1, <4>2, <4>3 DEF MergeOf, Decided, AtOrAboveAll
        <4>5. p.columns[c] # o.hlc
          BY <2>1, <4>1 DEF Distinct
        <4> QED
          BY SMTT(30), <3>0, <4>1, <4>3, <4>4, <4>5
      <3>6. r.state = "deleted" => q.state # "absent"
        BY <2>2 DEF MergeOf, Decided, DeletesIn
      <3> QED
        BY <3>0, <3>3, <3>4, <3>5, <3>6 DEF Row
    <2> HIDE DEF ops
    <2>3. /\ row[d].state = "absent" <=> row[e].state = "absent"
          /\ row[d].state = "deleted" <=> row[e].state = "deleted"
          /\ row[d].state = "deleted" => row[d].deletedHlc = row[e].deletedHlc
      BY <2>1, <2>2
    <2> QED
      BY <2>1, <2>3 DEF MergeOf, Shaped, Row
  <1>2. IInv => SameFilesSameVerdict
    BY <1>1 DEF SameFilesSameVerdict
  <1> QED
    BY InitInv, NextInv, <1>2, PTL DEF Spec

(***************************************************************************)
(* Devices that merged the same operations, none of them a delete, hold    *)
(* the same row.                                                           *)
(***************************************************************************)
THEOREM ConvergesWithoutDeletes == Spec => []SameFilesSameRowsWithoutDeletes
  <1>1. ASSUME NEW ops, NEW r, NEW q, MergeOf(r, ops), MergeOf(q, ops), DeletesIn(ops) = {}
        PROVE  r = q
    <2>1. /\ r.state # "deleted" /\ q.state # "deleted"
          /\ r.state = "absent" => ops = {}
          /\ q.state = "absent" => ops = {}
          /\ r.state = "live" => ops # {}
          /\ q.state = "live" => ops # {}
      BY <1>1 DEF MergeOf, Decided, Shaped
    <2>2. r.state = q.state /\ r.deletedHlc = 0 /\ q.deletedHlc = 0
      BY <1>1, <2>1 DEF MergeOf, Shaped, Row
    <2>3. ASSUME NEW c \in Col PROVE r.payload[c] = q.payload[c]
      <3>1. r.payload[c] \in Nat /\ q.payload[c] \in Nat
        BY SMTT(30), <1>1, RowMergeAssumption DEF MergeOf, Row, Columns
      <3>2. r.payload[c] > 0 => r.payload[c] <= q.payload[c]
        BY <1>1 DEF MergeOf, Shaped, ColumnsNewest
      <3>3. q.payload[c] > 0 => q.payload[c] <= r.payload[c]
        BY <1>1 DEF MergeOf, Shaped, ColumnsNewest
      <3> QED
        BY SMTT(30), <3>1, <3>2, <3>3
    <2>4. r.payload = q.payload
      BY SMTT(30), <1>1, <2>3 DEF MergeOf, Row, Columns
    <2> QED
      BY SMTT(30), <1>1, <2>2, <2>4 DEF MergeOf, Row
  <1>2. IInv => SameFilesSameRowsWithoutDeletes
    BY <1>1 DEF IInv, RowsMerged, SameFilesSameRowsWithoutDeletes
  <1> QED
    BY InitInv, NextInv, <1>2, PTL DEF Spec
=============================================================================
