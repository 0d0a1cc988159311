---------------------------- MODULE Device_proofs ----------------------------
(***************************************************************************)
(* Proofs about what one device keeps: the hybrid logical clock and its    *)
(* use (DeviceClock), and durable files (DurableFiles), for any engines,   *)
(* paths and seals and any number of calls, on every kind of store.        *)
(*                                                                         *)
(* The inductive invariant of the durable files says for every call what   *)
(* its position has established: Shape is its typing, Framing and Keyed    *)
(* are about keys, Sealed about the guard it passed, and Solo what a call  *)
(* that meets no other on its name knows about object and metadata. A step *)
(* of one engine is split into what it does to its own call and what it    *)
(* leaves to the others (OthersKept).                                      *)
(***************************************************************************)
EXTENDS DeviceClock, DurableFiles, TLAPS

(***************************************************************************)
(* Clocks and the absent clock.                                            *)
(***************************************************************************)
Clock == [ts : Int, counter : Nat, nodeId : NodeId]

LEMMA ClockTypes == HLC \subseteq Clock /\ NoHlc \in Clock
  BY DeviceClockAssumption DEF HLC, Clock, NoHlc

(***************************************************************************)
(* hlc.ts, hlcCompare: a strict total order on clocks.                     *)
(***************************************************************************)
LEMMA HlcTotalOrder ==
  ASSUME NEW a \in Clock, NEW b \in Clock, NEW c \in Clock
  PROVE  /\ ~ hlcLess(a, a)
         /\ hlcLess(a, b) /\ hlcLess(b, c) => hlcLess(a, c)
         /\ hlcLess(a, b) \/ a = b \/ hlcLess(b, a)
  <1>1. /\ a.ts \in Int /\ a.counter \in Nat /\ a.nodeId \in Nat
        /\ b.ts \in Int /\ b.counter \in Nat /\ b.nodeId \in Nat
        /\ c.ts \in Int /\ c.counter \in Nat /\ c.nodeId \in Nat
    BY ZenonT(60), HlcAssumption DEF Clock
  <1>2. a.ts = b.ts /\ a.counter = b.counter /\ a.nodeId = b.nodeId => a = b
    BY DEF Clock
  <1> QED
    BY <1>1, <1>2 DEF hlcLess

(***************************************************************************)
(* hlc.ts, hlcCompareStr: comparing two serialized clocks gives the order  *)
(* of the clocks, whether or not a counter outgrew its digits.             *)
(***************************************************************************)
THEOREM SerializedOrder ==
  ASSUME NEW a \in HLC, NEW b \in HLC
  PROVE  hlcLessStr(a, b) <=> hlcLess(a, b)
  BY DEF hlcLessStr, textLess, counterTextLess, hlcLess

(***************************************************************************)
(* The text order the local stores use is the clocks' order as long as     *)
(* both counters fit their digits.                                         *)
(***************************************************************************)
LEMMA TextOrderInWidth ==
  ASSUME NEW a, NEW b, a.counter < CounterLimit, b.counter < CounterLimit
  PROVE  textLess(a, b) <=> hlcLess(a, b)
  BY DEF textLess, counterTextLess, hlcLess, Digits

(***************************************************************************)
(* hlc.ts, hlcNow and hlcReceive: both return a clock of the same node     *)
(* that is greater than the one they were given.                           *)
(***************************************************************************)
LEMMA NowIncreases ==
  ASSUME NEW local \in HLC, NEW wall \in Nat
  PROVE  /\ hlcNow(local, wall) \in HLC
         /\ hlcNow(local, wall).nodeId = local.nodeId
         /\ hlcNow(local, wall).counter <= local.counter + 1
         /\ hlcLess(local, hlcNow(local, wall))
  BY DEF HLC, hlcNow, hlcLess

LEMMA ReceiveIncreases ==
  ASSUME NEW local \in HLC, NEW remote \in HLC, NEW wall \in Nat
  PROVE  /\ hlcReceive(local, remote, wall) \in HLC
         /\ hlcReceive(local, remote, wall).nodeId = local.nodeId
         /\ hlcLess(local, hlcReceive(local, remote, wall))
  <1>1. /\ local.ts \in Nat /\ local.counter \in Nat /\ local.nodeId \in NodeId
        /\ remote.ts \in Nat /\ remote.counter \in Nat
        /\ wall + MaxFutureSkew \in Nat
    BY HlcAssumption DEF HLC
  <1> DEFINE safe == smaller(remote.ts, wall + MaxFutureSkew)
             m == larger(wall, larger(local.ts, safe))
             n == IF m = local.ts /\ m = remote.ts THEN larger(local.counter, remote.counter) + 1
                  ELSE IF m = local.ts THEN local.counter + 1
                  ELSE IF m = safe THEN remote.counter + 1
                  ELSE 0
  <1>2. safe \in Nat
    BY <1>1 DEF smaller
  <1> HIDE DEF safe
  <1>3. m \in Nat /\ local.ts <= m
    BY <1>1, <1>2 DEF larger
  <1> HIDE DEF m
  <1>4. n \in Nat /\ (m = local.ts => local.counter < n)
    BY <1>1, <1>3 DEF larger
  <1>5. hlcReceive(local, remote, wall) = [ts |-> m, counter |-> n, nodeId |-> local.nodeId]
    BY DEF hlcReceive, safe, m
  <1> HIDE DEF n
  <1>6. \/ local.ts < m
        \/ local.ts = m /\ local.counter < n
    BY <1>1, <1>3, <1>4
  <1> QED
    BY <1>1, <1>3, <1>4, <1>5, <1>6 DEF HLC, hlcLess

(***************************************************************************)
(* What is assumed of the counters where the stores compare texts: none    *)
(* outgrows its digits.  Without it BatchCoversStamps fails (README).      *)
(***************************************************************************)
InWidth ==
  /\ MaxCounter < CounterLimit
  /\ \A remote \in RemoteHlcs : remote.counter < CounterLimit

PendingInWidth == pending.counter < CounterLimit

(***************************************************************************)
(* The inductive invariant: besides its type, the two copies of the clock  *)
(* cover every stamp, and the batch's clock fits its digits, without which *)
(* the store could keep the smaller of two clocks.                         *)
(***************************************************************************)
ClockIInv == TypeOK /\ ClockCoversStamps /\ PendingInWidth

(***************************************************************************)
(* Replacing the node of a clock by this device's (loadLocalState and      *)
(* refreshHlcFromLocal) never takes it below one of this device's stamps.  *)
(***************************************************************************)
LEMMA OwnKeepsOrder ==
  ASSUME NEW a \in Clock, a.nodeId = Device, NEW b \in HLC, hlcLeq(a, b)
  PROVE  hlcLeq(a, own(b)) /\ own(b) \in HLC /\ own(b).nodeId = Device
  <1>1. /\ own(b) = [ts |-> b.ts, counter |-> b.counter, nodeId |-> Device]
        /\ b.ts \in Nat /\ b.counter \in Nat
    BY DEF HLC, own
  <1>2. own(b) \in HLC /\ own(b).nodeId = Device
    BY <1>1, DeviceClockAssumption DEF HLC
  <1>3. a.ts = b.ts /\ a.counter = b.counter => a = own(b)
    BY <1>1 DEF Clock
  <1> QED
    BY <1>1, <1>2, <1>3 DEF hlcLeq, hlcLess

LEMMA LimitIsNat == CounterLimit \in Int
  BY HlcAssumption DEF CounterLimit

LEMMA ClockInitial == InWidth /\ Init => ClockIInv
  <1> SUFFICES ASSUME InWidth, NEW wall \in Walls,
                      engine = hlcInit(Device, wall), wallMax = wall,
                      saved = NoHlc, pending = NoHlc, merged = {}, seen = {},
                      last = NoHlc, mints = 0
               PROVE  ClockIInv
    BY DEF Init
  <1>1. TypeOK
    BY HlcAssumption, DeviceClockAssumption DEF TypeOK, hlcInit, HLC, NoHlc
  <1>2. ClockCoversStamps
    BY HlcAssumption, DeviceClockAssumption
    DEF ClockCoversStamps, hlcInit, NoHlc, own, hlcLeq, hlcLess
  <1>3. PendingInWidth
    BY LimitIsNat, DeviceClockAssumption DEF PendingInWidth, InWidth, NoHlc
  <1> QED
    BY <1>1, <1>2, <1>3 DEF ClockIInv

(***************************************************************************)
(* The clock put() and delete() start from covers every earlier stamp.     *)
(***************************************************************************)
LEMMA RefreshCovers ==
  ASSUME ClockIInv
  PROVE  /\ refreshHlcFromLocal \in HLC
         /\ refreshHlcFromLocal.nodeId = Device
         /\ hlcLeq(last, refreshHlcFromLocal)
  <1>1. last \in Clock /\ last.nodeId = Device
    BY ClockTypes DEF ClockIInv, TypeOK
  <1>2. CASE saved # NoHlc /\ hlcLessStr(engine, saved)
    <2>1. saved \in HLC /\ own(saved) \in HLC /\ own(saved).nodeId = Device
      BY <1>2, DeviceClockAssumption DEF ClockIInv, TypeOK, HLC, own
    <2> QED
      BY <1>2, <2>1 DEF ClockIInv, ClockCoversStamps, refreshHlcFromLocal
  <1>3. CASE ~ (saved # NoHlc /\ hlcLessStr(engine, saved))
    BY <1>3 DEF ClockIInv, TypeOK, ClockCoversStamps, refreshHlcFromLocal
  <1> QED
    BY <1>2, <1>3

(***************************************************************************)
(* commitLocalMutation of the stores: the batch's clock, which is the one  *)
(* saved, is at or above the clock of the change it takes in.              *)
(***************************************************************************)
LEMMA BatchAdvances ==
  ASSUME InWidth, ClockIInv, NEW hlc \in HLC, hlc.counter < CounterLimit
  PROVE  /\ batchHlc(hlc) \in HLC
         /\ batchHlc(hlc).counter < CounterLimit
         /\ hlcLeq(hlc, batchHlc(hlc))
  <1>1. pending # NoHlc => (textLess(pending, hlc) <=> hlcLess(pending, hlc))
    BY TextOrderInWidth DEF ClockIInv, PendingInWidth
  <1>2. pending \in HLC \cup {NoHlc} /\ pending \in Clock /\ hlc \in Clock
    BY ClockTypes DEF ClockIInv, TypeOK
  <1>3. pending.counter < CounterLimit
    BY DEF ClockIInv, PendingInWidth
  <1> QED
    BY <1>1, <1>2, <1>3, HlcTotalOrder DEF batchHlc, hlcLeq

(***************************************************************************)
(* A mutation's stamp is above every earlier one, and what is saved with   *)
(* it is at or above the stamp.                                            *)
(***************************************************************************)
LEMMA MutateStep ==
  ASSUME InWidth, ClockIInv, NEW wall \in Walls, NEW held \in merged \cup {NoHlc},
         Mutate(wall, held)
  PROVE  ClockIInv' /\ hlcLess(last, last')
  <1> DEFINE stamp == hlcNow(refreshHlcFromLocal, wall)
             hlc == latest(held, stamp)
  <1>1. wall \in Nat /\ CounterLimit \in Int /\ MaxCounter \in Nat
    BY LimitIsNat, DeviceClockAssumption
  <1>2. /\ refreshHlcFromLocal \in HLC
        /\ refreshHlcFromLocal.nodeId = Device
        /\ hlcLeq(last, refreshHlcFromLocal)
    BY RefreshCovers
  <1>3. /\ stamp \in HLC /\ stamp.nodeId = Device
        /\ stamp.counter <= refreshHlcFromLocal.counter + 1
        /\ hlcLess(refreshHlcFromLocal, stamp)
    BY <1>1, <1>2, NowIncreases
  <1>4. stamp.counter < CounterLimit
    BY <1>1, <1>2, <1>3 DEF Mutate, InWidth, HLC
  <1>5. last \in Clock /\ stamp \in Clock /\ refreshHlcFromLocal \in Clock
    BY <1>2, <1>3, ClockTypes DEF ClockIInv, TypeOK
  <1>6. hlcLess(last, stamp)
    BY <1>2, <1>3, <1>5, HlcTotalOrder DEF hlcLeq
  <1>7. hlc \in HLC /\ hlc.counter < CounterLimit /\ hlcLeq(stamp, hlc)
    <2>1. CASE held = NoHlc
      <3>1. hlcLess(NoHlc, stamp)
        BY <1>3 DEF NoHlc, hlcLess, HLC
      <3>2. hlcLessStr(NoHlc, stamp)
        BY <3>1, <1>3 DEF hlcLessStr, textLess, hlcLess, NoHlc, HLC
      <3> QED
        BY <2>1, <3>2, <1>3, <1>4 DEF latest, hlcLeq
    <2>2. CASE held \in merged
      <3>1. held \in HLC /\ held.counter < CounterLimit /\ held \in Clock
        BY <2>2, DeviceClockAssumption, ClockTypes DEF ClockIInv, TypeOK, InWidth
      <3>2. hlcLessStr(held, stamp) <=> hlcLess(held, stamp)
        BY <3>1, <1>3, SerializedOrder
      <3> QED
        BY <3>1, <3>2, <1>3, <1>4, <1>5, HlcTotalOrder DEF latest, hlcLeq
    <2> QED
      BY <2>1, <2>2
  <1>8. /\ batchHlc(hlc) \in HLC /\ batchHlc(hlc).counter < CounterLimit
        /\ hlcLeq(hlc, batchHlc(hlc))
    BY <1>7, BatchAdvances
  <1>9. hlcLeq(stamp, batchHlc(hlc))
    <2>1. hlc \in Clock /\ batchHlc(hlc) \in Clock
      BY <1>7, <1>8, ClockTypes
    <2> QED
      BY <1>5, <1>7, <1>8, <2>1, HlcTotalOrder DEF hlcLeq
  <1>10. engine' = stamp /\ saved' = batchHlc(hlc) /\ pending' = batchHlc(hlc)
         /\ last' = stamp /\ mints' = mints + 1 /\ mints < MaxMints
         /\ wallMax' = larger(wallMax, wall) /\ merged' = merged /\ seen' = seen
    BY DEF Mutate
  <1> HIDE DEF stamp, hlc
  <1>11. TypeOK'
    BY <1>3, <1>8, <1>10, DeviceClockAssumption DEF ClockIInv, TypeOK, larger
  <1>12. ClockCoversStamps'
    <2>1. hlcLeq(stamp, own(batchHlc(hlc)))
      BY <1>3, <1>5, <1>8, <1>9, OwnKeepsOrder
    <2> QED
      BY <1>10, <2>1 DEF ClockCoversStamps, hlcLeq, own
  <1>13. PendingInWidth'
    BY <1>8, <1>10 DEF PendingInWidth
  <1> QED
    BY <1>6, <1>10, <1>11, <1>12, <1>13 DEF ClockIInv

(***************************************************************************)
(* A pull leaves both copies of the clock at or above where the engine's   *)
(* was.                                                                    *)
(***************************************************************************)
LEMMA PullStep ==
  ASSUME InWidth, ClockIInv, NEW remote \in RemoteHlcs \cup {NoHlc}, NEW wall \in Walls,
         Pull(remote, wall)
  PROVE  ClockIInv'
  <1> DEFINE hlc == pulled(remote, wall)
  <1>1. wall \in Nat /\ engine \in HLC /\ engine.nodeId = Device
    BY DeviceClockAssumption DEF ClockIInv, TypeOK
  <1>2. hlc \in HLC /\ hlc.nodeId = Device /\ hlcLeq(engine, hlc)
    BY ZenonT(60), <1>1, ReceiveIncreases, DeviceClockAssumption DEF pulled, hlcLeq
  <1>3. /\ engine' = hlc /\ saved' = hlc /\ wallMax' = larger(wallMax, wall)
        /\ merged' = (merged \cup {remote}) \ {NoHlc}
        /\ seen' = (seen \cup {remote}) \ {NoHlc}
        /\ pending' = pending /\ last' = last /\ mints' = mints
    BY DEF Pull
  <1> HIDE DEF hlc
  <1>4. TypeOK'
    BY <1>2, <1>3, DeviceClockAssumption DEF ClockIInv, TypeOK, larger
  <1>5. ClockCoversStamps'
    <2>1. last \in Clock /\ last.nodeId = Device /\ engine \in Clock /\ hlc \in Clock
      BY <1>1, <1>2, ClockTypes DEF ClockIInv, TypeOK
    <2>2. hlcLeq(last, hlc)
      BY <1>2, <2>1, HlcTotalOrder DEF ClockIInv, ClockCoversStamps, hlcLeq
    <2>3. hlcLeq(last, own(hlc))
      BY <1>2, <2>1, <2>2, OwnKeepsOrder
    <2> QED
      BY <1>3, <2>2, <2>3 DEF ClockCoversStamps, hlcLeq, own
  <1>6. PendingInWidth'
    BY <1>3 DEF ClockIInv, PendingInWidth
  <1> QED
    BY <1>4, <1>5, <1>6 DEF ClockIInv

(***************************************************************************)
(* A new process starts at the saved clock, or, when none was ever saved,  *)
(* at the wall clock of a device that has given out no stamp.              *)
(***************************************************************************)
LEMMA RestartStep ==
  ASSUME InWidth, ClockIInv, NEW wall \in Walls, Restart(wall)
  PROVE  ClockIInv'
  <1>1. wall \in Nat /\ wallMax \in Walls
    BY DeviceClockAssumption DEF ClockIInv, TypeOK
  <1>2. CASE saved = NoHlc
    <2>1. last = NoHlc
      BY <1>2 DEF ClockIInv, TypeOK, ClockCoversStamps, hlcLeq, hlcLess, NoHlc, own, HLC
    <2>2. engine' = [ts |-> wall, counter |-> 0, nodeId |-> Device]
      BY <1>2 DEF Restart, hlcInit
    <2>3. engine' \in HLC /\ engine'.nodeId = Device
      BY <1>1, <2>2, DeviceClockAssumption DEF HLC
    <2>4. hlcLeq(last, engine)'
      BY <1>1, <2>1, <2>2 DEF Restart, hlcLeq, hlcLess, NoHlc
    <2> QED
      BY <2>3, <2>4, <1>1
      DEF Restart, ClockIInv, TypeOK, ClockCoversStamps, PendingInWidth, larger, hlcLeq, own
  <1>3. CASE saved # NoHlc
    <2>1. saved \in HLC /\ own(saved) \in HLC /\ own(saved).nodeId = Device
      BY <1>3, DeviceClockAssumption DEF ClockIInv, TypeOK, HLC, own
    <2>2. engine' = own(saved)
      BY <1>3 DEF Restart
    <2> QED
      BY ZenonT(60), <2>1, <2>2, <1>1
      DEF Restart, ClockIInv, TypeOK, ClockCoversStamps, PendingInWidth, larger, hlcLeq, own
  <1> QED
    BY <1>2, <1>3

LEMMA SteadyStep ==
  ASSUME InWidth, ClockIInv, [SteadyNext]_vars
  PROVE  ClockIInv' /\ (mints' # mints => hlcLess(last, last'))
  <1>1. ASSUME NEW wall \in Walls, NEW held \in merged \cup {NoHlc}, Mutate(wall, held)
        PROVE  ClockIInv' /\ hlcLess(last, last')
    BY <1>1, MutateStep
  <1>2. CASE Promote
    <2>1. PendingInWidth'
      BY <1>2, LimitIsNat, DeviceClockAssumption
      DEF Promote, PendingInWidth, InWidth, NoHlc
    <2> QED
      BY <1>2, <2>1 DEF Promote, ClockIInv, TypeOK, ClockCoversStamps, hlcLeq, own
  <1>3. ASSUME NEW remote \in RemoteHlcs \cup {NoHlc}, NEW wall \in Walls,
               Pull(remote, wall)
        PROVE  ClockIInv' /\ mints' = mints
    BY <1>3, PullStep DEF Pull
  <1>4. ASSUME NEW remote \in RemoteHlcs, PullFails(remote)
        PROVE  ClockIInv' /\ mints' = mints
    BY <1>4 DEF PullFails, ClockIInv, TypeOK, ClockCoversStamps, PendingInWidth, hlcLeq, own
  <1>5. ASSUME NEW wall \in Walls, Restart(wall)
        PROVE  ClockIInv' /\ mints' = mints
    BY <1>5, RestartStep DEF Restart
  <1>6. CASE UNCHANGED vars
    BY <1>6 DEF vars, ClockIInv, TypeOK, ClockCoversStamps, PendingInWidth, hlcLeq, own
  <1>7. Promote => mints' = mints
    BY DEF Promote
  <1> QED
    BY <1>1, <1>2, <1>3, <1>4, <1>5, <1>6, <1>7 DEF SteadyNext, vars

(***************************************************************************)
(* The type invariant of a device that never restores a snapshot, and the  *)
(* fact behind its stamps: the record the store keeps, and the clock in    *)
(* memory, never fall behind a stamp already given to a mutation.          *)
(***************************************************************************)
THEOREM SteadyInvariants ==
  ASSUME InWidth
  PROVE  SteadySpec => [](TypeOK /\ ClockCoversStamps)
  <1>1. Init => ClockIInv
    BY ClockInitial
  <1>2. ClockIInv /\ [SteadyNext]_vars => ClockIInv'
    BY SteadyStep
  <1>3. ClockIInv => TypeOK /\ ClockCoversStamps
    BY DEF ClockIInv
  <1> QED
    BY <1>1, <1>2, <1>3, PTL DEF SteadySpec

(***************************************************************************)
(* "One device generates strictly increasing HLC values", for every wall   *)
(* clock, every remote clock, and crashes at any point, as long as the     *)
(* device restores no snapshot and no counter outgrows its digits.         *)
(***************************************************************************)
THEOREM SteadyStampsIncrease ==
  ASSUME InWidth
  PROVE  SteadySpec => StampsIncrease
  <1>1. Init => ClockIInv
    BY ClockInitial
  <1>2. ClockIInv /\ [SteadyNext]_vars => ClockIInv'
    BY SteadyStep
  <1>3. ClockIInv /\ [SteadyNext]_vars => [mints' # mints => hlcLess(last, last')]_vars
    BY SteadyStep
  <1> QED
    BY <1>1, <1>2, <1>3, PTL DEF SteadySpec, StampsIncrease

-----------------------------------------------------------------------------
(* Durable files *)

(* Most leaves are first-order; the ones that need records or arithmetic say SMTT. *)
USE ZenonT(60)

DurableSpec == DurableInit /\ [][DurableNext]_durableVars

PutPcs == {"encode", "check", "body", "stat", "record"}
DeletePcs == {"check", "body", "record"}
ReadPcs == {"look", "bytes", "meta", "touch", "decode"}

Call ==
    [op : {"none", "put", "delete", "open", "describe"}, pc : PutPcs \cup ReadPcs \cup {"none"},
     file : File \cup {Absent}, name : Name \cup {Absent}, content : Content \cup {Absent},
     seal : SealKey \cup {Absent}, ref : Content \cup {Absent}, frame : Frame \cup {Absent},
     seen : Content \cup {Absent}, alone : BOOLEAN, sound : BOOLEAN]

Live(c) == c.pc # "none"

LEMMA PcFacts ==
  {"encode", "check", "body", "stat", "record", "look", "bytes", "meta", "touch", "decode"} \subseteq PutPcs \cup ReadPcs
  BY DEF PutPcs, ReadPcs

(* The positions each kind of call goes through, and what they have filled in. *)
Shape(c) ==
    /\ c \in Call
    /\ ~Live(c) => c = Idle
    /\ Live(c) => c.name \in Name /\ c.file \in File
    /\ Live(c) => \/ c.op = "put" /\ c.pc \in PutPcs /\ c.content \in Content
                  \/ c.op = "delete" /\ c.pc \in DeletePcs
                  \/ c.op \in {"open", "describe"} /\ c.pc \in ReadPcs
    /\ c.pc = "stat" => store = "webdav"
    /\ c.pc = "record" /\ c.op = "put" /\ store = "webdav" => c.seen \in Content
    /\ c.pc = "touch" => c.seen \in Content
    /\ c.pc \in {"meta", "touch", "decode"} => c.frame \in Frame

(* An upload carries the frame of its own content and seal, under the key of its name. *)
Framing(c) ==
    c.op = "put" /\ c.pc # "encode" =>
      /\ c.frame \in Frame /\ c.frame.body = c.content /\ c.frame.seal = c.seal
      /\ c.frame.key = c.name.key \/ c.name \in torn

(* The key an upload is about to be wrapped under, and the engines that take no reference. *)
Keyed(m, c) ==
    /\ c.pc = "encode" => c.name.key = keys[m].key \/ c.name \in torn
    /\ keys[m].port = "python" => c.ref = Absent

(* Past the guard, what was kept under the name is the caller's to replace, and then gone. *)
Sealed(c) ==
    store = "guarded" /\ c.op \in {"put", "delete"} =>
      /\ c.pc = "body" => kept[c.name] \in {Absent, c.seal}
      /\ c.pc = "record" => kept[c.name] = Absent

Agree(n) == IF object[n] = Absent THEN side[n] = Absent ELSE side[n] = object[n].body

(* A call that met no other on its name finds there what it left. *)
Solo(c) ==
    Live(c) /\ c.alone =>
      /\ c.op = "put" /\ c.pc \in {"stat", "record"} => object[c.name] = c.frame
      /\ c.op = "put" /\ c.pc = "record" /\ store = "webdav" => c.seen = c.content
      /\ c.op = "delete" /\ c.pc = "record" => object[c.name] = Absent
      /\ store # "plain" /\ c.sound /\ c.pc \in {"encode", "check"} \cup ReadPcs => Agree(c.name)
      /\ store # "plain" /\ c.sound /\ c.pc = "touch" => c.seen = side[c.name]

Fits(m, c) == Shape(c) /\ Framing(c) /\ Keyed(m, c) /\ Sealed(c) /\ Solo(c)

CallOK(m) == Fits(m, call[m])

(* A call marked alone shares its name with no other call. *)
Apart ==
    \A m, x \in Member :
      m # x /\ Live(call[m]) /\ Live(call[x]) /\ call[m].name = call[x].name => ~call[m].alone

(* A name in order has no call under way. *)
Quiet == \A n \in alone : \A m \in Member : Live(call[m]) => call[m].name # n

(* What was kept is still guarded by its seal. *)
Guarded ==
    store = "guarded" =>
      \A n \in Name : kept[n] # Absent =>
        guard[n] = kept[n] /\ object[n] # Absent /\ object[n].seal = kept[n]

Got == [name : Name, ref : Content \cup {Absent}, content : Content]

Typed ==
    /\ DurableTypeOK
    /\ DOMAIN call = Member /\ call = [m \in Member |-> call[m]]
    /\ got \in [Member -> Got \cup {Absent}]

IInv ==
    /\ Typed
    /\ \A m \in Member : CallOK(m)
    /\ Apart /\ Quiet /\ Guarded
    /\ OpenedAsReferenced /\ FramedUnderItsName /\ MetadataAgrees

-----------------------------------------------------------------------------
(* The idle call satisfies every clause about calls. *)
LEMMA IdleShape == Shape(Idle) /\ ~Live(Idle) /\ Idle.op = "none" /\ Idle.ref = Absent
  BY SMTT(30) DEF Shape, Live, Idle, Call

(* The fields of a call. *)
LEMMA CallFields ==
  ASSUME NEW c, Shape(c)
  PROVE  /\ c.op \in {"none", "put", "delete", "open", "describe"} /\ c.pc \in PutPcs \cup ReadPcs \cup {"none"}
         /\ c.name \in Name \cup {Absent} /\ c.content \in Content \cup {Absent}
         /\ c.seal \in SealKey \cup {Absent} /\ c.ref \in Content \cup {Absent}
         /\ c.frame \in Frame \cup {Absent} /\ c.seen \in Content \cup {Absent}
         /\ c.alone \in BOOLEAN /\ c.sound \in BOOLEAN
  BY SMTT(30) DEF Shape, Call

(* The initial states: every engine is idle and the store is empty. *)
LEMMA InitInv == DurableInit => IInv
<1> SUFFICES ASSUME DurableInit PROVE IInv
  OBVIOUS
<1>1. \A m \in Member : call[m] = Idle
  BY DEF DurableInit
<1>2. \A m \in Member : ~Live(call[m]) /\ Shape(call[m]) /\ call[m].op = "none" /\ call[m].ref = Absent
  BY <1>1, IdleShape
<1>3. ASSUME NEW m \in Member PROVE CallOK(m)
  <2>1. call[m].pc = "none"
    BY <1>2 DEF Live
  <2>2. Framing(call[m]) /\ Sealed(call[m]) /\ Solo(call[m])
    BY <1>2, "none" # "put", "none" # "delete" DEF Framing, Sealed, Solo
  <2>3. Keyed(m, call[m])
    BY <1>2, <2>1, "none" # "encode" DEF Keyed
  <2> QED
    BY <1>2, <2>2, <2>3 DEF CallOK, Fits
<1>4. Apart /\ Quiet
  BY <1>2 DEF Apart, Quiet, DurableInit
<1>5. Guarded /\ MetadataAgrees /\ FramedUnderItsName /\ OpenedAsReferenced
  BY SMTT(30) DEF DurableInit, Guarded, MetadataAgrees, FramedUnderItsName, OpenedAsReferenced
<1>6. Typed
  <2>1. keys \in [Member -> [port : {"web", "python"}, key : {MeshKey, Absent}]]
    BY SMTT(30) DEF DurableInit
  <2>2. calls \in 0..MaxCalls
    BY SMTT(30), DurableAssumption DEF DurableInit
  <2> QED
    BY SMTT(30), <1>1, <2>1, <2>2 DEF Typed, DurableTypeOK, DurableInit
<1> QED
  BY <1>3, <1>4, <1>5, <1>6 DEF IInv

-----------------------------------------------------------------------------
(* What a step of a call changes: its own record, its own name in the store, and the names in
   order by its own name at most; what it keeps under the name it only forgets, unless it runs
   alone there. *)
Footprint(m, r) ==
    /\ call' = [call EXCEPT ![m] = r]
    /\ store' = store /\ keys' = keys /\ torn' = torn
    /\ \A k \in Name : k # call[m].name =>
         object'[k] = object[k] /\ side'[k] = side[k] /\ guard'[k] = guard[k] /\ kept'[k] = kept[k]
    /\ kept'[call[m].name] \in {kept[call[m].name], Absent} \/ call[m].alone
    /\ \/ Live(r) /\ r.name = call[m].name /\ r.alone = call[m].alone /\ alone' = alone
       \/ r = Idle /\ alone' = alone
       \/ r = Idle /\ call[m].alone /\ alone' = alone \cup {call[m].name}

(* A step of m's call leaves every other call what it relied on: either that call is about
   another name, or neither of the two is alone. *)
LEMMA OthersKept ==
  ASSUME IInv, NEW m \in Member, NEW r, Live(call[m]), Footprint(m, r), NEW x \in Member, x # m
  PROVE  CallOK(x)'
<1> DEFINE c == call[x]
<1>1. call'[x] = c /\ store' = store /\ torn' = torn /\ keys' = keys
  BY DEF Footprint, IInv, Typed
<1>2. CallOK(x)
  BY DEF IInv
<1>3. Shape(c)' /\ Framing(c)' /\ Keyed(x, c)'
  BY <1>1, <1>2 DEF CallOK, Fits, Shape, Framing, Keyed
<1>4. CASE ~Live(c)
  <2>1. c = Idle /\ c.op = "none"
    BY <1>2, <1>4, IdleShape DEF CallOK, Fits, Shape
  <2>2. Sealed(c)' /\ Solo(c)'
    BY <1>1, <1>4, <2>1, "none" # "put", "none" # "delete" DEF Sealed, Solo, Live
  <2> QED
    BY <1>1, <1>3, <2>2 DEF CallOK, Fits
<1>5. CASE Live(c) /\ c.name # call[m].name
  <2>1. c.name \in Name
    BY <1>2, <1>5 DEF CallOK, Fits, Shape
  <2>2. object'[c.name] = object[c.name] /\ side'[c.name] = side[c.name] /\ kept'[c.name] = kept[c.name]
    BY <1>5, <2>1 DEF Footprint
  <2>3. Sealed(c)' /\ Solo(c)'
    BY <1>1, <1>2, <2>2 DEF CallOK, Fits, Sealed, Solo, Live, Agree
  <2> QED
    BY <1>1, <1>3, <2>3 DEF CallOK, Fits
<1>6. CASE Live(c) /\ c.name = call[m].name
  <2>1. ~c.alone /\ ~call[m].alone
    BY <1>6 DEF IInv, Apart
  <2>2. kept'[c.name] \in {kept[c.name], Absent}
    BY <1>6, <2>1 DEF Footprint
  <2>3. Sealed(c)' /\ Solo(c)'
    BY <1>1, <1>2, <2>1, <2>2 DEF CallOK, Fits, Sealed, Solo
  <2> QED
    BY <1>1, <1>3, <2>3 DEF CallOK, Fits
<1> QED
  BY <1>4, <1>5, <1>6

(* Such a step keeps calls apart and names in order quiet, and the metadata follows the
   objects if it does so at the step's own name. *)
LEMMA NamesKept ==
  ASSUME IInv, NEW m \in Member, NEW r, Live(call[m]), Footprint(m, r),
         NEW n \in Name, n = call[m].name, alone' # alone => (store # "plain" => Agree(n)')
  PROVE  Apart' /\ Quiet' /\ MetadataAgrees' /\ alone' \subseteq Name
<1>1. \A x \in Member : call'[x] = IF x = m THEN r ELSE call[x]
  BY DEF Footprint, IInv, Typed
<1>2. n \in Name /\ alone \subseteq Name
  BY DEF IInv, CallOK, Fits, Shape, Typed, DurableTypeOK
<1>3. n \notin alone
  BY DEF IInv, Quiet
<1>4. alone' \subseteq alone \cup {n}
  BY DEF Footprint
<1>5. Live(r) => r.name = n /\ r.alone = call[m].alone /\ alone' = alone
  BY IdleShape DEF Footprint
<1>6. Apart'
  <2> SUFFICES ASSUME NEW a \in Member, NEW b \in Member, a # b, Live(call'[a]), Live(call'[b]),
                      call'[a].name = call'[b].name
               PROVE  ~call'[a].alone
    BY DEF Apart, Live
  <2>1. Live(call[a]) /\ call'[a].name = call[a].name /\ call'[a].alone = call[a].alone
    BY <1>1, <1>5
  <2>2. Live(call[b]) /\ call'[b].name = call[b].name
    BY <1>1, <1>5
  <2> QED
    BY <2>1, <2>2 DEF IInv, Apart
<1>7. Quiet'
  <2> SUFFICES ASSUME NEW k \in alone', NEW x \in Member, Live(call'[x]), call'[x].name = k
               PROVE  FALSE
    BY DEF Quiet, Live
  <2>1. CASE k \in alone
    BY <1>1, <1>3, <1>5, <2>1 DEF IInv, Quiet
  <2>2. CASE k \notin alone
    <3>1. k = n /\ call[m].alone /\ r = Idle
      BY <1>4, <2>2 DEF Footprint
    <3>2. x # m
      BY <1>1, <3>1, IdleShape
    <3> QED
      BY <1>1, <3>1, <3>2 DEF IInv, Apart
  <2> QED
    BY <2>1, <2>2
<1>8. MetadataAgrees'
  <2> SUFFICES ASSUME store # "plain", NEW k \in alone' PROVE Agree(k)'
    BY DEF MetadataAgrees, Agree, Footprint
  <2>1. CASE k \in alone
    <3>1. k # n /\ k \in Name
      BY <1>2, <1>3, <2>1
    <3>2. object'[k] = object[k] /\ side'[k] = side[k]
      BY <3>1 DEF Footprint
    <3> QED
      BY <2>1, <3>2 DEF IInv, MetadataAgrees, Agree
  <2>2. CASE k \notin alone
    <3>1. k = n /\ alone' # alone
      BY <1>4, <2>2
    <3> QED
      BY <3>1
  <2> QED
    BY <2>1, <2>2
<1> QED
  BY <1>2, <1>4, <1>6, <1>7, <1>8

(* The state after a step of a call: its own record is in order, and what it wrote under its
   own name is. *)
LEMMA StepKept ==
  ASSUME IInv, NEW m \in Member, NEW r, Live(call[m]), Footprint(m, r),
         NEW n \in Name, n = call[m].name, alone' # alone => (store # "plain" => Agree(n)'),
         r = Idle \/ CallOK(m)',
         object' \in [Name -> Frame \cup {Absent}], side' \in [Name -> Content \cup {Absent}],
         guard' \in [Name -> SealKey \cup {Absent}], kept' \in [Name -> SealKey \cup {Absent}],
         refs' \subseteq Ref, calls' = calls, got' \in [Member -> Got \cup {Absent}],
         OpenedAsReferenced',
         object'[n] = object[n] \/ object'[n] = Absent \/ object'[n].key = n.key \/ n \in torn,
         store = "guarded" /\ kept'[n] # Absent =>
           guard'[n] = kept'[n] /\ object'[n] # Absent /\ object'[n].seal = kept'[n]
  PROVE  IInv'
<1>1. Apart' /\ Quiet' /\ MetadataAgrees' /\ alone' \subseteq Name
  BY NamesKept
<1>2. \A x \in Member : call'[x] = IF x = m THEN r ELSE call[x]
  BY DEF Footprint, IInv, Typed
<1>3. CallOK(m)'
  <2>1. CASE r = Idle
    <3>1. call'[m] = Idle /\ call'[m].pc = "none" /\ call'[m].op = "none" /\ call'[m].ref = Absent
      BY <1>2, <2>1, IdleShape DEF Live
    <3>2. Shape(call[m])'
      BY <3>1, IdleShape DEF Shape, Live, Footprint
    <3> QED
      BY <3>1, <3>2, "none" # "put", "none" # "delete", "none" # "encode"
         DEF CallOK, Fits, Framing, Keyed, Sealed, Solo, Live
  <2> QED
    BY <2>1
<1>4. \A x \in Member : CallOK(x)'
  BY <1>3, OthersKept
<1>5. Guarded'
  <2> SUFFICES ASSUME store = "guarded", NEW k \in Name, kept'[k] # Absent
               PROVE  guard'[k] = kept'[k] /\ object'[k] # Absent /\ object'[k].seal = kept'[k]
    BY DEF Guarded, Footprint
  <2>1. CASE k = n
    BY <2>1
  <2>2. CASE k # n
    <3>1. object'[k] = object[k] /\ guard'[k] = guard[k] /\ kept'[k] = kept[k]
      BY <2>2 DEF Footprint
    <3> QED
      BY <3>1 DEF IInv, Guarded
  <2> QED
    BY <2>1, <2>2
<1>6. FramedUnderItsName'
  <2> SUFFICES ASSUME NEW k \in Name, object'[k] # Absent, object'[k].key # k.key PROVE k \in torn
    BY DEF FramedUnderItsName, Footprint
  <2>1. k # n => object'[k] = object[k]
    BY DEF Footprint
  <2> QED
    BY <2>1 DEF IInv, FramedUnderItsName
<1>7. Typed'
  <2>1. call' = [x \in Member |-> call'[x]] /\ DOMAIN call' = Member
    BY DEF Footprint, IInv, Typed
  <2>2. \A x \in Member : call'[x] # Idle => call'[x].name \in Name
    BY <1>4 DEF CallOK, Fits, Shape, Live
  <2> QED
    BY <1>1, <2>1, <2>2 DEF Typed, DurableTypeOK, IInv, Footprint
<1> QED
  BY <1>1, <1>4, <1>5, <1>6, <1>7 DEF IInv

(* What a call relies on is in the store, the key, and the marks. *)
LEMMA FitsStill ==
  ASSUME NEW m, NEW c, Fits(m, c), UNCHANGED <<store, keys, object, side, kept, torn>>
  PROVE  Fits(m, c)'
<1>1. Shape(c)' /\ Framing(c)' /\ Keyed(m, c)'
  BY DEF Fits, Shape, Framing, Keyed
<1>2. Sealed(c)'
  BY DEF Fits, Sealed
<1>3. Solo(c)'
  BY DEF Fits, Solo, Agree
<1> QED
  BY <1>1, <1>2, <1>3 DEF Fits

(* A step that touches nothing but its own call and what the call returned. *)
LEMMA StillKept ==
  ASSUME IInv, NEW m \in Member, NEW r, Live(call[m]), call' = [call EXCEPT ![m] = r],
         UNCHANGED <<store, keys, object, side, guard, refs, calls, kept, torn>>,
         got' \in [Member -> Got \cup {Absent}], OpenedAsReferenced',
         NEW n \in Name, n = call[m].name,
         \/ Live(r) /\ r.name = n /\ r.alone = call[m].alone /\ alone' = alone /\ Fits(m, r)
         \/ r = Idle /\ alone' = alone
         \/ /\ r = Idle /\ call[m].alone /\ alone' = alone \cup {n}
            /\ store # "plain" => Agree(n)
  PROVE  IInv'
<1>1. Footprint(m, r)
  BY DEF Footprint
<1>2. alone' # alone => (store # "plain" => Agree(n)')
  BY DEF Agree
<1>3. r = Idle \/ CallOK(m)'
  <2>1. call'[m] = r
    BY DEF IInv, Typed
  <2>2. CASE Fits(m, r)
    <3>1. Fits(m, r)'
      BY <2>2, FitsStill
    <3> QED
      BY <2>1, <3>1 DEF CallOK
  <2> QED
    BY <2>2
<1>4. /\ object' \in [Name -> Frame \cup {Absent}] /\ side' \in [Name -> Content \cup {Absent}]
      /\ guard' \in [Name -> SealKey \cup {Absent}] /\ kept' \in [Name -> SealKey \cup {Absent}]
      /\ refs' \subseteq Ref /\ calls' = calls
  BY DEF IInv, Typed, DurableTypeOK
<1>5. object'[n] = object[n]
  OBVIOUS
<1>6. store = "guarded" /\ kept'[n] # Absent =>
        guard'[n] = kept'[n] /\ object'[n] # Absent /\ object'[n].seal = kept'[n]
  BY DEF IInv, Guarded
<1> QED
  BY <1>1, <1>2, <1>3, <1>4, <1>5, <1>6, StepKept

(* A call that returns or throws where nothing else changes: its name is in order again only
   if it was before. *)
LEMMA EndKept ==
  ASSUME IInv, NEW m \in Member, NEW sound, Live(call[m]), Ends(m, sound),
         UNCHANGED <<store, keys, object, side, guard, refs, calls, kept, torn>>,
         got' \in [Member -> Got \cup {Absent}], OpenedAsReferenced',
         NEW n \in Name, n = call[m].name,
         call[m].alone /\ sound /\ store # "plain" => Agree(n)
  PROVE  IInv'
<1>1. call' = [call EXCEPT ![m] = Idle]
  BY DEF Ends, Step
<1>2. alone' = alone \/ (call[m].alone /\ sound /\ alone' = alone \cup {n})
  BY DEF Ends
<1> QED
  BY <1>1, <1>2, StillKept

(* What a call takes along from one position to the next. *)
Same(r, c) ==
    /\ r.op = c.op /\ r.file = c.file /\ r.name = c.name /\ r.content = c.content
    /\ r.seal = c.seal /\ r.ref = c.ref /\ r.alone = c.alone /\ r.sound = c.sound

Moved(r, c, p, f, d) == r \in Call /\ Same(r, c) /\ r.pc = p /\ r.frame = f /\ r.seen = d

LEMMA MoveOnly ==
  ASSUME NEW c \in Call, NEW p \in PutPcs \cup ReadPcs
  PROVE  Moved([c EXCEPT !.pc = p], c, p, c.frame, c.seen)
<1> DEFINE r == [c EXCEPT !.pc = p]
<1>1. r \in Call
  BY SMTT(30) DEF Call
<1>2. r.pc = p /\ r.frame = c.frame /\ r.seen = c.seen
  BY SMTT(30) DEF Call
<1>3. Same(r, c)
  BY SMTT(30) DEF Call, Same
<1> QED
  BY <1>1, <1>2, <1>3 DEF Moved

LEMMA MoveFrame ==
  ASSUME NEW c \in Call, NEW p \in PutPcs \cup ReadPcs, NEW f \in Frame
  PROVE  Moved([c EXCEPT !.pc = p, !.frame = f], c, p, f, c.seen)
<1> DEFINE b == [c EXCEPT !.pc = p]
           r == [c EXCEPT !.pc = p, !.frame = f]
<1>1. b \in Call /\ Same(b, c) /\ b.pc = p /\ b.frame = c.frame /\ b.seen = c.seen
  BY MoveOnly DEF Moved
<1>2. r = [b EXCEPT !.frame = f]
  BY SMTT(30) DEF Call
<1> HIDE DEF b, r
<1>3. r \in Call
  BY SMTT(30), <1>1, <1>2 DEF Call
<1>4. r.pc = b.pc /\ r.frame = f /\ r.seen = b.seen
  BY SMTT(30), <1>1, <1>2 DEF Call
<1>5. Same(r, b)
  BY SMTT(30), <1>1, <1>2 DEF Call, Same
<1>6. Moved(r, c, p, f, c.seen)
  BY <1>1, <1>3, <1>4, <1>5 DEF Same, Moved
<1> QED
  BY <1>6 DEF r

LEMMA MoveSeen ==
  ASSUME NEW c \in Call, NEW p \in PutPcs \cup ReadPcs, NEW d \in Content \cup {Absent}
  PROVE  Moved([c EXCEPT !.pc = p, !.seen = d], c, p, c.frame, d)
<1> DEFINE b == [c EXCEPT !.pc = p]
           r == [c EXCEPT !.pc = p, !.seen = d]
<1>1. b \in Call /\ Same(b, c) /\ b.pc = p /\ b.frame = c.frame /\ b.seen = c.seen
  BY MoveOnly DEF Moved
<1>2. r = [b EXCEPT !.seen = d]
  BY SMTT(30) DEF Call
<1> HIDE DEF b, r
<1>3. r \in Call
  BY SMTT(30), <1>1, <1>2 DEF Call
<1>4. r.pc = b.pc /\ r.frame = b.frame /\ r.seen = d
  BY SMTT(30), <1>1, <1>2 DEF Call
<1>5. Same(r, b)
  BY SMTT(30), <1>1, <1>2 DEF Call, Same
<1>6. Moved(r, c, p, c.frame, d)
  BY <1>1, <1>3, <1>4, <1>5 DEF Same, Moved
<1> QED
  BY <1>6 DEF r

-----------------------------------------------------------------------------
(* The actions, one by one *)

(* A call under way has a name and the typing of its position. *)
LEMMA Underway ==
  ASSUME IInv, NEW m \in Member, call[m] # Idle
  PROVE  Live(call[m]) /\ Fits(m, call[m]) /\ Shape(call[m]) /\ call[m] \in Call /\ call[m].name \in Name
  BY DEF IInv, CallOK, Fits, Shape

LEMMA GotKept ==
  ASSUME IInv, got' = got
  PROVE  got' \in [Member -> Got \cup {Absent}] /\ OpenedAsReferenced'
  BY DEF IInv, Typed, OpenedAsReferenced

(* Encode(): the frame is wrapped under the key of the name, unless the key was cleared. *)
LEMMA EncodeInv == ASSUME IInv, NEW m \in Member, Encode(m) PROVE IInv'
<1> DEFINE c == call[m]
           fr == encodeStoredFile(m, c.content, c.seal)
<1>1. call[m] # Idle /\ c.pc = "encode"
  BY DEF Encode, Active
<1>2. Live(c) /\ Fits(m, c) /\ Shape(c) /\ c \in Call /\ c.name \in Name
  BY <1>1, Underway
<1>3. c.op = "put" /\ c.content \in Content /\ c.seal \in SealKey \cup {Absent}
  BY <1>1, <1>2, CallFields DEF Shape, DeletePcs, ReadPcs
<1>4. fr \in Frame /\ fr.body = c.content /\ fr.seal = c.seal /\ fr.key = keys[m].key
  BY SMTT(30), <1>3 DEF encodeStoredFile, Frame, IInv, Typed, DurableTypeOK
<1>5. PICK r : r = [c EXCEPT !.pc = First, !.frame = fr]
  OBVIOUS
<1>6. /\ First \in PutPcs \cup ReadPcs /\ First \in {"check", "body"}
      /\ First = "body" => store # "guarded"
  BY DEF First, PutPcs
<1>7. r \in Call /\ Same(r, c) /\ r.pc = First /\ r.frame = fr
  <2>1. Moved([c EXCEPT !.pc = First, !.frame = fr], c, First, fr, c.seen)
    BY <1>2, <1>4, <1>6, MoveFrame
  <2> QED
    BY <1>5, <2>1 DEF Moved
<1>8. Shape(r)
  BY <1>2, <1>3, <1>6, <1>7 DEF Shape, Same, Live, PutPcs
<1>9. Framing(r) /\ Keyed(m, r)
  BY <1>1, <1>2, <1>4, <1>6, <1>7 DEF Framing, Keyed, Fits, Same
<1>10. Sealed(r) /\ Solo(r)
  BY <1>1, <1>2, <1>6, <1>7 DEF Sealed, Solo, Fits, Same, Live, ReadPcs
<1>11. Live(r) /\ r.name = c.name /\ r.alone = c.alone
  BY <1>6, <1>7 DEF Same, Live
<1>12. call' = [call EXCEPT ![m] = r]
  BY <1>5 DEF Encode, Step
<1> QED
  BY <1>2, <1>8, <1>9, <1>10, <1>11, <1>12, StillKept, GotKept DEF Encode, Fits

(* Check(): a caller that is let through holds the seal of what was kept. *)
LEMMA CheckInv == ASSUME IInv, NEW m \in Member, Check(m) PROVE IInv'
<1> DEFINE c == call[m]
<1>1. call[m] # Idle /\ c.pc = "check"
  BY DEF Check, Active
<1>2. Live(c) /\ Fits(m, c) /\ Shape(c) /\ c \in Call /\ c.name \in Name
  BY <1>1, Underway
<1>3. c.op \in {"put", "delete"}
  BY <1>1, <1>2 DEF Shape, ReadPcs
<1>4. CASE requireSealGuard(c.name, c.seal) /\ To(m, "body") /\ UNCHANGED alone
  <2>1. PICK r : r = [c EXCEPT !.pc = "body"]
    OBVIOUS
  <2>2. r \in Call /\ Same(r, c) /\ r.pc = "body" /\ r.frame = c.frame /\ r.seen = c.seen
    BY <1>2, <2>1, MoveOnly, PcFacts DEF Moved
  <2>3. Shape(r)
    BY <1>2, <1>3, <2>2 DEF Shape, Same, Live, PutPcs, DeletePcs
  <2>4. Framing(r) /\ Keyed(m, r)
    BY <1>1, <1>2, <2>2 DEF Framing, Keyed, Fits, Same
  <2>5. store = "guarded" => kept[c.name] \in {Absent, c.seal}
    BY <1>2, <1>4 DEF IInv, Guarded, requireSealGuard
  <2>6. Sealed(r) /\ Solo(r)
    BY <2>2, <2>5 DEF Sealed, Solo, Same, ReadPcs
  <2>7. call' = [call EXCEPT ![m] = r]
    BY <1>4, <2>1 DEF To, Step
  <2>8. Live(r) /\ r.name = c.name /\ r.alone = c.alone
    BY <2>2 DEF Same, Live
  <2> QED
    BY <1>2, <1>4, <2>3, <2>4, <2>6, <2>7, <2>8, StillKept, GotKept DEF Check, Fits
<1>5. CASE Ends(m, c.sound)
  <2>1. c.alone /\ c.sound /\ store # "plain" => Agree(c.name)
    BY <1>1, <1>2 DEF Fits, Solo
  <2> QED
    BY <1>2, <1>5, <2>1, EndKept, GotKept DEF Check
<1> QED
  BY <1>4, <1>5 DEF Check

(* What a finished upload leaves behind: the reference, what it keeps, and an idle engine. *)
LEMMA UploadedFacts ==
  ASSUME IInv, NEW m \in Member, Uploaded(m), Live(call[m]), call[m].op = "put", NEW n \in Name, n = call[m].name
  PROVE  /\ call' = [call EXCEPT ![m] = Idle] /\ refs' \subseteq Ref
         /\ kept' \in [Name -> SealKey \cup {Absent}] /\ \A k \in Name : k # n => kept'[k] = kept[k]
         /\ kept'[n] = IF call[m].alone THEN call[m].seal ELSE kept[n]
         /\ alone' = alone \/ (call[m].alone /\ alone' = alone \cup {n})
<1> DEFINE c == call[m]
<1>1. Shape(c) /\ c.file \in File /\ c.content \in Content /\ c.seal \in SealKey \cup {Absent}
  BY CallFields DEF IInv, CallOK, Fits, Shape
<1>2. [file |-> c.file, digest |-> c.content] \in Ref
  BY SMTT(30), <1>1 DEF Ref
<1>3. refs' \subseteq Ref
  BY <1>2 DEF Uploaded, IInv, Typed, DurableTypeOK
<1>4. kept \in [Name -> SealKey \cup {Absent}] /\ kept' = [kept EXCEPT ![n] = IF c.alone THEN c.seal ELSE kept[n]]
  BY DEF IInv, Typed, DurableTypeOK, Uploaded
<1>5. /\ kept' \in [Name -> SealKey \cup {Absent}] /\ \A k \in Name : k # n => kept'[k] = kept[k]
      /\ kept'[n] = IF call[m].alone THEN call[m].seal ELSE kept[n]
  BY <1>1, <1>4
<1> QED
  BY <1>3, <1>5 DEF Uploaded, Ends, Step

(* What a caller with the seal releases. *)
LEMMA ReleasedFacts ==
  ASSUME IInv, NEW m \in Member, Released(m), Live(call[m]), NEW n \in Name, n = call[m].name
  PROVE  /\ kept' \in [Name -> SealKey \cup {Absent}] /\ \A k \in Name : k # n => kept'[k] = kept[k]
         /\ kept'[n] = IF kept[n] = call[m].seal THEN Absent ELSE kept[n]
<1>1. kept \in [Name -> SealKey \cup {Absent}]
      /\ kept' = [kept EXCEPT ![n] = IF kept[n] = call[m].seal THEN Absent ELSE kept[n]]
  BY DEF IInv, Typed, DurableTypeOK, Released
<1> QED
  BY <1>1

(* PutBody: the object becomes the upload's own frame, and a seal it held is released. *)
LEMMA PutBodyInv == ASSUME IInv, NEW m \in Member, PutBody(m) PROVE IInv'
<1> DEFINE c == call[m]
<1>1. call[m] # Idle /\ c.pc = "body" /\ c.op = "put"
  BY DEF PutBody, Active
<1>2. Live(c) /\ Fits(m, c) /\ Shape(c) /\ c \in Call /\ c.name \in Name
  BY <1>1, Underway
<1>3. PICK n \in Name : n = c.name
  BY <1>2
<1>4. /\ c.frame \in Frame /\ c.frame # Absent /\ c.frame.body = c.content /\ c.frame.seal = c.seal
      /\ c.frame.key = n.key \/ n \in torn
  BY <1>1, <1>2, <1>3, FrameAssumption DEF Fits, Framing
<1>5. /\ object' \in [Name -> Frame \cup {Absent}] /\ object'[n] = c.frame
      /\ \A k \in Name : k # n => object'[k] = object[k]
  <2>1. object \in [Name -> Frame \cup {Absent}] /\ object' = [object EXCEPT ![n] = c.frame]
    BY <1>3 DEF IInv, Typed, DurableTypeOK, PutBody
  <2> QED
    BY <1>4, <2>1
<1>6. /\ side' \in [Name -> Content \cup {Absent}] /\ guard' \in [Name -> SealKey \cup {Absent}]
      /\ calls' = calls /\ got' \in [Member -> Got \cup {Absent}] /\ OpenedAsReferenced'
  BY GotKept DEF IInv, Typed, DurableTypeOK, PutBody
<1>7. CASE store = "plain"
  <2>1. Uploaded(m)
    BY <1>7 DEF PutBody
  <2>2. /\ call' = [call EXCEPT ![m] = Idle] /\ refs' \subseteq Ref
        /\ kept' \in [Name -> SealKey \cup {Absent}] /\ \A k \in Name : k # n => kept'[k] = kept[k]
        /\ kept'[n] = IF call[m].alone THEN call[m].seal ELSE kept[n]
        /\ alone' = alone \/ (call[m].alone /\ alone' = alone \cup {n})
    BY <1>1, <1>2, <1>3, <2>1, UploadedFacts
  <2>3. Footprint(m, Idle)
    BY <1>3, <1>5, <2>2 DEF Footprint, PutBody
  <2>4. object'[n] = object[n] \/ object'[n] = Absent \/ object'[n].key = n.key \/ n \in torn
    BY <1>4, <1>5
  <2>5. store # "guarded" /\ (alone' # alone => (store # "plain" => Agree(n)'))
    BY <1>7
  <2> QED
    BY <1>2, <1>3, <1>5, <1>6, <2>2, <2>3, <2>4, <2>5, StepKept
<1>8. CASE store # "plain"
  <2> DEFINE p == IF store = "webdav" THEN "stat" ELSE "record"
  <2>1. Released(m) /\ To(m, p) /\ refs' = refs /\ alone' = alone
    BY <1>8 DEF PutBody
  <2>2. /\ kept' \in [Name -> SealKey \cup {Absent}] /\ \A k \in Name : k # n => kept'[k] = kept[k]
        /\ kept'[n] = IF kept[n] = call[m].seal THEN Absent ELSE kept[n]
    BY <1>2, <1>3, <2>1, ReleasedFacts
  <2>3. PICK r : r = [c EXCEPT !.pc = p]
    OBVIOUS
  <2>4. p \in {"stat", "record"} /\ (p = "stat" => store = "webdav") /\ (p = "record" => store # "webdav")
    OBVIOUS
  <2> HIDE DEF p
  <2>5. r \in Call /\ Same(r, c) /\ r.pc = p /\ r.frame = c.frame /\ r.seen = c.seen
    <3>1. p \in PutPcs \cup ReadPcs
      BY <2>4, PcFacts
    <3>2. Moved([c EXCEPT !.pc = p], c, p, c.frame, c.seen)
      BY <1>2, <3>1, MoveOnly
    <3> QED
      BY <2>3, <3>2 DEF Moved
  <2>6. Live(r) /\ r.name = n /\ r.alone = c.alone
    BY <1>3, <2>4, <2>5 DEF Live, Same
  <2>7. call' = [call EXCEPT ![m] = r] /\ call'[m] = r
    BY <2>1, <2>3 DEF To, Step, IInv, Typed
  <2>8. Footprint(m, r)
    BY <1>3, <1>5, <2>1, <2>2, <2>6, <2>7 DEF Footprint, PutBody
  <2>9. store' = store /\ torn' = torn /\ keys' = keys
    BY DEF PutBody
  <2>10. Shape(r)'
    BY <1>1, <1>2, <2>4, <2>5, <2>9 DEF Shape, Same, Live, PutPcs
  <2>11. Framing(r)' /\ Keyed(m, r)'
    BY <1>1, <1>2, <2>4, <2>5, <2>9 DEF Framing, Keyed, Fits, Same
  <2>12. store = "guarded" => kept'[n] = Absent
    BY <1>1, <1>2, <1>3, <2>2 DEF Fits, Sealed
  <2>13. Sealed(r)'
    BY <2>4, <2>5, <2>6, <2>9, <2>12 DEF Sealed
  <2>14. Solo(r)'
    BY <1>1, <1>5, <2>4, <2>5, <2>6, <2>9 DEF Solo, ReadPcs, Same
  <2>15. CallOK(m)'
    BY <2>7, <2>10, <2>11, <2>13, <2>14 DEF CallOK, Fits
  <2>16. refs' \subseteq Ref
    BY <2>1 DEF IInv, Typed, DurableTypeOK
  <2>17. object'[n] = object[n] \/ object'[n] = Absent \/ object'[n].key = n.key \/ n \in torn
    BY <1>4, <1>5
  <2>18. ~(store = "guarded" /\ kept'[n] # Absent) /\ ~(alone' # alone)
    BY <2>1, <2>12
  <2> QED
    BY <1>2, <1>3, <1>5, <1>6, <2>1, <2>2, <2>8, <2>15, <2>16, <2>17, <2>18, StepKept
<1> QED
  BY <1>7, <1>8

(* Stat: WebDAV describes the object it finds, and alone that is its own. *)
LEMMA StatInv == ASSUME IInv, NEW m \in Member, Stat(m) PROVE IInv'
<1> DEFINE c == call[m]
           o == object[c.name]
           d == IF o = Absent THEN c.content ELSE o.body
<1>1. call[m] # Idle /\ c.pc = "stat"
  BY DEF Stat, Active
<1>2. Live(c) /\ Fits(m, c) /\ Shape(c) /\ c \in Call /\ c.name \in Name
  BY <1>1, Underway
<1>3. c.op = "put" /\ c.content \in Content /\ store = "webdav"
  BY <1>1, <1>2 DEF Shape, DeletePcs, ReadPcs
<1>4. o \in Frame \cup {Absent}
  BY <1>2 DEF IInv, Typed, DurableTypeOK
<1>5. d \in Content
  BY <1>3, <1>4 DEF Frame
<1>6. PICK r : r = [c EXCEPT !.pc = "record", !.seen = d]
  OBVIOUS
<1>7. r \in Call /\ Same(r, c) /\ r.pc = "record" /\ r.frame = c.frame /\ r.seen = d
  <2> HIDE DEF d
  <2>1. "record" \in PutPcs \cup ReadPcs /\ d \in Content \cup {Absent}
    BY <1>5, PcFacts
  <2>2. Moved([c EXCEPT !.pc = "record", !.seen = d], c, "record", c.frame, d)
    BY <1>2, <2>1, MoveSeen
  <2> QED
    BY <1>6, <2>2 DEF Moved
<1>8. Shape(r)
  BY <1>2, <1>3, <1>5, <1>7 DEF Shape, Same, Live, PutPcs
<1>9. Framing(r) /\ Keyed(m, r) /\ Sealed(r)
  BY <1>1, <1>2, <1>3, <1>7, "webdav" # "guarded" DEF Framing, Keyed, Sealed, Fits, Same
<1>10. c.alone => o = c.frame /\ d = c.content
  BY <1>1, <1>2, <1>3, FrameAssumption DEF Fits, Solo, Framing
<1>11. Solo(r)
  BY <1>3, <1>7, <1>10 DEF Solo, Same, ReadPcs
<1>12. Live(r) /\ r.name = c.name /\ r.alone = c.alone
  BY <1>7 DEF Same, Live
<1>13. call' = [call EXCEPT ![m] = r]
  BY <1>6 DEF Stat, Step
<1> QED
  BY <1>2, <1>8, <1>9, <1>11, <1>12, <1>13, StillKept, GotKept DEF Stat, Fits

(* PutRecord: metadata and guard of the upload; alone, they describe the object under them. *)
LEMMA PutRecordInv == ASSUME IInv, NEW m \in Member, PutRecord(m) PROVE IInv'
<1> DEFINE c == call[m]
           d == IF store = "webdav" THEN c.seen ELSE c.content
<1>1. call[m] # Idle /\ c.pc = "record" /\ c.op = "put"
  BY DEF PutRecord, Active
<1>2. Live(c) /\ Fits(m, c) /\ Shape(c) /\ c \in Call /\ c.name \in Name
  BY <1>1, Underway
<1>3. PICK n \in Name : n = c.name
  BY <1>2
<1>4. d \in Content /\ c.seal \in SealKey \cup {Absent}
  BY <1>1, <1>2, CallFields DEF Shape
<1>5. /\ side' \in [Name -> Content \cup {Absent}] /\ side'[n] = d
      /\ \A k \in Name : k # n => side'[k] = side[k]
  <2>1. side \in [Name -> Content \cup {Absent}] /\ side' = [side EXCEPT ![n] = d]
    BY <1>3 DEF IInv, Typed, DurableTypeOK, PutRecord
  <2> QED
    BY <1>4, <2>1
<1>6. /\ guard' \in [Name -> SealKey \cup {Absent}] /\ (store = "guarded" => guard'[n] = c.seal)
      /\ \A k \in Name : k # n => guard'[k] = guard[k]
  <2>1. guard \in [Name -> SealKey \cup {Absent}]
        /\ guard' = IF store = "guarded" THEN [guard EXCEPT ![n] = c.seal] ELSE guard
    BY <1>3 DEF IInv, Typed, DurableTypeOK, PutRecord
  <2> QED
    BY <1>4, <2>1
<1>7. /\ call' = [call EXCEPT ![m] = Idle] /\ refs' \subseteq Ref
      /\ kept' \in [Name -> SealKey \cup {Absent}] /\ \A k \in Name : k # n => kept'[k] = kept[k]
      /\ kept'[n] = IF call[m].alone THEN call[m].seal ELSE kept[n]
      /\ alone' = alone \/ (call[m].alone /\ alone' = alone \cup {n})
  BY <1>1, <1>2, <1>3, UploadedFacts DEF PutRecord
<1>8. /\ object' = object /\ object' \in [Name -> Frame \cup {Absent}]
      /\ calls' = calls /\ got' \in [Member -> Got \cup {Absent}] /\ OpenedAsReferenced'
  BY GotKept DEF IInv, Typed, DurableTypeOK, PutRecord
<1>9. Footprint(m, Idle)
  BY <1>3, <1>5, <1>6, <1>7, <1>8 DEF Footprint, PutRecord
<1>10. c.alone => /\ object[n] = c.frame /\ object[n] # Absent /\ object[n].body = c.content
                  /\ object[n].seal = c.seal /\ d = c.content
  BY <1>1, <1>2, <1>3, FrameAssumption DEF Fits, Solo, Framing
<1>11. alone' # alone => (store # "plain" => Agree(n)')
  BY <1>5, <1>7, <1>8, <1>10 DEF Agree
<1>12. store = "guarded" /\ kept'[n] # Absent =>
         guard'[n] = kept'[n] /\ object'[n] # Absent /\ object'[n].seal = kept'[n]
  <2>1. store = "guarded" => kept[n] = Absent
    BY <1>1, <1>2, <1>3 DEF Fits, Sealed
  <2> QED
    BY <1>6, <1>7, <1>8, <1>10, <2>1
<1> QED
  BY <1>2, <1>3, <1>5, <1>6, <1>7, <1>8, <1>9, <1>11, <1>12, StepKept

(* DeleteBody: the object goes, and a seal the caller held is released. *)
LEMMA DeleteBodyInv == ASSUME IInv, NEW m \in Member, DeleteBody(m) PROVE IInv'
<1> DEFINE c == call[m]
<1>1. call[m] # Idle /\ c.pc = "body" /\ c.op = "delete"
  BY DEF DeleteBody, Active
<1>2. Live(c) /\ Fits(m, c) /\ Shape(c) /\ c \in Call /\ c.name \in Name
  BY <1>1, Underway
<1>3. PICK n \in Name : n = c.name
  BY <1>2
<1>4. /\ object' \in [Name -> Frame \cup {Absent}] /\ object'[n] = Absent
      /\ \A k \in Name : k # n => object'[k] = object[k]
  <2>1. object \in [Name -> Frame \cup {Absent}] /\ object' = [object EXCEPT ![n] = Absent]
    BY <1>3 DEF IInv, Typed, DurableTypeOK, DeleteBody
  <2> QED
    BY <2>1
<1>5. /\ side' \in [Name -> Content \cup {Absent}] /\ guard' \in [Name -> SealKey \cup {Absent}]
      /\ refs' \subseteq Ref /\ calls' = calls /\ got' \in [Member -> Got \cup {Absent}] /\ OpenedAsReferenced'
  BY GotKept DEF IInv, Typed, DurableTypeOK, DeleteBody
<1>6. /\ kept' \in [Name -> SealKey \cup {Absent}] /\ \A k \in Name : k # n => kept'[k] = kept[k]
      /\ kept'[n] = IF kept[n] = call[m].seal THEN Absent ELSE kept[n]
  BY <1>2, <1>3, ReleasedFacts DEF DeleteBody
<1>7. store = "guarded" => kept'[n] = Absent
  BY <1>1, <1>2, <1>3, <1>6 DEF Fits, Sealed
<1>8. store' = store /\ torn' = torn /\ keys' = keys /\ side' = side /\ guard' = guard
  BY DEF DeleteBody
<1>9. CASE store = "plain"
  <2>1. Ends(m, TRUE)
    BY <1>9 DEF DeleteBody
  <2>2. call' = [call EXCEPT ![m] = Idle] /\ (alone' = alone \/ (c.alone /\ alone' = alone \cup {n}))
    BY <1>3, <2>1 DEF Ends, Step
  <2>3. Footprint(m, Idle)
    BY <1>3, <1>4, <1>6, <1>8, <2>2 DEF Footprint
  <2>4. store # "guarded" /\ (alone' # alone => (store # "plain" => Agree(n)'))
    BY <1>9
  <2> QED
    BY <1>2, <1>3, <1>4, <1>5, <1>6, <2>3, <2>4, StepKept
<1>10. CASE store # "plain"
  <2>1. To(m, "record") /\ alone' = alone
    BY <1>10 DEF DeleteBody
  <2>2. PICK r : r = [c EXCEPT !.pc = "record"]
    OBVIOUS
  <2>3. r \in Call /\ Same(r, c) /\ r.pc = "record" /\ r.frame = c.frame /\ r.seen = c.seen
    <3>1. "record" \in PutPcs \cup ReadPcs
      BY PcFacts
    <3>2. Moved([c EXCEPT !.pc = "record"], c, "record", c.frame, c.seen)
      BY <1>2, <3>1, MoveOnly
    <3> QED
      BY <2>2, <3>2 DEF Moved
  <2>4. Live(r) /\ r.name = n /\ r.alone = c.alone /\ r.op = "delete"
    BY <1>1, <1>3, <2>3 DEF Live, Same
  <2>5. call' = [call EXCEPT ![m] = r] /\ call'[m] = r
    BY <2>1, <2>2 DEF To, Step, IInv, Typed
  <2>6. Footprint(m, r)
    BY <1>3, <1>4, <1>6, <1>8, <2>1, <2>4, <2>5 DEF Footprint
  <2>7. Shape(r)'
    BY <1>1, <1>2, <1>8, <2>3 DEF Shape, Same, Live, DeletePcs
  <2>8. Framing(r)' /\ Keyed(m, r)'
    BY <1>2, <1>8, <2>3, <2>4, "record" # "encode", "delete" # "put" DEF Framing, Keyed, Fits, Same
  <2>9. Sealed(r)' /\ Solo(r)'
    BY <1>4, <1>7, <1>8, <2>3, <2>4, "delete" # "put" DEF Sealed, Solo, ReadPcs
  <2>10. CallOK(m)'
    BY <2>5, <2>7, <2>8, <2>9 DEF CallOK, Fits
  <2>11. ~(store = "guarded" /\ kept'[n] # Absent) /\ ~(alone' # alone)
    BY <1>7, <2>1
  <2> QED
    BY <1>2, <1>3, <1>4, <1>5, <1>6, <2>6, <2>10, <2>11, StepKept
<1> QED
  BY <1>9, <1>10

(* DeleteRecord: the metadata goes with the object, or WebDAV keeps it and the name is not in order. *)
LEMMA DeleteRecordInv == ASSUME IInv, NEW m \in Member, DeleteRecord(m) PROVE IInv'
<1> DEFINE c == call[m]
<1>1. call[m] # Idle /\ c.pc = "record" /\ c.op = "delete"
  BY DEF DeleteRecord, Active
<1>2. Live(c) /\ Fits(m, c) /\ Shape(c) /\ c \in Call /\ c.name \in Name
  BY <1>1, Underway
<1>3. PICK n \in Name : n = c.name
  BY <1>2
<1>4. /\ guard' \in [Name -> SealKey \cup {Absent}] /\ \A k \in Name : k # n => guard'[k] = guard[k]
  <2>1. guard \in [Name -> SealKey \cup {Absent}] /\ guard' = [guard EXCEPT ![n] = Absent]
    BY <1>3 DEF IInv, Typed, DurableTypeOK, DeleteRecord
  <2> QED
    BY <2>1
<1>5. /\ object' = object /\ object' \in [Name -> Frame \cup {Absent}]
      /\ kept' = kept /\ kept' \in [Name -> SealKey \cup {Absent}]
      /\ refs' \subseteq Ref /\ calls' = calls /\ got' \in [Member -> Got \cup {Absent}] /\ OpenedAsReferenced'
      /\ store' = store /\ keys' = keys /\ torn' = torn
  BY GotKept DEF IInv, Typed, DurableTypeOK, DeleteRecord
<1>6. /\ side' \in [Name -> Content \cup {Absent}] /\ \A k \in Name : k # n => side'[k] = side[k]
      /\ call' = [call EXCEPT ![m] = Idle]
      /\ alone' = alone \/ (c.alone /\ alone' = alone \cup {n} /\ side'[n] = Absent)
  <2>1. side \in [Name -> Content \cup {Absent}]
    BY DEF IInv, Typed, DurableTypeOK
  <2>2. CASE side' = [side EXCEPT ![n] = Absent] /\ Ends(m, TRUE)
    BY <1>3, <2>1, <2>2 DEF Ends, Step
  <2>3. CASE Ends(m, FALSE) /\ side' = side
    BY <1>3, <2>1, <2>3 DEF Ends, Step
  <2> QED
    BY <1>3, <2>2, <2>3 DEF DeleteRecord
<1>7. Footprint(m, Idle)
  BY <1>3, <1>4, <1>5, <1>6 DEF Footprint
<1>8. alone' # alone => (store # "plain" => Agree(n)')
  BY <1>1, <1>2, <1>3, <1>5, <1>6 DEF Fits, Solo, Agree
<1>9. ~(store = "guarded" /\ kept'[n] # Absent)
  BY <1>1, <1>2, <1>3, <1>5 DEF Fits, Sealed
<1> QED
  BY <1>2, <1>3, <1>4, <1>5, <1>6, <1>7, <1>8, <1>9, StepKept

(* A reader that moves on without writing anything. *)
LEMMA ReadOn ==
  ASSUME IInv, NEW m \in Member, Live(call[m]), call[m].pc \in ReadPcs, NEW p \in ReadPcs, NEW f, NEW d,
         NEW r, Moved(r, call[m], p, f, d), call' = [call EXCEPT ![m] = r],
         UNCHANGED <<store, keys, object, side, guard, refs, calls, got, kept, alone, torn>>,
         p = "touch" => d \in Content, p \in {"meta", "touch", "decode"} => f \in Frame,
         Agree(call[m].name) /\ p = "touch" => d = side[call[m].name]
  PROVE  IInv'
<1> DEFINE c == call[m]
<1>1. Fits(m, c) /\ Shape(c) /\ c.name \in Name
  BY DEF IInv, CallOK, Fits, Shape
<1>2. c.op \in {"open", "describe"} /\ c.op # "put" /\ c.op # "delete"
  BY <1>1 DEF Shape, PutPcs, DeletePcs, ReadPcs
<1>3. /\ r \in Call /\ Same(r, c) /\ r.pc = p /\ r.frame = f /\ r.seen = d
      /\ p # "none" /\ p # "encode" /\ p # "stat" /\ p # "record"
  BY DEF Moved, ReadPcs
<1>4. Live(r) /\ r.name = c.name /\ r.alone = c.alone
  BY <1>3 DEF Same, Live
<1>5. Shape(r)
  BY <1>1, <1>2, <1>3, <1>4 DEF Shape, Same
<1>6. Framing(r) /\ Keyed(m, r) /\ Sealed(r)
  BY <1>1, <1>2, <1>3 DEF Framing, Keyed, Sealed, Fits, Same
<1>7. Solo(r)
  <2> SUFFICES ASSUME Live(r), r.alone PROVE Solo(r)
    BY DEF Solo
  <2>1. store # "plain" /\ r.sound => Agree(c.name)
    BY <1>1, <1>3, <1>4 DEF Fits, Solo, Same
  <2> QED
    BY <1>2, <1>3, <2>1 DEF Solo, Same
<1> QED
  BY <1>1, <1>4, <1>5, <1>6, <1>7, StillKept, GotKept DEF Fits

(* A reader that ends finds its name in the order it met. *)
LEMMA ReadEnd ==
  ASSUME IInv, NEW m \in Member, Live(call[m]), call[m].pc \in ReadPcs, Ends(m, call[m].sound),
         UNCHANGED <<store, keys, object, side, guard, refs, calls, kept, torn>>,
         got' \in [Member -> Got \cup {Absent}], OpenedAsReferenced'
  PROVE  IInv'
<1>1. Fits(m, call[m]) /\ call[m].name \in Name
  BY DEF IInv, CallOK, Fits, Shape
<1>2. call[m].alone /\ call[m].sound /\ store # "plain" => Agree(call[m].name)
  BY <1>1 DEF Fits, Solo
<1> QED
  BY <1>1, <1>2, EndKept

(* Look: nothing to describe, or on to the bytes. *)
LEMMA LookInv == ASSUME IInv, NEW m \in Member, Look(m) PROVE IInv'
<1> DEFINE c == call[m]
<1>1. call[m] # Idle /\ c.pc = "look" /\ c.pc \in ReadPcs
  BY DEF Look, Active, ReadPcs
<1>2. Live(c) /\ c \in Call
  BY <1>1, Underway
<1>3. CASE Ends(m, c.sound)
  BY <1>1, <1>2, <1>3, ReadEnd, GotKept DEF Look
<1>4. CASE To(m, "bytes") /\ UNCHANGED alone
  <2>1. "bytes" \in ReadPcs /\ "bytes" \in PutPcs \cup ReadPcs /\ "bytes" \notin {"meta", "touch", "decode"}
    BY DEF ReadPcs
  <2>2. PICK r : r = [c EXCEPT !.pc = "bytes"]
    OBVIOUS
  <2>3. Moved(r, c, "bytes", c.frame, c.seen)
    BY <1>2, <2>1, <2>2, MoveOnly
  <2>4. call' = [call EXCEPT ![m] = r]
    BY <1>4, <2>2 DEF To, Step
  <2> QED
    BY <1>1, <1>2, <1>4, <2>1, <2>3, <2>4, ReadOn DEF Look
<1> QED
  BY <1>3, <1>4 DEF Look

(* Bytes: the object as it is now, or nothing. *)
LEMMA BytesInv == ASSUME IInv, NEW m \in Member, Bytes(m) PROVE IInv'
<1> DEFINE c == call[m]
           o == object[c.name]
           p == IF store = "webdav" THEN "meta" ELSE "decode"
<1>1. call[m] # Idle /\ c.pc = "bytes" /\ c.pc \in ReadPcs
  BY DEF Bytes, Active, ReadPcs
<1>2. Live(c) /\ c \in Call /\ c.name \in Name
  BY <1>1, Underway
<1>3. CASE o = Absent
  BY <1>1, <1>2, <1>3, ReadEnd, GotKept DEF Bytes
<1>4. CASE o # Absent
  <2>1. o \in Frame
    BY <1>2, <1>4 DEF IInv, Typed, DurableTypeOK
  <2>2. p \in ReadPcs /\ p \in PutPcs \cup ReadPcs /\ p # "touch"
    BY DEF ReadPcs
  <2>3. PICK r : r = [c EXCEPT !.pc = p, !.frame = o]
    OBVIOUS
  <2>4. call' = [call EXCEPT ![m] = r]
    BY <1>4, <2>3 DEF Bytes, Step
  <2> HIDE DEF p
  <2>5. Moved(r, c, p, o, c.seen)
    BY <1>2, <2>1, <2>2, <2>3, MoveFrame
  <2> QED
    BY <1>1, <1>2, <1>4, <2>1, <2>2, <2>4, <2>5, ReadOn DEF Bytes
<1> QED
  BY <1>3, <1>4

(* Meta: where the metadata agrees it is what the reader will write back. *)
LEMMA MetaInv == ASSUME IInv, NEW m \in Member, Meta(m) PROVE IInv'
<1> DEFINE c == call[m]
           d == Described(c.name)
           p == IF d = Absent THEN "decode" ELSE "touch"
<1>1. call[m] # Idle /\ c.pc = "meta" /\ c.pc \in ReadPcs
  BY DEF Meta, Active, ReadPcs
<1>2. Live(c) /\ c \in Call /\ c.name \in Name /\ Shape(c)
  BY <1>1, Underway
<1>3. d \in Content \cup {Absent}
  <2>1. object[c.name] \in Frame \cup {Absent} /\ side[c.name] \in Content \cup {Absent}
    BY <1>2 DEF IInv, Typed, DurableTypeOK
  <2>2. \A f \in Frame : f.body \in Content
    BY SMTT(30) DEF Frame
  <2> QED
    BY <2>1, <2>2 DEF Described
<1>4. p \in ReadPcs /\ p \in PutPcs \cup ReadPcs /\ (p = "touch" => d # Absent)
  BY DEF ReadPcs
<1>5. Agree(c.name) /\ p = "touch" => d = side[c.name]
  BY DEF Agree, Described
<1>6. PICK r : r = [c EXCEPT !.pc = p, !.seen = d]
  OBVIOUS
<1>7. call' = [call EXCEPT ![m] = r]
  BY <1>6 DEF Meta, Step
<1>8. c.frame \in Frame
  BY <1>1, <1>2 DEF Shape
<1>9. p = "touch" => d \in Content
  BY <1>3, <1>4
<1> HIDE DEF p, d
<1>10. Moved(r, c, p, c.frame, d)
  BY <1>2, <1>3, <1>4, <1>6, MoveSeen
<1>11. UNCHANGED <<store, keys, object, side, guard, refs, calls, got, kept, alone, torn>>
  BY DEF Meta
<1> QED
  BY <1>1, <1>2, <1>4, <1>5, <1>7, <1>8, <1>9, <1>10, <1>11, ReadOn

(* Breaks: a call that breaks off leaves its name out of order. *)
LEMMA BreaksInv == ASSUME IInv, NEW m \in Member, Breaks(m) PROVE IInv'
<1>1. Live(call[m]) /\ call[m].name \in Name
  BY Underway DEF Breaks
<1> QED
  BY <1>1, EndKept, GotKept DEF Breaks

(* Touch: the metadata a lone reader writes back is the one that is there. *)
LEMMA TouchInv == ASSUME IInv, NEW m \in Member, Touch(m) PROVE IInv'
<1> DEFINE c == call[m]
<1>1. call[m] # Idle /\ c.pc = "touch" /\ c.pc \in ReadPcs
  BY DEF Touch, Active, ReadPcs
<1>2. Live(c) /\ Fits(m, c) /\ Shape(c) /\ c \in Call /\ c.name \in Name
  BY <1>1, Underway
<1>3. PICK n \in Name : n = c.name
  BY <1>2
<1>4. c.seen \in Content /\ c.frame \in Frame
  BY <1>1, <1>2 DEF Shape
<1>5. /\ side' \in [Name -> Content \cup {Absent}] /\ side'[n] = c.seen
      /\ \A k \in Name : k # n => side'[k] = side[k]
  <2>1. side \in [Name -> Content \cup {Absent}] /\ side' = [side EXCEPT ![n] = c.seen]
    BY <1>3 DEF IInv, Typed, DurableTypeOK, Touch
  <2> QED
    BY <1>4, <2>1
<1>6. /\ object' \in [Name -> Frame \cup {Absent}] /\ guard' \in [Name -> SealKey \cup {Absent}]
      /\ kept' \in [Name -> SealKey \cup {Absent}] /\ refs' \subseteq Ref /\ calls' = calls
      /\ got' \in [Member -> Got \cup {Absent}] /\ OpenedAsReferenced'
      /\ UNCHANGED <<store, keys, object, guard, kept, alone, torn>>
  BY GotKept DEF IInv, Typed, DurableTypeOK, Touch
<1>7. PICK r : r = [c EXCEPT !.pc = "decode"]
  OBVIOUS
<1>8. r \in Call /\ Same(r, c) /\ r.pc = "decode" /\ r.frame = c.frame /\ r.seen = c.seen
  <2>1. "decode" \in PutPcs \cup ReadPcs
    BY PcFacts
  <2>2. Moved([c EXCEPT !.pc = "decode"], c, "decode", c.frame, c.seen)
    BY <1>2, <2>1, MoveOnly
  <2> QED
    BY <1>7, <2>2 DEF Moved
<1>9. c.op \in {"open", "describe"} /\ c.op # "put" /\ c.op # "delete"
  BY <1>1, <1>2 DEF Shape, PutPcs, DeletePcs
<1>10. Live(r) /\ r.name = n /\ r.alone = c.alone /\ r.op = c.op /\ r.sound = c.sound
  BY <1>3, <1>8 DEF Live, Same
<1>11. call' = [call EXCEPT ![m] = r] /\ call'[m] = r
  BY <1>7 DEF Touch, To, Step, IInv, Typed
<1>12. Footprint(m, r)
  BY <1>3, <1>5, <1>6, <1>10, <1>11 DEF Footprint
<1>13. Shape(r)'
  BY <1>2, <1>4, <1>6, <1>8, <1>9, <1>10 DEF Shape, Same, ReadPcs
<1>14. Framing(r)' /\ Keyed(m, r)' /\ Sealed(r)'
  BY <1>2, <1>6, <1>8, <1>9 DEF Framing, Keyed, Sealed, Fits, Same
<1>15. Solo(r)'
  <2>1. c.alone /\ store # "plain" /\ c.sound => Agree(n) /\ c.seen = side[n]
    BY <1>1, <1>2, <1>3 DEF Fits, Solo
  <2>2. c.alone /\ store # "plain" /\ c.sound => Agree(n)'
    BY <1>5, <1>6, <2>1 DEF Agree
  <2> QED
    BY <1>6, <1>8, <1>9, <1>10, <2>2 DEF Solo
<1>16. CallOK(m)'
  BY <1>11, <1>13, <1>14, <1>15 DEF CallOK, Fits
<1>17. store = "guarded" /\ kept'[n] # Absent =>
         guard'[n] = kept'[n] /\ object'[n] # Absent /\ object'[n].seal = kept'[n]
  BY <1>6 DEF IInv, Guarded
<1> QED
  BY <1>2, <1>3, <1>5, <1>6, <1>12, <1>16, <1>17, StepKept

(* Decode: what an open by reference returns is what the reference was made for. *)
LEMMA DecodeInv == ASSUME IInv, NEW m \in Member, Decode(m) PROVE IInv'
<1> DEFINE c == call[m]
           g == [name |-> c.name, ref |-> c.ref, content |-> c.frame.body]
<1>1. call[m] # Idle /\ c.pc = "decode" /\ c.pc \in ReadPcs
  BY DEF Decode, Active, ReadPcs
<1>2. Live(c) /\ Fits(m, c) /\ Shape(c) /\ c \in Call /\ c.name \in Name
  BY <1>1, Underway
<1>3. c.frame \in Frame /\ c.ref \in Content \cup {Absent}
  BY <1>1, <1>2, CallFields DEF Shape
<1>4. g \in Got
  BY SMTT(30), <1>2, <1>3 DEF Got, Frame
<1>5. \/ got' = got
      \/ got' = [got EXCEPT ![m] = g] /\ (keys[m].port = "web" => Verified(c.ref, c.frame))
  BY DEF Decode
<1>6. keys[m].port \in {"web", "python"}
  BY SMTT(30) DEF IInv, Typed, DurableTypeOK
<1>7. keys[m].port = "python" => c.ref = Absent
  BY <1>2 DEF Fits, Keyed
<1>8. CASE got' = got
  BY <1>1, <1>2, <1>8, ReadEnd, GotKept DEF Decode
<1>9. CASE got' = [got EXCEPT ![m] = g] /\ (keys[m].port = "web" => Verified(c.ref, c.frame))
  <2>1. c.ref # Absent => c.frame.body = c.ref
    BY <1>6, <1>7, <1>9 DEF Verified
  <2>2. g.ref = c.ref /\ g.content = c.frame.body
    BY SMTT(30)
  <2> HIDE DEF g
  <2>3. got \in [Member -> Got \cup {Absent}]
    BY DEF IInv, Typed
  <2>4. got' \in [Member -> Got \cup {Absent}] /\ \A x \in Member : got'[x] = IF x = m THEN g ELSE got[x]
    BY <1>4, <1>9, <2>3
  <2>5. OpenedAsReferenced'
    BY <2>1, <2>4, <2>2 DEF OpenedAsReferenced, IInv
  <2> QED
    BY <1>1, <1>2, <2>4, <2>5, ReadEnd DEF Decode
<1> QED
  BY <1>5, <1>8, <1>9

(* clearCredentials(): an upload that was named and is not yet encoded is marked torn. *)
LEMMA ClearInv == ASSUME IInv, NEW m \in Member, clearCredentials(m) PROVE IInv'
<1>1. UNCHANGED <<store, object, side, guard, call, refs, got, kept, alone>> /\ calls \in 0..MaxCalls
      /\ calls > 0 /\ calls' = calls - 1
  BY DEF clearCredentials, IInv, Typed, DurableTypeOK
<1>2. calls' \in 0..MaxCalls
  BY SMTT(30), <1>1, DurableAssumption
<1>3. /\ keys' \in [Member -> [port : {"web", "python"}, key : {MeshKey, Absent}]]
      /\ \A x \in Member : keys'[x].port = keys[x].port /\ (x # m => keys'[x].key = keys[x].key)
  BY SMTT(30) DEF clearCredentials, IInv, Typed, DurableTypeOK
<1>4. torn \subseteq torn' /\ torn' \subseteq Name
  BY Underway DEF clearCredentials, Active, IInv, Typed, DurableTypeOK
<1>5. call[m].pc = "encode" => call[m].name \in torn'
  BY IdleShape, "none" # "encode" DEF clearCredentials, Active, Live
<1>6. ASSUME NEW x \in Member PROVE CallOK(x)'
  <2>1. Fits(x, call[x])
    BY DEF IInv, CallOK
  <2>2. Shape(call[x])' /\ Sealed(call[x])'
    BY <1>1, <2>1 DEF Fits, Shape, Sealed
  <2>3. Solo(call[x])'
    BY <1>1, <2>1 DEF Fits, Solo, Agree
  <2>4. Framing(call[x])'
    BY <1>1, <1>4, <2>1 DEF Fits, Framing
  <2>5. Keyed(x, call[x])'
    BY <1>1, <1>3, <1>4, <1>5, <2>1 DEF Fits, Keyed
  <2> QED
    BY <2>2, <2>4, <2>5, <2>3 DEF CallOK, Fits
<1>7. Apart' /\ Quiet' /\ Guarded' /\ OpenedAsReferenced' /\ MetadataAgrees'
  BY <1>1 DEF IInv, Apart, Quiet, Guarded, OpenedAsReferenced, MetadataAgrees
<1>8. FramedUnderItsName'
  BY <1>1, <1>4 DEF IInv, FramedUnderItsName
<1>9. Typed'
  BY <1>1, <1>2, <1>3, <1>4 DEF IInv, Typed, DurableTypeOK
<1> QED
  BY <1>6, <1>7, <1>8, <1>9 DEF IInv

-----------------------------------------------------------------------------
(* How a call begins: the record putFile() and the others hand to Starts. *)
Fresh(m, n, rec) ==
    /\ rec \in Call /\ rec.file \in File
    /\ \/ rec.op = "put" /\ rec.pc \in {"encode", "check", "body"} /\ rec.content \in Content
       \/ rec.op = "delete" /\ rec.pc \in {"check", "body"}
       \/ rec.op \in {"open", "describe"} /\ rec.pc \in {"look", "bytes"}
    /\ rec.pc = "body" => store # "guarded"
    /\ rec.op = "put" /\ rec.pc # "encode" =>
         rec.frame \in Frame /\ rec.frame.body = rec.content /\ rec.frame.seal = rec.seal /\ rec.frame.key = n.key
    /\ rec.pc = "encode" => n.key = keys[m].key
    /\ keys[m].port = "python" => rec.ref = Absent

(* The record as it begins, under its name and marked alone or not. *)
Begun(c, rec, n, a, b) ==
    /\ c \in Call /\ c.op = rec.op /\ c.pc = rec.pc /\ c.file = rec.file /\ c.name = n /\ c.content = rec.content
    /\ c.seal = rec.seal /\ c.ref = rec.ref /\ c.frame = rec.frame /\ c.seen = rec.seen
    /\ c.alone = a /\ c.sound = b

LEMMA BeginFields ==
  ASSUME NEW rec \in Call, NEW n \in Name, NEW a \in BOOLEAN, NEW b \in BOOLEAN
  PROVE  Begun([rec EXCEPT !.name = n, !.alone = a, !.sound = b], rec, n, a, b)
<1> DEFINE s == [rec EXCEPT !.name = n]
           t == [s EXCEPT !.alone = a]
           c == [rec EXCEPT !.name = n, !.alone = a, !.sound = b]
<1>1. Begun(s, rec, n, rec.alone, rec.sound)
  <2>1. s \in Call
    BY SMTT(30) DEF Call
  <2> QED
    BY SMTT(30), <2>1 DEF Call, Begun
<1>2. Begun(t, s, n, a, s.sound)
  <2>1. s \in Call /\ s.name = n
    BY <1>1 DEF Begun
  <2> HIDE DEF s
  <2>2. t \in Call
    BY SMTT(30), <2>1 DEF Call
  <2> QED
    BY SMTT(30), <2>1, <2>2 DEF Call, Begun
<1>3. c = [t EXCEPT !.sound = b]
  BY SMTT(30) DEF Call
<1>4. Begun(c, t, n, a, b)
  <2>1. t \in Call /\ t.name = n /\ t.alone = a
    BY <1>2 DEF Begun
  <2> HIDE DEF t, c
  <2>2. c \in Call
    BY SMTT(30), <1>3, <2>1 DEF Call
  <2> QED
    BY SMTT(30), <1>3, <2>1, <2>2 DEF Call, Begun
<1> HIDE DEF s, t, c
<1>5. Begun(c, rec, n, a, b)
  BY <1>1, <1>2, <1>4 DEF Begun
<1> QED
  BY <1>5 DEF c

(* A call that is no longer alone is otherwise the same. *)
LEMMA CrowdFields ==
  ASSUME NEW c \in Call
  PROVE  Begun([c EXCEPT !.alone = FALSE], c, c.name, FALSE, c.sound)
<1>1. \A a \in BOOLEAN : Begun([c EXCEPT !.alone = a], c, c.name, a, c.sound)
  <2> SUFFICES ASSUME NEW a \in BOOLEAN PROVE Begun([c EXCEPT !.alone = a], c, c.name, a, c.sound)
    OBVIOUS
  <2>1. [c EXCEPT !.alone = a] \in Call
    BY SMTT(30) DEF Call
  <2> QED
    BY SMTT(30), <2>1 DEF Call, Begun
<1> QED
  BY <1>1

(* A call begins: it is alone exactly if no other is under way on its name, and the others on
   that name are not alone any more. *)
LEMMA StartKept ==
  ASSUME IInv, NEW m \in Member, NEW n \in Name, NEW rec, Starts(m, n, rec), Fresh(m, n, rec)
  PROVE  IInv'
<1> DEFINE with == {x \in Member : call[x] # Idle /\ call[x].name = n}
           a == with = {}
           b == n \in alone
<1>1. PICK c : c = [rec EXCEPT !.name = n, !.alone = a, !.sound = b]
  OBVIOUS
<1>2. Begun(c, rec, n, a, b)
  <2>1. a \in BOOLEAN /\ b \in BOOLEAN
    BY SMTT(30)
  <2>2. rec \in Call
    BY DEF Fresh
  <2> HIDE DEF a, b
  <2> QED
    BY <1>1, <2>1, <2>2, BeginFields
<1>3. /\ call' = [x \in Member |-> IF x = m THEN c ELSE IF x \in with THEN [call[x] EXCEPT !.alone = FALSE] ELSE call[x]]
      /\ call[m] = Idle /\ m \notin with /\ call'[m] = c
  BY <1>1 DEF Starts
<1>4. ASSUME NEW x \in Member, x # m
      PROVE  \/ call'[x] = call[x] /\ ~(Live(call[x]) /\ call[x].name = n)
             \/ Begun(call'[x], call[x], n, FALSE, call[x].sound) /\ Live(call[x]) /\ call[x].name = n
  <2>1. call[x] \in Call /\ (call[x] # Idle <=> Live(call[x]))
    BY IdleShape DEF IInv, CallOK, Fits, Shape
  <2>2. CASE x \in with
    <3>1. call'[x] = [call[x] EXCEPT !.alone = FALSE] /\ call[x].name = n /\ call[x] # Idle
      BY <1>3, <1>4, <2>2
    <3>2. Begun(call'[x], call[x], n, FALSE, call[x].sound)
      BY <2>1, <3>1, CrowdFields
    <3> QED
      BY <2>1, <3>1, <3>2
  <2>3. CASE x \notin with
    BY <1>3, <1>4, <2>1, <2>3
  <2> QED
    BY <2>2, <2>3
<1>5. UNCHANGED <<store, keys, object, side, guard, refs, kept, torn>> /\ alone' = alone \ {n}
  BY DEF Starts
<1>6. Live(c) /\ c.name = n /\ (c.alone => with = {})
  BY <1>2 DEF Begun, Fresh, Live
<1>7. CallOK(m)'
  <2>1. Shape(c)
    BY <1>2 DEF Begun, Fresh, Shape, Live, PutPcs, DeletePcs, ReadPcs
  <2>2. Framing(c) /\ Keyed(m, c) /\ Sealed(c)
    BY <1>2 DEF Begun, Fresh, Framing, Keyed, Sealed
  <2>3. Solo(c)
    <3>1. c.pc \in {"encode", "check", "body", "look", "bytes"} /\ (c.sound => n \in alone)
      BY <1>2 DEF Begun, Fresh
    <3>2. store # "plain" /\ c.sound => Agree(n)
      BY <3>1 DEF IInv, MetadataAgrees, Agree
    <3> QED
      BY <1>6, <3>1, <3>2 DEF Solo
  <2>4. Fits(m, c)'
    BY <1>5, <2>1, <2>2, <2>3, FitsStill DEF Fits
  <2> QED
    BY <1>3, <2>4 DEF CallOK
<1>8. ASSUME NEW x \in Member, x # m PROVE CallOK(x)'
  <2>1. Fits(x, call[x])
    BY DEF IInv, CallOK
  <2>2. CASE call'[x] = call[x]
    <3>1. PICK c1 : c1 = call[x]
      OBVIOUS
    <3>2. Fits(x, c1)'
      BY <1>5, <2>1, <3>1, FitsStill
    <3> QED
      BY <2>2, <3>1, <3>2 DEF CallOK
  <2>3. CASE Begun(call'[x], call[x], n, FALSE, call[x].sound) /\ Live(call[x]) /\ call[x].name = n
    <3>1. Shape(call[x])'
      BY <1>5, <2>1, <2>3 DEF Fits, Shape, Begun, Live
    <3>2. Framing(call[x])' /\ Keyed(x, call[x])'
      BY <1>5, <2>1, <2>3 DEF Fits, Framing, Keyed, Begun
    <3>3. Sealed(call[x])' /\ Solo(call[x])'
      BY <1>5, <2>1, <2>3 DEF Fits, Sealed, Solo, Begun
    <3> QED
      BY <3>1, <3>2, <3>3 DEF CallOK, Fits
  <2> QED
    BY <1>4, <1>8, <2>2, <2>3
<1>9. Apart'
  <2> SUFFICES ASSUME NEW y \in Member, NEW z \in Member, y # z, Live(call'[y]), Live(call'[z]),
                      call'[y].name = call'[z].name, call'[y].alone
               PROVE  FALSE
    BY DEF Apart, Live
  <2>1. CASE y = m
    <3>1. with = {} /\ call'[z].name = n
      BY <1>3, <1>6, <2>1
    <3>2. Live(call[z]) /\ call[z].name = n
      BY <1>4, <2>1, <3>1
    <3>3. call[z] # Idle
      BY <3>2, IdleShape
    <3> QED
      BY <3>1, <3>2, <3>3
  <2>2. CASE z = m
    <3>1. call'[y].name = n
      BY <1>3, <1>6, <2>2
    <3> QED
      BY <1>4, <2>2, <3>1 DEF Begun
  <2>3. CASE y # m /\ z # m
    <3>1. Live(call[y]) /\ call[y].alone /\ call'[y].name = call[y].name
      BY <1>4, <2>3 DEF Begun
    <3>2. Live(call[z]) /\ call'[z].name = call[z].name
      BY <1>4, <2>3 DEF Begun
    <3> QED
      BY <3>1, <3>2 DEF IInv, Apart
  <2> QED
    BY <2>1, <2>2, <2>3
<1>10. Quiet'
  <2> SUFFICES ASSUME NEW k \in alone', NEW x \in Member, Live(call'[x]), call'[x].name = k
               PROVE  FALSE
    BY DEF Quiet, Live
  <2>1. k \in alone /\ k # n
    BY <1>5
  <2>2. x # m
    BY <1>3, <1>6, <2>1
  <2>3. Live(call[x]) /\ call[x].name = k
    BY <1>4, <2>1, <2>2 DEF Begun
  <2> QED
    BY <2>1, <2>3 DEF IInv, Quiet
<1>11. Guarded' /\ FramedUnderItsName' /\ MetadataAgrees'
  BY <1>5 DEF IInv, Guarded, FramedUnderItsName, MetadataAgrees
<1>12. got \in [Member -> Got \cup {Absent}] /\ got' = [got EXCEPT ![m] = Absent]
  BY DEF IInv, Typed, Starts
<1>13. OpenedAsReferenced' /\ got' \in [Member -> Got \cup {Absent}]
  BY <1>12 DEF OpenedAsReferenced, IInv
<1>14. calls' \in 0..MaxCalls
  <2>1. calls \in 0..MaxCalls /\ calls > 0 /\ calls' = calls - 1
    BY DEF Starts, IInv, Typed, DurableTypeOK
  <2> QED
    BY SMTT(30), <2>1, DurableAssumption
<1>15. \A x \in Member : CallOK(x)'
  BY <1>7, <1>8
<1>16. Typed'
  <2>1. DOMAIN call' = Member /\ call' = [x \in Member |-> call'[x]]
    BY <1>3
  <2>2. \A x \in Member : call'[x] # Idle => call'[x].name \in Name
    BY <1>15 DEF CallOK, Fits, Shape
  <2> QED
    BY <1>5, <1>13, <1>14, <2>1, <2>2 DEF IInv, Typed, DurableTypeOK
<1> QED
  BY <1>9, <1>10, <1>11, <1>13, <1>15, <1>16 DEF IInv

(* The name a call is under, and the frame put_file() makes at once. *)
LEMMA NameFacts ==
  ASSUME IInv, NEW m \in Member, NEW f \in File
  PROVE  storedFilePath(m, f) \in Name /\ storedFilePath(m, f).key = keys[m].key
  BY SMTT(30) DEF storedFilePath, Name, IInv, Typed, DurableTypeOK

LEMMA FrameFacts ==
  ASSUME IInv, NEW m \in Member, NEW c \in Content, NEW s \in SealKey \cup {Absent}
  PROVE  LET fr == encodeStoredFile(m, c, s)
         IN  fr \in Frame /\ fr.body = c /\ fr.seal = s /\ fr.key = keys[m].key
  BY SMTT(30) DEF encodeStoredFile, Frame, IInv, Typed, DurableTypeOK

(* A call stays one when a field is set. *)
LEMMA SetOp == ASSUME NEW c \in Call, NEW x \in {"put", "delete", "open", "describe"} PROVE [c EXCEPT !.op = x] \in Call
  BY SMTT(30) DEF Call

LEMMA SetFile == ASSUME NEW c \in Call, NEW x \in File PROVE [c EXCEPT !.file = x] \in Call
  BY SMTT(30) DEF Call

LEMMA SetContent == ASSUME NEW c \in Call, NEW x \in Content PROVE [c EXCEPT !.content = x] \in Call
  BY SMTT(30) DEF Call

LEMMA SetSeal == ASSUME NEW c \in Call, NEW x \in SealKey \cup {Absent} PROVE [c EXCEPT !.seal = x] \in Call
  BY SMTT(30) DEF Call

LEMMA SetRef == ASSUME NEW c \in Call, NEW x \in Content \cup {Absent} PROVE [c EXCEPT !.ref = x] \in Call
  BY SMTT(30) DEF Call

LEMMA SetFrame == ASSUME NEW c \in Call, NEW x \in Frame PROVE [c EXCEPT !.frame = x] \in Call
  BY SMTT(30) DEF Call

LEMMA SetPc == ASSUME NEW c \in Call, NEW x \in PutPcs \cup ReadPcs PROVE [c EXCEPT !.pc = x] \in Call
  BY SMTT(30) DEF Call

LEMMA IdleCall == Idle \in Call
  BY IdleShape DEF Shape

LEMMA FirstFacts ==
  /\ First \in {"check", "body"} /\ (First = "body" => store # "guarded") /\ First # "encode"
  /\ First \in PutPcs \cup ReadPcs
  BY DEF First, PutPcs

(* The nine calls an application makes. *)
LEMMA StartInv ==
  ASSUME IInv, NEW m \in Member, NEW f \in File, NEW s \in SealKey \cup {Absent}, NEW r \in Content \cup {Absent},
         \/ putFile(m, f, s) \/ put_file(m, f, s) \/ deleteFile(m, f, s) \/ delete_file(m, f, s)
         \/ openFile(m, f, r, s) \/ open_file(m, f, s) \/ getFileMetadata(m, f) \/ get_file_metadata(m, f)
  PROVE  IInv'
<1>1. PICK n \in Name : n = storedFilePath(m, f) /\ n.key = keys[m].key
  BY NameFacts
<1>2. calls > 0 => calls \in Content
  <2>1. calls \in 0..MaxCalls
    BY DEF IInv, Typed, DurableTypeOK
  <2> QED
    BY SMTT(30), <2>1, DurableAssumption DEF Content
<1>3. CASE putFile(m, f, s)
  <2>1. PICK rec : rec = [Idle EXCEPT !.op = "put", !.file = f, !.content = calls, !.seal = s, !.pc = "encode"]
    OBVIOUS
  <2>2. Starts(m, n, rec) /\ keys[m].port = "web"
    BY <1>1, <1>3, <2>1 DEF putFile
  <2>3. calls \in Content
    BY <1>2, <2>2 DEF Starts
  <2>4. /\ rec.op = "put" /\ rec.pc = "encode" /\ rec.file = f /\ rec.content = calls
        /\ rec.seal = s /\ rec.ref = Absent /\ rec.frame = Absent
    BY SMTT(30), <2>1 DEF Idle
  <2>5. rec \in Call
    BY <2>1, <2>3, IdleCall, PcFacts, SetOp, SetFile, SetContent, SetSeal, SetPc
  <2>6. Fresh(m, n, rec)
    BY <1>1, <2>2, <2>4, <2>5, <2>3 DEF Fresh
  <2> QED
    BY <2>2, <2>6, StartKept
<1>4. CASE put_file(m, f, s)
  <2>1. PICK fr : fr = encodeStoredFile(m, calls, s)
    OBVIOUS
  <2>2. PICK rec : rec = [Idle EXCEPT !.op = "put", !.file = f, !.content = calls, !.seal = s, !.pc = First, !.frame = fr]
    OBVIOUS
  <2>3. Starts(m, n, rec)
    BY <1>1, <1>4, <2>1, <2>2 DEF put_file
  <2>4. calls \in Content
    BY <1>2, <2>3 DEF Starts
  <2>5. fr \in Frame /\ fr.body = calls /\ fr.seal = s /\ fr.key = n.key
    BY <1>1, <2>1, <2>4, FrameFacts
  <2>6. /\ rec.op = "put" /\ rec.pc = First /\ rec.file = f /\ rec.content = calls
        /\ rec.seal = s /\ rec.ref = Absent /\ rec.frame = fr
    BY SMTT(30), <2>2 DEF Idle
  <2>7. rec \in Call
    BY <2>2, <2>4, <2>5, IdleCall, FirstFacts, SetOp, SetFile, SetContent, SetSeal, SetPc, SetFrame
  <2>8. Fresh(m, n, rec)
    BY <1>1, <2>3, <2>6, <2>7, <2>4, <2>5, FirstFacts DEF Fresh
  <2> QED
    BY <2>3, <2>8, StartKept
<1>5. CASE deleteFile(m, f, s) \/ delete_file(m, f, s)
  <2>1. PICK rec : rec = [Idle EXCEPT !.op = "delete", !.file = f, !.seal = s, !.pc = First]
    OBVIOUS
  <2>2. Starts(m, n, rec)
    BY <1>1, <1>5, <2>1 DEF deleteFile, delete_file
  <2>3. /\ rec.op = "delete" /\ rec.pc = First /\ rec.file = f /\ rec.content = Absent
        /\ rec.seal = s /\ rec.ref = Absent /\ rec.frame = Absent
    BY SMTT(30), <2>1 DEF Idle
  <2>4. rec \in Call
    BY <2>1, IdleCall, FirstFacts, SetOp, SetFile, SetSeal, SetPc
  <2>5. Fresh(m, n, rec)
    BY <1>1, <2>2, <2>3, <2>4, FirstFacts DEF Fresh
  <2> QED
    BY <2>2, <2>5, StartKept
<1>6. CASE openFile(m, f, r, s)
  <2>1. PICK rec : rec = [Idle EXCEPT !.op = "open", !.file = f, !.ref = r, !.seal = s, !.pc = "bytes"]
    OBVIOUS
  <2>2. Starts(m, n, rec) /\ keys[m].port = "web"
    BY <1>1, <1>6, <2>1 DEF openFile
  <2>3. /\ rec.op = "open" /\ rec.pc = "bytes" /\ rec.file = f /\ rec.content = Absent
        /\ rec.seal = s /\ rec.ref = r /\ rec.frame = Absent
    BY SMTT(30), <2>1 DEF Idle
  <2>4. rec \in Call
    BY <2>1, IdleCall, PcFacts, SetOp, SetFile, SetRef, SetSeal, SetPc
  <2>5. Fresh(m, n, rec)
    BY <1>1, <2>2, <2>3, <2>4 DEF Fresh
  <2> QED
    BY <2>2, <2>5, StartKept
<1>7. CASE open_file(m, f, s)
  <2>1. PICK rec : rec = [Idle EXCEPT !.op = "open", !.file = f, !.seal = s, !.pc = "bytes"]
    OBVIOUS
  <2>2. Starts(m, n, rec)
    BY <1>1, <1>7, <2>1 DEF open_file
  <2>3. /\ rec.op = "open" /\ rec.pc = "bytes" /\ rec.file = f /\ rec.content = Absent
        /\ rec.seal = s /\ rec.ref = Absent /\ rec.frame = Absent
    BY SMTT(30), <2>1 DEF Idle
  <2>4. rec \in Call
    BY <2>1, IdleCall, PcFacts, SetOp, SetFile, SetSeal, SetPc
  <2>5. Fresh(m, n, rec)
    BY <1>1, <2>2, <2>3, <2>4 DEF Fresh
  <2> QED
    BY <2>2, <2>5, StartKept
<1>8. CASE getFileMetadata(m, f) \/ get_file_metadata(m, f)
  <2>1. PICK rec : rec = [Idle EXCEPT !.op = "describe", !.file = f, !.pc = "look"]
    OBVIOUS
  <2>2. Starts(m, n, rec)
    BY <1>1, <1>8, <2>1 DEF getFileMetadata, get_file_metadata
  <2>3. /\ rec.op = "describe" /\ rec.pc = "look" /\ rec.file = f /\ rec.content = Absent
        /\ rec.seal = Absent /\ rec.ref = Absent /\ rec.frame = Absent
    BY SMTT(30), <2>1 DEF Idle
  <2>4. rec \in Call
    BY <2>1, IdleCall, PcFacts, SetOp, SetFile, SetPc
  <2>5. Fresh(m, n, rec)
    BY <1>1, <2>2, <2>3, <2>4 DEF Fresh
  <2> QED
    BY <2>2, <2>5, StartKept
<1> QED
  BY <1>3, <1>4, <1>5, <1>6, <1>7, <1>8

(* Every step, and the step that changes nothing, preserves the invariant. *)
LEMMA NextInv == IInv /\ [DurableNext]_durableVars => IInv'
<1> SUFFICES ASSUME IInv, [DurableNext]_durableVars PROVE IInv'
  OBVIOUS
<1>1. CASE UNCHANGED durableVars
  <2>1. UNCHANGED <<store, keys, object, side, guard, call, refs, calls, got, kept, alone, torn>>
    BY <1>1 DEF durableVars
  <2>2. ASSUME NEW x \in Member PROVE CallOK(x)'
    <3>1. PICK c : c = call[x]
      OBVIOUS
    <3>2. Fits(x, c)'
      BY <2>1, <3>1, FitsStill DEF IInv, CallOK
    <3> QED
      BY <2>1, <3>1, <3>2 DEF CallOK
  <2>3. Apart' /\ Quiet' /\ Guarded' /\ OpenedAsReferenced' /\ FramedUnderItsName' /\ MetadataAgrees'
    BY <2>1 DEF IInv, Apart, Quiet, Guarded, OpenedAsReferenced, FramedUnderItsName, MetadataAgrees
  <2>4. Typed'
    BY <2>1 DEF IInv, Typed, DurableTypeOK
  <2> QED
    BY <2>2, <2>3, <2>4 DEF IInv
<1>2. CASE DurableNext
  <2>1. PICK m \in Member :
          \/ \E f \in File :
               \/ \E s \in SealKey \cup {Absent} : putFile(m, f, s) \/ put_file(m, f, s)
               \/ \E s \in SealKey \cup {Absent} : deleteFile(m, f, s) \/ delete_file(m, f, s)
               \/ \E s \in SealKey \cup {Absent} : open_file(m, f, s)
               \/ \E s \in SealKey \cup {Absent}, r \in {x.digest : x \in {y \in refs : y.file = f}} \cup {Absent} :
                    openFile(m, f, r, s)
               \/ getFileMetadata(m, f) \/ get_file_metadata(m, f)
          \/ Encode(m) \/ Check(m) \/ PutBody(m) \/ Stat(m) \/ PutRecord(m) \/ DeleteBody(m) \/ DeleteRecord(m)
          \/ Look(m) \/ Bytes(m) \/ Meta(m) \/ Touch(m) \/ Decode(m)
          \/ Breaks(m) \/ clearCredentials(m)
    BY <1>2 DEF DurableNext
  <2>2. ASSUME NEW f \in File,
               \/ \E s \in SealKey \cup {Absent} : putFile(m, f, s) \/ put_file(m, f, s)
               \/ \E s \in SealKey \cup {Absent} : deleteFile(m, f, s) \/ delete_file(m, f, s)
               \/ \E s \in SealKey \cup {Absent} : open_file(m, f, s)
               \/ getFileMetadata(m, f) \/ get_file_metadata(m, f)
        PROVE  IInv'
    BY <2>2, StartInv
  <2>3. ASSUME NEW f \in File, NEW s \in SealKey \cup {Absent},
               NEW r \in {x.digest : x \in {y \in refs : y.file = f}} \cup {Absent}, openFile(m, f, r, s)
        PROVE  IInv'
    <3>1. \A x \in refs : x.digest \in Content
      BY SMTT(30) DEF IInv, Typed, DurableTypeOK, Ref
    <3>2. r \in Content \cup {Absent}
      BY <3>1
    <3> QED
      BY <2>3, <3>2, StartInv
  <2>4. CASE Encode(m) \/ Check(m) \/ PutBody(m) \/ Stat(m) \/ PutRecord(m) \/ DeleteBody(m) \/ DeleteRecord(m)
    BY <2>4, EncodeInv, CheckInv, PutBodyInv, StatInv, PutRecordInv, DeleteBodyInv, DeleteRecordInv
  <2>5. CASE Look(m) \/ Bytes(m) \/ Meta(m) \/ Touch(m) \/ Decode(m) \/ Breaks(m) \/ clearCredentials(m)
    BY <2>5, LookInv, BytesInv, MetaInv, TouchInv, DecodeInv, BreaksInv, ClearInv
  <2> QED
    BY <2>1, <2>2, <2>3, <2>4, <2>5
<1> QED
  BY <1>1, <1>2

(* The invariant holds in every reachable state. *)
LEMMA InvHolds == DurableSpec => []IInv
  BY InitInv, NextInv, PTL DEF DurableSpec

(* A file opened by a reference holds what the reference was made for, and every object is
   wrapped under the key its name is hidden under unless clearCredentials() tore that very
   upload: whatever overlaps, breaks off, overwrites or deletes (openFile(), putFile()). *)
THEOREM ReadersRelyOn == DurableSpec => []DurableInv
<1>1. IInv => DurableInv
  BY DEF IInv, Typed, DurableInv
<1> QED
  BY <1>1, InvHolds, PTL

(* A sealed upload that ran alone on its path stays until a caller with its seal replaces or
   removes it, for any number of members, seals and broken calls (requireSealGuard). *)
THEOREM SealStands == DurableSpec => []SealHolds
<1>1. IInv => SealHolds
  BY DEF IInv, Guarded, SealHolds
<1> QED
  BY <1>1, InvHolds, PTL

(* After calls that ran alone the metadata describes the object and is gone with it, on stores
   that write the two apart (putStoredFile(), getStoredFile(), deleteStoredFile()). *)
THEOREM MetadataFollows == DurableSpec => []MetadataAgrees
<1>1. IInv => MetadataAgrees
  BY DEF IInv
<1> QED
  BY <1>1, InvHolds, PTL
=============================================================================
