-------------------------------- MODULE Hlc --------------------------------
(***************************************************************************)
(* The hybrid logical clock of packages/core/src/core/hlc.ts.              *)
(*                                                                         *)
(* A clock is a wall-clock millisecond, a counter and the identifier of    *)
(* the node that owns it.  Node identifiers are numbers here: the code     *)
(* compares them as strings, and all it needs is a total order.  Date.now()*)
(* is a parameter of every operator that reads it: wall clocks are not     *)
(* assumed to agree, nor to go forward.                                    *)
(***************************************************************************)
EXTENDS Integers

CONSTANTS
  NodeId,         \* the nodes that own clocks
  MaxFutureSkew,  \* HLC_MAX_FUTURE_SKEW_MS
  CounterBase,    \* the base the counter is written in (16 in the code)
  CounterWidth    \* the digits it is padded to (4 in the code)

ASSUME HlcAssumption ==
  /\ NodeId \subseteq Nat
  /\ MaxFutureSkew \in Nat
  /\ CounterBase \in Nat /\ CounterBase > 1
  /\ CounterWidth \in Nat /\ CounterWidth > 0

HLC == [ts : Nat, counter : Nat, nodeId : NodeId]

larger(a, b) == IF a >= b THEN a ELSE b
smaller(a, b) == IF a <= b THEN a ELSE b

hlcInit(node, wall) == [ts |-> wall, counter |-> 0, nodeId |-> node]

hlcNow_SameCounter(local, wall) ==
  IF wall > local.ts
  THEN [ts |-> wall, counter |-> 0, nodeId |-> local.nodeId]
  ELSE local

hlcNow(local, wall) ==
  IF wall > local.ts
  THEN [ts |-> wall, counter |-> 0, nodeId |-> local.nodeId]
  ELSE [local EXCEPT !.counter = @ + 1]

(***************************************************************************)
(* A remote clock further ahead of the wall than the skew allows is        *)
(* clamped: its counter still seeds the new one, its timestamp does not.   *)
(***************************************************************************)
hlcReceive(local, remote, wall) ==
  LET safeRemoteTs == smaller(remote.ts, wall + MaxFutureSkew)
      maxTs == larger(wall, larger(local.ts, safeRemoteTs))
      counter ==
        IF maxTs = local.ts /\ maxTs = remote.ts
          THEN larger(local.counter, remote.counter) + 1
        ELSE IF maxTs = local.ts THEN local.counter + 1
        ELSE IF maxTs = safeRemoteTs THEN remote.counter + 1
        ELSE 0
  IN  [ts |-> maxTs, counter |-> counter, nodeId |-> local.nodeId]

(***************************************************************************)
(* hlcCompare(a, b) < 0.                                                   *)
(***************************************************************************)
hlcLess(a, b) ==
  \/ a.ts < b.ts
  \/ a.ts = b.ts /\ a.counter < b.counter
  \/ a.ts = b.ts /\ a.counter = b.counter /\ a.nodeId < b.nodeId

hlcLeq(a, b) == a = b \/ hlcLess(a, b)

(***************************************************************************)
(* Serialized clocks.  The counter is written in CounterBase with at least *)
(* CounterWidth digits, so strings keep the numeric order only while the   *)
(* counter fits the width.  Digits(c) is the length of the counter's text. *)
(* Two texts of different lengths are ordered by the digits they have in   *)
(* common; if those agree the shorter one is smaller, because the "-" that *)
(* follows it sorts before every digit.                                    *)
(***************************************************************************)
CounterLimit == CounterBase ^ CounterWidth

Digits(c) ==
  IF c < CounterLimit THEN CounterWidth
  ELSE CHOOSE n \in CounterWidth .. c :
         CounterBase ^ (n - 1) <= c /\ c < CounterBase ^ n

counterTextLess(c, d) ==
  LET m == Digits(c)
      n == Digits(d)
  IN  IF m = n THEN c < d
      ELSE IF m < n THEN c <= d \div (CounterBase ^ (n - m))
      ELSE c \div (CounterBase ^ (m - n)) < d

(***************************************************************************)
(* a < b on the serialized strings themselves, as the local stores compare *)
(* them.  The timestamp is padded to 15 digits and never outgrows them.    *)
(***************************************************************************)
textLess(a, b) ==
  \/ a.ts < b.ts
  \/ a.ts = b.ts /\ counterTextLess(a.counter, b.counter)
  \/ a.ts = b.ts /\ a.counter = b.counter /\ a.nodeId < b.nodeId

(***************************************************************************)
(* hlcCompareStr(a, b) < 0: text order when both strings have the          *)
(* canonical shape, the parsed order when one of them does not.            *)
(***************************************************************************)
hlcLessStr(a, b) ==
  IF Digits(a.counter) = CounterWidth /\ Digits(b.counter) = CounterWidth
  THEN textLess(a, b)
  ELSE hlcLess(a, b)
=============================================================================
