------------------------- MODULE RelaySocket_proofs -------------------------
(***************************************************************************)
(* Proofs about RelaySocket: what a subscription promises, for any limit   *)
(* on failed upgrades, any waits and any number of failures. CountsAt      *)
(* strengthens RelayInv to an inductive invariant: it ties the streak that *)
(* the web client counts to the upgrades the host has really refused, and  *)
(* the states of the socket to the cancellation.                           *)
(***************************************************************************)
EXTENDS RelaySocket, TLAPS
LOCAL INSTANCE SequencesExt

USE SMTT(30)

(* One subscription by itself; safety needs no fairness. *)
RelaySpec == RelayInit /\ [][RelayNext]_relayVars

(* What the only socket, or the only timer, of a subscription says about the counts of failed
   upgrades. failedUpgradeStreak counts at least the upgrades the host has refused, so it
   reaches the limit first; an open socket and a long wait have reset it. *)
CountsAt ==
    /\ \A i \in DOMAIN sockets : sockets[i] \in IF sub.cancelled THEN {"closing", "failing"}
                                                ELSE {"connecting", "open"}
    /\ port = "swift" => refused = 0
    /\ ~sub.cancelled /\ port = "web" /\ (\A i \in DOMAIN timers : timers[i] # Cooldown)
         => refused <= sub.streak /\ refused < MaxFailedUpgrades
    /\ ~sub.cancelled /\ port = "web" /\ (\E i \in DOMAIN sockets : sockets[i] = "open")
         => sub.streak = 0 /\ refused = 0

(* The inductive invariant. *)
RelayIInv == RelayInv /\ CountsAt

(* The types of the closure's variables, of the delays and of the states of a socket. *)
SubType == [cancelled : BOOLEAN, backoff : 1..MaxBackoff, streak : Nat]
Waits == {Cooldown} \cup 1..MaxBackoff
SocketState == {"connecting", "open", "closing", "failing"}

(* Taking the only element out of a sequence leaves none. *)
LEMMA OnlyRemoved ==
    ASSUME NEW S, NEW s \in Seq(S), Len(s) <= 1, NEW i \in DOMAIN s
    PROVE  i = 1 /\ Len(s) = 1 /\ RemoveAt(s, i) = <<>>
<1>1. i = 1 /\ Len(s) = 1
  <2>1. DOMAIN s = 1 .. Len(s) /\ Len(s) \in Nat
    OBVIOUS
  <2> QED
    BY <2>1
<1>2. SubSeq(s, 1, 0) = <<>> /\ SubSeq(s, 2, 1) = <<>>
  BY <1>1
<1> QED
  BY <1>1, <1>2 DEF RemoveAt

(* A reconnect of the subscription s is scheduled after an ordinary wait, and none once it is
   cancelled. *)
ScheduledAs(s, t, r) ==
    /\ r.sub \in SubType /\ r.timers \in Seq(Waits)
    /\ r.sub.streak = s.streak /\ r.sub.cancelled = s.cancelled
    /\ s.cancelled => r.timers = t
    /\ ~s.cancelled => \E w \in 1..MaxBackoff : r.timers = Append(t, w)

(* scheduleReconnect() does that. *)
LEMMA Scheduled ==
    ASSUME NEW s \in SubType, NEW t \in Seq(Waits)
    PROVE  ScheduledAs(s, t, scheduleReconnect(s, t))
<1>1. CASE s.cancelled
  BY ZenonT(60), <1>1 DEF scheduleReconnect, ScheduledAs, SubType, Waits
<1>2. CASE ~s.cancelled
  <2> DEFINE w == IF 2 * s.backoff < MaxBackoff THEN 2 * s.backoff ELSE MaxBackoff
  <2>1. w \in 1..MaxBackoff
    BY RelayAssumption DEF SubType
  <2>2. /\ scheduleReconnect(s, t).sub = [s EXCEPT !.backoff = w]
        /\ scheduleReconnect(s, t).timers = Append(t, s.backoff)
    BY <1>2 DEF scheduleReconnect
  <2> HIDE DEF w
  <2> QED
    BY <1>2, <2>1, <2>2 DEF ScheduledAs, SubType, Waits
<1> QED
  BY <1>1, <1>2

(* A sequence that got its first element. *)
LEMMA First ==
    ASSUME NEW S, NEW x \in S
    PROVE  /\ Append(<<>>, x) \in Seq(S) /\ Len(Append(<<>>, x)) = 1
           /\ DOMAIN Append(<<>>, x) = {1} /\ Append(<<>>, x)[1] = x
OBVIOUS

(* What the closing of a socket makes of the subscription s and its timers t: one timer more,
   which waits long when the streak reaches the limit, and none once it is cancelled. *)
ClosedAs(s, t, opened, r) ==
    /\ r.sub \in SubType /\ r.timers \in Seq(Waits) /\ r.sub.cancelled = s.cancelled
    /\ s.cancelled => r.timers = t
    /\ ~s.cancelled =>
         \/ /\ \E w \in 1..MaxBackoff : r.timers = Append(t, w)
            /\ r.sub.streak = Counted(s, opened).streak
            /\ Counted(s, opened).streak < MaxFailedUpgrades
         \/ r.timers = Append(t, Cooldown) /\ r.sub.streak = 0

(* onclose() of the web client does that. *)
LEMMA Closed ==
    ASSUME NEW s \in SubType, NEW t \in Seq(Waits), NEW opened \in BOOLEAN
    PROVE  ClosedAs(s, t, opened, onclose(s, t, opened))
<1> DEFINE n == Counted(s, opened)
<1>1. n \in SubType /\ n.cancelled = s.cancelled
  BY DEF Counted, SubType
<1> HIDE DEF n
<1>2. CASE ~n.cancelled /\ n.streak >= MaxFailedUpgrades
  <2>0. onclose(s, t, opened) = [sub |-> [n EXCEPT !.streak = 0, !.backoff = 1],
                                 timers |-> Append(t, Cooldown)]
    BY <1>2, Zenon DEF onclose, n
  <2>1. /\ onclose(s, t, opened).sub = [n EXCEPT !.streak = 0, !.backoff = 1]
        /\ onclose(s, t, opened).timers = Append(t, Cooldown)
    BY ONLY <2>0
  <2>2. [n EXCEPT !.streak = 0, !.backoff = 1] \in SubType
    <3> DEFINE m == [n EXCEPT !.streak = 0]
    <3>1. m \in SubType
      BY <1>1 DEF SubType
    <3> HIDE DEF m
    <3>2. [m EXCEPT !.backoff = 1] \in SubType
      BY <3>1, RelayAssumption DEF SubType
    <3> QED
      BY <3>2 DEF m
  <2>3. [n EXCEPT !.streak = 0, !.backoff = 1].streak = 0
        /\ [n EXCEPT !.streak = 0, !.backoff = 1].cancelled = n.cancelled
    BY <1>1 DEF SubType
  <2>4. Append(t, Cooldown) \in Seq(Waits)
    BY DEF Waits
  <2> QED
    BY <1>1, <1>2, <2>1, <2>2, <2>3, <2>4 DEF ClosedAs
<1>3. CASE ~(~n.cancelled /\ n.streak >= MaxFailedUpgrades)
  <2>1. onclose(s, t, opened) = scheduleReconnect(n, t)
    BY <1>3, Zenon DEF onclose, n
  <2>2. ~n.cancelled => n.streak < MaxFailedUpgrades
    BY <1>1, <1>3, RelayAssumption DEF SubType
  <2> QED
    <3>1. ScheduledAs(n, t, scheduleReconnect(n, t))
      BY <1>1, Scheduled
    <3> QED
      BY <1>1, <2>1, <2>2, <3>1 DEF n, ClosedAs, ScheduledAs
<1> QED
  BY <1>2, <1>3

(* A sequence without elements. *)
LEMMA None ==
    ASSUME NEW S, NEW s \in Seq(S), Len(s) = 0
    PROVE  s = <<>>
OBVIOUS

(* The invariant, taken apart. *)
LEMMA RelayFacts ==
    ASSUME RelayIInv
    PROVE  /\ sub \in SubType /\ sub.streak \in Nat /\ sub.cancelled \in BOOLEAN
           /\ sockets \in Seq(SocketState) /\ timers \in Seq(Waits)
           /\ Len(sockets) \in Nat /\ Len(timers) \in Nat
           /\ DOMAIN sockets = 1..Len(sockets) /\ DOMAIN timers = 1..Len(timers)
           /\ refused \in Nat /\ MaxFailedUpgrades \in Nat \ {0} /\ port \in {"web", "swift"}
           /\ OneLine /\ CountsAt /\ HostSpared /\ QuietAfterUnsubscribe
           /\ host \in [up : BOOLEAN, turns : 0..MaxTurns]
           /\ Cooldown \in Nat /\ MaxBackoff \in Nat /\ Cooldown > MaxBackoff
BY RelayAssumption DEF RelayIInv, RelayInv, RelayTypeOK, SubType, Waits, SocketState

(* A timer that fires. *)
LEMMA TimerFiresKept ==
    ASSUME RelayIInv, NEW i \in DOMAIN timers, TimerFires(i)
    PROVE  RelayIInv'
<1> USE RelayFacts
<1>1. i = 1 /\ Len(timers) = 1 /\ Len(sockets) = 0 /\ sockets = <<>> /\ RemoveAt(timers, i) = <<>>
  <2>1. Len(timers) <= 1
    BY DEF OneLine
  <2>2. i = 1 /\ Len(timers) = 1 /\ RemoveAt(timers, i) = <<>>
    BY <2>1, OnlyRemoved
  <2>3. Len(sockets) = 0
    BY <2>2 DEF OneLine
  <2> QED
    BY <2>2, <2>3, None
<1>2. timers' = <<>> /\ UNCHANGED <<port, host, after>> /\ refused' \in {0, refused}
      /\ (timers[1] = Cooldown => refused' = 0)
  BY <1>1 DEF TimerFires
<1>3. /\ sub' \in SubType /\ sub'.streak = sub.streak /\ sub'.cancelled = sub.cancelled
      /\ sockets' = IF sub.cancelled THEN <<>> ELSE Append(<<>>, "connecting")
  BY <1>1, RelayAssumption DEF TimerFires, connect, SubType
<1>4. sockets' \in Seq(SocketState) /\ Len(sockets') = (IF sub.cancelled THEN 0 ELSE 1)
      /\ \A j \in DOMAIN sockets' : ~sub.cancelled /\ sockets'[j] = "connecting"
  <2>1. CASE sub.cancelled
    BY <1>3, <2>1
  <2>2. CASE ~sub.cancelled
    <3>1. sockets' = Append(<<>>, "connecting") /\ "connecting" \in SocketState
      BY <1>3, <2>2 DEF SocketState
    <3> QED
      BY <2>2, <3>1, First
  <2> QED
    BY <2>1, <2>2
<1>5. RelayTypeOK'
  BY <1>2, <1>3, <1>4 DEF RelayIInv, RelayInv, RelayTypeOK, SubType, Waits, SocketState
<1>6. OneLine' /\ HostSpared' /\ QuietAfterUnsubscribe'
  BY <1>2, <1>3, <1>4 DEF OneLine, HostSpared, QuietAfterUnsubscribe
<1>7. CountsAt'
  BY <1>1, <1>2, <1>3, <1>4 DEF CountsAt
<1> QED
  BY <1>5, <1>6, <1>7 DEF RelayIInv, RelayInv

(* One timer, and what it waits for. *)
LEMMA OneTimer ==
    ASSUME NEW w \in Waits, timers' = Append(<<>>, w)
    PROVE  /\ timers' \in Seq(Waits) /\ Len(timers') = 1 /\ DOMAIN timers' = {1}
           /\ timers'[1] = w
BY First

(* A socket that goes away is replaced by a timer, until the subscription is cancelled. *)
LEMMA SocketLost ==
    ASSUME RelayIInv, NEW i \in DOMAIN sockets, sockets' = RemoveAt(sockets, i),
           NEW opened \in BOOLEAN, Lost(opened)
    PROVE  /\ i = 1 /\ DOMAIN sockets = {1} /\ timers = <<>> /\ sockets' = <<>>
           /\ sub' \in SubType /\ sub'.cancelled = sub.cancelled
           /\ sub.cancelled => timers' = <<>>
           /\ ~sub.cancelled => /\ timers' \in Seq(Waits) /\ Len(timers') = 1
                                /\ DOMAIN timers' = {1}
           /\ ~sub.cancelled /\ port = "web" =>
                \/ timers'[1] = Cooldown
                \/ /\ sub'.streak = Counted(sub, opened).streak
                   /\ sub'.streak < MaxFailedUpgrades
<1> USE RelayFacts
<1>1. i = 1 /\ Len(sockets) = 1 /\ RemoveAt(sockets, i) = <<>> /\ timers = <<>>
  <2>1. Len(sockets) <= 1
    BY DEF OneLine
  <2>2. i = 1 /\ Len(sockets) = 1 /\ RemoveAt(sockets, i) = <<>>
    BY <2>1, OnlyRemoved
  <2>3. Len(timers) = 0
    BY <2>2 DEF OneLine
  <2> QED
    BY <2>2, <2>3, None
<1>2. \A w \in 1..MaxBackoff : w \in Waits /\ w # Cooldown
  BY DEF Waits
<1>3. CASE port = "web"
  <2>1. sub' = onclose(sub, timers, opened).sub /\ timers' = onclose(sub, timers, opened).timers
    BY <1>3 DEF Lost
  <2>2. /\ sub' \in SubType /\ timers' \in Seq(Waits) /\ sub'.cancelled = sub.cancelled
        /\ sub.cancelled => timers' = <<>>
        /\ ~sub.cancelled =>
             \/ /\ \E w \in 1..MaxBackoff : timers' = Append(<<>>, w)
                /\ sub'.streak = Counted(sub, opened).streak
                /\ Counted(sub, opened).streak < MaxFailedUpgrades
             \/ timers' = Append(<<>>, Cooldown)
    <3> DEFINE n == onclose(sub, timers, opened)
    <3>1. ClosedAs(sub, timers, opened, n)
      BY Closed
    <3> HIDE DEF n
    <3> QED
      BY <1>1, <2>1, <3>1 DEF n, ClosedAs
  <2>3. ASSUME ~sub.cancelled, timers' = Append(<<>>, Cooldown)
        PROVE  Len(timers') = 1 /\ DOMAIN timers' = {1} /\ timers'[1] = Cooldown
    <3>1. Cooldown \in Waits
      BY DEF Waits
    <3> QED
      BY <2>3, <3>1, OneTimer
  <2>4. ASSUME NEW w \in 1..MaxBackoff, timers' = Append(<<>>, w)
        PROVE  Len(timers') = 1 /\ DOMAIN timers' = {1}
    BY <1>2, <2>4, OneTimer
  <2> QED
    BY <1>1, <2>2, <2>3, <2>4
<1>4. CASE port = "swift"
  <2>1. /\ sub' = scheduleReconnect(sub, timers).sub
        /\ timers' = scheduleReconnect(sub, timers).timers
    BY <1>4 DEF Lost
  <2>2. /\ sub' \in SubType /\ timers' \in Seq(Waits) /\ sub'.cancelled = sub.cancelled
        /\ sub.cancelled => timers' = <<>>
        /\ ~sub.cancelled => \E w \in 1..MaxBackoff : timers' = Append(<<>>, w)
    <3> DEFINE n == scheduleReconnect(sub, timers)
    <3>1. ScheduledAs(sub, timers, n)
      BY Scheduled
    <3> HIDE DEF n
    <3> QED
      BY <1>1, <2>1, <3>1 DEF n, ScheduledAs
  <2>3. ASSUME NEW w \in 1..MaxBackoff, timers' = Append(<<>>, w)
        PROVE  Len(timers') = 1 /\ DOMAIN timers' = {1}
    BY <1>2, <2>3, OneTimer
  <2> QED
    BY <1>1, <1>4, <2>2, <2>3
<1> QED
  BY <1>3, <1>4

(* So a step that loses a socket keeps the invariant, when it counts what it has to. *)
LEMMA SocketLostKept ==
    ASSUME RelayIInv, NEW i \in DOMAIN sockets, sockets' = RemoveAt(sockets, i),
           NEW opened \in BOOLEAN, Lost(opened), port' = port,
           host' \in [up : BOOLEAN, turns : 0..MaxTurns],
           refused' = (IF port = "web" /\ sockets[i] = "connecting" THEN refused + 1 ELSE refused),
           sockets[i] = "connecting" => ~opened, sockets[i] = "open" => opened,
           after' \in {after, after \cup {"error"}}
    PROVE  RelayIInv'
<1> USE RelayFacts
<1>1. /\ i = 1 /\ DOMAIN sockets = {1} /\ timers = <<>> /\ sockets' = <<>>
      /\ sub' \in SubType /\ sub'.cancelled = sub.cancelled
      /\ sub.cancelled => timers' = <<>>
      /\ ~sub.cancelled => timers' \in Seq(Waits) /\ Len(timers') = 1 /\ DOMAIN timers' = {1}
      /\ ~sub.cancelled /\ port = "web" =>
           \/ timers'[1] = Cooldown
           \/ sub'.streak = Counted(sub, opened).streak /\ sub'.streak < MaxFailedUpgrades
  BY SocketLost
<1>2. ~sub.cancelled /\ port = "web" => refused <= sub.streak /\ refused < MaxFailedUpgrades
  BY <1>1 DEF CountsAt
<1>3. sub.cancelled => refused' = refused
  BY <1>1 DEF CountsAt
<1>4. Counted(sub, opened).streak = IF opened THEN sub.streak ELSE sub.streak + 1
  BY DEF Counted, SubType
<1>5. refused' \in Nat /\ refused' <= MaxFailedUpgrades
  BY <1>2, <1>3 DEF CountsAt, HostSpared
<1>6. RelayTypeOK'
  <2>1. timers' \in Seq(Waits) /\ sockets' \in Seq(SocketState)
    <3>1. <<>> \in Seq(Waits) /\ <<>> \in Seq(SocketState)
      OBVIOUS
    <3> QED
      BY ONLY <1>1, <3>1, Zenon
  <2>2. after' \subseteq {"ready", "error", "close"}
    BY DEF RelayIInv, RelayInv, RelayTypeOK
  <2> QED
    BY <1>1, <1>5, <2>1, <2>2 DEF RelayTypeOK, SubType, Waits, SocketState
<1>7. OneLine' /\ HostSpared' /\ QuietAfterUnsubscribe'
  BY <1>1, <1>5 DEF OneLine, HostSpared, QuietAfterUnsubscribe
<1>8. CountsAt'
  <2>1. port = "swift" => refused' = 0
    BY DEF CountsAt
  <2>2. ASSUME ~sub.cancelled, port = "web", timers'[1] # Cooldown
        PROVE  refused' <= sub'.streak /\ refused' < MaxFailedUpgrades
    BY <1>1, <1>2, <1>4, <2>2 DEF CountsAt
  <2> QED
    BY <1>1, <2>1, <2>2 DEF CountsAt
<1> QED
  BY <1>6, <1>7, <1>8 DEF RelayIInv, RelayInv

(* A constructor that throws replaces its timer by the next one. *)
LEMMA TimerThrowsKept ==
    ASSUME RelayIInv, NEW i \in DOMAIN timers, TimerThrows(i)
    PROVE  RelayIInv'
<1> USE RelayFacts
<1>1. i = 1 /\ Len(timers) = 1 /\ Len(sockets) = 0 /\ sockets = <<>> /\ RemoveAt(timers, i) = <<>>
  <2>1. Len(timers) <= 1
    BY DEF OneLine
  <2>2. i = 1 /\ Len(timers) = 1 /\ RemoveAt(timers, i) = <<>>
    BY <2>1, OnlyRemoved
  <2>3. Len(sockets) = 0
    BY <2>2 DEF OneLine
  <2> QED
    BY <2>2, <2>3, None
<1> DEFINE n == Counted(sub, FALSE)
<1>2. n \in SubType /\ ~n.cancelled /\ n.streak = sub.streak + 1 /\ ~sub.cancelled
      /\ port = "web"
  <2>1. ~sub.cancelled /\ port = "web"
    BY DEF TimerThrows
  <2>2. n = [sub EXCEPT !.streak = @ + 1]
    BY Zenon DEF Counted
  <2>3. sub \in [cancelled : BOOLEAN, backoff : 1..MaxBackoff, streak : Nat]
    BY DEF SubType
  <2> HIDE DEF n
  <2>4. /\ n \in [cancelled : BOOLEAN, backoff : 1..MaxBackoff, streak : Nat]
        /\ n.cancelled = sub.cancelled /\ n.streak = sub.streak + 1
    BY ONLY <2>2, <2>3
  <2> QED
    BY <2>1, <2>4 DEF SubType
<1> HIDE DEF n
<1>3. /\ sub' = scheduleReconnect(n, <<>>).sub /\ timers' = scheduleReconnect(n, <<>>).timers
      /\ UNCHANGED <<port, sockets, after>> /\ refused' \in {0, refused}
      /\ (timers[1] = Cooldown => refused' = 0)
  BY ZenonT(60), <1>1 DEF TimerThrows, n
<1>4. host' \in [up : BOOLEAN, turns : 0..MaxTurns]
  BY RelayAssumption DEF TimerThrows, Turn
<1>5. <<>> \in Seq(Waits)
  OBVIOUS
<1>6. /\ sub' \in SubType /\ sub'.streak = sub.streak + 1 /\ ~sub'.cancelled
      /\ \E w \in 1..MaxBackoff : timers' = Append(<<>>, w)
  <2> DEFINE r == scheduleReconnect(n, <<>>)
  <2>1. ScheduledAs(n, <<>>, r)
    BY ZenonT(60), <1>2, <1>5, Scheduled
  <2> HIDE DEF r
  <2> QED
    BY <1>2, <1>3, <2>1 DEF r, ScheduledAs
<1>7. timers' \in Seq(Waits) /\ Len(timers') = 1 /\ DOMAIN timers' = {1} /\ timers'[1] # Cooldown
  <2>1. PICK w \in 1..MaxBackoff : timers' = Append(<<>>, w)
    BY <1>6
  <2>2. w \in Waits /\ w # Cooldown
    BY DEF Waits
  <2> QED
    BY <2>1, <2>2, OneTimer
<1>8. (timers[1] # Cooldown => refused <= sub.streak /\ refused < MaxFailedUpgrades)
  BY <1>1, <1>2 DEF CountsAt
<1>9. RelayTypeOK'
  BY <1>3, <1>4, <1>6, <1>7 DEF RelayIInv, RelayInv, RelayTypeOK, SubType, Waits, SocketState
<1>10. OneLine' /\ HostSpared' /\ QuietAfterUnsubscribe'
  <2>1. Len(sockets') = 0
    BY <1>1, <1>3
  <2>2. refused' <= MaxFailedUpgrades /\ after' \subseteq {"error"}
    BY <1>3 DEF HostSpared, QuietAfterUnsubscribe
  <2> QED
    BY <1>6, <1>7, <2>1, <2>2 DEF OneLine, HostSpared, QuietAfterUnsubscribe
<1>11. CountsAt'
  BY <1>1, <1>2, <1>3, <1>6, <1>7, <1>8 DEF CountsAt
<1> QED
  BY <1>9, <1>10, <1>11 DEF RelayIInv, RelayInv

(* The only element of a sequence is replaced. *)
LEMMA Replaced ==
    ASSUME NEW S, NEW s \in Seq(S), Len(s) = 1, NEW x \in S
    PROVE  /\ [s EXCEPT ![1] = x] \in Seq(S) /\ Len([s EXCEPT ![1] = x]) = 1
           /\ DOMAIN [s EXCEPT ![1] = x] = {1} /\ [s EXCEPT ![1] = x][1] = x
OBVIOUS

(* A socket that opens resets the streak. *)
LEMMA OpenKept ==
    ASSUME RelayIInv, NEW i \in DOMAIN sockets, onopen(i)
    PROVE  RelayIInv'
<1> USE RelayFacts
<1>1. i = 1 /\ Len(sockets) = 1 /\ DOMAIN sockets = {1} /\ Len(timers) = 0
  BY DEF OneLine
<1>2. ~sub.cancelled
  BY DEF CountsAt, onopen
<1>3. /\ sockets' = [sockets EXCEPT ![1] = "open"] /\ refused' = 0
      /\ UNCHANGED <<port, timers, host, after>>
  BY <1>1, <1>2 DEF onopen, Called
<1>4. sub' \in SubType /\ ~sub'.cancelled /\ (port = "web" => sub'.streak = 0)
  <2>1. CASE port = "web"
    <3> DEFINE m == [sub EXCEPT !.streak = 0]
    <3>1. m \in SubType /\ m.streak = 0 /\ m.cancelled = sub.cancelled
      BY DEF SubType
    <3>2. sub' = [m EXCEPT !.backoff = 1]
      BY <2>1 DEF onopen
    <3> HIDE DEF m
    <3> QED
      BY <1>2, <3>1, <3>2, RelayAssumption DEF SubType
  <2>2. CASE port # "web"
    BY <1>2, <2>2 DEF onopen
  <2> QED
    BY <2>1, <2>2
<1>5. sockets' \in Seq(SocketState) /\ Len(sockets') = 1 /\ DOMAIN sockets' = {1}
      /\ sockets'[1] = "open"
  <2>1. "open" \in SocketState
    BY DEF SocketState
  <2> QED
    BY <1>1, <1>3, <2>1, Replaced
<1>6. RelayTypeOK'
  BY <1>3, <1>4, <1>5 DEF RelayIInv, RelayInv, RelayTypeOK, SubType, Waits, SocketState
<1>7. OneLine' /\ HostSpared' /\ QuietAfterUnsubscribe'
  <2>1. Len(timers') = 0
    BY <1>1, <1>3
  <2> QED
    BY <1>3, <1>5, <2>1 DEF OneLine, HostSpared, QuietAfterUnsubscribe
<1>8. CountsAt'
  <2>1. /\ \A j \in DOMAIN sockets' : sockets'[j] = "open"
        /\ \E j \in DOMAIN sockets' : sockets'[j] = "open"
    BY <1>5
  <2> QED
    BY <1>3, <1>4, <2>1, RelayAssumption DEF CountsAt, SubType
<1> QED
  BY <1>6, <1>7, <1>8 DEF RelayIInv, RelayInv

(* Cancelling the subscription closes what it has. *)
LEMMA UnsubscribeKept ==
    ASSUME RelayIInv, Unsubscribe
    PROVE  RelayIInv'
<1> USE RelayFacts
<1>1. sub' \in SubType /\ sub'.cancelled /\ UNCHANGED <<port, timers, host, refused, after>>
  BY ZenonT(60) DEF Unsubscribe, SubType
<1>2. /\ sockets' \in Seq(SocketState) /\ Len(sockets') = Len(sockets)
      /\ \A j \in DOMAIN sockets' : sockets'[j] \in {"closing", "failing"}
  BY DEF Unsubscribe, SocketState
<1>3. RelayTypeOK'
  BY <1>1, <1>2 DEF RelayIInv, RelayInv, RelayTypeOK, SubType, Waits, SocketState
<1>4. OneLine' /\ HostSpared' /\ QuietAfterUnsubscribe' /\ CountsAt'
  BY <1>1, <1>2 DEF OneLine, HostSpared, QuietAfterUnsubscribe, CountsAt
<1> QED
  BY <1>3, <1>4 DEF RelayIInv, RelayInv

(* Every step keeps the invariant. *)
LEMMA RelayStep == RelayIInv /\ [RelayNext]_relayVars => RelayIInv'
<1> SUFFICES ASSUME RelayIInv, [RelayNext]_relayVars PROVE RelayIInv'
  OBVIOUS
<1> USE RelayFacts
<1>1. ASSUME NEW i \in DOMAIN sockets, UpgradeRefused(i) PROVE RelayIInv'
  <2>1. ~sub.cancelled
    BY <1>1 DEF UpgradeRefused, CountsAt
  <2>2. /\ sockets' = RemoveAt(sockets, i) /\ Lost(FALSE) /\ port' = port /\ host' = host
        /\ refused' = (IF port = "web" THEN refused + 1 ELSE refused)
        /\ sockets[i] = "connecting" /\ after' = after
    BY ZenonT(60), <1>1, <2>1 DEF UpgradeRefused, Called
  <2> QED
    BY ZenonT(60), <2>2, SocketLostKept
<1>2. ASSUME NEW i \in DOMAIN sockets, Drops(i) PROVE RelayIInv'
  <2>1. ~sub.cancelled
    BY <1>2 DEF Drops, CountsAt
  <2>2. /\ sockets' = RemoveAt(sockets, i) /\ Lost(TRUE) /\ port' = port
        /\ refused' = refused /\ sockets[i] = "open" /\ after' = after
    BY ZenonT(60), <1>2, <2>1 DEF Drops, Called
  <2>3. host' \in [up : BOOLEAN, turns : 0..MaxTurns]
    BY <1>2, RelayAssumption DEF Drops, Turn
  <2> QED
    BY ZenonT(60), <2>2, <2>3, SocketLostKept
<1>3. ASSUME NEW i \in DOMAIN sockets, Closes(i) PROVE RelayIInv'
  <2>1. sub.cancelled
    BY <1>3 DEF Closes, CountsAt
  <2>2. /\ sockets' = RemoveAt(sockets, i) /\ Lost(sockets[i] = "closing") /\ port' = port
        /\ host' = host /\ refused' = refused /\ sockets[i] \in {"closing", "failing"}
    BY <1>3 DEF Closes
  <2>3. after' \in {after, after \cup {"error"}}
    BY <1>3, <2>1 DEF Closes, Called, Reports
  <2> DEFINE o == sockets[i] = "closing"
  <2>4. o \in BOOLEAN /\ Lost(o)
    BY <2>2
  <2> HIDE DEF o
  <2> QED
    BY <2>2, <2>3, <2>4, SocketLostKept
<1>4. ASSUME HostTurns PROVE RelayIInv'
  <2>1. /\ host' \in [up : BOOLEAN, turns : 0..MaxTurns]
        /\ UNCHANGED <<port, sub, sockets, timers, refused, after>>
    BY <1>4, RelayAssumption DEF HostTurns
  <2> QED
    BY <2>1 DEF RelayIInv, RelayInv, RelayTypeOK, OneLine, HostSpared, QuietAfterUnsubscribe,
       CountsAt
<1>5. ASSUME UNCHANGED relayVars PROVE RelayIInv'
  BY <1>5 DEF relayVars, RelayIInv, RelayInv, RelayTypeOK, OneLine, HostSpared,
     QuietAfterUnsubscribe, CountsAt
<1> QED
  BY <1>1, <1>2, <1>3, <1>4, <1>5, TimerFiresKept, TimerThrowsKept, OpenKept, UnsubscribeKept
     DEF RelayNext, RelaySettles

(* subscribeToInvalidations() keeps one line and never two, spares a host that refuses it, and
   is silent after the unsubscribe, for any limits on failed upgrades and waits and however
   many sockets drop, constructors throw and upgrades are refused. *)
THEOREM SubscriptionsHold == RelaySpec => []RelayInv
<1>1. RelayInit => RelayIInv
  <2> SUFFICES ASSUME RelayInit PROVE RelayIInv
    OBVIOUS
  <2>1. /\ sockets = <<"connecting">> /\ timers = <<>> /\ Len(sockets) = 1 /\ Len(timers) = 0
        /\ DOMAIN sockets = {1} /\ sockets[1] = "connecting"
    BY DEF RelayInit
  <2>2. RelayTypeOK
    BY <2>1, RelayAssumption DEF RelayInit, RelayTypeOK
  <2>3. OneLine /\ HostSpared /\ QuietAfterUnsubscribe /\ CountsAt
    BY <2>1, RelayAssumption DEF RelayInit, OneLine, HostSpared, QuietAfterUnsubscribe, CountsAt
  <2> QED
    BY <2>2, <2>3 DEF RelayIInv, RelayInv
<1>2. RelayIInv => RelayInv
  BY DEF RelayIInv
<1> QED
  BY <1>1, <1>2, RelayStep, PTL DEF RelaySpec

=============================================================================
