---------------------------- MODULE RelaySocket ----------------------------
(***************************************************************************)
(* The subscription to a host's invalidations: the WebSocket of            *)
(* CloudflareAdapter.subscribeToInvalidations() and of Swift's WSTask, the *)
(* timers that reconnect it, and the host that accepts or refuses it.      *)
(* Delays are in seconds; a message leaves all of this as it is.           *)
(***************************************************************************)
EXTENDS Naturals, Sequences
LOCAL INSTANCE SequencesExt

CONSTANTS
    MaxFailedUpgrades,      \* refused upgrades in a row before the long wait
    MaxBackoff, Cooldown,   \* the longest ordinary wait, and the long one
    MaxTurns                \* bound: changes of the host and failures of sockets

ASSUME RelayAssumption ==
    /\ MaxFailedUpgrades \in Nat \ {0} /\ MaxTurns \in Nat
    /\ MaxBackoff \in Nat \ {0} /\ Cooldown \in Nat /\ Cooldown > MaxBackoff

VARIABLES
    port,       \* "web" or "swift"
    sub,        \* the variables of the closure or of the task
    sockets,    \* the sockets that have not closed, each by its state
    timers,     \* the delays of the reconnects that are scheduled
    host,       \* whether the host accepts, and the turns it has left
    refused,    \* for the properties: the web's upgrades refused since one opened, or a long wait
    after       \* for the properties: the hooks called after the unsubscribe

relayVars == <<port, sub, sockets, timers, host, refused, after>>

RelayTypeOK ==
    /\ port \in {"web", "swift"}
    /\ sub \in [cancelled : BOOLEAN, backoff : 1..MaxBackoff, streak : Nat]
    /\ sockets \in Seq({"connecting", "open", "closing", "failing"})
    /\ timers \in Seq({Cooldown} \cup 1..MaxBackoff)
    /\ host \in [up : BOOLEAN, turns : 0..MaxTurns]
    /\ refused \in Nat /\ after \subseteq {"ready", "error", "close"}

RelayInit ==
    /\ port \in {"web", "swift"}
    /\ sub = [cancelled |-> FALSE, backoff |-> 1, streak |-> 0]
    /\ sockets = <<"connecting">> /\ timers = <<>>
    /\ host = [up |-> TRUE, turns |-> MaxTurns]
    /\ refused = 0 /\ after = {}

Turn == host.turns > 0 /\ host' = [host EXCEPT !.turns = @ - 1]

\* WSTask looks at cancelled before every hook it calls.
Called(H) == after' = IF port = "web" /\ sub.cancelled THEN after \cup H ELSE after

-----------------------------------------------------------------------------
(* What the adapter does at an event *)

\* The delay of this reconnect; the next one waits twice as long.
scheduleReconnect(s, t) ==
    IF s.cancelled THEN [sub |-> s, timers |-> t]
    ELSE [sub |-> [s EXCEPT !.backoff = IF 2 * @ < MaxBackoff THEN 2 * @ ELSE MaxBackoff],
          timers |-> Append(t, s.backoff)]

Counted(s, opened) == IF opened THEN s ELSE [s EXCEPT !.streak = @ + 1]

\* A mutant of the next definition: no refused upgrade is counted.
onclose_Uncounted(s, t, opened) == scheduleReconnect(s, t)

\* After too many refused upgrades the next attempt waits long.
onclose(s, t, opened) ==
    LET n == Counted(s, opened) IN
    IF ~n.cancelled /\ n.streak >= MaxFailedUpgrades
    THEN [sub |-> [n EXCEPT !.streak = 0, !.backoff = 1], timers |-> Append(t, Cooldown)]
    ELSE scheduleReconnect(n, t)

\* receiveLoop() of WSTask: every failure schedules a reconnect.
Lost(opened) ==
    LET next == IF port = "web" THEN onclose(sub, timers, opened) ELSE scheduleReconnect(sub, timers)
    IN  sub' = next.sub /\ timers' = next.timers

\* The hooks a socket that goes away calls: a failure is an error event first.
Reports(failed) ==
    (IF failed THEN {"error"} ELSE {}) \cup (IF sub.cancelled THEN {} ELSE {"close"})

\* connect(), which WSTask calls with the backoff back at its start.
connect ==
    /\ sockets' = IF sub.cancelled THEN sockets ELSE Append(sockets, "connecting")
    /\ sub' = IF port = "swift" /\ ~sub.cancelled THEN [sub EXCEPT !.backoff = 1] ELSE sub

-----------------------------------------------------------------------------
(* The events *)

\* A mutant of the next definition: a long wait is followed by another one.
TimerFires_Tired(i) ==
    /\ IF timers[i] = Cooldown THEN UNCHANGED <<sockets, sub, timers>>
       ELSE connect /\ timers' = RemoveAt(timers, i)
    /\ refused' = IF timers[i] = Cooldown THEN 0 ELSE refused
    /\ UNCHANGED <<port, host, after>>

TimerFires(i) ==
    /\ connect
    /\ timers' = RemoveAt(timers, i)
    /\ refused' = IF timers[i] = Cooldown THEN 0 ELSE refused
    /\ UNCHANGED <<port, host, after>>

\* The WebSocket constructor throws, which counts as a refused upgrade.
TimerThrows(i) ==
    /\ port = "web" /\ ~sub.cancelled /\ Turn
    /\ LET next == scheduleReconnect(Counted(sub, FALSE), RemoveAt(timers, i))
       IN  sub' = next.sub /\ timers' = next.timers
    /\ refused' = IF timers[i] = Cooldown THEN 0 ELSE refused
    /\ UNCHANGED <<port, sockets, after>>

onopen(i) ==
    /\ sockets[i] = "connecting" /\ host.up
    /\ sockets' = [sockets EXCEPT ![i] = "open"]
    /\ sub' = IF port = "web" THEN [sub EXCEPT !.streak = 0, !.backoff = 1] ELSE sub
    /\ refused' = 0 /\ Called({"ready"})
    /\ UNCHANGED <<port, timers, host>>

UpgradeRefused(i) ==
    /\ sockets[i] = "connecting" /\ ~host.up
    /\ sockets' = RemoveAt(sockets, i)
    /\ Lost(FALSE) /\ Called(Reports(TRUE))
    /\ refused' = IF port = "web" THEN refused + 1 ELSE refused
    /\ UNCHANGED <<port, host>>

Drops(i) ==
    /\ sockets[i] = "open" /\ Turn
    /\ sockets' = RemoveAt(sockets, i)
    /\ Lost(TRUE) /\ Called(Reports(FALSE))
    /\ UNCHANGED <<port, refused>>

\* The function the subscription returned, and WSTask.cancel(): a socket that
\* is still connecting fails, an open one closes.
Unsubscribe ==
    /\ ~sub.cancelled
    /\ sub' = [sub EXCEPT !.cancelled = TRUE]
    /\ sockets' = [i \in DOMAIN sockets |-> IF sockets[i] = "connecting" THEN "failing" ELSE "closing"]
    /\ UNCHANGED <<port, timers, host, refused, after>>

Closes(i) ==
    /\ sockets[i] \in {"closing", "failing"}
    /\ sockets' = RemoveAt(sockets, i)
    /\ Lost(sockets[i] = "closing") /\ Called(Reports(sockets[i] = "failing"))
    /\ UNCHANGED <<port, host, refused>>

HostTurns ==
    /\ host.turns > 0
    /\ host' = [up |-> ~host.up, turns |-> host.turns - 1]
    /\ UNCHANGED <<port, sub, sockets, timers, refused, after>>

\* What the runtime does by itself: timers fire and sockets settle.
RelaySettles ==
    \/ \E i \in DOMAIN timers : TimerFires(i)
    \/ \E i \in DOMAIN sockets : onopen(i) \/ UpgradeRefused(i) \/ Closes(i)

RelayNext ==
    \/ RelaySettles
    \/ \E i \in DOMAIN timers : TimerThrows(i)
    \/ \E i \in DOMAIN sockets : Drops(i)
    \/ Unsubscribe \/ HostTurns

-----------------------------------------------------------------------------
\* A subscription is exactly one socket or one scheduled reconnect until it is
\* cancelled, and never becomes two: onclose, the constructor's failure and the
\* long wait each replace what they end (connect() and scheduleReconnect()).
OneLine ==
    /\ Len(sockets) + Len(timers) <= 1
    /\ ~sub.cancelled => Len(sockets) + Len(timers) = 1

\* A host that keeps refusing upgrades is asked at most MaxFailedUpgrades times
\* before the web client waits the long time, whatever sockets dropped or
\* constructors threw in between (failedUpgradeStreak).
HostSpared == refused <= MaxFailedUpgrades

\* After the unsubscribe the only hook that is called is the error of a socket
\* that was still connecting: no reconnect, no onReady and no onClose, which
\* would start the poll loop again (the cancelled tests).
QuietAfterUnsubscribe == after \subseteq {"error"}

\* What subscribeToInvalidations() promises at every moment: one line, a spared
\* host and silence after the unsubscribe.
RelayInv == RelayTypeOK /\ OneLine /\ HostSpared /\ QuietAfterUnsubscribe

\* Once the host stays up the subscription is open, or was cancelled, for good:
\* no sequence of refusals, drops and long waits ends the retries.
Reconnects == <>[](sub.cancelled \/ ~host.up \/ "open" \in ToSet(sockets))
=============================================================================
