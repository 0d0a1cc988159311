------------------------------- MODULE Relay -------------------------------
(***************************************************************************)
(* The relay of one mesh: InterocitorRelayDurableObject and broadcast() of *)
(* relay.ts.  Broadcasts of a window of time are joined into one message   *)
(* to the sockets; the last payload wins.  Every payload is an             *)
(* invalidation, so that there is a payload or there is none.              *)
(***************************************************************************)
EXTENDS Naturals

CONSTANTS
  Socket,       \* clients that may hold a WebSocket
  MaxCalls      \* bound: broadcasts under way to the relay

VARIABLES
  calls,        \* fetches of broadcast() that have not reached the relay
  sockets,      \* the open sockets
  payload,      \* pendingBroadcastPayload is set
  timer,        \* pendingBroadcastTimer is set
  owed          \* for the properties: sockets open since a broadcast came in

relayVars == <<calls, sockets, payload, timer, owed>>

RelayInit ==
  /\ calls = 0
  /\ sockets = {}
  /\ payload = FALSE
  /\ timer = FALSE
  /\ owed = {}

\* broadcast(): fire and forget.
Broadcast ==
  /\ calls < MaxCalls
  /\ calls' = calls + 1
  /\ UNCHANGED <<sockets, payload, timer, owed>>

NoBroadcast == UNCHANGED relayVars

\* /__connect
SocketConnect(s) ==
  /\ s \notin sockets
  /\ sockets' = sockets \cup {s}
  /\ UNCHANGED <<calls, payload, timer, owed>>

\* The client leaves, or its socket fails (webSocketClose, webSocketError).
SocketClose(s) ==
  /\ s \in sockets
  /\ sockets' = sockets \ {s}
  /\ owed' = owed \ {s}
  /\ UNCHANGED <<calls, payload, timer>>

\* A broadcast is lost on its way to the relay.
BroadcastLost ==
  /\ calls > 0
  /\ calls' = calls - 1
  /\ UNCHANGED <<sockets, payload, timer, owed>>

\* /__broadcast keeps the payload and schedules a flush, unless one is.
BroadcastArrives ==
  /\ calls > 0
  /\ calls' = calls - 1
  /\ payload' = TRUE
  /\ timer' = TRUE
  /\ owed' = sockets
  /\ UNCHANGED sockets

\* A mutant of the next definition: the payload is dropped before it is sent.
flushPendingBroadcast_Drops ==
  /\ timer
  /\ timer' = FALSE
  /\ payload' = FALSE
  /\ UNCHANGED <<calls, sockets, owed>>

\* flushPendingBroadcast, when the timer fires.  A socket that fails to
\* send has lost the message.
flushPendingBroadcast ==
  /\ timer
  /\ timer' = FALSE
  /\ payload' = FALSE
  /\ owed' = IF payload THEN {} ELSE owed
  /\ UNCHANGED <<calls, sockets>>

\* /__reset closes the sockets and drops what is pending.  A relay that is
\* restarted comes back like this too.
Reset ==
  /\ sockets' = {}
  /\ payload' = FALSE
  /\ timer' = FALSE
  /\ owed' = {}
  /\ UNCHANGED calls

RelayStep ==
  \/ BroadcastLost \/ BroadcastArrives \/ flushPendingBroadcast \/ Reset
  \/ \E s \in Socket : SocketClose(s)

-----------------------------------------------------------------------------
\* A socket that was open when a broadcast came in, and has not been sent a
\* message since, has one coming: the payload is kept and its timer runs.
OwedAreServed == owed # {} => payload /\ timer
=============================================================================
