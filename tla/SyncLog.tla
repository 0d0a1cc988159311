------------------------------ MODULE SyncLog ------------------------------
(***************************************************************************)
(* What mailbox synchronisation promises to the applications of a mesh     *)
(* (packages/core/docs/sync-completeness.md): one log of mutations that    *)
(* only grows.  A device shows mutations of the log and its own; what it   *)
(* wrote stays queued until the log has it.  It may drop what it shows, to *)
(* obtain it again from the log, and never what it has queued.             *)
(***************************************************************************)
CONSTANTS Device, Stamp

VARIABLES
  log,    \* the published mutations
  view,   \* view[d]: the mutations d shows
  queue   \* queue[d]: the mutations d wrote and may still have to publish

vars == <<log, view, queue>>

Init ==
  /\ log = {}
  /\ view = [d \in Device |-> {}]
  /\ queue = [d \in Device |-> {}]

Write(d, s) ==
  /\ s \notin log /\ \A c \in Device : s \notin queue[c]
  /\ view' = [view EXCEPT ![d] = @ \cup {s}]
  /\ queue' = [queue EXCEPT ![d] = @ \cup {s}]
  /\ UNCHANGED log

Publish(d) ==
  /\ \E S \in SUBSET queue[d] : log' = log \cup S
  /\ UNCHANGED <<view, queue>>

Settle(d) ==
  /\ \E S \in SUBSET (queue[d] \cap log) : queue' = [queue EXCEPT ![d] = @ \ S]
  /\ UNCHANGED <<log, view>>

Learn(d) ==
  /\ \E S \in SUBSET log : view' = [view EXCEPT ![d] = @ \cup S]
  /\ UNCHANGED <<log, queue>>

Drop(d) ==
  /\ view' = [view EXCEPT ![d] = {}]
  /\ UNCHANGED <<log, queue>>

Next ==
  \E d \in Device :
    \/ \E s \in Stamp : Write(d, s)
    \/ Publish(d) \/ Settle(d) \/ Learn(d) \/ Drop(d)

Spec == Init /\ [][Next]_vars
=============================================================================
