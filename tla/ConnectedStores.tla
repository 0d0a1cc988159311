--------------------------- MODULE ConnectedStores ---------------------------
(***************************************************************************)
(* The list of connected stores: one metadata value of the local store,    *)
(* read whole and written whole (core/connected-stores.ts), and the React  *)
(* hook that shows it (use-connected-stores.ts).                           *)
(*                                                                         *)
(* put() and remove() read the list and write it back in two steps that    *)
(* nothing joins, so of two overlapping changes one may be lost.           *)
(***************************************************************************)
EXTENDS Integers, Sequences

CONSTANTS
    StoreIds,
    Changes,     \* the calls of put() and remove() through the hook
    MaxRequests  \* bound on the hook's calls of refresh()

VARIABLES
    registry,    \* the stored list
    change,      \* the calls
    hook         \* what the component shows, and its reads in flight

storesVars == <<registry, change, hook>>

Quiet(pc) == [pc |-> pc, op |-> "none", id |-> 0, all |-> <<>>]

Without(all, id) == SelectSeq(all, LAMBDA c : c.id # id)

Entry(all, id) == SelectSeq(all, LAMBDA c : c.id = id)

\* An entry keeps the call that created it when it is put again.
Stamped(all, id, now) ==
    [id |-> id, updated |-> now,
     created |-> IF Entry(all, id) = <<>> THEN now ELSE Head(Entry(all, id)).created]

\* put() and remove() begin by reading the list.
readAll(ch, op, id) ==
    /\ change[ch].pc = "off"
    /\ change' = [change EXCEPT ![ch] = [pc |-> "write", op |-> op, id |-> id, all |-> registry]]
    /\ UNCHANGED <<registry, hook>>

put(ch) ==
    /\ change[ch].pc = "write" /\ change[ch].op = "put"
    /\ LET c == change[ch] IN
       registry' = Append(Without(c.all, c.id), Stamped(c.all, c.id, ch))
    /\ change' = [change EXCEPT ![ch] = Quiet("refresh")]
    /\ UNCHANGED hook

\* remove() writes nothing, and asks for no refresh, when it found nothing.
remove(ch) ==
    /\ change[ch].pc = "write" /\ change[ch].op = "remove"
    /\ LET c == change[ch] IN
       IF Entry(c.all, c.id) = <<>>
         THEN change' = [change EXCEPT ![ch] = Quiet("done")] /\ UNCHANGED registry
         ELSE /\ registry' = Without(c.all, c.id)
              /\ change' = [change EXCEPT ![ch] = Quiet("refresh")]
    /\ UNCHANGED hook

-----------------------------------------------------------------------------
(* useConnectedStores *)

\* refresh() takes the next request number and reads the list.
Requested(h) ==
    [h EXCEPT !.request = @ + 1, !.loading = h.alive \/ @,
              !.reads = @ \cup {[n |-> h.request + 1, pc |-> "list", list |-> <<>>]}]

Refresh(ch) ==
    /\ change[ch].pc = "refresh" /\ hook.request < MaxRequests
    /\ hook' = Requested(hook)
    /\ change' = [change EXCEPT ![ch] = Quiet("done")]
    /\ UNCHANGED registry

List(r) ==
    /\ r \in hook.reads /\ r.pc = "list"
    /\ hook' = [hook EXCEPT !.reads = (@ \ {r}) \cup {[r EXCEPT !.pc = "set", !.list = registry]}]
    /\ UNCHANGED <<registry, change>>

\* Only the latest request of a mounted component sets the state.
isCurrent_Any(r) == hook.alive

isCurrent(r) == hook.alive /\ r.n = hook.request

SetCredentials(r) ==
    /\ r \in hook.reads /\ r.pc = "set"
    /\ hook' = IF isCurrent(r)
                 THEN [hook EXCEPT !.reads = @ \ {r}, !.shown = r.list, !.error = FALSE, !.loading = FALSE]
                 ELSE [hook EXCEPT !.reads = @ \ {r}]
    /\ UNCHANGED <<registry, change>>

ListFails(r) ==
    /\ r \in hook.reads /\ r.pc = "list"
    /\ hook' = IF isCurrent(r) THEN [hook EXCEPT !.reads = @ \ {r}, !.error = TRUE, !.loading = FALSE]
               ELSE [hook EXCEPT !.reads = @ \ {r}]
    /\ UNCHANGED <<registry, change>>

\* The effect's clean-up, and its next run: a remount, or another engine.
Unmount ==
    /\ hook.alive /\ hook.request < MaxRequests
    /\ hook' = [hook EXCEPT !.alive = FALSE, !.request = @ + 1]
    /\ UNCHANGED <<registry, change>>

Mount ==
    /\ ~hook.alive /\ hook.request < MaxRequests
    /\ hook' = Requested([hook EXCEPT !.alive = TRUE])
    /\ UNCHANGED <<registry, change>>

StoresInit ==
    /\ registry = <<>>
    /\ change = [ch \in Changes |-> Quiet("off")]
    /\ hook = [alive |-> FALSE, request |-> 0, loading |-> TRUE, error |-> FALSE, shown |-> <<>>, reads |-> {}]

StoresNext ==
    \/ \E ch \in Changes :
          \/ \E id \in StoreIds, op \in {"put", "remove"} : readAll(ch, op, id)
          \/ put(ch) \/ remove(ch) \/ Refresh(ch)
    \/ \E r \in hook.reads : List(r) \/ SetCredentials(r) \/ ListFails(r)
    \/ Unmount \/ Mount

-----------------------------------------------------------------------------
(* Properties *)

\* Once the hook stops loading it shows what is stored, in whatever order its
\* reads were answered and however the changes overlapped; a change that has
\* written and not yet asked for its refresh is the only time it lags behind
\* (use-connected-stores.ts: requestRef).
HookSettles ==
    (/\ hook.alive /\ ~hook.loading /\ ~hook.error
     /\ \A ch \in Changes : change[ch].pc # "refresh") => hook.shown = registry
=============================================================================
