------------------------------ MODULE Session ------------------------------
(***************************************************************************)
(* The remote session of one engine (core/sync-engine.ts): connect(),      *)
(* disconnect(), setRemoteStorage(), the poll loop, the relay subscription *)
(* and the pause after a denied or unreadable remote.                      *)
(*                                                                         *)
(* Everything here runs on one JavaScript thread, so an action is what the *)
(* code does between two awaits.  connect() is many stages of remote work  *)
(* with a deadline on each: what the session can tell apart is that they   *)
(* are still under way, and how they end.  The lengths of the timers are   *)
(* left out: an armed timer fires some time later, in any order.           *)
(***************************************************************************)
EXTENDS Integers, FiniteSets, Presence

CONSTANTS
    Adapters,      \* the remote storages an application may attach
    Generations,   \* the tokens pollGeneration tells apart
    ConnectCalls,  \* runs of doConnect() that may overlap
    MaxPulls       \* bound on the pulls of one origin that wait for the lock

ASSUME SessionBounds ==
    /\ MaxPulls \in Nat \ {0}
    /\ IsFiniteSet(Generations) /\ Cardinality(Generations) > MaxPulls
    /\ Absent \notin Generations \cup Adapters \cup ConnectCalls

VARIABLES
    eng,      \* the engine's flags, its adapter and the status it reports
    poll,     \* the poll loop: generation, timer handle, armed timers, pulls
    relay,    \* the relay subscription, its cooldown and its pulls
    run,      \* the runs of doConnect()
    joined,   \* connectPromise: the run that further calls share
    closing,  \* disconnect() is waiting for its last flush
    swap,     \* setRemoteStorage(): how far it is
    late,     \* a stage that missed its deadline is still at work
    budget    \* calls the application, the relay and the network still make

sessionVars == <<eng, poll, relay, run, joined, closing, swap, late, budget>>

NoRun  == [pc |-> "idle", adapter |-> Absent, torn |-> FALSE]
NoSwap == [pc |-> "idle", to |-> Absent, was |-> FALSE]
NoRelay == [sub |-> Absent, cooldown |-> FALSE, again |-> FALSE, pull |-> FALSE,
            replay |-> FALSE, running |-> 0, owed |-> FALSE]

Statuses == {"offline", "connecting", "syncing", "idle"}

SessionTypeOK ==
    /\ eng \in [connected : BOOLEAN, halted : BOOLEAN, paused : BOOLEAN, poisoned : BOOLEAN,
                whole : BOOLEAN, adapter : Adapters \cup {Absent}, status : Statuses]
    /\ poll \in [gen : Generations \cup {Absent}, timer : Generations \cup {Absent},
                 armed : SUBSET Generations, pulling : SUBSET Generations]
    /\ relay \in [sub : Adapters \cup {Absent}, cooldown : BOOLEAN, again : BOOLEAN, pull : BOOLEAN,
                  replay : BOOLEAN, running : 0 .. MaxPulls, owed : BOOLEAN]
    /\ run \in [ConnectCalls -> [pc : {"idle", "stages", "settling"},
                                 adapter : Adapters \cup {Absent}, torn : BOOLEAN]]
    /\ joined \in ConnectCalls \cup {Absent}
    /\ closing \in BOOLEAN /\ late \in BOOLEAN
    /\ swap \in [pc : {"idle", "pull", "size"}, to : Adapters \cup {Absent}, was : BOOLEAN]

\* An engine that has been built with an adapter and not yet connected.
SessionInit(a, budgets) ==
    /\ eng = [connected |-> FALSE, halted |-> FALSE, paused |-> FALSE, poisoned |-> FALSE,
              whole |-> FALSE, adapter |-> a, status |-> "offline"]
    /\ poll = [gen |-> Absent, timer |-> Absent, armed |-> {}, pulling |-> {}]
    /\ relay = NoRelay
    /\ run = [c \in ConnectCalls |-> NoRun] /\ joined = Absent
    /\ closing = FALSE /\ swap = NoSwap /\ late = FALSE
    /\ budget \in budgets

Spend(what) == budget[what] > 0 /\ budget' = [budget EXCEPT ![what] = @ - 1]

-----------------------------------------------------------------------------
(* The poll loop *)

stopPolling(p) == [p EXCEPT !.gen = Absent, !.timer = Absent, !.armed = @ \ {p.timer}]

Fresh(p) == CHOOSE g \in Generations : g \notin p.armed \cup p.pulling

schedule(p, g) == [p EXCEPT !.timer = g, !.armed = @ \cup {g}]

\* startPolling() does nothing while the gate that haltPolling() closed is shut.
startPolling_Ungated(halted, p) == LET q == stopPolling(p) IN schedule([q EXCEPT !.gen = Fresh(q)], Fresh(q))

startPolling(halted, p) ==
    IF halted THEN p ELSE LET q == stopPolling(p) IN schedule([q EXCEPT !.gen = Fresh(q)], Fresh(q))

-----------------------------------------------------------------------------
(* The relay subscription *)

\* The pulls that are running go on: only the promise that names one is dropped.
stopRemoteInvalidations(r) == [NoRelay EXCEPT !.running = r.running]

startRemoteInvalidations(r, a) == [stopRemoteInvalidations(r) EXCEPT !.sub = a]

\* A message during the cooldown is folded into one replay after it.
scheduleInvalidationPull(r) ==
    IF r.cooldown THEN [r EXCEPT !.again = TRUE] ELSE [r EXCEPT !.cooldown = TRUE, !.again = FALSE]

\* So is one that finds a pull under way.
runInvalidationPull_Drop(r) ==
    IF r.pull THEN r ELSE [r EXCEPT !.pull = TRUE, !.running = @ + 1, !.owed = FALSE]

runInvalidationPull(r) ==
    IF r.pull THEN [r EXCEPT !.replay = TRUE]
    ELSE [r EXCEPT !.pull = TRUE, !.running = @ + 1, !.owed = FALSE]

-----------------------------------------------------------------------------
(* Teardown *)

Torn(r) == [c \in ConnectCalls |-> IF r[c].pc = "idle" THEN r[c] ELSE [r[c] EXCEPT !.torn = TRUE]]

\* haltPolling(): `whole' and `torn' remember that the session, and the
\* connects under way, have been through a teardown.
haltPolling(e) == [e EXCEPT !.halted = TRUE, !.whole = FALSE]

\* handleRemoteAccessError() of a 401, a 403 or a mesh-level 404.
AccessDenied(e) == [haltPolling(e) EXCEPT !.paused = TRUE, !.connected = FALSE, !.status = "offline"]

\* poisonRemote() leaves the relay subscribed, and acts only the first time.
poisonRemote(e) == IF e.poisoned THEN e ELSE [haltPolling(e) EXCEPT !.poisoned = TRUE, !.connected = FALSE]

Outcomes == {"done", "failed", "denied", "poisoned"}

\* How remote work that was under way for a pull or a connect ends: what it
\* does to the engine, to the poll loop and to the relay.
EngineAfter(o, e) ==
    IF o = "denied" THEN AccessDenied(e) ELSE IF o = "poisoned" THEN poisonRemote(e) ELSE e

PollAfter(o, p) == IF o \in {"denied", "poisoned"} THEN stopPolling(p) ELSE p

RelayAfter(o, r) == IF o = "denied" THEN stopRemoteInvalidations(r) ELSE r

RunAfter(o, r) == IF o \in {"denied", "poisoned"} THEN Torn(r) ELSE r

JoinedAfter(o, j) == IF o = "poisoned" /\ ~eng.poisoned THEN Absent ELSE j

Pays(o) == IF o = "done" THEN UNCHANGED budget ELSE Spend("faults")

\* pullNow() reports `idle' at its end while the engine is connected.
Settled(e) == IF e.connected THEN [e EXCEPT !.status = "idle"] ELSE e

Begun(e) == IF e.connected THEN [e EXCEPT !.status = "syncing"] ELSE e

-----------------------------------------------------------------------------
(* Pulls of the poll loop and of the relay *)

PollFires(g) ==
    /\ g \in poll.armed /\ Cardinality(poll.pulling) < MaxPulls
    /\ poll' = [poll EXCEPT !.timer = Absent, !.armed = @ \ {g}, !.pulling = @ \cup {g}]
    /\ eng' = Begun(eng)
    /\ UNCHANGED <<relay, run, joined, closing, swap, late, budget>>

\* A pull whose generation has been superseded does not arm the next one.
Rearmed(p, g) == IF p.gen = g THEN schedule(p, g) ELSE p

PollDone(g, o) ==
    /\ g \in poll.pulling /\ Pays(o)
    /\ poll' = Rearmed([PollAfter(o, poll) EXCEPT !.pulling = @ \ {g}], g)
    /\ eng' = Settled(EngineAfter(o, eng))
    /\ relay' = RelayAfter(o, relay) /\ run' = RunAfter(o, run) /\ joined' = JoinedAfter(o, joined)
    /\ UNCHANGED <<closing, swap, late>>

RelayMessage ==
    /\ relay.sub # Absent /\ Spend("messages")
    /\ relay' = IF eng.connected THEN [scheduleInvalidationPull(relay) EXCEPT !.owed = TRUE] ELSE relay
    /\ UNCHANGED <<eng, poll, run, joined, closing, swap, late>>

\* The subscription's onReady, onError and onClose all restart the poll loop.
RelayTurns ==
    /\ relay.sub # Absent /\ Spend("messages")
    /\ poll' = startPolling(eng.halted, poll)
    /\ UNCHANGED <<eng, relay, run, joined, closing, swap, late>>

CooldownFires ==
    /\ relay.cooldown /\ relay.running < MaxPulls
    /\ LET rerun == relay.again
           calm  == [relay EXCEPT !.cooldown = FALSE, !.again = FALSE]
           next  == IF eng.connected THEN runInvalidationPull(calm) ELSE calm
       IN  relay' = IF rerun /\ eng.connected THEN scheduleInvalidationPull(next) ELSE next
    /\ eng' = IF relay'.running > relay.running THEN Begun(eng) ELSE eng
    /\ UNCHANGED <<poll, run, joined, closing, swap, late, budget>>

\* Whatever pull ends clears the promise, the one of an older subscription too.
RelayPullDone(o) ==
    /\ relay.running > 0 /\ Pays(o)
    /\ eng' = Settled(EngineAfter(o, eng))
    /\ LET ended == [RelayAfter(o, relay) EXCEPT !.running = @ - 1, !.pull = FALSE] IN
       relay' = IF ended.replay /\ eng'.connected
                  THEN scheduleInvalidationPull([ended EXCEPT !.replay = FALSE]) ELSE ended
    /\ poll' = PollAfter(o, poll) /\ run' = RunAfter(o, run) /\ joined' = JoinedAfter(o, joined)
    /\ UNCHANGED <<closing, swap, late>>

-----------------------------------------------------------------------------
(* connect() *)

\* A call that finds the session up, or a connect under way, only opens the
\* gate and reports `connecting'; without an adapter, or on a poisoned remote,
\* doConnect() throws at once.
Asked(e) == [e EXCEPT !.halted = FALSE, !.status = "connecting"]

Starts(e) == ~(e.connected /\ ~e.poisoned) /\ joined = Absent /\ ~e.poisoned /\ e.adapter # Absent

Idle(c) == run[c].pc = "idle"

connectOn(e, r) ==
    /\ eng' = Asked(e)
    /\ IF Starts(e)
         THEN \E c \in ConnectCalls :
                /\ Idle(c) /\ c = CHOOSE d \in ConnectCalls : Idle(d)
                /\ run' = [r EXCEPT ![c] = [pc |-> "stages", adapter |-> e.adapter, torn |-> FALSE]]
                /\ joined' = c
         ELSE run' = r /\ UNCHANGED joined

Connect ==
    /\ Spend("connects") /\ connectOn(eng, run)
    /\ UNCHANGED <<poll, relay, closing, swap, late>>

\* The end of a connect whose stages all went well, on the fast path or not.
ConnectUp(c) ==
    /\ run[c].pc = "stages"
    /\ poll' = startPolling(eng.halted, poll)
    /\ relay' = startRemoteInvalidations(relay, run[c].adapter)
    /\ eng' = [eng EXCEPT !.connected = TRUE, !.paused = FALSE, !.whole = ~run[c].torn]
    /\ run' = [run EXCEPT ![c].pc = "settling"]
    /\ UNCHANGED <<joined, closing, swap, late, budget>>

\* connect() forgets the shared promise, whichever run it names by then.
ConnectSettled(c) ==
    /\ run[c].pc = "settling"
    /\ eng' = [eng EXCEPT !.status = "idle"]
    /\ run' = [run EXCEPT ![c] = NoRun] /\ joined' = Absent
    /\ UNCHANGED <<poll, relay, closing, swap, late, budget>>

\* A stage that misses its deadline leaves the engine offline, and goes on.
ConnectStalls(c) ==
    /\ run[c].pc = "stages" /\ Spend("faults")
    /\ eng' = [eng EXCEPT !.status = "offline"]
    /\ run' = [run EXCEPT ![c] = NoRun] /\ joined' = Absent /\ late' = TRUE
    /\ UNCHANGED <<poll, relay, closing, swap>>

ConnectFails(c, o) ==
    /\ run[c].pc = "stages" /\ o # "done" /\ Pays(o)
    /\ eng' = EngineAfter(o, eng) /\ poll' = PollAfter(o, poll) /\ relay' = RelayAfter(o, relay)
    /\ run' = [RunAfter(o, run) EXCEPT ![c] = NoRun] /\ joined' = Absent
    /\ UNCHANGED <<closing, swap, late>>

\* The stage that missed its deadline may still hear that it has no access.
LateAnswer(o) ==
    /\ late /\ late' = FALSE /\ Pays(o)
    /\ eng' = EngineAfter(o, eng) /\ poll' = PollAfter(o, poll) /\ relay' = RelayAfter(o, relay)
    /\ run' = RunAfter(o, run) /\ joined' = JoinedAfter(o, joined)
    /\ UNCHANGED <<closing, swap>>

-----------------------------------------------------------------------------
(* disconnect() and setRemoteStorage() *)

teardown ==
    /\ poll' = stopPolling(poll)
    /\ relay' = stopRemoteInvalidations(relay)
    /\ run' = Torn(run)

Closed(e) == [e EXCEPT !.whole = FALSE, !.connected = FALSE, !.poisoned = FALSE, !.paused = FALSE, !.status = "offline"]

\* The last flush is tried unless the remote is poisoned.
Disconnect ==
    /\ ~closing /\ Spend("disconnects")
    /\ teardown
    /\ IF eng.poisoned
         THEN eng' = Closed(haltPolling(eng)) /\ joined' = Absent /\ UNCHANGED closing
         ELSE eng' = haltPolling(eng) /\ closing' = TRUE /\ UNCHANGED joined
    /\ UNCHANGED <<swap, late>>

Disconnected ==
    /\ closing /\ closing' = FALSE
    /\ eng' = Closed(eng) /\ run' = Torn(run) /\ joined' = Absent
    /\ UNCHANGED <<poll, relay, swap, late, budget>>

\* The old transport gets a last pull when the session was up.
setRemoteStorage(a) ==
    /\ swap.pc = "idle" /\ a # eng.adapter /\ Spend("swaps")
    /\ swap' = [pc |-> "pull", to |-> a, was |-> eng.connected]
    /\ eng' = IF eng.adapter # Absent /\ ~eng.poisoned THEN Begun(eng) ELSE eng
    /\ UNCHANGED <<poll, relay, run, joined, closing, late>>

FinalPull == swap.was /\ eng.adapter # Absent /\ ~eng.poisoned

SwapTeardown(o) ==
    /\ swap.pc = "pull" /\ swap' = [swap EXCEPT !.pc = "size"]
    /\ IF FinalPull THEN Pays(o) ELSE o = "done" /\ UNCHANGED budget
    /\ teardown
    /\ LET e == IF FinalPull THEN Settled(EngineAfter(o, eng)) ELSE eng IN
       eng' = [haltPolling(e) EXCEPT !.connected = FALSE, !.poisoned = FALSE]
    /\ joined' = IF FinalPull THEN JoinedAfter(o, joined) ELSE joined
    /\ UNCHANGED <<closing, late>>

SwapAttach ==
    /\ swap.pc = "size" /\ swap' = NoSwap
    /\ LET e == [eng EXCEPT !.adapter = swap.to, !.poisoned = FALSE, !.paused = FALSE, !.whole = FALSE] IN
       IF swap.was /\ swap.to # Absent THEN connectOn(e, Torn(run)) ELSE eng' = e /\ run' = Torn(run) /\ UNCHANGED joined
    /\ UNCHANGED <<poll, relay, closing, late, budget>>

-----------------------------------------------------------------------------
(* What the session promises *)

Loops == Cardinality(poll.armed) + Cardinality(poll.pulling \cap {poll.gen})

\* There is never more than one poll loop, and none at all between a teardown
\* (disconnect(), a denial, a poisoned remote, a change of adapter) and the
\* next connect(): "the mesh is closed, and the poll keeps running" is what
\* haltPolling() is there to prevent.
PollingGated == Loops <= IF eng.halted THEN 0 ELSE 1

\* A session that no teardown and no change of adapter has crossed since its
\* connect() began polls, and
\* listens to the adapter it pulls from.
SessionWhole == eng.connected /\ eng.whole => Loops = 1 /\ relay.sub = eng.adapter

\* A session is up as a whole or torn down as a whole (haltPolling()).
SessionInv == SessionTypeOK /\ PollingGated /\ SessionWhole

\* Every invalidation that reaches a connected engine is followed by a pull of
\* its own, however it falls with the cooldown and the pulls under way.
InvalidationAnswered == relay.owed ~> (~relay.owed \/ ~eng.connected)

\* A session that is up does not stay `connecting' (connect() reports that even
\* when it finds nothing to do) or `syncing': it is `idle' again after a pull.
StatusRecovers == (eng.connected /\ eng.status # "idle") ~> (eng.status = "idle" \/ ~eng.whole)

============================================================================
