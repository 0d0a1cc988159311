------------------------------- MODULE Upkeep -------------------------------
(***************************************************************************)
(* What an engine does on its own for a mesh it writes to                  *)
(* (core/sync-engine.ts): it gathers writes into a batch, publishes the    *)
(* outbox after a while, and as the managed writer compacts the log after  *)
(* a large flush, after a delay, or when the oldest change reaches the     *)
(* retention deadline.  All of it is timers and calls that wait for one    *)
(* lock, on top of a session that comes and goes.                          *)
(*                                                                         *)
(* What is published is counted, not named; Mailbox says what it means,    *)
(* and what becomes of writes that have been offline for too long.         *)
(***************************************************************************)
EXTENDS Session

CONSTANTS
    Flushes,             \* calls of flushQueued() that may overlap
    Compactions,         \* calls of compact() that may overlap
    Checks,              \* retention checks that may overlap
    flushThreshold,
    compactAutoThreshold,
    compactRemoteChangeThreshold

ASSUME UpkeepAssumption ==
    /\ flushThreshold \in Nat /\ compactAutoThreshold \in Nat /\ compactRemoteChangeThreshold \in Nat
    /\ Flushes \cap Compactions = {} /\ Absent \notin Flushes \cup Compactions

VARIABLES
    managed,   \* the manifest names a managed writer, and this engine is it
    loaded,    \* the manifest is at hand
    queue,     \* the pending batch, the outbox, pendingCount and their timers
    stored,    \* the change files of the remote, and whether one is too old
    lock,      \* who holds SYNC_STATE_LOCK
    flushing,  \* the calls of flushQueued()
    compact,   \* compactInFlight and the calls of compact()
    timer,     \* the timers that lead to a compaction
    checking,  \* the retention checks
    served,    \* the runs of doConnect() that have flushed
    last       \* the flush that disconnect() waits for

upkeepVars == <<managed, loaded, queue, stored, lock, flushing, compact, timer, checking, served, last>>
engineVars == <<sessionVars, upkeepVars>>

NoFlush == [pc |-> "idle", all |-> FALSE, trigger |-> 0, on |-> Absent]
NoCall  == [pc |-> "idle", by |-> "none", on |-> <<>>]
Nobody  == <<>>

Run(c)  == <<"run", c>>    \* the promise of a compaction under way
Wrap(c) == <<"wrap", c>>   \* the promise maybeAutoCompact() makes of compact()

Promises == {Nobody} \cup {Run(c) : c \in Compactions} \cup {Wrap(c) : c \in Compactions}

UpkeepTypeOK ==
    /\ managed \in BOOLEAN /\ loaded \in BOOLEAN
    /\ queue \in [pending : BOOLEAN, batch : BOOLEAN, out : Nat, count : Nat, flush : BOOLEAN, stuck : BOOLEAN]
    /\ stored \in [files : Nat, old : BOOLEAN]
    /\ lock \in Flushes \cup Compactions \cup {Absent}
    /\ \A f \in Flushes : flushing[f].pc \in {"idle", "wait", "publish", "auto", "await"}
    /\ \A f \in Flushes : flushing[f].pc = "publish" <=> lock = f
    /\ compact.flight \in Promises
    /\ \A c \in Compactions : compact.call[c].pc \in {"idle", "entering", "joined", "queued", "work"}
    /\ \A c \in Compactions : compact.call[c].pc = "work" <=> lock = c
    /\ timer \in [check : BOOLEAN, listing : {"none", "live", "stale"}, run : {"none", "live", "stale"},
                  retention : {"none", "now", "later"}]
    /\ checking \in [Checks -> {"idle", "prune", "list", "compact"}]
    /\ served \subseteq ConnectCalls /\ last \in Flushes \cup {Absent}

UpkeepInit(modes) ==
    /\ managed \in modes /\ loaded = FALSE
    /\ queue = [pending |-> FALSE, batch |-> FALSE, out |-> 0, count |-> 0, flush |-> FALSE, stuck |-> FALSE]
    /\ stored = [files |-> 0, old |-> FALSE]
    /\ lock = Absent
    /\ flushing = [f \in Flushes |-> NoFlush]
    /\ compact = [flight |-> Nobody, call |-> [c \in Compactions |-> NoCall]]
    /\ timer = [check |-> FALSE, listing |-> "none", run |-> "none", retention |-> "none"]
    /\ checking = [k \in Checks |-> "idle"]
    /\ served = {} /\ last = Absent

-----------------------------------------------------------------------------
(* The timers *)

Superseded(v) == IF v = "live" THEN "stale" ELSE v

clearScheduledFlush(q) == [q EXCEPT !.flush = FALSE]

\* A check whose listing is under way survives, with a version that has passed.
clearCompactTimers(t) ==
    [t EXCEPT !.check = FALSE, !.run = "none", !.retention = "none", !.listing = Superseded(@)]

\* A deadline that is already due is not put off.
scheduleRetentionCompactionCheck(t, up, due) ==
    IF ~(up /\ managed /\ loaded) \/ t.retention = "now" THEN t
    ELSE IF t.retention = "later" /\ due = "later" THEN t
    ELSE [t EXCEPT !.retention = due]

\* Each change starts the delay anew and supersedes what the last one led to.
armDelayedCompactAfterChange(t) ==
    IF ~(managed /\ loaded) THEN t
    ELSE [t EXCEPT !.check = TRUE, !.listing = Superseded(@), !.run = Superseded(@)]

-----------------------------------------------------------------------------
(* Writes and their publication *)

FreeFlushes == {f \in Flushes \ {last} : flushing[f].pc = "idle"}

FreeFlush == CHOOSE f \in FreeFlushes : TRUE

SomeFlushFree == FreeFlushes # {}

flushQueued(fl, all) == [fl EXCEPT ![FreeFlush] = [NoFlush EXCEPT !.pc = "wait", !.all = all]]

\* flushPendingBatch() and the scheduleFlush() it ends with: at the threshold
\* a flush starts at once, below it the debounce timer is set.
Promoted_Unscheduled(q) ==
    IF ~q.pending THEN [q EXCEPT !.batch = FALSE]
    ELSE [q EXCEPT !.pending = FALSE, !.batch = FALSE, !.out = @ + 1, !.count = @ + 1]

Promoted(q) ==
    IF ~q.pending THEN [q EXCEPT !.batch = FALSE]
    ELSE [q EXCEPT !.pending = FALSE, !.batch = FALSE, !.out = @ + 1, !.count = @ + 1,
                   !.flush = @ \/ q.count + 1 < flushThreshold]

AtThreshold(q) == q.pending /\ q.count + 1 >= flushThreshold

TimersAfterPromotion(q, t) == IF q.pending THEN armDelayedCompactAfterChange(t) ELSE t

Put ==
    /\ Spend("writes") /\ lock = Absent
    /\ queue' = [queue EXCEPT !.pending = TRUE, !.batch = TRUE]
    /\ UNCHANGED <<eng, poll, relay, run, joined, closing, swap, late>>
    /\ UNCHANGED <<managed, loaded, stored, lock, flushing, compact, timer, checking, served, last>>

BatchFires ==
    /\ queue.batch /\ lock = Absent
    /\ AtThreshold(queue) => SomeFlushFree
    /\ queue' = Promoted(queue) /\ timer' = TimersAfterPromotion(queue, timer)
    /\ flushing' = IF AtThreshold(queue) THEN flushQueued(flushing, FALSE) ELSE flushing
    /\ UNCHANGED <<sessionVars, managed, loaded, stored, lock, compact, checking, served, last>>

FlushFires ==
    /\ queue.flush /\ SomeFlushFree
    /\ queue' = clearScheduledFlush(queue) /\ flushing' = flushQueued(flushing, FALSE)
    /\ UNCHANGED <<sessionVars, managed, loaded, stored, lock, compact, timer, checking, served, last>>

\* doFlush() without a remote, or while access is paused, leaves the outbox
\* where it is; with an empty one it has nothing to do.
Skips(q) == eng.adapter = Absent \/ eng.paused \/ q.out = 0

QueueAfterSkip(q) ==
    IF eng.adapter = Absent \/ eng.paused THEN [clearScheduledFlush(q) EXCEPT !.stuck = q.out > 0]
    ELSE [q EXCEPT !.count = 0]

\* The flush has its turn; a flush started by its own promotion waits for it.
FlushLocks(f) ==
    /\ flushing[f].pc = "wait" /\ lock = Absent
    /\ LET q == IF flushing[f].all THEN Promoted(queue) ELSE queue IN
       /\ flushing[f].all /\ AtThreshold(queue) => SomeFlushFree
       /\ timer' = IF flushing[f].all THEN TimersAfterPromotion(queue, timer) ELSE timer
       /\ queue' = IF Skips(q) THEN QueueAfterSkip(q) ELSE q
       /\ lock' = IF Skips(q) THEN Absent ELSE f
       /\ LET fl == IF flushing[f].all /\ AtThreshold(queue) THEN flushQueued(flushing, FALSE) ELSE flushing IN
          flushing' = [fl EXCEPT ![f] = IF Skips(q) THEN NoFlush
                                        ELSE [NoFlush EXCEPT !.pc = "publish", !.trigger = q.count]]
    /\ UNCHANGED <<sessionVars, managed, loaded, stored, compact, checking, served, last>>

\* runExclusive() lets go of the lock however its body ends.
Unlocks == lock' = Absent

\* A flush that publishes reports `syncing' and then `idle', like a pull.
Published(q) == [clearScheduledFlush(q) EXCEPT !.out = 0, !.count = 0, !.stuck = FALSE]

FlushDone(f) ==
    /\ flushing[f].pc = "publish" /\ Unlocks /\ loaded' = TRUE
    /\ queue' = Published(queue) /\ stored' = [stored EXCEPT !.files = @ + 1]
    /\ timer' = scheduleRetentionCompactionCheck(timer, eng.connected, "now")
    /\ flushing' = [flushing EXCEPT ![f] = [@ EXCEPT !.pc = "auto"]]
    /\ eng' = Settled(eng)
    /\ UNCHANGED <<poll, relay, run, joined, closing, swap, late, budget>>
    /\ UNCHANGED <<managed, compact, checking, served, last>>

\* A manifest that cannot be read ends the flush before it touches the timer;
\* a file that cannot be written ends it after.
FlushFails(f, unread) ==
    /\ flushing[f].pc = "publish" /\ Unlocks /\ Spend("faults")
    /\ queue' = IF unread THEN [queue EXCEPT !.stuck = TRUE]
                ELSE [clearScheduledFlush(queue) EXCEPT !.count = queue.out, !.stuck = TRUE]
    /\ flushing' = [flushing EXCEPT ![f] = NoFlush]
    /\ eng' = IF unread THEN eng ELSE Settled(eng)
    /\ UNCHANGED <<poll, relay, run, joined, closing, swap, late>>
    /\ UNCHANGED <<managed, loaded, stored, compact, timer, checking, served, last>>

-----------------------------------------------------------------------------
(* compact() *)

FreeCall == CHOOSE c \in Compactions : compact.call[c].pc = "idle"

SomeCallFree == \E c \in Compactions : compact.call[c].pc = "idle"

\* A call first awaits ensureReady(); only then does it look at compactInFlight.
Called(k, c, by) == [k EXCEPT !.call[c] = [pc |-> "entering", by |-> by, on |-> Nobody]]

Enters(c) ==
    compact' = IF compact.flight # Nobody
                 THEN [compact EXCEPT !.call[c].pc = "joined", !.call[c].on = compact.flight]
                 ELSE [compact EXCEPT !.flight = Run(c), !.call[c].pc = "queued"]

CompactEnters(c) ==
    /\ compact.call[c].pc = "entering" /\ Enters(c)
    /\ UNCHANGED <<sessionVars, managed, loaded, queue, stored, lock, flushing, timer, checking, served, last>>

CompactLocks(c) ==
    /\ compact.call[c].pc = "queued" /\ lock = Absent /\ lock' = c
    /\ compact' = [compact EXCEPT !.call[c].pc = "work"]
    /\ UNCHANGED <<sessionVars, managed, loaded, queue, stored, flushing, timer, checking, served, last>>

\* The promises that a call's end settles, and the calls that wait for them.
Settles(c) == {Run(c)} \cup (IF compact.call[c].by = "auto" THEN {Wrap(c)} ELSE {})

Resolved(c) ==
    [d \in Compactions |->
       IF d = c \/ (compact.call[d].pc = "joined" /\ compact.call[d].on \in Settles(c))
         THEN NoCall ELSE compact.call[d]]

CallsAfter(c) ==
    [flight |-> IF compact.flight \in Settles(c) THEN Nobody ELSE compact.flight, call |-> Resolved(c)]

\* The flush that started call c automatically awaits its end.
AutoEnds(c, fl) ==
    [f \in Flushes |-> IF fl[f].pc = "await" /\ fl[f].on = c THEN NoFlush ELSE fl[f]]

\* The compaction first promotes and publishes what is queued, like a flush.
Cut(q) == IF Skips(q) THEN QueueAfterSkip(q) ELSE Published(q)

CutsFirst(c) ==
    LET q == Promoted(queue) IN
    /\ AtThreshold(queue) => SomeFlushFree
    /\ queue' = Cut(q)
    /\ flushing' = AutoEnds(c, IF AtThreshold(queue) THEN flushQueued(flushing, FALSE) ELSE flushing)
    /\ timer' = scheduleRetentionCompactionCheck(TimersAfterPromotion(queue, timer), eng.connected,
                                                 IF Skips(q) THEN "later" ELSE "now")

FilesAfterCut == [stored EXCEPT !.files = @ + IF Skips(Promoted(queue)) THEN 0 ELSE 1]

\* The files the snapshot covers are deleted if the remote lets it.
CompactDone(c, deleted) ==
    /\ compact.call[c].pc = "work" /\ eng.adapter # Absent
    /\ Unlocks /\ compact' = CallsAfter(c) /\ loaded' = TRUE
    /\ CutsFirst(c)
    /\ IF deleted THEN UNCHANGED budget ELSE FilesAfterCut.files > 0 /\ Spend("faults")
    /\ stored' = IF deleted THEN [files |-> 0, old |-> FALSE] ELSE FilesAfterCut
    /\ UNCHANGED <<eng, poll, relay, run, joined, closing, swap, late>>
    /\ UNCHANGED <<managed, checking, served, last>>

\* It may fail before it has published anything, or at the snapshot.
CompactFails(c, cut) ==
    /\ compact.call[c].pc = "work" /\ Unlocks /\ compact' = CallsAfter(c)
    /\ IF eng.adapter = Absent THEN ~cut /\ UNCHANGED budget ELSE Spend("faults")
    /\ IF cut THEN CutsFirst(c) /\ stored' = FilesAfterCut
       ELSE flushing' = AutoEnds(c, flushing) /\ UNCHANGED <<queue, timer, stored>>
    /\ UNCHANGED <<eng, poll, relay, run, joined, closing, swap, late>>
    /\ UNCHANGED <<managed, loaded, checking, served, last>>

UserCompacts ==
    /\ Spend("compacts") /\ SomeCallFree /\ loaded
    /\ compact' = Called(compact, FreeCall, "user")
    /\ UNCHANGED <<eng, poll, relay, run, joined, closing, swap, late>>
    /\ UNCHANGED <<managed, loaded, queue, stored, lock, flushing, timer, checking, served, last>>

-----------------------------------------------------------------------------
(* What starts a compaction *)

Reachable == eng.connected /\ eng.adapter # Absent

\* maybeAutoCompact(): the promise it stores is the one it makes of the call,
\* which the call then finds when it looks at compactInFlight.
AutoStarts(f) ==
    /\ flushing[f].pc = "auto" /\ SomeCallFree
    /\ flushing[f].trigger >= compactAutoThreshold
    /\ Reachable /\ managed /\ loaded /\ ~eng.poisoned /\ compact.flight = Nobody
    /\ compact' = [Called(compact, FreeCall, "auto") EXCEPT !.flight = Wrap(FreeCall)]
    /\ flushing' = [flushing EXCEPT ![f] = [NoFlush EXCEPT !.pc = "await", !.on = FreeCall]]
    /\ UNCHANGED <<sessionVars, managed, loaded, queue, stored, lock, timer, checking, served, last>>

\* Any of the conditions may fail, the sampling included.
AutoSkips(f) ==
    /\ flushing[f].pc = "auto" /\ flushing' = [flushing EXCEPT ![f] = NoFlush]
    /\ UNCHANGED <<sessionVars, managed, loaded, queue, stored, lock, compact, timer, checking, served, last>>

DelayedChecks ==
    /\ timer.check /\ timer.listing = "none"
    /\ timer' = [timer EXCEPT !.check = FALSE, !.listing = IF Reachable /\ ~eng.poisoned THEN "live" ELSE "none"]
    /\ UNCHANGED <<sessionVars, managed, loaded, queue, stored, lock, flushing, compact, checking, served, last>>

DelayedListed ==
    /\ timer.listing # "none"
    /\ timer' = [timer EXCEPT !.listing = "none",
                              !.run = IF stored.files > compactRemoteChangeThreshold THEN timer.listing ELSE @]
    /\ UNCHANGED <<sessionVars, managed, loaded, queue, stored, lock, flushing, compact, checking, served, last>>

DelayedStarts == timer.run = "live" /\ Reachable /\ ~eng.poisoned /\ compact.flight = Nobody

DelayedRuns ==
    /\ timer.run # "none" /\ timer' = [timer EXCEPT !.run = "none"]
    /\ DelayedStarts => SomeCallFree
    /\ compact' = IF DelayedStarts THEN Called(compact, FreeCall, "delayed") ELSE compact
    /\ UNCHANGED <<sessionVars, managed, loaded, queue, stored, lock, flushing, checking, served, last>>

\* A check that has nothing to compact, or cannot tell, comes back later.
ComesBack(t) == scheduleRetentionCompactionCheck(t, eng.connected, "later")

RetentionFires ==
    /\ timer.retention # "none"
    /\ LET t == [timer EXCEPT !.retention = "none"] IN
       timer' = IF Reachable /\ managed /\ loaded /\ eng.poisoned THEN ComesBack(t) ELSE t
    /\ IF Reachable /\ managed /\ loaded /\ ~eng.poisoned
         THEN \E k \in Checks : /\ checking[k] = "idle" /\ k = CHOOSE j \in Checks : checking[j] = "idle"
                               /\ checking' = [checking EXCEPT ![k] = "prune"]
         ELSE UNCHANGED checking
    /\ UNCHANGED <<sessionVars, managed, loaded, queue, stored, lock, flushing, compact, served, last>>

\* Old snapshots are pruned under the lock; then the change files are listed.
RetentionPrunes(k, ok) ==
    /\ checking[k] = "prune" /\ lock = Absent
    /\ IF ok THEN UNCHANGED budget ELSE Spend("faults")
    /\ loaded' = (loaded \/ ok)
    /\ checking' = [checking EXCEPT ![k] = IF ok THEN "list" ELSE "idle"]
    /\ timer' = IF ok THEN timer ELSE scheduleRetentionCompactionCheck(timer, eng.connected, "later")
    /\ UNCHANGED <<eng, poll, relay, run, joined, closing, swap, late>>
    /\ UNCHANGED <<managed, queue, stored, lock, flushing, compact, served, last>>

RetentionWaits(k, ok) ==
    /\ checking[k] = "list" /\ checking' = [checking EXCEPT ![k] = "idle"]
    /\ IF ok THEN (~stored.old \/ compact.flight # Nobody) /\ UNCHANGED budget ELSE Spend("faults")
    /\ timer' = ComesBack(timer)
    /\ UNCHANGED <<eng, poll, relay, run, joined, closing, swap, late>>
    /\ UNCHANGED <<managed, loaded, queue, stored, lock, flushing, compact, served, last>>

RetentionCompacts(k) ==
    /\ checking[k] = "list" /\ stored.old /\ compact.flight = Nobody /\ SomeCallFree
    /\ checking' = [checking EXCEPT ![k] = "compact"]
    /\ compact' = Called(compact, FreeCall, k)
    /\ UNCHANGED <<sessionVars, managed, loaded, queue, stored, lock, flushing, timer, served, last>>

RetentionEnds(k) ==
    /\ checking[k] = "compact" /\ \A c \in Compactions : compact.call[c].by # k
    /\ checking' = [checking EXCEPT ![k] = "idle"]
    /\ timer' = ComesBack([timer EXCEPT !.retention = "none"])
    /\ UNCHANGED <<sessionVars, managed, loaded, queue, stored, lock, flushing, compact, served, last>>

\* Time passes and the oldest change reaches the deadline.
ChangesAge ==
    /\ stored.files > 0 /\ ~stored.old /\ Spend("ages")
    /\ stored' = [stored EXCEPT !.old = TRUE]
    /\ UNCHANGED <<eng, poll, relay, run, joined, closing, swap, late>>
    /\ UNCHANGED <<managed, loaded, queue, lock, flushing, compact, timer, checking, served, last>>

-----------------------------------------------------------------------------
(* The session with its upkeep *)

\* A connect flushes on its way; while access is still paused the flush skips.
ConnectFlushes(c) ==
    /\ run[c].pc = "stages" /\ c \notin served /\ lock = Absent
    /\ LET q == Promoted(queue) IN
       /\ AtThreshold(queue) => SomeFlushFree
       /\ queue' = Cut(q) /\ stored' = FilesAfterCut
       /\ flushing' = IF AtThreshold(queue) THEN flushQueued(flushing, FALSE) ELSE flushing
    /\ timer' = TimersAfterPromotion(queue, timer)
    /\ served' = served \cup {c} /\ loaded' = TRUE
    /\ UNCHANGED <<sessionVars, managed, lock, compact, checking, last>>

SessionUp(c) ==
    /\ c \in served /\ ConnectUp(c) /\ UNCHANGED upkeepVars

SessionSettled(c) ==
    /\ ConnectSettled(c) /\ served' = served \ {c}
    /\ timer' = scheduleRetentionCompactionCheck(timer, eng.connected, "now")
    /\ UNCHANGED <<managed, loaded, queue, stored, lock, flushing, compact, checking, last>>

\* A message about a change file brings the deadline forward.
MessageArrives ==
    /\ RelayMessage
    /\ timer' = scheduleRetentionCompactionCheck(timer, eng.connected, "now")
    /\ UNCHANGED <<managed, loaded, queue, stored, lock, flushing, compact, checking, served, last>>

\* What a denial and a poisoned remote stop besides the session.
QueueAfter(o) ==
    queue' = IF o = "denied" \/ (o = "poisoned" /\ ~eng.poisoned)
               THEN [clearScheduledFlush(queue) EXCEPT !.stuck = @ \/ queue.flush] ELSE queue

TimersAfter(o) == IF o = "denied" THEN clearCompactTimers(timer) ELSE timer

\* A pull has the lock; one that ends well while connected sees to the deadline.
PulledTimers(o) ==
    IF o = "done" THEN scheduleRetentionCompactionCheck(timer, eng.connected, "later") ELSE TimersAfter(o)

PullEnds(o) ==
    /\ lock = Absent /\ QueueAfter(o) /\ timer' = PulledTimers(o)
    /\ UNCHANGED <<managed, loaded, stored, lock, flushing, compact, checking, served, last>>

ConnectEnds(c, o) ==
    /\ QueueAfter(o) /\ timer' = TimersAfter(o) /\ served' = served \ {c}
    /\ UNCHANGED <<managed, loaded, stored, lock, flushing, compact, checking, last>>

\* Remote work that outlives its connect is not a pull of its own.
LateEnds(o) ==
    /\ QueueAfter(o) /\ timer' = TimersAfter(o)
    /\ UNCHANGED <<managed, loaded, stored, lock, flushing, compact, checking, served, last>>

FlushDenied(f) ==
    /\ flushing[f].pc = "publish" /\ Unlocks /\ Spend("faults")
    /\ eng' = AccessDenied(eng) /\ poll' = stopPolling(poll)
    /\ relay' = stopRemoteInvalidations(relay) /\ run' = Torn(run)
    /\ queue' = [clearScheduledFlush(queue) EXCEPT !.count = queue.out, !.stuck = TRUE]
    /\ timer' = clearCompactTimers(timer)
    /\ flushing' = [flushing EXCEPT ![f] = NoFlush]
    /\ UNCHANGED <<joined, closing, swap, late, managed, loaded, stored, compact, checking, served, last>>

\* disconnect() clears every timer, the batch's too, and flushes once more.
Closes ==
    /\ Disconnect
    /\ timer' = clearCompactTimers(timer)
    /\ queue' = [clearScheduledFlush(queue) EXCEPT !.batch = FALSE, !.stuck = @ \/ eng.poisoned]
    /\ IF eng.poisoned THEN UNCHANGED flushing
       ELSE SomeFlushFree /\ flushing' = flushQueued(flushing, TRUE)
    /\ last' = IF eng.poisoned THEN last ELSE FreeFlush
    /\ UNCHANGED <<managed, loaded, stored, lock, compact, checking, served>>

ClosedDown ==
    /\ Disconnected /\ flushing[last].pc = "idle" /\ last' = Absent
    /\ UNCHANGED <<managed, loaded, queue, stored, lock, flushing, compact, timer, checking, served>>

\* A change of adapter drops the manifest and the flush timer, and leaves the
\* compaction timers armed unless the last pull was denied.
Swaps(o) ==
    /\ SwapTeardown(o) /\ loaded' = FALSE
    /\ FinalPull => lock = Absent
    /\ queue' = [clearScheduledFlush(queue) EXCEPT !.count = queue.out]
    /\ timer' = IF FinalPull THEN PulledTimers(o) ELSE timer
    /\ UNCHANGED <<managed, stored, lock, flushing, compact, checking, served, last>>

\* An instance may be over before the poll interval is.
PollComes == budget.polling /\ (\E g \in poll.armed : PollFires(g)) /\ UNCHANGED upkeepVars

WriteStep ==
    \/ Put \/ BatchFires \/ FlushFires
    \/ \E f \in Flushes :
         \/ FlushLocks(f) \/ FlushDone(f) \/ FlushDenied(f)
         \/ \E unread \in BOOLEAN : FlushFails(f, unread)
         \/ AutoStarts(f) \/ AutoSkips(f)

CompactStep ==
    \/ UserCompacts \/ DelayedChecks \/ DelayedListed \/ DelayedRuns \/ RetentionFires \/ ChangesAge
    \/ \E c \in Compactions :
         \/ CompactEnters(c) \/ CompactLocks(c)
         \/ \E b \in BOOLEAN : CompactDone(c, b) \/ CompactFails(c, b)
    \/ \E k \in Checks :
         \/ RetentionCompacts(k) \/ RetentionEnds(k)
         \/ \E ok \in BOOLEAN : RetentionPrunes(k, ok) \/ RetentionWaits(k, ok)

SessionStep ==
    \/ (Connect \/ SwapAttach \/ RelayTurns \/ CooldownFires \/ \E a \in Adapters \cup {Absent} : setRemoteStorage(a))
         /\ UNCHANGED upkeepVars
    \/ PollComes \/ Closes \/ ClosedDown \/ MessageArrives
    \/ \E c \in ConnectCalls :
         \/ ConnectFlushes(c) \/ SessionUp(c) \/ SessionSettled(c)
         \/ ConnectStalls(c) /\ ConnectEnds(c, "failed")
    \/ \E o \in Outcomes :
         \/ \E g \in poll.pulling : PollDone(g, o) /\ PullEnds(o)
         \/ RelayPullDone(o) /\ PullEnds(o)
         \/ LateAnswer(o) /\ LateEnds(o)
         \/ Swaps(o)
         \/ \E c \in ConnectCalls : ConnectFails(c, o) /\ ConnectEnds(c, o)

EngineNext == SessionStep \/ WriteStep \/ CompactStep

\* A request is answered in the end, well or badly, and a timer fires: the
\* relay, the poll loop, the work under the lock and the retention check each
\* go on, and a call that waits for the lock gets it.
RelayGoesOn == (CooldownFires /\ UNCHANGED upkeepVars) \/ \E o \in Outcomes : RelayPullDone(o) /\ PullEnds(o)

PollGoesOn == PollComes \/ \E g \in poll.pulling, o \in Outcomes : PollDone(g, o) /\ PullEnds(o)

WorkGoesOn ==
    \/ \E f \in Flushes : FlushDone(f)
    \/ \E o \in Outcomes : Swaps(o)
    \/ \E c \in Compactions : CompactEnters(c) \/ \E b \in BOOLEAN : CompactDone(c, b) \/ CompactFails(c, b)

RetentionGoesOn ==
    RetentionFires \/ \E k \in Checks : RetentionWaits(k, TRUE) \/ RetentionCompacts(k) \/ RetentionEnds(k)

EngineFairness ==
    /\ WF_engineVars(RelayGoesOn) /\ WF_engineVars(PollGoesOn)
    /\ WF_engineVars(\E c \in ConnectCalls : SessionSettled(c))
    /\ WF_engineVars(WorkGoesOn) /\ WF_engineVars(RetentionGoesOn)
    /\ SF_engineVars(\E k \in Checks : RetentionPrunes(k, TRUE))
    /\ SF_engineVars(\E c \in Compactions : CompactLocks(c))

-----------------------------------------------------------------------------
(* What the upkeep promises *)

\* Nothing written is forgotten: in a session that no teardown has crossed, a
\* pending batch has its timer, and a queued change has the flush timer or a
\* flush on the way, unless a flush has failed or been refused since.
WritesOwed ==
    eng.connected /\ eng.whole =>
       /\ queue.pending => queue.batch
       /\ queue.out > 0 /\ ~queue.stuck =>
            queue.flush \/ \E f \in Flushes : flushing[f].pc \in {"wait", "publish"}

\* "All paths are deduped by a single in-flight guard": of all the calls of
\* compact(), by hand and by the three automatic paths, one is at work.
OneCompaction == Cardinality({c \in Compactions : compact.call[c].pc \in {"queued", "work"}}) <= 1

\* The managed writer always has the next look at the retention deadline ahead
\* of it, whatever has failed so far.
RetentionArmed ==
    eng.connected /\ eng.whole /\ managed /\ loaded /\ (\A c \in ConnectCalls : run[c].pc # "settling")
    => timer.retention # "none" \/ \E k \in Checks : checking[k] # "idle"

\* What the engine owes between two events of its timers: a flush of what was
\* written, at most one compaction, and the next look at the deadline.
UpkeepInv == UpkeepTypeOK /\ WritesOwed /\ OneCompaction /\ RetentionArmed

\* So a change that has reached the deadline is compacted away, unless the
\* session ends or an immediate compaction has taken the guard for good.
RetentionEnforced ==
    (stored.old /\ managed /\ eng.connected)
    ~> (~stored.old \/ ~eng.whole \/ \E f \in Flushes : flushing[f].pc = "await")

\* An automatic compaction that has started comes to an end, as the events
\* compact:auto:complete and compact:auto:error say.
AutoCompactionEnds == \A f \in Flushes : (flushing[f].pc = "await") ~> (flushing[f].pc # "await")

============================================================================
