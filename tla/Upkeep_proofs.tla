--------------------------- MODULE Upkeep_proofs ---------------------------
(***************************************************************************)
(* Proofs about the upkeep of a session (core/sync-engine.ts): one         *)
(* compaction at a time, a flush for everything that was written, and the  *)
(* next look at the retention deadline.                                    *)
(***************************************************************************)
EXTENDS Session_proofs

USE ZenonT(60)

-----------------------------------------------------------------------------
(* The invariant of the upkeep *)

Queue == [pending : BOOLEAN, batch : BOOLEAN, out : Nat, count : Nat, flush : BOOLEAN, stuck : BOOLEAN]

FlushCall ==
    [pc : {"idle", "wait", "publish", "auto", "await"}, all : BOOLEAN, trigger : Nat, on : Compactions \cup {Absent}]

CompactCall ==
    [pc : {"idle", "entering", "joined", "queued", "work"}, by : {"none", "user", "auto", "delayed"} \cup Checks,
     on : Promises]

Compact == [flight : Promises, call : [Compactions -> CompactCall]]

Timer ==
    [check : BOOLEAN, listing : {"none", "live", "stale"}, run : {"none", "live", "stale"},
     retention : {"none", "now", "later"}]

(* Whoever publishes or compacts holds the lock, and the guard names the compaction that waits or works. *)
Locking(l, fl, k) ==
    /\ l \in Flushes \cup Compactions \cup {Absent} /\ fl \in [Flushes -> FlushCall] /\ k \in Compact
    /\ \A f \in Flushes : fl[f].pc = "publish" <=> l = f
    /\ \A c \in Compactions : k.call[c].pc = "work" <=> l = c
    /\ \A c \in Compactions : k.call[c].pc \in {"queued", "work"} => k.flight = Run(c)

(* What was written has a timer or a flush, unless a flush failed. *)
Owes(q, fl) ==
    /\ q.pending => q.batch
    /\ q.out > 0 /\ ~q.stuck => q.flush \/ \E f \in Flushes : fl[f].pc \in {"wait", "publish"}

(* The session is whole, or a connect that has flushed will make it so. *)
Live(e, rn, sv) ==
    \/ e.connected /\ e.whole
    \/ \E c \in sv : rn[c].pc = "stages" /\ ~rn[c].torn

(* A look at the deadline is ahead, or under way. *)
Ahead(t, ck) == t.retention # "none" \/ \E k \in Checks : ck[k] # "idle"

Armed(m, e, rn, ld, t, ck) ==
    e.connected /\ e.whole /\ m /\ ld /\ (\A c \in ConnectCalls : rn[c].pc # "settling") => Ahead(t, ck)

UpkeepTyped ==
    /\ managed \in BOOLEAN /\ loaded \in BOOLEAN /\ queue \in Queue /\ stored \in [files : Nat, old : BOOLEAN]
    /\ timer \in Timer /\ checking \in [Checks -> {"idle", "prune", "list", "compact"}]
    /\ served \subseteq ConnectCalls /\ last \in Flushes \cup {Absent}

UpkeepIInv ==
    /\ UpkeepTyped /\ Locking(lock, flushing, compact)
    /\ \A c \in served : run[c].pc # "idle"
    /\ Live(eng, run, served) => Owes(queue, flushing) /\ loaded
    /\ Armed(managed, eng, run, loaded, timer, checking)

-----------------------------------------------------------------------------
(* The queue *)

LEMMA QueueFields ==
  ASSUME NEW q \in Queue
  PROVE  /\ q.pending \in BOOLEAN /\ q.batch \in BOOLEAN /\ q.out \in Nat /\ q.count \in Nat
         /\ q.flush \in BOOLEAN /\ q.stuck \in BOOLEAN
  BY SMTT(30) DEF Queue

LEMMA Promotes ==
  ASSUME NEW q \in Queue
  PROVE  /\ Promoted(q) \in Queue /\ ~Promoted(q).pending /\ Promoted(q).stuck = q.stuck
         /\ q.pending /\ ~AtThreshold(q) => Promoted(q).flush
         /\ ~q.pending => Promoted(q).out = q.out /\ Promoted(q).flush = q.flush
<1>1. CASE q.pending
  <2> DEFINE b == q.flush \/ q.count + 1 < flushThreshold
             m == q.out + 1
             n == q.count + 1
             x == [q EXCEPT !.pending = FALSE, !.batch = FALSE, !.out = m, !.count = n, !.flush = b]
  <2>1. Promoted(q) = x
    BY <1>1 DEF Promoted
  <2>2. b \in BOOLEAN /\ m \in Nat /\ n \in Nat
    <3>1. m \in Nat /\ n \in Nat
      BY SMTT(30), QueueFields
    <3> QED
      BY <3>1
  <2>3. ~AtThreshold(q) => b
    BY SMTT(30), <1>1, QueueFields, UpkeepAssumption DEF AtThreshold
  <2> HIDE DEF b, m, n
  <2>4. x \in Queue /\ ~x.pending /\ x.stuck = q.stuck /\ x.flush = b
    BY <2>2 DEF Queue
  <2> QED
    BY <1>1, <2>1, <2>3, <2>4
<1>2. CASE ~q.pending
  <2>1. LET x == [q EXCEPT !.batch = FALSE]
        IN  x \in Queue /\ x.pending = q.pending /\ x.stuck = q.stuck /\ x.out = q.out /\ x.flush = q.flush
    BY DEF Queue
  <2> QED
    BY <1>2, <2>1 DEF Promoted
<1> QED
  BY <1>1, <1>2, QueueFields

(* A flush that has nothing to do, or may not do it, leaves nothing owed. *)
LEMMA SkipQueue ==
  ASSUME NEW q \in Queue, Skips(q)
  PROVE  /\ QueueAfterSkip(q) \in Queue /\ QueueAfterSkip(q).pending = q.pending /\ QueueAfterSkip(q).batch = q.batch
         /\ QueueAfterSkip(q).out > 0 => QueueAfterSkip(q).stuck
<1>1. CASE eng.adapter = Absent \/ eng.paused
  <2> DEFINE b == q.out > 0
             x == [[q EXCEPT !.flush = FALSE] EXCEPT !.stuck = b]
  <2>1. b \in BOOLEAN
    BY SMTT(30), QueueFields
  <2>2. QueueAfterSkip(q) = x
    BY <1>1 DEF QueueAfterSkip, clearScheduledFlush
  <2> HIDE DEF b
  <2>3. x \in Queue /\ x.pending = q.pending /\ x.batch = q.batch /\ x.out = q.out /\ x.stuck = b
    BY <2>1 DEF Queue
  <2> QED
    BY <2>2, <2>3 DEF b
<1>2. CASE ~(eng.adapter = Absent \/ eng.paused)
  <2>1. q.out = 0
    BY <1>2 DEF Skips
  <2>2. QueueAfterSkip(q) = [q EXCEPT !.count = 0]
    BY <1>2 DEF QueueAfterSkip
  <2> QED
    BY SMTT(30), <2>1, <2>2 DEF Queue
<1> QED
  BY <1>1, <1>2

LEMMA PublishedQueue ==
  ASSUME NEW q \in Queue
  PROVE  Published(q) \in Queue /\ Published(q).pending = q.pending /\ Published(q).batch = q.batch /\ Published(q).out = 0
  BY DEF Queue, Published, clearScheduledFlush

(* Nothing is owed once the queue was promoted and cut. *)
LEMMA CutQueue ==
  ASSUME NEW q \in Queue, NEW fl
  PROVE  Cut(Promoted(q)) \in Queue /\ Owes(Cut(Promoted(q)), fl)
<1>1. Promoted(q) \in Queue /\ ~Promoted(q).pending
  BY Promotes
<1>2. CASE Skips(Promoted(q))
  BY <1>1, <1>2, SkipQueue DEF Cut, Owes
<1>3. CASE ~Skips(Promoted(q))
  <2>1. Cut(Promoted(q)) = Published(Promoted(q))
    BY <1>3 DEF Cut
  <2>2. ~(0 > 0)
    BY SMTT(30)
  <2> QED
    BY <1>1, <2>1, <2>2, PublishedQueue DEF Owes
<1> QED
  BY <1>2, <1>3

-----------------------------------------------------------------------------
(* The calls that flush *)

LEMMA FlushFields ==
  ASSUME NEW x \in FlushCall
  PROVE  x.pc \in {"idle", "wait", "publish", "auto", "await"} /\ x.all \in BOOLEAN /\ x.trigger \in Nat
  BY SMTT(30) DEF FlushCall

LEMMA NoFlushTyped ==
  /\ NoFlush \in FlushCall /\ NoFlush.pc = "idle"
  /\ \A b \in BOOLEAN : LET x == [NoFlush EXCEPT !.pc = "wait", !.all = b] IN x \in FlushCall /\ x.pc = "wait"
  /\ \A n \in Nat : LET x == [NoFlush EXCEPT !.pc = "publish", !.trigger = n] IN x \in FlushCall /\ x.pc = "publish"
  /\ \A c \in Compactions : LET x == [NoFlush EXCEPT !.pc = "await", !.on = c] IN x \in FlushCall /\ x.pc = "await"
  BY DEF NoFlush, FlushCall

(* A call that starts takes a place that is idle. *)
LEMMA FlushStarts ==
  ASSUME Locking(lock, flushing, compact), SomeFlushFree, NEW b \in BOOLEAN
  PROVE  /\ Locking(lock, flushQueued(flushing, b), compact)
         /\ FreeFlush \in Flushes /\ FreeFlush # last /\ flushing[FreeFlush].pc = "idle" /\ flushQueued(flushing, b)[FreeFlush].pc = "wait"
         /\ \A f \in Flushes : f # FreeFlush => flushQueued(flushing, b)[f] = flushing[f]
<1>1. FreeFlush \in Flushes /\ FreeFlush # last /\ flushing[FreeFlush].pc = "idle"
  BY DEF SomeFlushFree, FreeFlush, FreeFlushes
<1>2. [NoFlush EXCEPT !.pc = "wait", !.all = b] \in FlushCall /\ [NoFlush EXCEPT !.pc = "wait", !.all = b].pc = "wait"
  BY NoFlushTyped
<1>3. flushQueued(flushing, b) = [flushing EXCEPT ![FreeFlush] = [NoFlush EXCEPT !.pc = "wait", !.all = b]]
  BY DEF flushQueued
<1>4. flushing \in [Flushes -> FlushCall]
  BY DEF Locking
<1> HIDE DEF FreeFlush
<1>5. /\ flushQueued(flushing, b) \in [Flushes -> FlushCall] /\ flushQueued(flushing, b)[FreeFlush].pc = "wait"
      /\ \A f \in Flushes : f # FreeFlush => flushQueued(flushing, b)[f] = flushing[f]
  BY <1>1, <1>2, <1>3, <1>4
<1> QED
  BY <1>1, <1>5 DEF Locking

(* Places that change without publishing keep the lock where it is. *)
LEMMA FlushMoves ==
  ASSUME NEW l, NEW fl, NEW k, Locking(l, fl, k), NEW f \in Flushes, fl[f].pc # "publish", NEW x \in FlushCall, x.pc # "publish"
  PROVE  Locking(l, [fl EXCEPT ![f] = x], k)
<1>1. [fl EXCEPT ![f] = x] \in [Flushes -> FlushCall] /\ \A g \in Flushes : [fl EXCEPT ![f] = x][g] = IF g = f THEN x ELSE fl[g]
  BY DEF Locking
<1> QED
  BY <1>1 DEF Locking

LEMMA FlushTakes ==
  ASSUME NEW fl, NEW k, Locking(Absent, fl, k), NEW f \in Flushes, NEW x \in FlushCall, x.pc = "publish"
  PROVE  Locking(f, [fl EXCEPT ![f] = x], k)
<1>1. [fl EXCEPT ![f] = x] \in [Flushes -> FlushCall] /\ \A g \in Flushes : [fl EXCEPT ![f] = x][g] = IF g = f THEN x ELSE fl[g]
  BY DEF Locking
<1> QED
  BY <1>1, UpkeepAssumption DEF Locking

LEMMA FlushLeaves ==
  ASSUME NEW l, NEW fl, NEW k, Locking(l, fl, k), NEW f \in Flushes, fl[f].pc = "publish", NEW x \in FlushCall, x.pc # "publish"
  PROVE  Locking(Absent, [fl EXCEPT ![f] = x], k)
<1>1. [fl EXCEPT ![f] = x] \in [Flushes -> FlushCall] /\ \A g \in Flushes : [fl EXCEPT ![f] = x][g] = IF g = f THEN x ELSE fl[g]
  BY DEF Locking
<1>2. l = f
  BY DEF Locking
<1> QED
  BY <1>1, <1>2, UpkeepAssumption DEF Locking

-----------------------------------------------------------------------------
(* The calls that compact *)

LEMMA PromisesDiffer ==
  /\ Nobody \in Promises
  /\ \A c \in Compactions : Run(c) \in Promises /\ Wrap(c) \in Promises /\ Run(c) # Nobody
  /\ \A c, d \in Compactions : Run(c) # Wrap(d) /\ (Run(c) = Run(d) => c = d)
  BY SMTT(30) DEF Promises, Run, Wrap, Nobody

LEMMA NoCallTyped ==
  NoCall \in CompactCall /\ NoCall.pc = "idle"
<1>1. <<>> \in Promises
  BY DEF Promises, Nobody
<1> QED
  BY SMTT(30), <1>1 DEF NoCall, CompactCall

LEMMA CompactFields ==
  ASSUME NEW k \in Compact
  PROVE  /\ k.flight \in Promises /\ k.call \in [Compactions -> CompactCall]
         /\ k = [flight |-> k.flight, call |-> k.call]
  BY SMTT(30) DEF Compact

(* A call moves, with the guard in place. *)
CallAt(k, c, fl, x) == [flight |-> fl, call |-> [k.call EXCEPT ![c] = x]]

Moved(k, c, fl, x, y) ==
    /\ y \in Compact /\ y.flight = fl /\ y.call[c] = x
    /\ \A d \in Compactions : d # c => y.call[d] = k.call[d]

LEMMA CallMoves ==
  ASSUME NEW k \in Compact, NEW c \in Compactions, NEW fl \in Promises, NEW x \in CompactCall
  PROVE  Moved(k, c, fl, x, CallAt(k, c, fl, x))
<1>1. k.call \in [Compactions -> CompactCall]
  BY CompactFields
<1>2. PICK g : g = [k.call EXCEPT ![c] = x]
  OBVIOUS
<1>3. g \in [Compactions -> CompactCall] /\ g[c] = x /\ \A d \in Compactions : d # c => g[d] = k.call[d]
  BY <1>1, <1>2
<1>4. [flight |-> fl, call |-> g] \in Compact /\ [flight |-> fl, call |-> g].flight = fl /\ [flight |-> fl, call |-> g].call = g
  BY SMTT(30), <1>3 DEF Compact
<1> QED
  BY <1>2, <1>3, <1>4 DEF CallAt, Moved

(* A new call waits for ensureReady() before it looks at the guard. *)
LEMMA CallStarts ==
  ASSUME Locking(lock, flushing, compact), SomeCallFree, NEW by \in {"user", "auto", "delayed"} \cup Checks
  PROVE  /\ FreeCall \in Compactions /\ compact.call[FreeCall].pc = "idle"
         /\ Locking(lock, flushing, Called(compact, FreeCall, by))
         /\ compact.flight = Nobody =>
              Locking(lock, flushing, [Called(compact, FreeCall, by) EXCEPT !.flight = Wrap(FreeCall)])
<1>1. FreeCall \in Compactions /\ compact.call[FreeCall].pc = "idle"
  BY DEF SomeCallFree, FreeCall
<1> DEFINE x == [pc |-> "entering", by |-> by, on |-> Nobody]
<1>2. compact \in Compact /\ compact.flight \in Promises
  BY CompactFields DEF Locking
<1>3. x \in CompactCall /\ x.pc = "entering"
  <2>1. Nobody \in Promises
    BY PromisesDiffer
  <2> QED
    BY SMTT(30), <2>1 DEF CompactCall
<1> HIDE DEF FreeCall
<1>4. Called(compact, FreeCall, by) = CallAt(compact, FreeCall, compact.flight, x)
  <2>1. compact = [flight |-> compact.flight, call |-> compact.call]
    BY <1>2, CompactFields
  <2> QED
    BY SMTT(30), <2>1 DEF Called, CallAt
<1>5. [Called(compact, FreeCall, by) EXCEPT !.flight = Wrap(FreeCall)] = CallAt(compact, FreeCall, Wrap(FreeCall), x)
  BY SMTT(30), <1>4 DEF CallAt
<1> HIDE DEF x
<1>6. Wrap(FreeCall) \in Promises
  BY <1>1, PromisesDiffer
<1>7. Locking(lock, flushing, CallAt(compact, FreeCall, compact.flight, x))
  <2>1. Moved(compact, FreeCall, compact.flight, x, CallAt(compact, FreeCall, compact.flight, x))
    BY <1>1, <1>2, <1>3, CallMoves
  <2> QED
    BY <1>1, <1>3, <2>1 DEF Locking, Moved
<1>8. ASSUME compact.flight = Nobody PROVE Locking(lock, flushing, CallAt(compact, FreeCall, Wrap(FreeCall), x))
  <2>1. Moved(compact, FreeCall, Wrap(FreeCall), x, CallAt(compact, FreeCall, Wrap(FreeCall), x))
    BY <1>1, <1>2, <1>3, <1>6, CallMoves
  <2>2. \A d \in Compactions : compact.call[d].pc \notin {"queued", "work"}
    BY <1>8, PromisesDiffer DEF Locking
  <2> QED
    BY <1>1, <1>3, <2>1, <2>2 DEF Locking, Moved
<1> QED
  BY <1>1, <1>4, <1>5, <1>7, <1>8

LEMMA CompactEntersStep ==
  ASSUME Locking(lock, flushing, compact), NEW c \in Compactions, compact.call[c].pc = "entering", Enters(c)
  PROVE  Locking(lock, flushing, compact')
<1>1. compact \in Compact /\ compact.flight \in Promises /\ compact = [flight |-> compact.flight, call |-> compact.call]
  BY CompactFields DEF Locking
<1>2. compact.call[c] \in CompactCall
  BY <1>1, CompactFields
<1>3. CASE compact.flight # Nobody
  <2> DEFINE x == [compact.call[c] EXCEPT !.pc = "joined", !.on = compact.flight]
  <2>1. compact' = CallAt(compact, c, compact.flight, x)
    <3>1. compact' = [compact EXCEPT !.call[c].pc = "joined", !.call[c].on = compact.flight]
      BY <1>3 DEF Enters
    <3> QED
      BY <1>1, <1>2, <3>1, CompactFields DEF CallAt
  <2>2. x \in CompactCall /\ x.pc = "joined"
    BY <1>1, <1>2 DEF CompactCall
  <2> HIDE DEF x
  <2>3. Moved(compact, c, compact.flight, x, compact')
    BY <1>1, <2>1, <2>2, CallMoves
  <2> QED
    BY <2>2, <2>3 DEF Locking, Moved
<1>4. CASE compact.flight = Nobody
  <2> DEFINE x == [compact.call[c] EXCEPT !.pc = "queued"]
  <2>1. compact' = CallAt(compact, c, Run(c), x)
    <3>1. compact' = [compact EXCEPT !.flight = Run(c), !.call[c].pc = "queued"]
      BY <1>4 DEF Enters
    <3> QED
      BY <1>1, <1>2, <3>1, CompactFields DEF CallAt
  <2>2. x \in CompactCall /\ x.pc = "queued"
    BY SMTT(30), <1>2 DEF CompactCall
  <2> HIDE DEF x
  <2>3. Moved(compact, c, Run(c), x, compact')
    BY <1>1, <2>1, <2>2, CallMoves, PromisesDiffer
  <2>4. \A d \in Compactions : compact.call[d].pc \notin {"queued", "work"}
    BY <1>4, PromisesDiffer DEF Locking
  <2> QED
    BY <2>2, <2>3, <2>4 DEF Locking, Moved
<1> QED
  BY <1>3, <1>4

LEMMA CompactTakes ==
  ASSUME Locking(Absent, flushing, compact), NEW c \in Compactions, compact.call[c].pc = "queued",
         compact' = [compact EXCEPT !.call[c].pc = "work"]
  PROVE  Locking(c, flushing, compact')
<1> DEFINE x == [compact.call[c] EXCEPT !.pc = "work"]
<1>1. compact \in Compact /\ compact.flight \in Promises /\ compact = [flight |-> compact.flight, call |-> compact.call]
  BY CompactFields DEF Locking
<1>2. compact.call[c] \in CompactCall
  BY <1>1, CompactFields
<1>3. compact' = CallAt(compact, c, compact.flight, x)
  BY SMTT(30), <1>1, <1>2, CompactFields DEF CallAt
<1>4. x \in CompactCall /\ x.pc = "work"
  BY SMTT(30), <1>2 DEF CompactCall
<1> HIDE DEF x
<1>5. Moved(compact, c, compact.flight, x, compact')
  <2>1. Moved(compact, c, compact.flight, x, CallAt(compact, c, compact.flight, x))
    BY <1>1, <1>4, CallMoves
  <2> QED
    BY ONLY <1>3, <2>1, Zenon
<1> QED
  BY <1>4, <1>5, UpkeepAssumption DEF Locking, Moved

(* A compaction that ends lets go of the guard and the lock, and of the flush that waits for it. *)
LEMMA CompactLeaves ==
  ASSUME NEW fl, Locking(lock, fl, compact), NEW c \in Compactions, compact.call[c].pc = "work"
  PROVE  Locking(Absent, AutoEnds(c, fl), CallsAfter(c))
<1>1. /\ fl \in [Flushes -> FlushCall] /\ lock = c /\ compact.flight = Run(c)
      /\ \A f \in Flushes : fl[f].pc # "publish"
  BY UpkeepAssumption DEF Locking
<1>2. /\ AutoEnds(c, fl) \in [Flushes -> FlushCall]
      /\ \A f \in Flushes : AutoEnds(c, fl)[f].pc # "publish"
  BY <1>1, NoFlushTyped DEF AutoEnds
<1>3. \A d \in Compactions : compact.call[d] \in CompactCall
  BY CompactFields DEF Locking
<1>4. Resolved(c) \in [Compactions -> CompactCall]
  BY <1>3, NoCallTyped DEF Resolved
<1>5. \A d \in Compactions : Resolved(c)[d].pc \notin {"queued", "work"}
  <2>1. \A d \in Compactions : d # c => compact.call[d].pc \notin {"queued", "work"}
    BY <1>1, PromisesDiffer DEF Locking
  <2> QED
    BY <2>1, NoCallTyped DEF Resolved
<1>6. CallsAfter(c) = [flight |-> Nobody, call |-> Resolved(c)]
  BY <1>1 DEF CallsAfter, Settles
<1>7. /\ [flight |-> Nobody, call |-> Resolved(c)] \in Compact
      /\ [flight |-> Nobody, call |-> Resolved(c)].call = Resolved(c)
  <2>1. Nobody \in Promises
    BY PromisesDiffer
  <2> QED
    BY SMTT(30), <1>4, <2>1 DEF Compact
<1> QED
  BY <1>2, <1>5, <1>6, <1>7, UpkeepAssumption DEF Locking

-----------------------------------------------------------------------------
(* The timers *)

LEMMA TimerFields ==
  ASSUME NEW t \in Timer
  PROVE  /\ t.check \in BOOLEAN /\ t.listing \in {"none", "live", "stale"} /\ t.run \in {"none", "live", "stale"}
         /\ t.retention \in {"none", "now", "later"}
  BY SMTT(30) DEF Timer

LEMMA DeadlineSet ==
  ASSUME NEW t \in Timer, NEW up, NEW due \in {"now", "later"}
  PROVE  LET x == scheduleRetentionCompactionCheck(t, up, due)
         IN  /\ x \in Timer
             /\ t.retention # "none" => x.retention # "none"
             /\ up /\ managed /\ loaded => x.retention # "none"
<1>1. [t EXCEPT !.retention = due] \in Timer /\ [t EXCEPT !.retention = due].retention = due
  BY SMTT(30) DEF Timer
<1>2. due # "none"
  OBVIOUS
<1> QED
  BY <1>1, <1>2 DEF scheduleRetentionCompactionCheck

LEMMA ChangeArms ==
  ASSUME NEW t \in Timer, NEW q
  PROVE  TimersAfterPromotion(q, t) \in Timer /\ TimersAfterPromotion(q, t).retention = t.retention
<1>1. Superseded(t.listing) \in {"none", "live", "stale"} /\ Superseded(t.run) \in {"none", "live", "stale"}
  BY TimerFields DEF Superseded
<1>2. LET x == [t EXCEPT !.check = TRUE, !.listing = Superseded(t.listing), !.run = Superseded(t.run)]
      IN  x \in Timer /\ x.retention = t.retention
  BY <1>1 DEF Timer
<1> QED
  BY <1>2 DEF TimersAfterPromotion, armDelayedCompactAfterChange

LEMMA TimersCleared ==
  ASSUME NEW t \in Timer
  PROVE  clearCompactTimers(t) \in Timer
<1>1. Superseded(t.listing) \in {"none", "live", "stale"}
  BY TimerFields DEF Superseded
<1> QED
  BY <1>1 DEF Timer, clearCompactTimers

-----------------------------------------------------------------------------
(* Writes and flushes *)

(* What a step beside the session has to keep. *)
LEMMA BesideSession ==
  ASSUME UpkeepIInv, SameFlags(eng, eng'), run' = run, served' = served, managed' = managed,
         UpkeepTyped', Locking(lock', flushing', compact'),
         Live(eng, run, served) /\ loaded /\ Owes(queue, flushing) => Owes(queue', flushing') /\ loaded',
         eng.connected /\ eng.whole /\ managed /\ loaded /\ Ahead(timer, checking) => Ahead(timer', checking')
  PROVE  UpkeepIInv'
<1>1. eng'.connected = eng.connected /\ eng'.whole = eng.whole
  BY DEF SameFlags
<1>2. Live(eng', run', served') <=> Live(eng, run, served)
  BY <1>1 DEF Live
<1>3. Live(eng', run', served') => Owes(queue', flushing') /\ loaded'
  BY <1>2 DEF UpkeepIInv
<1>4. eng.connected /\ eng.whole => loaded
  BY DEF UpkeepIInv, Live
<1>5. Armed(managed', eng', run', loaded', timer', checking')
  BY <1>1, <1>4 DEF UpkeepIInv, Armed
<1> QED
  BY <1>3, <1>5 DEF UpkeepIInv

LEMMA PutStep ==
  ASSUME UpkeepIInv, SessionIInv, Put
  PROVE  UpkeepIInv'
<1>1. queue \in Queue
  BY DEF UpkeepIInv, UpkeepTyped
<1>2. /\ queue' \in Queue /\ queue'.batch /\ queue'.out = queue.out /\ queue'.stuck = queue.stuck
      /\ queue'.flush = queue.flush
  BY <1>1 DEF Queue, Put
<1>3. SameFlags(eng, eng)
  BY SettledFlags DEF SessionIInv, Core
<1>4. Owes(queue, flushing) => Owes(queue', flushing)
  BY <1>2 DEF Owes
<1>5. UpkeepTyped'
  BY <1>2 DEF UpkeepIInv, UpkeepTyped, Put
<1>6. Locking(lock', flushing', compact')
  BY DEF UpkeepIInv, Put
<1> QED
  BY <1>3, <1>4, <1>5, <1>6, BesideSession DEF Put

(* What a promotion owes is a timer, or the flush it starts at the threshold. *)
LEMMA PromotionOwes ==
  ASSUME NEW q \in Queue, NEW fl, NEW fs, Owes(q, fl), AtThreshold(q) => \E f \in Flushes : fs[f].pc = "wait",
         \A f \in Flushes : fl[f].pc \in {"wait", "publish"} => fs[f].pc \in {"wait", "publish"}
  PROVE  Owes(Promoted(q), fs)
<1>1. CASE q.pending
  BY <1>1, Promotes DEF Owes
<1>2. CASE ~q.pending
  BY <1>2, Promotes DEF Owes
<1> QED
  BY <1>1, <1>2, QueueFields

LEMMA BatchFiresStep ==
  ASSUME UpkeepIInv, SessionIInv, BatchFires
  PROVE  UpkeepIInv'
<1>1. queue \in Queue /\ timer \in Timer
  BY DEF UpkeepIInv, UpkeepTyped
<1>2. SameFlags(eng, eng)
  BY SettledFlags DEF SessionIInv, Core
<1>3. queue' \in Queue /\ timer' \in Timer /\ timer'.retention = timer.retention
  BY <1>1, Promotes, ChangeArms DEF BatchFires
<1>4. /\ Locking(lock, flushing', compact)
      /\ AtThreshold(queue) => \E f \in Flushes : flushing'[f].pc = "wait"
      /\ \A f \in Flushes : flushing[f].pc \in {"wait", "publish"} => flushing'[f].pc \in {"wait", "publish"}
  <2>1. CASE AtThreshold(queue)
    <3>1. SomeFlushFree /\ flushing' = flushQueued(flushing, FALSE)
      BY <2>1 DEF BatchFires
    <3>2. /\ Locking(lock, flushing', compact) /\ FreeFlush \in Flushes /\ flushing[FreeFlush].pc = "idle"
          /\ flushing'[FreeFlush].pc = "wait" /\ \A f \in Flushes : f # FreeFlush => flushing'[f] = flushing[f]
      BY <3>1, FlushStarts DEF UpkeepIInv
    <3> QED
      BY <3>2
  <2>2. CASE ~AtThreshold(queue)
    BY <2>2 DEF BatchFires, UpkeepIInv
  <2> QED
    BY <2>1, <2>2
<1>5. Owes(queue, flushing) => Owes(queue', flushing')
  BY <1>1, <1>4, PromotionOwes DEF BatchFires
<1>6. UpkeepTyped'
  BY <1>3 DEF UpkeepIInv, UpkeepTyped, BatchFires
<1>7. Locking(lock', flushing', compact')
  BY <1>4 DEF BatchFires
<1>8. Ahead(timer, checking) => Ahead(timer', checking')
  BY <1>3 DEF Ahead, BatchFires
<1> QED
  BY <1>2, <1>5, <1>6, <1>7, <1>8, BesideSession DEF BatchFires, sessionVars

LEMMA FlushFiresStep ==
  ASSUME UpkeepIInv, SessionIInv, FlushFires
  PROVE  UpkeepIInv'
<1>1. queue \in Queue
  BY DEF UpkeepIInv, UpkeepTyped
<1>2. SameFlags(eng, eng)
  BY SettledFlags DEF SessionIInv, Core
<1>3. queue' \in Queue /\ queue'.pending = queue.pending /\ queue'.batch = queue.batch
  BY <1>1 DEF Queue, FlushFires, clearScheduledFlush
<1>4. Locking(lock, flushing', compact) /\ \E f \in Flushes : flushing'[f].pc = "wait"
  <2>1. Locking(lock, flushQueued(flushing, FALSE), compact) /\ FreeFlush \in Flushes
        /\ flushQueued(flushing, FALSE)[FreeFlush].pc = "wait"
    BY FlushStarts DEF UpkeepIInv, FlushFires
  <2> QED
    BY <2>1 DEF FlushFires
<1>5. Owes(queue, flushing) => Owes(queue', flushing')
  BY <1>3, <1>4 DEF Owes
<1>6. UpkeepTyped'
  BY <1>3 DEF UpkeepIInv, UpkeepTyped, FlushFires
<1>7. Locking(lock', flushing', compact')
  BY <1>4 DEF FlushFires
<1> QED
  BY <1>2, <1>5, <1>6, <1>7, BesideSession DEF FlushFires, sessionVars

LEMMA FlushLocksStep ==
  ASSUME UpkeepIInv, SessionIInv, NEW f \in Flushes, FlushLocks(f)
  PROVE  UpkeepIInv'
<1> DEFINE all == flushing[f].all
           q == IF all THEN Promoted(queue) ELSE queue
           fl == IF all /\ AtThreshold(queue) THEN flushQueued(flushing, FALSE) ELSE flushing
           x == IF Skips(q) THEN NoFlush ELSE [NoFlush EXCEPT !.pc = "publish", !.trigger = q.count]
<1>1. queue \in Queue /\ timer \in Timer /\ Locking(Absent, flushing, compact) /\ flushing[f].pc = "wait" /\ lock = Absent
  BY DEF UpkeepIInv, UpkeepTyped, FlushLocks
<1>2. SameFlags(eng, eng)
  BY SettledFlags DEF SessionIInv, Core
<1>3. /\ queue' = IF Skips(q) THEN QueueAfterSkip(q) ELSE q
      /\ lock' = IF Skips(q) THEN Absent ELSE f
      /\ flushing' = [fl EXCEPT ![f] = x]
      /\ all /\ AtThreshold(queue) => SomeFlushFree
      /\ timer' = IF all THEN TimersAfterPromotion(queue, timer) ELSE timer
      /\ UNCHANGED <<sessionVars, managed, loaded, stored, compact, checking, served, last>>
  BY DEF FlushLocks
<1>4. q \in Queue /\ q.count \in Nat /\ ((q.pending => q.batch) \/ ~(queue.pending => queue.batch))
  BY <1>1, Promotes, QueueFields
<1>5. /\ Locking(Absent, fl, compact) /\ fl[f].pc = "wait"
  <2>1. CASE all /\ AtThreshold(queue)
    BY <1>1, <1>3, <2>1, FlushStarts
  <2>2. CASE ~(all /\ AtThreshold(queue))
    BY <1>1, <2>2
  <2> QED
    BY <2>1, <2>2
<1> HIDE DEF all, q, fl
<1>6. x \in FlushCall /\ (Skips(q) => x.pc = "idle") /\ (~Skips(q) => x.pc = "publish")
  BY <1>4, NoFlushTyped
<1> HIDE DEF x
<1>7. Locking(lock', flushing', compact')
  BY <1>3, <1>5, <1>6, FlushMoves, FlushTakes
<1>8. queue' \in Queue /\ timer' \in Timer /\ timer'.retention = timer.retention
  BY <1>1, <1>3, <1>4, SkipQueue, ChangeArms
<1>9. Owes(queue, flushing) => Owes(queue', flushing')
  <2>1. CASE Skips(q)
    BY <1>3, <1>4, <2>1, SkipQueue DEF Owes
  <2>2. CASE ~Skips(q)
    <3>1. flushing'[f].pc = "publish"
      BY <1>3, <1>5, <1>6, <2>2 DEF Locking
    <3> QED
      BY <1>3, <1>4, <2>2, <3>1 DEF Owes
  <2> QED
    BY <2>1, <2>2
<1>10. UpkeepTyped'
  BY <1>3, <1>8 DEF UpkeepIInv, UpkeepTyped
<1>11. Ahead(timer, checking) => Ahead(timer', checking')
  BY <1>3, <1>8 DEF Ahead
<1> QED
  BY <1>2, <1>3, <1>7, <1>9, <1>10, <1>11, BesideSession DEF sessionVars

LEMMA FlushDoneStep ==
  ASSUME UpkeepIInv, SessionIInv, NEW f \in Flushes, FlushDone(f)
  PROVE  UpkeepIInv'
<1>1. /\ queue \in Queue /\ timer \in Timer /\ Locking(lock, flushing, compact) /\ stored \in [files : Nat, old : BOOLEAN]
      /\ flushing[f].pc = "publish"
  BY DEF UpkeepIInv, UpkeepTyped, FlushDone
<1>2. SameFlags(eng, eng')
  BY SettledFlags DEF SessionIInv, Core, FlushDone
<1>3. queue' \in Queue /\ queue'.pending = queue.pending /\ queue'.batch = queue.batch /\ queue'.out = 0
  BY <1>1, PublishedQueue DEF FlushDone
<1>4. timer' \in Timer /\ (timer.retention # "none" => timer'.retention # "none")
  BY <1>1, DeadlineSet DEF FlushDone
<1>5. stored' \in [files : Nat, old : BOOLEAN]
  BY SMTT(30), <1>1 DEF FlushDone
<1>6. [flushing[f] EXCEPT !.pc = "auto"] \in FlushCall /\ [flushing[f] EXCEPT !.pc = "auto"].pc = "auto"
  <2>1. flushing[f] \in FlushCall
    BY <1>1 DEF Locking
  <2> QED
    BY SMTT(30), <2>1 DEF FlushCall
<1>7. Locking(lock', flushing', compact')
  BY <1>1, <1>6, FlushLeaves DEF FlushDone, Unlocks
<1>8. Owes(queue, flushing) => Owes(queue', flushing')
  <2>1. ~(queue'.out > 0)
    BY SMTT(30), <1>3
  <2> QED
    BY <1>3, <2>1 DEF Owes
<1>9. UpkeepTyped'
  BY <1>3, <1>4, <1>5 DEF UpkeepIInv, UpkeepTyped, FlushDone
<1>10. Ahead(timer, checking) => Ahead(timer', checking')
  BY <1>4 DEF Ahead, FlushDone
<1> QED
  BY <1>2, <1>7, <1>8, <1>9, <1>10, BesideSession DEF FlushDone

LEMMA FlushFailsStep ==
  ASSUME UpkeepIInv, SessionIInv, NEW f \in Flushes, NEW unread \in BOOLEAN, FlushFails(f, unread)
  PROVE  UpkeepIInv'
<1>1. queue \in Queue /\ Locking(lock, flushing, compact) /\ flushing[f].pc = "publish"
  BY DEF UpkeepIInv, UpkeepTyped, FlushFails
<1>2. SameFlags(eng, eng')
  BY SettledFlags DEF SessionIInv, Core, FlushFails
<1>3. queue' \in Queue /\ queue'.pending = queue.pending /\ queue'.batch = queue.batch /\ queue'.stuck
  <2>1. LET x == [queue EXCEPT !.stuck = TRUE]
        IN  x \in Queue /\ x.pending = queue.pending /\ x.batch = queue.batch /\ x.stuck
    BY <1>1 DEF Queue
  <2>2. LET x == [[queue EXCEPT !.flush = FALSE] EXCEPT !.count = queue.out, !.stuck = TRUE]
        IN  x \in Queue /\ x.pending = queue.pending /\ x.batch = queue.batch /\ x.stuck
    BY <1>1 DEF Queue
  <2> QED
    BY <2>1, <2>2 DEF FlushFails, clearScheduledFlush
<1>4. Locking(lock', flushing', compact')
  BY <1>1, NoFlushTyped, FlushLeaves DEF FlushFails, Unlocks
<1>5. Owes(queue, flushing) => Owes(queue', flushing')
  BY <1>3 DEF Owes
<1>6. UpkeepTyped'
  BY <1>3 DEF UpkeepIInv, UpkeepTyped, FlushFails
<1> QED
  BY <1>2, <1>4, <1>5, <1>6, BesideSession DEF FlushFails

LEMMA AutoStartsStep ==
  ASSUME UpkeepIInv, SessionIInv, NEW f \in Flushes, AutoStarts(f)
  PROVE  UpkeepIInv'
<1>1. /\ Locking(lock, flushing, compact) /\ SomeCallFree /\ compact.flight = Nobody /\ flushing[f].pc = "auto"
      /\ compact' = [Called(compact, FreeCall, "auto") EXCEPT !.flight = Wrap(FreeCall)]
      /\ flushing' = [flushing EXCEPT ![f] = [NoFlush EXCEPT !.pc = "await", !.on = FreeCall]]
  BY DEF UpkeepIInv, AutoStarts
<1>2. FreeCall \in Compactions /\ Locking(lock, flushing, compact')
  BY <1>1, CallStarts
<1>3. Locking(lock', flushing', compact')
  <2>1. PICK x : x = [NoFlush EXCEPT !.pc = "await", !.on = FreeCall]
    OBVIOUS
  <2>2. x \in FlushCall /\ x.pc # "publish" /\ flushing[f].pc # "publish"
    BY <1>1, <1>2, <2>1, NoFlushTyped
  <2>3. Locking(lock, [flushing EXCEPT ![f] = x], compact')
    BY <1>2, <2>2, FlushMoves
  <2> QED
    BY <1>1, <2>1, <2>3 DEF AutoStarts
<1>4. SameFlags(eng, eng)
  BY SettledFlags DEF SessionIInv, Core
<1>5. \A g \in Flushes : flushing[g].pc \in {"wait", "publish"} => flushing'[g] = flushing[g]
  BY <1>1 DEF Locking
<1>6. Owes(queue, flushing) => Owes(queue', flushing')
  BY <1>5 DEF Owes, AutoStarts
<1>7. UpkeepTyped'
  BY DEF UpkeepIInv, UpkeepTyped, AutoStarts
<1> QED
  BY <1>3, <1>4, <1>6, <1>7, BesideSession DEF AutoStarts, sessionVars

LEMMA AutoSkipsStep ==
  ASSUME UpkeepIInv, SessionIInv, NEW f \in Flushes, AutoSkips(f)
  PROVE  UpkeepIInv'
<1>1. Locking(lock, flushing, compact) /\ flushing[f].pc = "auto" /\ flushing' = [flushing EXCEPT ![f] = NoFlush]
  BY DEF UpkeepIInv, AutoSkips
<1>2. Locking(lock', flushing', compact')
  <2>1. NoFlush \in FlushCall /\ NoFlush.pc # "publish" /\ flushing[f].pc # "publish"
    BY <1>1, NoFlushTyped
  <2>2. Locking(lock, [flushing EXCEPT ![f] = NoFlush], compact)
    BY <1>1, <2>1, FlushMoves
  <2> QED
    BY <1>1, <2>2 DEF AutoSkips
<1>3. SameFlags(eng, eng)
  BY SettledFlags DEF SessionIInv, Core
<1>4. \A g \in Flushes : flushing[g].pc \in {"wait", "publish"} => flushing'[g] = flushing[g]
  BY <1>1 DEF Locking
<1>5. Owes(queue, flushing) => Owes(queue', flushing')
  BY <1>4 DEF Owes, AutoSkips
<1>6. UpkeepTyped'
  BY DEF UpkeepIInv, UpkeepTyped, AutoSkips
<1> QED
  BY <1>2, <1>3, <1>5, <1>6, BesideSession DEF AutoSkips, sessionVars

-----------------------------------------------------------------------------
(* Compactions and what starts them *)

(* Calls and timers may move while the queue, its flushes and the lock stay. *)
LEMMA BesideQueue ==
  ASSUME UpkeepIInv, SessionIInv, UNCHANGED <<eng, run, served, managed, queue, flushing, loaded, last>>,
         stored' \in [files : Nat, old : BOOLEAN], timer' \in Timer,
         checking' \in [Checks -> {"idle", "prune", "list", "compact"}], Locking(lock', flushing, compact'),
         eng.connected /\ eng.whole /\ managed /\ loaded /\ Ahead(timer, checking) => Ahead(timer', checking')
  PROVE  UpkeepIInv'
<1>1. SameFlags(eng, eng)
  BY SettledFlags DEF SessionIInv, Core
<1>2. UpkeepTyped'
  BY DEF UpkeepIInv, UpkeepTyped
<1> QED
  BY <1>1, <1>2, BesideSession

LEMMA CallSteps ==
  ASSUME UpkeepIInv, SessionIInv,
         UserCompacts \/ (\E c \in Compactions : CompactEnters(c) \/ CompactLocks(c)) \/ \E k \in Checks : RetentionCompacts(k)
  PROVE  UpkeepIInv'
<1>1. /\ Locking(lock, flushing, compact) /\ stored \in [files : Nat, old : BOOLEAN] /\ timer \in Timer
      /\ checking \in [Checks -> {"idle", "prune", "list", "compact"}]
  BY DEF UpkeepIInv, UpkeepTyped
<1>2. CASE UserCompacts
  <2>1. Locking(lock, flushing, compact')
    BY <1>1, <1>2, CallStarts DEF UserCompacts
  <2> QED
    BY <1>1, <1>2, <2>1, BesideQueue DEF UserCompacts
<1>3. ASSUME NEW c \in Compactions, CompactEnters(c) PROVE UpkeepIInv'
  <2>1. Locking(lock, flushing, compact')
    BY <1>1, <1>3, CompactEntersStep DEF CompactEnters
  <2> QED
    BY <1>1, <1>3, <2>1, BesideQueue DEF CompactEnters, sessionVars
<1>4. ASSUME NEW c \in Compactions, CompactLocks(c) PROVE UpkeepIInv'
  <2>1. Locking(lock', flushing, compact')
    BY <1>1, <1>4, CompactTakes DEF CompactLocks
  <2> QED
    BY <1>1, <1>4, <2>1, BesideQueue DEF CompactLocks, sessionVars
<1>5. ASSUME NEW k \in Checks, RetentionCompacts(k) PROVE UpkeepIInv'
  <2>1. Locking(lock, flushing, compact')
    BY <1>1, <1>5, CallStarts DEF RetentionCompacts
  <2>2. checking' \in [Checks -> {"idle", "prune", "list", "compact"}] /\ checking'[k] = "compact"
    BY <1>1, <1>5 DEF RetentionCompacts
  <2> QED
    BY <1>1, <1>5, <2>1, <2>2, BesideQueue DEF RetentionCompacts, sessionVars, Ahead
<1> QED
  BY <1>2, <1>3, <1>4, <1>5

LEMMA DelayedSteps ==
  ASSUME UpkeepIInv, SessionIInv, DelayedChecks \/ DelayedListed \/ DelayedRuns \/ ChangesAge
  PROVE  UpkeepIInv'
<1>1. /\ Locking(lock, flushing, compact) /\ stored \in [files : Nat, old : BOOLEAN] /\ timer \in Timer
      /\ checking \in [Checks -> {"idle", "prune", "list", "compact"}]
  BY DEF UpkeepIInv, UpkeepTyped
<1>2. CASE DelayedChecks
  <2>1. timer' \in Timer /\ timer'.retention = timer.retention
    BY <1>1, <1>2 DEF DelayedChecks, Timer
  <2> QED
    BY <1>1, <1>2, <2>1, BesideQueue DEF DelayedChecks, sessionVars, Ahead
<1>3. CASE DelayedListed
  <2>1. timer' \in Timer /\ timer'.retention = timer.retention
    BY <1>1, <1>3 DEF DelayedListed, Timer
  <2> QED
    BY <1>1, <1>3, <2>1, BesideQueue DEF DelayedListed, sessionVars, Ahead
<1>4. CASE DelayedRuns
  <2>1. timer' \in Timer /\ timer'.retention = timer.retention
    BY SMTT(30), <1>1, <1>4 DEF DelayedRuns, Timer
  <2>2. Locking(lock, flushing, compact')
    BY <1>1, <1>4, CallStarts DEF DelayedRuns
  <2> QED
    BY <1>1, <1>4, <2>1, <2>2, BesideQueue DEF DelayedRuns, sessionVars, Ahead
<1>5. CASE ChangesAge
  <2>1. stored' \in [files : Nat, old : BOOLEAN]
    BY <1>1, <1>5 DEF ChangesAge
  <2> QED
    BY <1>1, <1>5, <2>1, BesideQueue DEF ChangesAge
<1> QED
  BY <1>2, <1>3, <1>4, <1>5

(* A check that ends, in whatever way, has the next one ahead of it. *)
LEMMA RetentionSteps ==
  ASSUME UpkeepIInv, SessionIInv,
         RetentionFires \/ \E k \in Checks : RetentionEnds(k) \/ \E ok \in BOOLEAN : RetentionPrunes(k, ok) \/ RetentionWaits(k, ok)
  PROVE  UpkeepIInv'
<1>1. /\ Locking(lock, flushing, compact) /\ stored \in [files : Nat, old : BOOLEAN] /\ timer \in Timer
      /\ checking \in [Checks -> {"idle", "prune", "list", "compact"}]
  BY DEF UpkeepIInv, UpkeepTyped
<1>2. eng.connected /\ eng.whole => eng.adapter # Absent
  BY DEF SessionIInv, Core
<1>3. [timer EXCEPT !.retention = "none"] \in Timer
  BY SMTT(30), <1>1 DEF Timer
<1>4. CASE RetentionFires
  <2> DEFINE t == [timer EXCEPT !.retention = "none"]
  <2>1. timer' = IF Reachable /\ managed /\ loaded /\ eng.poisoned THEN ComesBack(t) ELSE t
    BY <1>4 DEF RetentionFires
  <2>2. t \in Timer
    BY <1>3
  <2> HIDE DEF t
  <2>3. timer' \in Timer /\ (Reachable /\ managed /\ loaded /\ eng.poisoned => timer'.retention # "none")
    BY <2>1, <2>2, DeadlineSet DEF ComesBack, Reachable
  <2>4. /\ checking' \in [Checks -> {"idle", "prune", "list", "compact"}]
        /\ Reachable /\ managed /\ loaded /\ ~eng.poisoned => \E k \in Checks : checking'[k] # "idle"
    <3>1. CASE Reachable /\ managed /\ loaded /\ ~eng.poisoned
      <4>1. PICK k \in Checks : checking' = [checking EXCEPT ![k] = "prune"]
        BY <1>4, <3>1 DEF RetentionFires
      <4>2. checking' \in [Checks -> {"idle", "prune", "list", "compact"}] /\ checking'[k] = "prune"
        BY <1>1, <4>1
      <4> QED
        BY <4>2
    <3>2. CASE ~(Reachable /\ managed /\ loaded /\ ~eng.poisoned)
      BY <1>1, <1>4, <3>2 DEF RetentionFires
    <3> QED
      BY <3>1, <3>2
  <2>5. eng.connected /\ eng.whole /\ managed /\ loaded => Ahead(timer', checking')
    BY <1>2, <2>3, <2>4 DEF Ahead, Reachable
  <2> QED
    BY <1>1, <1>4, <2>3, <2>4, <2>5, BesideQueue DEF RetentionFires, sessionVars
<1>5. ASSUME NEW k \in Checks, RetentionEnds(k) PROVE UpkeepIInv'
  <2>1. timer' \in Timer /\ (eng.connected /\ managed /\ loaded => timer'.retention # "none")
    BY <1>3, <1>5, DeadlineSet DEF RetentionEnds, ComesBack
  <2>2. checking' \in [Checks -> {"idle", "prune", "list", "compact"}]
    BY <1>1, <1>5 DEF RetentionEnds
  <2> QED
    BY <1>1, <1>5, <2>1, <2>2, BesideQueue DEF RetentionEnds, sessionVars, Ahead
<1>6. ASSUME NEW k \in Checks, NEW ok \in BOOLEAN, RetentionWaits(k, ok) PROVE UpkeepIInv'
  <2>1. timer' \in Timer /\ (eng.connected /\ managed /\ loaded => timer'.retention # "none")
    BY <1>1, <1>6, DeadlineSet DEF RetentionWaits, ComesBack
  <2>2. checking' \in [Checks -> {"idle", "prune", "list", "compact"}]
    BY <1>1, <1>6 DEF RetentionWaits
  <2> QED
    BY <1>1, <1>6, <2>1, <2>2, BesideQueue DEF RetentionWaits, Ahead
<1>7. ASSUME NEW k \in Checks, NEW ok \in BOOLEAN, RetentionPrunes(k, ok) PROVE UpkeepIInv'
  <2>1. checking' = [checking EXCEPT ![k] = IF ok THEN "list" ELSE "idle"]
        /\ timer' = IF ok THEN timer ELSE scheduleRetentionCompactionCheck(timer, eng.connected, "later")
    BY <1>7 DEF RetentionPrunes
  <2>2. timer' \in Timer /\ (~ok /\ eng.connected /\ managed /\ loaded => timer'.retention # "none")
    BY <1>1, <2>1, DeadlineSet
  <2>3. checking' \in [Checks -> {"idle", "prune", "list", "compact"}] /\ (ok => checking'[k] = "list")
    BY <1>1, <2>1
  <2>4. eng.connected /\ eng.whole /\ managed /\ loaded => Ahead(timer', checking')
    BY <2>2, <2>3 DEF Ahead
  <2>5. SameFlags(eng, eng)
    BY SettledFlags DEF SessionIInv, Core
  <2>6. UpkeepTyped'
    BY <1>7, <2>2, <2>3 DEF UpkeepIInv, UpkeepTyped, RetentionPrunes
  <2>7. loaded => loaded'
    BY <1>7 DEF RetentionPrunes
  <2> QED
    BY <1>1, <1>7, <2>4, <2>5, <2>6, <2>7, BesideSession DEF RetentionPrunes
<1> QED
  BY <1>4, <1>5, <1>6, <1>7

LEMMA FilesTyped ==
  ASSUME stored \in [files : Nat, old : BOOLEAN]
  PROVE  FilesAfterCut \in [files : Nat, old : BOOLEAN]
<1>1. PICK n \in {0, 1} : n = IF Skips(Promoted(queue)) THEN 0 ELSE 1
  OBVIOUS
<1>2. [stored EXCEPT !.files = @ + n] \in [files : Nat, old : BOOLEAN]
  BY SMTT(30)
<1> QED
  BY <1>1, <1>2 DEF FilesAfterCut

(* What a compaction publishes before it cuts. *)
LEMMA CutsFirstStep ==
  ASSUME UpkeepIInv, NEW c \in Compactions, compact.call[c].pc = "work", CutsFirst(c)
  PROVE  /\ queue' \in Queue /\ Owes(queue', flushing') /\ timer' \in Timer
         /\ timer.retention # "none" => timer'.retention # "none"
         /\ Locking(Absent, flushing', CallsAfter(c)) /\ FilesAfterCut \in [files : Nat, old : BOOLEAN]
<1>1. /\ Locking(lock, flushing, compact) /\ queue \in Queue /\ timer \in Timer /\ stored \in [files : Nat, old : BOOLEAN]
  BY DEF UpkeepIInv, UpkeepTyped
<1>2. queue' \in Queue /\ Owes(queue', flushing')
  BY <1>1, CutQueue DEF CutsFirst
<1> DEFINE t == TimersAfterPromotion(queue, timer)
           due == IF Skips(Promoted(queue)) THEN "later" ELSE "now"
           fl == IF AtThreshold(queue) THEN flushQueued(flushing, FALSE) ELSE flushing
<1>3. timer' = scheduleRetentionCompactionCheck(t, eng.connected, due) /\ flushing' = AutoEnds(c, fl)
  BY DEF CutsFirst
<1>4. t \in Timer /\ t.retention = timer.retention /\ due \in {"now", "later"}
  BY <1>1, ChangeArms
<1>5. Locking(lock, fl, compact)
  BY <1>1, FlushStarts DEF CutsFirst
<1> HIDE DEF t, due, fl
<1>6. timer' \in Timer /\ (timer.retention # "none" => timer'.retention # "none")
  BY <1>3, <1>4, DeadlineSet
<1>7. Locking(Absent, flushing', CallsAfter(c))
  BY <1>3, <1>5, CompactLeaves
<1>8. FilesAfterCut \in [files : Nat, old : BOOLEAN]
  BY <1>1, FilesTyped
<1> QED
  BY <1>2, <1>6, <1>7, <1>8

LEMMA CompactEndSteps ==
  ASSUME UpkeepIInv, SessionIInv, NEW c \in Compactions, NEW b \in BOOLEAN, CompactDone(c, b) \/ CompactFails(c, b)
  PROVE  UpkeepIInv'
<1>1. SameFlags(eng, eng)
  BY SettledFlags DEF SessionIInv, Core
<1>2. compact.call[c].pc = "work"
  BY DEF CompactDone, CompactFails
<1>3. CASE CompactDone(c, b)
  <2>1. /\ queue' \in Queue /\ Owes(queue', flushing') /\ timer' \in Timer
        /\ timer.retention # "none" => timer'.retention # "none"
        /\ Locking(Absent, flushing', CallsAfter(c)) /\ FilesAfterCut \in [files : Nat, old : BOOLEAN]
    BY <1>2, <1>3, CutsFirstStep DEF CompactDone
  <2>2. [files |-> 0, old |-> FALSE] \in [files : Nat, old : BOOLEAN]
    BY SMTT(30)
  <2>3. stored' \in [files : Nat, old : BOOLEAN]
    BY <1>3, <2>1, <2>2 DEF CompactDone
  <2>4. UpkeepTyped'
    BY <1>3, <2>1, <2>3 DEF UpkeepIInv, UpkeepTyped, CompactDone
  <2>5. Locking(lock', flushing', compact')
    BY <1>3, <2>1 DEF CompactDone, Unlocks
  <2>6. Ahead(timer, checking) => Ahead(timer', checking')
    BY <1>3, <2>1 DEF CompactDone, Ahead
  <2> QED
    BY <1>1, <1>3, <2>1, <2>4, <2>5, <2>6, BesideSession DEF CompactDone
<1>4. CASE CompactFails(c, b) /\ b
  <2>1. CutsFirst(c) /\ stored' = FilesAfterCut
    BY <1>4 DEF CompactFails
  <2>2. /\ queue' \in Queue /\ Owes(queue', flushing') /\ timer' \in Timer
        /\ timer.retention # "none" => timer'.retention # "none"
        /\ Locking(Absent, flushing', CallsAfter(c)) /\ FilesAfterCut \in [files : Nat, old : BOOLEAN]
    BY <1>2, <2>1, CutsFirstStep
  <2>3. UpkeepTyped'
    BY <1>4, <2>1, <2>2 DEF UpkeepIInv, UpkeepTyped, CompactFails
  <2>4. Locking(lock', flushing', compact')
    BY <1>4, <2>2 DEF CompactFails, Unlocks
  <2>5. Ahead(timer, checking) => Ahead(timer', checking')
    BY <1>4, <2>2 DEF CompactFails, Ahead
  <2> QED
    BY <1>1, <1>4, <2>2, <2>3, <2>4, <2>5, BesideSession DEF CompactFails
<1>5. CASE CompactFails(c, b) /\ ~b
  <2>1. flushing' = AutoEnds(c, flushing) /\ UNCHANGED <<queue, timer, stored>>
    BY <1>5 DEF CompactFails
  <2>2. Locking(lock', flushing', compact')
    BY <1>2, <1>5, <2>1, CompactLeaves DEF UpkeepIInv, CompactFails, Unlocks
  <2>3. \A f \in Flushes : flushing[f].pc \in {"wait", "publish"} => flushing'[f] = flushing[f]
    BY <2>1 DEF AutoEnds
  <2>4. Owes(queue, flushing) => Owes(queue', flushing')
    BY <2>1, <2>3 DEF Owes
  <2>5. UpkeepTyped'
    BY <1>5, <2>1 DEF UpkeepIInv, UpkeepTyped, CompactFails
  <2> QED
    BY <1>1, <1>5, <2>1, <2>2, <2>4, <2>5, BesideSession DEF CompactFails
<1> QED
  BY <1>3, <1>4, <1>5

-----------------------------------------------------------------------------
(* The session with its upkeep *)

(* A teardown ends what was owed: no session is whole, and no connect will make one so. *)
LEMMA TornDown ==
  ASSUME UpkeepIInv, UpkeepTyped', Locking(lock', flushing', compact'), ~eng'.whole,
         \A c \in served' : run'[c].pc # "idle" /\ (run'[c].pc = "stages" => run'[c].torn)
  PROVE  UpkeepIInv'
<1>1. ~Live(eng', run', served')
  BY DEF Live
<1>2. Armed(managed', eng', run', loaded', timer', checking')
  BY DEF Armed
<1> QED
  BY <1>1, <1>2 DEF UpkeepIInv

LEMMA TornServed ==
  ASSUME UpkeepIInv, SessionIInv
  PROVE  \A c \in served : Torn(run)[c].pc # "idle" /\ (Torn(run)[c].pc = "stages" => Torn(run)[c].torn)
<1>1. \A c \in ConnectCalls : Torn(run)[c].pc = run[c].pc /\ (Torn(run)[c].pc = "idle" \/ Torn(run)[c].torn)
  BY TornRuns DEF SessionIInv, Core
<1>2. \A c \in served : c \in ConnectCalls /\ run[c].pc # "idle"
  BY DEF UpkeepIInv, UpkeepTyped
<1> QED
  BY <1>1, <1>2

(* A session that goes on leaves the upkeep as it was, or brings the deadline nearer. *)
LEMMA GoesOn ==
  ASSUME UpkeepIInv, UNCHANGED <<managed, loaded, queue, stored, lock, flushing, compact, checking, last>>,
         timer' \in Timer, served' \subseteq served,
         eng'.connected /\ eng'.whole => eng.connected /\ eng.whole,
         \A c \in served' : run'[c] = run[c],
         \A c \in ConnectCalls : run[c].pc = "settling" => run'[c].pc = "settling",
         timer.retention # "none" => timer'.retention # "none"
  PROVE  UpkeepIInv'
<1>1. UpkeepTyped' /\ Locking(lock', flushing', compact')
  BY DEF UpkeepIInv, UpkeepTyped
<1>2. \A c \in served' : run'[c].pc # "idle"
  BY DEF UpkeepIInv
<1>3. Live(eng', run', served') => Live(eng, run, served)
  BY DEF Live
<1>4. Live(eng', run', served') => Owes(queue', flushing') /\ loaded'
  BY <1>3 DEF UpkeepIInv
<1>5. Ahead(timer, checking) => Ahead(timer', checking')
  BY DEF Ahead
<1>6. Armed(managed', eng', run', loaded', timer', checking')
  BY <1>5 DEF UpkeepIInv, Armed
<1> QED
  BY <1>1, <1>2, <1>4, <1>6 DEF UpkeepIInv

(* What an outcome does to the timers and the queue. *)
LEMMA OutcomeTimers ==
  ASSUME NEW o, timer \in Timer
  PROVE  /\ TimersAfter(o) \in Timer /\ PulledTimers(o) \in Timer
         /\ o # "denied" /\ timer.retention # "none" =>
              TimersAfter(o).retention # "none" /\ PulledTimers(o).retention # "none"
<1>1. TimersAfter(o) \in Timer /\ (o # "denied" => TimersAfter(o) = timer)
  BY TimersCleared DEF TimersAfter
<1>2. LET x == scheduleRetentionCompactionCheck(timer, eng.connected, "later")
      IN  x \in Timer /\ (timer.retention # "none" => x.retention # "none")
  BY DeadlineSet
<1> QED
  BY <1>1, <1>2 DEF PulledTimers

LEMMA StuckQueue ==
  ASSUME NEW q \in Queue, NEW b \in BOOLEAN
  PROVE  [clearScheduledFlush(q) EXCEPT !.stuck = @ \/ b] \in Queue
<1> DEFINE d == q.stuck \/ b
<1>1. [clearScheduledFlush(q) EXCEPT !.stuck = @ \/ b] = [[q EXCEPT !.flush = FALSE] EXCEPT !.stuck = d]
  BY QueueFields DEF Queue, clearScheduledFlush
<1>2. d \in BOOLEAN
  OBVIOUS
<1> HIDE DEF d
<1>3. [[q EXCEPT !.flush = FALSE] EXCEPT !.stuck = d] \in Queue
  BY <1>2 DEF Queue
<1> QED
  BY <1>1, <1>3

LEMMA OutcomeQueue ==
  ASSUME NEW o, queue \in Queue, QueueAfter(o)
  PROVE  queue' \in Queue /\ (o \notin {"denied", "poisoned"} => queue' = queue)
<1>1. queue.flush \in BOOLEAN
  BY QueueFields
<1>2. [clearScheduledFlush(queue) EXCEPT !.stuck = @ \/ queue.flush] \in Queue
  BY <1>1, StuckQueue
<1> QED
  BY <1>2 DEF QueueAfter

(* A pull, or work that outlives its connect, ends. *)
LEMMA OutcomeUpkeep ==
  ASSUME UpkeepIInv, SessionIInv, NEW o, SameFlags(EngineAfter(o, eng), eng'), run' = RunAfter(o, run),
         QueueAfter(o), timer' \in {TimersAfter(o), PulledTimers(o)},
         UNCHANGED <<managed, loaded, stored, lock, flushing, compact, checking, served, last>>
  PROVE  UpkeepIInv'
<1>1. queue \in Queue /\ timer \in Timer /\ eng \in Eng /\ (eng.poisoned => ~eng.whole)
  BY DEF UpkeepIInv, UpkeepTyped, SessionIInv, Core
<1>2. queue' \in Queue /\ (o \notin {"denied", "poisoned"} => queue' = queue)
  BY <1>1, OutcomeQueue
<1>3. timer' \in Timer /\ (o # "denied" /\ timer.retention # "none" => timer'.retention # "none")
  BY <1>1, OutcomeTimers
<1>4. CASE o \in {"denied", "poisoned"}
  <2>1. ~eng'.whole
    BY <1>1, <1>4, OutcomeFlags DEF SameFlags
  <2>2. UpkeepTyped' /\ Locking(lock', flushing', compact')
    BY <1>2, <1>3 DEF UpkeepIInv, UpkeepTyped
  <2>3. run' = Torn(run)
    BY <1>4 DEF RunAfter
  <2> QED
    BY <2>1, <2>2, <2>3, TornServed, TornDown
<1>5. CASE o \notin {"denied", "poisoned"}
  <2>1. EngineAfter(o, eng) = eng
    BY <1>1, <1>5, OutcomeFlags
  <2>2. eng'.connected = eng.connected /\ eng'.whole = eng.whole
    BY <2>1 DEF SameFlags
  <2>3. run' = run
    BY <1>5 DEF RunAfter
  <2> QED
    BY <1>2, <1>3, <1>5, <2>2, <2>3, GoesOn
<1> QED
  BY <1>4, <1>5

LEMMA PullSteps ==
  ASSUME UpkeepIInv, SessionIInv, NEW o,
         \/ (\E g \in poll.pulling : PollDone(g, o)) /\ PullEnds(o)
         \/ RelayPullDone(o) /\ PullEnds(o)
         \/ LateAnswer(o) /\ LateEnds(o)
  PROVE  UpkeepIInv'
<1>1. EngineAfter(o, eng) \in Eng
  BY OutcomeFlags DEF SessionIInv, Core
<1>2. SameFlags(EngineAfter(o, eng), Settled(EngineAfter(o, eng))) /\ SameFlags(EngineAfter(o, eng), EngineAfter(o, eng))
  BY <1>1, SettledFlags
<1>3. SameFlags(EngineAfter(o, eng), eng') /\ run' = RunAfter(o, run)
  BY <1>2 DEF PollDone, RelayPullDone, LateAnswer
<1>4. QueueAfter(o) /\ timer' \in {TimersAfter(o), PulledTimers(o)}
      /\ UNCHANGED <<managed, loaded, stored, lock, flushing, compact, checking, served, last>>
  BY DEF PullEnds, LateEnds
<1> QED
  BY <1>3, <1>4, OutcomeUpkeep

(* Steps of the session that touch nothing of the upkeep. *)
LEMMA QuietSteps ==
  ASSUME UpkeepIInv, SessionIInv, UNCHANGED upkeepVars,
         SameFlags(eng, eng'), \A c \in ConnectCalls : run'[c] = run[c] \/ run[c].pc = "idle"
  PROVE  UpkeepIInv'
<1>1. \A c \in served : c \in ConnectCalls /\ run[c].pc # "idle"
  BY DEF UpkeepIInv, UpkeepTyped
<1>2. \A c \in served : run'[c] = run[c]
  BY <1>1
<1>3. \A c \in ConnectCalls : run[c].pc = "settling" => run'[c].pc = "settling"
  OBVIOUS
<1>4. timer \in Timer
  BY DEF UpkeepIInv, UpkeepTyped
<1>5. eng'.connected = eng.connected /\ eng'.whole = eng.whole
  BY DEF SameFlags
<1> QED
  BY <1>2, <1>3, <1>4, <1>5, GoesOn DEF upkeepVars

LEMMA CallQuiet ==
  ASSUME UpkeepIInv, SessionIInv, UNCHANGED upkeepVars,
         Connect \/ RelayTurns \/ CooldownFires \/ (\E a \in Adapters \cup {Absent} : setRemoteStorage(a))
                 \/ \E g \in poll.armed : PollFires(g)
  PROVE  UpkeepIInv'
<1>1. eng \in Eng /\ Core(eng, poll, relay, run) /\ joined \in ConnectCalls \cup {Absent}
  BY DEF SessionIInv, Core
<1>2. SameFlags(eng, Begun(eng)) /\ SameFlags(eng, eng)
  BY <1>1, SettledFlags
<1>3. CASE Connect
  <2>1. SameFlags(eng, eng')
    BY <1>1, <1>3, AskedFlags DEF Connect, connectOn, SameFlags
  <2>2. \A c \in ConnectCalls : run'[c] = run[c] \/ run[c].pc = "idle"
    BY <1>1, <1>3, BeginsCore DEF Connect
  <2> QED
    BY <2>1, <2>2, QuietSteps
<1>4. CASE ~Connect
  <2>1. SameFlags(eng, eng') /\ run' = run
    BY <1>2, <1>4 DEF RelayTurns, CooldownFires, setRemoteStorage, PollFires
  <2> QED
    BY <2>1, QuietSteps
<1> QED
  BY <1>3, <1>4

LEMMA SwapAttaches ==
  ASSUME UpkeepIInv, SessionIInv, UNCHANGED upkeepVars, SwapAttach
  PROVE  UpkeepIInv'
<1> DEFINE e == [eng EXCEPT !.adapter = swap.to, !.poisoned = FALSE, !.paused = FALSE, !.whole = FALSE]
<1>1. Core(eng, poll, relay, run) /\ eng \in Eng /\ joined \in ConnectCalls \cup {Absent}
  BY DEF SessionIInv, Core
<1>2. swap.to \in Adapters \cup {Absent}
  BY SMTT(30) DEF SessionIInv
<1>3. e \in Eng /\ ~e.whole /\ e.halted = eng.halted
  BY <1>1, <1>2 DEF Eng
<1>4. IF swap.was /\ swap.to # Absent THEN connectOn(e, Torn(run)) ELSE eng' = e /\ run' = Torn(run)
  BY DEF SwapAttach
<1> HIDE DEF e
<1>5. ~eng'.whole
  BY <1>3, <1>4, AskedFlags DEF connectOn
<1>6. Core(e, poll, relay, Torn(run))
  <2>1. Torn(run) \in Runs /\ \A c \in ConnectCalls : Torn(run)[c].pc = "stages" => Torn(run)[c].torn
    BY <1>1, TornRuns DEF Core
  <2> QED
    BY <1>1, <1>3, <2>1, CrossedCore DEF Core
<1>7. \A c \in ConnectCalls : run'[c] = Torn(run)[c] \/ run[c].pc = "idle"
  BY <1>1, <1>4, <1>6, BeginsCore
<1>8. \A c \in served : c \in ConnectCalls /\ run[c].pc # "idle"
  BY DEF UpkeepIInv, UpkeepTyped
<1>9. \A c \in served : run'[c].pc # "idle" /\ (run'[c].pc = "stages" => run'[c].torn)
  BY <1>7, <1>8, TornServed
<1>10. UpkeepTyped' /\ Locking(lock', flushing', compact')
  BY DEF UpkeepIInv, UpkeepTyped, upkeepVars
<1> QED
  BY <1>5, <1>9, <1>10, TornDown DEF upkeepVars

LEMMA ClosesStep ==
  ASSUME UpkeepIInv, SessionIInv, Closes
  PROVE  UpkeepIInv'
<1>1. /\ eng \in Eng /\ queue \in Queue /\ timer \in Timer /\ Locking(lock, flushing, compact)
      /\ eng.poisoned \in BOOLEAN
  BY FlagsOf DEF UpkeepIInv, UpkeepTyped, SessionIInv, Core
<1>2. haltPolling(eng) \in Eng /\ ~haltPolling(eng).whole
  BY <1>1, HaltFlags
<1>3. ~Closed(haltPolling(eng)).whole
  BY <1>2, ClosedFlags
<1>4. ~eng'.whole /\ run' = Torn(run)
  BY <1>2, <1>3 DEF Closes, Disconnect, teardown
<1>5. queue' \in Queue
  <2> DEFINE d == queue.stuck \/ eng.poisoned
  <2>1. d \in BOOLEAN
    OBVIOUS
  <2>2. queue' = [[queue EXCEPT !.flush = FALSE] EXCEPT !.batch = FALSE, !.stuck = d]
    BY <1>1 DEF Closes, clearScheduledFlush, Queue
  <2> HIDE DEF d
  <2>3. [[queue EXCEPT !.flush = FALSE] EXCEPT !.batch = FALSE, !.stuck = d] \in Queue
    BY <1>1, <2>1 DEF Queue
  <2> QED
    BY <2>2, <2>3
<1>6. timer' \in Timer
  BY <1>1, TimersCleared DEF Closes
<1>7. Locking(lock', flushing', compact') /\ last' \in Flushes \cup {Absent}
  <2>1. CASE eng.poisoned
    BY <1>1, <2>1 DEF Closes, UpkeepIInv, UpkeepTyped
  <2>2. CASE ~eng.poisoned
    <3>1. SomeFlushFree /\ flushing' = flushQueued(flushing, TRUE) /\ last' = FreeFlush /\ UNCHANGED <<lock, compact>>
      BY <2>2 DEF Closes
    <3>2. Locking(lock, flushQueued(flushing, TRUE), compact) /\ FreeFlush \in Flushes
      BY <1>1, <3>1, FlushStarts
    <3> QED
      BY <3>1, <3>2
  <2> QED
    BY <2>1, <2>2
<1>8. UpkeepTyped' /\ served' = served
  BY <1>5, <1>6, <1>7 DEF UpkeepIInv, UpkeepTyped, Closes
<1> QED
  BY <1>4, <1>7, <1>8, TornServed, TornDown

LEMMA ClosedDownStep ==
  ASSUME UpkeepIInv, SessionIInv, ClosedDown
  PROVE  UpkeepIInv'
<1>1. ~eng'.whole /\ run' = Torn(run)
  BY ClosedFlags DEF ClosedDown, Disconnected, SessionIInv, Core
<1>2. UpkeepTyped' /\ Locking(lock', flushing', compact') /\ served' = served
  BY DEF UpkeepIInv, UpkeepTyped, ClosedDown
<1> QED
  BY <1>1, <1>2, TornServed, TornDown

LEMMA SwapsStep ==
  ASSUME UpkeepIInv, SessionIInv, NEW o, Swaps(o)
  PROVE  UpkeepIInv'
<1> DEFINE e == IF FinalPull THEN Settled(EngineAfter(o, eng)) ELSE eng
           h == haltPolling(e)
<1>1. eng \in Eng /\ (eng.poisoned => ~eng.whole) /\ queue \in Queue /\ timer \in Timer
  BY DEF SessionIInv, Core, UpkeepIInv, UpkeepTyped
<1>2. e \in Eng
  BY <1>1, OutcomeFlags, SettledFlags DEF SameFlags
<1>3. eng' = [h EXCEPT !.connected = FALSE, !.poisoned = FALSE] /\ run' = Torn(run)
  BY DEF Swaps, SwapTeardown, teardown
<1> HIDE DEF e
<1>4. h \in Eng /\ ~h.whole
  BY <1>2, HaltFlags
<1> HIDE DEF h
<1>5. ~eng'.whole
  BY <1>3, <1>4 DEF Eng
<1>6. queue' \in Queue
  BY <1>1 DEF Swaps, clearScheduledFlush, Queue
<1>7. timer' \in Timer
  BY <1>1, OutcomeTimers DEF Swaps
<1>8. UpkeepTyped' /\ Locking(lock', flushing', compact') /\ served' = served
  BY <1>6, <1>7 DEF UpkeepIInv, UpkeepTyped, Swaps
<1> QED
  BY <1>3, <1>5, <1>8, TornServed, TornDown

LEMMA FlushDeniedUpkeep ==
  ASSUME UpkeepIInv, SessionIInv, NEW f \in Flushes, FlushDenied(f)
  PROVE  UpkeepIInv'
<1>1. queue \in Queue /\ timer \in Timer /\ Locking(lock, flushing, compact) /\ flushing[f].pc = "publish" /\ eng \in Eng
  BY DEF UpkeepIInv, UpkeepTyped, SessionIInv, Core, FlushDenied
<1>2. ~eng'.whole /\ run' = Torn(run)
  BY <1>1, DeniedFlags DEF FlushDenied
<1>3. queue' \in Queue
  BY <1>1 DEF FlushDenied, clearScheduledFlush, Queue
<1>4. timer' \in Timer
  BY <1>1, TimersCleared DEF FlushDenied
<1>5. Locking(lock', flushing', compact')
  BY <1>1, NoFlushTyped, FlushLeaves DEF FlushDenied, Unlocks
<1>6. UpkeepTyped' /\ served' = served
  BY <1>3, <1>4 DEF UpkeepIInv, UpkeepTyped, FlushDenied
<1> QED
  BY <1>2, <1>5, <1>6, TornServed, TornDown

(* A connect owes nothing once it has flushed, and has read the manifest. *)
LEMMA ConnectFlushesStep ==
  ASSUME UpkeepIInv, SessionIInv, NEW c \in ConnectCalls, ConnectFlushes(c)
  PROVE  UpkeepIInv'
<1>1. /\ queue \in Queue /\ timer \in Timer /\ Locking(lock, flushing, compact) /\ stored \in [files : Nat, old : BOOLEAN]
      /\ run[c].pc = "stages" /\ UNCHANGED <<eng, run>>
  BY DEF UpkeepIInv, UpkeepTyped, ConnectFlushes, sessionVars
<1>2. queue' \in Queue /\ Owes(queue', flushing')
  BY <1>1, CutQueue DEF ConnectFlushes
<1>3. Locking(lock', flushing', compact')
  BY <1>1, FlushStarts DEF ConnectFlushes
<1>4. timer' \in Timer /\ timer'.retention = timer.retention
  BY <1>1, ChangeArms DEF ConnectFlushes
<1>5. stored' \in [files : Nat, old : BOOLEAN]
  BY <1>1, FilesTyped DEF ConnectFlushes
<1>6. UpkeepTyped'
  BY <1>2, <1>4, <1>5 DEF UpkeepIInv, UpkeepTyped, ConnectFlushes
<1>7. \A d \in served' : run'[d].pc # "idle"
  BY <1>1 DEF UpkeepIInv, ConnectFlushes
<1>8. eng.connected /\ eng.whole => loaded
  BY DEF UpkeepIInv, Live
<1>9. Armed(managed', eng', run', loaded', timer', checking')
  BY <1>1, <1>4, <1>8 DEF UpkeepIInv, Armed, Ahead, ConnectFlushes
<1>10. loaded'
  BY DEF ConnectFlushes
<1> QED
  BY <1>2, <1>3, <1>6, <1>7, <1>9, <1>10 DEF UpkeepIInv

(* The session comes up with what its connect flushed; the deadline is looked at when it settles. *)
LEMMA SessionUpStep ==
  ASSUME UpkeepIInv, SessionIInv, NEW c \in ConnectCalls, SessionUp(c)
  PROVE  UpkeepIInv'
<1>1. eng \in Eng /\ run \in Runs /\ run[c].pc = "stages" /\ c \in served /\ UNCHANGED upkeepVars
  BY DEF SessionIInv, Core, SessionUp, ConnectUp
<1>2. run[c].torn \in BOOLEAN /\ [run[c] EXCEPT !.pc = "settling"].pc = "settling"
  <2>1. run[c] \in [pc : {"idle", "stages", "settling"}, adapter : Adapters \cup {Absent}, torn : BOOLEAN]
    BY <1>1 DEF Runs
  <2> QED
    BY SMTT(30), <2>1
<1>3. eng'.whole = ~run[c].torn
  <2> DEFINE b == ~run[c].torn
  <2>1. eng' = [eng EXCEPT !.connected = TRUE, !.paused = FALSE, !.whole = b]
    BY DEF SessionUp, ConnectUp
  <2> HIDE DEF b
  <2>2. eng'.whole = b
    BY <1>1, <2>1 DEF Eng
  <2> QED
    BY <2>2 DEF b
<1>4. \A d \in ConnectCalls : run'[d] = IF d = c THEN [run[c] EXCEPT !.pc = "settling"] ELSE run[d]
  <2>1. PICK x : x = [run[c] EXCEPT !.pc = "settling"]
    OBVIOUS
  <2>2. run' = [run EXCEPT ![c] = x]
    BY <2>1 DEF SessionUp, ConnectUp
  <2>3. \A d \in ConnectCalls : run'[d] = IF d = c THEN x ELSE run[d]
    BY <1>1, <2>2 DEF Runs
  <2> QED
    BY <2>1, <2>3
<1>5. UpkeepTyped' /\ Locking(lock', flushing', compact')
  BY <1>1 DEF UpkeepIInv, UpkeepTyped, upkeepVars
<1>6. served \subseteq ConnectCalls /\ \A d \in served : run[d].pc # "idle"
  BY DEF UpkeepIInv, UpkeepTyped
<1>7. \A d \in served : run'[d].pc # "idle"
  BY <1>2, <1>4, <1>6
<1>8. Live(eng', run', served) => Live(eng, run, served)
  BY <1>1, <1>2, <1>3, <1>4, <1>6 DEF Live
<1>9. Armed(managed', eng', run', loaded', timer', checking')
  BY <1>2, <1>4 DEF Armed
<1> QED
  BY <1>1, <1>5, <1>7, <1>8, <1>9 DEF UpkeepIInv, upkeepVars

LEMMA SessionSettledStep ==
  ASSUME UpkeepIInv, SessionIInv, NEW c \in ConnectCalls, SessionSettled(c)
  PROVE  UpkeepIInv'
<1>1. eng \in Eng /\ run \in Runs /\ timer \in Timer /\ served \subseteq ConnectCalls
  BY DEF SessionIInv, Core, UpkeepIInv, UpkeepTyped
<1>2. SameFlags(eng, eng')
  BY <1>1, StatusSet DEF SessionSettled, ConnectSettled, Statuses
<1>3. \A d \in served' : d \in served /\ run'[d] = run[d]
  <2>1. run' = [run EXCEPT ![c] = NoRun] /\ served' = served \ {c}
    BY DEF SessionSettled, ConnectSettled
  <2>2. \A d \in ConnectCalls : run'[d] = IF d = c THEN NoRun ELSE run[d]
    BY <1>1, <2>1 DEF Runs
  <2> QED
    BY <1>1, <2>1, <2>2
<1>4. timer' \in Timer /\ (eng.connected /\ managed /\ loaded => timer'.retention # "none")
  BY <1>1, DeadlineSet DEF SessionSettled
<1>5. UpkeepTyped' /\ Locking(lock', flushing', compact')
  BY <1>4 DEF UpkeepIInv, UpkeepTyped, SessionSettled
<1>6. \A d \in served' : run'[d].pc # "idle"
  BY <1>3 DEF UpkeepIInv
<1>7. Live(eng', run', served') => Live(eng, run, served)
  BY <1>2, <1>3 DEF Live, SameFlags
<1>8. Armed(managed', eng', run', loaded', timer', checking')
  BY <1>2, <1>4 DEF Armed, Ahead, SameFlags, SessionSettled
<1> QED
  BY <1>5, <1>6, <1>7, <1>8 DEF UpkeepIInv, SessionSettled

LEMMA MessageArrivesStep ==
  ASSUME UpkeepIInv, SessionIInv, MessageArrives
  PROVE  UpkeepIInv'
<1>1. timer' \in Timer /\ (timer.retention # "none" => timer'.retention # "none")
  BY DeadlineSet DEF UpkeepIInv, UpkeepTyped, MessageArrives
<1> QED
  BY <1>1, GoesOn DEF MessageArrives, RelayMessage

(* A connect that does not come up takes nothing with it but its own run. *)
LEMMA ConnectEndsStep ==
  ASSUME UpkeepIInv, SessionIInv, NEW c \in ConnectCalls, NEW o,
         ConnectEnds(c, o), ConnectFails(c, o) \/ (o = "failed" /\ ConnectStalls(c))
  PROVE  UpkeepIInv'
<1>1. /\ eng \in Eng /\ run \in Runs /\ timer \in Timer /\ queue \in Queue /\ served \subseteq ConnectCalls
      /\ eng.poisoned => ~eng.whole
  BY DEF SessionIInv, Core, UpkeepIInv, UpkeepTyped
<1>2. queue' \in Queue /\ (o \notin {"denied", "poisoned"} => queue' = queue)
  BY <1>1, OutcomeQueue DEF ConnectEnds
<1>3. timer' \in Timer /\ (o # "denied" /\ timer.retention # "none" => timer'.retention # "none")
  BY <1>1, OutcomeTimers DEF ConnectEnds
<1>4. run[c].pc = "stages" /\ served' = served \ {c}
  BY DEF ConnectFails, ConnectStalls, ConnectEnds
<1>5. CASE o \in {"denied", "poisoned"}
  <2>1. ~eng'.whole /\ run' = [Torn(run) EXCEPT ![c] = NoRun]
    BY <1>1, <1>5, OutcomeFlags DEF ConnectFails, RunAfter
  <2>2. Torn(run) \in Runs
    BY <1>1, TornRuns
  <2>3. \A d \in served' : d \in served /\ run'[d] = Torn(run)[d]
    <3>1. \A d \in ConnectCalls : run'[d] = IF d = c THEN NoRun ELSE Torn(run)[d]
      BY <2>1, <2>2 DEF Runs
    <3> QED
      BY <1>1, <1>4, <3>1
  <2>4. UpkeepTyped' /\ Locking(lock', flushing', compact')
    BY <1>2, <1>3 DEF UpkeepIInv, UpkeepTyped, ConnectEnds
  <2> QED
    BY <2>1, <2>3, <2>4, TornServed, TornDown
<1>6. CASE o \notin {"denied", "poisoned"}
  <2>1. SameFlags(eng, eng')
    BY <1>1, <1>6, OutcomeFlags, SettledFlags, StatusSet DEF ConnectFails, ConnectStalls, Statuses
  <2>2. run' = [run EXCEPT ![c] = NoRun]
    BY <1>6 DEF ConnectFails, ConnectStalls, RunAfter
  <2>3. \A d \in ConnectCalls : run'[d] = IF d = c THEN NoRun ELSE run[d]
    BY <1>1, <2>2 DEF Runs
  <2>4. \A d \in served' : run'[d] = run[d]
    BY <1>1, <1>4, <2>3
  <2>5. \A d \in ConnectCalls : run[d].pc = "settling" => run'[d].pc = "settling"
    BY <1>4, <2>3
  <2>6. UNCHANGED <<managed, loaded, queue, stored, lock, flushing, compact, checking, last>>
    BY <1>2, <1>6 DEF ConnectEnds
  <2> QED
    BY <1>3, <1>4, <1>6, <2>1, <2>4, <2>5, <2>6, GoesOn DEF SameFlags
<1> QED
  BY <1>5, <1>6

-----------------------------------------------------------------------------
(* The upkeep holds *)

LEMMA UpkeepInitial ==
  ASSUME NEW a \in Adapters \cup {Absent}, NEW budgets, NEW modes \in SUBSET BOOLEAN,
         SessionInit(a, budgets), UpkeepInit(modes)
  PROVE  UpkeepIInv
<1>1. queue \in Queue /\ stored \in [files : Nat, old : BOOLEAN]
  BY SMTT(30) DEF UpkeepInit, Queue
<1>2. timer \in Timer
  BY SMTT(30) DEF UpkeepInit, Timer
<1>3. UpkeepTyped
  BY <1>1, <1>2 DEF UpkeepInit, UpkeepTyped
<1>4. compact \in Compact /\ compact.call = [c \in Compactions |-> NoCall]
  <2>1. PICK g : g = [c \in Compactions |-> NoCall]
    OBVIOUS
  <2>2. g \in [Compactions -> CompactCall] /\ Nobody \in Promises
    BY <2>1, NoCallTyped, PromisesDiffer
  <2> QED
    BY SMTT(30), <2>1, <2>2 DEF UpkeepInit, Compact
<1>5. Locking(lock, flushing, compact)
  BY <1>4, NoFlushTyped, NoCallTyped, UpkeepAssumption DEF UpkeepInit, Locking
<1>6. ~(eng.connected /\ eng.whole) /\ served = {}
  BY DEF SessionInit, UpkeepInit
<1> QED
  BY <1>3, <1>5, <1>6 DEF UpkeepIInv, Live, Armed

LEMMA UpkeepNext ==
  ASSUME UpkeepIInv, SessionIInv, [EngineNext]_engineVars
  PROVE  UpkeepIInv'
<1>1. CASE SessionStep
  <2>1. CASE (Connect \/ SwapAttach \/ RelayTurns \/ CooldownFires \/ \E a \in Adapters \cup {Absent} : setRemoteStorage(a))
             /\ UNCHANGED upkeepVars
    BY <2>1, CallQuiet, SwapAttaches
  <2>2. CASE PollComes \/ Closes \/ ClosedDown \/ MessageArrives
    BY <2>2, CallQuiet, ClosesStep, ClosedDownStep, MessageArrivesStep DEF PollComes
  <2>3. ASSUME NEW c \in ConnectCalls,
               ConnectFlushes(c) \/ SessionUp(c) \/ SessionSettled(c) \/ (ConnectStalls(c) /\ ConnectEnds(c, "failed"))
        PROVE  UpkeepIInv'
    BY <2>3, ConnectFlushesStep, SessionUpStep, SessionSettledStep, ConnectEndsStep
  <2>4. ASSUME NEW o \in Outcomes,
               \/ \E g \in poll.pulling : PollDone(g, o) /\ PullEnds(o)
               \/ RelayPullDone(o) /\ PullEnds(o)
               \/ LateAnswer(o) /\ LateEnds(o)
               \/ Swaps(o)
               \/ \E c \in ConnectCalls : ConnectFails(c, o) /\ ConnectEnds(c, o)
        PROVE  UpkeepIInv'
    BY <2>4, PullSteps, SwapsStep, ConnectEndsStep
  <2> QED
    BY <1>1, <2>1, <2>2, <2>3, <2>4 DEF SessionStep
<1>2. CASE WriteStep
  BY <1>2, PutStep, BatchFiresStep, FlushFiresStep, FlushLocksStep, FlushDoneStep, FlushDeniedUpkeep, FlushFailsStep,
     AutoStartsStep, AutoSkipsStep DEF WriteStep
<1>3. CASE CompactStep
  BY <1>3, CallSteps, DelayedSteps, RetentionSteps, CompactEndSteps DEF CompactStep
<1>4. CASE UNCHANGED engineVars
  BY <1>4 DEF engineVars, sessionVars, upkeepVars, UpkeepIInv, UpkeepTyped
<1> QED
  BY <1>1, <1>2, <1>3, <1>4 DEF EngineNext

(* The guard names at most one call, so at most one waits for the lock or works under it. *)
LEMMA OneAtWork == UpkeepIInv => OneCompaction
<1> SUFFICES ASSUME UpkeepIInv PROVE OneCompaction
  OBVIOUS
<1> DEFINE S == {c \in Compactions : compact.call[c].pc \in {"queued", "work"}}
<1>1. \A c, d \in S : c = d
  BY PromisesDiffer DEF UpkeepIInv, Locking
<1>2. CASE S = {}
  <2>1. Cardinality(S) = 0
    BY <1>2, FS_EmptySet
  <2> QED
    BY SMTT(30), <2>1 DEF OneCompaction
<1>3. CASE S # {}
  <2>1. PICK c \in S : TRUE
    BY <1>3
  <2>2. S = {c}
    BY <1>1, <2>1
  <2>3. Cardinality(S) = 1
    BY <2>2, FS_Singleton
  <2> QED
    BY SMTT(30), <2>3 DEF OneCompaction
<1> QED
  BY <1>2, <1>3

LEMMA UpkeepHolds == UpkeepIInv => UpkeepInv
<1> SUFFICES ASSUME UpkeepIInv PROVE UpkeepInv
  OBVIOUS
<1>1. /\ \A f \in Flushes : flushing[f] \in FlushCall
      /\ \A c \in Compactions : compact.call[c] \in CompactCall
      /\ compact.flight \in Promises
  BY CompactFields DEF UpkeepIInv, Locking
<1>2. \A c \in Compactions : compact.call[c].pc \in {"idle", "entering", "joined", "queued", "work"}
  BY SMTT(30), <1>1 DEF CompactCall
<1>3. UpkeepTypeOK
  BY <1>1, <1>2, FlushFields DEF UpkeepIInv, UpkeepTyped, Locking, UpkeepTypeOK, Queue, Timer
<1>4. WritesOwed
  BY DEF UpkeepIInv, Live, Owes, WritesOwed
<1>5. RetentionArmed
  BY DEF UpkeepIInv, Armed, Ahead, RetentionArmed
<1> QED
  BY <1>3, <1>4, <1>5, OneAtWork DEF UpkeepInv

(***************************************************************************)
(* What the engine owes between two events of its timers, for any number   *)
(* of calls, timers and thresholds and whatever the remote and the relay   *)
(* answer: a whole session has a timer or a flush for everything written   *)
(* (sync-engine.ts: scheduleFlush(), flush()), at most one compaction is   *)
(* queued or at work (compact() and its guard), and the managed writer has *)
(* the next look at the retention deadline ahead of it.                    *)
(***************************************************************************)
THEOREM UpkeepIsOwed ==
  ASSUME NEW a \in Adapters \cup {Absent}, NEW budgets, NEW modes \in SUBSET BOOLEAN
  PROVE  EngineSpec(a, budgets, modes) => []UpkeepInv
<1>1. SessionInit(a, budgets) /\ UpkeepInit(modes) => SessionIInv /\ UpkeepIInv
  BY SessionInitial, UpkeepInitial
<1>2. SessionIInv /\ UpkeepIInv /\ [EngineNext]_engineVars => SessionIInv' /\ UpkeepIInv'
  BY SessionNext, UpkeepNext
<1> QED
  BY <1>1, <1>2, UpkeepHolds, PTL DEF EngineSpec
=============================================================================
