--------------------------- MODULE Session_proofs ---------------------------
(***************************************************************************)
(* Proofs about a session and its upkeep (core/sync-engine.ts): there is   *)
(* one poll loop at most and none after a teardown, however connect(),     *)
(* disconnect(), setRemoteStorage(), denials and late answers overlap.     *)
(***************************************************************************)
EXTENDS Upkeep, TLAPS, FiniteSetTheorems

USE ZenonT(60)

(* An engine from its construction on, with any adapter, calls and mode. *)
EngineSpec(a, budgets, modes) ==
    SessionInit(a, budgets) /\ UpkeepInit(modes) /\ [][EngineNext]_engineVars

-----------------------------------------------------------------------------
(* The invariant of the session *)

Eng ==
    [connected : BOOLEAN, halted : BOOLEAN, paused : BOOLEAN, poisoned : BOOLEAN,
     whole : BOOLEAN, adapter : Adapters \cup {Absent}, status : Statuses]

Poll ==
    [gen : Generations \cup {Absent}, timer : Generations \cup {Absent},
     armed : SUBSET Generations, pulling : SUBSET Generations]

Relay ==
    [sub : Adapters \cup {Absent}, cooldown : BOOLEAN, again : BOOLEAN, pull : BOOLEAN,
     replay : BOOLEAN, running : 0 .. MaxPulls, owed : BOOLEAN]

Runs == [ConnectCalls -> [pc : {"idle", "stages", "settling"}, adapter : Adapters \cup {Absent}, torn : BOOLEAN]]

(* A timer is armed for the generation that is current, which otherwise is pulling. *)
OneLoop(p) ==
    /\ p.armed = IF p.timer = Absent THEN {} ELSE {p.timer}
    /\ p.timer # Absent => p.gen = p.timer /\ p.timer \notin p.pulling
    /\ p.gen # Absent => p.timer # Absent \/ p.gen \in p.pulling
    /\ Cardinality(p.pulling) <= MaxPulls

(* A connect that no teardown has crossed finds the gate open and its adapter attached. *)
Intact(e, rn) ==
    \A c \in ConnectCalls :
       rn[c].pc = "stages" /\ ~rn[c].torn =>
          ~e.halted /\ ~e.poisoned /\ rn[c].adapter = e.adapter /\ e.adapter # Absent

Core(e, p, r, rn) ==
    /\ e \in Eng /\ p \in Poll /\ r \in Relay /\ rn \in Runs
    /\ OneLoop(p) /\ Intact(e, rn)
    /\ e.halted => p.gen = Absent
    /\ e.poisoned => ~e.whole
    /\ e.connected /\ e.whole => p.gen # Absent /\ r.sub = e.adapter /\ e.adapter # Absent

SessionIInv ==
    /\ Core(eng, poll, relay, run)
    /\ joined \in ConnectCalls \cup {Absent} /\ closing \in BOOLEAN /\ late \in BOOLEAN
    /\ swap \in [pc : {"idle", "pull", "size"}, to : Adapters \cup {Absent}, was : BOOLEAN]

-----------------------------------------------------------------------------
(* What the operators on the engine's flags do *)

(* The flags the invariant reads are those of e; the gate may have been opened. *)
SameFlags(e, f) ==
    /\ f \in Eng /\ f.connected = e.connected /\ (f.halted => e.halted) /\ f.poisoned = e.poisoned
    /\ f.whole = e.whole /\ f.adapter = e.adapter

LEMMA FlagsOf ==
  ASSUME NEW e \in Eng
  PROVE  /\ e.connected \in BOOLEAN /\ e.halted \in BOOLEAN /\ e.paused \in BOOLEAN /\ e.poisoned \in BOOLEAN
         /\ e.whole \in BOOLEAN /\ e.adapter \in Adapters \cup {Absent} /\ e.status \in Statuses
  BY SMTT(30) DEF Eng

LEMMA StatusSet ==
  ASSUME NEW e \in Eng, NEW s \in Statuses
  PROVE  SameFlags(e, [e EXCEPT !.status = s]) /\ [e EXCEPT !.status = s].paused = e.paused
  BY SMTT(30) DEF Eng, SameFlags

LEMMA SettledFlags ==
  ASSUME NEW e \in Eng
  PROVE  SameFlags(e, Settled(e)) /\ SameFlags(e, Begun(e)) /\ Settled(e).paused = e.paused /\ SameFlags(e, e)
<1>1. SameFlags(e, e)
  BY DEF SameFlags
<1>2. "idle" \in Statuses /\ "syncing" \in Statuses
  BY DEF Statuses
<1> QED
  BY <1>1, <1>2, StatusSet DEF Settled, Begun

LEMMA HaltFlags ==
  ASSUME NEW e \in Eng
  PROVE  /\ haltPolling(e) \in Eng /\ haltPolling(e).halted /\ ~haltPolling(e).whole
         /\ haltPolling(e).connected = e.connected /\ haltPolling(e).poisoned = e.poisoned
         /\ haltPolling(e).adapter = e.adapter
  BY DEF Eng, haltPolling

LEMMA DeniedFlags ==
  ASSUME NEW e \in Eng
  PROVE  AccessDenied(e) \in Eng /\ ~AccessDenied(e).whole /\ AccessDenied(e).adapter = e.adapter
         /\ ~AccessDenied(e).connected
<1> DEFINE h == haltPolling(e)
<1>1. h \in Eng /\ ~h.whole /\ h.adapter = e.adapter
  BY HaltFlags
<1> HIDE DEF h
<1>2. LET f == [h EXCEPT !.paused = TRUE, !.connected = FALSE, !.status = "offline"]
      IN  f \in Eng /\ ~f.whole /\ f.adapter = h.adapter /\ ~f.connected
  BY <1>1 DEF Eng, Statuses
<1> QED
  BY <1>1, <1>2 DEF AccessDenied, h

LEMMA PoisonedFlags ==
  ASSUME NEW e \in Eng, e.poisoned => ~e.whole
  PROVE  poisonRemote(e) \in Eng /\ ~poisonRemote(e).whole /\ poisonRemote(e).adapter = e.adapter
         /\ (poisonRemote(e).connected => e.connected)
<1>1. CASE e.poisoned
  BY <1>1 DEF poisonRemote
<1>2. CASE ~e.poisoned
  <2> DEFINE h == haltPolling(e)
  <2>1. h \in Eng /\ ~h.whole /\ h.adapter = e.adapter
    BY HaltFlags
  <2> HIDE DEF h
  <2>2. LET f == [h EXCEPT !.poisoned = TRUE, !.connected = FALSE]
        IN  f \in Eng /\ ~f.whole /\ f.adapter = h.adapter /\ ~f.connected
    BY <2>1 DEF Eng
  <2> QED
    BY <1>2, <2>1, <2>2 DEF poisonRemote, h
<1> QED
  BY <1>1, <1>2

LEMMA ClosedFlags ==
  ASSUME NEW e \in Eng
  PROVE  Closed(e) \in Eng /\ ~Closed(e).whole /\ ~Closed(e).connected /\ ~Closed(e).poisoned
         /\ Closed(e).halted = e.halted /\ Closed(e).adapter = e.adapter
  BY DEF Eng, Closed, Statuses

LEMMA AskedFlags ==
  ASSUME NEW e \in Eng
  PROVE  Asked(e) \in Eng /\ ~Asked(e).halted /\ Asked(e).whole = e.whole /\ Asked(e).connected = e.connected
         /\ Asked(e).poisoned = e.poisoned /\ Asked(e).adapter = e.adapter
  BY DEF Eng, Asked, Statuses

LEMMA OutcomeFlags ==
  ASSUME NEW e \in Eng, NEW o, e.poisoned => ~e.whole
  PROVE  /\ EngineAfter(o, e) \in Eng /\ EngineAfter(o, e).adapter = e.adapter
         /\ o \in {"denied", "poisoned"} => ~EngineAfter(o, e).whole
         /\ o \notin {"denied", "poisoned"} => EngineAfter(o, e) = e
  BY DeniedFlags, PoisonedFlags DEF EngineAfter

-----------------------------------------------------------------------------
(* What the operators on the poll loop, the relay and the runs do *)

LEMMA PollFields ==
  ASSUME NEW p \in Poll
  PROVE  /\ p.gen \in Generations \cup {Absent} /\ p.timer \in Generations \cup {Absent}
         /\ p.armed \in SUBSET Generations /\ p.pulling \in SUBSET Generations
  BY SMTT(30) DEF Poll

LEMMA StopLoop ==
  ASSUME NEW p \in Poll, OneLoop(p)
  PROVE  /\ stopPolling(p) \in Poll /\ OneLoop(stopPolling(p)) /\ stopPolling(p).gen = Absent
         /\ stopPolling(p).armed = {} /\ stopPolling(p).pulling = p.pulling
<1>1. p.armed \ {p.timer} = {}
  BY DEF OneLoop
<1>2. stopPolling(p) = [p EXCEPT !.gen = Absent, !.timer = Absent, !.armed = {}]
  BY <1>1 DEF stopPolling
<1>3. LET q == [p EXCEPT !.gen = Absent, !.timer = Absent, !.armed = {}]
      IN  q \in Poll /\ q.gen = Absent /\ q.timer = Absent /\ q.armed = {} /\ q.pulling = p.pulling
  BY DEF Poll
<1> QED
  BY <1>2, <1>3 DEF OneLoop

(* There always is a generation that no pull under way belongs to. *)
LEMMA FreshIsNew ==
  ASSUME NEW p \in Poll, p.armed = {}, Cardinality(p.pulling) <= MaxPulls
  PROVE  Fresh(p) \in Generations /\ Fresh(p) \notin p.pulling
<1>1. p.pulling \subseteq Generations
  BY PollFields
<1>2. IsFiniteSet(p.pulling) /\ Cardinality(p.pulling) \in Nat /\ Cardinality(Generations) \in Nat
  BY <1>1, SessionBounds, FS_Subset, FS_CardinalityType
<1>3. p.pulling # Generations
  BY SMTT(30), <1>2, SessionBounds
<1>4. \E g \in Generations : g \notin p.armed \cup p.pulling
  BY <1>1, <1>3
<1> QED
  BY <1>4 DEF Fresh

LEMMA StartLoop ==
  ASSUME NEW p \in Poll, OneLoop(p), NEW halted \in BOOLEAN
  PROVE  /\ startPolling(halted, p) \in Poll /\ OneLoop(startPolling(halted, p))
         /\ halted => startPolling(halted, p) = p
         /\ ~halted => startPolling(halted, p).gen # Absent
<1>1. CASE halted
  BY <1>1 DEF startPolling
<1>2. CASE ~halted
  <2> DEFINE q == stopPolling(p)
             g == Fresh(q)
  <2>1. q \in Poll /\ OneLoop(q) /\ q.armed = {}
    BY StopLoop
  <2>2. g \in Generations /\ g \notin q.pulling
    BY <2>1, FreshIsNew DEF OneLoop
  <2>3. startPolling(halted, p) = [[q EXCEPT !.gen = g] EXCEPT !.timer = g, !.armed = @ \cup {g}]
    BY <1>2 DEF startPolling, schedule
  <2> HIDE DEF q, g
  <2>4. LET s == [[q EXCEPT !.gen = g] EXCEPT !.timer = g, !.armed = @ \cup {g}]
        IN  s \in Poll /\ s.gen = g /\ s.timer = g /\ s.armed = q.armed \cup {g} /\ s.pulling = q.pulling
    BY <2>1, <2>2 DEF Poll
  <2>5. g # Absent
    BY <2>2, SessionBounds
  <2>6. OneLoop(startPolling(halted, p))
    BY <2>1, <2>2, <2>3, <2>4, <2>5 DEF OneLoop
  <2> QED
    BY <1>2, <2>3, <2>4, <2>5, <2>6
<1> QED
  BY <1>1, <1>2

LEMMA RelayFields ==
  ASSUME NEW r \in Relay
  PROVE  /\ r.sub \in Adapters \cup {Absent} /\ r.cooldown \in BOOLEAN /\ r.again \in BOOLEAN /\ r.pull \in BOOLEAN
         /\ r.replay \in BOOLEAN /\ r.running \in 0 .. MaxPulls /\ r.owed \in BOOLEAN
  BY SMTT(30) DEF Relay

LEMMA StopRelay ==
  ASSUME NEW r \in Relay
  PROVE  /\ stopRemoteInvalidations(r) \in Relay /\ stopRemoteInvalidations(r).running = r.running
  BY DEF Relay, stopRemoteInvalidations, NoRelay

LEMMA StartRelay ==
  ASSUME NEW r \in Relay, NEW a \in Adapters \cup {Absent}
  PROVE  startRemoteInvalidations(r, a) \in Relay /\ startRemoteInvalidations(r, a).sub = a
<1>1. stopRemoteInvalidations(r) \in Relay
  BY StopRelay
<1> QED
  BY SMTT(30), <1>1 DEF Relay, startRemoteInvalidations

(* Messages and pulls leave the subscription alone. *)
LEMMA RelaySteps ==
  ASSUME NEW r \in Relay
  PROVE  /\ scheduleInvalidationPull(r) \in Relay /\ scheduleInvalidationPull(r).sub = r.sub
         /\ scheduleInvalidationPull(r).running = r.running
         /\ r.running < MaxPulls => runInvalidationPull(r) \in Relay /\ runInvalidationPull(r).sub = r.sub
<1>1. scheduleInvalidationPull(r) \in Relay /\ scheduleInvalidationPull(r).sub = r.sub
      /\ scheduleInvalidationPull(r).running = r.running
  BY DEF Relay, scheduleInvalidationPull
<1>2. ASSUME r.running < MaxPulls PROVE runInvalidationPull(r) \in Relay /\ runInvalidationPull(r).sub = r.sub
  <2>1. r.running + 1 \in 0 .. MaxPulls
    BY SMTT(30), <1>2, RelayFields, SessionBounds
  <2> QED
    BY <2>1 DEF Relay, runInvalidationPull
<1> QED
  BY <1>1, <1>2

LEMMA TornRuns ==
  ASSUME NEW rn \in Runs
  PROVE  /\ Torn(rn) \in Runs
         /\ \A c \in ConnectCalls : /\ Torn(rn)[c].pc = rn[c].pc
                                    /\ Torn(rn)[c].pc = "idle" \/ Torn(rn)[c].torn
<1> DEFINE R == [pc : {"idle", "stages", "settling"}, adapter : Adapters \cup {Absent}, torn : BOOLEAN]
<1>1. ASSUME NEW x \in R
      PROVE  LET y == [x EXCEPT !.torn = TRUE] IN y \in R /\ y.pc = x.pc /\ y.torn
  OBVIOUS
<1>2. \A c \in ConnectCalls : rn[c] \in R
  BY DEF Runs
<1> HIDE DEF R
<1> QED
  BY <1>1, <1>2 DEF Torn, Runs, R

-----------------------------------------------------------------------------
(* How the core of the invariant survives *)

(* Any flags go with runs that are torn, once the session is not whole and a shut gate stops the loop. *)
LEMMA CrossedCore ==
  ASSUME NEW f \in Eng, ~f.whole, NEW q \in Poll, OneLoop(q), f.halted => q.gen = Absent,
         NEW s \in Relay, NEW sn \in Runs, \A c \in ConnectCalls : sn[c].pc = "stages" => sn[c].torn
  PROVE  Core(f, q, s, sn)
  BY DEF Core, Intact

LEMMA TeardownCore ==
  ASSUME NEW e, NEW p, NEW r, NEW rn, Core(e, p, r, rn), NEW f \in Eng, ~f.whole, NEW s \in Relay
  PROVE  Core(f, stopPolling(p), s, Torn(rn))
<1>1. Torn(rn) \in Runs /\ \A c \in ConnectCalls : Torn(rn)[c].pc = "stages" => Torn(rn)[c].torn
  BY TornRuns DEF Core
<1>2. stopPolling(p) \in Poll /\ OneLoop(stopPolling(p)) /\ stopPolling(p).gen = Absent
  BY StopLoop DEF Core
<1> QED
  BY <1>1, <1>2, CrossedCore

(* Remote work ends well or badly, and the session with it. *)
LEMMA OutcomeCore ==
  ASSUME NEW e, NEW p, NEW r, NEW rn, Core(e, p, r, rn), NEW o
  PROVE  Core(EngineAfter(o, e), PollAfter(o, p), RelayAfter(o, r), RunAfter(o, rn))
<1>1. CASE o \in {"denied", "poisoned"}
  <2>1. EngineAfter(o, e) \in Eng /\ ~EngineAfter(o, e).whole
    BY <1>1, OutcomeFlags DEF Core
  <2>2. RelayAfter(o, r) \in Relay
    BY StopRelay DEF RelayAfter, Core
  <2> QED
    BY <1>1, <2>1, <2>2, TeardownCore DEF PollAfter, RunAfter
<1>2. CASE o \notin {"denied", "poisoned"}
  BY <1>2, OutcomeFlags DEF Core, PollAfter, RelayAfter, RunAfter
<1> QED
  BY <1>1, <1>2

(* Steps that leave the flags alone, keep the loop running, or keep the subscription. *)
LEMMA FlagsCore ==
  ASSUME NEW e, NEW p, NEW r, NEW rn, Core(e, p, r, rn), NEW f, SameFlags(e, f)
  PROVE  Core(f, p, r, rn)
  BY DEF Core, Intact, SameFlags

LEMMA LoopCore ==
  ASSUME NEW e, NEW p, NEW r, NEW rn, Core(e, p, r, rn), NEW q \in Poll, OneLoop(q), q.gen = p.gen
  PROVE  Core(e, q, r, rn)
  BY DEF Core

LEMMA RelayCore ==
  ASSUME NEW e, NEW p, NEW r, NEW rn, Core(e, p, r, rn), NEW s \in Relay, s.sub = r.sub
  PROVE  Core(e, p, s, rn)
  BY DEF Core

(* A run that ends is forgotten. *)
LEMMA EndedCore ==
  ASSUME NEW e, NEW p, NEW r, NEW rn, Core(e, p, r, rn), NEW c \in ConnectCalls
  PROVE  Core(e, p, r, [rn EXCEPT ![c] = NoRun])
<1>1. NoRun \in [pc : {"idle", "stages", "settling"}, adapter : Adapters \cup {Absent}, torn : BOOLEAN] /\ NoRun.pc = "idle"
  BY SMTT(30) DEF NoRun
<1>2. [rn EXCEPT ![c] = NoRun] \in Runs
  BY <1>1 DEF Core, Runs
<1>3. \A d \in ConnectCalls : [rn EXCEPT ![c] = NoRun][d] = IF d = c THEN NoRun ELSE rn[d]
  BY DEF Core, Runs
<1>4. \A d \in ConnectCalls : [rn EXCEPT ![c] = NoRun][d].pc = "stages" => [rn EXCEPT ![c] = NoRun][d] = rn[d]
  BY <1>1, <1>3
<1> QED
  BY <1>2, <1>4 DEF Core, Intact

(* A connect that begins finds an open gate, an adapter and a remote that is not poisoned. *)
LEMMA BeginsCore ==
  ASSUME NEW e, NEW p, NEW r, NEW rn, Core(e, p, r, rn), connectOn(e, rn), joined \in ConnectCalls \cup {Absent}
  PROVE  /\ Core(eng', p, r, run') /\ joined' \in ConnectCalls \cup {Absent}
         /\ \A c \in ConnectCalls : run'[c] = rn[c] \/ run[c].pc = "idle"
<1>1. eng' = Asked(e) /\ SameFlags(e, eng') /\ ~eng'.halted
  BY AskedFlags DEF connectOn, Core, SameFlags
<1>2. Core(eng', p, r, rn)
  BY <1>1, FlagsCore
<1>3. CASE Starts(e)
  <2>1. PICK c \in ConnectCalls : /\ Idle(c) /\ joined' = c
                                  /\ run' = [rn EXCEPT ![c] = [pc |-> "stages", adapter |-> e.adapter, torn |-> FALSE]]
    BY <1>3 DEF connectOn
  <2> DEFINE x == [pc |-> "stages", adapter |-> e.adapter, torn |-> FALSE]
  <2>2. e.adapter \in Adapters \cup {Absent}
    BY FlagsOf DEF Core
  <2>3. /\ x \in [pc : {"idle", "stages", "settling"}, adapter : Adapters \cup {Absent}, torn : BOOLEAN]
        /\ x.adapter = e.adapter
    BY SMTT(30), <2>2
  <2>4. \A d \in ConnectCalls : run'[d] = IF d = c THEN x ELSE rn[d]
    BY <2>1 DEF Core, Runs
  <2> HIDE DEF x
  <2>5. run' \in Runs
    BY <2>1, <2>3 DEF Core, Runs, x
  <2>6. Intact(eng', run')
    BY <1>1, <1>2, <1>3, <2>3, <2>4 DEF Core, Intact, Starts, SameFlags
  <2> QED
    BY <1>2, <2>1, <2>4, <2>5, <2>6 DEF Core, Idle
<1>4. CASE ~Starts(e)
  BY <1>2, <1>4 DEF connectOn
<1> QED
  BY <1>3, <1>4

-----------------------------------------------------------------------------
(* The steps of the session *)

LEMMA SessionInitial ==
  ASSUME NEW a \in Adapters \cup {Absent}, NEW budgets, SessionInit(a, budgets)
  PROVE  SessionIInv
<1>1. eng \in Eng /\ ~eng.whole /\ ~eng.halted
  BY SMTT(30) DEF SessionInit, Eng, Statuses
<1>2. poll \in Poll /\ poll.gen = Absent /\ poll.timer = Absent /\ poll.armed = {} /\ poll.pulling = {}
  BY SMTT(30) DEF SessionInit, Poll
<1>3. OneLoop(poll)
  <2>1. Cardinality({}) = 0
    BY FS_EmptySet
  <2>2. 0 <= MaxPulls
    BY SMTT(30), SessionBounds
  <2> QED
    BY <1>2, <2>1, <2>2 DEF OneLoop
<1>4. relay \in Relay
  BY SMTT(30), SessionBounds DEF SessionInit, Relay, NoRelay
<1>5. NoRun \in [pc : {"idle", "stages", "settling"}, adapter : Adapters \cup {Absent}, torn : BOOLEAN] /\ NoRun.pc = "idle"
  BY SMTT(30) DEF NoRun
<1>6. run \in Runs /\ \A c \in ConnectCalls : run[c].pc = "idle"
  BY <1>5 DEF SessionInit, Runs
<1>7. swap \in [pc : {"idle", "pull", "size"}, to : Adapters \cup {Absent}, was : BOOLEAN]
  BY SMTT(30) DEF SessionInit, NoSwap
<1>8. Core(eng, poll, relay, run)
  BY <1>1, <1>2, <1>3, <1>4, <1>6, CrossedCore
<1> QED
  BY <1>7, <1>8 DEF SessionInit, SessionIInv

(* A step that only reports a status. *)
LEMMA ReportStep ==
  ASSUME SessionIInv, SameFlags(eng, eng'), UNCHANGED <<poll, relay, run, joined, closing, swap, late>>
  PROVE  SessionIInv'
<1>1. Core(eng', poll, relay, run)
  BY FlagsCore DEF SessionIInv
<1> QED
  BY <1>1 DEF SessionIInv

LEMMA PollFiresStep ==
  ASSUME SessionIInv, NEW g, PollFires(g)
  PROVE  SessionIInv'
<1>1. poll \in Poll /\ OneLoop(poll) /\ g \in poll.armed
  BY DEF SessionIInv, Core, PollFires
<1>2. g = poll.timer /\ g = poll.gen /\ g \in Generations /\ g \notin poll.pulling /\ poll.armed \ {g} = {} /\ g # Absent
  BY <1>1, PollFields DEF OneLoop
<1>3. /\ poll' \in Poll /\ poll'.gen = poll.gen /\ poll'.timer = Absent
      /\ poll'.armed = poll.armed \ {g} /\ poll'.pulling = poll.pulling \cup {g}
  BY <1>1, <1>2 DEF Poll, PollFires
<1>4. Cardinality(poll.pulling \cup {g}) <= MaxPulls
  <2>1. IsFiniteSet(poll.pulling)
    BY <1>1, PollFields, SessionBounds, FS_Subset
  <2>2. Cardinality(poll.pulling \cup {g}) = Cardinality(poll.pulling) + 1 /\ Cardinality(poll.pulling) \in Nat
    BY <1>2, <2>1, FS_AddElement, FS_CardinalityType
  <2>3. Cardinality(poll.pulling) < MaxPulls
    BY DEF PollFires
  <2> QED
    BY SMTT(30), <2>2, <2>3, SessionBounds
<1>5. OneLoop(poll')
  BY <1>2, <1>3, <1>4 DEF OneLoop
<1>6. SameFlags(eng, eng')
  BY SettledFlags DEF PollFires, SessionIInv, Core
<1>7. Core(eng, poll', relay, run)
  BY <1>3, <1>5, LoopCore DEF SessionIInv
<1>8. Core(eng', poll', relay, run)
  BY <1>6, <1>7, FlagsCore
<1> QED
  BY <1>8 DEF SessionIInv, PollFires

(* The loop goes on with the generation whose pull ended, if that still is the current one. *)
LEMMA PulledLoop ==
  ASSUME NEW p \in Poll, OneLoop(p), NEW g \in Generations
  PROVE  LET q == Rearmed([p EXCEPT !.pulling = @ \ {g}], g)
         IN  q \in Poll /\ OneLoop(q) /\ q.gen = p.gen
<1> DEFINE m == [p EXCEPT !.pulling = @ \ {g}]
           q == Rearmed(m, g)
<1>1. m \in Poll /\ m.gen = p.gen /\ m.timer = p.timer /\ m.armed = p.armed /\ m.pulling = p.pulling \ {g}
  BY SMTT(30) DEF Poll
<1>2. Cardinality(p.pulling \ {g}) <= MaxPulls
  <2>1. IsFiniteSet(p.pulling) /\ p.pulling \ {g} \subseteq p.pulling
    BY PollFields, SessionBounds, FS_Subset
  <2>2. /\ IsFiniteSet(p.pulling \ {g}) /\ Cardinality(p.pulling \ {g}) <= Cardinality(p.pulling)
    BY <2>1, FS_Subset
  <2>3. Cardinality(p.pulling \ {g}) \in Nat /\ Cardinality(p.pulling) \in Nat /\ Cardinality(p.pulling) <= MaxPulls
    BY <2>1, <2>2, FS_CardinalityType DEF OneLoop
  <2> QED
    BY SMTT(30), <2>2, <2>3, SessionBounds
<1> HIDE DEF m
<1>3. CASE m.gen = g
  <2>1. q = [m EXCEPT !.timer = g, !.armed = @ \cup {g}]
    BY <1>3 DEF Rearmed, schedule
  <2>2. LET x == [m EXCEPT !.timer = g, !.armed = @ \cup {g}]
        IN  x \in Poll /\ x.gen = m.gen /\ x.timer = g /\ x.armed = m.armed \cup {g} /\ x.pulling = m.pulling
    BY <1>1 DEF Poll
  <2>3. g # Absent /\ p.armed \subseteq {g}
    BY <1>1, <1>3, SessionBounds DEF OneLoop
  <2>4. OneLoop(q)
    BY <1>1, <1>2, <1>3, <2>1, <2>2, <2>3 DEF OneLoop
  <2> QED
    BY <1>1, <2>1, <2>2, <2>4 DEF m
<1>4. CASE m.gen # g
  <2>1. q = m
    BY <1>4 DEF Rearmed
  <2>2. OneLoop(m)
    BY <1>1, <1>2, <1>4 DEF OneLoop
  <2> QED
    BY <1>1, <2>1, <2>2 DEF m
<1> QED
  BY <1>3, <1>4

LEMMA JoinedTyped ==
  ASSUME NEW o, NEW j \in ConnectCalls \cup {Absent}
  PROVE  JoinedAfter(o, j) \in ConnectCalls \cup {Absent}
  BY DEF JoinedAfter

LEMMA PollDoneStep ==
  ASSUME SessionIInv, NEW g, NEW o, PollDone(g, o)
  PROVE  SessionIInv'
<1> DEFINE p == PollAfter(o, poll)
           e == EngineAfter(o, eng)
<1>1. Core(e, p, relay', run')
  BY OutcomeCore DEF PollDone, SessionIInv
<1>2. g \in Generations
  BY PollFields DEF PollDone, SessionIInv, Core
<1> HIDE DEF p, e
<1>3. poll' \in Poll /\ OneLoop(poll') /\ poll'.gen = p.gen
  BY <1>1, <1>2, PulledLoop DEF PollDone, Core, p
<1>4. SameFlags(e, eng')
  BY <1>1, SettledFlags DEF PollDone, Core, e
<1>5. Core(e, poll', relay', run')
  BY <1>1, <1>3, LoopCore
<1>6. Core(eng', poll', relay', run')
  BY <1>4, <1>5, FlagsCore
<1> QED
  BY <1>6, JoinedTyped DEF SessionIInv, PollDone

LEMMA RelayMessageStep ==
  ASSUME SessionIInv, RelayMessage
  PROVE  SessionIInv'
<1>1. relay \in Relay
  BY DEF SessionIInv, Core
<1>2. relay' \in Relay /\ relay'.sub = relay.sub
  <2> DEFINE s == scheduleInvalidationPull(relay)
  <2>1. s \in Relay /\ s.sub = relay.sub
    BY <1>1, RelaySteps
  <2> HIDE DEF s
  <2>2. [s EXCEPT !.owed = TRUE] \in Relay /\ [s EXCEPT !.owed = TRUE].sub = s.sub
    BY <2>1 DEF Relay
  <2> QED
    BY <1>1, <2>1, <2>2 DEF RelayMessage, s
<1>3. Core(eng, poll, relay', run)
  BY <1>2, RelayCore DEF SessionIInv
<1> QED
  BY <1>3 DEF SessionIInv, RelayMessage

LEMMA RelayTurnsStep ==
  ASSUME SessionIInv, RelayTurns
  PROVE  SessionIInv'
<1>1. poll' \in Poll /\ OneLoop(poll') /\ (eng.halted => poll' = poll) /\ (~eng.halted => poll'.gen # Absent)
  BY StartLoop, FlagsOf DEF SessionIInv, Core, RelayTurns
<1>2. Core(eng, poll', relay, run)
  BY <1>1 DEF SessionIInv, Core
<1> QED
  BY <1>2 DEF SessionIInv, RelayTurns

LEMMA CooldownFiresStep ==
  ASSUME SessionIInv, CooldownFires
  PROVE  SessionIInv'
<1> DEFINE calm == [relay EXCEPT !.cooldown = FALSE, !.again = FALSE]
           next == IF eng.connected THEN runInvalidationPull(calm) ELSE calm
<1>1. relay \in Relay /\ relay.running < MaxPulls
  BY DEF SessionIInv, Core, CooldownFires
<1>2. calm \in Relay /\ calm.sub = relay.sub /\ calm.running = relay.running
  BY <1>1 DEF Relay
<1> HIDE DEF calm
<1>3. next \in Relay /\ next.sub = relay.sub
  BY <1>1, <1>2, RelaySteps
<1>4. relay' = IF relay.again /\ eng.connected THEN scheduleInvalidationPull(next) ELSE next
  BY DEF CooldownFires, calm
<1> HIDE DEF next
<1>5. relay' \in Relay /\ relay'.sub = relay.sub
  BY <1>3, <1>4, RelaySteps
<1>6. SameFlags(eng, eng')
  BY SettledFlags DEF CooldownFires, SessionIInv, Core
<1>7. Core(eng, poll, relay', run)
  BY <1>5, RelayCore DEF SessionIInv
<1>8. Core(eng', poll, relay', run)
  BY <1>6, <1>7, FlagsCore
<1> QED
  BY <1>8 DEF SessionIInv, CooldownFires

LEMMA RelayPullDoneStep ==
  ASSUME SessionIInv, NEW o, RelayPullDone(o)
  PROVE  SessionIInv'
<1> DEFINE e == EngineAfter(o, eng)
           r == RelayAfter(o, relay)
           ended == [r EXCEPT !.running = @ - 1, !.pull = FALSE]
           calm == [ended EXCEPT !.replay = FALSE]
<1>1. Core(e, poll', r, run')
  BY OutcomeCore DEF RelayPullDone, SessionIInv
<1>2. r.running = relay.running /\ relay.running > 0
  BY StopRelay DEF RelayPullDone, RelayAfter, SessionIInv, Core
<1>3. r \in Relay
  BY <1>1 DEF Core
<1> HIDE DEF e, r
<1>4. ended \in Relay /\ ended.sub = r.sub
  <2>1. r.running - 1 \in 0 .. MaxPulls
    BY SMTT(30), <1>2, <1>3, RelayFields, SessionBounds
  <2> QED
    BY <1>3, <2>1 DEF Relay
<1> HIDE DEF ended
<1>5. calm \in Relay /\ calm.sub = ended.sub
  BY <1>4 DEF Relay
<1>6. relay' = IF ended.replay /\ eng'.connected THEN scheduleInvalidationPull(calm) ELSE ended
  BY DEF RelayPullDone, ended, r
<1> HIDE DEF calm
<1>7. relay' \in Relay /\ relay'.sub = r.sub
  BY <1>4, <1>5, <1>6, RelaySteps
<1>8. SameFlags(e, eng')
  BY <1>1, SettledFlags DEF RelayPullDone, Core, e
<1>9. Core(e, poll', relay', run')
  BY <1>1, <1>7, RelayCore
<1>10. Core(eng', poll', relay', run')
  BY <1>8, <1>9, FlagsCore
<1> QED
  BY <1>10, JoinedTyped DEF SessionIInv, RelayPullDone

LEMMA ConnectStep ==
  ASSUME SessionIInv, Connect
  PROVE  SessionIInv'
<1>1. Core(eng', poll, relay, run') /\ joined' \in ConnectCalls \cup {Absent}
  BY BeginsCore DEF Connect, SessionIInv
<1> QED
  BY <1>1 DEF SessionIInv, Connect

(* A connect that comes up makes the session whole if nothing has crossed it. *)
LEMMA ConnectUpStep ==
  ASSUME SessionIInv, NEW c \in ConnectCalls, ConnectUp(c)
  PROVE  SessionIInv'
<1>1. Core(eng, poll, relay, run) /\ run[c].pc = "stages"
  BY DEF SessionIInv, ConnectUp
<1>2. poll' \in Poll /\ OneLoop(poll') /\ (eng.halted => poll' = poll) /\ (~eng.halted => poll'.gen # Absent)
  BY <1>1, StartLoop, FlagsOf DEF Core, ConnectUp
<1>3. /\ run[c].torn \in BOOLEAN /\ run[c].adapter \in Adapters \cup {Absent}
      /\ [run[c] EXCEPT !.pc = "settling"] \in
            [pc : {"idle", "stages", "settling"}, adapter : Adapters \cup {Absent}, torn : BOOLEAN]
      /\ [run[c] EXCEPT !.pc = "settling"].pc = "settling"
  BY SMTT(30), <1>1 DEF Core, Runs
<1>4. relay' \in Relay /\ relay'.sub = run[c].adapter
  BY <1>1, <1>3, StartRelay DEF Core, ConnectUp
<1>5. /\ eng' \in Eng /\ eng'.connected /\ eng'.whole = ~run[c].torn
      /\ eng'.halted = eng.halted /\ eng'.poisoned = eng.poisoned /\ eng'.adapter = eng.adapter
  <2>1. eng \in Eng /\ eng' = [eng EXCEPT !.connected = TRUE, !.paused = FALSE, !.whole = ~run[c].torn]
    BY <1>1 DEF Core, ConnectUp
  <2>2. PICK b \in BOOLEAN : b = ~run[c].torn
    BY <1>3
  <2> QED
    BY <2>1, <2>2 DEF Eng
<1>6. run' = [run EXCEPT ![c] = [run[c] EXCEPT !.pc = "settling"]]
  BY DEF ConnectUp
<1>7. run' \in Runs /\ \A d \in ConnectCalls : run'[d].pc = "stages" => run'[d] = run[d]
  BY <1>1, <1>3, <1>6 DEF Core, Runs
<1>8. Intact(eng', run')
  BY <1>1, <1>5, <1>7 DEF Core, Intact
<1>9. eng'.whole => ~eng.halted /\ ~eng.poisoned /\ run[c].adapter = eng.adapter /\ eng.adapter # Absent
  BY <1>1, <1>5 DEF Core, Intact
<1>10. Core(eng', poll', relay', run')
  BY <1>1, <1>2, <1>4, <1>5, <1>7, <1>8, <1>9 DEF Core
<1> QED
  BY <1>10 DEF SessionIInv, ConnectUp

LEMMA ConnectSettledStep ==
  ASSUME SessionIInv, NEW c \in ConnectCalls, ConnectSettled(c)
  PROVE  SessionIInv'
<1>1. Core(eng, poll, relay, run')
  BY EndedCore DEF SessionIInv, ConnectSettled
<1>2. SameFlags(eng, eng')
  BY StatusSet DEF ConnectSettled, SessionIInv, Core, Statuses
<1>3. Core(eng', poll, relay, run')
  BY <1>1, <1>2, FlagsCore
<1> QED
  BY <1>3 DEF SessionIInv, ConnectSettled

LEMMA ConnectStallsStep ==
  ASSUME SessionIInv, NEW c \in ConnectCalls, ConnectStalls(c)
  PROVE  SessionIInv'
<1>1. Core(eng, poll, relay, run')
  BY EndedCore DEF SessionIInv, ConnectStalls
<1>2. SameFlags(eng, eng')
  BY StatusSet DEF ConnectStalls, SessionIInv, Core, Statuses
<1>3. Core(eng', poll, relay, run')
  BY <1>1, <1>2, FlagsCore
<1> QED
  BY <1>3 DEF SessionIInv, ConnectStalls

LEMMA ConnectFailsStep ==
  ASSUME SessionIInv, NEW c \in ConnectCalls, NEW o, ConnectFails(c, o)
  PROVE  SessionIInv'
<1>1. Core(eng', poll', relay', RunAfter(o, run))
  BY OutcomeCore DEF ConnectFails, SessionIInv
<1>2. Core(eng', poll', relay', run')
  BY <1>1, EndedCore DEF ConnectFails
<1> QED
  BY <1>2 DEF SessionIInv, ConnectFails

LEMMA LateAnswerStep ==
  ASSUME SessionIInv, NEW o, LateAnswer(o)
  PROVE  SessionIInv'
<1>1. Core(eng', poll', relay', run')
  BY OutcomeCore DEF LateAnswer, SessionIInv
<1> QED
  BY <1>1, JoinedTyped DEF SessionIInv, LateAnswer

LEMMA DisconnectStep ==
  ASSUME SessionIInv, Disconnect
  PROVE  SessionIInv'
<1>1. Core(eng, poll, relay, run) /\ eng \in Eng /\ relay \in Relay
  BY DEF SessionIInv, Core
<1>2. haltPolling(eng) \in Eng /\ ~haltPolling(eng).whole
  BY <1>1, HaltFlags
<1>3. Closed(haltPolling(eng)) \in Eng /\ ~Closed(haltPolling(eng)).whole
  BY <1>2, ClosedFlags
<1>4. eng' \in Eng /\ ~eng'.whole
  BY <1>2, <1>3 DEF Disconnect
<1>5. relay' \in Relay
  BY <1>1, StopRelay DEF Disconnect, teardown
<1>6. Core(eng', poll', relay', run')
  BY <1>1, <1>4, <1>5, TeardownCore DEF Disconnect, teardown
<1> QED
  BY <1>6 DEF SessionIInv, Disconnect

LEMMA DisconnectedStep ==
  ASSUME SessionIInv, Disconnected
  PROVE  SessionIInv'
<1>1. eng' \in Eng /\ ~eng'.whole /\ eng'.halted = eng.halted
  BY ClosedFlags DEF Disconnected, SessionIInv, Core
<1>2. Torn(run) \in Runs /\ \A c \in ConnectCalls : Torn(run)[c].pc = "stages" => Torn(run)[c].torn
  BY TornRuns DEF SessionIInv, Core
<1>3. Core(eng', poll, relay, Torn(run))
  BY <1>1, <1>2, CrossedCore DEF SessionIInv, Core
<1> QED
  BY <1>3 DEF SessionIInv, Disconnected

LEMMA SetRemoteStorageStep ==
  ASSUME SessionIInv, NEW a \in Adapters \cup {Absent}, setRemoteStorage(a)
  PROVE  SessionIInv'
<1>1. SameFlags(eng, eng') /\ eng.connected \in BOOLEAN
  BY SettledFlags, FlagsOf DEF setRemoteStorage, SessionIInv, Core
<1>2. Core(eng', poll, relay, run)
  BY <1>1, FlagsCore DEF SessionIInv
<1>3. swap' \in [pc : {"idle", "pull", "size"}, to : Adapters \cup {Absent}, was : BOOLEAN]
  BY SMTT(30), <1>1 DEF setRemoteStorage
<1> QED
  BY <1>2, <1>3 DEF SessionIInv, setRemoteStorage

LEMMA SwapTeardownStep ==
  ASSUME SessionIInv, NEW o, SwapTeardown(o)
  PROVE  SessionIInv'
<1> DEFINE e == IF FinalPull THEN Settled(EngineAfter(o, eng)) ELSE eng
           h == haltPolling(e)
<1>1. Core(eng, poll, relay, run)
  BY DEF SessionIInv
<1>2. e \in Eng
  BY <1>1, OutcomeFlags, SettledFlags DEF Core, SameFlags
<1>3. eng' = [h EXCEPT !.connected = FALSE, !.poisoned = FALSE]
  BY DEF SwapTeardown
<1> HIDE DEF e
<1>4. h \in Eng /\ ~h.whole
  BY <1>2, HaltFlags
<1> HIDE DEF h
<1>5. eng' \in Eng /\ ~eng'.whole
  BY <1>3, <1>4 DEF Eng
<1>6. relay' \in Relay
  BY <1>1, StopRelay DEF SwapTeardown, teardown, Core
<1>7. Core(eng', poll', relay', run')
  BY <1>1, <1>5, <1>6, TeardownCore DEF SwapTeardown, teardown
<1>8. swap' \in [pc : {"idle", "pull", "size"}, to : Adapters \cup {Absent}, was : BOOLEAN]
  BY SMTT(30) DEF SwapTeardown, SessionIInv
<1> QED
  BY <1>7, <1>8, JoinedTyped DEF SessionIInv, SwapTeardown

LEMMA SwapAttachStep ==
  ASSUME SessionIInv, SwapAttach
  PROVE  SessionIInv'
<1> DEFINE e == [eng EXCEPT !.adapter = swap.to, !.poisoned = FALSE, !.paused = FALSE, !.whole = FALSE]
<1>1. Core(eng, poll, relay, run) /\ joined \in ConnectCalls \cup {Absent}
  BY DEF SessionIInv
<1>2. swap.to \in Adapters \cup {Absent}
  BY SMTT(30) DEF SessionIInv
<1>3. eng \in Eng
  BY <1>1 DEF Core
<1>4. e \in Eng /\ ~e.whole /\ e.halted = eng.halted
  BY <1>2, <1>3 DEF Eng
<1>5. Torn(run) \in Runs /\ \A c \in ConnectCalls : Torn(run)[c].pc = "stages" => Torn(run)[c].torn
  BY <1>1, TornRuns DEF Core
<1>6. IF swap.was /\ swap.to # Absent THEN connectOn(e, Torn(run)) ELSE eng' = e /\ run' = Torn(run) /\ UNCHANGED joined
  BY DEF SwapAttach
<1> HIDE DEF e
<1>7. Core(e, poll, relay, Torn(run))
  BY <1>1, <1>4, <1>5, CrossedCore DEF Core
<1>8. Core(eng', poll, relay, run') /\ joined' \in ConnectCalls \cup {Absent}
  BY <1>1, <1>6, <1>7, BeginsCore
<1>9. swap' \in [pc : {"idle", "pull", "size"}, to : Adapters \cup {Absent}, was : BOOLEAN]
  BY SMTT(30) DEF SwapAttach, NoSwap
<1> QED
  BY <1>8, <1>9 DEF SessionIInv, SwapAttach

LEMMA FlushDeniedStep ==
  ASSUME SessionIInv, NEW f, FlushDenied(f)
  PROVE  SessionIInv'
<1>1. eng' \in Eng /\ ~eng'.whole
  BY DeniedFlags DEF FlushDenied, SessionIInv, Core
<1>2. Core(eng', poll', relay', run')
  BY <1>1, TeardownCore, StopRelay DEF FlushDenied, SessionIInv, Core
<1> QED
  BY <1>2 DEF SessionIInv, FlushDenied

(* Writes and compactions go on beside the session; a flush reports its status. *)
LEMMA WriteLeavesSession ==
  ASSUME SessionIInv, WriteStep, ~\E f \in Flushes : FlushDenied(f)
  PROVE  SameFlags(eng, eng') /\ UNCHANGED <<poll, relay, run, joined, closing, swap, late>>
<1>1. SameFlags(eng, eng) /\ SameFlags(eng, Settled(eng))
  BY SettledFlags DEF SessionIInv, Core
<1>2. CASE Put \/ BatchFires \/ FlushFires
  BY <1>1, <1>2 DEF Put, BatchFires, FlushFires, sessionVars
<1>3. ASSUME NEW f \in Flushes,
             FlushLocks(f) \/ FlushDone(f) \/ (\E unread \in BOOLEAN : FlushFails(f, unread)) \/ AutoStarts(f) \/ AutoSkips(f)
      PROVE  SameFlags(eng, eng') /\ UNCHANGED <<poll, relay, run, joined, closing, swap, late>>
  <2>1. CASE FlushLocks(f) \/ AutoStarts(f) \/ AutoSkips(f)
    BY <1>1, <2>1 DEF FlushLocks, AutoStarts, AutoSkips, sessionVars
  <2>2. CASE FlushDone(f)
    BY <1>1, <2>2 DEF FlushDone
  <2>3. CASE \E unread \in BOOLEAN : FlushFails(f, unread)
    BY <1>1, <2>3 DEF FlushFails
  <2> QED
    BY <1>3, <2>1, <2>2, <2>3
<1> QED
  BY <1>2, <1>3 DEF WriteStep

LEMMA CompactLeavesSession ==
  ASSUME CompactStep
  PROVE  UNCHANGED <<eng, poll, relay, run, joined, closing, swap, late>>
<1>1. CASE UserCompacts \/ DelayedChecks \/ DelayedListed \/ DelayedRuns \/ RetentionFires \/ ChangesAge
  BY <1>1 DEF UserCompacts, DelayedChecks, DelayedListed, DelayedRuns, RetentionFires, ChangesAge, sessionVars
<1>2. ASSUME NEW c \in Compactions,
             CompactEnters(c) \/ CompactLocks(c) \/ (\E b \in BOOLEAN : CompactDone(c, b) \/ CompactFails(c, b))
      PROVE  UNCHANGED <<eng, poll, relay, run, joined, closing, swap, late>>
  BY <1>2 DEF CompactEnters, CompactLocks, CompactDone, CompactFails, sessionVars
<1>3. ASSUME NEW k \in Checks,
             RetentionCompacts(k) \/ RetentionEnds(k)
               \/ (\E ok \in BOOLEAN : RetentionPrunes(k, ok) \/ RetentionWaits(k, ok))
      PROVE  UNCHANGED <<eng, poll, relay, run, joined, closing, swap, late>>
  BY <1>3 DEF RetentionCompacts, RetentionEnds, RetentionPrunes, RetentionWaits, sessionVars
<1> QED
  BY <1>1, <1>2, <1>3 DEF CompactStep

LEMMA SessionNext ==
  SessionIInv /\ [EngineNext]_engineVars => SessionIInv'
<1> SUFFICES ASSUME SessionIInv, [EngineNext]_engineVars PROVE SessionIInv'
  OBVIOUS
<1>1. SameFlags(eng, eng)
  BY SettledFlags DEF SessionIInv, Core
<1>2. CASE SessionStep
  <2>1. CASE (Connect \/ SwapAttach \/ RelayTurns \/ CooldownFires
                \/ \E a \in Adapters \cup {Absent} : setRemoteStorage(a)) /\ UNCHANGED upkeepVars
    BY <2>1, ConnectStep, SwapAttachStep, RelayTurnsStep, CooldownFiresStep, SetRemoteStorageStep
  <2>2. CASE PollComes \/ Closes \/ ClosedDown \/ MessageArrives
    BY <2>2, PollFiresStep, DisconnectStep, DisconnectedStep, RelayMessageStep
       DEF PollComes, Closes, ClosedDown, MessageArrives
  <2>3. ASSUME NEW c \in ConnectCalls,
               ConnectFlushes(c) \/ SessionUp(c) \/ SessionSettled(c) \/ (ConnectStalls(c) /\ ConnectEnds(c, "failed"))
        PROVE  SessionIInv'
    <3>1. CASE ConnectFlushes(c)
      BY <1>1, <3>1, ReportStep DEF ConnectFlushes, sessionVars
    <3> QED
      BY <2>3, <3>1, ConnectUpStep, ConnectSettledStep, ConnectStallsStep DEF SessionUp, SessionSettled
  <2>4. ASSUME NEW o \in Outcomes,
               \/ \E g \in poll.pulling : PollDone(g, o) /\ PullEnds(o)
               \/ RelayPullDone(o) /\ PullEnds(o)
               \/ LateAnswer(o) /\ LateEnds(o)
               \/ Swaps(o)
               \/ \E c \in ConnectCalls : ConnectFails(c, o) /\ ConnectEnds(c, o)
        PROVE  SessionIInv'
    BY <2>4, PollDoneStep, RelayPullDoneStep, LateAnswerStep, SwapTeardownStep, ConnectFailsStep DEF Swaps
  <2> QED
    BY <1>2, <2>1, <2>2, <2>3, <2>4 DEF SessionStep
<1>3. CASE WriteStep
  BY <1>3, WriteLeavesSession, FlushDeniedStep, ReportStep
<1>4. CASE CompactStep
  BY <1>1, <1>4, CompactLeavesSession, ReportStep
<1>5. CASE UNCHANGED engineVars
  BY <1>1, <1>5, ReportStep DEF engineVars, sessionVars
<1> QED
  BY <1>2, <1>3, <1>4, <1>5 DEF EngineNext

(* What the invariant says of the loops that are counted. *)
LEMMA LoopsCounted ==
  ASSUME NEW p \in Poll, OneLoop(p)
  PROVE  Cardinality(p.armed) + Cardinality(p.pulling \cap {p.gen}) = IF p.gen = Absent THEN 0 ELSE 1
<1>1. Cardinality({}) = 0
  BY FS_EmptySet
<1>2. \A x : Cardinality({x}) = 1
  BY FS_Singleton
<1>3. p.pulling \subseteq Generations /\ Absent \notin p.pulling
  BY PollFields, SessionBounds
<1>4. CASE p.gen = Absent
  <2>1. p.armed = {} /\ p.pulling \cap {p.gen} = {}
    BY <1>3, <1>4 DEF OneLoop
  <2> QED
    BY SMTT(30), <1>1, <1>4, <2>1
<1>5. CASE p.gen # Absent /\ p.timer # Absent
  <2>1. p.armed = {p.timer} /\ p.pulling \cap {p.gen} = {}
    BY <1>5 DEF OneLoop
  <2>2. Cardinality(p.armed) = 1 /\ Cardinality(p.pulling \cap {p.gen}) = 0
    BY <1>1, <1>2, <2>1
  <2> QED
    BY SMTT(30), <1>5, <2>2
<1>6. CASE p.gen # Absent /\ p.timer = Absent
  <2>1. p.armed = {} /\ p.pulling \cap {p.gen} = {p.gen}
    BY <1>6 DEF OneLoop
  <2>2. Cardinality(p.armed) = 0 /\ Cardinality(p.pulling \cap {p.gen}) = 1
    BY <1>1, <1>2, <2>1
  <2> QED
    BY SMTT(30), <1>6, <2>2
<1> QED
  BY <1>4, <1>5, <1>6

LEMMA SessionHolds == SessionIInv => SessionInv
<1> SUFFICES ASSUME SessionIInv PROVE SessionInv
  OBVIOUS
<1>1. Loops = IF poll.gen = Absent THEN 0 ELSE 1
  BY LoopsCounted DEF SessionIInv, Core, Loops
<1>2. PollingGated
  <2>1. eng.halted => poll.gen = Absent
    BY DEF SessionIInv, Core
  <2> QED
    BY SMTT(30), <1>1, <2>1 DEF PollingGated
<1>3. SessionWhole
  BY <1>1 DEF SessionIInv, Core, SessionWhole
<1>4. SessionTypeOK
  BY DEF SessionIInv, Core, Eng, Poll, Relay, Runs, SessionTypeOK
<1> QED
  BY <1>2, <1>3, <1>4 DEF SessionInv

(***************************************************************************)
(* A session is up as a whole or torn down as a whole: there is never more *)
(* than one poll loop, none between a teardown and the next connect(), and *)
(* a session that nothing crossed polls and listens to the adapter it      *)
(* pulls from (sync-engine.ts: haltPolling(), startPolling(), connect()),  *)
(* for any number of calls, pulls and adapters.                            *)
(***************************************************************************)
THEOREM SessionsAreWhole ==
  ASSUME NEW a \in Adapters \cup {Absent}, NEW budgets, NEW modes
  PROVE  EngineSpec(a, budgets, modes) => []SessionInv
<1>1. SessionInit(a, budgets) => SessionIInv
  BY SessionInitial
<1> QED
  BY <1>1, SessionNext, SessionHolds, PTL DEF EngineSpec
=============================================================================
