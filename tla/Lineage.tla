------------------------------ MODULE Lineage ------------------------------
(***************************************************************************)
(* Who a mesh is and which life it is in: the bootstrap of a manifest by   *)
(* devices that find none, the lineage that tells the lives of one mesh    *)
(* apart, the policies of joining and of eviction, and the refill of an    *)
(* evicted mailbox (core/manifest.ts and doConnect of core/sync-engine.ts).*)
(*                                                                         *)
(* One step is one request to the remote or one write of the local store,  *)
(* so a device can stop between any two of them.  Compaction is left out   *)
(* (Mailbox): generation and epoch stay those of a bootstrap, and the      *)
(* pointer always names manifest-1.json.  A row is its name: republishing  *)
(* keeps the clocks of a row, and merging is idempotent (RowMerge).        *)
(***************************************************************************)
EXTENDS Integers, FiniteSets, FiniteSetsExt, Presence

CONSTANTS
    Peer,           \* the devices that share the remote path
    Stories         \* configurations of the devices and what may happen to them

VARIABLES
    room,   \* the remote folder, and how often it was emptied
    dev,    \* the devices: local store, then memory
    kind,   \* the devices with durable credentials (keyed), with the eviction
            \* policy "manual", with the join policy "merge-with-remote"
    left    \* the evictions, unreadable answers, stops and writes to come

lineageVars == <<room, dev, kind, left>>

\* life counts the evictions, ids the mesh identities minted so far; ever is
\* every row that some change file has carried.
EmptyRoom == [manifest |-> Absent, pointer |-> FALSE, files |-> {}, life |-> 1, ids |-> 0, ever |-> {}]

\* The local store of a device: meshId, mesh lineage (0: none recorded), rows,
\* outbox, observed change files, manifestCache; cred is the mesh named by its
\* persisted credentials.  The rest is history: the lives in which it last
\* recorded the lineage (met) and got through a full connect (since); then, until it republishes, a detected
\* eviction, a full connect that took a new life for the old one, and rows it
\* brought along from another mesh.
Installed == [mesh |-> Absent, lineage |-> 0, rows |-> {}, out |-> {}, seen |-> {}, cache |-> Absent,
              cred |-> Absent, met |-> 0, since |-> 0, owed |-> FALSE, blind |-> FALSE, moved |-> FALSE,
              pc |-> "off", after |-> "off", man |-> Absent, boot |-> FALSE, memoMesh |-> Absent,
              memoLineage |-> 0, refill |-> FALSE, awaiting |-> FALSE]

Pcs == {"off", "load", "mint", "point", "join", "policy", "anchor", "pull", "rebuild", "flush",
        "send", "up"}

First == [mesh |-> 1, lineage |-> 1]

\* A folder nobody has used, or a mesh that some devices have been through once.
LineageInit ==
    /\ \E s \in Stories : kind = s.kind /\ left = s.left
    /\ room = IF left.settled = {} THEN EmptyRoom
              ELSE [EmptyRoom EXCEPT !.manifest = First, !.pointer = TRUE, !.ids = 1]
    /\ dev = [d \in Peer |->
                 IF d \in left.settled
                 THEN [Installed EXCEPT !.mesh = 1, !.lineage = 1, !.cache = First,
                                        !.cred = IF d \in kind.keyed THEN 1 ELSE Absent,
                                        !.met = 1, !.since = 1]
                 ELSE Installed]

\* What a page that is closed leaves behind.
Stopped(s) ==
    [s EXCEPT !.pc = "off", !.after = "off", !.man = Absent, !.boot = FALSE, !.memoMesh = Absent,
              !.memoLineage = 0, !.refill = FALSE, !.awaiting = FALSE]

Becomes(d, s) == dev' = [dev EXCEPT ![d] = s] /\ UNCHANGED kind

-----------------------------------------------------------------------------
(* The manifest.                                                           *)

\* resolveManifestLineage: no recorded lineage counts as the first life.
resolveManifestLineage(n) == IF n > 0 THEN n ELSE 1

NextLineage_Same(d) ==
    IF dev[d].mesh # Absent THEN resolveManifestLineage(dev[d].lineage) ELSE 1

NextLineage(d) ==
    IF dev[d].mesh # Absent THEN resolveManifestLineage(dev[d].lineage) + 1 ELSE 1

\* The manifest of a mesh this device knows, or of a new mesh.
createBootstrapManifest(d) ==
    [mesh    |-> IF dev[d].mesh # Absent THEN dev[d].mesh ELSE room.ids + 1,
     lineage |-> NextLineage(d)]

\* readJsonIfExists takes any failure for a missing pointer.  A failure that
\* meets a device without a mesh forks the mesh; that case is left out.
Unreadable(d) == left.misread > 0 /\ dev[d].mesh # Absent

\* No pointer is found: the device writes a manifest of its own and goes on.
Bootstraps(d, next) ==
    /\ \/ ~room.pointer /\ UNCHANGED left
       \/ room.pointer /\ Unreadable(d) /\ left' = [left EXCEPT !.misread = @ - 1]
    /\ Becomes(d, [dev[d] EXCEPT !.pc = "mint", !.after = next, !.man = createBootstrapManifest(d),
                                 !.boot = IF next = "join" THEN TRUE ELSE @])
    /\ room' = [room EXCEPT !.ids = IF dev[d].mesh # Absent THEN @ ELSE @ + 1]

MintManifest(d) ==
    /\ dev[d].pc = "mint"
    /\ room' = [room EXCEPT !.manifest = dev[d].man]
    /\ Becomes(d, [dev[d] EXCEPT !.pc = "point"])
    /\ UNCHANGED left

\* The pointer follows; what was just written is not read back.
MintPointer(d) ==
    /\ dev[d].pc = "point"
    /\ room' = [room EXCEPT !.pointer = TRUE]
    /\ Becomes(d, [dev[d] EXCEPT !.pc = dev[d].after, !.after = "off", !.cache = dev[d].man])
    /\ UNCHANGED left

-----------------------------------------------------------------------------
(* connect().                                                              *)

Known(d) == IF dev[d].man # Absent THEN dev[d].man ELSE dev[d].cache

\* tryConnectFastPath: the mesh is the cached one, nothing is queued and every
\* change file has been observed.
FastPath(d) ==
    /\ Known(d) # Absent /\ room.pointer
    /\ room.manifest.mesh = Known(d).mesh
    /\ dev[d].cred \in {Absent, room.manifest.mesh}
    /\ dev[d].out = {} /\ room.files # {} /\ room.files \subseteq dev[d].seen

Connect(d) ==
    /\ dev[d].pc = "off"
    /\ Becomes(d, IF FastPath(d)
                  THEN [dev[d] EXCEPT !.pc = "up", !.man = room.manifest]
                  ELSE [dev[d] EXCEPT !.pc = "load", !.memoMesh = dev[d].mesh,
                                      !.memoLineage = dev[d].lineage])
    /\ UNCHANGED <<room, left>>

LoadManifest(d) ==
    /\ dev[d].pc = "load"
    /\ \/ /\ room.pointer
          /\ Becomes(d, [dev[d] EXCEPT !.pc = "join", !.man = room.manifest, !.boot = FALSE,
                                       !.cache = room.manifest])
          /\ UNCHANGED <<room, left>>
       \/ Bootstraps(d, "join")

Pairs_Any(d) == TRUE

Pairs(d) == dev[d].cred \in {Absent, dev[d].man.mesh}

\* clearAll: rows, outbox, observations and every meta entry.
Cleared(s) == [s EXCEPT !.rows = {}, !.out = {}, !.seen = {}, !.lineage = 0, !.cache = Absent, !.met = 0, !.since = 0]

Joined(d) ==
    LET s == dev[d]
        bound == [s EXCEPT !.mesh = s.man.mesh]
    IN  IF s.boot \/ s.mesh = s.man.mesh THEN bound
        ELSE IF s.rows = {} /\ s.out = {} /\ s.mesh = Absent THEN bound
        ELSE IF d \in kind.merging THEN [bound EXCEPT !.moved = @ \/ s.mesh # Absent, !.met = 0]
        ELSE Cleared(bound)

\* assertCredentialMeshParity refuses a mesh the credentials do not name, before
\* applyJoinExistingMeshPolicy may replace anything.
ConnectJoin(d) ==
    /\ dev[d].pc = "join"
    /\ Becomes(d, IF Pairs(d) THEN [Joined(d) EXCEPT !.pc = "policy"] ELSE [Stopped(dev[d]) EXCEPT !.man = dev[d].man])
    /\ UNCHANGED <<room, left>>

\* applyMeshEvictionPolicy: a manifest of its own for the mesh it remembered,
\* or another lineage than the remembered one.
Detects(d) ==
    /\ dev[d].memoMesh = dev[d].man.mesh
    /\ dev[d].boot \/ (dev[d].memoLineage # 0 /\ dev[d].memoLineage # dev[d].man.lineage)

ConnectPolicy(d) ==
    /\ dev[d].pc = "policy"
    /\ LET s == dev[d]
           noted == [s EXCEPT !.pc = "anchor", !.lineage = s.man.lineage, !.met = room.life]
       IN  Becomes(d, IF Detects(d)
                      THEN [noted EXCEPT !.owed = TRUE, !.refill = d \notin kind.manual,
                                         !.awaiting = @ \/ d \in kind.manual]
                      ELSE [noted EXCEPT !.refill = FALSE,
                                         !.blind = @ \/ (s.memoMesh = s.man.mesh /\ s.met \notin {0, room.life}
                                                        /\ ~s.owed)])
    /\ UNCHANGED <<room, left>>

\* persistCredentials; the write of the device metadata ends the step.
ConnectAnchor(d) ==
    /\ dev[d].pc = "anchor"
    /\ Becomes(d, [dev[d] EXCEPT !.pc = "pull", !.cred = IF d \in kind.keyed THEN dev[d].man.mesh ELSE @])
    /\ UNCHANGED <<room, left>>

\* A file of another mesh poisons the session; otherwise all are merged.
Pulled(d, next) ==
    IF \E f \in room.files \ dev[d].seen : f.mesh # dev[d].man.mesh THEN Stopped(dev[d])
    ELSE [dev[d] EXCEPT !.pc = next, !.rows = @ \cup {f.row : f \in room.files \ dev[d].seen},
                        !.seen = @ \cup room.files]

PullAll(d) ==
    /\ dev[d].pc = "pull"
    /\ Becomes(d, Pulled(d, "rebuild"))
    /\ UNCHANGED <<room, left>>

Republished(s) == [s EXCEPT !.out = @ \cup s.rows, !.owed = FALSE, !.blind = FALSE,
                                    !.moved = FALSE]

Republishes(s) == ~s.awaiting /\ (s.boot \/ s.refill)

ConnectRebuild(d) ==
    /\ dev[d].pc = "rebuild"
    /\ LET s == [dev[d] EXCEPT !.pc = "flush", !.since = room.life]
           done(t) == [t EXCEPT !.owed = @ /\ ~s.refill, !.boot = FALSE, !.refill = FALSE, !.memoMesh = Absent, !.memoLineage = 0]
       IN  Becomes(d, done(IF Republishes(s) THEN Republished(s) ELSE s))
    /\ UNCHANGED <<room, left>>

-----------------------------------------------------------------------------
(* Flushing, in a connect and in the session it opens.                     *)

\* doFlush loads the manifest again, creating one if it has to, and insists on
\* the mesh it knows; an empty outbox stays off the remote.
FlushLoad(d) ==
    /\ dev[d].pc = "flush"
    /\ IF dev[d].out = {}
       THEN Becomes(d, [dev[d] EXCEPT !.pc = "up"]) /\ UNCHANGED <<room, left>>
       ELSE \/ /\ room.pointer
               /\ Becomes(d, IF {dev[d].man.mesh, dev[d].mesh} = {room.manifest.mesh}
                             THEN [dev[d] EXCEPT !.pc = "send", !.man = room.manifest,
                                                 !.cache = room.manifest]
                             ELSE Stopped(dev[d]))
               /\ UNCHANGED <<room, left>>
            \/ Bootstraps(d, "send")

Sent(d) == {[mesh |-> dev[d].man.mesh, row |-> r, by |-> d, lineage |-> dev[d].man.lineage] : r \in dev[d].out}

FlushSend(d) ==
    /\ dev[d].pc = "send"
    /\ room' = [room EXCEPT !.files = @ \cup Sent(d), !.ever = @ \cup dev[d].out]
    /\ Becomes(d, [dev[d] EXCEPT !.pc = "up", !.seen = @ \cup Sent(d), !.out = {}])
    /\ UNCHANGED left

FlushLater(d) ==
    /\ dev[d].pc = "up" /\ dev[d].out # {}
    /\ Becomes(d, [dev[d] EXCEPT !.pc = "flush"])
    /\ UNCHANGED <<room, left>>

Poll(d) ==
    /\ dev[d].pc = "up" /\ ~(room.files \subseteq dev[d].seen)
    /\ Becomes(d, Pulled(d, "up"))
    /\ UNCHANGED <<room, left>>

\* The one row of a device is written at any time between connects.
Write(d) ==
    /\ dev[d].pc \in {"off", "up"} /\ left.write[d]
    /\ Becomes(d, [dev[d] EXCEPT !.rows = @ \cup {d}, !.out = @ \cup {d}])
    /\ left' = [left EXCEPT !.write[d] = FALSE]
    /\ UNCHANGED room

refillEvictedMesh(d) ==
    /\ dev[d].pc = "up" /\ dev[d].awaiting
    /\ Becomes(d, [Republished(dev[d]) EXCEPT !.awaiting = FALSE, !.pc = "flush"])
    /\ UNCHANGED <<room, left>>

\* A page is closed, or a request of its connect fails for good.
Stop(d) ==
    /\ dev[d].pc # "off"
    /\ dev[d].pc = "up" \/ left.stop > 0
    /\ left' = [left EXCEPT !.stop = IF dev[d].pc = "up" THEN @ ELSE @ - 1]
    /\ Becomes(d, Stopped(dev[d]))
    /\ UNCHANGED room

\* The host empties a mesh that has long been idle: no connect is under way.  The
\* names of its files never return, so what was seen of them can be forgotten.
Evict ==
    /\ left.evict > 0 /\ room.pointer
    /\ \A d \in Peer : dev[d].pc \in {"off", "up"}
    /\ room' = [room EXCEPT !.manifest = Absent, !.pointer = FALSE, !.files = {}, !.life = @ + 1]
    /\ left' = [left EXCEPT !.evict = @ - 1]
    /\ dev' = [d \in Peer |-> [dev[d] EXCEPT !.seen = {}]]
    /\ UNCHANGED kind

LineageNext ==
    \/ \E d \in Peer :
          \/ Connect(d) \/ LoadManifest(d) \/ MintManifest(d) \/ MintPointer(d)
          \/ ConnectJoin(d) \/ ConnectPolicy(d) \/ ConnectAnchor(d)
          \/ PullAll(d) \/ ConnectRebuild(d) \/ FlushLoad(d) \/ FlushSend(d)
          \/ FlushLater(d) \/ Poll(d) \/ Write(d) \/ refillEvictedMesh(d) \/ Stop(d)
    \/ Evict

-----------------------------------------------------------------------------
(* Properties.                                                             *)

\* The type of the state: the pointer is never there without the manifest that
\* it names, and a device under way holds a manifest.
LineageTypeOK ==
    /\ room.pointer => room.manifest # Absent
    /\ room.manifest # Absent => room.manifest.mesh \in 1 .. room.ids
    /\ room.ids \in 0 .. Cardinality(Peer) + 4
    /\ \A d \in Peer :
          LET s == dev[d]
          IN  /\ s.pc \in Pcs /\ s.out \subseteq s.rows /\ s.rows \subseteq Peer
              /\ s.pc \notin {"off", "load"} => s.man # Absent

\* Once a device has been through a full connect in the present life of the
\* mesh, each row it holds is in the mailbox or in its outbox again.  The code
\* misses this in three ways only: the device stopped after it had recorded the
\* lineage of a detected eviction and before it rebuilt its outbox (or waits for
\* refillEvictedMesh), the new life came with the lineage it remembered, or the
\* rows were merged from another mesh, which queues nothing.
Refilled ==
    \A d \in Peer :
        dev[d].since = room.life =>
            \/ dev[d].owed \/ dev[d].blind \/ dev[d].moved
            \/ dev[d].rows \subseteq dev[d].out \cup {f.row : f \in room.files}

\* A new life carries a lineage that a returning device remembers only after two
\* bootstraps over the same mesh: one eviction, or one unreadable pointer, alone
\* is always told by the lineage.
CollisionTakesTwo ==
    \A d \in Peer : dev[d].blind => (room.life - 1) + left.misreads - left.misread >= 2

\* As long as one mesh identity was ever minted at the path, no eviction, stop or
\* reconnect loses the last copy of a row that was once published.
PublishedHeld ==
    room.ids <= 1 => room.ever \subseteq UNION {dev[d].rows : d \in Peer}

\* What returning devices can rely on after evictions: the rows come back but
\* for the named cases, which take two bootstraps or a stop (doConnect).
LineageInv == LineageTypeOK /\ Refilled /\ CollisionTakesTwo /\ PublishedHeld

\* A device whose credentials name a mesh never loses a local row to a connect,
\* whichever mesh it finds at its path: parity is settled before local state may
\* be replaced.
AnchoredKeep ==
    [][\A d \in Peer : dev[d].cred # Absent => dev[d].rows \subseteq dev'[d].rows]_lineageVars
=============================================================================
