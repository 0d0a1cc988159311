----------------------------- MODULE KeyCustody -----------------------------
(***************************************************************************)
(* How the engines of one origin come to share a mesh key, and where the   *)
(* key is kept: init() of sync-engine.ts on top of PortablePassphrase-     *)
(* KeySource and the browser credential stores.                            *)
(*                                                                         *)
(* custody "storage"    the record itself is in localStorage;              *)
(*         "passphrase" an envelope in localStorage, its key derived from  *)
(*                      a passphrase and the salt of a key record;         *)
(*         "seed"       an envelope in localStorage, its key derived from  *)
(*                      a seed kept in a passkey;                          *)
(*         "passkey"    the record itself is the blob of a passkey.        *)
(*                                                                         *)
(* localStorage and the passkeys are shared by the tabs; the derived key   *)
(* (`cache') and the engine are the tab's own.  Keys, salts and seeds are  *)
(* numbered in the order they are drawn.  What is sealed under a salt or a *)
(* seed opens under the same one only.                                     *)
(***************************************************************************)
EXTENDS Integers, Sequences, FiniteSets, Presence

CONSTANTS
    Tabs,
    MeshIds       \* the meshes the remote folder may hold, one after the other

VARIABLES
    custody,      \* the kind of store the engines are configured with
    lock,         \* the tab that holds CREDENTIAL_STATE_LOCK, or Absent
    saved,        \* the credential record, or its envelope, in localStorage
    record,       \* the salt of the passphrase key record
    passkeys,     \* the blob of every passkey of this namespace
    refs,         \* the passkeys localStorage remembers, the newest first
    drawn,        \* how many keys, salts and seeds have been drawn
    cache,        \* the salt whose key a tab has derived and not forgotten
    eng,          \* the engine of every tab
    form,         \* a tab's unlock() in progress
    remoteMesh,   \* the mesh of the remote folder
    localMesh,    \* the mesh the local store is bound to
    budget,       \* the calls and the faults that are left
    history       \* what was destroyed on purpose or by a lost race, and the
                  \* first key an engine started to work with

custodyVars == <<custody, lock, saved, record, passkeys, refs, drawn, cache, eng,
                 form, remoteMesh, localMesh, budget, history>>

Idle == [pc |-> "off", stage |-> Absent, purpose |-> Absent, env |-> Absent, rec |-> Absent,
         mesh |-> Absent, key |-> Absent]

releaseLock(t) == lock' = IF lock = t THEN Absent ELSE lock

Ready(t) == [Idle EXCEPT !.pc = "ready", !.key = eng[t].key]

\* A thrown error leaves the engine uninitialised, or unconnected, and the
\* stores as they are.
Fail(t) ==
    /\ eng' = [eng EXCEPT ![t] = IF @.stage = "anchor" THEN Ready(t) ELSE Idle]
    /\ releaseLock(t)
    /\ UNCHANGED drawn

\* The record is stored: init(), or the anchoring of connect(), is over.
Stored(t) ==
    /\ eng' = [eng EXCEPT ![t] = Ready(t)]
    /\ history' = [history EXCEPT !.first = IF @ = Absent THEN eng[t].key ELSE @]
    /\ releaseLock(t)

-----------------------------------------------------------------------------
(* The engine: the stages of doInit() under the lock, and of connect()     *)
(* without it.  Every stage reads the stored record; what follows depends  *)
(* on what it holds.                                                       *)

withLock_Free(t) == TRUE

withLock(t) == lock = Absent

\* A key given by the caller (from pairing or a recovery phrase) is not looked up.
doInit(t, given) ==
    /\ eng[t].pc = "off" /\ withLock(t) /\ budget.inits > 0
    /\ lock' = t
    /\ eng' = [eng EXCEPT ![t] = [Idle EXCEPT !.pc = "read", !.key = given,
                                              !.stage = IF given = Absent THEN "load" ELSE "restore"]]
    /\ budget' = [budget EXCEPT !.inits = @ - 1]
    /\ UNCHANGED <<custody, saved, record, passkeys, refs, drawn, cache, form, remoteMesh,
                   localMesh, history>>

\* connect() compares the stored record with the mesh it found, then anchors
\* the record to that mesh.
Connect(t) ==
    /\ eng[t].pc = "ready" /\ eng[t].key # Absent /\ budget.connects > 0
    /\ eng' = [eng EXCEPT ![t].pc = "read", ![t].stage = "anchor", ![t].mesh = remoteMesh]
    /\ budget' = [budget EXCEPT !.connects = @ - 1]
    /\ UNCHANGED <<custody, lock, saved, record, passkeys, refs, drawn, cache, form, remoteMesh,
                   localMesh, history>>

\* Whether the record that was read may stay in use.  restoreCredentials()
\* refuses a mesh other than the local store's and a key other than the
\* engine's, assertCredentialMeshParity() a mesh other than the manifest's.
restoreCredentials(t, r) ==
    /\ Absent \in {r.mesh, localMesh} \/ r.mesh = localMesh
    /\ r.key = eng[t].key

assertCredentialMeshParity(t, r) == r.mesh \in {Absent, eng[t].mesh}

Adoptable(t, r) ==
    /\ eng[t].stage = "restore" => restoreCredentials(t, r)
    /\ eng[t].stage = "anchor" => assertCredentialMeshParity(t, r)

\* persistCredentials(): the mesh of the manifest, else the one stored before.
Persist(e, mesh) == [e EXCEPT !.pc = "key", !.purpose = "encrypt", !.env = Absent,
                              !.mesh = IF e.stage = "anchor" THEN @ ELSE mesh]

\* applyJoinExistingMeshPolicy() binds the local store to the mesh it joined.
bindLocalMesh(t) == localMesh' = IF eng[t].stage = "anchor" THEN eng[t].mesh ELSE localMesh

Found(t, r) ==
    \/ ~Adoptable(t, r) /\ Fail(t) /\ UNCHANGED localMesh
    \/ /\ Adoptable(t, r)
       /\ bindLocalMesh(t)
       /\ eng' = [eng EXCEPT ![t] =
                     CASE @.stage = "load" ->
                             [@ EXCEPT !.pc = "read", !.stage = "restore", !.key = r.key, !.env = Absent]
                       [] @.stage = "restore" ->
                             [@ EXCEPT !.pc = "read", !.stage = "persist", !.env = Absent]
                       [] OTHER -> Persist(@, r.mesh)]
       /\ UNCHANGED <<lock, drawn>>

\* Only an absent record lets the engine draw a key.
Nothing(t) ==
    /\ UNCHANGED lock /\ bindLocalMesh(t)
    /\ drawn' = IF eng[t].stage = "load" THEN drawn + 1 ELSE drawn
    /\ eng' = [eng EXCEPT ![t] =
                  CASE @.stage = "load" -> [@ EXCEPT !.pc = "read", !.stage = "restore", !.key = drawn']
                    [] @.stage = "restore" -> [@ EXCEPT !.pc = "read", !.stage = "persist"]
                    [] OTHER -> Persist(@, Absent)]

-----------------------------------------------------------------------------
(* LocalStorageCredentialStore, EnvelopedCredentialStore *)

\* load(): no envelope is "absent"; an envelope needs the provider's key.
load(t) ==
    /\ custody # "passkey" /\ eng[t].pc = "read"
    /\ IF saved = Absent THEN Nothing(t)
       ELSE IF custody = "storage" THEN Found(t, saved)
       ELSE /\ eng' = [eng EXCEPT ![t].pc = "key", ![t].purpose = "decrypt", ![t].env = saved]
            /\ UNCHANGED <<drawn, lock, localMesh>>
    /\ UNCHANGED <<custody, saved, record, passkeys, refs, cache, form, remoteMesh, budget, history>>

\* The provider has answered with the key of salt or seed k: an envelope
\* sealed under another one is unreadable.
Answered(t, k) ==
    \/ /\ eng[t].purpose = "decrypt" /\ UNCHANGED <<saved, history>>
       /\ IF eng[t].env.under = k THEN Found(t, eng[t].env) ELSE Fail(t) /\ UNCHANGED localMesh
    \/ /\ eng[t].purpose = "encrypt" /\ UNCHANGED <<drawn, localMesh>>
       /\ saved' = [key |-> eng[t].key, mesh |-> eng[t].mesh, under |-> k]
       /\ Stored(t)

save(t) ==
    /\ custody = "storage" /\ eng[t].pc = "key"
    /\ Answered(t, Absent)
    /\ UNCHANGED <<custody, record, passkeys, refs, cache, form, remoteMesh, budget>>

-----------------------------------------------------------------------------
(* PassphraseEnvelopeKeyProvider *)

\* getKey(): the cached key serves the record it was derived for.  Decrypting
\* without a record fails: it is never taken for absence.
resolveKey(t) ==
    /\ custody = "passphrase" /\ eng[t].pc = "key"
    /\ IF record = Absent /\ eng[t].purpose = "decrypt" THEN Fail(t) /\ UNCHANGED <<saved, cache, localMesh, history>>
       ELSE IF record # Absent /\ cache[t] = record THEN Answered(t, record) /\ UNCHANGED cache
       ELSE /\ cache' = [cache EXCEPT ![t] = Absent]
            /\ eng' = [eng EXCEPT ![t].pc = "ask", ![t].rec = record]
            /\ UNCHANGED <<saved, lock, drawn, localMesh, history>>
    /\ UNCHANGED <<custody, record, passkeys, refs, form, remoteMesh, budget>>

\* The key is derived for the record that was read, and proved against it.
\* Without one a record is provisioned, over any that was stored meanwhile.
derive(t, rec) ==
    /\ drawn' = IF rec = Absent THEN drawn + 1 ELSE drawn
    /\ record' = IF rec = Absent THEN drawn' ELSE record
    /\ cache' = [cache EXCEPT ![t] = IF rec = Absent THEN drawn' ELSE rec]
    /\ history' = IF rec = Absent /\ record # Absent
                    THEN [history EXCEPT !.lost = @ \cup {"overwritten"}] ELSE history

PassphraseGiven(t) ==
    /\ eng[t].pc = "ask"
    /\ derive(t, eng[t].rec)
    /\ eng' = [eng EXCEPT ![t].pc = "derived", ![t].rec = cache'[t]]
    /\ UNCHANGED <<custody, lock, saved, passkeys, refs, form, remoteMesh, localMesh, budget>>

Derived(t) ==
    /\ eng[t].pc = "derived"
    /\ Answered(t, eng[t].rec)
    /\ UNCHANGED <<custody, record, passkeys, refs, cache, form, remoteMesh, budget>>

\* No passphrase, or a wrong one: locked or unreadable.
PassphraseWithheld(t) ==
    /\ eng[t].pc = "ask" /\ budget.faults > 0
    /\ Fail(t)
    /\ budget' = [budget EXCEPT !.faults = @ - 1]
    /\ UNCHANGED <<custody, saved, record, passkeys, refs, cache, form, remoteMesh,
                   localMesh, history>>

\* unlock() reads the record, then derives; nothing orders it against init().
UnlockRead(t) ==
    /\ custody = "passphrase" /\ form[t].pc = "off" /\ budget.unlocks > 0
    /\ form' = [form EXCEPT ![t] = [pc |-> "derive", rec |-> record]]
    /\ budget' = [budget EXCEPT !.unlocks = @ - 1]
    /\ UNCHANGED <<custody, lock, saved, record, passkeys, refs, drawn, cache, eng, remoteMesh,
                   localMesh, history>>

UnlockDerive(t) ==
    /\ form[t].pc = "derive"
    /\ derive(t, form[t].rec)
    /\ form' = [form EXCEPT ![t] = [pc |-> "off", rec |-> Absent]]
    /\ UNCHANGED <<custody, lock, saved, passkeys, refs, eng, remoteMesh, localMesh, budget>>

\* lock(): the idle timer, a hidden page, dispose(), or a call.
Lock(t) ==
    /\ cache[t] # Absent
    /\ cache' = [cache EXCEPT ![t] = Absent]
    /\ UNCHANGED <<custody, lock, saved, record, passkeys, refs, drawn, eng, form, remoteMesh, localMesh,
                   budget, history>>

deleteKeyRecord(t) ==
    /\ custody = "passphrase" /\ budget.clears > 0
    /\ record' = Absent /\ cache' = [cache EXCEPT ![t] = Absent]
    /\ history' = [history EXCEPT !.lost = @ \cup {"cleared"}]
    /\ budget' = [budget EXCEPT !.clears = @ - 1]
    /\ UNCHANGED <<custody, lock, saved, passkeys, refs, drawn, eng, form, remoteMesh, localMesh>>

-----------------------------------------------------------------------------
(* Tearing down *)

\* clearCredentials(): the envelope first, then the provider, which for a
\* passphrase only forgets its derived key.  Passkeys are overwritten one by
\* one, and the engine drops its key last.
clearCredentials(t) ==
    /\ eng[t].pc = "ready" /\ budget.clears > 0
    /\ saved' = Absent
    /\ cache' = [cache EXCEPT ![t] = Absent]
    /\ eng' = [eng EXCEPT ![t] = IF custody \in {"seed", "passkey"}
                                   THEN [@ EXCEPT !.pc = "erase", !.env = refs]
                                   ELSE [Idle EXCEPT !.pc = "ready"]]
    /\ history' = [history EXCEPT !.lost = @ \cup {"cleared"}]
    /\ budget' = [budget EXCEPT !.clears = @ - 1]
    /\ UNCHANGED <<custody, lock, record, passkeys, refs, drawn, form, remoteMesh, localMesh>>

\* The page goes away: its lock is released, its derived key is gone.
CloseTab(t) ==
    /\ eng[t].pc # "off"
    /\ eng' = [eng EXCEPT ![t] = Idle]
    /\ form' = [form EXCEPT ![t] = [pc |-> "off", rec |-> Absent]]
    /\ cache' = [cache EXCEPT ![t] = Absent]
    /\ releaseLock(t)
    /\ UNCHANGED <<custody, saved, record, passkeys, refs, drawn, remoteMesh, localMesh, budget, history>>

\* Another mesh is created in the remote folder.
RemoteReplaced ==
    /\ remoteMesh' \in MeshIds \ {remoteMesh} /\ budget.meshes > 0
    /\ budget' = [budget EXCEPT !.meshes = @ - 1]
    /\ UNCHANGED <<custody, lock, saved, record, passkeys, refs, drawn, cache, eng, form, localMesh, history>>
=============================================================================
