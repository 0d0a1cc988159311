--------------------------- MODULE PasskeyCustody ---------------------------
(***************************************************************************)
(* Keeping the credential record, or the seed of its envelope key, in the  *)
(* large blob of a passkey: WebAuthnBlobStore (webauthn.ts),               *)
(* WebAuthnCredentialStore and WebAuthnEnvelopeKeyProvider.                *)
(*                                                                         *)
(* Every access is a ceremony that the user may decline.  The tabs of one  *)
(* origin share the passkeys and the list of those that are remembered.    *)
(* An overwritten blob reads as no blob.                                   *)
(***************************************************************************)
EXTENDS KeyCustody

Reading(t) == \/ custody = "seed" /\ eng[t].pc = "key"
              \/ custody = "passkey" /\ eng[t].pc = "read"

\* A passkey of the same site that holds no blob.
Foreign == 0

\* loadTagged(): a remembered passkey if there is one, else any that the
\* browser offers.
allowCredentials == IF refs # <<>> THEN {refs[i] : i \in DOMAIN refs}
                    ELSE DOMAIN passkeys \cup {Foreign}

BlobOf(i) == IF i = Foreign THEN Absent ELSE passkeys[i]

\* seed(): encrypting with no seed to be had enrols one.
EnrolSeed(t) ==
    /\ drawn' = drawn + 1
    /\ eng' = [eng EXCEPT ![t].pc = "save", ![t].rec = drawn']
    /\ UNCHANGED <<lock, localMesh>>

\* The ceremony completes.  What is found is remembered when nothing was.
ReadBlob(t, i) ==
    /\ Reading(t) /\ i \in allowCredentials
    /\ LET blob == BlobOf(i) IN
       /\ refs' = IF blob # Absent /\ refs = <<>> THEN <<i>> ELSE refs
       /\ \/ custody = "passkey" /\ blob # Absent /\ Found(t, blob)
          \/ custody = "passkey" /\ blob = Absent /\ Nothing(t)
          \/ /\ custody = "seed" /\ blob # Absent
             /\ eng' = [eng EXCEPT ![t].pc = "derived", ![t].rec = blob]
             /\ UNCHANGED <<lock, drawn, localMesh>>
          \/ /\ custody = "seed" /\ blob = Absent
             /\ IF eng[t].purpose = "encrypt" THEN EnrolSeed(t) ELSE Fail(t) /\ UNCHANGED localMesh
    /\ UNCHANGED <<custody, saved, record, passkeys, cache, form, remoteMesh, budget, history>>

\* The ceremony is declined, or there is nothing to offer.  A seed is enrolled
\* only when no passkey is remembered: there is nothing a second one could
\* strand.
ReadDeclined(t) ==
    /\ Reading(t)
    /\ IF custody = "seed" /\ eng[t].purpose = "encrypt" /\ refs = <<>> THEN EnrolSeed(t)
       ELSE Fail(t) /\ UNCHANGED localMesh
    /\ \/ budget.faults > 0 /\ budget' = [budget EXCEPT !.faults = @ - 1]
       \/ refs = <<>> /\ UNCHANGED budget
    /\ UNCHANGED <<custody, saved, record, passkeys, refs, cache, form, remoteMesh, history>>

Saving(t) == \/ eng[t].pc = "save"
             \/ custody = "passkey" /\ eng[t].pc = "key"

\* save() writes to the passkey remembered last, or creates one.
Save(t) ==
    /\ Saving(t)
    /\ eng' = [eng EXCEPT ![t] = IF refs # <<>> THEN [@ EXCEPT !.pc = "write", !.env = Head(refs)]
                                 ELSE [@ EXCEPT !.pc = "create"]]
    /\ UNCHANGED <<custody, lock, saved, record, passkeys, refs, drawn, cache, form, remoteMesh,
                   localMesh, budget, history>>

\* enrollAuthenticator() remembers the passkey before anything is in it.
Create(t) ==
    /\ eng[t].pc = "create"
    /\ passkeys' = Append(passkeys, Absent)
    /\ refs' = <<Len(passkeys')>> \o refs
    /\ eng' = [eng EXCEPT ![t].pc = "write", ![t].env = Len(passkeys')]
    /\ UNCHANGED <<custody, lock, saved, record, drawn, cache, form, remoteMesh, localMesh, budget,
                   history>>

Write(t) ==
    /\ eng[t].pc = "write"
    /\ passkeys' = [passkeys EXCEPT ![eng[t].env] =
                       IF custody = "seed" THEN eng[t].rec ELSE [key |-> eng[t].key, mesh |-> eng[t].mesh]]
    /\ IF custody = "passkey" THEN Stored(t)
       ELSE eng' = [eng EXCEPT ![t].pc = "derived", ![t].env = Absent] /\ UNCHANGED <<lock, history>>
    /\ UNCHANGED <<custody, saved, record, refs, drawn, cache, form, remoteMesh, localMesh, budget>>

WriteDeclined(t) ==
    /\ eng[t].pc \in {"create", "write"} /\ budget.faults > 0
    /\ Fail(t)
    /\ budget' = [budget EXCEPT !.faults = @ - 1]
    /\ UNCHANGED <<custody, saved, record, passkeys, refs, cache, form, remoteMesh, localMesh, history>>

\* clear(): one ceremony per remembered passkey.
Erase(t) ==
    /\ eng[t].pc = "erase" /\ eng[t].env # <<>>
    /\ passkeys' = [passkeys EXCEPT ![Head(eng[t].env)] = Absent]
    /\ eng' = [eng EXCEPT ![t].env = Tail(@)]
    /\ UNCHANGED <<custody, lock, saved, record, refs, drawn, cache, form, remoteMesh, localMesh,
                   budget, history>>

EraseDeclined(t) ==
    /\ eng[t].pc = "erase" /\ eng[t].env # <<>> /\ budget.faults > 0
    /\ eng' = [eng EXCEPT ![t].env = Tail(@), ![t].stage = "residual"]
    /\ budget' = [budget EXCEPT !.faults = @ - 1]
    /\ UNCHANGED <<custody, lock, saved, record, passkeys, refs, drawn, cache, form, remoteMesh,
                   localMesh, history>>

\* clearHints(), whatever was overwritten.  A record that may have survived is
\* an error, and then the engine keeps its key.
clearHints(t) ==
    /\ eng[t].pc = "erase" /\ eng[t].env = <<>>
    /\ refs' = <<>>
    /\ eng' = [eng EXCEPT ![t] = IF custody = "passkey" /\ @.stage = "residual" THEN Ready(t)
                                 ELSE [Idle EXCEPT !.pc = "ready"]]
    /\ UNCHANGED <<custody, lock, saved, record, passkeys, drawn, cache, form, remoteMesh,
                   localMesh, budget, history>>

-----------------------------------------------------------------------------
CustodyInit(Custodies, Budgets) ==
    /\ custody \in Custodies /\ budget \in Budgets
    /\ lock = Absent /\ saved = Absent /\ record = Absent
    /\ passkeys = <<>> /\ refs = <<>> /\ drawn = 0
    /\ cache = [t \in Tabs |-> Absent]
    /\ eng = [t \in Tabs |-> Idle]
    /\ form = [t \in Tabs |-> [pc |-> "off", rec |-> Absent]]
    /\ remoteMesh \in MeshIds /\ localMesh = Absent
    /\ history = [lost |-> {}, first |-> Absent]

CustodyStep(t) ==
    \/ Connect(t) \/ load(t) \/ save(t)
    \/ resolveKey(t) \/ PassphraseGiven(t) \/ Derived(t) \/ PassphraseWithheld(t)
    \/ UnlockRead(t) \/ UnlockDerive(t) \/ Lock(t) \/ deleteKeyRecord(t)
    \/ (\E i \in allowCredentials : ReadBlob(t, i)) \/ ReadDeclined(t)
    \/ Save(t) \/ Create(t) \/ Write(t) \/ WriteDeclined(t)
    \/ Erase(t) \/ EraseDeclined(t) \/ clearHints(t)
    \/ clearCredentials(t) \/ CloseTab(t)

-----------------------------------------------------------------------------
(* Properties *)

Cleared == "cleared" \in history.lost

Initialised == {t \in Tabs : eng[t].pc = "ready" /\ eng[t].key # Absent}

\* Every engine an origin ever runs works with the key the first of them
\* stored, across tabs and reloads, unless the credentials were cleared: "a
\* sibling tab that enters second must observe the first tab's durable key
\* instead of minting another one" (doInit()), and an engine that was given
\* another key refuses to run (restoreCredentials()).
OneMeshKey == Cleared \/ \A t \in Initialised : eng[t].key = history.first

\* The envelope opens: the key record, or a remembered passkey, still holds
\* what it was sealed under.
Opens(e) == CASE custody = "storage" -> TRUE
              [] custody = "passphrase" -> record = e.under
              [] custody = "seed" -> \E i \in DOMAIN refs : passkeys[refs[i]] = e.under

Recoverable(k) ==
    IF custody = "passkey" THEN \E i \in DOMAIN refs : passkeys[refs[i]] # Absent /\ passkeys[refs[i]].key = k
    ELSE saved # Absent /\ saved.key = k /\ Opens(saved)

\* The key an engine works with can be read back after a reload, whatever was
\* declined or interrupted in the meantime: init() stores it before it
\* returns, and connect() rewrites it in place.  Only clearing, or a key record
\* provisioned over another one, takes it away.
KeyOutlivesPage == history.lost = {} => \A t \in Initialised : Recoverable(eng[t].key)

\* One key per origin, and it is not lost with a page (doInit()).
CustodyInv == OneMeshKey /\ KeyOutlivesPage

\* An engine draws a mesh key only when it found no record: one that cannot be
\* opened at the moment is never taken for an absent one (resolveEncryption()).
MintsOnlyWhenAbsent ==
    [][\A t \in Tabs : (eng[t].stage = "load" /\ eng'[t].stage = "restore" /\ drawn' > drawn) =>
          /\ saved = Absent
          /\ custody = "passkey" => \E i \in allowCredentials : BlobOf(i) = Absent]_custodyVars
=============================================================================
