------------------------------- MODULE Trust -------------------------------
(***************************************************************************)
(* How a device comes to hold a mesh key and what it may do with it:       *)
(* pairing, custody of the key, the list of connected stores and delegated *)
(* access, side by side.                                                   *)
(*                                                                         *)
(* The parts meet where a key is handed over: an engine may be started     *)
(* with the credentials a pairing delivered, or with a portable key from   *)
(* elsewhere (a recovery phrase).  The agenda of a behaviour says which of *)
(* the parts are at work.                                                  *)
(***************************************************************************)
EXTENDS Handshake, PasskeyCustody, ConnectedStores, MeshGrants

CONSTANT RecoveredKey \* the portable key that recoverWithPhrase() returned

VARIABLE agenda       \* the parts at work

trustVars == <<handshakeVars, custodyVars, storesVars, grantVars, agenda>>

\* What a caller can start the engine with: nothing, the credentials this
\* device received (handleScannedQR()), or a recovered key.
KeysAtHand ==
    {Absent} \cup (IF "recovery" \in agenda THEN {RecoveredKey} ELSE {})
             \cup {scan[s].got : s \in Received}

PairingStep == "pairing" \in agenda /\ HandshakeNext /\ UNCHANGED <<custodyVars, storesVars, grantVars, agenda>>

CustodyNext ==
    \/ \E t \in Tabs : CustodyStep(t) \/ \E k \in KeysAtHand : doInit(t, k)
    \/ RemoteReplaced

KeyStep == "custody" \in agenda /\ CustodyNext /\ UNCHANGED <<handshakeVars, storesVars, grantVars, agenda>>

StoresStep == "stores" \in agenda /\ StoresNext /\ UNCHANGED <<handshakeVars, custodyVars, grantVars, agenda>>

GrantsStep == "grants" \in agenda /\ GrantsNext /\ UNCHANGED <<handshakeVars, custodyVars, storesVars, agenda>>

TrustNext == PairingStep \/ KeyStep \/ StoresStep \/ GrantsStep

============================================================================
