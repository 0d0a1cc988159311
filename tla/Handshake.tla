------------------------------ MODULE Handshake ------------------------------
(***************************************************************************)
(* Pairing two devices over two relay files (packages/core/src/handshake). *)
(*                                                                         *)
(* One generator shows an invitation; any of the Scanners may obtain it.   *)
(* The scanner publishes its public key (the hello), and the side that has *)
(* the mesh credentials publishes them, encrypted for the pair of keys.    *)
(* Nothing orders the participants: several scanners may hold the same     *)
(* invitation, complete() may be called again, a file may be overwritten   *)
(* or deleted between any two steps, a poll may time out, and a write may  *)
(* fail.  A failed read is the same as an absent file, so the poll goes on.*)
(*                                                                         *)
(* The wrapping key of a scanner and the generator is known to these two   *)
(* only: it is named by its scanner.                                       *)
(***************************************************************************)
EXTENDS Integers, FiniteSets, Presence

CONSTANTS
    Scanners,    \* the runs of handleScannedQR(), each with a key pair of its own
    CompleteCalls, \* the calls of complete() on the invitation
    Generator    \* the device that shows the invitation

ASSUME ScannersAssumption == IsFiniteSet(Scanners)

VARIABLES
    intent,      \* "share": the generator sends the credentials, "join": it wants them
    profile,     \* the capability profile of every participant, as its adapter and its caller give it
    relay,       \* the two relay files
    call,        \* the generator's runs of complete()
    scan,        \* the scanners' runs
    patience     \* no poll times out and no write fails when it is TRUE

handshakeVars == <<intent, profile, relay, call, scan, patience>>

Participants == Scanners \cup {Generator}

-----------------------------------------------------------------------------
(* Capabilities *)

\* Every required feature is one that both participants support.
assertPairingCapabilitiesCompatible(p, q) ==
    p.required \cup q.required \subseteq p.supported \cap q.supported

\* A profile that names nothing is left out of the hello.
pairingCapabilitiesForWire(p) ==
    IF p.supported = {} /\ p.required = {} THEN Absent ELSE p

normalizePairingCapabilities(p) ==
    IF p = Absent THEN [supported |-> {}, required |-> {}] ELSE p

\* What the credential envelope is bound to: both profiles, when one of them
\* requires anything.
capabilityTranscript(s, p, q) ==
    IF p.required = {} /\ q.required = {} THEN Absent
    ELSE [scanner |-> s, generator |-> p, peer |-> q]

encryptCredentials(s, creds, aad) == [key |-> s, creds |-> creds, aad |-> aad]

\* The envelope of another scanner has another key, and one that is bound to
\* another transcript, or to none, is refused.
decryptCredentials_AnyKey(s, envelope, aad) == TRUE

decryptCredentials(s, envelope, aad) == envelope.key = s /\ envelope.aad = aad

-----------------------------------------------------------------------------
(* The generator *)

\* Whose turn it is to send is decided by the intent.
credentialsOf(p) == p

\* An invitation whose profile contradicts itself is refused when it is made.
\* complete() waits for the first hello it can read.
Complete(c) ==
    /\ call[c].pc = "off"
    /\ intent = "join" => \A d \in CompleteCalls : call[d].pc = "off"
    /\ LET p == profile[Generator] IN
       call' = [call EXCEPT ![c].pc =
                   IF assertPairingCapabilitiesCompatible(p, p) THEN "hello" ELSE "failed"]
    /\ UNCHANGED <<intent, profile, relay, scan, patience>>

\* The first hello decides whom this call answers.
ReadHello(c) ==
    /\ call[c].pc = "hello" /\ relay.scannerPub # Absent
    /\ LET hello == relay.scannerPub
           q == normalizePairingCapabilities(hello.capabilities)
       IN call' = [call EXCEPT ![c] =
                      IF assertPairingCapabilitiesCompatible(profile[Generator], q)
                        THEN [@ EXCEPT !.pc = IF intent = "share" THEN "send" ELSE "receive",
                                       !.peer = hello.pub,
                                       !.aad = capabilityTranscript(hello.pub, profile[Generator], q)]
                        ELSE [@ EXCEPT !.pc = "failed"]]
    /\ UNCHANGED <<intent, profile, relay, scan, patience>>

\* The generator shares: it does not clean up and does not wait for the scanner.
Send(c) ==
    /\ call[c].pc = "send"
    /\ relay' = [relay EXCEPT !.credentials =
                    encryptCredentials(call[c].peer, credentialsOf(Generator), call[c].aad)]
    /\ call' = [call EXCEPT ![c].pc = "done"]
    /\ UNCHANGED <<intent, profile, scan, patience>>

\* The generator joins: it decrypts whatever credentials file it finds.
Receive(c) ==
    /\ call[c].pc = "receive" /\ relay.credentials # Absent
    /\ LET e == relay.credentials IN
       call' = [call EXCEPT ![c] =
                   IF decryptCredentials(@.peer, e, @.aad)
                     THEN [@ EXCEPT !.pc = "done", !.got = e.creds,
                                    !.tidy = {"scannerPub", "credentials"}]
                     ELSE [@ EXCEPT !.pc = "undecryptable"]]
    /\ UNCHANGED <<intent, profile, relay, scan, patience>>

-----------------------------------------------------------------------------
(* The scanners *)

\* The profiles are compared before anything is published.  A QR whose profile
\* contradicts itself has never been generated.
Scan(s) ==
    /\ scan[s].pc = "off"
    /\ LET p == profile[s]
           g == profile[Generator]
       IN /\ assertPairingCapabilitiesCompatible(g, g)
          /\ scan' = [scan EXCEPT ![s].pc =
                         IF assertPairingCapabilitiesCompatible(p, g) THEN "hello" ELSE "failed"]
    /\ UNCHANGED <<intent, profile, relay, call, patience>>

WriteHello(s) ==
    /\ scan[s].pc = "hello"
    /\ relay' = [relay EXCEPT !.scannerPub =
                    [pub |-> s, capabilities |-> pairingCapabilitiesForWire(profile[s])]]
    /\ scan' = [scan EXCEPT ![s].pc = IF intent = "share" THEN "receive" ELSE "send"]
    /\ UNCHANGED <<intent, profile, call, patience>>

ScannerAad(s) == capabilityTranscript(s, profile[Generator], profile[s])

ScannerSends(s) ==
    /\ scan[s].pc = "send"
    /\ relay' = [relay EXCEPT !.credentials =
                    encryptCredentials(s, credentialsOf(s), ScannerAad(s))]
    /\ scan' = [scan EXCEPT ![s].pc = "done"]
    /\ UNCHANGED <<intent, profile, call, patience>>

ScannerReceives(s) ==
    /\ scan[s].pc = "receive" /\ relay.credentials # Absent
    /\ LET e == relay.credentials IN
       scan' = [scan EXCEPT ![s] =
                   IF decryptCredentials(s, e, ScannerAad(s))
                     THEN [@ EXCEPT !.pc = "done", !.got = e.creds,
                                    !.tidy = {"scannerPub", "credentials"}]
                     ELSE [@ EXCEPT !.pc = "undecryptable"]]
    /\ UNCHANGED <<intent, profile, relay, call, patience>>

-----------------------------------------------------------------------------
(* Clean-up, timeouts and failed writes *)

\* Whoever received the credentials deletes both files; each deletion may fail
\* and neither is waited for.
relayCleanup(f) ==
    /\ \/ \E s \in Scanners : f \in scan[s].tidy /\ scan' = [scan EXCEPT ![s].tidy = @ \ {f}]
                              /\ UNCHANGED call
       \/ \E c \in CompleteCalls : f \in call[c].tidy /\ call' = [call EXCEPT ![c].tidy = @ \ {f}]
                                   /\ UNCHANGED scan
    /\ relay' \in {[relay EXCEPT ![f] = Absent]} \cup (IF patience THEN {} ELSE {relay})
    /\ UNCHANGED <<intent, profile, patience>>

\* pollFor() gives up at its deadline; relayWrite() throws what the adapter throws.
GiveUp(p) ==
    /\ ~patience
    /\ \/ p \in Scanners /\ scan[p].pc \in {"hello", "receive", "send"}
          /\ scan' = [scan EXCEPT ![p].pc = "failed"] /\ UNCHANGED call
       \/ p \in CompleteCalls /\ call[p].pc \in {"hello", "receive", "send"}
          /\ call' = [call EXCEPT ![p].pc = "failed"] /\ UNCHANGED scan
    /\ UNCHANGED <<intent, profile, relay, patience>>

Run == [pc |-> "off", got |-> Absent, tidy |-> {}]

HandshakeInit(Profiles) ==
    /\ intent \in {"share", "join"}
    /\ profile \in [Participants -> Profiles]
    /\ relay = [scannerPub |-> Absent, credentials |-> Absent]
    /\ call = [c \in CompleteCalls |->
                  [pc |-> "off", got |-> Absent, tidy |-> {}, peer |-> Absent, aad |-> Absent]]
    /\ scan = [s \in Scanners |-> Run]
    /\ patience \in BOOLEAN

CallStep(c) == ReadHello(c) \/ Send(c) \/ Receive(c)
ScanStep(s) == WriteHello(s) \/ ScannerSends(s) \/ ScannerReceives(s)

HandshakeNext ==
    \/ \E c \in CompleteCalls : Complete(c) \/ CallStep(c) \/ GiveUp(c)
    \/ \E s \in Scanners : Scan(s) \/ ScanStep(s) \/ GiveUp(s)
    \/ \E f \in {"scannerPub", "credentials"} : relayCleanup(f)

\* A participant that has started keeps polling; nobody has to start.
HandshakeFairness ==
    /\ \A c \in CompleteCalls : WF_handshakeVars(CallStep(c))
    /\ \A s \in Scanners : WF_handshakeVars(ScanStep(s))
    /\ \A f \in {"scannerPub", "credentials"} : WF_handshakeVars(relayCleanup(f))

-----------------------------------------------------------------------------
(* Properties *)

Received == {s \in Scanners : scan[s].got # Absent}

Features(p, q) == p.required \cup q.required \subseteq p.supported \cap q.supported

\* Credentials are accepted only from the counterpart of this very run, and
\* only when both sides support whatever either requires: a scanner takes what
\* a complete() sealed after reading the scanner's own hello, and a joining
\* generator what the scanner whose hello it read has sealed, however the relay
\* files were overwritten in between (channel.ts: decryptCredentials()).
PairedAsNegotiated ==
    /\ \A s \in Received :
          /\ \E c \in CompleteCalls : call[c].pc = "done" /\ call[c].peer = s
          /\ Features(profile[Generator], profile[s])
    /\ \A c \in CompleteCalls : call[c].got # Absent =>
          /\ call[c].got = call[c].peer
          /\ Features(profile[Generator], profile[call[c].peer])

Started(S, run) == {x \in S : run[x].pc # "off"}

\* An envelope that cannot be opened is the work of another participant: with
\* one scanner and one complete() the two sides always derive the same key and
\* the same transcript, whichever profile was left out of the hello.
UndecryptableOnlyWhenContended ==
    (\/ \E s \in Scanners : scan[s].pc = "undecryptable"
     \/ \E c \in CompleteCalls : call[c].pc = "undecryptable") =>
        Cardinality(Started(Scanners, scan)) > 1

\* What a participant of the pairing can rely on: nobody else's credentials are
\* taken, and an uncontended run never fails to open its envelope.
PairingInv == PairedAsNegotiated /\ UndecryptableOnlyWhenContended

\* When one scanner and one complete() run, their capabilities agree and
\* nothing times out or fails, the credentials arrive and both relay files are
\* deleted.
PatientPairs ==
    \A s \in Scanners, c \in CompleteCalls :
        (/\ <>[](Started(Scanners, scan) = {s} /\ Started(CompleteCalls, call) = {c})
         /\ patience
         /\ Features(profile[Generator], profile[s])) =>
            <>(/\ intent = "share" => scan[s].got = Generator
               /\ intent = "join" => call[c].got = s
               /\ relay.scannerPub = Absent /\ relay.credentials = Absent)

=============================================================================
