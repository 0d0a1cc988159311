---------------------------- MODULE Trust_proofs ----------------------------
(***************************************************************************)
(* Proofs about Handshake, ConnectedStores and MeshGrants.                 *)
(*                                                                         *)
(* Pairing: PairingIInv says of the two relay files who wrote them, of a   *)
(* complete() that has met a scanner which transcript it computed, and of  *)
(* both sides that their capabilities were compared.  A file may be        *)
(* overwritten at any time, so whoever finds another's envelope must be    *)
(* able to name the other: two scanners began.                             *)
(*                                                                         *)
(* The hook: HookIInv adds to HookSettles that reads are numbered and that *)
(* the latest one, when answered, brings what is stored.                   *)
(*                                                                         *)
(* Grants: GrantIInv says of every stored grant what a chain is refused    *)
(* for, link by link; what holds of the whole chain follows from the least *)
(* link that would break it.                                               *)
(***************************************************************************)
EXTENDS Handshake, ConnectedStores, MeshGrants, TLAPS, FiniteSetTheorems, SequenceTheorems, WellFoundedInduction

(* Most leaves are first-order; the ones that need records or arithmetic say SMTT. *)
USE ZenonT(60)

HandshakeSpec(Profiles) == HandshakeInit(Profiles) /\ [][HandshakeNext]_handshakeVars

CallPcs == {"off", "hello", "send", "receive", "done", "undecryptable", "failed"}
RelayFiles == {"scannerPub", "credentials"}

(* The two sides have started and met: past these a run knows its counterpart. *)
Joined == {"hello", "receive", "send", "done", "undecryptable"}
Matched == {"send", "receive", "done", "undecryptable"}

Aads == {ScannerAad(s) : s \in Scanners}
CallRun(A) ==
    [pc : CallPcs, got : Scanners \cup {Absent}, tidy : SUBSET RelayFiles, peer : Scanners \cup {Absent},
     aad : A \cup {Absent}]
ScanRun == [pc : CallPcs, got : {Generator, Absent}, tidy : SUBSET RelayFiles]

PairingTyped ==
    /\ intent \in {"share", "join"}
    /\ DOMAIN profile = Participants
    /\ \A p \in Participants :
         profile[p] # Absent /\ profile[p] = [supported |-> profile[p].supported, required |-> profile[p].required]
    /\ relay = [scannerPub |-> relay.scannerPub, credentials |-> relay.credentials]
    /\ call \in [CompleteCalls -> CallRun(Aads)] /\ scan \in [Scanners -> ScanRun]

Began(s) == scan[s].pc # "off"

Agrees(s) == Features(profile[Generator], profile[s])

Contended == \E a, b \in Scanners : a # b /\ Began(a) /\ Began(b)

(* Whoever wrote the hello began, and its capabilities were compared before. *)
HelloOf(s) ==
    /\ Began(s) /\ Agrees(s)
    /\ relay.scannerPub = [pub |-> s, capabilities |-> pairingCapabilitiesForWire(profile[s])]

(* Who sealed the credentials that lie at the relay, for whom and under which transcript. *)
SealedByCall(c) ==
    /\ intent = "share" /\ call[c].pc = "done"
    /\ relay.credentials = [key |-> call[c].peer, creds |-> Generator, aad |-> call[c].aad]

SealedByScanner(s) ==
    /\ intent = "join" /\ Began(s)
    /\ relay.credentials = [key |-> s, creds |-> s, aad |-> ScannerAad(s)]

FilesFit ==
    /\ relay.scannerPub # Absent => \E s \in Scanners : HelloOf(s)
    /\ relay.credentials # Absent =>
         (\E c \in CompleteCalls : SealedByCall(c)) \/ (\E s \in Scanners : SealedByScanner(s))

CallFits(c) ==
    /\ call[c].pc \in Matched =>
         call[c].peer \in Scanners /\ Began(call[c].peer) /\ Agrees(call[c].peer) /\ call[c].aad = ScannerAad(call[c].peer)
    /\ call[c].pc \in {"receive", "undecryptable"} => intent = "join"
    /\ call[c].pc = "send" => intent = "share"
    /\ call[c].got # Absent => call[c].pc = "done" /\ call[c].got = call[c].peer
    /\ call[c].pc = "undecryptable" => Contended

ScanFits(s) ==
    /\ scan[s].pc \in Joined => Agrees(s)
    /\ scan[s].pc = "receive" => intent = "share"
    /\ scan[s].pc = "send" => intent = "join"
    /\ scan[s].got # Absent => Agrees(s) /\ \E c \in CompleteCalls : call[c].pc = "done" /\ call[c].peer = s
    /\ scan[s].pc = "undecryptable" => Contended

PairingIInv ==
    /\ PairingTyped /\ FilesFit
    /\ \A c \in CompleteCalls : CallFits(c)
    /\ \A s \in Scanners : ScanFits(s)

(* A profile survives the hello: one that names nothing is left out and put back. *)
LEMMA WireRoundTrip ==
  ASSUME NEW p, p # Absent, p = [supported |-> p.supported, required |-> p.required]
  PROVE  normalizePairingCapabilities(pairingCapabilitiesForWire(p)) = p
  BY DEF normalizePairingCapabilities, pairingCapabilitiesForWire

LEMMA PairingInit ==
  ASSUME NEW F, NEW Profiles \in SUBSET [supported : SUBSET F, required : SUBSET F], Absent \notin Profiles,
         HandshakeInit(Profiles)
  PROVE  PairingIInv
<1>1. \A p \in Participants :
         profile[p] # Absent /\ profile[p] = [supported |-> profile[p].supported, required |-> profile[p].required]
  <2>1. \A p \in [supported : SUBSET F, required : SUBSET F] : p = [supported |-> p.supported, required |-> p.required]
    BY SMTT(30)
  <2> QED
    BY <2>1 DEF HandshakeInit
<1>2. relay.scannerPub = Absent /\ relay.credentials = Absent
      /\ relay = [scannerPub |-> relay.scannerPub, credentials |-> relay.credentials]
  BY SMTT(30) DEF HandshakeInit
<1>3. ASSUME NEW c \in CompleteCalls PROVE call[c] \in CallRun(Aads) /\ call[c].pc = "off" /\ call[c].got = Absent
  BY SMTT(30) DEF HandshakeInit, CallRun, CallPcs
<1>4. ASSUME NEW s \in Scanners PROVE scan[s] \in ScanRun /\ scan[s].pc = "off" /\ scan[s].got = Absent
  BY SMTT(30) DEF HandshakeInit, Run, ScanRun, CallPcs
<1>5. PairingTyped
  BY <1>1, <1>2, <1>3, <1>4 DEF HandshakeInit, PairingTyped
<1>6. \A c \in CompleteCalls : CallFits(c)
  BY <1>3 DEF CallFits, Matched
<1>7. \A s \in Scanners : ScanFits(s)
  BY <1>4 DEF ScanFits, Joined
<1> QED
  BY <1>2, <1>5, <1>6, <1>7 DEF PairingIInv, FilesFit

(* What no step of the pairing takes back. *)
Onward ==
    /\ intent' = intent /\ profile' = profile
    /\ \A s \in Scanners : Began(s) => Began(s)'
    /\ \A c \in CompleteCalls : call[c].pc = "done" =>
         call'[c].pc = "done" /\ call'[c].peer = call[c].peer /\ call'[c].aad = call[c].aad

LEMMA PairingStepKept ==
  ASSUME PairingIInv, Onward, call' \in [CompleteCalls -> CallRun(Aads)], scan' \in [Scanners -> ScanRun],
         relay' = [scannerPub |-> relay'.scannerPub, credentials |-> relay'.credentials],
         \A c \in CompleteCalls : call'[c] = call[c] \/ CallFits(c)',
         \A s \in Scanners : scan'[s] = scan[s] \/ ScanFits(s)',
         relay'.scannerPub \in {relay.scannerPub, Absent} \/ \E s \in Scanners : HelloOf(s)',
         \/ relay'.credentials \in {relay.credentials, Absent}
         \/ (\E c \in CompleteCalls : SealedByCall(c)') \/ (\E s \in Scanners : SealedByScanner(s)')
  PROVE  PairingIInv'
<1>1. Aads' = Aads /\ \A s \in Scanners : ScannerAad(s)' = ScannerAad(s) /\ Agrees(s)' = Agrees(s)
  BY DEF Aads, ScannerAad, Agrees, Onward
<1>2. Contended => Contended'
  BY DEF Contended, Onward
<1>3. PairingTyped'
  BY <1>1 DEF PairingIInv, PairingTyped, Onward
<1>4. ASSUME NEW c \in CompleteCalls PROVE CallFits(c)'
  <2>1. CASE call'[c] = call[c]
    <3>1. CallFits(c)
      BY DEF PairingIInv
    <3>2. call[c].pc \in Matched =>
            call'[c].peer \in Scanners /\ Began(call[c].peer)' /\ Agrees(call[c].peer)' /\ call'[c].aad = ScannerAad(call[c].peer)'
      BY <1>1, <2>1, <3>1 DEF CallFits, Onward
    <3> QED
      BY <1>2, <2>1, <3>1, <3>2 DEF CallFits, Onward
  <2> QED
    BY <2>1
<1>5. ASSUME NEW s \in Scanners PROVE ScanFits(s)'
  <2>1. CASE scan'[s] = scan[s]
    <3>1. ScanFits(s)
      BY DEF PairingIInv
    <3>2. (\E c \in CompleteCalls : call[c].pc = "done" /\ call[c].peer = s) =>
            \E c \in CompleteCalls : call'[c].pc = "done" /\ call'[c].peer = s
      BY DEF Onward
    <3> QED
      BY <1>1, <1>2, <2>1, <3>1, <3>2 DEF ScanFits, Onward
  <2> QED
    BY <2>1
<1>6. relay'.scannerPub # Absent => \E s \in Scanners : HelloOf(s)'
  <2>1. CASE relay'.scannerPub = relay.scannerPub /\ relay'.scannerPub # Absent
    <3>1. PICK s \in Scanners : HelloOf(s)
      BY <2>1 DEF PairingIInv, FilesFit
    <3>2. HelloOf(s)'
      BY <1>1, <2>1, <3>1 DEF HelloOf, Onward
    <3> QED
      BY <3>2
  <2> QED
    BY <2>1
<1>7. relay'.credentials # Absent =>
        (\E c \in CompleteCalls : SealedByCall(c)') \/ (\E s \in Scanners : SealedByScanner(s)')
  <2>1. CASE relay'.credentials = relay.credentials /\ relay'.credentials # Absent
    <3>1. CASE \E c \in CompleteCalls : SealedByCall(c)
      BY <2>1, <3>1 DEF SealedByCall, Onward
    <3>2. CASE \E s \in Scanners : SealedByScanner(s)
      BY <1>1, <2>1, <3>2 DEF SealedByScanner, Onward
    <3> QED
      BY <2>1, <3>1, <3>2 DEF PairingIInv, FilesFit
  <2> QED
    BY <2>1
<1> QED
  BY <1>3, <1>4, <1>5, <1>6, <1>7 DEF PairingIInv, FilesFit

-----------------------------------------------------------------------------
(* The records of the runs, field by field *)

(* r with the position p, and otherwise what o was. *)
CallAt(r, o, A, p) == r \in CallRun(A) /\ r.pc = p /\ r.got = o.got /\ r.peer = o.peer /\ r.aad = o.aad
ScanAt(r, p, g) == r \in ScanRun /\ r.pc = p /\ r.got = g

LEMMA CallPc ==
  ASSUME NEW A, NEW o \in CallRun(A), NEW p \in CallPcs
  PROVE  CallAt([o EXCEPT !.pc = p], o, A, p)
<1> DEFINE r == [o EXCEPT !.pc = p]
<1>1. r \in CallRun(A)
  BY SMTT(30) DEF CallRun
<1>2. r.pc = p /\ r.got = o.got /\ r.peer = o.peer /\ r.aad = o.aad
  BY SMTT(30) DEF CallRun
<1> QED
  BY <1>1, <1>2 DEF CallAt

LEMMA CallTidy ==
  ASSUME NEW A, NEW o \in CallRun(A), NEW x \in SUBSET RelayFiles
  PROVE  CallAt([o EXCEPT !.tidy = x], o, A, o.pc)
<1> DEFINE r == [o EXCEPT !.tidy = x]
<1>1. r \in CallRun(A)
  BY SMTT(30) DEF CallRun
<1>2. r.pc = o.pc /\ r.got = o.got /\ r.peer = o.peer /\ r.aad = o.aad
  BY SMTT(30) DEF CallRun
<1> QED
  BY <1>1, <1>2 DEF CallAt

LEMMA CallSet ==
  ASSUME NEW A, NEW r \in CallRun(A)
  PROVE  /\ \A x \in Scanners : [r EXCEPT !.peer = x] \in CallRun(A) /\ [r EXCEPT !.got = x] \in CallRun(A)
         /\ \A x \in A \cup {Absent} : [r EXCEPT !.aad = x] \in CallRun(A)
  BY SMTT(30) DEF CallRun

LEMMA ScanPc == ASSUME NEW o \in ScanRun, NEW p \in CallPcs PROVE ScanAt([o EXCEPT !.pc = p], p, o.got)
  BY SMTT(30) DEF ScanRun, ScanAt

LEMMA ScanTidy == ASSUME NEW o \in ScanRun, NEW x \in SUBSET RelayFiles PROVE ScanAt([o EXCEPT !.tidy = x], o.pc, o.got)
  BY SMTT(30) DEF ScanRun, ScanAt

LEMMA ScanGot == ASSUME NEW o \in ScanRun, NEW x \in {Generator, Absent} PROVE ScanAt([o EXCEPT !.got = x], o.pc, x)
  BY SMTT(30) DEF ScanRun, ScanAt

-----------------------------------------------------------------------------
(* The steps of the pairing *)

(* A step of one complete() that leaves the relay alone. *)
LEMMA CallOnly ==
  ASSUME PairingIInv, NEW c \in CompleteCalls, NEW r \in CallRun(Aads), call' = [call EXCEPT ![c] = r],
         UNCHANGED <<intent, profile, relay, scan>>,
         call[c].pc = "done" => r.pc = "done" /\ r.peer = call[c].peer /\ r.aad = call[c].aad,
         CallFits(c)'
  PROVE  PairingIInv'
<1>1. call \in [CompleteCalls -> CallRun(Aads)]
  BY DEF PairingIInv, PairingTyped
<1>2. call' \in [CompleteCalls -> CallRun(Aads)] /\ \A d \in CompleteCalls : call'[d] = IF d = c THEN r ELSE call[d]
  BY <1>1
<1>3. Onward
  BY <1>2 DEF Onward, Began
<1>4. scan' \in [Scanners -> ScanRun] /\ relay' = [scannerPub |-> relay'.scannerPub, credentials |-> relay'.credentials]
  BY DEF PairingIInv, PairingTyped
<1> QED
  BY <1>2, <1>3, <1>4, PairingStepKept

(* A step of one scanner that leaves the relay alone. *)
LEMMA ScanOnly ==
  ASSUME PairingIInv, NEW s \in Scanners, NEW r \in ScanRun, scan' = [scan EXCEPT ![s] = r],
         UNCHANGED <<intent, profile, relay, call>>, r.pc # "off", ScanFits(s)'
  PROVE  PairingIInv'
<1>1. scan \in [Scanners -> ScanRun]
  BY DEF PairingIInv, PairingTyped
<1>2. scan' \in [Scanners -> ScanRun] /\ \A d \in Scanners : scan'[d] = IF d = s THEN r ELSE scan[d]
  BY <1>1
<1>3. Onward
  BY <1>2 DEF Onward, Began
<1>4. call' \in [CompleteCalls -> CallRun(Aads)] /\ relay' = [scannerPub |-> relay'.scannerPub, credentials |-> relay'.credentials]
  BY DEF PairingIInv, PairingTyped
<1> QED
  BY <1>2, <1>3, <1>4, PairingStepKept

(* Complete: the invitation is out, or was refused. *)
LEMMA CompleteKept == ASSUME PairingIInv, NEW c \in CompleteCalls, Complete(c) PROVE PairingIInv'
<1>1. PICK p \in {"hello", "failed"} : call' = [call EXCEPT ![c] = [call[c] EXCEPT !.pc = p]]
  BY DEF Complete
<1>2. call[c] \in CallRun(Aads) /\ p \in CallPcs /\ p \notin Matched /\ call[c].pc = "off"
  BY DEF PairingIInv, PairingTyped, CallPcs, Matched, Complete
<1>3. PICK r : r = [call[c] EXCEPT !.pc = p]
  OBVIOUS
<1>4. r \in CallRun(Aads) /\ r.pc = p /\ r.got = call[c].got
  <2>1. CallAt([call[c] EXCEPT !.pc = p], call[c], Aads, p)
    BY <1>2, CallPc
  <2> QED
    BY <1>3, <2>1 DEF CallAt
<1>5. call[c].got = Absent
  BY <1>2 DEF PairingIInv, CallFits
<1>6. call'[c] = r
  BY <1>1, <1>3 DEF PairingIInv, PairingTyped
<1>7. CallFits(c)'
  BY <1>2, <1>4, <1>5, <1>6 DEF CallFits
<1> QED
  BY <1>1, <1>2, <1>3, <1>4, <1>7, CallOnly DEF Complete

(* ReadHello: the call is for the scanner that wrote this hello, and bound to both profiles. *)
LEMMA ReadHelloKept == ASSUME PairingIInv, NEW c \in CompleteCalls, ReadHello(c) PROVE PairingIInv'
<1> DEFINE hello == relay.scannerPub
           q == normalizePairingCapabilities(hello.capabilities)
<1>1. PICK s \in Scanners : HelloOf(s)
  BY DEF ReadHello, PairingIInv, FilesFit
<1>2. hello.pub = s /\ hello.capabilities = pairingCapabilitiesForWire(profile[s])
  BY SMTT(30), <1>1 DEF HelloOf
<1>3. q = profile[s]
  BY <1>2, WireRoundTrip DEF PairingIInv, PairingTyped, Participants
<1>4. capabilityTranscript(hello.pub, profile[Generator], q) = ScannerAad(s) /\ ScannerAad(s) \in Aads
  BY <1>2, <1>3 DEF ScannerAad, Aads
<1>5. call[c] \in CallRun(Aads) /\ call[c].pc = "hello" /\ CallFits(c)
  BY DEF PairingIInv, PairingTyped, ReadHello
<1>6. call[c].got = Absent
  BY <1>5 DEF CallFits
<1>7. UNCHANGED <<intent, profile, relay, scan>>
  BY DEF ReadHello
<1>8. intent \in {"share", "join"}
  BY DEF PairingIInv, PairingTyped
<1>9. CASE assertPairingCapabilitiesCompatible(profile[Generator], q)
  <2>1. PICK p : p = IF intent = "share" THEN "send" ELSE "receive"
    OBVIOUS
  <2>2. PICK r : r = [call[c] EXCEPT !.pc = p, !.peer = s, !.aad = ScannerAad(s)]
    OBVIOUS
  <2>3. call' = [call EXCEPT ![c] = r]
    BY <1>2, <1>4, <1>9, <2>1, <2>2 DEF ReadHello
  <2>4. p \in CallPcs /\ p # "done" /\ p # "undecryptable"
    BY <2>1 DEF CallPcs
  <2>5. r \in CallRun(Aads)
    <3>1. [call[c] EXCEPT !.pc = p] \in CallRun(Aads)
      BY <1>5, <2>4, CallPc DEF CallAt
    <3> QED
      BY <1>4, <2>2, <3>1, CallSet
  <2>6. r.pc = p /\ r.got = call[c].got /\ r.peer = s /\ r.aad = ScannerAad(s)
    BY SMTT(30), <1>5, <2>2 DEF CallRun
  <2>7. call'[c] = r
    BY <2>3 DEF PairingIInv, PairingTyped
  <2>8. Began(s)' /\ Agrees(s)' /\ ScannerAad(s)' = ScannerAad(s)
    BY <1>1, <1>7 DEF HelloOf, Began, Agrees, ScannerAad
  <2>9. CallFits(c)'
    <3>1. call'[c].pc \in {"send", "receive"} /\ (call'[c].pc = "send" <=> intent' = "share") /\ call'[c].got = Absent
      BY <1>6, <1>7, <2>1, <2>6, <2>7
    <3>2. /\ call'[c].pc \in Matched =>
               call'[c].peer \in Scanners /\ Began(call[c].peer)' /\ Agrees(call[c].peer)' /\ call'[c].aad = ScannerAad(call[c].peer)'
      BY <2>6, <2>7, <2>8
    <3> QED
      BY <1>7, <1>8, <3>1, <3>2 DEF CallFits
  <2> QED
    BY <1>5, <1>7, <2>3, <2>5, <2>9, CallOnly
<1>10. CASE ~assertPairingCapabilitiesCompatible(profile[Generator], q)
  <2>1. PICK r : r = [call[c] EXCEPT !.pc = "failed"]
    OBVIOUS
  <2>2. call' = [call EXCEPT ![c] = r]
    BY <1>10, <2>1 DEF ReadHello
  <2>3. r \in CallRun(Aads) /\ r.pc = "failed" /\ r.got = call[c].got
    <3>1. "failed" \in CallPcs
      BY DEF CallPcs
    <3>2. CallAt([call[c] EXCEPT !.pc = "failed"], call[c], Aads, "failed")
      BY <1>5, <3>1, CallPc
    <3> QED
      BY <2>1, <3>2 DEF CallAt
  <2>4. call'[c] = r
    BY <2>2 DEF PairingIInv, PairingTyped
  <2>5. CallFits(c)'
    BY <1>6, <2>3, <2>4 DEF CallFits, Matched
  <2> QED
    BY <1>5, <1>7, <2>2, <2>3, <2>5, CallOnly
<1> QED
  BY <1>9, <1>10

(* Send: the credentials are sealed for the scanner whose hello was read. *)
LEMMA SendKept == ASSUME PairingIInv, NEW c \in CompleteCalls, Send(c) PROVE PairingIInv'
<1>1. call[c] \in CallRun(Aads) /\ call[c].pc = "send" /\ CallFits(c) /\ "done" \in CallPcs
  BY DEF PairingIInv, PairingTyped, Send, CallPcs
<1>2. PICK r : r = [call[c] EXCEPT !.pc = "done"]
  OBVIOUS
<1>3. CallAt(r, call[c], Aads, "done")
  BY <1>1, <1>2, CallPc
<1>4. call' \in [CompleteCalls -> CallRun(Aads)] /\ \A d \in CompleteCalls : call'[d] = IF d = c THEN r ELSE call[d]
  <2>1. call' = [call EXCEPT ![c] = r] /\ call \in [CompleteCalls -> CallRun(Aads)]
    BY <1>2 DEF Send, PairingIInv, PairingTyped
  <2> QED
    BY <1>3, <2>1 DEF CallAt
<1>5. /\ relay' = [scannerPub |-> relay'.scannerPub, credentials |-> relay'.credentials]
      /\ relay'.scannerPub = relay.scannerPub
      /\ relay'.credentials = [key |-> call[c].peer, creds |-> Generator, aad |-> call[c].aad]
  <2>1. PICK e : e = [key |-> call[c].peer, creds |-> Generator, aad |-> call[c].aad]
    OBVIOUS
  <2>2. relay' = [relay EXCEPT !.credentials = e] /\ relay = [scannerPub |-> relay.scannerPub, credentials |-> relay.credentials]
    BY <2>1 DEF Send, encryptCredentials, credentialsOf, PairingIInv, PairingTyped
  <2>3. relay'.scannerPub = relay.scannerPub /\ relay'.credentials = e
    BY ONLY SMTT(30), <2>2
  <2>4. relay' = [scannerPub |-> relay'.scannerPub, credentials |-> relay'.credentials]
    BY ONLY SMTT(30), <2>2
  <2> QED
    BY <2>1, <2>3, <2>4
<1>6. UNCHANGED <<intent, profile, scan>>
  BY DEF Send
<1>7. Onward
  BY <1>1, <1>4, <1>6 DEF Onward, Began
<1>8. SealedByCall(c)'
  BY <1>1, <1>3, <1>4, <1>5, <1>6 DEF SealedByCall, CallAt, CallFits
<1>9. CallFits(c)'
  <2>1. call'[c].pc = "done" /\ call'[c].peer = call[c].peer /\ call'[c].aad = call[c].aad /\ call'[c].got = Absent
    BY <1>1, <1>3, <1>4 DEF CallAt, CallFits
  <2>2. call[c].peer \in Scanners /\ Began(call[c].peer) /\ Agrees(call[c].peer) /\ call[c].aad = ScannerAad(call[c].peer)
    BY <1>1 DEF CallFits, Matched
  <2>3. call'[c].peer \in Scanners /\ Began(call[c].peer)' /\ Agrees(call[c].peer)' /\ call'[c].aad = ScannerAad(call[c].peer)'
    BY <1>6, <2>1, <2>2 DEF Began, Agrees, ScannerAad
  <2> QED
    BY <2>1, <2>3 DEF CallFits
<1>10. scan' \in [Scanners -> ScanRun]
  BY <1>6 DEF PairingIInv, PairingTyped
<1> QED
  BY <1>4, <1>5, <1>6, <1>7, <1>8, <1>9, <1>10, PairingStepKept

(* Receive: an envelope that opens is the counterpart's; one that does not is another scanner's. *)
LEMMA ReceiveKept == ASSUME PairingIInv, NEW c \in CompleteCalls, Receive(c) PROVE PairingIInv'
<1> DEFINE o == call[c]
<1>1. o \in CallRun(Aads) /\ o.pc = "receive" /\ CallFits(c) /\ {"done", "undecryptable"} \subseteq CallPcs
  BY DEF PairingIInv, PairingTyped, Receive, CallPcs
<1>2. o.peer \in Scanners /\ Began(o.peer) /\ Agrees(o.peer) /\ o.aad = ScannerAad(o.peer) /\ intent = "join" /\ o.got = Absent
  BY <1>1 DEF CallFits, Matched
<1>3. PICK s \in Scanners : SealedByScanner(s)
  <2>1. intent # "share"
    BY <1>2
  <2> QED
    BY <2>1 DEF Receive, PairingIInv, FilesFit, SealedByCall
<1>4. PICK e : e = relay.credentials
  OBVIOUS
<1>5. e.key = s /\ e.creds = s /\ e.aad = ScannerAad(s)
  <2>1. e = [key |-> s, creds |-> s, aad |-> ScannerAad(s)]
    BY <1>3, <1>4 DEF SealedByScanner
  <2> QED
    BY ONLY SMTT(30), <2>1
<1>6. UNCHANGED <<intent, profile, relay, scan>>
  BY DEF Receive
<1>7. CASE s = o.peer
  <2>1. decryptCredentials(o.peer, e, o.aad)
    BY <1>2, <1>5, <1>7 DEF decryptCredentials
  <2>2. PICK r : r = [o EXCEPT !.pc = "done", !.got = e.creds, !.tidy = {"scannerPub", "credentials"}]
    OBVIOUS
  <2>3. call' = [call EXCEPT ![c] = r]
    BY <1>4, <2>1, <2>2 DEF Receive
  <2>4. r \in CallRun(Aads)
    <3>1. [o EXCEPT !.pc = "done"] \in CallRun(Aads)
      BY <1>1, CallPc DEF CallAt
    <3>2. [o EXCEPT !.pc = "done", !.got = e.creds] \in CallRun(Aads)
      BY <1>5, <3>1, CallSet
    <3>3. {"scannerPub", "credentials"} \in SUBSET RelayFiles
      BY DEF RelayFiles
    <3> QED
      BY <2>2, <3>2, <3>3, CallTidy DEF CallAt
  <2>5. r.pc = "done" /\ r.got = e.creds /\ r.peer = o.peer /\ r.aad = o.aad
    BY SMTT(30), <1>1, <2>2 DEF CallRun
  <2>6. call'[c] = r
    BY <2>3 DEF PairingIInv, PairingTyped
  <2>7. call'[c].peer \in Scanners /\ Began(call[c].peer)' /\ Agrees(call[c].peer)' /\ call'[c].aad = ScannerAad(call[c].peer)'
    BY <1>2, <1>6, <2>5, <2>6 DEF Began, Agrees, ScannerAad
  <2>8. CallFits(c)'
    BY <1>5, <1>7, <2>5, <2>6, <2>7 DEF CallFits
  <2> QED
    BY <1>1, <1>6, <2>3, <2>4, <2>8, CallOnly
<1>8. CASE s # o.peer
  <2>1. ~decryptCredentials(o.peer, e, o.aad)
    BY <1>5, <1>8 DEF decryptCredentials
  <2>2. PICK r : r = [o EXCEPT !.pc = "undecryptable"]
    OBVIOUS
  <2>3. call' = [call EXCEPT ![c] = r]
    BY <1>4, <2>1, <2>2 DEF Receive
  <2>4. CallAt(r, o, Aads, "undecryptable")
    BY <1>1, <2>2, CallPc
  <2>5. call'[c] = r
    BY <2>3 DEF PairingIInv, PairingTyped
  <2>6. Contended'
    BY <1>2, <1>3, <1>6, <1>8 DEF Contended, Began, SealedByScanner
  <2>7. call'[c].peer \in Scanners /\ Began(call[c].peer)' /\ Agrees(call[c].peer)' /\ call'[c].aad = ScannerAad(call[c].peer)'
    BY <1>2, <1>6, <2>4, <2>5 DEF Began, Agrees, ScannerAad, CallAt
  <2>8. CallFits(c)'
    BY <1>2, <1>6, <2>4, <2>5, <2>6, <2>7 DEF CallFits, CallAt
  <2> QED
    BY <1>1, <1>6, <2>3, <2>4, <2>8, CallOnly DEF CallAt
<1> QED
  BY <1>7, <1>8

(* Scan: the profiles are compared before anything is published. *)
LEMMA ScanKept == ASSUME PairingIInv, NEW s \in Scanners, Scan(s) PROVE PairingIInv'
<1>1. scan[s] \in ScanRun /\ scan[s].pc = "off" /\ ScanFits(s)
  BY DEF PairingIInv, PairingTyped, Scan
<1>2. PICK p \in {"hello", "failed"} :
        /\ scan' = [scan EXCEPT ![s] = [scan[s] EXCEPT !.pc = p]]
        /\ p = "hello" => assertPairingCapabilitiesCompatible(profile[s], profile[Generator])
  BY DEF Scan
<1>3. p \in CallPcs
  BY DEF CallPcs
<1>4. PICK r : r = [scan[s] EXCEPT !.pc = p]
  OBVIOUS
<1>5. ScanAt(r, p, scan[s].got)
  BY <1>1, <1>3, <1>4, ScanPc
<1>6. scan'[s] = r
  BY <1>2, <1>4 DEF PairingIInv, PairingTyped
<1>7. p = "hello" => Agrees(s)
  BY <1>2 DEF assertPairingCapabilitiesCompatible, Agrees, Features
<1>8. UNCHANGED <<intent, profile, relay, call>>
  BY DEF Scan
<1>9. ScanFits(s)'
  BY <1>1, <1>5, <1>6, <1>7, <1>8 DEF ScanFits, ScanAt, Joined, Agrees
<1> QED
  BY <1>2, <1>4, <1>5, <1>8, <1>9, ScanOnly DEF ScanAt

(* WriteHello: the hello at the relay is this scanner's, with its own capabilities. *)
LEMMA WriteHelloKept == ASSUME PairingIInv, NEW s \in Scanners, WriteHello(s) PROVE PairingIInv'
<1>1. scan[s] \in ScanRun /\ scan[s].pc = "hello" /\ ScanFits(s) /\ intent \in {"share", "join"}
  BY DEF PairingIInv, PairingTyped, WriteHello
<1>2. PICK p : p = IF intent = "share" THEN "receive" ELSE "send"
  OBVIOUS
<1>3. p \in CallPcs /\ p # "off" /\ p # "undecryptable" /\ (p = "receive" => intent = "share") /\ (p = "send" => intent = "join")
  BY <1>1, <1>2 DEF CallPcs
<1>4. PICK r : r = [scan[s] EXCEPT !.pc = p]
  OBVIOUS
<1>5. ScanAt(r, p, scan[s].got)
  BY <1>1, <1>3, <1>4, ScanPc
<1>6. scan' \in [Scanners -> ScanRun] /\ \A d \in Scanners : scan'[d] = IF d = s THEN r ELSE scan[d]
  <2>1. scan' = [scan EXCEPT ![s] = r] /\ scan \in [Scanners -> ScanRun]
    BY <1>2, <1>4 DEF WriteHello, PairingIInv, PairingTyped
  <2> QED
    BY <1>5, <2>1 DEF ScanAt
<1>7. UNCHANGED <<intent, profile, call>>
  BY DEF WriteHello
<1>8. /\ relay' = [scannerPub |-> relay'.scannerPub, credentials |-> relay'.credentials]
      /\ relay'.credentials = relay.credentials
      /\ relay'.scannerPub = [pub |-> s, capabilities |-> pairingCapabilitiesForWire(profile[s])]
  <2>1. PICK h : h = [pub |-> s, capabilities |-> pairingCapabilitiesForWire(profile[s])]
    OBVIOUS
  <2>2. relay' = [relay EXCEPT !.scannerPub = h] /\ relay = [scannerPub |-> relay.scannerPub, credentials |-> relay.credentials]
    BY <2>1 DEF WriteHello, PairingIInv, PairingTyped
  <2>3. relay'.credentials = relay.credentials /\ relay'.scannerPub = h
    BY ONLY SMTT(30), <2>2
  <2>4. relay' = [scannerPub |-> relay'.scannerPub, credentials |-> relay'.credentials]
    BY ONLY SMTT(30), <2>2
  <2> QED
    BY <2>1, <2>3, <2>4
<1>9. Onward
  BY <1>3, <1>5, <1>6, <1>7 DEF Onward, Began, ScanAt
<1>10. Agrees(s)
  BY <1>1 DEF ScanFits, Joined
<1>11. HelloOf(s)'
  BY <1>3, <1>5, <1>6, <1>7, <1>8, <1>10 DEF HelloOf, Began, Agrees, ScanAt
<1>12. ScanFits(s)'
  BY <1>1, <1>3, <1>5, <1>6, <1>7, <1>10 DEF ScanFits, ScanAt, Agrees
<1>13. call' \in [CompleteCalls -> CallRun(Aads)]
  BY <1>7 DEF PairingIInv, PairingTyped
<1> QED
  BY <1>6, <1>7, <1>8, <1>9, <1>11, <1>12, <1>13, PairingStepKept

(* ScannerSends: the credentials are sealed for the generator, under the scanner's own key. *)
LEMMA ScannerSendsKept == ASSUME PairingIInv, NEW s \in Scanners, ScannerSends(s) PROVE PairingIInv'
<1>1. scan[s] \in ScanRun /\ scan[s].pc = "send" /\ ScanFits(s) /\ "done" \in CallPcs
  BY DEF PairingIInv, PairingTyped, ScannerSends, CallPcs
<1>2. PICK r : r = [scan[s] EXCEPT !.pc = "done"]
  OBVIOUS
<1>3. ScanAt(r, "done", scan[s].got)
  BY <1>1, <1>2, ScanPc
<1>4. scan' \in [Scanners -> ScanRun] /\ \A d \in Scanners : scan'[d] = IF d = s THEN r ELSE scan[d]
  <2>1. scan' = [scan EXCEPT ![s] = r] /\ scan \in [Scanners -> ScanRun]
    BY <1>2 DEF ScannerSends, PairingIInv, PairingTyped
  <2> QED
    BY <1>3, <2>1 DEF ScanAt
<1>5. UNCHANGED <<intent, profile, call>>
  BY DEF ScannerSends
<1>6. /\ relay' = [scannerPub |-> relay'.scannerPub, credentials |-> relay'.credentials]
      /\ relay'.scannerPub = relay.scannerPub
      /\ relay'.credentials = [key |-> s, creds |-> s, aad |-> ScannerAad(s)]
  <2>1. PICK e : e = [key |-> s, creds |-> s, aad |-> ScannerAad(s)]
    OBVIOUS
  <2>2. relay' = [relay EXCEPT !.credentials = e] /\ relay = [scannerPub |-> relay.scannerPub, credentials |-> relay.credentials]
    BY <2>1 DEF ScannerSends, encryptCredentials, credentialsOf, PairingIInv, PairingTyped
  <2>3. relay'.scannerPub = relay.scannerPub /\ relay'.credentials = e
    BY ONLY SMTT(30), <2>2
  <2>4. relay' = [scannerPub |-> relay'.scannerPub, credentials |-> relay'.credentials]
    BY ONLY SMTT(30), <2>2
  <2> QED
    BY <2>1, <2>3, <2>4
<1>7. Onward
  BY <1>3, <1>4, <1>5 DEF Onward, Began, ScanAt
<1>8. SealedByScanner(s)'
  BY <1>1, <1>3, <1>4, <1>5, <1>6 DEF SealedByScanner, Began, ScannerAad, ScanAt, ScanFits
<1>9. ScanFits(s)'
  BY <1>1, <1>3, <1>4, <1>5 DEF ScanFits, ScanAt, Agrees, Joined
<1>10. call' \in [CompleteCalls -> CallRun(Aads)]
  BY <1>5 DEF PairingIInv, PairingTyped
<1> QED
  BY <1>4, <1>5, <1>6, <1>7, <1>8, <1>9, <1>10, PairingStepKept

(* ScannerReceives: an envelope that opens was sealed by a complete() that read this scanner's hello. *)
LEMMA ScannerReceivesKept == ASSUME PairingIInv, NEW s \in Scanners, ScannerReceives(s) PROVE PairingIInv'
<1> DEFINE o == scan[s]
<1>1. o \in ScanRun /\ o.pc = "receive" /\ ScanFits(s) /\ {"done", "undecryptable"} \subseteq CallPcs
  BY DEF PairingIInv, PairingTyped, ScannerReceives, CallPcs
<1>2. Agrees(s) /\ intent = "share" /\ Began(s) /\ intent # "join"
  BY <1>1 DEF ScanFits, Joined, Began
<1>3. PICK c \in CompleteCalls : SealedByCall(c)
  BY <1>2 DEF ScannerReceives, PairingIInv, FilesFit, SealedByScanner
<1>4. PICK e : e = relay.credentials
  OBVIOUS
<1>5. e.key = call[c].peer /\ e.creds = Generator /\ e.aad = call[c].aad
  <2>1. PICK p, a : p = call[c].peer /\ a = call[c].aad
    OBVIOUS
  <2>2. e = [key |-> p, creds |-> Generator, aad |-> a]
    BY <1>3, <1>4, <2>1 DEF SealedByCall
  <2>3. e.key = p /\ e.creds = Generator /\ e.aad = a
    BY ONLY SMTT(30), <2>2
  <2> QED
    BY <2>1, <2>3
<1>6. call[c].pc = "done" /\ call[c].peer \in Scanners /\ Began(call[c].peer) /\ call[c].aad = ScannerAad(call[c].peer)
  BY <1>3 DEF PairingIInv, CallFits, Matched, SealedByCall
<1>7. UNCHANGED <<intent, profile, relay, call>>
  BY DEF ScannerReceives
<1>8. CASE call[c].peer = s
  <2>1. decryptCredentials(s, e, ScannerAad(s))
    BY <1>5, <1>6, <1>8 DEF decryptCredentials
  <2>2. PICK r : r = [o EXCEPT !.pc = "done", !.got = Generator, !.tidy = {"scannerPub", "credentials"}]
    OBVIOUS
  <2>3. scan' = [scan EXCEPT ![s] = r]
    BY <1>4, <1>5, <2>1, <2>2 DEF ScannerReceives
  <2>4. ScanAt(r, "done", Generator)
    <3>1. PICK a : a = [o EXCEPT !.pc = "done"]
      OBVIOUS
    <3>2. ScanAt(a, "done", o.got)
      BY <1>1, <3>1, ScanPc
    <3>3. PICK b : b = [a EXCEPT !.got = Generator]
      OBVIOUS
    <3>4. ScanAt(b, "done", Generator)
      BY <3>2, <3>3, ScanGot DEF ScanAt
    <3>5. {"scannerPub", "credentials"} \in SUBSET RelayFiles
      BY DEF RelayFiles
    <3>6. ScanAt([b EXCEPT !.tidy = {"scannerPub", "credentials"}], "done", Generator)
      BY <3>4, <3>5, ScanTidy DEF ScanAt
    <3> QED
      BY <2>2, <3>1, <3>3, <3>6
  <2>5. scan'[s] = r
    BY <2>3 DEF PairingIInv, PairingTyped
  <2>6. ScanFits(s)'
    BY <1>2, <1>6, <1>7, <1>8, <2>4, <2>5 DEF ScanFits, ScanAt, Agrees
  <2> QED
    BY <1>7, <2>3, <2>4, <2>6, ScanOnly DEF ScanAt
<1>9. CASE call[c].peer # s
  <2>1. ~decryptCredentials(s, e, ScannerAad(s))
    BY <1>5, <1>9 DEF decryptCredentials
  <2>2. PICK r : r = [o EXCEPT !.pc = "undecryptable"]
    OBVIOUS
  <2>3. scan' = [scan EXCEPT ![s] = r]
    BY <1>4, <2>1, <2>2 DEF ScannerReceives
  <2>4. ScanAt(r, "undecryptable", o.got)
    BY <1>1, <2>2, ScanPc
  <2>5. \A d \in Scanners : scan'[d] = IF d = s THEN r ELSE scan[d]
    BY <2>3 DEF PairingIInv, PairingTyped
  <2>6. Contended'
    BY <1>6, <1>9, <2>4, <2>5 DEF Contended, Began, ScanAt
  <2>7. ScanFits(s)'
    BY <1>1, <1>2, <1>7, <2>4, <2>5, <2>6 DEF ScanFits, ScanAt, Agrees
  <2> QED
    BY <1>7, <2>3, <2>4, <2>7, ScanOnly DEF ScanAt
<1> QED
  BY <1>8, <1>9

(* The relay after a clean-up: each file is as it was or gone. *)
LEMMA RelayTidied ==
  ASSUME PairingIInv, NEW f \in RelayFiles, relay' = [relay EXCEPT ![f] = Absent] \/ relay' = relay
  PROVE  /\ relay' = [scannerPub |-> relay'.scannerPub, credentials |-> relay'.credentials]
         /\ relay'.scannerPub \in {relay.scannerPub, Absent}
         /\ relay'.credentials \in {relay.credentials, Absent}
<1>1. relay = [scannerPub |-> relay.scannerPub, credentials |-> relay.credentials]
  BY DEF PairingIInv, PairingTyped
<1>2. CASE relay' = relay
  BY <1>1, <1>2
<1>3. CASE relay' = [relay EXCEPT !.scannerPub = Absent]
  <2>1. relay'.scannerPub = Absent /\ relay'.credentials = relay.credentials
    BY ONLY SMTT(30), <1>1, <1>3
  <2>2. relay' = [scannerPub |-> relay'.scannerPub, credentials |-> relay'.credentials]
    BY ONLY SMTT(30), <1>1, <1>3
  <2> QED
    BY <2>1, <2>2
<1>4. CASE relay' = [relay EXCEPT !.credentials = Absent]
  <2>1. relay'.credentials = Absent /\ relay'.scannerPub = relay.scannerPub
    BY ONLY SMTT(30), <1>1, <1>4
  <2>2. relay' = [scannerPub |-> relay'.scannerPub, credentials |-> relay'.credentials]
    BY ONLY SMTT(30), <1>1, <1>4
  <2> QED
    BY <2>1, <2>2
<1> QED
  BY <1>2, <1>3, <1>4 DEF RelayFiles

(* relayCleanup: takes files away and leaves every answer as it was. *)
LEMMA relayCleanupKept == ASSUME PairingIInv, NEW f \in RelayFiles, relayCleanup(f) PROVE PairingIInv'
<1>1. UNCHANGED <<intent, profile>> /\ (relay' = [relay EXCEPT ![f] = Absent] \/ relay' = relay)
  BY DEF relayCleanup
<1>2. /\ relay' = [scannerPub |-> relay'.scannerPub, credentials |-> relay'.credentials]
      /\ relay'.scannerPub \in {relay.scannerPub, Absent}
      /\ relay'.credentials \in {relay.credentials, Absent}
  BY <1>1, RelayTidied
<1>3. call \in [CompleteCalls -> CallRun(Aads)] /\ scan \in [Scanners -> ScanRun]
  BY DEF PairingIInv, PairingTyped
<1>4. CASE \E s \in Scanners : f \in scan[s].tidy /\ scan' = [scan EXCEPT ![s].tidy = @ \ {f}] /\ UNCHANGED call
  <2>1. PICK s \in Scanners : scan' = [scan EXCEPT ![s] = [scan[s] EXCEPT !.tidy = scan[s].tidy \ {f}]] /\ UNCHANGED call
    BY <1>4
  <2>2. PICK r : r = [scan[s] EXCEPT !.tidy = scan[s].tidy \ {f}]
    OBVIOUS
  <2>3. scan[s] \in ScanRun /\ scan[s].tidy \in SUBSET RelayFiles
    <3>1. scan[s] \in ScanRun
      BY <1>3
    <3> QED
      BY SMTT(30), <3>1 DEF ScanRun
  <2>4. ScanAt(r, scan[s].pc, scan[s].got)
    BY <2>2, <2>3, ScanTidy
  <2>5. scan' \in [Scanners -> ScanRun] /\ \A d \in Scanners : scan'[d] = IF d = s THEN r ELSE scan[d]
    BY <1>3, <2>1, <2>2, <2>4 DEF ScanAt
  <2>6. Onward
    BY <1>1, <2>1, <2>4, <2>5 DEF Onward, Began, ScanAt
  <2>7. Contended => Contended'
    BY <2>6 DEF Contended, Onward
  <2>8. ScanFits(s)
    BY DEF PairingIInv
  <2>9. ScanFits(s)'
    BY <1>1, <2>1, <2>4, <2>5, <2>7, <2>8 DEF ScanFits, ScanAt, Agrees
  <2>10. call' \in [CompleteCalls -> CallRun(Aads)] /\ \A c \in CompleteCalls : call'[c] = call[c]
    BY <1>3, <2>1
  <2>11. \A d \in Scanners : scan'[d] = scan[d] \/ ScanFits(d)'
    BY <2>5, <2>9
  <2> QED
    BY <1>2, <2>5, <2>6, <2>10, <2>11, PairingStepKept
<1>5. CASE \E c \in CompleteCalls : f \in call[c].tidy /\ call' = [call EXCEPT ![c].tidy = @ \ {f}] /\ UNCHANGED scan
  <2>1. PICK c \in CompleteCalls : call' = [call EXCEPT ![c] = [call[c] EXCEPT !.tidy = call[c].tidy \ {f}]] /\ UNCHANGED scan
    BY <1>5
  <2>2. PICK r : r = [call[c] EXCEPT !.tidy = call[c].tidy \ {f}]
    OBVIOUS
  <2>3. call[c] \in CallRun(Aads) /\ call[c].tidy \in SUBSET RelayFiles
    <3>1. call[c] \in CallRun(Aads)
      BY <1>3
    <3> QED
      BY SMTT(30), <3>1 DEF CallRun
  <2>4. CallAt(r, call[c], Aads, call[c].pc)
    BY <2>2, <2>3, CallTidy
  <2>5. call' \in [CompleteCalls -> CallRun(Aads)] /\ \A d \in CompleteCalls : call'[d] = IF d = c THEN r ELSE call[d]
    BY <1>3, <2>1, <2>2, <2>4 DEF CallAt
  <2>6. Onward
    BY <1>1, <2>1, <2>4, <2>5 DEF Onward, Began, CallAt
  <2>7. Contended => Contended'
    BY <2>6 DEF Contended, Onward
  <2>8. CallFits(c) /\ UNCHANGED <<intent, profile, scan>>
    BY <1>1, <2>1 DEF PairingIInv
  <2>9. CallFits(c)'
    BY <2>4, <2>5, <2>7, <2>8 DEF CallFits, CallAt, Agrees, Began, ScannerAad
  <2>10. scan' \in [Scanners -> ScanRun] /\ \A d \in Scanners : scan'[d] = scan[d]
    BY <1>3, <2>1
  <2>11. \A d \in CompleteCalls : call'[d] = call[d] \/ CallFits(d)'
    BY <2>5, <2>9
  <2> QED
    BY <1>2, <2>5, <2>6, <2>10, <2>11, PairingStepKept
<1> QED
  BY <1>4, <1>5 DEF relayCleanup

(* GiveUp: a run that fails has taken nothing. *)
LEMMA GiveUpKept == ASSUME PairingIInv, NEW p, GiveUp(p) PROVE PairingIInv'
<1>1. "failed" \in CallPcs /\ "failed" \notin Matched /\ "failed" \notin Joined
  BY DEF CallPcs, Matched, Joined
<1>2. UNCHANGED <<intent, profile, relay>>
  BY DEF GiveUp
<1>3. CASE p \in Scanners /\ scan' = [scan EXCEPT ![p].pc = "failed"] /\ UNCHANGED call
  <2>1. PICK r : r = [scan[p] EXCEPT !.pc = "failed"]
    OBVIOUS
  <2>2. scan[p] \in ScanRun /\ ScanFits(p) /\ scan' = [scan EXCEPT ![p] = r]
    BY <1>3, <2>1 DEF PairingIInv, PairingTyped
  <2>3. ScanAt(r, "failed", scan[p].got)
    BY <1>1, <2>1, <2>2, ScanPc
  <2>4. scan'[p] = r
    BY <1>3, <2>2 DEF PairingIInv, PairingTyped
  <2>5. ScanFits(p)'
    BY <1>1, <1>2, <1>3, <2>2, <2>3, <2>4 DEF ScanFits, ScanAt, Agrees
  <2> QED
    BY <1>2, <1>3, <2>2, <2>3, <2>5, ScanOnly DEF ScanAt
<1>4. CASE p \in CompleteCalls /\ call[p].pc \in {"hello", "receive", "send"} /\ call' = [call EXCEPT ![p].pc = "failed"] /\ UNCHANGED scan
  <2>1. PICK r : r = [call[p] EXCEPT !.pc = "failed"]
    OBVIOUS
  <2>2. call[p] \in CallRun(Aads) /\ CallFits(p) /\ call' = [call EXCEPT ![p] = r]
    BY <1>4, <2>1 DEF PairingIInv, PairingTyped
  <2>3. CallAt(r, call[p], Aads, "failed")
    BY <1>1, <2>1, <2>2, CallPc
  <2>4. call'[p] = r
    BY <1>4, <2>2 DEF PairingIInv, PairingTyped
  <2>5. call[p].got = Absent /\ call[p].pc # "done"
    BY <1>4, <2>2 DEF CallFits
  <2>6. CallFits(p)'
    BY <1>1, <2>3, <2>4, <2>5 DEF CallFits, CallAt
  <2> QED
    BY <1>2, <1>4, <2>2, <2>3, <2>5, <2>6, CallOnly DEF CallAt
<1> QED
  BY <1>3, <1>4 DEF GiveUp

LEMMA PairingNext == ASSUME PairingIInv, HandshakeNext \/ UNCHANGED handshakeVars PROVE PairingIInv'
<1>1. CASE \E c \in CompleteCalls : Complete(c) \/ CallStep(c) \/ GiveUp(c)
  BY <1>1, CompleteKept, ReadHelloKept, SendKept, ReceiveKept, GiveUpKept DEF CallStep
<1>2. CASE \E s \in Scanners : Scan(s) \/ ScanStep(s) \/ GiveUp(s)
  BY <1>2, ScanKept, WriteHelloKept, ScannerSendsKept, ScannerReceivesKept, GiveUpKept DEF ScanStep
<1>3. CASE \E f \in {"scannerPub", "credentials"} : relayCleanup(f)
  BY <1>3, relayCleanupKept DEF RelayFiles
<1>4. CASE UNCHANGED handshakeVars
  <2>1. intent' = intent /\ profile' = profile /\ relay' = relay /\ call' = call /\ scan' = scan
    BY <1>4 DEF handshakeVars
  <2>2. Onward
    BY <2>1 DEF Onward, Began
  <2>3. PairingTyped
    BY DEF PairingIInv
  <2> QED
    BY <2>1, <2>2, <2>3, PairingStepKept DEF PairingTyped
<1> QED
  BY <1>1, <1>2, <1>3, <1>4 DEF HandshakeNext

(* Two scanners that began are two members of a finite set. *)
LEMMA ContendedCounts == ASSUME Contended PROVE Cardinality(Started(Scanners, scan)) > 1
<1>1. PICK a, b \in Scanners : a # b /\ Began(a) /\ Began(b)
  BY DEF Contended
<1>2. {a, b} \subseteq Started(Scanners, scan) /\ Started(Scanners, scan) \subseteq Scanners
  BY <1>1 DEF Started, Began
<1>3. IsFiniteSet(Started(Scanners, scan))
  BY <1>2, ScannersAssumption, FS_Subset
<1>4. Cardinality({a, b}) = 2
  <2>1. IsFiniteSet({a}) /\ Cardinality({a}) = 1
    BY FS_Singleton
  <2>2. {a, b} = {a} \cup {b} /\ b \notin {a}
    BY <1>1
  <2>3. Cardinality({a} \cup {b}) = Cardinality({a}) + 1
    BY <2>1, <2>2, FS_AddElement
  <2> QED
    BY SMTT(30), <2>1, <2>2, <2>3
<1>5. Cardinality({a, b}) <= Cardinality(Started(Scanners, scan))
  BY <1>2, <1>3, FS_Subset
<1>6. Cardinality(Started(Scanners, scan)) \in Nat
  BY <1>3, FS_CardinalityType
<1> QED
  BY SMTT(30), <1>4, <1>5, <1>6

(***************************************************************************)
(* Credentials are taken only from the counterpart of the same run, and an *)
(* envelope that cannot be opened is another scanner's doing               *)
(* (channel.ts: decryptCredentials()), for any number of scanners and of   *)
(* calls of complete().                                                    *)
(***************************************************************************)
THEOREM PairsAsNegotiated ==
  ASSUME NEW F, NEW Profiles \in SUBSET [supported : SUBSET F, required : SUBSET F], Absent \notin Profiles
  PROVE  HandshakeSpec(Profiles) => []PairingInv
<1>1. HandshakeInit(Profiles) => PairingIInv
  BY PairingInit
<1>2. PairingIInv /\ [HandshakeNext]_handshakeVars => PairingIInv'
  BY PairingNext
<1>3. PairingIInv => PairingInv
  <2> SUFFICES ASSUME PairingIInv PROVE PairingInv
    OBVIOUS
  <2>1. PairedAsNegotiated
    <3>1. ASSUME NEW c \in CompleteCalls, call[c].got # Absent
          PROVE  call[c].got = call[c].peer /\ Features(profile[Generator], profile[call[c].peer])
      BY <3>1 DEF PairingIInv, CallFits, Matched, Agrees
    <3>2. ASSUME NEW s \in Received
          PROVE  (\E c \in CompleteCalls : call[c].pc = "done" /\ call[c].peer = s) /\ Features(profile[Generator], profile[s])
      BY <3>2 DEF PairingIInv, ScanFits, Received, Agrees
    <3> QED
      BY <3>1, <3>2 DEF PairedAsNegotiated
  <2>2. UndecryptableOnlyWhenContended
    BY ContendedCounts DEF PairingIInv, CallFits, ScanFits, UndecryptableOnlyWhenContended
  <2> QED
    BY <2>1, <2>2 DEF PairingInv
<1> QED
  BY <1>1, <1>2, <1>3, PTL DEF HandshakeSpec

-----------------------------------------------------------------------------
(* The hook and the grants *)

StoresSpec == StoresInit /\ [][StoresNext]_storesVars
GrantsSpec == GrantsInit /\ [][GrantsNext]_grantVars

-----------------------------------------------------------------------------
(* The hook of the connected stores *)

Settled == \A ch \in Changes : change[ch].pc # "refresh"

HookTyped ==
    /\ change = [ch \in Changes |-> change[ch]]
    /\ hook = [alive |-> hook.alive, request |-> hook.request, loading |-> hook.loading, error |-> hook.error,
               shown |-> hook.shown, reads |-> hook.reads]
    /\ hook.alive \in BOOLEAN /\ hook.request \in Nat

(* Requests are numbered in order, and every read has the number of a request that was made. *)
Numbered(h) == \A r \in h.reads : r = [n |-> r.n, pc |-> r.pc, list |-> r.list] /\ r.n \in Nat /\ r.n <= h.request

(* What the latest read brought is what is stored, unless a change has not asked for its refresh. *)
Fresh == Settled => \A r \in hook.reads : r.n = hook.request /\ r.pc = "set" => r.list = registry

HookIInv == HookTyped /\ Numbered(hook) /\ Fresh /\ HookSettles

(* The hook with these fields. *)
HookOf(h, a, q, l, e, s, r) ==
    /\ h = [alive |-> h.alive, request |-> h.request, loading |-> h.loading, error |-> h.error,
            shown |-> h.shown, reads |-> h.reads]
    /\ h.alive = a /\ h.request = q /\ h.loading = l /\ h.error = e /\ h.shown = s /\ h.reads = r

LEMMA HookSet ==
  ASSUME NEW h, NEW a, NEW q, NEW l, NEW e, NEW s, NEW r, NEW x, HookOf(h, a, q, l, e, s, r)
  PROVE  /\ HookOf([h EXCEPT !.alive = x], x, q, l, e, s, r)
         /\ HookOf([h EXCEPT !.request = x], a, x, l, e, s, r)
         /\ HookOf([h EXCEPT !.loading = x], a, q, x, e, s, r)
         /\ HookOf([h EXCEPT !.error = x], a, q, l, x, s, r)
         /\ HookOf([h EXCEPT !.shown = x], a, q, l, e, x, r)
         /\ HookOf([h EXCEPT !.reads = x], a, q, l, e, s, x)
<1>1. HookOf([h EXCEPT !.alive = x], x, q, l, e, s, r)
  BY SMTT(30) DEF HookOf
<1>2. HookOf([h EXCEPT !.request = x], a, x, l, e, s, r)
  BY SMTT(30) DEF HookOf
<1>3. HookOf([h EXCEPT !.loading = x], a, q, x, e, s, r)
  BY SMTT(30) DEF HookOf
<1>4. HookOf([h EXCEPT !.error = x], a, q, l, x, s, r)
  BY SMTT(30) DEF HookOf
<1>5. HookOf([h EXCEPT !.shown = x], a, q, l, e, x, r)
  BY SMTT(30) DEF HookOf
<1>6. HookOf([h EXCEPT !.reads = x], a, q, l, e, s, x)
  BY SMTT(30) DEF HookOf
<1> QED
  BY <1>1, <1>2, <1>3, <1>4, <1>5, <1>6

(* refresh(): the next number, a new read, and loading when mounted. *)
LEMMA HookRequested ==
  ASSUME NEW h, NEW a, NEW q, NEW l, NEW e, NEW s, NEW r, HookOf(h, a, q, l, e, s, r)
  PROVE  HookOf(Requested(h), a, q + 1, a \/ l, e, s, r \cup {[n |-> q + 1, pc |-> "list", list |-> <<>>]})
<1>1. h.alive = a /\ h.request = q /\ h.loading = l /\ h.reads = r
  BY DEF HookOf
<1>2. PICK x, y, z : x = q + 1 /\ y = (a \/ l) /\ z = r \cup {[n |-> q + 1, pc |-> "list", list |-> <<>>]}
  OBVIOUS
<1>3. Requested(h) = [h EXCEPT !.request = x, !.loading = y, !.reads = z]
  BY <1>1, <1>2 DEF Requested
<1>4. PICK h1, h2 : h1 = [h EXCEPT !.request = x] /\ h2 = [h1 EXCEPT !.loading = y]
  OBVIOUS
<1>5. HookOf(h1, a, x, l, e, s, r)
  BY <1>4, HookSet
<1>6. HookOf(h2, a, x, y, e, s, r)
  BY <1>4, <1>5, HookSet
<1>7. HookOf([h2 EXCEPT !.reads = z], a, x, y, e, s, z)
  BY <1>6, HookSet
<1> QED
  BY <1>2, <1>3, <1>4, <1>7

(* setCredentials and setLoading of an answer that is current, and of one that failed. *)
LEMMA HookAnswered ==
  ASSUME NEW h, NEW a, NEW q, NEW l, NEW e, NEW s, NEW r, HookOf(h, a, q, l, e, s, r), NEW x, NEW y
  PROVE  /\ HookOf([h EXCEPT !.reads = x, !.shown = y, !.error = FALSE, !.loading = FALSE], a, q, FALSE, FALSE, y, x)
         /\ HookOf([h EXCEPT !.reads = x, !.error = TRUE, !.loading = FALSE], a, q, FALSE, TRUE, s, x)
<1>1. PICK f, t : f = FALSE /\ t = TRUE
  OBVIOUS
<1>2. PICK h1, h2, h3, g2 : /\ h1 = [h EXCEPT !.reads = x] /\ h2 = [h1 EXCEPT !.shown = y]
                            /\ h3 = [h2 EXCEPT !.error = f] /\ g2 = [h1 EXCEPT !.error = t]
  OBVIOUS
<1>3. HookOf(h1, a, q, l, e, s, x)
  BY <1>2, HookSet
<1>4. HookOf(h2, a, q, l, e, y, x) /\ HookOf(g2, a, q, l, t, s, x)
  BY <1>2, <1>3, HookSet
<1>5. HookOf(h3, a, q, l, f, y, x)
  BY <1>2, <1>4, HookSet
<1>6. HookOf([h3 EXCEPT !.loading = f], a, q, f, f, y, x) /\ HookOf([g2 EXCEPT !.loading = f], a, q, f, t, s, x)
  BY <1>4, <1>5, HookSet
<1> QED
  BY <1>1, <1>2, <1>6

LEMMA HookInit == StoresInit => HookIInv
<1> SUFFICES ASSUME StoresInit PROVE HookIInv
  OBVIOUS
<1>1. HookOf(hook, FALSE, 0, TRUE, FALSE, <<>>, {})
  BY SMTT(30) DEF StoresInit, HookOf
<1>2. hook.alive = FALSE /\ hook.request = 0 /\ hook.reads = {}
  BY <1>1 DEF HookOf
<1>3. 0 \in Nat
  BY SMTT(30)
<1>4. change = [ch \in Changes |-> change[ch]]
  BY DEF StoresInit
<1>5. HookTyped
  BY <1>1, <1>2, <1>3, <1>4 DEF HookTyped, HookOf
<1> QED
  BY <1>2, <1>5 DEF HookIInv, Numbered, Fresh, HookSettles

(* A step of a change that leaves the hook alone: whoever writes the list has still to ask for its refresh. *)
LEMMA ChangeKept ==
  ASSUME HookIInv, NEW ch \in Changes, NEW v, change' = [change EXCEPT ![ch] = v], hook' = hook,
         change[ch].pc # "refresh", v.pc = "refresh" \/ registry' = registry
  PROVE  HookIInv'
<1>1. change' = [d \in Changes |-> change'[d]] /\ \A d \in Changes : change'[d] = IF d = ch THEN v ELSE change[d]
  <2>1. change = [d \in Changes |-> change[d]]
    BY DEF HookIInv, HookTyped
  <2> QED
    BY <2>1
<1>2. Settled' => Settled /\ registry' = registry
  BY <1>1 DEF Settled
<1>3. HookTyped' /\ Numbered(hook)'
  BY <1>1 DEF HookIInv, HookTyped, Numbered
<1>4. Fresh' /\ HookSettles'
  BY <1>2 DEF HookIInv, Fresh, HookSettles, Settled
<1> QED
  BY <1>3, <1>4 DEF HookIInv

LEMMA QuietPc == ASSUME NEW p PROVE Quiet(p).pc = p
  BY SMTT(30) DEF Quiet

LEMMA ChangesKept ==
  ASSUME HookIInv, NEW ch \in Changes, (\E op, id : readAll(ch, op, id)) \/ put(ch) \/ remove(ch)
  PROVE  HookIInv'
<1>1. CASE \E op, id : readAll(ch, op, id)
  <2>1. PICK op, id : readAll(ch, op, id)
    BY <1>1
  <2> QED
    BY <2>1, ChangeKept DEF readAll
<1>2. CASE put(ch)
  BY <1>2, QuietPc, ChangeKept DEF put
<1>3. CASE remove(ch)
  BY <1>3, QuietPc, ChangeKept DEF remove
<1> QED
  BY <1>1, <1>2, <1>3

(* A step of the hook: the reads it keeps have older numbers, or it takes the request's answer. *)
LEMMA HookStepKept ==
  ASSUME HookIInv, registry' = registry, change' = [ch \in Changes |-> change'[ch]],
         NEW a \in BOOLEAN, NEW q \in Nat, NEW l, NEW e, NEW s, NEW r, HookOf(hook', a, q, l, e, s, r),
         \A x \in r : x = [n |-> x.n, pc |-> x.pc, list |-> x.list] /\ x.n \in Nat /\ x.n <= q,
         \A x \in r : x.n = q /\ x.pc = "set" =>
             x.list = registry \/ (x \in hook.reads /\ q = hook.request /\ (Settled' => Settled)),
         (a /\ ~l /\ ~e /\ Settled') => s = registry
  PROVE  HookIInv'
<1>1. hook'.alive = a /\ hook'.request = q /\ hook'.loading = l /\ hook'.error = e /\ hook'.shown = s /\ hook'.reads = r
  BY DEF HookOf
<1>2. HookTyped'
  BY <1>1 DEF HookIInv, HookTyped, HookOf
<1>3. Numbered(hook)'
  BY <1>1 DEF Numbered
<1>4. Fresh'
  BY <1>1 DEF HookIInv, Fresh
<1>5. HookSettles'
  BY <1>1 DEF HookSettles, Settled
<1> QED
  BY <1>2, <1>3, <1>4, <1>5 DEF HookIInv

(* What every step of the hook starts from. *)
LEMMA HookNow ==
  ASSUME HookIInv
  PROVE  /\ HookOf(hook, hook.alive, hook.request, hook.loading, hook.error, hook.shown, hook.reads)
         /\ hook.alive \in BOOLEAN /\ hook.request \in Nat
         /\ \A x \in hook.reads : x = [n |-> x.n, pc |-> x.pc, list |-> x.list] /\ x.n \in Nat /\ x.n <= hook.request
         /\ (hook.alive /\ ~hook.loading /\ ~hook.error /\ Settled) => hook.shown = registry
<1>1. HookOf(hook, hook.alive, hook.request, hook.loading, hook.error, hook.shown, hook.reads)
  BY DEF HookIInv, HookTyped, HookOf
<1>2. (hook.alive /\ ~hook.loading /\ ~hook.error /\ Settled) => hook.shown = registry
  BY DEF HookIInv, HookSettles, Settled
<1> QED
  BY <1>1, <1>2 DEF HookIInv, HookTyped, Numbered

(* A new read has a number no read had. *)
LEMMA NextRequest ==
  ASSUME HookIInv
  PROVE  LET new == [n |-> hook.request + 1, pc |-> "list", list |-> <<>>]
         IN /\ hook.request + 1 \in Nat
            /\ \A x \in hook.reads \cup {new} :
                 x = [n |-> x.n, pc |-> x.pc, list |-> x.list] /\ x.n \in Nat /\ x.n <= hook.request + 1
            /\ \A x \in hook.reads \cup {new} : ~(x.n = hook.request + 1 /\ x.pc = "set")
<1>1. PICK q \in Nat : q = hook.request
  BY HookNow
<1>2. PICK new : new = [n |-> q + 1, pc |-> "list", list |-> <<>>]
  OBVIOUS
<1>3. new = [n |-> new.n, pc |-> new.pc, list |-> new.list] /\ new.n = q + 1 /\ new.pc # "set"
  BY ONLY SMTT(30), <1>2
<1>4. q + 1 \in Nat /\ q + 1 <= q + 1
  BY SMTT(30)
<1>5. ASSUME NEW x \in hook.reads
      PROVE  x = [n |-> x.n, pc |-> x.pc, list |-> x.list] /\ x.n \in Nat /\ x.n <= q + 1 /\ x.n # q + 1
  <2>1. x = [n |-> x.n, pc |-> x.pc, list |-> x.list] /\ x.n \in Nat /\ x.n <= q
    BY <1>1, HookNow
  <2>2. \A n \in Nat : n <= q => n <= q + 1 /\ n # q + 1
    BY SMTT(30)
  <2> QED
    BY <2>1, <2>2
<1> QED
  BY <1>1, <1>2, <1>3, <1>4, <1>5

LEMMA RequestedKept ==
  ASSUME HookIInv, NEW a \in BOOLEAN, NEW h, HookOf(h, a, hook.request, hook.loading, hook.error, hook.shown, hook.reads),
         hook' = Requested(h), registry' = registry, change' = [ch \in Changes |-> change'[ch]]
  PROVE  HookIInv'
<1>1. PICK new : new = [n |-> hook.request + 1, pc |-> "list", list |-> <<>>]
  OBVIOUS
<1>2. PICK q, l, r : q = hook.request + 1 /\ l = (a \/ hook.loading) /\ r = hook.reads \cup {new}
  OBVIOUS
<1>3. HookOf(hook', a, q, l, hook.error, hook.shown, r)
  <2>1. HookOf(Requested(h), a, hook.request + 1, a \/ hook.loading, hook.error, hook.shown,
               hook.reads \cup {[n |-> hook.request + 1, pc |-> "list", list |-> <<>>]})
    BY HookRequested
  <2> QED
    BY <1>1, <1>2, <2>1
<1>4. q \in Nat /\ (a => l)
  BY <1>2, NextRequest
<1>5. \A x \in r : x = [n |-> x.n, pc |-> x.pc, list |-> x.list] /\ x.n \in Nat /\ x.n <= q
  BY <1>1, <1>2, NextRequest
<1>6. \A x \in r : ~(x.n = q /\ x.pc = "set")
  BY <1>1, <1>2, NextRequest
<1>7. \A x \in r : x.n = q /\ x.pc = "set" =>
          x.list = registry \/ (x \in hook.reads /\ q = hook.request /\ (Settled' => Settled))
  BY <1>6
<1>8. (a /\ ~l /\ ~hook.error /\ Settled') => hook.shown = registry
  BY <1>4
<1>9. q \in Nat
  BY <1>4
<1> QED
  BY SMTT(30), <1>3, <1>5, <1>7, <1>8, <1>9, HookStepKept

LEMMA RefreshKept == ASSUME HookIInv, NEW ch \in Changes, Refresh(ch) PROVE HookIInv'
<1>1. hook.alive \in BOOLEAN /\ HookOf(hook, hook.alive, hook.request, hook.loading, hook.error, hook.shown, hook.reads)
  BY HookNow
<1>2. change' = [d \in Changes |-> change'[d]]
  <2>1. change = [d \in Changes |-> change[d]] /\ change' = [change EXCEPT ![ch] = Quiet("done")]
    BY DEF HookIInv, HookTyped, Refresh
  <2> QED
    BY <2>1
<1> QED
  BY <1>1, <1>2, RequestedKept DEF Refresh

LEMMA MountKept == ASSUME HookIInv, Unmount \/ Mount PROVE HookIInv'
<1>1. /\ HookOf(hook, hook.alive, hook.request, hook.loading, hook.error, hook.shown, hook.reads)
      /\ hook.request \in Nat
      /\ change' = [d \in Changes |-> change'[d]] /\ registry' = registry
  BY HookNow DEF Unmount, Mount, HookIInv, HookTyped
<1>2. CASE Unmount
  <2>1. PICK f, q : f = FALSE /\ q = hook.request + 1
    OBVIOUS
  <2>2. PICK h : h = [hook EXCEPT !.alive = f]
    OBVIOUS
  <2>3. HookOf(h, f, hook.request, hook.loading, hook.error, hook.shown, hook.reads)
    BY <1>1, <2>2, HookSet
  <2>4. hook' = [h EXCEPT !.request = q]
    BY <1>2, <2>1, <2>2 DEF Unmount
  <2>5. HookOf(hook', f, q, hook.loading, hook.error, hook.shown, hook.reads)
    BY <2>3, <2>4, HookSet
  <2>6. /\ q \in Nat
        /\ \A x \in hook.reads : x = [n |-> x.n, pc |-> x.pc, list |-> x.list] /\ x.n \in Nat /\ x.n <= q
        /\ \A x \in hook.reads : ~(x.n = q /\ x.pc = "set")
    BY <2>1, NextRequest
  <2>7. q \in Nat /\ f \in BOOLEAN /\ ~f
    BY <2>1, <2>6
  <2> QED
    BY SMTT(30), <1>1, <2>5, <2>6, <2>7, HookStepKept
<1>3. CASE Mount
  <2>1. PICK t : t = TRUE
    OBVIOUS
  <2>2. PICK h : h = [hook EXCEPT !.alive = t]
    OBVIOUS
  <2>3. HookOf(h, t, hook.request, hook.loading, hook.error, hook.shown, hook.reads) /\ t \in BOOLEAN
    BY <1>1, <2>1, <2>2, HookSet
  <2>4. hook' = Requested(h)
    BY <1>3, <2>1, <2>2 DEF Mount
  <2> QED
    BY <1>1, <2>3, <2>4, RequestedKept
<1> QED
  BY <1>2, <1>3

(* Answers: a list just read is what is stored, and only the latest request is shown. *)
LEMMA ListKept == ASSUME HookIInv, NEW r \in hook.reads, List(r) PROVE HookIInv'
<1>1. PICK w : w = [r EXCEPT !.pc = "set", !.list = registry]
  OBVIOUS
<1>2. r = [n |-> r.n, pc |-> r.pc, list |-> r.list] /\ r.n \in Nat /\ r.n <= hook.request
  BY HookNow
<1>3. w = [n |-> w.n, pc |-> w.pc, list |-> w.list] /\ w.n = r.n /\ w.list = registry
  <2>1. PICK p, g : p = "set" /\ g = registry
    OBVIOUS
  <2>2. PICK v : v = [r EXCEPT !.pc = p]
    OBVIOUS
  <2>3. v.n = r.n
    BY ONLY SMTT(30), <1>2, <2>2
  <2>4. v = [n |-> v.n, pc |-> v.pc, list |-> v.list]
    BY ONLY SMTT(30), <1>2, <2>2
  <2>5. w = [v EXCEPT !.list = g]
    BY <1>1, <2>1, <2>2
  <2>6. w.n = v.n /\ w.list = g
    BY ONLY SMTT(30), <2>4, <2>5
  <2>7. w = [n |-> w.n, pc |-> w.pc, list |-> w.list]
    BY ONLY SMTT(30), <2>4, <2>5
  <2> QED
    BY <2>1, <2>3, <2>6, <2>7
<1>4. PICK x : x = (hook.reads \ {r}) \cup {w}
  OBVIOUS
<1>5. HookOf(hook', hook.alive, hook.request, hook.loading, hook.error, hook.shown, x)
  <2>1. hook' = [hook EXCEPT !.reads = x]
    BY <1>1, <1>4 DEF List
  <2> QED
    BY <2>1, HookNow, HookSet
<1>6. \A y \in x : y = [n |-> y.n, pc |-> y.pc, list |-> y.list] /\ y.n \in Nat /\ y.n <= hook.request
  BY <1>2, <1>3, <1>4, HookNow
<1>7. UNCHANGED <<registry, change>>
  BY DEF List
<1>8. (Settled' => Settled) /\ change' = [d \in Changes |-> change'[d]]
  BY <1>7 DEF Settled, HookIInv, HookTyped
<1>9. \A y \in x : y.n = hook.request /\ y.pc = "set" =>
          y.list = registry \/ (y \in hook.reads /\ hook.request = hook.request /\ (Settled' => Settled))
  BY <1>3, <1>4, <1>8
<1>10. /\ (hook.alive /\ ~hook.loading /\ ~hook.error /\ Settled') => hook.shown = registry
       /\ hook.alive \in BOOLEAN /\ hook.request \in Nat
  BY <1>8, HookNow
<1> QED
  BY <1>5, <1>6, <1>7, <1>8, <1>9, <1>10, HookStepKept

LEMMA AnswerKept == ASSUME HookIInv, NEW r \in hook.reads, SetCredentials(r) \/ ListFails(r) PROVE HookIInv'
<1>1. UNCHANGED <<registry, change>>
  BY DEF SetCredentials, ListFails
<1>2. (Settled' => Settled) /\ change' = [d \in Changes |-> change'[d]]
  BY <1>1 DEF Settled, HookIInv, HookTyped
<1>3. PICK x : x = hook.reads \ {r}
  OBVIOUS
<1>4. /\ HookOf(hook, hook.alive, hook.request, hook.loading, hook.error, hook.shown, hook.reads)
      /\ hook.alive \in BOOLEAN /\ hook.request \in Nat
      /\ \A y \in x : y = [n |-> y.n, pc |-> y.pc, list |-> y.list] /\ y.n \in Nat /\ y.n <= hook.request
      /\ (hook.alive /\ ~hook.loading /\ ~hook.error /\ Settled') => hook.shown = registry
  BY <1>2, <1>3, HookNow
<1>5. \A y \in x : y.n = hook.request /\ y.pc = "set" =>
          y.list = registry \/ (y \in hook.reads /\ hook.request = hook.request /\ (Settled' => Settled))
  BY <1>2, <1>3
<1>6. CASE hook' = [hook EXCEPT !.reads = hook.reads \ {r}]
  <2>1. HookOf(hook', hook.alive, hook.request, hook.loading, hook.error, hook.shown, x)
    BY <1>3, <1>4, <1>6, HookSet
  <2> QED
    BY <1>1, <1>2, <1>4, <1>5, <2>1, HookStepKept
<1>7. CASE SetCredentials(r) /\ isCurrent(r)
  <2>1. hook' = [hook EXCEPT !.reads = x, !.shown = r.list, !.error = FALSE, !.loading = FALSE]
    BY <1>3, <1>7 DEF SetCredentials
  <2>2. HookOf(hook', hook.alive, hook.request, FALSE, FALSE, r.list, x)
    BY <1>4, <2>1, HookAnswered
  <2>3. Settled' => r.list = registry
    BY <1>2, <1>7 DEF HookIInv, Fresh, SetCredentials, isCurrent
  <2>4. (hook.alive /\ ~FALSE /\ ~FALSE /\ Settled') => r.list = registry
    BY <2>3
  <2> QED
    BY <1>1, <1>2, <1>4, <1>5, <2>2, <2>4, HookStepKept
<1>8. CASE ListFails(r) /\ isCurrent(r)
  <2>1. hook' = [hook EXCEPT !.reads = x, !.error = TRUE, !.loading = FALSE]
    BY <1>3, <1>8 DEF ListFails
  <2>2. HookOf(hook', hook.alive, hook.request, FALSE, TRUE, hook.shown, x)
    BY <1>4, <2>1, HookAnswered
  <2>3. (hook.alive /\ ~FALSE /\ ~TRUE /\ Settled') => hook.shown = registry
    OBVIOUS
  <2> QED
    BY <1>1, <1>2, <1>4, <1>5, <2>2, <2>3, HookStepKept
<1> QED
  BY <1>6, <1>7, <1>8 DEF SetCredentials, ListFails

LEMMA HookNext == ASSUME HookIInv, StoresNext \/ UNCHANGED storesVars PROVE HookIInv'
<1>1. CASE \E ch \in Changes :
          \/ \E id \in StoreIds, op \in {"put", "remove"} : readAll(ch, op, id)
          \/ put(ch) \/ remove(ch) \/ Refresh(ch)
  BY <1>1, ChangesKept, RefreshKept
<1>2. CASE \E r \in hook.reads : List(r) \/ SetCredentials(r) \/ ListFails(r)
  BY <1>2, ListKept, AnswerKept
<1>3. CASE Unmount \/ Mount
  BY <1>3, MountKept
<1>4. CASE UNCHANGED storesVars
  BY <1>4 DEF storesVars, HookIInv, HookTyped, Numbered, Fresh, HookSettles, Settled
<1> QED
  BY <1>1, <1>2, <1>3, <1>4 DEF StoresNext

(***************************************************************************)
(* The hook shows what is stored once it stops loading: whatever order its *)
(* reads are answered in, and however many changes, mounts and refreshes   *)
(* there are (use-connected-stores.ts).                                    *)
(***************************************************************************)
THEOREM HookShowsWhatIsStored == StoresSpec => []HookSettles
<1>1. HookIInv /\ [StoresNext]_storesVars => HookIInv'
  BY HookNext
<1>2. HookIInv => HookSettles
  BY DEF HookIInv
<1> QED
  BY <1>1, <1>2, HookInit, PTL DEF StoresSpec

-----------------------------------------------------------------------------
(* Delegated access *)

(* Every stored grant is well formed, and narrows the stored grant it was made from. *)
Delegated(id) ==
    /\ grants[id].id = id /\ assertGrantShape(grants[id])
    /\ grants[id].parent # Absent =>
         LET p == grants[id].parent IN p \in Issued /\ p < id /\ Narrows(grants[id], grants[p])

Loaded(q) == q.pc = "decide" => q.answer = Absent /\ q.chain \in Seq(Grant) /\ q.chain # <<>>

GrantIInv ==
    /\ now \in Int /\ grants \in [GrantIds -> Grant \cup {Absent}]
    /\ \E k \in Nat : Issued = 1 .. k
    /\ \A id \in Issued : Delegated(id)
    /\ request = [r \in Requests |-> request[r]] /\ \A r \in Requests : Loaded(request[r])

LEMMA GrantFields ==
  ASSUME NEW g \in Grant
  PROVE  /\ g.id \in Nat /\ g.parent \in Nat \cup {Absent} /\ g.depth \in Nat /\ g.issuedAt \in Int
         /\ g.authorization \in {"readonly", "full"} /\ g.subject \in Subjects
         /\ g.notBefore \in Int \cup {Absent} /\ g.expiresAt \in Int \cup {Absent} /\ g.revokedAt \in Int \cup {Absent}
  BY SMTT(30) DEF Grant

LEMMA StoredIsGrant ==
  ASSUME GrantIInv, NEW id \in Issued
  PROVE  id \in GrantIds /\ id \in Nat /\ grants[id] \in Grant /\ grants[id] # Absent
<1>1. id \in GrantIds /\ grants[id] # Absent
  BY DEF Issued
<1>2. id \in Nat
  BY SMTT(30), <1>1, GrantAssumption DEF GrantIds
<1> QED
  BY <1>1, <1>2 DEF GrantIInv

(* The id of a new grant comes after all that were issued. *)
LEMMA UnusedIsNext ==
  ASSUME GrantIInv, NEW id \in Unused
  PROVE  /\ id \in GrantIds /\ id \in Nat /\ id \notin Issued
         /\ \A p \in Issued : p < id
         /\ \E k \in Nat : Issued \cup {id} = 1 .. k
<1>1. PICK k \in Nat : Issued = 1 .. k
  BY DEF GrantIInv
<1>2. Cardinality(1 .. k) = IF 1 > k THEN 0 ELSE k - 1 + 1
  <2>1. 1 \in Int /\ k \in Int
    BY SMTT(30)
  <2> QED
    BY <2>1, FS_Interval
<1>3. id = Cardinality(Issued) + 1 /\ id \in GrantIds
  BY DEF Unused
<1>4. id = k + 1
  BY SMTT(30), <1>1, <1>2, <1>3
<1>5. id \in Nat /\ id \notin 1 .. k /\ (\A p \in 1 .. k : p < id) /\ k + 1 \in Nat /\ (1 .. k) \cup {id} = 1 .. (k + 1)
  BY SMTT(30), <1>4
<1> QED
  BY <1>1, <1>3, <1>5

LEMMA GrantInit == GrantsInit => GrantIInv
<1> SUFFICES ASSUME GrantsInit PROVE GrantIInv
  OBVIOUS
<1>1. Issued = {}
  BY DEF GrantsInit, Issued
<1>2. 0 \in Nat /\ 0 \in Int /\ {} = 1 .. 0
  BY SMTT(30)
<1>3. ASSUME NEW r \in Requests PROVE Loaded(request[r])
  <2>1. request[r] = [pc |-> "off", chain |-> <<>>, answer |-> Absent]
    BY DEF GrantsInit
  <2>2. request[r].pc = "off"
    BY SMTT(30), <2>1
  <2> QED
    BY <2>2 DEF Loaded
<1> QED
  BY <1>1, <1>2, <1>3 DEF GrantsInit, GrantIInv

(* A grant is stored under the next id: nothing stored before refers to it. *)
LEMMA IssueKept ==
  ASSUME GrantIInv, NEW id \in Unused, NEW g \in Grant, g.id = id, assertGrantShape(g),
         g.parent = Absent \/ (g.parent \in Issued /\ Narrows(g, grants[g.parent])),
         grants' = [grants EXCEPT ![id] = g], UNCHANGED <<now, request>>
  PROVE  GrantIInv'
<1>1. id \in GrantIds /\ id \in Nat /\ id \notin Issued /\ (\A p \in Issued : p < id) /\ \E k \in Nat : Issued \cup {id} = 1 .. k
  BY UnusedIsNext
<1>2. grants \in [GrantIds -> Grant \cup {Absent}] /\ g # Absent
  BY GrantAssumption DEF GrantIInv
<1>3. grants' \in [GrantIds -> Grant \cup {Absent}] /\ \A d \in GrantIds : grants'[d] = IF d = id THEN g ELSE grants[d]
  BY <1>1, <1>2
<1>4. Issued' = Issued \cup {id}
  BY <1>1, <1>2, <1>3 DEF Issued
<1>5. ASSUME NEW d \in Issued' PROVE Delegated(d)'
  <2>1. CASE d = id
    <3>1. grants'[d] = g
      BY <1>1, <1>3, <2>1
    <3>2. ASSUME g.parent # Absent
          PROVE  g.parent \in Issued' /\ g.parent < d /\ Narrows(g, grants'[g.parent])
      <4>1. g.parent \in Issued /\ g.parent \in GrantIds /\ g.parent # id
        BY <1>1, <3>2 DEF Issued
      <4> QED
        BY <1>1, <1>3, <1>4, <2>1, <3>2, <4>1
    <3> QED
      BY <2>1, <3>1, <3>2 DEF Delegated
  <2>2. CASE d # id
    <3>1. d \in Issued /\ grants'[d] = grants[d] /\ Delegated(d)
      BY <1>3, <1>4, <2>2 DEF GrantIInv, Issued
    <3>2. ASSUME grants[d].parent # Absent
          PROVE  LET p == grants[d].parent IN p \in Issued' /\ p < d /\ Narrows(grants[d], grants'[p])
      <4>1. PICK p \in Issued : p = grants[d].parent /\ p < d /\ Narrows(grants[d], grants[p])
        BY <3>1, <3>2 DEF Delegated
      <4>2. p \in GrantIds /\ grants'[p] = grants[p]
        BY <1>1, <1>3 DEF Issued
      <4> QED
        BY <1>4, <4>1, <4>2
    <3> QED
      BY <3>1, <3>2 DEF Delegated
  <2> QED
    BY <2>1, <2>2
<1> QED
  BY <1>1, <1>3, <1>4, <1>5 DEF GrantIInv

LEMMA IssueRootKept == ASSUME GrantIInv, NEW id \in Unused, NEW g \in RootGrants(id), IssueRoot(id, g) PROVE GrantIInv'
<1>1. now \in Int /\ id \in Nat
  BY UnusedIsNext DEF GrantIInv
<1>2. Beginnings \subseteq Int \cup {Absent} /\ Expiries \subseteq Int \cup {Absent} /\ 0 .. MaxDepth \subseteq Nat
  <2>1. 0 .. MaxDepth \subseteq Nat
    BY SMTT(30), GrantAssumption
  <2> QED
    BY <2>1, GrantAssumption
<1>3. g \in Grant
  <2>1. /\ g.id = id /\ g.parent = Absent /\ g.issuer \in Subjects /\ g.subject \in Subjects
        /\ g.authorization \in {"readonly", "full"} /\ g.depth \in 0 .. MaxDepth /\ g.issuedAt = now
        /\ g.notBefore \in Beginnings /\ g.expiresAt \in Expiries /\ g.revokedAt = Absent
    BY SMTT(30) DEF RootGrants
  <2>2. g = [id |-> g.id, parent |-> g.parent, issuer |-> g.issuer, subject |-> g.subject,
             authorization |-> g.authorization, depth |-> g.depth, issuedAt |-> g.issuedAt,
             notBefore |-> g.notBefore, expiresAt |-> g.expiresAt, revokedAt |-> g.revokedAt]
    BY SMTT(30) DEF RootGrants
  <2>3. g.depth \in Nat /\ g.notBefore \in Int \cup {Absent} /\ g.expiresAt \in Int \cup {Absent}
    BY <1>2, <2>1
  <2> QED
    BY SMTT(30), <1>1, <2>1, <2>2, <2>3 DEF Grant
<1>4. g.id = id /\ g.parent = Absent
  BY SMTT(30) DEF RootGrants
<1> QED
  BY <1>3, <1>4, IssueKept DEF IssueRoot

(* attenuateMeshGrant: what is checked here is what the links of a chain are checked for. *)
LEMMA AttenuateKept ==
  ASSUME GrantIInv, NEW id \in Unused, NEW parent \in Issued, NEW s \in Subjects, NEW auth \in {"readonly", "full"},
         NEW depth \in 0 .. MaxDepth, NEW from \in Beginnings, NEW until \in Expiries,
         attenuateMeshGrant(id, parent, s, auth, depth, from, until)
  PROVE  GrantIInv'
<1>1. PICK p \in Grant : p = grants[parent] /\ p.id = parent
  BY StoredIsGrant DEF GrantIInv, Delegated
<1>2. PICK b, e : b = Inherited(from, p.notBefore) /\ e = Inherited(until, p.expiresAt)
  OBVIOUS
<1>3. /\ b \in Int \cup {Absent} /\ e \in Int \cup {Absent}
      /\ p.notBefore # Absent => b # Absent
      /\ p.expiresAt # Absent => e # Absent
  BY <1>2, GrantFields, GrantAssumption DEF Inherited
<1>4. PICK g : g = Child(id, grants[parent], s, auth, depth, from, until)
  OBVIOUS
<1>5. PICK i \in Subjects : i = p.subject
  BY GrantFields
<1>6. PICK t \in Int : t = now
  BY DEF GrantIInv
<1>7. g = [id |-> id, parent |-> parent, issuer |-> i, subject |-> s, authorization |-> auth, depth |-> depth, issuedAt |-> t,
           notBefore |-> b, expiresAt |-> e, revokedAt |-> Absent]
  BY <1>1, <1>2, <1>4, <1>5, <1>6 DEF Child
<1>8. depth \in Nat /\ id \in Nat /\ parent \in Nat
  <2>1. depth \in Nat
    BY SMTT(30), GrantAssumption
  <2> QED
    BY <2>1, UnusedIsNext, StoredIsGrant
<1>9. g \in Grant /\ g.id = id /\ g.parent = parent /\ g.issuer = i /\ g.notBefore = b /\ g.expiresAt = e
  <2>1. g \in Grant
    BY SMTT(30), <1>3, <1>7, <1>8 DEF Grant
  <2>2. g.id = id /\ g.parent = parent /\ g.issuer = i /\ g.notBefore = b /\ g.expiresAt = e
    BY ONLY SMTT(30), <1>7
  <2> QED
    BY <2>1, <2>2
<1>10. Attenuates(p, g) /\ grants' = [grants EXCEPT ![id] = g] /\ UNCHANGED <<now, request>>
  BY <1>1, <1>4 DEF attenuateMeshGrant
<1>11. Narrows(g, p)
  BY <1>1, <1>3, <1>5, <1>9, <1>10 DEF Narrows, Attenuates
<1>12. assertGrantShape(g) /\ g.parent \in Issued /\ Narrows(g, grants[g.parent])
  BY <1>1, <1>9, <1>10, <1>11 DEF Attenuates
<1> QED
  BY <1>9, <1>10, <1>12, IssueKept

(* The grant after its revocation. *)
Revoked(h, g, t) ==
    /\ h \in Grant /\ h.id = g.id /\ h.parent = g.parent /\ h.issuer = g.issuer /\ h.subject = g.subject
    /\ h.authorization = g.authorization /\ h.depth = g.depth /\ h.issuedAt = g.issuedAt
    /\ h.notBefore = g.notBefore /\ h.expiresAt = g.expiresAt /\ h.revokedAt = t

LEMMA GrantRevoked == ASSUME NEW g \in Grant, NEW t \in Int \cup {Absent} PROVE Revoked([g EXCEPT !.revokedAt = t], g, t)
<1> DEFINE h == [g EXCEPT !.revokedAt = t]
<1>1. h \in Grant
  BY SMTT(30) DEF Grant
<1>2. h.id = g.id /\ h.parent = g.parent /\ h.issuer = g.issuer /\ h.subject = g.subject
  BY SMTT(30) DEF Grant
<1>3. h.authorization = g.authorization /\ h.depth = g.depth /\ h.issuedAt = g.issuedAt
  BY SMTT(30) DEF Grant
<1>4. h.notBefore = g.notBefore /\ h.expiresAt = g.expiresAt /\ h.revokedAt = t
  BY SMTT(30) DEF Grant
<1> QED
  BY <1>1, <1>2, <1>3, <1>4 DEF Revoked

(* markMeshGrantRevoked: the links of a chain do not look at the revocation. *)
LEMMA RevokeKept == ASSUME GrantIInv, NEW id \in Issued, markMeshGrantRevoked(id) PROVE GrantIInv'
<1>1. PICK g \in Grant : g = grants[id]
  BY StoredIsGrant
<1>2. PICK t \in Int \cup {Absent} : t = IF g.revokedAt = Absent THEN now ELSE g.revokedAt
  BY GrantFields DEF GrantIInv
<1>3. PICK h : h = [g EXCEPT !.revokedAt = t]
  OBVIOUS
<1>4. Revoked(h, g, t)
  BY <1>3, GrantRevoked
<1>5. grants' = [grants EXCEPT ![id] = h] /\ UNCHANGED <<now, request>> /\ now >= g.issuedAt
  BY <1>1, <1>2, <1>3 DEF markMeshGrantRevoked
<1>6. h # Absent /\ h \in Grant /\ grants \in [GrantIds -> Grant \cup {Absent}]
  BY <1>4, GrantAssumption DEF GrantIInv, Revoked
<1>7. grants' \in [GrantIds -> Grant \cup {Absent}] /\ \A d \in GrantIds : grants'[d] = IF d = id THEN h ELSE grants[d]
  BY <1>5, <1>6
<1>8. Issued' = Issued
  BY <1>1, <1>6, <1>7, StoredIsGrant DEF Issued
<1>9. assertGrantShape(h)
  <2>1. assertGrantShape(g)
    BY <1>1 DEF GrantIInv, Delegated
  <2>2. t # Absent => t >= g.issuedAt
    BY <1>2, <1>5, <2>1 DEF assertGrantShape
  <2> QED
    BY <1>4, <2>1, <2>2 DEF assertGrantShape, Revoked
<1>10. \A c \in Grant : (Narrows(g, c) => Narrows(h, c)) /\ (Narrows(c, g) => Narrows(c, h))
  BY <1>4 DEF Narrows, Revoked
<1>11. ASSUME NEW d \in Issued PROVE Delegated(d)'
  <2>1. d \in GrantIds /\ Delegated(d) /\ grants[d] \in Grant
    BY StoredIsGrant DEF GrantIInv
  <2>2. PICK x, y : x = grants[d] /\ y = grants'[d]
    OBVIOUS
  <2>3. y.id = x.id /\ y.parent = x.parent /\ (assertGrantShape(x) => assertGrantShape(y))
        /\ \A c \in Grant : Narrows(x, c) => Narrows(y, c)
    BY <1>1, <1>4, <1>7, <1>9, <1>10, <2>1, <2>2 DEF Revoked
  <2>4. ASSUME y.parent # Absent PROVE LET p == y.parent IN p \in Issued /\ p < d /\ Narrows(y, grants'[p])
    <3>1. PICK p \in Issued : p = y.parent /\ p < d /\ Narrows(x, grants[p])
      BY <2>1, <2>2, <2>3, <2>4 DEF Delegated
    <3>2. p \in GrantIds /\ grants[p] \in Grant
      BY StoredIsGrant
    <3>3. y \in Grant
      BY <1>6, <1>7, <2>1, <2>2
    <3>4. Narrows(y, grants[p])
      BY <2>3, <3>1, <3>2
    <3>5. grants'[p] = grants[p] \/ (grants[p] = g /\ grants'[p] = h)
      BY <1>1, <1>7, <3>2
    <3>6. Narrows(y, grants'[p])
      BY <1>10, <3>3, <3>4, <3>5
    <3> QED
      BY <3>1, <3>6
  <2> QED
    BY <1>8, <2>1, <2>2, <2>3, <2>4 DEF Delegated
<1> QED
  BY <1>5, <1>7, <1>8, <1>11 DEF GrantIInv

(* What is loaded is a non-empty sequence of stored grants. *)
LEMMA ChainLoaded ==
  ASSUME GrantIInv, NEW id \in Issued, NEW chain \in ChainsTo(id)
  PROVE  /\ chain \in Seq(Grant) /\ chain # <<>> /\ Len(chain) \in Nat /\ Len(chain) >= 1
         /\ \A i \in 1 .. Len(chain) : \E d \in Issued : chain[i] = grants[d]
<1> DEFINE Held == {grants[g] : g \in Issued}
<1>1. PICK n \in GrantIds : chain \in [1 .. n -> Held]
  BY DEF ChainsTo
<1>2. n \in Nat /\ n >= 1
  BY SMTT(30), GrantAssumption DEF GrantIds
<1>3. Held \subseteq Grant
  BY StoredIsGrant
<1>4. chain \in [1 .. n -> Grant]
  BY <1>1, <1>3
<1>5. chain \in Seq(Grant)
  BY SMTT(30), <1>2, <1>4
<1>6. Len(chain) = n
  <2>1. \A k \in Nat : 1 .. k = 1 .. n => k = n
    BY SMTT(30), <1>2
  <2>2. DOMAIN chain = 1 .. n /\ DOMAIN chain = 1 .. Len(chain) /\ Len(chain) \in Nat
    BY <1>4, <1>5, LenProperties
  <2> QED
    BY <2>1, <2>2
<1>7. chain # <<>>
  BY SMTT(30), <1>2, <1>5, <1>6
<1> QED
  BY <1>1, <1>2, <1>5, <1>6, <1>7

(* The middleware's steps, and the clock's. *)
LEMMA RequestKept ==
  ASSUME GrantIInv, NEW r \in Requests, NEW q, Loaded(q), request' = [request EXCEPT ![r] = q], UNCHANGED <<grants, now>>
  PROVE  GrantIInv'
<1>1. request' = [s \in Requests |-> request'[s]] /\ \A s \in Requests : request'[s] = IF s = r THEN q ELSE request[s]
  <2>1. request = [s \in Requests |-> request[s]]
    BY DEF GrantIInv
  <2> QED
    BY <2>1
<1>2. \A s \in Requests : Loaded(request'[s])
  BY <1>1 DEF GrantIInv
<1>3. Issued' = Issued
  BY DEF Issued
<1>4. ASSUME NEW id \in Issued PROVE Delegated(id)'
  <2>1. Delegated(id)
    BY DEF GrantIInv
  <2> QED
    BY <1>3, <2>1 DEF Delegated
<1> QED
  BY <1>1, <1>2, <1>3, <1>4 DEF GrantIInv

LEMMA loadGrantChainKept == ASSUME GrantIInv, NEW r \in Requests, NEW id \in Issued, loadGrantChain(r, id) PROVE GrantIInv'
<1>1. PICK chain \in ChainsTo(id) :
        request' = [request EXCEPT ![r] = [pc |-> "decide", chain |-> chain, answer |-> Absent]]
  BY DEF loadGrantChain
<1>2. PICK q : q = [pc |-> "decide", chain |-> chain, answer |-> Absent]
  OBVIOUS
<1>3. q.answer = Absent /\ q.chain = chain
  BY ONLY SMTT(30), <1>2
<1>4. Loaded(q)
  BY <1>3, ChainLoaded DEF Loaded
<1> QED
  BY <1>1, <1>2, <1>4, RequestKept DEF loadGrantChain

LEMMA DecideKept == ASSUME GrantIInv, NEW r \in Requests, Decide(r) PROVE GrantIInv'
<1>1. PICK a : request' = [request EXCEPT ![r] = [pc |-> "done", chain |-> <<>>, answer |-> a]]
  BY DEF Decide
<1>2. PICK q : q = [pc |-> "done", chain |-> <<>>, answer |-> a]
  OBVIOUS
<1>3. q.pc = "done"
  BY ONLY SMTT(30), <1>2
<1>4. Loaded(q)
  BY <1>3 DEF Loaded
<1> QED
  BY <1>1, <1>2, <1>4, RequestKept DEF Decide

LEMMA TickKept == ASSUME GrantIInv, now' \in Int, UNCHANGED <<grants, request>> PROVE GrantIInv'
<1>1. Issued' = Issued
  BY DEF Issued
<1>2. ASSUME NEW id \in Issued PROVE Delegated(id)'
  <2>1. Delegated(id)
    BY DEF GrantIInv
  <2> QED
    BY <1>1, <2>1 DEF Delegated
<1> QED
  BY <1>1, <1>2 DEF GrantIInv

LEMMA GrantNext == ASSUME GrantIInv, GrantsNext \/ UNCHANGED grantVars PROVE GrantIInv'
<1>1. CASE \E id \in Unused : \E g \in RootGrants(id) : IssueRoot(id, g)
  BY <1>1, IssueRootKept
<1>2. CASE \E id \in Unused, parent \in Issued, s \in Subjects, auth \in {"readonly", "full"},
             depth \in 0 .. MaxDepth, from \in Beginnings, until \in Expiries :
             attenuateMeshGrant(id, parent, s, auth, depth, from, until)
  BY <1>2, AttenuateKept
<1>3. CASE \E id \in Issued : markMeshGrantRevoked(id)
  BY <1>3, RevokeKept
<1>4. CASE \E r \in Requests : Decide(r) \/ \E id \in Issued : loadGrantChain(r, id)
  BY <1>4, DecideKept, loadGrantChainKept
<1>5. CASE Tick \/ UNCHANGED grantVars
  <2>1. now \in Int => now + 1 \in Int
    BY SMTT(30)
  <2>2. now' \in Int /\ UNCHANGED <<grants, request>>
    BY <1>5, <2>1 DEF Tick, grantVars, GrantIInv
  <2> QED
    BY <2>2, TickKept
<1> QED
  BY <1>1, <1>2, <1>3, <1>4, <1>5 DEF GrantsNext

-----------------------------------------------------------------------------
(* Along a chain *)

(* A property of the first link that every link passes on holds of all: there is no first link without it. *)
LEMMA AlongChain ==
  ASSUME NEW m \in Nat, NEW n \in Nat, NEW T, m \in T, \A i \in m .. n : i \in T /\ i + 1 <= n => i + 1 \in T
  PROVE  \A i \in m .. n : i \in T
<1> DEFINE Bad == {i \in Nat : i \in m .. n /\ i \notin T}
<1>1. SUFFICES ASSUME Bad # {} PROVE FALSE
  <2>1. \A i \in m .. n : i \in Nat
    BY SMTT(30)
  <2> QED
    BY <1>1, <2>1
<1>2. Bad \subseteq Nat
  OBVIOUS
<1>3. PICK b \in Bad : \A j \in Bad : ~(<<j, b>> \in OpToRel(<, Nat))
  BY <1>1, <1>2, NatLessThanWellFounded, WFMin
<1>4. \A j \in Bad : ~(j < b)
  BY <1>2, <1>3 DEF OpToRel
<1>5. b \in Nat /\ b \in m .. n /\ b \notin T /\ b # m
  OBVIOUS
<1>6. b - 1 \in Nat /\ b - 1 \in m .. n /\ b - 1 < b /\ (b - 1) + 1 = b /\ b <= n
  BY SMTT(30), <1>5
<1>7. b - 1 \in T
  BY <1>4, <1>6
<1> QED
  BY <1>5, <1>6, <1>7

(* Rights never grow and depth always shrinks from the root down. *)
LEMMA ChainNarrows ==
  ASSUME NEW chain \in Seq(Grant), chain # <<>>, \A i \in 2 .. Len(chain) : Narrows(chain[i], chain[i - 1])
  PROVE  LET leaf == chain[Len(chain)]
             root == Head(chain)
         IN authorizationRank(leaf.authorization) <= authorizationRank(root.authorization) /\ Len(chain) <= root.depth + 1
<1>1. PICK n \in Nat : n = Len(chain) /\ n >= 1
  <2>1. Len(chain) \in Nat /\ Len(chain) >= 1
    BY SMTT(30)
  <2> QED
    BY <2>1
<1>2. PICK d, k : /\ d = [i \in 1 .. n |-> chain[i].depth]
                  /\ k = [i \in 1 .. n |-> authorizationRank(chain[i].authorization)]
  OBVIOUS
<1>3. \A i \in 1 .. n : chain[i] \in Grant
  BY <1>1, ElementOfSeq
<1>4. \A i \in 1 .. n : d[i] \in Nat /\ k[i] \in {1, 2}
  BY <1>2, <1>3, GrantFields DEF authorizationRank
<1>5. \A i \in 2 .. n : d[i] < d[i - 1] /\ k[i] <= k[i - 1]
  <2>1. \A i \in 2 .. n : i \in 1 .. n /\ i - 1 \in 1 .. n
    BY SMTT(30)
  <2> QED
    BY <1>1, <1>2, <2>1 DEF Narrows
<1>6. PICK T : T = {i \in 1 .. n : d[i] + i <= d[1] + 1 /\ k[i] <= k[1]}
  OBVIOUS
<1>7. 1 \in T
  BY SMTT(30), <1>1, <1>4, <1>6
<1>8. ASSUME NEW i \in 1 .. n, i \in T, i + 1 <= n PROVE i + 1 \in T
  <2>1. i + 1 \in 2 .. n /\ i + 1 \in 1 .. n /\ (i + 1) - 1 = i /\ 1 \in 1 .. n
    BY SMTT(30), <1>8
  <2>2. d[i + 1] < d[i] /\ k[i + 1] <= k[i]
    BY <1>5, <2>1
  <2>3. d[i + 1] \in Nat /\ k[i + 1] \in {1, 2} /\ d[i] \in Nat /\ k[i] \in {1, 2} /\ d[1] \in Nat /\ k[1] \in {1, 2}
    BY <1>4, <2>1
  <2>4. d[i] + i <= d[1] + 1 /\ k[i] <= k[1]
    BY <1>6, <1>8
  <2>5. d[i + 1] + (i + 1) <= d[1] + 1 /\ k[i + 1] <= k[1]
    BY SMTT(30), <2>2, <2>3, <2>4
  <2> QED
    BY <1>6, <2>1, <2>5
<1>9. n \in T /\ n \in 1 .. n /\ 1 \in 1 .. n
  <2>1. n \in 1 .. n /\ 1 \in 1 .. n /\ 1 \in Nat
    BY SMTT(30), <1>1
  <2> QED
    BY <1>7, <1>8, <2>1, AlongChain
<1>10. d[n] + n <= d[1] + 1 /\ k[n] <= k[1] /\ d[n] \in Nat /\ d[1] \in Nat
  BY <1>4, <1>6, <1>9
<1>11. n <= d[1] + 1
  BY SMTT(30), <1>10
<1>12. Head(chain) = chain[1]
  BY SMTT(30)
<1> QED
  BY <1>1, <1>2, <1>9, <1>10, <1>11, <1>12

(***************************************************************************)
(* No delegation widens access: what the middleware grants stays within    *)
(* the rights, the window and the depth of the root, and every ancestor is *)
(* in force (access-control.ts: validateGrantChain(), activeAt()), for     *)
(* every number of grants and every length of chain.                       *)
(***************************************************************************)
THEOREM DelegationNarrows == GrantsSpec => GrantedWithinRoot
<1> DEFINE Within(r) ==
      (request[r].pc = "decide" /\ request'[r].answer \in {"readonly", "full"}) =>
          LET chain == request[r].chain
              root == Head(chain)
          IN /\ authorizationRank(request'[r].answer) <= authorizationRank(root.authorization)
             /\ root.notBefore # Absent => now >= root.notBefore
             /\ root.expiresAt # Absent => now < root.expiresAt
             /\ Len(chain) <= root.depth + 1
             /\ \A i \in DOMAIN chain : chain[i].revokedAt = Absent
<1>1. ASSUME GrantIInv, NEW r \in Requests, GrantsNext PROVE Within(r)
  <2> SUFFICES ASSUME request[r].pc = "decide", request'[r].answer \in {"readonly", "full"}
               PROVE  LET chain == request[r].chain
                          root == Head(chain)
                      IN /\ authorizationRank(request'[r].answer) <= authorizationRank(root.authorization)
                         /\ root.notBefore # Absent => now >= root.notBefore
                         /\ root.expiresAt # Absent => now < root.expiresAt
                         /\ Len(chain) <= root.depth + 1
                         /\ \A i \in DOMAIN chain : chain[i].revokedAt = Absent
    OBVIOUS
  <2>1. request = [s \in Requests |-> request[s]] /\ request[r].answer = Absent
        /\ request[r].chain \in Seq(Grant) /\ request[r].chain # <<>>
    BY <1>1 DEF GrantIInv, Loaded
  <2>2. request'[r] # request[r]
    BY <2>1, GrantAssumption
  <2>3. Decide(r)
    <3>1. request' # request
      BY <2>2
    <3>2. PICK s \in Requests : Decide(s) \/ \E id \in Issued : loadGrantChain(s, id)
      BY <1>1, <3>1 DEF GrantsNext, IssueRoot, attenuateMeshGrant, markMeshGrantRevoked, Tick
    <3>3. PICK q : request' = [request EXCEPT ![s] = q]
      BY <3>2 DEF Decide, loadGrantChain
    <3>4. s = r
      BY <2>1, <2>2, <3>3
    <3>5. ~\E id \in Issued : loadGrantChain(s, id)
      BY <3>4 DEF loadGrantChain
    <3> QED
      BY <3>2, <3>4, <3>5
  <2>4. PICK chain \in Seq(Grant) : chain = request[r].chain /\ chain # <<>>
    BY <2>1
  <2>5. PICK leaf : leaf = chain[Len(chain)]
    OBVIOUS
  <2>6. request'[r].answer = IF ~validateGrantChain(chain, leaf.subject) THEN "error"
                             ELSE IF activeAt(chain, now) THEN leaf.authorization ELSE "deny"
    <3>1. PICK a : a = IF ~validateGrantChain(chain, leaf.subject) THEN "error"
                       ELSE IF activeAt(chain, now) THEN leaf.authorization ELSE "deny"
      OBVIOUS
    <3>2. request' = [request EXCEPT ![r] = [pc |-> "done", chain |-> <<>>, answer |-> a]]
      BY <2>3, <2>4, <2>5, <3>1 DEF Decide
    <3>3. PICK q : q = [pc |-> "done", chain |-> <<>>, answer |-> a]
      OBVIOUS
    <3>4. request'[r] = q
      BY <2>1, <3>2, <3>3
    <3>5. q.answer = a
      BY ONLY SMTT(30), <3>3
    <3> QED
      BY <3>1, <3>4, <3>5
  <2>7. validateGrantChain(chain, leaf.subject) /\ activeAt(chain, now) /\ request'[r].answer = leaf.authorization
    BY <2>6
  <2>8. authorizationRank(leaf.authorization) <= authorizationRank(Head(chain).authorization)
        /\ Len(chain) <= Head(chain).depth + 1
    BY <2>4, <2>5, <2>7, ChainNarrows DEF validateGrantChain
  <2>9. Head(chain) = chain[1] /\ 1 \in DOMAIN chain
    BY SMTT(30), <2>4
  <2> QED
    BY <2>4, <2>7, <2>8, <2>9 DEF activeAt
<1>2. ASSUME GrantIInv, [GrantsNext]_grantVars PROVE [\A r \in Requests : Within(r)]_grantVars
  BY <1>1, <1>2
<1>3. GrantIInv /\ [GrantsNext]_grantVars => GrantIInv'
  BY GrantNext
<1> QED
  BY <1>2, <1>3, GrantInit, PTL DEF GrantsSpec, GrantedWithinRoot

(* Ids grow along a chain, so none occurs twice. *)
LEMMA IdsGrow ==
  ASSUME NEW n \in Nat, NEW d \in [1 .. n -> Nat], \A i \in 2 .. n : d[i - 1] < d[i]
  PROVE  \A i, j \in 1 .. n : d[i] = d[j] => i = j
<1>1. ASSUME NEW i \in 1 .. n, NEW j \in 1 .. n, i < j PROVE d[i] < d[j]
  <2>1. PICK m \in Nat : m = i + 1 /\ m <= n
    <3>1. i + 1 \in Nat /\ i + 1 <= n
      BY SMTT(30), <1>1
    <3> QED
      BY <3>1
  <2>2. PICK T : T = {k \in m .. n : d[i] < d[k]}
    OBVIOUS
  <2>3. m \in T
    <3>1. m \in m .. n /\ m \in 2 .. n /\ m - 1 = i
      BY SMTT(30), <2>1
    <3> QED
      BY <2>2, <3>1
  <2>4. ASSUME NEW k \in m .. n, k \in T, k + 1 <= n PROVE k + 1 \in T
    <3>1. k + 1 \in m .. n /\ k + 1 \in 2 .. n /\ (k + 1) - 1 = k /\ k \in 1 .. n /\ k + 1 \in 1 .. n
      BY SMTT(30), <2>1, <2>4
    <3>2. d[k] < d[k + 1] /\ d[i] < d[k] /\ d[i] \in Nat /\ d[k] \in Nat /\ d[k + 1] \in Nat
      BY <2>2, <2>4, <3>1
    <3>3. d[i] < d[k + 1]
      BY SMTT(30), <3>2
    <3> QED
      BY <2>2, <3>1, <3>3
  <2>5. j \in m .. n
    BY SMTT(30), <1>1, <2>1
  <2>6. j \in T
    BY <2>3, <2>4, <2>5, AlongChain
  <2> QED
    BY <2>2, <2>6
<1>2. ASSUME NEW i \in 1 .. n, NEW j \in 1 .. n, d[i] = d[j] PROVE i = j
  <2>1. ~(i < j) /\ ~(j < i)
    <3>1. d[i] \in Nat /\ ~(d[i] < d[i])
      BY SMTT(30)
    <3> QED
      BY <1>1, <1>2, <3>1
  <2> QED
    BY SMTT(30), <2>1
<1> QED
  BY <1>2

LEMMA BuiltChains == ASSUME GrantIInv PROVE BuiltChainsValidate
<1> SUFFICES ASSUME NEW id \in Issued, NEW chain \in ChainsTo(id), Len(chain) <= maxChainLength
             PROVE  validateGrantChain(chain, grants[id].subject)
  BY DEF BuiltChainsValidate
<1>1. PICK n \in Nat : n = Len(chain) /\ n >= 1
  BY ChainLoaded
<1>2. chain \in Seq(Grant) /\ chain # <<>> /\ \A i \in 1 .. n : \E e \in Issued : chain[i] = grants[e]
  BY <1>1, ChainLoaded
<1>3. DOMAIN chain = 1 .. n
  BY <1>1, <1>2, LenProperties
<1>4. \A i \in 1 .. n : chain[i].id \in Issued /\ chain[i] = grants[chain[i].id] /\ chain[i].id \in Nat /\ Delegated(chain[i].id)
  <2>1. \A e \in Issued : Delegated(e) /\ grants[e].id = e /\ e \in Nat
    BY StoredIsGrant DEF GrantIInv, Delegated
  <2> QED
    BY <1>2, <2>1
<1>5. \A i \in 2 .. n : chain[i].parent = chain[i - 1].id
  BY <1>1 DEF ChainsTo
<1>6. ASSUME NEW i \in 2 .. n PROVE Narrows(chain[i], chain[i - 1]) /\ chain[i - 1].id < chain[i].id
  <2>1. i \in 1 .. n /\ i - 1 \in 1 .. n
    BY SMTT(30)
  <2>2. PICK e \in Issued : e = chain[i].id /\ chain[i] = grants[e] /\ Delegated(e)
    BY <1>4, <2>1
  <2>3. PICK p \in Nat : p = chain[i - 1].id /\ chain[i - 1] = grants[p] /\ chain[i].parent = p
    BY <1>4, <1>5, <2>1
  <2>4. p \in Int
    BY SMTT(30)
  <2>5. grants[e].parent = p /\ p # Absent
    BY <2>2, <2>3, <2>4, GrantAssumption
  <2>6. p < e /\ Narrows(grants[e], grants[p])
    BY <2>2, <2>5 DEF Delegated
  <2> QED
    BY <2>2, <2>3, <2>6
<1>7. \A i, j \in DOMAIN chain : chain[i].id = chain[j].id => i = j
  <2>1. PICK d : d = [i \in 1 .. n |-> chain[i].id]
    OBVIOUS
  <2>2. d \in [1 .. n -> Nat] /\ \A i \in 1 .. n : d[i] = chain[i].id
    BY <1>4, <2>1
  <2>3. \A i \in 2 .. n : i \in 1 .. n /\ i - 1 \in 1 .. n
    BY SMTT(30)
  <2>4. \A i \in 2 .. n : d[i - 1] < d[i]
    BY <1>6, <2>2, <2>3
  <2>5. \A i, j \in 1 .. n : d[i] = d[j] => i = j
    BY <2>2, <2>4, IdsGrow
  <2> QED
    BY <1>3, <2>2, <2>5
<1>8. \A i \in DOMAIN chain : assertGrantShape(chain[i])
  BY <1>3, <1>4 DEF Delegated
<1>9. Head(chain).parent = Absent
  <2>1. Head(chain) = chain[1]
    BY SMTT(30), <1>2
  <2> QED
    BY <2>1 DEF ChainsTo
<1>10. chain[Len(chain)].subject = grants[id].subject
  BY DEF ChainsTo
<1> QED
  BY <1>1, <1>2, <1>6, <1>7, <1>8, <1>9, <1>10 DEF validateGrantChain

(***************************************************************************)
(* What attenuateMeshGrant() checks of one link is all that                *)
(* validateGrantChain() demands of the chain: a stored chain of an         *)
(* admissible length is well formed to the middleware, whichever of its    *)
(* grants were revoked since (access-control.ts).                          *)
(***************************************************************************)
THEOREM AttenuationSuffices == GrantsSpec => []BuiltChainsValidate
<1>1. GrantIInv /\ [GrantsNext]_grantVars => GrantIInv'
  BY GrantNext
<1>2. GrantIInv => BuiltChainsValidate
  BY BuiltChains
<1> QED
  BY <1>1, <1>2, GrantInit, PTL DEF GrantsSpec
=============================================================================
