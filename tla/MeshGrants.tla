----------------------------- MODULE MeshGrants -----------------------------
(***************************************************************************)
(* Delegated access to a mesh (packages/workers/src/access-control.ts).    *)
(*                                                                         *)
(* attenuateMeshGrant() and markMeshGrantRevoked() make the grants, the    *)
(* middleware decides requests from the chain the application loads.       *)
(* Grants are stored by the application under their ids, and a chain is    *)
(* the grant of the principal with all of its ancestors, the root first:   *)
(* storage and loading are external.  A request loads its chain and is     *)
(* decided later; grants may be revoked in between.                        *)
(***************************************************************************)
EXTENDS Integers, Sequences, FiniteSets, Presence

CONSTANTS
    MaxGrants,      \* bound on the grants that are issued
    Subjects,
    Beginnings, Expiries,   \* the bounds a grant may set to its validity, Absent among them
    Requests,       \* the requests that are made, one each
    MaxDepth,       \* the root's delegation depth is at most this
    maxChainLength,
    LastTime,       \* bound on the clock
    MaxRevoked      \* bound on the grants that are revoked

VARIABLES
    grants,   \* the stored grants by id; Absent where none was issued
    now,
    request   \* for every request: its chain and its outcome

grantVars == <<grants, now, request>>

GrantIds == 1 .. MaxGrants

\* Times are milliseconds; an optional field may be left out.
Grant ==
    [id : Nat, parent : Nat \cup {Absent}, issuer : Subjects, subject : Subjects,
     authorization : {"readonly", "full"}, depth : Nat, issuedAt : Int,
     notBefore : Int \cup {Absent}, expiresAt : Int \cup {Absent}, revokedAt : Int \cup {Absent}]

ASSUME GrantAssumption ==
    /\ MaxGrants \in Nat /\ MaxDepth \in Nat
    /\ Absent \notin Grant \cup Int \cup {"readonly", "full"}
    /\ Beginnings \cup Expiries \subseteq Int \cup {Absent}

authorizationRank(a) == IF a = "full" THEN 2 ELSE 1

Issued == {id \in GrantIds : grants[id] # Absent}

\* Ids are fresh.
Unused == {id \in GrantIds : id = Cardinality(Issued) + 1}

\* A window opens before it closes, and a grant is issued before it expires.
assertGrantShape(g) ==
    /\ g.notBefore # Absent /\ g.expiresAt # Absent => g.notBefore < g.expiresAt
    /\ g.expiresAt # Absent => g.issuedAt < g.expiresAt
    /\ g.revokedAt # Absent => g.revokedAt >= g.issuedAt

\* The links validateGrantChain() demands of neighbours in a chain.
Narrows(child, parent) ==
    /\ child.parent = parent.id
    /\ child.issuer = parent.subject
    /\ child.issuedAt >= parent.issuedAt
    /\ authorizationRank(child.authorization) <= authorizationRank(parent.authorization)
    /\ parent.depth # 0 /\ child.depth < parent.depth
    /\ parent.notBefore # Absent => child.notBefore # Absent /\ child.notBefore >= parent.notBefore
    /\ parent.expiresAt # Absent => child.expiresAt # Absent /\ child.expiresAt <= parent.expiresAt

\* A chain that fails these is an error, never an answer.
validateGrantChain(chain, subject) ==
    /\ chain # <<>> /\ Len(chain) <= maxChainLength
    /\ \A i, j \in DOMAIN chain : chain[i].id = chain[j].id => i = j
    /\ \A i \in DOMAIN chain : assertGrantShape(chain[i])
    /\ Head(chain).parent = Absent
    /\ \A i \in 2 .. Len(chain) : Narrows(chain[i], chain[i - 1])
    /\ chain[Len(chain)].subject = subject

activeAt_Leaf(chain, t) ==
    LET g == chain[Len(chain)] IN
    /\ g.revokedAt = Absent /\ t >= g.issuedAt
    /\ g.notBefore # Absent => t >= g.notBefore
    /\ g.expiresAt # Absent => t < g.expiresAt

\* Every grant of the chain must be in force.
activeAt(chain, t) ==
    \A i \in DOMAIN chain :
        LET g == chain[i] IN
        /\ g.revokedAt = Absent /\ t >= g.issuedAt
        /\ g.notBefore # Absent => t >= g.notBefore
        /\ g.expiresAt # Absent => t < g.expiresAt

-----------------------------------------------------------------------------
(* Issuing and revoking *)

IssueRoot(id, g) ==
    /\ Issued = {} /\ assertGrantShape(g)
    /\ grants' = [grants EXCEPT ![id] = g]
    /\ UNCHANGED <<now, request>>

\* What the child leaves open it takes from its parent.
Inherited(mine, theirs) == IF mine = Absent THEN theirs ELSE mine

Child(id, p, s, auth, depth, from, until) ==
    [id |-> id, parent |-> p.id, issuer |-> p.subject, subject |-> s, authorization |-> auth,
     depth |-> depth, issuedAt |-> now, notBefore |-> Inherited(from, p.notBefore),
     expiresAt |-> Inherited(until, p.expiresAt), revokedAt |-> Absent]

Attenuates(p, g) ==
    /\ p.revokedAt = Absent
    /\ authorizationRank(g.authorization) <= authorizationRank(p.authorization)
    /\ p.depth # 0 /\ g.depth < p.depth
    /\ g.issuedAt >= p.issuedAt
    /\ p.notBefore # Absent => g.notBefore >= p.notBefore
    /\ p.expiresAt # Absent => g.expiresAt <= p.expiresAt
    /\ assertGrantShape(g)

\* The holder delegates from the copy of the parent that is stored.
attenuateMeshGrant(id, parent, s, auth, depth, from, until) ==
    /\ LET g == Child(id, grants[parent], s, auth, depth, from, until) IN
       /\ Attenuates(grants[parent], g)
       /\ grants' = [grants EXCEPT ![id] = g]
    /\ UNCHANGED <<now, request>>

\* Revoking again keeps the first time.
markMeshGrantRevoked(id) ==
    /\ Cardinality({g \in Issued : grants[g].revokedAt # Absent} \cup {id}) <= MaxRevoked
    /\ now >= grants[id].issuedAt
    /\ grants' = [grants EXCEPT ![id].revokedAt = IF @ = Absent THEN now ELSE @]
    /\ UNCHANGED <<now, request>>

Tick ==
    /\ now < LastTime /\ now' = now + 1
    /\ UNCHANGED <<grants, request>>

-----------------------------------------------------------------------------
(* The middleware *)

\* The stored ancestors of a grant up to the grant itself, the root first.
ChainsTo(id) ==
    {chain \in UNION {[1 .. n -> {grants[g] : g \in Issued}] : n \in GrantIds} :
        /\ chain[1].parent = Absent /\ chain[Len(chain)] = grants[id]
        /\ \A i \in 2 .. Len(chain) : chain[i].parent = chain[i - 1].id}

loadGrantChain(r, id) ==
    /\ request[r].pc = "off"
    /\ \E chain \in ChainsTo(id) :
          request' = [request EXCEPT ![r] = [pc |-> "decide", chain |-> chain, answer |-> Absent]]
    /\ UNCHANGED <<grants, now>>

Decide(r) ==
    /\ request[r].pc = "decide"
    /\ LET chain == request[r].chain
           leaf == chain[Len(chain)]
       IN request' = [request EXCEPT ![r] = [pc |-> "done", chain |-> <<>>, answer |->
                         IF ~validateGrantChain(chain, leaf.subject) THEN "error"
                         ELSE IF activeAt(chain, now) THEN leaf.authorization ELSE "deny"]]
    /\ UNCHANGED <<grants, now>>

GrantsInit ==
    /\ grants = [id \in GrantIds |-> Absent] /\ now = 0
    /\ request = [r \in Requests |-> [pc |-> "off", chain |-> <<>>, answer |-> Absent]]

RootGrants(id) ==
    [id : {id}, parent : {Absent}, issuer : Subjects, subject : Subjects,
     authorization : {"readonly", "full"}, depth : 0 .. MaxDepth, issuedAt : {now},
     notBefore : Beginnings, expiresAt : Expiries, revokedAt : {Absent}]

GrantsNext ==
    \/ \E id \in Unused : \E g \in RootGrants(id) : IssueRoot(id, g)
    \/ \E id \in Unused, parent \in Issued, s \in Subjects, auth \in {"readonly", "full"},
          depth \in 0 .. MaxDepth, from \in Beginnings, until \in Expiries :
          attenuateMeshGrant(id, parent, s, auth, depth, from, until)
    \/ \E id \in Issued : markMeshGrantRevoked(id)
    \/ \E r \in Requests : Decide(r) \/ \E id \in Issued : loadGrantChain(r, id)
    \/ Tick

-----------------------------------------------------------------------------
(* Properties *)

\* A chain that was built by attenuation is always one the middleware accepts
\* as well formed, however its grants were revoked since, up to the maximum
\* length: what attenuateMeshGrant() checks is all that validateGrantChain()
\* demands.
BuiltChainsValidate ==
    \A id \in Issued : \A chain \in ChainsTo(id) :
        Len(chain) <= maxChainLength => validateGrantChain(chain, grants[id].subject)

\* No delegation widens access: a request is granted at most the rights of the
\* root of its chain, within the root's window and depth, and only when none
\* of the ancestors was revoked at the time the chain was loaded.
GrantedWithinRoot ==
    [][\A r \in Requests :
          (request[r].pc = "decide" /\ request'[r].answer \in {"readonly", "full"}) =>
              LET chain == request[r].chain
                  root == Head(chain)
              IN /\ authorizationRank(request'[r].answer) <= authorizationRank(root.authorization)
                 /\ root.notBefore # Absent => now >= root.notBefore
                 /\ root.expiresAt # Absent => now < root.expiresAt
                 /\ Len(chain) <= root.depth + 1
                 /\ \A i \in DOMAIN chain : chain[i].revokedAt = Absent]_grantVars
=============================================================================
