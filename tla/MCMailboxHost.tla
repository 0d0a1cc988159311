--------------------------- MODULE MCMailboxHost ---------------------------
(***************************************************************************)
(* A small host: two handlers, two colos, one mesh beside the recovery     *)
(* prefix, and four mixes of requests (MailboxHost); and two devices whose *)
(* mesh the host evicts while they are away (Lineage).  Each initial state *)
(* gives work to one of the two.                                           *)
(***************************************************************************)
EXTENDS MailboxHost, Lineage, TLC

CONSTANTS none, k1, k2, h1, h2, s1, p1, p2

MCAddress == {"a", RecoveryStoragePrefix}
head == [dir |-> "changes", file |-> "head"]
chg == [dir |-> "changes", file |-> "chg"]
changes == [dir |-> "changes", file |-> "*"]
pointer == [dir |-> "", file |-> "manifest"]
snapshot == [dir |-> "", file |-> "manifest-1"]
record == [dir |-> "", file |-> "evicted"]
everything == [dir |-> "/", file |-> "*"]
beat == [dir |-> "devices", file |-> "d1"]
wrapper == [dir |-> "wrappers", file |-> "w"]
photo == [dir |-> "files", file |-> "photo"]
song == [dir |-> "files", file |-> "song"]
film == [dir |-> "files", file |-> "film"]
MCName == {head, chg, pointer, snapshot, beat, wrapper}

R(op, method, a, n, v, g, c) ==
  [op |-> op, method |-> method, address |-> a, name |-> n, value |-> v, guard |-> g, colo |-> c]
File(method, n, v, c) == R("file", method, "a", n, v, none, c)
Post(op, n, c) == R(op, "POST", "a", n, 0, none, c)
Blob(method, n, v, g) == R("stored-file", method, "a", n, v, g, k1)

\* Change files come and go while two colos list them.
Exchange ==
  {File("PUT", chg, 1, c) : c \in Colo} \cup {Post("list-files", changes, c) : c \in Colo}
    \cup {Post("ensure-folder", snapshot, k1), Post("list-folders", snapshot, k1),
          File("DELETE", chg, 0, k2), File("DELETE", changes, 0, k1)}

\* Heads and manifests are written, read, cached and wiped.
Manifests ==
  {File("PUT", head, v, k1) : v \in 0..2}
    \cup {File("PUT", snapshot, v, k1) : v \in {1, 2}}
    \cup {File("GET", snapshot, 0, k2), Post("metadata", chg, k1),
          File("PUT", record, 1, k1), File("GET", record, 0, k1),
          File("DELETE", everything, 0, k1)}

\* Stored files within a quota, some of them sealed.
Uploads ==
  {Blob("PUT", photo, v, none) : v \in 1..3} \cup {Blob("PUT", photo, 2, "seal")}
    \cup {Blob("PUT", song, 2, none), Blob("PUT", film, 2, none),
          Blob("DELETE", photo, 0, none), Blob("GET", photo, 0, none)}
    \cup {File("PUT", beat, 1, k1)}

\* Recovery wrappers, next to deletions of everything.
Recovery ==
  {R("recovery", "PUT", RecoveryStoragePrefix, wrapper, v, none, k1) : v \in {1, 2}}
    \cup {R("recovery", "GET", RecoveryStoragePrefix, wrapper, 0, none, k1)}
    \cup {R("file", "DELETE", a, everything, 0, none, k1) : a \in MCAddress}
    \cup {File("PUT", chg, 1, k1)}

MCLoads == {Exchange, Manifests, Uploads, Recovery}
MCGateRuns == {<<"false", "true">>, <<"false", "throws">>, <<"false">>}
MCLayerRuns == {<<"none", "readonly">>, <<"full", "deny">>, <<"throws">>, <<>>}
Symmetry == Permutations(Handler)
MCPolicy == [minAge |-> 1, minDevices |-> 1, unknownAge |-> "allow"]

Story(keyed, manual, merging, settled, evict, misread, stop, write) ==
  [kind |-> [keyed |-> keyed, manual |-> manual, merging |-> merging],
   left |-> [settled |-> settled, evict |-> evict, misread |-> misread, misreads |-> misread,
             stop |-> stop, write |-> [d \in Peer |-> d \in write]]]

\* Two evictions; an eviction and a stop; an eviction and an unreadable pointer;
\* a mesh forked by a device that comes first after an eviction, from the start
\* and once the other device is settled; two newcomers and a stop.
MCStories ==
  {Story({}, {}, {}, Peer, 2, 0, 0, {p1}), Story({}, {}, {}, Peer, 1, 0, 1, {p1}),
   Story({}, {p1}, {}, Peer, 1, 1, 0, {p1}), Story({p1}, {}, {p2}, {}, 1, 0, 0, {p1}),
   Story({p1}, {}, {p2}, {p1}, 1, 0, 0, {p1}), Story({}, {}, {}, {}, 0, 0, 1, {p1})}

NoEviction ==
  room = EmptyRoom /\ dev = [p \in Peer |-> Installed] /\ kind = none /\ left = none

MCHostInit == HostInit /\ (NoEviction \/ (load = Exchange /\ LineageInit))

MCHostNext ==
  \/ kind = none /\ HostNext /\ UNCHANGED lineageVars
  \/ kind # none /\ LineageNext /\ UNCHANGED hostVars

MCHostSpec == MCHostInit /\ [][MCHostNext]_<<hostVars, lineageVars>>
=============================================================================
