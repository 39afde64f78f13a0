------------------------------ MODULE HashRing ------------------------------
(***************************************************************************)
(* consistenthash.Map (GeeCache/geecache/consistenhash/consistenthash.go). *)
(* The hash function is left open: `hash` is chosen in Init among all     *)
(* functions from virtual points <<i, node>> (the string Itoa(i) ++ node)  *)
(* to a small range of hash values and then never changes, so every way   *)
(* the points of different nodes can order and collide is explored.  A    *)
(* lookup key matters to Get only through its hash, so Get is checked for *)
(* every hash value.                                                       *)
(***************************************************************************)
EXTENDS Naturals, Sequences, SequencesExt, FiniteSets, TLC

CONSTANTS
    Nodes,      \* real node names passed to Add
    Replicas,   \* m.replicas
    HashRange,  \* the values m.hash can produce
    NoNode,     \* the "" Get returns on an empty ring
    MaxPoints   \* bound on Len(m.keys): Add appends even for a known node

\* The virtual points: replica index and real node.
Points == (0 .. Replicas - 1) \X Nodes

\* The argument lists Add is called with: one or two distinct nodes.
AddArgs == {<<n>> : n \in Nodes} \cup ({<<a, b>> : a, b \in Nodes} \ {<<n, n>> : n \in Nodes})

VARIABLES
    hash,     \* hash[<<i, n>>] = m.hash([]byte(strconv.Itoa(i) + n))
    keys,     \* m.keys: the ring, sorted after each Add
    hashMap   \* m.hashMap: virtual point hash -> real node

vars == <<hash, keys, hashMap>>

\* New(replicas, fn): an empty ring under some hash function.
Init ==
    /\ hash \in [Points -> HashRange]
    /\ keys = <<>>
    /\ hashMap = [h \in {} |-> NoNode]

\* The points of the nodes of ns, in the order the two loops visit them.
AddedHashes(ns) ==
    [j \in 1 .. Len(ns) * Replicas |->
        hash[<<(j - 1) % Replicas, ns[(j - 1) \div Replicas + 1]>>]]

\* Mutant: the map keyed by the replica index i instead of the hash.
RECURSIVE MapPointsByIndex(_, _, _)
MapPointsByIndex(hm, ns, j) ==
    IF j > Len(ns) * Replicas THEN hm
    ELSE LET n == ns[(j - 1) \div Replicas + 1]
             h == (j - 1) % Replicas
         IN  MapPointsByIndex([x \in DOMAIN hm \cup {h} |-> IF x = h THEN n ELSE hm[x]], ns, j + 1)

\* hashMap after the loops: a later write to the same hash wins.
RECURSIVE MapPoints(_, _, _)
MapPoints(hm, ns, j) ==
    IF j > Len(ns) * Replicas THEN hm
    ELSE LET n == ns[(j - 1) \div Replicas + 1]
             h == hash[<<(j - 1) % Replicas, n>>]
         IN  MapPoints([x \in DOMAIN hm \cup {h} |-> IF x = h THEN n ELSE hm[x]], ns, j + 1)

\* Mutant: sort.Ints(m.keys) left out.
RingUnsorted(s) == s

\* sort.Ints(m.keys)
SortRing(s) == SortSeq(s, <)

\* Add(keys...): append every point, map it to its node, sort the ring.
Add(ns) ==
    /\ Len(keys) + Len(ns) * Replicas <= MaxPoints
    /\ keys' = SortRing(keys \o AddedHashes(ns))
    /\ hashMap' = MapPoints(hashMap, ns, 1)
    /\ UNCHANGED hash

\* Mutant: the search predicate keys[i] > hash in place of >=.
RECURSIVE SearchFromStrict(_, _, _, _)
SearchFromStrict(s, h, i, j) ==
    IF i >= j THEN i
    ELSE LET mid == (i + j) \div 2
         IN  IF ~(s[mid + 1] > h) THEN SearchFromStrict(s, h, mid + 1, j)
                                  ELSE SearchFromStrict(s, h, i, mid)

\* sort.Search(n, f): the least 0-based i in 0..n with f(i) true, found by
\* the bisection of the Go library.
RECURSIVE SearchFrom(_, _, _, _)
SearchFrom(s, h, i, j) ==
    IF i >= j THEN i
    ELSE LET mid == (i + j) \div 2
         IN  IF ~(s[mid + 1] >= h) THEN SearchFrom(s, h, mid + 1, j)
                                   ELSE SearchFrom(s, h, i, mid)

Search(s, h) == SearchFrom(s, h, 0, Len(s))

\* Get for a key whose hash is h: the node of the first point >= h, the
\* index taken modulo the ring size to wrap around.
Get(h) ==
    IF Len(keys) = 0 THEN NoNode
    ELSE hashMap[keys[(Search(keys, h) % Len(keys)) + 1]]

Next == \E ns \in AddArgs : Add(ns)

Spec == Init /\ [][Next]_vars

-----------------------------------------------------------------------------

TypeOK ==
    /\ hash \in [Points -> HashRange]
    /\ keys \in Seq(HashRange)
    /\ DOMAIN hashMap \subseteq HashRange
    /\ \A h \in DOMAIN hashMap : hashMap[h] \in Nodes
    /\ \A i \in DOMAIN keys : keys[i] \in DOMAIN hashMap

\* The nodes Add has registered.
Registered == {p[2] : p \in {q \in Points : \E i \in DOMAIN keys : keys[i] = hash[q]}}

\* Reference definition of the ring successor: the owner of the smallest
\* point at or after h, or of the smallest point when none is (ring
\* closure), written over the set of points rather than the sorted array.
Successor(h) ==
    LET pts == ToSet(keys)
        ge  == {x \in pts : x >= h}
        min(S) == CHOOSE x \in S : \A y \in S : x <= y
    IN  IF pts = {} THEN NoNode ELSE hashMap[IF ge = {} THEN min(pts) ELSE min(ge)]

\* Spec 4.2 and 8 (ring wraparound): for every key hash, Get's bisection
\* over the sorted m.keys, with the modulo wrap, finds the ring successor.
GetIsSuccessor == \A h \in HashRange : Get(h) = Successor(h)

\* Spec 8 (minimal disruption): Add moves a key only to one of the nodes
\* being added; every other key keeps its owner.
AddMovesKeysOnlyToAdded ==
    [][\A ns \in AddArgs :
         Add(ns) => \A h \in HashRange : Get(h)' = Get(h) \/ Get(h)' \in ToSet(ns)]_vars

\* Spec section 3: every registered node has exactly Replicas virtual
\* points on the ring.
ReplicasPointsEach ==
    \A n \in Registered :
        Cardinality({h \in DOMAIN hashMap : hashMap[h] = n}) = Replicas

=============================================================================
