------------------------------- MODULE Cluster -------------------------------
(***************************************************************************)
(* Several GeeCache nodes serving one namespace to each other over        *)
(* HTTPPool (GeeCache/geecache/http.go, gocache.go, singleflight.go).     *)
(* Each node has its own Group (main cache, loader) and its own HTTPPool,  *)
(* whose ring is built by Set from the peer list the node is given.  A Get *)
(* that misses runs the loader's closure, which asks the node's ring for   *)
(* the owner of the key and, if that is another node, fetches the key from *)
(* it with an HTTP GET; the owner serves it with its own Group.Get.       *)
(*                                                                         *)
(* One key is looked up.  Its hash and the hash of every virtual point are *)
(* chosen in Init, so every order and collision of points is explored;     *)
(* since they never change, Init also computes, with the operators of      *)
(* module HashRing, the owner of the key on the ring of each list a node   *)
(* is given, and Set selects the ring.  The main cache is reduced to      *)
(* whether it holds the key (eviction by other keys is left out: Gets are  *)
(* few).  A goroutine is named by the chain of requests that led to it:    *)
(* <<n>> is a caller of Get on node n, Append(g, m) the handler on node m  *)
(* serving g's fetch.                                                      *)
(***************************************************************************)
EXTENDS Naturals, Sequences, SequencesExt, FiniteSets, Functions, TLC

CONSTANTS
    Nodes,          \* the addresses of the nodes
    Replicas,       \* defaultReplicas
    HashRange,      \* the values the hash function can produce
    NoNode,         \* "", what Get returns on an empty ring
    Lists,          \* Lists[n]: the peer lists node n is Set with, in order
    SetFirst,       \* the program calls Set before RegisterPeers
    MaxCalls,       \* bound on the Gets callers make
    None            \* nil

VARIABLES
    owner,          \* owner[n][i]: the node the ring built from Lists[n][i]
                    \* gives the key
    registered,     \* registered[n]: g.peers # nil on node n
    ring,           \* ring[n]: p.peers of node n was built from Lists[n][ring[n]];
                    \* 0 before Set (nil)
    cached,         \* cached[n]: n's main cache holds the key
    flight,         \* flight[n]: "free", or the call in g.m "busy" or "stored"
    stored,         \* stored[n]: c.val, c.err of n's call once stored
    gs,             \* the goroutines: id -> [pc, out]
    calls           \* the Gets callers have made so far

vars == <<owner, registered, ring, cached, flight, stored, gs, calls>>

Outcomes == {"val", "err"}

EmptyMap == [h \in {} |-> NoNode]

\* The ring of consistenthash.Map under the hash function hf.
Ring(ks, hm, hf) == INSTANCE HashRing WITH keys <- ks, hashMap <- hm, hash <- hf,
                                           MaxPoints <- Replicas * Cardinality(Nodes)

\* The virtual points <<i, node>>.
VirtualPoints == (0 .. Replicas - 1) \X Nodes

\* Set, lines 82-93, under p.mu: a new ring with the points of every peer
\* of the list added (consistenthash New and Add), and its getters.
BuildRing(hf, l) ==
    [keys |-> Ring(<<>>, EmptyMap, hf)!SortRing(Ring(<<>>, EmptyMap, hf)!AddedHashes(l)),
     hashMap |-> Ring(<<>>, EmptyMap, hf)!MapPoints(EmptyMap, l, 1)]

\* consistenthash Get(key), for a key of hash kh, on the ring built from l.
OwnerIn(hf, kh, l) == LET r == BuildRing(hf, l) IN Ring(r.keys, r.hashMap, hf)!Get(kh)

\* p.peers.Get(key) on node n.
Owner(n) == owner[n][ring[n]]

NodeOf(g) == Last(g)
IsHandler(g) == Len(g) > 1

Init ==
    /\ \E hf \in [VirtualPoints -> HashRange], kh \in HashRange :
         owner = [n \in Nodes |-> [i \in DOMAIN Lists[n] |-> OwnerIn(hf, kh, Lists[n][i])]]
    /\ registered = [n \in Nodes |-> FALSE]
    /\ ring = [n \in Nodes |-> 0]
    /\ cached = [n \in Nodes |-> FALSE]
    /\ flight = [n \in Nodes |-> "free"]
    /\ stored = [n \in Nodes |-> None]
    /\ gs = [g \in {} |-> None]
    /\ calls = 0

\* Set, http.go lines 82-93: p.peers is replaced, under p.mu, by the ring
\* of the next list node n is given.
SetPeers(n) ==
    /\ ring[n] < Len(Lists[n])
    /\ ring' = [ring EXCEPT ![n] = @ + 1]
    /\ UNCHANGED <<owner, calls, registered, cached, flight, stored, gs>>

\* RegisterPeers, gocache.go lines 123-128: once; the program calls it
\* after Set when SetFirst holds.
RegisterPeers(n) ==
    /\ ~registered[n]
    /\ SetFirst => ring[n] # 0
    /\ registered' = [registered EXCEPT ![n] = TRUE]
    /\ UNCHANGED <<owner, calls, ring, cached, flight, stored, gs>>

\* A caller on node n calls g.Get(key).
Call(n) ==
    /\ <<n>> \notin DOMAIN gs
    /\ calls < MaxCalls
    /\ calls' = calls + 1
    /\ gs' = gs @@ (<<n>> :> [pc |-> "get", out |-> None])
    /\ UNCHANGED <<owner, registered, ring, cached, flight, stored>>

At(g, p) == g \in DOMAIN gs /\ gs[g].pc = p

Goto(g, p) == gs' = [gs EXCEPT ![g].pc = p]

Finish(g, v) == gs' = [gs EXCEPT ![g] = [pc |-> "ret", out |-> v]]

\* Get, gocache.go lines 63-76: a hit returns the cached value, a miss
\* goes on to load.
Get(g) ==
    /\ At(g, "get")
    /\ IF cached[NodeOf(g)] THEN Finish(g, "val") ELSE Goto(g, "do")
    /\ UNCHANGED <<owner, calls, registered, ring, cached, flight, stored>>

\* loader.Do, singleflight.go lines 21-36, under g.mu: join the call in
\* g.m (whose wg is already done if its outcome is stored) or become the
\* leader and run the closure.
Enter(g) ==
    LET n == NodeOf(g) IN
    /\ At(g, "do")
    /\ CASE flight[n] = "free"   -> /\ flight' = [flight EXCEPT ![n] = "busy"]
                                    /\ Goto(g, "pick")
         [] flight[n] = "busy"   -> /\ Goto(g, "wait")
                                    /\ UNCHANGED flight
         [] flight[n] = "stored" -> /\ Finish(g, stored[n])
                                    /\ UNCHANGED flight
    /\ UNCHANGED <<owner, calls, registered, ring, cached, stored>>

\* The handler g served by net/http ends; a panic is recovered there and
\* the connection closed.  The requester's http.Get returns the body of a
\* 200 answer, or an error for a 500 answer or a broken connection, and
\* getFromPeer falls back to getlocally on an error.
Answer(h, v, delivered) ==
    LET r == Front(h) IN
    gs' = [g \in DOMAIN gs \ {h} |->
             IF g = r
             THEN IF delivered /\ v = "val" THEN [pc |-> "fnret", out |-> "val"]
                                            ELSE [pc |-> "local", out |-> None]
             ELSE gs[g]]

\* httpGetter.Get, http.go lines 110-138: the GET for the key reaches node
\* m, whose net/http starts a handler for it; the requester waits for the
\* answer without a timeout (Answer ends the wait).
Fetch(g, m) ==
    gs' = [gs EXCEPT ![g].pc = "fetch"] @@ (Append(g, m) :> [pc |-> "get", out |-> None])

\* Mutant: PickPeer also returns the node itself.
OwnerRemoteSelf(n) == Owner(n) # NoNode

\* PickPeer, http.go line 99: a peer other than the node itself.
OwnerRemote(n) == Owner(n) \notin {NoNode, n}

\* The closure, gocache.go lines 80-88, and PickPeer, http.go lines 95-104:
\* with peers registered, a nil ring panics in p.peers.Get; a remote owner
\* is fetched from (httpGetter.Get, lines 110-138), and a request that
\* never reaches it fails at once; otherwise getlocally.  A panic unwinds
\* past loader.Do, leaving the call in g.m; net/http recovers it in a
\* handler, and a caller is taken to be served by net/http too (as the
\* API servers of the examples are), so the node lives on.
Pick(g, reach) ==
    LET n == NodeOf(g) IN
    /\ At(g, "pick")
    /\ IF registered[n] /\ ring[n] = 0
       THEN IF IsHandler(g) THEN Answer(g, None, FALSE)
                            ELSE gs' = [x \in DOMAIN gs \ {g} |-> gs[x]]
       ELSE IF registered[n] /\ OwnerRemote(n)
       THEN IF reach
            THEN Fetch(g, Owner(n))
            ELSE Goto(g, "local")
       ELSE Goto(g, "local")
    /\ UNCHANGED <<owner, calls, registered, ring, cached, flight, stored>>

\* getlocally, gocache.go lines 108-121: the getter's value is added to
\* the main cache; its error is returned.
Local(g, ok) ==
    /\ At(g, "local")
    /\ gs' = [gs EXCEPT ![g] = [pc |-> "fnret", out |-> IF ok THEN "val" ELSE "err"]]
    /\ cached' = IF ok THEN [cached EXCEPT ![NodeOf(g)] = TRUE] ELSE cached
    /\ UNCHANGED <<owner, calls, registered, ring, flight, stored>>

\* Mutant: the outcome is stored but wg.Done is not called.
FnReturnNoDone(g) ==
    LET n == NodeOf(g) IN
    /\ At(g, "fnret")
    /\ flight' = [flight EXCEPT ![n] = "stored"]
    /\ stored' = [stored EXCEPT ![n] = gs[g].out]
    /\ gs' = [gs EXCEPT ![g].pc = "delete"]
    /\ UNCHANGED <<owner, calls, registered, ring, cached>>

\* Mutant: a waiter reads c.val and c.err before c.wg.Wait (lines 29-30
\* swapped), so it returns the zero values it read.
FnReturnWaitersReadEarly(g) ==
    LET n == NodeOf(g) IN
    /\ At(g, "fnret")
    /\ flight' = [flight EXCEPT ![n] = "stored"]
    /\ stored' = [stored EXCEPT ![n] = gs[g].out]
    /\ gs' = [x \in DOMAIN gs |->
                IF x = g THEN [gs[x] EXCEPT !.pc = "delete"]
                ELSE IF NodeOf(x) = n /\ gs[x].pc = "wait"
                     THEN [pc |-> "ret", out |-> None]
                     ELSE gs[x]]
    /\ UNCHANGED <<owner, calls, registered, ring, cached>>

\* singleflight.go lines 38-39: c.val, c.err are stored and wg.Done wakes
\* every goroutine waiting on the call, with its outcome.
FnReturn(g) ==
    LET n == NodeOf(g) IN
    /\ At(g, "fnret")
    /\ flight' = [flight EXCEPT ![n] = "stored"]
    /\ stored' = [stored EXCEPT ![n] = gs[g].out]
    /\ gs' = [x \in DOMAIN gs |->
                IF x = g THEN [gs[x] EXCEPT !.pc = "delete"]
                ELSE IF NodeOf(x) = n /\ gs[x].pc = "wait"
                     THEN [pc |-> "ret", out |-> gs[g].out]
                     ELSE gs[x]]
    /\ UNCHANGED <<owner, calls, registered, ring, cached>>

\* singleflight.go lines 41-43: the call is deleted from g.m.
Delete(g) ==
    LET n == NodeOf(g) IN
    /\ At(g, "delete")
    /\ flight' = [flight EXCEPT ![n] = "free"]
    /\ stored' = [stored EXCEPT ![n] = None]
    /\ Goto(g, "ret")
    /\ UNCHANGED <<owner, calls, registered, ring, cached>>

\* A caller's Get returns.
Return(g) ==
    /\ At(g, "ret") /\ ~IsHandler(g)
    /\ gs' = [x \in DOMAIN gs \ {g} |-> gs[x]]
    /\ UNCHANGED <<owner, calls, registered, ring, cached, flight, stored>>

\* ServeHTTP, http.go lines 65-79: the handler writes the value, or a 500
\* for the error of Get; the answer reaches the requester or the
\* connection breaks.
Respond(h, delivered) ==
    /\ At(h, "ret") /\ IsHandler(h)
    /\ Answer(h, gs[h].out, delivered)
    /\ UNCHANGED <<owner, calls, registered, ring, cached, flight, stored>>

Step(g) ==
    \/ Get(g)
    \/ Enter(g)
    \/ \E reach \in BOOLEAN : Pick(g, reach)
    \/ \E ok \in BOOLEAN : Local(g, ok)
    \/ FnReturn(g)
    \/ Delete(g)
    \/ Return(g)
    \/ \E d \in BOOLEAN : Respond(g, d)

Next ==
    \/ \E n \in Nodes :
        \/ SetPeers(n)
        \/ RegisterPeers(n)
        \/ Call(n)
    \/ \E g \in DOMAIN gs : Step(g)

\* A goroutine that can run runs; the getter and a request that reached
\* its peer return (no timeout bounds them, spec section 9).  Every
\* goroutine takes finitely many steps and callers make at most MaxCalls
\* Gets, so fairness for the steps of all goroutines together is fairness
\* for each.
Spec == Init /\ [][Next]_vars /\ WF_vars(\E g \in DOMAIN gs : Step(g))


-----------------------------------------------------------------------------

\* The type of the state; a goroutine past its closure, or returning from
\* Get, holds the value or the error of a call (never the zero values).
TypeOK ==
    /\ registered \in [Nodes -> BOOLEAN]
    /\ \A n \in Nodes : ring[n] \in 0 .. Len(Lists[n])
    /\ cached \in [Nodes -> BOOLEAN]
    /\ calls \in 0 .. MaxCalls
    /\ flight \in [Nodes -> {"free", "busy", "stored"}]
    /\ stored \in [Nodes -> Outcomes \cup {None}]
    /\ \A g \in DOMAIN gs : g \in Seq(Nodes) /\ Len(g) \in 1 .. Cardinality(Nodes) + 1
    /\ \A g \in DOMAIN gs :
         gs[g] \in [pc : {"get", "do", "wait", "pick", "fetch", "local", "fnret", "delete", "ret"},
                    out : Outcomes \cup {None}]
    /\ \A g \in DOMAIN gs :
         gs[g].pc \in {"fnret", "delete", "ret"} => gs[g].out \in Outcomes

\* Spec 4.4 and 4.5: a chain of peer fetches never comes back to a node
\* it passed through.  Such a request would join, on that node, the call
\* that is waiting for it, and every Get of the key there would hang.
\* Every node's ring is built from its own list; the lists may differ, as
\* they do while a new list is rolled out, and points may collide.
NoFetchCycle == \A g \in DOMAIN gs : IsInjective(g)

\* Every Get a caller makes returns, whatever the order of Set,
\* RegisterPeers and the Gets of other nodes.
GetReturns == \A n \in Nodes : <<n>> \in DOMAIN gs ~> <<n>> \notin DOMAIN gs

=============================================================================
