-------------------------------- MODULE Group --------------------------------
(***************************************************************************)
(* geecache.Group (GeeCache/geecache/gocache.go, cache.go): concurrent    *)
(* Get calls on one namespace.  A Get checks the main cache under its      *)
(* mutex, and on a miss calls g.loader.Do (module SingleFlight) with a     *)
(* closure that asks the peer picker for a remote owner, fetches from it,  *)
(* and otherwise calls the getter and populates the cache (module LRU).    *)
(*                                                                         *)
(* The singleflight state (m, calls, pc, key, cur) and its steps are those *)
(* of module SingleFlight; pc[p] = "fn" while p runs the closure, whose    *)
(* own steps are `step[p]`.  The cache is lru.Cache; c.mu makes each       *)
(* cache.get and cache.add one step, and the lazy allocation of c.lru is   *)
(* an empty list.  The peer picker is abstracted to the keys whose ring    *)
(* owner is another node (RemoteKeys); the transport to a result that is   *)
(* a value or an error.                                                    *)
(***************************************************************************)
EXTENDS Naturals, Sequences, SequencesExt, FiniteSets, Functions, TLC

CONSTANTS
    Procs,          \* goroutines calling g.Get
    Keys,           \* keys callers pass, EmptyKey among them
    EmptyKey,       \* ""
    RemoteKeys,     \* keys PickPeer maps to another node once peers are set
    LoaderValue,    \* what g.getter returns on success
    LoaderError,    \* what g.getter returns on failure
    PeerValue,      \* what peer.Get returns on success
    PeerError,      \* what peer.Get returns on failure
    KeyRequired,    \* fmt.Errorf("key is required")
    None,           \* a result not yet set
    KeyLen, ValueLen, MaxBytes

Values == {LoaderValue, PeerValue}
CallIds == 1 .. Cardinality(Procs)
Errors == {LoaderError, PeerError}

\* What g.getter.Get returns: the bytes of the source or an error.
GetterResults == {LoaderValue, LoaderError}

\* What httpGetter.Get returns: the value, or an error when the request,
\* the status, the body read or the decoding fails.
PeerResults == {PeerValue, PeerError}

VARIABLES
    ll, cache, nbytes,          \* g.mainCache.lru
    m, calls, pc, key, cur,     \* g.loader and the goroutines inside Do
    peers,                      \* g.peers # nil
    gpc,                        \* gpc[p]: where p is in Get, outside Do
    step,                       \* step[p]: where p is in the closure
    out,                        \* out[p]: what p's closure returns
    res                         \* res[p]: what p's last Get returned

lruVars == <<ll, cache, nbytes>>
sfVars == <<m, calls, pc, key, cur>>
vars == <<ll, cache, nbytes, m, calls, pc, key, cur, peers, gpc, step, out, res>>

L == INSTANCE LRU WITH call <- <<>>, Values <- Values
SF == INSTANCE SingleFlight WITH Values <- Values, Errors <- Errors

\* cache.get (cache.go 26-37) under c.mu: a nil c.lru is the empty list
\* and misses; lru.Get moves a hit to the front.
CacheGet(k) == L!SetState(L!GetSt(L!State, k))

\* cache.add (cache.go 14-24) under c.mu: c.lru is allocated lazily (the
\* empty list), then lru.Add inserts or overwrites and evicts.
CacheAdd(k, v) == L!SetState(L!AddSt(L!State, k, v))

Init ==
    /\ L!Init
    /\ SF!Init
    /\ peers = FALSE
    /\ gpc = [p \in Procs |-> "idle"]
    /\ step = [p \in Procs |-> "pick"]
    /\ out = [p \in Procs |-> None]
    /\ res = [p \in Procs |-> None]

\* RegisterPeers: only the first call is legal, a second one panics.
RegisterPeers ==
    /\ ~peers
    /\ peers' = TRUE
    /\ UNCHANGED <<lruVars, sfVars, gpc, step, out, res>>

\* Get, lines 63-76: an empty key fails at once; otherwise cache.get,
\* which on a hit moves the entry to the front and returns it.
Get(p, k) ==
    /\ gpc[p] = "idle"
    /\ IF k = EmptyKey
       THEN /\ res' = [res EXCEPT ![p] = KeyRequired]
            /\ UNCHANGED <<lruVars, key, gpc>>
       ELSE /\ key' = [key EXCEPT ![p] = k]
            /\ IF k \in DOMAIN cache
               THEN /\ CacheGet(k)
                    /\ res' = [res EXCEPT ![p] = cache[k]]
                    /\ UNCHANGED gpc
               ELSE /\ gpc' = [gpc EXCEPT ![p] = "missed"]
                    /\ UNCHANGED <<lruVars, res>>
    /\ UNCHANGED <<m, calls, pc, cur, peers, step, out>>

\* load, line 79: g.loader.Do(key, closure); a leader starts the closure.
Load(p) ==
    /\ gpc[p] = "missed"
    /\ SF!Enter(p, key[p])
    /\ gpc' = [gpc EXCEPT ![p] = "do"]
    /\ step' = [step EXCEPT ![p] = "pick"]
    /\ UNCHANGED <<lruVars, peers, out, res>>

\* Closure lines 80-81: g.peers is read without a lock; PickPeer finds a
\* remote owner for the key or none.
PickPeer(p) ==
    /\ pc[p] = "fn" /\ step[p] = "pick"
    /\ step' = [step EXCEPT ![p] =
                  IF peers /\ key[p] \in RemoteKeys THEN "peer" ELSE "local"]
    /\ UNCHANGED <<lruVars, sfVars, peers, gpc, out, res>>

\* Mutant: a failed peer fetch is returned instead of falling back.
PeerFailReturned(p, r) ==
    /\ pc[p] = "fn" /\ step[p] = "peer"
    /\ step' = [step EXCEPT ![p] = "done"]
    /\ out' = [out EXCEPT ![p] = r]
    /\ UNCHANGED <<lruVars, sfVars, peers, gpc, res>>

\* Mutant: the peer's value is also put in the main cache.
PopulatePeerValue(p, r) ==
    /\ pc[p] = "fn" /\ step[p] = "peer"
    /\ step' = [step EXCEPT ![p] = IF r = PeerError THEN "local" ELSE "done"]
    /\ out' = [out EXCEPT ![p] = IF r = PeerError THEN out[p] ELSE r]
    /\ IF r = PeerError THEN UNCHANGED lruVars
                        ELSE CacheAdd(key[p], r)
    /\ UNCHANGED <<sfVars, peers, gpc, res>>

\* Closure lines 82-85 and getFromPeer 130-143: on success the peer's
\* value is returned and not cached; on failure fall through to getlocally.
GetFromPeer(p, r) ==
    /\ pc[p] = "fn" /\ step[p] = "peer"
    /\ step' = [step EXCEPT ![p] = IF r = PeerError THEN "local" ELSE "done"]
    /\ out' = [out EXCEPT ![p] = IF r = PeerError THEN out[p] ELSE r]
    /\ UNCHANGED <<lruVars, sfVars, peers, gpc, res>>

\* getlocally, lines 108-121: call the getter; on success populate the
\* cache (cache.add) and return.
GetLocally(p, r) ==
    /\ pc[p] = "fn" /\ step[p] = "local"
    /\ step' = [step EXCEPT ![p] = "done"]
    /\ out' = [out EXCEPT ![p] = r]
    /\ IF r = LoaderError THEN UNCHANGED lruVars
                          ELSE CacheAdd(key[p], r)
    /\ UNCHANGED <<sfVars, peers, gpc, res>>

\* Mutant: wg.Done is skipped when the closure fails.
FnDoneSkippedOnError(p) ==
    /\ pc[p] = "fn" /\ step[p] = "done"
    /\ SF!FnReturnNoDoneOnError(p, out[p])
    /\ UNCHANGED <<lruVars, peers, gpc, step, out, res>>

\* singleflight lines 38-39: the closure's result is stored, wg.Done().
FnDone(p) ==
    /\ pc[p] = "fn" /\ step[p] = "done"
    /\ SF!FnReturn(p, out[p])
    /\ UNCHANGED <<lruVars, peers, gpc, step, out, res>>

\* singleflight lines 41-45, then load lines 91-95: the leader returns.
LeaderReturn(p) ==
    /\ SF!Delete(p)
    /\ res' = [res EXCEPT ![p] = calls[cur[p]].val]
    /\ gpc' = [gpc EXCEPT ![p] = "idle"]
    /\ out' = [out EXCEPT ![p] = None]
    /\ UNCHANGED <<lruVars, peers, step>>

\* singleflight lines 29-30, then load lines 91-95: a waiter returns.
WaiterReturn(p) ==
    /\ SF!Wait(p)
    /\ res' = [res EXCEPT ![p] = calls[cur[p]].val]
    /\ gpc' = [gpc EXCEPT ![p] = "idle"]
    /\ UNCHANGED <<lruVars, peers, step, out>>

Next ==
    \/ RegisterPeers
    \/ \E p \in Procs :
        \/ \E k \in Keys : Get(p, k)
        \/ Load(p)
        \/ PickPeer(p)
        \/ \E r \in PeerResults : GetFromPeer(p, r)
        \/ \E r \in GetterResults : GetLocally(p, r)
        \/ FnDone(p)
        \/ LeaderReturn(p)
        \/ WaiterReturn(p)

\* A goroutine inside Get keeps running; the getter and the peer fetch
\* are assumed to return (no timeout bounds them, spec section 9).
Fairness ==
    \A p \in Procs :
        /\ WF_vars(Load(p))
        /\ WF_vars(PickPeer(p))
        /\ WF_vars(\E r \in PeerResults : GetFromPeer(p, r))
        /\ WF_vars(\E r \in GetterResults : GetLocally(p, r))
        /\ WF_vars(FnDone(p))
        /\ WF_vars(LeaderReturn(p))
        /\ WF_vars(WaiterReturn(p))

Spec == Init /\ [][Next]_vars /\ Fairness

\* What a state is for TLC: the record of a call no goroutine and no map
\* entry refers to any more, the key of an idle goroutine and the closure
\* step of a goroutine outside it are dead data that no step reads
\* before overwriting it.
StateView ==
    <<ll, cache, nbytes, m, pc, cur, peers, gpc, out, res,
      [c \in CallIds \ SF!FreeIds |-> calls[c]],
      [p \in Procs |-> IF gpc[p] = "idle" THEN None ELSE key[p]],
      [p \in Procs |-> IF pc[p] = "fn" THEN step[p] ELSE None]>>

-----------------------------------------------------------------------------

TypeOK ==
    /\ L!TypeOK
    /\ SF!TypeOK
    /\ peers \in BOOLEAN
    /\ gpc \in [Procs -> {"idle", "missed", "do"}]
    /\ step \in [Procs -> {"pick", "peer", "local", "done"}]
    /\ out \in [Procs -> Values \cup Errors \cup {None}]
    /\ res \in [Procs -> Values \cup Errors \cup {KeyRequired, None}]

\* A step in which p's Get returns through the loader.
LoadReturns(p) == gpc[p] = "do" /\ gpc'[p] = "idle"

\* Spec 4.4 (3a): the owning peer is the authority for a value it serves,
\* so a value fetched from a peer is never put in the local main cache,
\* however the fetches, local loads and evictions of concurrent Gets mix.
PeerValueNeverCached == \A k \in DOMAIN cache : cache[k] = LoaderValue

\* Spec section 7: a peer transport error is never surfaced to a caller of
\* Get; the closure falls back to the getter, so every Get that returns
\* through the loader, leader or waiter, returns a value or the getter's
\* error.
PeerErrorsNeverSurface ==
    [][\A p \in Procs : LoadReturns(p) => res'[p] \in Values \cup {LoaderError}]_vars

\* Spec 4.3, inside Group: one closure runs at a time per key, however
\* Gets that hit, miss, join and lead interleave.
OneExecutionPerKey == SF!OneExecutionPerKey

\* Spec 4.3, inside Group: a Get that leaves loader.Do, leader or waiter,
\* returns the outcome its call's closure stored, never the empty c.val.
ReturnsSharedOutcome ==
    [][\A p \in Procs :
         SF!Returns(p) => calls[cur[p]].val \in Values \cup Errors /\ calls[cur[p]].key = key[p]]_vars

\* Every Get returns, once the getter and the peer fetch return.
GetReturns == \A p \in Procs : gpc[p] # "idle" ~> gpc[p] = "idle"

\* Spec 4.4 (4) and scenario 1: concurrent Gets of the same missing key
\* cause one load, so the getter is never called for a key the main cache
\* already holds.
NoLoadWhileCached ==
    [][\A p \in Procs, r \in GetterResults :
         GetLocally(p, r) => key[p] \notin DOMAIN cache]_vars

=============================================================================
