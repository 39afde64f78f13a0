------------------------------- MODULE XClient -------------------------------
(***************************************************************************)
(* The load-balancing client of GeeRPC (GeeRPC/xclient): a                 *)
(* MultiServersDiscovery (discovery.go) that holds the server list and the *)
(* round-robin index under d.mu, and an XClient (xclient.go) that caches   *)
(* one *Client per address under xc.mu.  Call picks one server with        *)
(* d.Get; BroadCast starts one goroutine per server of d.GetAll and keeps  *)
(* the first error, cancelling the others.                                 *)
(*                                                                         *)
(* Goroutines are the callers of xc.Call (Callers) and the BroadCast       *)
(* workers, one per address (the lists carry no address twice).  xc.dial   *)
(* holds xc.mu from the cache lookup through XDial, so it is two steps     *)
(* with the lock held between them.  A *Client is an identifier from       *)
(* ClientIds, reused once it is closed and nothing refers to it; its       *)
(* state is "open", "broken" (client.shutdown: the connection failed) or   *)
(* "closed" (client.closing).  What client.Call does over the connection   *)
(* is module RPC; here it returns a reply or an error.  An index out of    *)
(* range in Get is a run-time panic that ends the process (`panicked`).    *)
(***************************************************************************)
EXTENDS Naturals, Sequences, SequencesExt, FiniteSets, Functions, TLC

CONSTANTS
    Addrs,       \* rpc addresses "protocol@addr"
    Lists,       \* server lists NewMultiServerDiscovery and Update are given
    Modes,       \* the SelectModes the XClient can be created with
    Random, RoundRobin,
    MaxIndex,    \* d.r.Intn(math.MaxInt32 - 1), cut to 0..MaxIndex
    Callers,     \* goroutines calling xc.Call
    ConnectTimeout, \* opt.ConnectTimeout # 0 (DefaultOption: 10s)
    ClientIds,   \* identifiers of *Client values
    Nobody

\* The goroutines: callers of Call, and the BroadCast worker of each address.
Goroutines == Callers \cup Addrs

\* What xc.call returns: nil, a call or dial error, or the error of
\* client.Call when ctx is done ("call failed: context canceled").
Results == {"ok", "err", "canceled"}

VARIABLES
    servers, index, mode,   \* d.servers, d.index, xc.mode
    panicked,               \* Get indexed d.servers out of range
    clients,                \* xc.clients: address -> client id
    cstate,                 \* cstate[id]: "open", "broken" or "closed"
    xcmu,                   \* the goroutine holding xc.mu, or Nobody
    hs,                     \* hs[g]: the NewClient goroutine of g's dialTimeout
    leaked,                 \* a NewClient goroutine is blocked on ch for ever
    pc, addr, cl, res,      \* per goroutine: place, address, client, result
    bpc, blist,             \* the BroadCast goroutine and its servers
    e, replyDone, cancelled \* BroadCast's e, replyDone and ctx cancellation

dVars == <<servers, index, mode, panicked>>
xVars == <<clients, cstate, xcmu, hs, leaked>>
gVars == <<pc, addr, cl, res>>
bVars == <<bpc, blist, e, replyDone, cancelled>>
vars == <<dVars, xVars, gVars, bVars>>

\* client.IsAvailable(): !client.shutdown && !client.closing
IsAvailable(id) == cstate[id] = "open"

\* A closed identifier no goroutine and no cache entry refers to.
FreeIds == {id \in ClientIds : cstate[id] = "closed"} \ (Range(clients) \cup Range(cl))

\* NewMultiServerDiscovery(servers) with a random initial index, and
\* NewXClient(d, mode, opt) with an empty client map.
Init ==
    /\ servers \in Lists
    /\ index \in 0 .. MaxIndex
    /\ mode \in Modes
    /\ panicked = FALSE
    /\ clients = [a \in {} |-> 0]
    /\ cstate = [id \in ClientIds |-> "closed"]
    /\ xcmu = Nobody
    /\ hs = [g \in Goroutines |-> "none"]
    /\ leaked = FALSE
    /\ pc = [g \in Goroutines |-> "idle"]
    /\ addr = [g \in Goroutines |-> CHOOSE a \in Addrs : TRUE]
    /\ cl = [g \in Goroutines |-> 0]
    /\ res = [g \in Goroutines |-> "ok"]
    /\ bpc = "idle"
    /\ blist = <<>>
    /\ e = "none"
    /\ replyDone = FALSE
    /\ cancelled = FALSE

\* Update(servers), under d.mu.
Update(l) ==
    /\ ~panicked
    /\ servers' = l
    /\ UNCHANGED <<index, mode, panicked, xVars, gVars, bVars>>

\* Goroutine g goes on to xc.call(a).
Dispatch(g, a) ==
    /\ pc' = [pc EXCEPT ![g] = "dial"]
    /\ addr' = [addr EXCEPT ![g] = a]

\* xc.Call: d.Get(xc.mode) under d.mu.  No server is an error; Random
\* picks any; RoundRobin reads d.servers[d.index] and advances the index
\* modulo n.  Then xc.call(rpcAddr).
Get(g) ==
    /\ ~panicked /\ pc[g] = "idle" /\ g \in Callers
    /\ LET n == Len(servers) IN
       \/ n = 0 /\ UNCHANGED vars
       \/ /\ n > 0 /\ mode = Random
          /\ \E i \in 1 .. n : Dispatch(g, servers[i])
          /\ UNCHANGED <<dVars, xVars, cl, res, bVars>>
       \/ /\ n > 0 /\ mode = RoundRobin /\ index >= n
          /\ panicked' = TRUE
          /\ UNCHANGED <<servers, index, mode, xVars, gVars, bVars>>
       \/ /\ n > 0 /\ mode = RoundRobin /\ index < n
          /\ Dispatch(g, servers[index + 1])
          /\ index' = (index + 1) % n
          /\ UNCHANGED <<servers, mode, panicked, xVars, cl, res, bVars>>

\* Mutant: xc.dial looks the address up without taking xc.mu.
DialLookupUnlocked(g) ==
    /\ ~panicked /\ pc[g] = "dial"
    /\ LET a == addr[g] IN
       IF a \in DOMAIN clients /\ ~IsAvailable(clients[a])
       THEN /\ cstate' = [cstate EXCEPT ![clients[a]] = "closed"]
            /\ clients' = Restrict(clients, DOMAIN clients \ {a})
            /\ cl' = [cl EXCEPT ![g] = 0]
       ELSE /\ cl' = [cl EXCEPT ![g] = IF a \in DOMAIN clients THEN clients[a] ELSE 0]
            /\ UNCHANGED <<clients, cstate>>
    /\ pc' = [pc EXCEPT ![g] = "connect"]
    /\ UNCHANGED <<dVars, xcmu, hs, leaked, addr, res, bVars>>

\* xc.dial, lines 43-51: take xc.mu and read xc.clients[rpcAddr] into
\* `client` (cl[g]); a cached client that is not available is closed,
\* dropped and `client` set to nil (0).
DialLookup(g) ==
    /\ ~panicked /\ pc[g] = "dial" /\ xcmu = Nobody
    /\ xcmu' = g
    /\ LET a == addr[g] IN
       IF a \in DOMAIN clients /\ ~IsAvailable(clients[a])
       THEN /\ cstate' = [cstate EXCEPT ![clients[a]] = "closed"]
            /\ clients' = Restrict(clients, DOMAIN clients \ {a})
            /\ cl' = [cl EXCEPT ![g] = 0]
       ELSE /\ cl' = [cl EXCEPT ![g] = IF a \in DOMAIN clients THEN clients[a] ELSE 0]
            /\ UNCHANGED <<clients, cstate>>
    /\ pc' = [pc EXCEPT ![g] = "connect"]
    /\ UNCHANGED <<dVars, hs, leaked, addr, res, bVars>>

\* Where g goes when its xc.call returns r: a caller returns, a worker
\* goes on to record r.
Finish(g, r) ==
    /\ pc' = [pc EXCEPT ![g] = IF g \in Callers THEN "idle" ELSE "record"]
    /\ res' = [res EXCEPT ![g] = r]
    /\ cl' = [cl EXCEPT ![g] = 0]

\* Mutant: xc.clients[rpcAddr] = client stored before the XDial error is
\* checked, so a failed dial caches nil.
DialConnectCachesFirst(g) ==
    /\ ~panicked /\ pc[g] = "connect"
    /\ \/ /\ cl[g] # 0
          /\ xcmu' = Nobody
          /\ pc' = [pc EXCEPT ![g] = "call"]
          /\ UNCHANGED <<clients, hs, cl, res>>
       \/ /\ cl[g] = 0
          /\ xcmu' = Nobody
          /\ Finish(g, "err")
          /\ clients' = [a \in DOMAIN clients \cup {addr[g]} |->
                           IF a = addr[g] THEN 0 ELSE clients[a]]
          /\ UNCHANGED hs
       \/ /\ cl[g] = 0
          /\ hs' = [hs EXCEPT ![g] = "running"]
          /\ pc' = [pc EXCEPT ![g] = "handshake"]
          /\ UNCHANGED <<clients, xcmu, cl, res>>
    /\ UNCHANGED <<dVars, cstate, leaked, addr, bVars>>

\* xc.dial, lines 53-58, still under xc.mu: a cached client is used and
\* xc.mu released.  Otherwise XDial (client.go 329-342) goes to
\* dialTimeout (277-297): a malformed address, bad options or a failed
\* net.DialTimeout are returned as the error of xc.call (xclient.go
\* 66-69), releasing xc.mu; once connected, a goroutine runs NewClient
\* (or NewHTTPClient) on the connection and g waits for it, xc.mu held.
DialConnect(g) ==
    /\ ~panicked /\ pc[g] = "connect"
    /\ \/ /\ cl[g] # 0
          /\ xcmu' = Nobody
          /\ pc' = [pc EXCEPT ![g] = "call"]
          /\ UNCHANGED <<clients, hs, cl, res>>
       \/ /\ cl[g] = 0
          /\ xcmu' = Nobody
          /\ Finish(g, "err")
          /\ UNCHANGED <<clients, hs>>
       \/ /\ cl[g] = 0
          /\ hs' = [hs EXCEPT ![g] = "running"]
          /\ pc' = [pc EXCEPT ![g] = "handshake"]
          /\ UNCHANGED <<clients, xcmu, cl, res>>
    /\ UNCHANGED <<dVars, cstate, leaked, addr, bVars>>

\* The goroutine of dialTimeout, lines 293-296: NewClient (client.go
\* 140-155) writes the options and starts the receive loop, or fails and
\* closes the connection; its result is then ready on the unbuffered ch.
Handshake(g) ==
    /\ ~panicked /\ hs[g] = "running"
    /\ \E r \in {"ok", "failed"} : hs' = [hs EXCEPT ![g] = r]
    /\ UNCHANGED <<dVars, clients, cstate, xcmu, leaked, gVars, bVars>>

\* dialTimeout, lines 299-309: g receives the result from ch; xc.dial
\* caches a new client (lines 57-60) or returns the error; xc.mu is
\* released.
DialReceive(g) ==
    /\ ~panicked /\ pc[g] = "handshake" /\ hs[g] \in {"ok", "failed"}
    /\ hs' = [hs EXCEPT ![g] = "none"]
    /\ xcmu' = Nobody
    /\ \/ /\ hs[g] = "ok"
          /\ \E id \in FreeIds :
               /\ cstate' = [cstate EXCEPT ![id] = "open"]
               /\ clients' = [a \in DOMAIN clients \cup {addr[g]} |->
                                IF a = addr[g] THEN id ELSE clients[a]]
               /\ cl' = [cl EXCEPT ![g] = id]
          /\ pc' = [pc EXCEPT ![g] = "call"]
          /\ UNCHANGED res
       \/ /\ hs[g] = "failed"
          /\ Finish(g, "err")
          /\ UNCHANGED <<clients, cstate>>
    /\ UNCHANGED <<dVars, leaked, addr, bVars>>

\* dialTimeout, lines 304-306 and the deferred conn.Close (286-290):
\* time.After fires first, whether or not NewClient has finished.  The
\* connect timeout error is returned and xc.mu released; nobody will
\* ever receive from ch, so the NewClient goroutine, with any client it
\* built over the now closed connection, blocks for ever (`leaked`).
DialTimeout(g) ==
    /\ ~panicked /\ pc[g] = "handshake" /\ ConnectTimeout
    /\ hs' = [hs EXCEPT ![g] = "none"]
    /\ leaked' = TRUE
    /\ xcmu' = Nobody
    /\ Finish(g, "err")
    /\ UNCHANGED <<dVars, clients, cstate, addr, bVars>>

\* What client.Call(ctx, ...) can return: on a client that is not open
\* registerCall fails with ErrShutDown; once ctx is cancelled the select
\* can take ctx.Done() whether or not the call has finished.
CallResults(g) ==
    (IF cstate[cl[g]] = "open" THEN {"ok", "err"} ELSE {"err"})
    \cup (IF g \in Addrs /\ cancelled THEN {"canceled"} ELSE {})

\* Mutant: a worker whose call failed cancels ctx before it takes mu.
InvokeCancelsEarly(g, r) ==
    /\ ~panicked /\ pc[g] = "call"
    /\ r \in CallResults(g)
    /\ Finish(g, r)
    /\ cancelled' = (cancelled \/ (g \in Addrs /\ r # "ok"))
    /\ UNCHANGED <<dVars, xVars, addr, bpc, blist, e, replyDone>>

\* xc.call, line 70: client.Call returns r.
Invoke(g, r) ==
    /\ ~panicked /\ pc[g] = "call"
    /\ r \in CallResults(g)
    /\ Finish(g, r)
    /\ UNCHANGED <<dVars, xVars, addr, bVars>>

\* BroadCast, lines 85-99: d.GetAll copies the list; e = nil, replyDone
\* = false (reply is not nil), a cancellable ctx, and one worker per
\* server, which goes on to xc.call(rpcAddr) (line 105).
BroadCast ==
    /\ ~panicked /\ bpc = "idle"
    /\ blist' = servers
    /\ pc' = [g \in Goroutines |-> IF g \in ToSet(servers) THEN "dial" ELSE pc[g]]
    /\ addr' = [g \in Goroutines |-> IF g \in ToSet(servers) THEN g ELSE addr[g]]
    /\ e' = "none"
    /\ replyDone' = FALSE
    /\ cancelled' = FALSE
    /\ bpc' = "wait"
    /\ UNCHANGED <<dVars, xVars, cl, res>>

\* Mutant: the worker's goroutine returns without wg.Done when its call
\* failed.
RecordNoDoneOnError(w) ==
    /\ ~panicked /\ pc[w] = "record"
    /\ e' = IF res[w] # "ok" /\ e = "none" THEN res[w] ELSE e
    /\ cancelled' = (cancelled \/ (res[w] # "ok" /\ e = "none"))
    /\ replyDone' = (replyDone \/ res[w] = "ok")
    /\ pc' = [pc EXCEPT ![w] = IF res[w] = "ok" THEN "done" ELSE "exited"]
    /\ UNCHANGED <<dVars, xVars, addr, cl, res, bpc, blist>>

\* Worker, lines 107-116 under mu: the first error is kept in e and
\* cancels ctx; the first success fills reply; then wg.Done (line 100).
Record(w) ==
    /\ ~panicked /\ pc[w] = "record"
    /\ e' = IF res[w] # "ok" /\ e = "none" THEN res[w] ELSE e
    /\ cancelled' = (cancelled \/ (res[w] # "ok" /\ e = "none"))
    /\ replyDone' = (replyDone \/ res[w] = "ok")
    /\ pc' = [pc EXCEPT ![w] = "done"]
    /\ UNCHANGED <<dVars, xVars, addr, cl, res, bpc, blist>>

\* BroadCast, lines 119-120: wg.Wait() returns once every worker is done,
\* and e is returned.
BroadCastReturn ==
    /\ ~panicked /\ bpc = "wait"
    /\ \A a \in ToSet(blist) : pc[a] = "done"
    /\ pc' = [g \in Goroutines |-> IF g \in ToSet(blist) THEN "idle" ELSE pc[g]]
    /\ bpc' = "idle"
    /\ UNCHANGED <<dVars, xVars, addr, cl, res, blist, e, replyDone, cancelled>>

\* The connection of an open client fails: its receive loop ends with
\* client.shutdown set (module RPC, Terminate).
Break(id) ==
    /\ ~panicked /\ cstate[id] = "open"
    /\ cstate' = [cstate EXCEPT ![id] = "broken"]
    /\ UNCHANGED <<dVars, clients, xcmu, hs, leaked, gVars, bVars>>

\* xc.Close, lines 21-29: under xc.mu every cached client is closed and
\* deleted.
Close ==
    /\ ~panicked /\ xcmu = Nobody
    /\ cstate' = [id \in ClientIds |-> IF id \in Range(clients) THEN "closed" ELSE cstate[id]]
    /\ clients' = [a \in {} |-> 0]
    /\ UNCHANGED <<dVars, xcmu, hs, leaked, gVars, bVars>>

Next ==
    \/ \E l \in Lists : Update(l)
    \/ BroadCast
    \/ BroadCastReturn
    \/ Close
    \/ \E id \in ClientIds : Break(id)
    \/ \E g \in Goroutines :
        \/ Get(g)
        \/ DialLookup(g)
        \/ DialConnect(g)
        \/ Handshake(g)
        \/ DialReceive(g)
        \/ DialTimeout(g)
        \/ \E r \in Results : Invoke(g, r)
        \/ Record(g)

\* A goroutine inside xc.call keeps running.  sync.Mutex hands the lock to
\* a waiter that has waited long (starvation mode), so a dial waiting for
\* xc.mu gets it (strong fairness); a result ready on ch is received and
\* the connect timer fires, but NewClient itself need not finish (the
\* server may never answer), so Handshake has no fairness and a dial ends
\* through its timeout; client.Call returns (module RPC, CallReturns).  Calls, updates,
\* broadcasts, Close and failures of connections are never forced.
Fairness ==
    /\ WF_vars(BroadCastReturn)
    /\ \A g \in Goroutines :
        /\ SF_vars(DialLookup(g))
        /\ WF_vars(DialConnect(g))
        /\ WF_vars(DialReceive(g))
        /\ WF_vars(DialTimeout(g))
        /\ WF_vars(\E r \in Results : Invoke(g, r))
        /\ WF_vars(Record(g))

Spec == Init /\ [][Next]_vars /\ Fairness

\* What a state is for TLC: the address of a caller outside xc.call, the
\* result of a goroutine that is not about to record it, BroadCast's
\* list, e and ctx while no BroadCast runs, and replyDone, which nothing
\* after line 114 reads, are dead data.
StateView ==
    <<servers, index, mode, panicked, clients, cstate, xcmu, hs, leaked, pc, cl,
      [g \in Goroutines |-> IF pc[g] \in {"dial", "connect", "handshake", "call"} THEN addr[g] ELSE Nobody],
      [g \in Goroutines |-> IF pc[g] = "record" THEN res[g] ELSE Nobody],
      IF bpc = "wait" THEN <<blist, e, cancelled>> ELSE Nobody>>

-----------------------------------------------------------------------------

TypeOK ==
    /\ servers \in Lists
    /\ index \in 0 .. MaxIndex
    /\ mode \in Modes
    /\ panicked \in BOOLEAN
    /\ DOMAIN clients \subseteq Addrs /\ \A a \in DOMAIN clients : clients[a] \in ClientIds
    /\ cstate \in [ClientIds -> {"open", "broken", "closed"}]
    /\ xcmu \in Goroutines \cup {Nobody}
    /\ hs \in [Goroutines -> {"none", "running", "ok", "failed"}]
    /\ leaked \in BOOLEAN
    /\ pc \in [Goroutines -> {"idle", "dial", "connect", "handshake", "call", "record", "done"}]
    /\ addr \in [Goroutines -> Addrs]
    /\ cl \in [Goroutines -> ClientIds \cup {0}]
    /\ res \in [Goroutines -> Results]
    /\ bpc \in {"idle", "wait"}
    /\ e \in {"none", "err", "canceled"}
    /\ replyDone \in BOOLEAN /\ cancelled \in BOOLEAN

\* Every *Client the XClient dialled and has not closed is still in
\* xc.clients or in the hands of a goroutine inside xc.call, and the cache
\* holds no closed client: concurrent dials of one address, a dial that
\* replaces a broken client and Close never leave a connection open that
\* nothing can close.
NoLeakedClient ==
    LET live == {id \in ClientIds : cstate[id] # "closed"}
    IN  /\ live \subseteq Range(clients) \cup Range(cl)
        /\ Range(clients) \subseteq live

\* BroadCast's comment: when an instance fails, one of the errors is
\* returned.  The error BroadCast keeps is a real failure of a call, never
\* the "context canceled" that its own cancel() causes in the other
\* workers: cancel() runs under mu after e is set.
BroadCastErrorIsRealFailure == e # "canceled"

\* Every BroadCast returns: each worker reaches wg.Done, whatever its dial
\* or call returns, unless a panic ended the process.
BroadCastReturns == bpc = "wait" ~> (bpc = "idle" \/ panicked)

\* d.index is the index of the next server of the list (discovery.go line
\* 29, and the comment on line 76): Get never indexes d.servers out of
\* range.
NoIndexOutOfRange == ~panicked

=============================================================================
