# TLA+ models of 7days-golang

This directory holds TLA+ models of the concurrent and algorithmic parts of
the repository. TLC checks them. Every module is translated from the Go
source under `src/`. `PROJECT.json` maps each definition to the lines it
models and lists the runs, their mutants, the findings and the hazards.

## The system

The repository holds four independent projects.

* **GeeCache** (`src/GeeCache/geecache`) is a distributed cache.
  * `lru.Cache` is a doubly linked list, a map and a byte counter. `Add` inserts or overwrites an entry, then evicts from the back until the budget holds.
  * `cache` wraps the LRU cache in a mutex and allocates it lazily.
  * `singleflight.Group.Do` lets concurrent callers of one key share a single execution of `fn`.
  * `consistenthash.Map` is a ring of virtual points. `Add` appends the points, maps them to their node and sorts the ring. `Get` bisects the ring with wraparound.
  * `Group.Get` checks the main cache. On a miss, `load` calls `loader.Do` with a closure. The closure asks the `PeerPicker` (`HTTPPool`, over the ring) for a remote owner and fetches from it with `httpGetter.Get`. If there is no remote owner, or the fetch fails, it calls the getter and populates the main cache.
* **GeeRPC** (`src/GeeRPC`) is an RPC framework.
  * The client multiplexes calls over one connection: a pending map, sequence numbers, a send lock and a receive loop.
  * The server runs one goroutine per request, with a send lock and a handle timeout.
  * `NewClient` writes the options first, and `ServeConn` decodes them before it starts the codec.
  * `MultiServersDiscovery` holds a server list and a round-robin index. `XClient` picks a server from it, caches one `*Client` per address (`dial`, under `xc.mu`, through `XDial` and `dialTimeout`), and broadcasts a call to every server.
  * `GeeRegistry` maps each server address to the time of its last POST. A GET lists the addresses that have not expired and deletes the others. Each server's `Heartbeat` POSTs its address once, then once per ticker period, until a POST fails.
* **Gee** (`src/WebFramework`) is a web framework: a routing trie (`router.addRoute` inserts a pattern into the trie of its method, `getRoute` searches it), route groups, a middleware chain driven by `Context.Next` and `Fail`, selected per request by group prefix. `Default` installs `Logger` and `Recovery`; `Recovery` and the day-7 router are not in the repository.
* **GeeORM** (`src/GeeORM`) is an ORM. It has a session that builds SQL, reflection over struct fields into a schema, and `Engine.Transaction` with commit, rollback and panic recovery. `Engine.Migrate` runs in a transaction: it creates the table, or adds the new columns with `ALTER TABLE` and rebuilds the table without the removed ones, statements going through the session's `Raw` and `Exec`.

## Modules

| module | models | state | actions |
|---|---|---|---|
| `BoundedStore` | the abstract store of spec section 4.1 | `store`, the recency relation `newer`, `call` | `Get`, `Add` (then drop least recently used until the budget holds), `RemoveOldest` |
| `LRU` | `lru/lru.go` | `ll` (keys, Front first), `cache` (key to value), `nbytes`, `call` | `Get`, `Add`, `RemoveOldest`, each the whole method; the eviction loop is the recursion `EvictLoop` |
| `SingleFlight` | `singleflight/singleflight.go` | `m`, `calls` (key, WaitGroup count, outcome), per goroutine `pc`, `key`, `cur` | `Enter` (lines 21-36 under `g.mu`), `FnReturn` (38-39), `Delete` (41-45), `Wait` (29-30) |
| `HashRing` | `consistenhash/consistenthash.go` | `hash` (chosen once), `keys`, `hashMap` | `Add` with one or two nodes; `Get(h)` and `Search` as operators |
| `Group` | `gocache.go`, `cache.go`, `http.go` (`PickPeer`, `httpGetter.Get`) | the LRU and SingleFlight variables, `peers`, per goroutine `gpc`, `step`, `out`, `res` | `RegisterPeers`, `Get`, `Load`, `PickPeer`, `GetFromPeer`, `GetLocally`, `FnDone`, `LeaderReturn`, `WaiterReturn`; `cache.get` and `cache.add` are the operators `CacheGet` and `CacheAdd` |
| `Cluster` | several GeeCache nodes: `http.go` (`Set`, `PickPeer`, `httpGetter.Get`, `ServeHTTP`), `gocache.go` and `singleflight.go` on each node | `owner` (the key's owner on the ring of each list a node is given, fixed in `Init`), per node `ring` (the list `p.peers` was built from, 0 for nil), `registered`, `cached`, `flight` and `stored` (the key's call in `g.m`), the goroutines `gs` (named by the chain of fetches that led to them) and `calls` | `SetPeers`, `RegisterPeers`, `Call`; per goroutine `Get`, `Enter`, `Pick` (with the panic on a nil ring and `Fetch`, the GET reaching the owner), `Local`, `FnReturn`, `Delete`, `Return`, `Respond` (the handler's answer reaches the requester or the connection breaks) |
| `RPC` | GeeRPC `client.go` and `server.go` over one connection | the `Client` fields (`seq`, `pending`, `closing`, `shutdown`, `sending`), per caller `cpc`, `cseq`, `cm`, `cres`, per call `done`, `callOut`, the receive loop `rpc`, `rhdr`, `rcall`, the streams `up` and `down`, the server loop `srv`, per request `hs` (handler), `gs` (svc.call goroutine), `hres`, `hfrom`, `answers` | client: `Register`, `Write`, `Return`, `CtxDone`, `Close`, `RecvHeader`, `RecvFail`, `RecvBody`, `Terminate`; server: `ServeConn`, `ReadRequest`, `InvalidRequest`, `ServeEOF`, `ServeDesync`, `ServerClose`, `ServiceReturn`, `Called`, `SendResult`, `Sent`, `Timeout` |
| `Registry` | GeeRPC `registry/registry.go` | `servers` (address to the age of its start time, capped at the timeout), per server `hb` (where `Heartbeat` is), `tk` (the ticker's phase), `pend` (a tick buffered in `t.C`) | `Heartbeat`, `Deliver` (`ServeHTTP`'s POST and `putServer`, then the response), `Lost` (the POST fails before the registry sees it), `Fire` (`<-t.C`), `PostNoAddr`, `AliveServers` (a GET), `Tick` |
| `Router` | Gee `day4-group/gee/router.go` over `day2-Context/gee/trie.go` | `roots` (method to trie; a node is named by its parts from the root and holds `pattern` and `children`), the handler keys `handlers`, the history variable `absorbed` | `AddRoute`, with `insert` as the recursion `Insert`; `getRoute`, `search`, `matchChild`, `matchChildren` and `parsePattern` are operators |
| `Middleware` | Gee `day7-panic/gee/gee.go` (`New`, `Group`, `Use`, `ServeHTTP`), `day6-templates/gee/context.go` (`newContext`, `Next`, `Fail`), `day7-panic/gee/logger.go` | `groups` (`e.groups`: prefix and middlewares), `uses`, and per request `req`, `handlers` (`c.handlers`), `index` (`c.index`), `stack` (the frames of the nested `Next` loops and handlers), the history variables `ran` and `failed` | `Group`, `Use`, `ServeHTTP` (selection by `strings.HasPrefix`, then `c.Next()`), `Invoke` (the loop calls `c.handlers[c.index]`), `NextReturn`, `HandlerCall` (a handler calls `Next` or `Fail`), `HandlerReturn` (the loop's `c.index++`), `Finish` |
| `SchemaStore` | what `Engine.Migrate` promises a table | `table` (its columns, or none) | `Migrated(f)`: the table becomes struct `f`'s fields at once |
| `Migrate` | GeeORM `geeorm.go` (`Transaction`, `difference`, `Migrate`) over `session/raw.go` (`DB`, `Raw`, `Exec`, `Clear`) | `db` (the committed table and the `tmp_` table, each a set of columns or `NoTable`), `tx` (the transaction's copy, or `NoTx`), `pc`, `fields`, `addCols`, `delCols`, `buf` (`s.sql`), `err`, `panicked`, `res`, and the history variables `before` and `calls` | `Begin` (`Transaction` up to `Begin`), `HasTable` (with `CreateTable`), `Query` (the `SELECT ... LIMIT 1` and `rows.Columns`, which panics when the query failed), `AddColumn`, `DropColumns` (the three `Raw` calls and one `Exec`), `TransactionEnd` (the deferred commit, rollback and re-panic); `Exec` runs `s.sql` through `DB()` with the recursion `Run` |
| `XClient` | GeeRPC `xclient/discovery.go`, `xclient/xclient.go`, and `dialTimeout`/`NewClient` of `client.go` | `servers`, `index`, `mode`, `panicked`, the cache `clients`, per client `cstate`, `xcmu`, per goroutine `pc`, `addr`, `cl`, `res`, `hs` (the NewClient goroutine), `leaked`, and BroadCast's `bpc`, `blist`, `e`, `replyDone`, `cancelled` | `Update`, `Get` (with `xc.Call`), `DialLookup`, `DialConnect`, `Handshake`, `DialReceive`, `DialTimeout`, `Invoke`, `BroadCast`, `Record`, `BroadCastReturn`, `Break`, `Close` |

`Group` instantiates `LRU` and `SingleFlight`. Its cache steps apply `LRU`'s
state operators under `c.mu`, and its loader steps are `SingleFlight`'s
actions. The closure's steps sit between `Enter` and `FnReturn`.

A mutex-protected section is one atomic step. A `*call` is an identifier from
`1..|Procs|` and is reused once nothing refers to it, so no counter grows.
The hash function is not crc32: `HashRing` explores every function from the
virtual points into `0..3`, and with it every order and collision of points.
The peer picker is abstracted to the set `RemoteKeys` of keys owned by
another node. A remote fetch returns a value or an error.

`Cluster` looks up one key. The hash of the key and of every virtual point
is chosen in `Init` over `0..2`, so every order and collision of points is
explored; since they never change, `Init` computes, with `HashRing`'s
`AddedHashes`, `SortRing`, `MapPoints` and `Get`, the owner of the key on the
ring of every list a node will be given, and `SetPeers` moves a node to its
next list. The main cache only records whether it holds the key.

In `RPC` each critical section under `client.mu`, `client.sending` or the
server's `sending` is one step. The connection is two sequences of
messages. A request is one header and one body written by a single `Write`.
Arguments and replies are abstracted to the caller the request came from (`from`). That lets a
reply be traced back to its request. A `*Call` is named by its sequence
number. `ServeConn`'s `json.Decoder` may read ahead and swallow requests
written right after the options. The gob decoder then starts mid-stream and
fails. In `XClient`, `xc.dial` holds `xc.mu` from the lookup through `XDial`,
so it is several steps with the lock held. A `*Client` is an identifier
whose state is open, broken (`shutdown`) or closed (`closing`).
`client.Call` returns a reply or an error, or a cancellation once the
broadcast context is cancelled; module `RPC` models what happens inside it.
An index out of range in `Get` is a panic that ends the process.

In `Middleware` a string is a sequence of characters, so `HasPrefix` is
`IsPrefix`. A middleware is a model value whose body is a program of
`Context` calls: Logger calls `Next` once; the others call it twice, not at
all, `Fail`, or `Next` and then `Fail`. The router of day 7, which would
append the route handler and call `c.Next()`, is not in the repository
(day 4's `router.handle` never calls `Next`), so the chain is started with
`c.Next()` on the selected middlewares.

In `Migrate` a statement is a record of its kind and columns; SQL text,
column order, types and rows are left out. SQLite refuses a statement that
does not fit the tables (an ADD of an existing column, a CREATE of an
existing table), and any statement may also fail on its own. An `Exec` of
several statements runs them in order and stops at the first failure, as
`go-sqlite3` does. `Session.Begin`, `Commit`, `Rollback`, `HasTable`,
`CreateTable` and `Model` are not in the repository (only `session/raw.go`
is), so they are modelled by their effect and may fail: a failed `HasTable`
query reads as false, and `CreateTable` then fails on the existing table.
`Migrate` is shown to implement `SchemaStore` through `INSTANCE ... WITH
table <- db.main`: whatever fails, the committed table changes only to a
struct's fields.

`LRU` is shown to implement `BoundedStore` through `INSTANCE ... WITH store <-
cache, newer <- ListOrder`. A history variable `call` records the method
called, so a `Get` that skips the promotion cannot pass as a stutter.

## Runs

| run | checks | shows |
|---|---|---|
| `lru` | `TypeOK`, `WithinBudget`, `RefinesBoundedStore` | 4 keys of lengths 1,1,1,2, values of length 0,1,2,5 and a budget of 5. This covers an overwrite that shrinks or grows an entry, an insert that evicts several entries, and an entry larger than the budget. Every behaviour is one of the abstract store's. |
| `hashring` | `TypeOK`, `GetIsSuccessor`, `AddMovesKeysOnlyToAdded` | 3 nodes, 2 replicas, hash range 0..3 and up to 8 points. `Get` equals the successor definition over the set of points, and adding nodes moves keys only to the added nodes. |
| `group` | `TypeOK`, `PeerValueNeverCached`, `OneExecutionPerKey`, `PeerErrorsNeverSurface`, `ReturnsSharedOutcome`, `GetReturns` | 2 goroutines, 2 keys and the empty key. One key is remote once peers are registered. The budget of 2 bytes holds one entry, so a load evicts. `singleflight.Do` runs `fn` at most once per key at a time, and every `Do` returns the outcome of a call for its own key. |
| `group_loadonce` (violation) | `NoLoadWhileCached` | The check-then-act between the cache and `loader.Do` runs the getter for a key already cached. |
| `cluster` | `TypeOK`, `NoFetchCycle`, `GetReturns` | Three nodes; `a` and `b` are given `<<a, b>>`, `<<a, b, c>>` and `<<a, b>>` in turn, each at any moment, while `c` has `<<a, b, c>>`; two Gets on any nodes; fetches that fail or whose answer is lost. Under every hash, no chain of peer fetches returns to a node it passed, and every Get returns. |
| `rpc` | `TypeOK`, `DoneAtMostOnce`, `OneResponsePerRequest`, `ReplyGoesToCaller`, `CallReturns` | Two callers, `c1` with a context deadline and `c2` without, two calls (`MaxSeq` 2), a known and an unknown method, the handle timeout, read-ahead of the options decoder, and `Close` at any moment. Every call is completed at most once and gets its own reply, every request gets at most one response, and every `Call` returns, even without a deadline. |
| `rpc_late_reply` (violation) | `NoReplyAfterReturn` | `receive` removes a call, `Call`'s deadline fires, and `receive` then writes the reply into a call whose `Call` already returned. |
| `xclient` | `TypeOK`, `NoLeakedClient`, `BroadCastErrorIsRealFailure`, `BroadCastReturns` | One caller of `Call` and a `BroadCast` over 2 servers, lists of length 0, 1 and 2, both select modes, broken connections, connect timeouts and `Close` at any moment. No dialled client is left open outside the cache, the error of `BroadCast` is never its own cancellation, and every `BroadCast` returns. |
| `registry` | `TypeOK`, `ListedWhileBeating` | Two servers beat with the default period against the default timeout, POSTs are lost or answered, and a GET or a POST without an address happens at any moment. A server whose loop still runs is always listed. |
| `router` | `TypeOK`, `RoutedPathFitsUnlessAbsorbed`, `FittingPathRoutedUnlessAbsorbed` | Five patterns added in every order, and every path of up to three parts. Unless an insert went through a wild node of another part, `getRoute` returns exactly the routes that fit the path, with backtracking. |
| `migrate` | `TypeOK`, `MigrateOutcome`, `TxEnds`, `RefinesSchemaStore` | Three calls of `Migrate` with structs (Name, Age) and (Name), from a table that is absent, is (Name, XXX) as in `geeorm_test.go`, or is (Name, Age); `Begin`, the column query, every statement and `Commit` may fail. The committed table only changes to a struct's fields, `nil` is returned only when it has them and an error or panic only when it is unchanged, no `tmp_` table is left, and every transaction ends. |
| `middleware` | `ChainInOrder`, `NoHandlerAfterFail`, `ChainCompletes` | Groups `/v` and `/v1` under the engine, up to three middlewares of the five kinds, requests to `/x`, `/v/x` and `/v1/x`. Every selected handler starts once and in order whatever the middlewares do with `Next`, none starts after `Fail`, and every chain returns having run all of them unless one failed. |

These bounds make every branch of the code happen: hits, misses, joins of a
call in flight, errors, fallback from a peer, eviction, wraparound and
collisions. `Group` with three goroutines exceeds the time budget, so it
uses two; the single-flight properties are checked inside it. The `VIEW` `StateView` of `Group` leaves out data
that no step reads before overwriting it: the records of free call ids, the
key of an idle goroutine, and the closure step of a goroutine outside it.

`RPC` uses `MaxSeq` 2. Two calls are enough for a reply to reach the wrong caller, for a
late reply, and for an invalid request followed by a valid one. `MaxSeq` 3
gives 16 million states. `XClient` uses 2 client identifiers, which lets two
dials of one address both create a client. A dial that would need a third live
client does not succeed in the model, though it can still fail or time out. Its `VIEW` leaves
out the address of a caller outside `xc.call`, a result already recorded,
BroadCast's data while none runs, and `replyDone`, which nothing reads after
it is set.

`Cluster` has three nodes, one replica and a hash range of 0..2, which gives
every order of the three points with and without collisions (81 hash
functions, reduced by `Init` to the owner tables they produce). The lists add
node `c` to `{a, b}` and remove it again, the rollout `Set` exists for, and
two Gets (`MaxCalls`) are enough for a second Get to meet what a first one
left in `g.m`. `NoFetchCycle` depends on the lists: with a node whose own
list omits it (`c` still serving after `a`'s list dropped it and `c` is given
`<<a, b>>`), or with lists in different orders and two colliding points, TLC
finds a chain `a -> c -> a` in which both loaders wait for each other for
ever, since `http.Get` has no timeout. Lists in one common order that contain
their own node never do it, and that is what `MC_Cluster.cfg` checks.
`MC_Cluster_poison.cfg` lets `RegisterPeers` come before `Set`: the first
miss panics in `p.peers.Get` inside `loader.Do`, and `GetReturns` fails.

`Registry` counts time in minutes: `defaultTimeout` is 5, so the default
ticker period is 4. An entry's age stops at the timeout, and a ticker's phase
is taken modulo the period, so the state space is finite. Two servers let one
beat while the other has stopped or not started. With `Timeout = 4` the
period equals the timeout and `ListedWhileBeating` fails, so the one-minute
slack is what the property rests on. `Middleware` has no type invariant in its run: the only ways to break one are the model's own bounds, not a change to the code. `Middleware` allows three groups and three `Use` calls: enough for a chain of
three whose first two call `Next` (nested loops two deep) and whose last
fails, and for `/v`'s middlewares to be selected for `/v1/x`. `Migrate` uses three columns and two structs, so the runs take every path of `Migrate`: create, add only, add and drop, drop only, and nothing to do; the failure position of the three-statement `Exec` ranges over each statement. Three calls let a migration follow a failed one. After them the program stops, so `MC_Migrate.cfg` disables the deadlock check. `Router` has one method, because the
tries of different methods never meet. Five patterns cover a static route,
a `:` route, two routes that share a prefix, and a `*` in the middle. Every
order of `addRoute` is explored. Paths go up to three parts over `a`, `b`,
`c` and the empty part, which is enough to reach the backtracking in `search`.

## Fairness

Weak fairness is assumed for every step of a goroutine that is already inside
`Get` or `Do`. The goroutine is runnable and the Go scheduler runs it. `fn`,
the getter and the peer fetch are assumed to return: nothing in the code
bounds them, and the liveness properties hold only under that assumption.
Callers are never forced to call `Get`, `Do`, `Add` or `RegisterPeers`.
In `RPC` the client's send, return and receive steps are weakly fair, and so are
the server's read, handler and `svc.call` steps. A deadline that is set
expires, and the handle timer fires. Callers are never forced to call or to close. In
`XClient` a dial waiting for `xc.mu` gets it eventually (strong fairness). `sync.Mutex` hands the
lock to a waiter that has starved. A result ready on `ch` is received, and the
connect timer fires. `NewClient` itself is not assumed to finish, because the server may never
answer. With `ConnectTimeout` FALSE, `BroadCastReturns` fails: one
handshake that never answers blocks every dial behind `xc.mu`.
In `Cluster` every goroutine's steps are weakly fair together: each
goroutine takes finitely many steps and there are at most `MaxCalls` callers,
so fairness of the disjunction is fairness of each. The getter and a request
that reached its peer are assumed to return (nothing bounds them, spec
section 9); `Set` and `RegisterPeers` are not forced.
In `Middleware` the steps of a request being served are weakly fair: the
chain runs on the request's goroutine, and every handler's program is
finite. `Registry`, `Router` and `Migrate` assume no fairness: no liveness property is checked
for them. `HashRing` has no goroutine. Its runs stop at the bound on the ring size, and
they disable the deadlock check for that reason.

## Findings

* `group_loadonce`: `Get` is a check-then-act. Concurrent gets of one missing key can load it twice, although spec section 4.4 says they load it once.
* `rpc_late_reply`: on `ctx.Done`, `Call` removes the call and returns. If `receive` had already removed it, `receive` still reads the reply into `call.Reply` after `Call` returned the context error.
* `router_hijack` (retired to free a run for `middleware`; `MC_Router_hijack.cfg` still shows it, and `router` checks what holds until it happens): `insert` descends into the first child that matches, and a wild child matches any part (`trie.go` line 15). A pattern added after a `:` route with the same prefix is stored under the wild node, in place of its own part. `getRoute` then serves it for paths it does not fit.
* Seen but not the subject of a run: `readRequest` returns before `ReadBody` when `findService` fails; the body left in the stream is then decoded as the next header, which fails and closes the connection, so every other pending call fails too (`ServesUntilClosed` under `MC_RPC_desync.cfg`; the run `rpc_desync` was retired to free a run for `migrate`). `Migrate` drops the errors of its column query: when it fails, `rows` is nil and `rows.Columns()` panics, so `Migrate` panics instead of returning an error; `Transaction` rolls back and re-panics, which `TxEnds` and `MigrateOutcome` check. `wg.Done` comes before the delete from `g.m` in `singleflight.Do`. A call arriving in between gets the old outcome, although the spec says the next call re-executes (`NoStaleJoin` in `SingleFlight`). A collision overwrites `hashMap`. The names `Itoa(i)+node` are ambiguous, so nodes `"2"` and `"12"` collide whenever `replicas > 12` (`ReplicasPointsEach` in `HashRing`). The heartbeat loop of a server stops for good after one failed POST, so the registry drops a live server after one lost request. `ServeHTTP` answers 500 to a POST without `X-GeeRPC-Server`, but it still registers the empty address (`PostNoAddr`). `ServeConn`'s `json.Decoder` can swallow the first requests. `MC_RPC_desync.cfg` with `ReadAhead = TRUE` shows it. `dialTimeout` leaks its `NewClient` goroutine when the timeout wins (`leaked` in `XClient`). `BroadCast` over an empty list returns nil without a reply. `MultiServersDiscovery.Get` reads `d.servers[d.index]` before it reduces the index modulo `n`, and the index starts at a random value below `MaxInt32-1`, so the first round-robin `Call` panics (`NoIndexOutOfRange` under `MC_XClient_roundrobin.cfg`; the run was retired because any single round-robin call shows it). A `RegisterPeers` before `Set` makes the first miss panic inside `loader.Do`, which has no `defer`: the call stays in `g.m` and every later Get of the key on that node hangs (`GetReturns` under `MC_Cluster_poison.cfg`).

## Plan and what is not modelled yet

The project has 12 runs, the most it keeps; the violations not kept as runs are listed under Findings with the configuration that shows each.

Left for later, in order of importance:

1. Violation runs for the `Cluster` poisoning and fetch cycle, the read-ahead of `ServeConn`, the desync after an unknown method, the `dialTimeout` leak, the stale join of `singleflight` and the ring collision, the `router_hijack` schedule and `ServeHTTP`'s prefix match (`/v`'s middlewares run for `/v1/x`), once runs can be merged.
2. GeeORM's `Session` beyond `raw.go`: `Begin`, `Commit`, `Rollback`, `HasTable`, `CreateTable` and `Model` are not in the repository, so `Migrate` models them by their effect.

Not modelled, and why: `ByteView` is immutable. The codec and service files
hold type declarations and reflection. The demo programs, SQL text building,
logging and HTTP parsing are I/O with no state the properties distinguish.
`Accept` and `ServeHTTP` of GeeRPC are connection setup. Gee's `Recovery` and day-7 router are not in the repository, and `Static` and the HTML templates are file I/O. GeeORM's `NewEngine`, `Close` and `NewSession` open and close a `database/sql` connection, `QueryRow` and `QueryRows` only read, and `schema.go` and `dialect.go` turn structs into SQL text by reflection; the model keeps their result, a set of column names.
