------------------------------- MODULE Registry -------------------------------
(***************************************************************************)
(* GeeRPC's registry (GeeRPC/registry/registry.go): a GeeRegistry keeps a  *)
(* map from server address to the time of its last POST, answers a GET     *)
(* with the addresses not yet expired and drops the expired ones; each     *)
(* server runs Heartbeat, which POSTs its address once and then, while no  *)
(* POST has failed, once per ticker period.                                *)
(*                                                                         *)
(* Time advances in units by the Tick action.  An entry's start time is    *)
(* kept as its age in units, capped at the timeout, so no clock grows.     *)
(* r.mu makes putServer and aliveServers one step each.  A heartbeat POST  *)
(* is sent when the ticker fires and completes within the same unit: that  *)
(* is the slack the code leaves between the default period (timeout minus  *)
(* one minute) and the timeout, and is assumed, since http.Client{} has no *)
(* timeout of its own.                                                     *)
(***************************************************************************)
EXTENDS Naturals, FiniteSets, Functions, TLC

CONSTANTS
    Addrs,          \* addresses servers pass to Heartbeat
    Empty,          \* "", the address of a POST without X-GeeRPC-Server
    Timeout,        \* r.timeout in units; 0 means entries never expire
    DefaultTimeout, \* defaultTimeout in units
    Minute,         \* time.Minute in units
    Duration        \* the duration argument of Heartbeat; 0 for the default

VARIABLES
    servers,        \* r.servers: address -> age of its start time
    hb,             \* hb[s]: where server s's Heartbeat is
    tk,             \* tk[s]: units since s's ticker last fired
    pend            \* pend[s]: a tick waits in t.C (its buffer holds one)

vars == <<servers, hb, tk, pend>>

\* Mutant: the zero duration is passed to time.NewTicker as it is.
PeriodNoDefault == Duration

\* Lines 96-98: a zero duration is replaced by defaultTimeout - 1 minute.
Period == IF Duration = 0 THEN DefaultTimeout - Minute ELSE Duration

\* Line 58: s.start.Add(r.timeout).After(time.Now()), or no timeout.
Alive(a) == Timeout = 0 \/ servers[a] < Timeout

\* Mutant: an existing entry keeps its old start time.
PutServerNoRefresh(a) ==
    IF a \in DOMAIN servers THEN servers ELSE servers @@ (a :> 0)

\* putServer, lines 38-50, under r.mu: refresh the start time of a known
\* address or add a new entry.
PutServer(a) ==
    IF a \in DOMAIN servers THEN [servers EXCEPT ![a] = 0]
                            ELSE servers @@ (a :> 0)

Init ==
    /\ servers = [a \in {} |-> 0]
    /\ hb = [s \in Addrs |-> "idle"]
    /\ tk = [s \in Addrs |-> 0]
    /\ pend = [s \in Addrs |-> FALSE]

\* Heartbeat, lines 95-100: the first sendHearbeat is a POST in flight.
Heartbeat(s) ==
    /\ hb[s] = "idle"
    /\ hb' = [hb EXCEPT ![s] = "first"]
    /\ UNCHANGED <<servers, tk, pend>>

\* After a POST returns, lines 101-107: with err == nil the goroutine waits
\* on the ticker (created when it starts, after the first POST); with an
\* error the loop ends for good.
AfterPost(s, ok) ==
    /\ hb' = [hb EXCEPT ![s] = IF ok THEN "wait" ELSE "stopped"]
    /\ tk' = IF hb[s] = "first" THEN [tk EXCEPT ![s] = 0] ELSE tk
    /\ pend' = IF hb[s] = "first" THEN [pend EXCEPT ![s] = FALSE] ELSE pend

\* The POST reaches ServeHTTP, lines 74-80, which calls putServer with the
\* header's address; the response comes back (ok) or is lost (an error).
Deliver(s, ok) ==
    /\ hb[s] \in {"first", "send"}
    /\ servers' = PutServer(s)
    /\ AfterPost(s, ok)

\* sendHearbeat, lines 118-121: httpClient.Do fails before the registry
\* sees the request.
Lost(s) ==
    /\ hb[s] \in {"first", "send"}
    /\ AfterPost(s, FALSE)
    /\ UNCHANGED servers

\* Lines 105-106: <-t.C returns and the next POST is sent.
Fire(s) ==
    /\ hb[s] = "wait" /\ pend[s]
    /\ hb' = [hb EXCEPT ![s] = "send"]
    /\ pend' = [pend EXCEPT ![s] = FALSE]
    /\ UNCHANGED <<servers, tk>>

\* ServeHTTP, lines 76-80, for a POST without the header: the status is
\* 500, but putServer("") still runs.
PostNoAddr ==
    /\ servers' = PutServer(Empty)
    /\ UNCHANGED <<hb, tk, pend>>

\* aliveServers, lines 53-67, for a GET (line 73): under r.mu the expired
\* entries are deleted and the others returned, sorted and joined.
AliveServers ==
    /\ servers' = [a \in {x \in DOMAIN servers : Alive(x)} |-> servers[a]]
    /\ UNCHANGED <<hb, tk, pend>>

\* A ticker runs from the start of s's goroutine until the process ends.
Ticking(s) == hb[s] \in {"wait", "send", "stopped"}

\* One unit passes: ages grow to the cap, every running ticker advances
\* and fires each Period units, a tick left unread stays buffered.  A
\* waiting goroutine receives a ready tick, and a POST completes, before
\* the next unit.
Tick ==
    /\ \A s \in Addrs : ~(hb[s] = "wait" /\ pend[s]) /\ hb[s] \notin {"first", "send"}
    /\ servers' = [a \in DOMAIN servers |-> IF servers[a] < Timeout THEN servers[a] + 1 ELSE servers[a]]
    /\ tk' = [s \in Addrs |-> IF Ticking(s) THEN (tk[s] + 1) % Period ELSE tk[s]]
    /\ pend' = [s \in Addrs |-> pend[s] \/ (Ticking(s) /\ tk[s] + 1 = Period)]
    /\ UNCHANGED hb

Next ==
    \/ Tick
    \/ AliveServers
    \/ PostNoAddr
    \/ \E s \in Addrs :
        \/ Heartbeat(s)
        \/ \E ok \in BOOLEAN : Deliver(s, ok)
        \/ Lost(s)
        \/ Fire(s)

Spec == Init /\ [][Next]_vars

-----------------------------------------------------------------------------

TypeOK ==
    /\ DOMAIN servers \subseteq Addrs \cup {Empty}
    /\ \A a \in DOMAIN servers : servers[a] \in 0 .. Timeout
    /\ hb \in [Addrs -> {"idle", "first", "wait", "send", "stopped"}]
    /\ tk \in [Addrs -> 0 .. Period - 1]
    /\ pend \in [Addrs -> BOOLEAN]

\* s's heartbeat loop is running: its first POST succeeded and none since
\* has failed.
Beating(s) == hb[s] \in {"wait", "send"}

\* A server whose heartbeat loop is running is registered and its entry
\* never expires, so every GET lists it: the ticker period, the POST that
\* follows each tick, putServer's refresh and aliveServers' expiry test
\* together keep each entry younger than r.timeout.
ListedWhileBeating ==
    \A s \in Addrs : Beating(s) => s \in DOMAIN servers /\ Alive(s)

=============================================================================
