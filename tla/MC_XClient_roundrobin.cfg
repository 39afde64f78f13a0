\* Two servers, lists that grow and shrink, the RoundRobin mode, and an
\* initial round-robin index in 0..2: every index the list lengths tell
\* apart.
CONSTANTS
    a1 = a1
    a2 = a2
    g1 = g1
    random = random
    roundrobin = roundrobin
    nobody = nobody
    Addrs <- MCAddrs
    Lists <- MCLists
    Callers <- MCCallers
    ClientIds <- MCClientIds
    ConnectTimeout = TRUE
    Random = random
    RoundRobin = roundrobin
    Modes = {roundrobin}
    MaxIndex = 2
    Nobody = nobody

SPECIFICATION Spec

\* A run-time panic in d.Get ends the process, and nothing runs after it.
CHECK_DEADLOCK FALSE

INVARIANT NoIndexOutOfRange
VIEW StateView
