\* The defaults of registry.go in minutes: a registry created with
\* defaultTimeout (5 minutes) and servers calling Heartbeat with duration 0.
CONSTANTS
    s1 = s1
    s2 = s2
    empty = empty
    Addrs <- MCAddrs
    Empty = empty
    Timeout = 5
    DefaultTimeout = 5
    Minute = 1
    Duration = 0
SPECIFICATION Spec
INVARIANT TypeOK
INVARIANT ListedWhileBeating
