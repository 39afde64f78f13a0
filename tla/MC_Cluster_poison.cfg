\* The same cluster with RegisterPeers allowed before the first Set: a Get
\* that reaches PickPeer while the pool's ring is still nil panics inside
\* the singleflight call.
CONSTANTS
    a = a
    b = b
    c = c
    nonode = nonode
    none = none
    Nodes <- MCNodes
    Lists <- MCLists
    HashRange <- MCHashRange
    Replicas = 1
    NoNode = nonode
    None = none
    SetFirst = FALSE
    MaxCalls = 2
SPECIFICATION Spec
PROPERTY GetReturns
\* Callers make at most MaxCalls Gets and the lists are given once each, so
\* every behaviour ends; a Get that hangs is what GetReturns checks.
CHECK_DEADLOCK FALSE
