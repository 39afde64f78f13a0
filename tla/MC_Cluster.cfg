CONSTANTS
    a = a
    b = b
    c = c
    nonode = nonode
    none = none
    Nodes <- MCNodes
    Lists <- MCLists
    HashRange <- MCHashRange
    Replicas = 1
    NoNode = nonode
    None = none
    SetFirst = TRUE
    MaxCalls = 2
SPECIFICATION Spec
INVARIANT TypeOK
INVARIANT NoFetchCycle
PROPERTY GetReturns
\* Callers make at most MaxCalls Gets and the lists are given once each, so
\* every behaviour ends; a Get that hangs is what GetReturns checks.
CHECK_DEADLOCK FALSE
