CONSTANTS
    a = a
    b = b
    c = c
    nonode = nonode
    Nodes <- MCNodes
    HashRange <- MCHashRange
    Replicas = 2
    NoNode = nonode
    MaxPoints = 8

SPECIFICATION Spec

\* The ring is a data structure without a thread of its own: once the
\* bound on m.keys is reached no further Add is taken and the caller stops.
CHECK_DEADLOCK FALSE

INVARIANT TypeOK
INVARIANT GetIsSuccessor
PROPERTY AddMovesKeysOnlyToAdded
