---------------------------- MODULE MC_HashRing ----------------------------
EXTENDS HashRing

CONSTANTS a, b, c, nonode

\* Three nodes with two replicas each over four hash values: six points on
\* four values, so collisions between nodes and within a node occur.
MCNodes == {a, b, c}
MCHashRange == 0 .. 3
=============================================================================
