------------------------------ MODULE MC_Group ------------------------------
EXTENDS Group

CONSTANTS p1, p2, p3, k1, k2, empty, lv, le, pv, pe, keyreq, none

\* Three goroutines: two to share a load, one to arrive after it.
MCProcs == {p1, p2}
\* k1 is owned by this node, k2 by another node; "" is rejected.
MCKeys == {k1, k2, empty}
MCRemoteKeys == {k2}
MCKeyLen == (k1 :> 1) @@ (k2 :> 1) @@ (empty :> 0)
MCValueLen == (lv :> 1) @@ (pv :> 1)
\* A budget of 2 bytes holds one entry: loading one key evicts the other.
MCMaxBytes == 2
=============================================================================
