------------------------------- MODULE MC_LRU -------------------------------
EXTENDS LRU

CONSTANTS k1, k2, k3, k4

\* Keys of one and two bytes.
MCKeys == {k1, k2, k3, k4}
MCKeyLen == (k1 :> 1) @@ (k2 :> 1) @@ (k3 :> 1) @@ (k4 :> 2)

\* A value is abstracted to its length: empty, 1, 2 and 5 bytes; an entry
\* with a 5-byte value exceeds the budget on its own.
MCValues == {0, 1, 2, 5}
MCValueLen == [v \in MCValues |-> v]

\* A budget of 5 bytes: two or three small entries fit, so an insert can
\* evict several entries, and an overwrite can grow an entry past the budget.
MCMaxBytes == 5
=============================================================================
