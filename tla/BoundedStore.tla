---------------------------- MODULE BoundedStore ----------------------------
(***************************************************************************)
(* Abstract specification of the Bounded Store (spec section 4.1): a      *)
(* partial map from keys to values, a recency order over the keys it       *)
(* holds, and a byte budget.  Every successful read and every write makes  *)
(* the key the most recently used one; after a write the least recently    *)
(* used keys are dropped, one at a time, until the entries fit the budget  *)
(* (a budget of 0 means unbounded).  Sizes are computed from the content,  *)
(* not tracked: the implementation (module LRU) keeps a running counter    *)
(* and a linked list, and is shown to implement this module.               *)
(***************************************************************************)
EXTENDS Naturals, FiniteSets, FiniteSetsExt, Functions

CONSTANTS Keys, Values, KeyLen, ValueLen, MaxBytes

VARIABLES
    store,  \* store[k]: the value held for key k; DOMAIN store is the key set
    newer,  \* <<a, b>> \in newer: a was used more recently than b
    call    \* the last operation invoked, as a tuple of its name and arguments

vars == <<store, newer, call>>

\* The number of bytes an entry of key k and value v occupies.
EntrySize(k, v) == KeyLen[k] + ValueLen[v]

\* The bytes all entries of the map s occupy.
Size(s) == MapThenSumSet(LAMBDA k : EntrySize(k, s[k]), DOMAIN s)

\* The recency relation after key k, held in a map of domain D, is used.
Touch(R, k, D) ==
    {p \in R : k \notin {p[1], p[2]}} \cup {<<k, j>> : j \in D \ {k}}

\* The least recently used key of the map s under recency relation R.
Oldest(s, R) == CHOOSE k \in DOMAIN s : \A j \in DOMAIN s \ {k} : <<j, k>> \in R

\* Drop the least recently used entry.
DropOldest(st) ==
    LET k == Oldest(st.s, st.r)
    IN  [s |-> Restrict(st.s, DOMAIN st.s \ {k}),
         r |-> {p \in st.r : k \notin {p[1], p[2]}}]

\* Drop least recently used entries until the map fits the budget.
RECURSIVE Fit(_)
Fit(st) == IF MaxBytes # 0 /\ Size(st.s) > MaxBytes THEN Fit(DropOldest(st)) ELSE st

Init == store = [k \in {} |-> CHOOSE v \in Values : TRUE] /\ newer = {} /\ call = <<>>

Get(k) ==
    /\ k \in DOMAIN store
    /\ newer' = Touch(newer, k, DOMAIN store)
    /\ call' = <<"Get", k>>
    /\ UNCHANGED store

Add(k, v) ==
    LET s1  == [j \in DOMAIN store \cup {k} |-> IF j = k THEN v ELSE store[j]]
        fit == Fit([s |-> s1, r |-> Touch(newer, k, DOMAIN s1)])
    IN  /\ store' = fit.s
        /\ newer' = fit.r
        /\ call' = <<"Add", k, v>>

RemoveOldest ==
    /\ DOMAIN store # {}
    /\ LET st == DropOldest([s |-> store, r |-> newer])
       IN  store' = st.s /\ newer' = st.r
    /\ call' = <<"RemoveOldest">>

Next ==
    \/ \E k \in Keys : Get(k)
    \/ \E k \in Keys, v \in Values : Add(k, v)
    \/ RemoveOldest

Spec == Init /\ [][Next]_vars

=============================================================================
