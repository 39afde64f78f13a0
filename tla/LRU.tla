-------------------------------- MODULE LRU --------------------------------
(***************************************************************************)
(* lru.Cache (GeeCache/geecache/lru/lru.go): a doubly linked list `ll`     *)
(* whose Front is the most recently used entry, a map `cache` from key to  *)
(* list element, and the running byte count `nbytes`.  The list is a       *)
(* sequence of keys with ll[1] the Front; the element of a key holds its   *)
(* value, so `cache` maps a key to that value.  Values are abstracted to   *)
(* members of Values whose byte length is ValueLen.  Keeping `cache` and   *)
(* `ll` as two variables, as the code does, lets a model of a bug that     *)
(* updates one and not the other show up.  OnEvicted is nil in the only    *)
(* caller (cache.go:21) and is left out.                                   *)
(***************************************************************************)
EXTENDS Naturals, Sequences, SequencesExt, Functions

CONSTANTS
    Keys,       \* the keys callers use
    Values,     \* the values callers store
    KeyLen,     \* KeyLen[k] = len(k)
    ValueLen,   \* ValueLen[v] = v.Len()
    MaxBytes    \* maxBytes; 0 means no budget

ASSUME MaxBytes \in Nat

VARIABLES
    ll,      \* c.ll, as the sequence of its keys from Front to Back
    cache,   \* c.cache, with each element replaced by the value it holds
    nbytes,  \* c.nbytes
    call     \* the last method called, name and arguments (history only)

vars == <<ll, cache, nbytes, call>>

EntrySize(k, v) == KeyLen[k] + ValueLen[v]

\* list.MoveToFront: a no-op for an element that is not in the list.
MoveToFront(s, k) == IF k \in ToSet(s) THEN <<k>> \o Remove(s, k) ELSE s

\* The state as one record, so that the eviction loop can be a recursion.
State == [ll |-> ll, cache |-> cache, nbytes |-> nbytes]

\* RemoveOldest on a state record: unlink the Back element, delete its key
\* from the map, subtract its size; nothing when the list is empty.
RemoveOldestSt(st) ==
    IF st.ll = <<>> THEN st
    ELSE LET k == Last(st.ll)
         IN  [ll     |-> Front(st.ll),
              cache  |-> Restrict(st.cache, DOMAIN st.cache \ {k}),
              nbytes |-> st.nbytes - EntrySize(k, st.cache[k])]

\* Mutant: the overwrite subtracts the old entry's key length as well.
InsertStDropsKeyLen(st, k, v) ==
    IF k \in DOMAIN st.cache
    THEN [ll     |-> MoveToFront(st.ll, k),
          cache  |-> [st.cache EXCEPT ![k] = v],
          nbytes |-> st.nbytes - EntrySize(k, st.cache[k]) + ValueLen[v]]
    ELSE [ll     |-> <<k>> \o st.ll,
          cache  |-> st.cache @@ (k :> v),
          nbytes |-> st.nbytes + EntrySize(k, v)]

\* The first half of Add: overwrite (move to front, adjust by the value
\* delta) or insert at the front (add key and value length).
InsertSt(st, k, v) ==
    IF k \in DOMAIN st.cache
    THEN [ll     |-> MoveToFront(st.ll, k),
          cache  |-> [st.cache EXCEPT ![k] = v],
          nbytes |-> st.nbytes - ValueLen[st.cache[k]] + ValueLen[v]]
    ELSE [ll     |-> <<k>> \o st.ll,
          cache  |-> st.cache @@ (k :> v),
          nbytes |-> st.nbytes + EntrySize(k, v)]

\* Mutant: `if` in place of `for`, a single eviction per Add.
EvictOnce(st) ==
    IF MaxBytes # 0 /\ st.nbytes > MaxBytes THEN RemoveOldestSt(st) ELSE st

\* for c.maxBytes != 0 && c.nbytes > c.maxBytes { c.RemoveOldest() }
RECURSIVE EvictLoop(_)
EvictLoop(st) ==
    IF MaxBytes # 0 /\ st.nbytes > MaxBytes
    THEN EvictLoop(RemoveOldestSt(st))
    ELSE st

\* The whole of Add: insert or overwrite, then the eviction loop.
AddSt(st, k, v) == EvictLoop(InsertSt(st, k, v))

\* Mutant: a hit that returns the value without MoveToFront.
GetStNoPromote(st, k) == st

\* Get on a state record: a hit moves the element to the front.
GetSt(st, k) ==
    IF k \in DOMAIN st.cache THEN [st EXCEPT !.ll = MoveToFront(st.ll, k)] ELSE st

SetState(st) == ll' = st.ll /\ cache' = st.cache /\ nbytes' = st.nbytes

Init ==
    /\ ll = <<>>
    /\ cache = [k \in {} |-> CHOOSE v \in Values : TRUE]
    /\ nbytes = 0
    /\ call = <<>>

Get(k) ==
    /\ k \in DOMAIN cache
    /\ SetState(GetSt(State, k))
    /\ call' = <<"Get", k>>

Add(k, v) == SetState(AddSt(State, k, v)) /\ call' = <<"Add", k, v>>

RemoveOldest ==
    /\ ll # <<>>
    /\ SetState(RemoveOldestSt(State))
    /\ call' = <<"RemoveOldest">>

Next ==
    \/ \E k \in Keys : Get(k)
    \/ \E k \in Keys, v \in Values : Add(k, v)
    \/ RemoveOldest

Spec == Init /\ [][Next]_vars

-----------------------------------------------------------------------------

TypeOK ==
    /\ ll \in Seq(Keys)
    /\ DOMAIN cache \subseteq Keys
    /\ \A k \in DOMAIN cache : cache[k] \in Values
    /\ nbytes \in Nat

\* Spec section 8: with a budget B > 0, after every Add the entries occupy
\* at most B bytes.  The eviction loop of Add must run until the running
\* count nbytes fits, and nbytes must agree with the entries it counts.
WithinBudget ==
    MaxBytes # 0 =>
        MapThenSumSet(LAMBDA k : EntrySize(k, cache[k]), DOMAIN cache) <= MaxBytes

\* The refinement mapping: the store is the map, and a key is newer than
\* every key behind it in the list.
ListOrder ==
    {p \in ToSet(ll) \X ToSet(ll) :
        \E i, j \in DOMAIN ll : i < j /\ ll[i] = p[1] /\ ll[j] = p[2]}

Abstract == INSTANCE BoundedStore WITH store <- cache, newer <- ListOrder

\* lru.Cache implements the Bounded Store: each Get, Add and RemoveOldest
\* of lru.go is a step of the abstract store, so a hit promotes the key,
\* an overwrite adjusts the size by the value delta, and eviction drops
\* exactly the least recently used entries until the content fits.
RefinesBoundedStore == Abstract!Spec

=============================================================================
