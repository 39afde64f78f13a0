---------------------------- MODULE SingleFlight ----------------------------
(***************************************************************************)
(* singleflight.Group.Do (GeeCache/geecache/singleflight/singleflight.go)  *)
(* run by concurrent goroutines.  g.mu makes each of the two critical      *)
(* sections of Do one atomic step: the lookup-or-register of lines 21-36   *)
(* and the delete of lines 41-43.  Between them the leader runs fn with no *)
(* lock held, then stores the outcome and calls wg.Done (lines 38-39).  A  *)
(* goroutine that found a call waits on its WaitGroup and reads the        *)
(* outcome (lines 29-30).                                                  *)
(*                                                                         *)
(* A *call is named by an identifier from CallIds; an identifier is       *)
(* reused once neither g.m nor any goroutine refers to it, so |Procs|      *)
(* identifiers suffice and the model needs no counter.                     *)
(***************************************************************************)
EXTENDS Naturals, FiniteSets, Functions, TLC

CONSTANTS
    Procs,     \* goroutines calling Do
    Keys,      \* keys passed to Do
    Values,    \* values fn can return
    Errors,    \* errors fn can return
    None       \* c.val, c.err before fn has returned

\* What fn can return.
Outcomes == Values \cup Errors

CallIds == 1 .. Cardinality(Procs)

VARIABLES
    m,      \* g.m: key -> call identifier
    calls,  \* calls[c] = [key, wg, val]: wg is the WaitGroup count
    pc,     \* pc[p]: where goroutine p is in Do
    key,    \* key[p]: the key of p's current Do
    cur     \* cur[p]: the call p leads or waits on, 0 when none

vars == <<m, calls, pc, key, cur>>

Call == [key : Keys, wg : {0, 1}, val : Outcomes \cup {None}]

\* An identifier neither g.m nor any goroutine refers to.
FreeIds == CallIds \ (Range(m) \cup Range(cur))

Init ==
    /\ m = [k \in {} |-> 0]
    /\ calls = [c \in CallIds |-> [key |-> CHOOSE k \in Keys : TRUE, wg |-> 0, val |-> None]]
    /\ pc = [p \in Procs |-> "idle"]
    /\ key = [p \in Procs |-> CHOOSE k \in Keys : TRUE]
    /\ cur = [p \in Procs |-> 0]

\* Mutant: the lookup finds the call but the new call is never put in g.m.
RegisterForgotten(k, c) == m

\* g.m[key] = c
Register(k, c) == m @@ (k :> c)

\* Mutant: c.wg.Add(1) on the join path as well as on the leader's.
EnterAddsOnJoin(p, k) ==
    /\ pc[p] = "idle"
    /\ key' = [key EXCEPT ![p] = k]
    /\ IF k \in DOMAIN m
       THEN /\ pc' = [pc EXCEPT ![p] = "wait"]
            /\ cur' = [cur EXCEPT ![p] = m[k]]
            /\ calls' = [calls EXCEPT ![m[k]].wg = @ + 1]
            /\ UNCHANGED m
       ELSE LET c == CHOOSE c \in FreeIds : TRUE
            IN  /\ calls' = [calls EXCEPT ![c] = [key |-> k, wg |-> 1, val |-> None]]
                /\ m' = Register(k, c)
                /\ pc' = [pc EXCEPT ![p] = "fn"]
                /\ cur' = [cur EXCEPT ![p] = c]

\* Lines 21-36 under g.mu: join the call in flight for k, or become the
\* leader of a new call with wg.Add(1) and register it in g.m.
Enter(p, k) ==
    /\ pc[p] = "idle"
    /\ key' = [key EXCEPT ![p] = k]
    /\ IF k \in DOMAIN m
       THEN /\ pc' = [pc EXCEPT ![p] = "wait"]
            /\ cur' = [cur EXCEPT ![p] = m[k]]
            /\ UNCHANGED <<m, calls>>
       ELSE LET c == CHOOSE c \in FreeIds : TRUE
            IN  /\ calls' = [calls EXCEPT ![c] = [key |-> k, wg |-> 1, val |-> None]]
                /\ m' = Register(k, c)
                /\ pc' = [pc EXCEPT ![p] = "fn"]
                /\ cur' = [cur EXCEPT ![p] = c]

\* Mutant: the leader skips wg.Done when fn fails.
FnReturnNoDoneOnError(p, o) ==
    /\ pc[p] = "fn"
    /\ calls' = [calls EXCEPT ![cur[p]].val = o,
                               ![cur[p]].wg = IF o \in Errors THEN 1 ELSE 0]
    /\ pc' = [pc EXCEPT ![p] = "delete"]
    /\ UNCHANGED <<m, key, cur>>

\* Lines 38-39: fn returns outcome o; c.val, c.err = o; c.wg.Done().
FnReturn(p, o) ==
    /\ pc[p] = "fn"
    /\ calls' = [calls EXCEPT ![cur[p]].val = o, ![cur[p]].wg = 0]
    /\ pc' = [pc EXCEPT ![p] = "delete"]
    /\ UNCHANGED <<m, key, cur>>

\* Lines 41-45: under g.mu delete g.m[key], then return c.val, c.err.
Delete(p) ==
    /\ pc[p] = "delete"
    /\ m' = Restrict(m, DOMAIN m \ {key[p]})
    /\ pc' = [pc EXCEPT ![p] = "idle"]
    /\ cur' = [cur EXCEPT ![p] = 0]
    /\ UNCHANGED <<calls, key>>

\* Mutant: the waiter reads c.val without waiting on c.wg.
WaitSkipped(p) ==
    /\ pc[p] = "wait"
    /\ pc' = [pc EXCEPT ![p] = "idle"]
    /\ cur' = [cur EXCEPT ![p] = 0]
    /\ UNCHANGED <<m, calls, key>>

\* Lines 29-30: c.wg.Wait() returns once wg is 0; return c.val, c.err.
Wait(p) ==
    /\ pc[p] = "wait"
    /\ calls[cur[p]].wg = 0
    /\ pc' = [pc EXCEPT ![p] = "idle"]
    /\ cur' = [cur EXCEPT ![p] = 0]
    /\ UNCHANGED <<m, calls, key>>

Next ==
    \E p \in Procs :
        \/ \E k \in Keys : Enter(p, k)
        \/ \E o \in Outcomes : FnReturn(p, o)
        \/ Delete(p)
        \/ Wait(p)

\* A goroutine inside Do is runnable until it returns; fn is assumed to
\* return (spec section 5: no timeout exists to force it).  Callers are
\* never forced to call Do.
Fairness ==
    \A p \in Procs :
        /\ WF_vars(\E o \in Outcomes : FnReturn(p, o))
        /\ WF_vars(Delete(p))
        /\ WF_vars(Wait(p))

Spec == Init /\ [][Next]_vars /\ Fairness

-----------------------------------------------------------------------------

TypeOK ==
    /\ DOMAIN m \subseteq Keys /\ \A k \in DOMAIN m : m[k] \in CallIds
    /\ calls \in [CallIds -> Call]
    /\ pc \in [Procs -> {"idle", "wait", "fn", "delete"}]
    /\ key \in [Procs -> Keys]
    /\ cur \in [Procs -> CallIds \cup {0}]

\* The outcome p's Do returns in a step that ends its Do.
Returns(p) == pc[p] # "idle" /\ pc'[p] = "idle"

\* Spec 4.3: fn runs at most once at a time per key.  Two goroutines can
\* only lead calls for the same key one after the other: the second must
\* find the first in g.m, which the first registers under the same lock
\* it looked the key up under.
OneExecutionPerKey ==
    \A p, q \in Procs :
        (p # q /\ pc[p] = "fn" /\ pc[q] = "fn") => key[p] # key[q]

\* Spec 4.3: every caller of Do, leader or waiter, returns the outcome the
\* one fn execution of its call produced; a waiter never returns before
\* the leader stored it (c.val is nil before fn returns).
ReturnsSharedOutcome ==
    [][\A p \in Procs :
         Returns(p) => calls[cur[p]].val \in Outcomes /\ calls[cur[p]].key = key[p]]_vars

\* Every Do returns: wg.Done wakes every waiter, so no goroutine that
\* joined a call is left waiting once the leader's fn has returned.
DoReturns == \A p \in Procs : pc[p] # "idle" ~> pc[p] = "idle"

\* Spec section 3: the in-flight call is removed as soon as the work
\* completes, so a Do that starts after fn has returned runs fn again
\* rather than reusing that outcome.
NoStaleJoin ==
    [][\A p \in Procs, k \in Keys :
         Enter(p, k) /\ k \in DOMAIN m => calls[m[k]].wg = 1]_vars

=============================================================================
