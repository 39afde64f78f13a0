-------------------------------- MODULE MC_RPC --------------------------------
(* Two callers on one connection, c1 with a deadline and c2 without, a   *)
(* known and an unknown method.                                            *)
EXTENDS RPC

CONSTANTS c1, c2, good, bad

MCCallers == {c1, c2}
MCMethods == {good, bad}
MCKnown == {good}
MCDeadline == {c1}

=============================================================================
