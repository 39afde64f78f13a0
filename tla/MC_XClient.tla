------------------------------- MODULE MC_XClient -------------------------------
(* Two servers, server lists of length 0, 1 and 2, one caller of Call    *)
(* beside the BroadCast workers, and three client identifiers.           *)
EXTENDS XClient

CONSTANTS a1, a2, g1, random, roundrobin, nobody

MCAddrs == {a1, a2}
MCLists == {<<>>, <<a1>>, <<a1, a2>>}
MCCallers == {g1}
MCClientIds == 1 .. 2

=============================================================================
