------------------------------ MODULE MC_Registry ------------------------------
(* Two servers beating to one registry; time in minutes.                   *)
EXTENDS Registry

CONSTANTS s1, s2, empty

MCAddrs == {s1, s2}

=============================================================================
