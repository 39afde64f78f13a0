------------------------------- MODULE MC_Cluster -------------------------------
(* Three nodes, one virtual point each over three hash values.  The peer  *)
(* lists are those of adding node c to {a, b} and removing it again: a    *)
(* and b are given <<a, b>>, <<a, b, c>> and <<a, b>> in turn, each at    *)
(* any moment, and c is given <<a, b, c>>.  Every list names the nodes in *)
(* one common order and contains the node it is given to.                 *)
EXTENDS Cluster

CONSTANTS a, b, c, nonode, none

MCNodes == {a, b, c}

Rollout == <<<<a, b>>, <<a, b, c>>, <<a, b>>>>

MCLists == (a :> Rollout) @@ (b :> Rollout) @@ (c :> <<<<a, b, c>>>>)

MCHashRange == 0 .. 2

=============================================================================
