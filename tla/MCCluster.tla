----------------------------- MODULE MCCluster -----------------------------
(***************************************************************************)
(* Small instances of Cluster.                                             *)
(***************************************************************************)
EXTENDS Cluster, TLC

CONSTANTS n1, n2, n3, k1, v1, v2, v3, p1, p2

(* Clockwise from every key the walk meets n1, n2, n3 in this order.       *)
Clockwise == (n1 :> 0) @@ (n2 :> 1) @@ (n3 :> 2)

MCRingRank == [k \in Keys |-> [n \in Nodes |-> Clockwise[n]]]

(* Values are only stored, compared and copied.                            *)
ValueSymmetry == Permutations(Values \ {EmptyValue})
=============================================================================
