----------------------------- MODULE Deployment -----------------------------
(***************************************************************************)
(* What is fixed when the system is deployed, and the data it handles: the *)
(* parameters that the modules of the load balancer and of the backends    *)
(* share.                                                                  *)
(***************************************************************************)
EXTENDS Naturals, FiniteSets

CONSTANTS
    Nodes,       \* the kvserver backends, one per port
    Keys,
    Values,      \* the values clients may write
    EmptyValue,  \* the empty string, when it is one of Values
    None         \* an absent row, an unset local

ASSUME DeploymentAssumption ==
    /\ IsFiniteSet(Nodes)
    /\ Nodes # {}
    /\ None \notin Nodes \union Keys \union Values

Rows == Values \union {None}
=============================================================================
