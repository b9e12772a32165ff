------------------------------- MODULE Router -------------------------------
(***************************************************************************)
(* The routing table of the load balancer: class Router with the HashRing  *)
(* it owns.                                                                *)
(*                                                                         *)
(* status is Router::backends_ (the status field of every backend), onRing *)
(* the set of backends that have their virtual nodes in HashRing::ring_.   *)
(* The two are separate pieces of state: ring_ is guarded by ring_mutex_,  *)
(* backends_ by nothing, and every mark* method first writes the status    *)
(* and then updates the ring.  SetStatus, AddNode and RemoveNode are those *)
(* halves; the modules that call mark* run them in two steps.              *)
(*                                                                         *)
(* A walk along ring_ from the hash of a key meets the backends in an      *)
(* order that depends only on the hashes.  RingRank[k][n] is the place of  *)
(* backend n in that order when every backend is on the ring; the walk     *)
(* with some backends removed meets the others in the same order.  This    *)
(* supposes that no two virtual nodes have the same 32-bit hash.           *)
(***************************************************************************)
EXTENDS Deployment

CONSTANTS
    RingRank,          \* RingRank[k][n]: clockwise order of the backends from key k
    ReplicationFactor  \* 2 in every call of the source

ASSUME RouterAssumption ==
    /\ ReplicationFactor \in Nat \ {0}
    /\ RingRank \in [Keys -> [Nodes -> Nat]]
    /\ \A k \in Keys : \A m, n \in Nodes : RingRank[k][m] = RingRank[k][n] => m = n

VARIABLES
    status,  \* status[n]: the BackendStatus of n
    onRing,  \* the backends whose virtual nodes are on the ring
    lbUp     \* the load balancer process is running

routerVars == <<status, onRing, lbUp>>

BackendStatus == {"UP", "RECOVERING", "DOWN"}

RouterTypeOK ==
    /\ status \in [Nodes -> BackendStatus]
    /\ onRing \subseteq Nodes
    /\ lbUp \in BOOLEAN

(* The constructor: every backend is on the ring, with the status UP that  *)
(* LoadBalancer::acceptClients gives it.                                   *)
RouterInit ==
    /\ status = [n \in Nodes |-> "UP"]
    /\ onRing = Nodes
    /\ lbUp = TRUE

-----------------------------------------------------------------------------
(* The order of the walk from key k, and the backend it meets first.       *)
Before(k, m, n) == RingRank[k][m] < RingRank[k][n]

IsFirst(k, n, S) == n \in S /\ \A m \in S \ {n} : Before(k, n, m)

(* HashRing::getNodes: the first ReplicationFactor distinct backends.      *)
GetNodes(k) ==
    {n \in onRing : Cardinality({m \in onRing : Before(k, m, n)}) < ReplicationFactor}

(* A replica that is on the ring but has a status that excludes it is left *)
(* out of the result; the walk does not go on to its successor.            *)
ReadsFromAnyReplica(k) == GetNodes(k)  \* bug: the status is not looked at
GetReadBackends(k)  == {n \in GetNodes(k) : status[n] = "UP"}
GetWriteBackends(k) == {n \in GetNodes(k) : status[n] \in {"UP", "RECOVERING"}}

GetOnlineBackends == {n \in Nodes : status[n] = "UP"}

-----------------------------------------------------------------------------
SetStatus(n, s) ==
    status' = [status EXCEPT ![n] = s] /\ UNCHANGED <<onRing, lbUp>>

AddNode(n) == onRing' = onRing \union {n} /\ UNCHANGED <<status, lbUp>>

RemoveNode(n) == onRing' = onRing \ {n} /\ UNCHANGED <<status, lbUp>>

(* The three lookups throw when the ring is empty.  They are called from   *)
(* detached client threads and from the health thread, none of which has a *)
(* catch, so the exception ends the process (std::terminate).              *)
ThrowNoBackend ==
    onRing = {} /\ lbUp' = FALSE /\ UNCHANGED <<status, onRing>>
=============================================================================
