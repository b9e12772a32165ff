------------------------------ MODULE MCServer ------------------------------
(***************************************************************************)
(* Small instances of KVServer.                                            *)
(***************************************************************************)
EXTENDS KVServer

CONSTANTS k1, k2, v1

(* Every request for k1; k2 is read and written to take its place in the   *)
(* cache.                                                                  *)
MCRequests ==
    {r \in [op : HandlerOps, key : {k1, None}, val : {v1, EmptyValue, None}] :
        IsRequest(r) /\ (r.val = EmptyValue => r.op \in {"create", "put"})}
    \union {[op |-> "get", key |-> k2, val |-> None], [op |-> "put", key |-> k2, val |-> v1]}
=============================================================================
