------------------------------ MODULE Backends ------------------------------
(***************************************************************************)
(* The kvserver processes as the load balancer sees them: each has its own *)
(* PostgreSQL table kv_data, which survives a crash of the process, and an *)
(* LRUCache in front of it, which does not.                                *)
(*                                                                         *)
(* A handler is one transaction on the table and the operations on the     *)
(* cache before and after it; other handlers run in between.  The modules  *)
(* that send requests run these parts as steps of their own.  An entry may *)
(* leave the cache at any time, pushed out by those of other keys.         *)
(***************************************************************************)
EXTENDS Deployment

CONSTANT MaxFaults  \* bound: how often a call to a running backend may fail

ASSUME BackendsAssumption == MaxFaults \in Nat

VARIABLES
    alive,   \* alive[n]: the process of n is running and accepts connections
    db,      \* db[n][k]: the value of row k in the table of n, or None
    cached,  \* cached[n][k]: the value under k in the cache of n, or None
    faults   \* how many calls to a running backend have failed

backendVars == <<alive, db, cached, faults>>

Ops == {"get", "create", "put", "delete"}
IsWrite(op) == op # "get"

BackendsTypeOK ==
    /\ alive \in [Nodes -> BOOLEAN]
    /\ db \in [Nodes -> [Keys -> Rows]]
    /\ cached \in [Nodes -> [Keys -> Rows]]
    /\ faults \in 0 .. MaxFaults

BackendsInit ==
    /\ alive = [n \in Nodes |-> TRUE]
    /\ db = [n \in Nodes |-> [k \in Keys |-> None]]
    /\ cached = [n \in Nodes |-> [k \in Keys |-> None]]
    /\ faults = 0

-----------------------------------------------------------------------------
(* Definitions with "bug" beside them, here and in the other modules, are  *)
(* what the definition after them is not; they show that the properties    *)
(* notice such a bug.                                                      *)

(* What the handler of a request leaves in the row it is about.  The load  *)
(* balancer adds X-Internal-Replication to every PUT, so the PUT handler   *)
(* always takes its upsert branch.                                         *)
PutKeepsRow(op, row, v) ==  \* bug: ON CONFLICT DO NOTHING
    IF op \in {"put", "create"} /\ row = None THEN v
    ELSE IF op = "delete" THEN None
    ELSE row

RowAfter(op, row, v) ==
    IF op = "put" \/ (op = "create" /\ row = None) THEN v
    ELSE IF op = "delete" THEN None
    ELSE row

(* ... and the status code it answers with.                                *)
CreateAlwaysSucceeds(op, row) ==  \* bug: the unique violation is not noticed
    IF op = "create" THEN 201 ELSE IF op = "put" \/ row # None THEN 200 ELSE 404

NoContentCode(op, row) ==  \* bug: a PUT is answered with 204, which no caller knows
    IF op = "put" THEN 204
    ELSE IF op = "create" THEN (IF row = None THEN 201 ELSE 409)
    ELSE IF row # None THEN 200
    ELSE 404

StatusCode(op, row) ==
    IF op = "create" THEN (IF row = None THEN 201 ELSE 409)
    ELSE IF op = "put" \/ row # None THEN 200
    ELSE 404

(* ok says whether a call to n succeeds; it is FALSE when n is dead and,   *)
(* at most MaxFaults times, when n runs: the handler cannot reach its      *)
(* database and its catch block answers 500, or a ping times out.          *)
Served(n, ok) ==
    \/ ok = alive[n] /\ UNCHANGED faults
    \/ alive[n] /\ ~ok /\ faults < MaxFaults /\ faults' = faults + 1

(* The transaction that leaves row in the table.  When commit() throws,    *)
(* the database may have committed or not.                                 *)
Transact(n, k, row, ok) ==
    /\ Served(n, ok)
    /\ \E committed \in {ok, alive[n]} :
          db' = IF committed THEN [db EXCEPT ![n][k] = row] ELSE db

-----------------------------------------------------------------------------
(* The cache.  An entry that is the empty string is taken for a miss.      *)
Hit(n, k) == cached[n][k] \notin {None, EmptyValue}

(* What a GET is answered that comes in now.                               *)
Shown(n, k) == IF Hit(n, k) THEN cached[n][k] ELSE db[n][k]

(* create_key leaves an entry that is there.                               *)
CreateKey(n, k, v) ==
    cached' = [cached EXCEPT ![n][k] = IF @ = None THEN v ELSE @]

KeepEntry(n, k) == UNCHANGED cached  \* bug: no invalidation

DeleteKey(n, k) == cached' = [cached EXCEPT ![n][k] = None]

Evict(n, k) ==
    /\ cached[n][k] # None
    /\ DeleteKey(n, k)
    /\ UNCHANGED <<alive, db, faults>>

-----------------------------------------------------------------------------
(* The process stops, between any two steps of anybody, and comes back     *)
(* with the table it had and an empty cache.                               *)
Stop(n) ==
    /\ alive[n] /\ alive' = [alive EXCEPT ![n] = FALSE]
    /\ cached' = [cached EXCEPT ![n] = [k \in Keys |-> None]]
    /\ UNCHANGED <<db, faults>>

Start(n) ==
    /\ ~alive[n] /\ alive' = [alive EXCEPT ![n] = TRUE]
    /\ UNCHANGED <<db, cached, faults>>
=============================================================================
