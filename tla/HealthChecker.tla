--------------------------- MODULE HealthChecker ----------------------------
(***************************************************************************)
(* The health thread: HealthChecker::run and, called from it,              *)
(* RecoveryManager::recover.  There is one such thread, so a recovery      *)
(* holds up the pings of every other backend.                              *)
(*                                                                         *)
(* hc holds run()'s locals: pend maps each backend the round has not       *)
(* reached yet to the status it had when the round copied the table, node  *)
(* is the backend being dealt with, and pc the next call to the Router:    *)
(*   loop;  recovering, rejoin: markBackendRecovering;  recover;           *)
(*   readd (after Promote): the second half of markBackendUp;              *)
(*   down, evict: markBackendDown.                                         *)
(*                                                                         *)
(* rm holds recover()'s locals: scan the online backends whose keys are    *)
(* still to be fetched, keys the keyspace still to be worked on, key and   *)
(* val the row being copied, sources the peers it may be fetched from.     *)
(* fetch, select and fill are the parts of handle_read at the first of     *)
(* sources; sync and forget those of handle_sync at the recovered backend. *)
(***************************************************************************)
EXTENDS Router, Backends

VARIABLES hc, rm

healthVars == <<hc, rm>>

NoVisit == [pc |-> "loop", pend |-> [n \in {} |-> "UP"], node |-> None]

NoRecovery == [pc |-> "off", node |-> None, scan |-> {}, keys |-> {},
               key |-> None, sources |-> {}, val |-> None]

Recovery ==
    [pc      : {"off", "online", "loop", "own", "fetch", "select", "fill", "sync", "forget"},
     node    : Nodes \union {None},
     scan    : SUBSET Nodes,
     keys    : SUBSET Keys,
     key     : Keys \union {None},
     sources : SUBSET Nodes,
     val     : Rows]

Checker ==
    [pc   : {"loop", "recovering", "rejoin", "recover", "readd", "down", "evict"},
     pend : UNION {[S -> BackendStatus] : S \in SUBSET Nodes},
     node : Nodes \union {None}]

HealthTypeOK == hc \in Checker /\ rm \in Recovery

HealthInit ==
    /\ hc = NoVisit
    /\ rm = NoRecovery

-----------------------------------------------------------------------------
(* RecoveryManager::recover(rm.node).                                      *)
InRecover(pc) == lbUp /\ rm.pc = pc

ListOnline ==
    /\ InRecover("online")
    /\ rm' = [rm EXCEPT !.pc = "loop", !.scan = GetOnlineBackends \ {rm.node}]
    /\ UNCHANGED <<hc, routerVars, backendVars>>

(* fetchAllKeysFromNode: a backend that does not answer with 200           *)
(* contributes no keys.                                                    *)
FetchAllKeys ==
    /\ InRecover("loop")
    /\ \E n \in rm.scan, ok \in BOOLEAN :
          /\ Served(n, ok)
          /\ rm' = [rm EXCEPT !.scan = @ \ {n},
                              !.keys = @ \union {k \in Keys : ok /\ db[n][k] # None}]
    /\ UNCHANGED <<hc, routerVars, alive, db, cached>>

(* The next key; the lookup of its replicas starts with the empty test.    *)
PickKey ==
    /\ InRecover("loop")
    /\ rm.scan = {}
    /\ \E k \in rm.keys :
          \/ /\ onRing # {}
             /\ rm' = [rm EXCEPT !.pc = "own", !.keys = @ \ {k}, !.key = k]
             /\ UNCHANGED routerVars
          \/ ThrowNoBackend /\ UNCHANGED rm
    /\ UNCHANGED <<hc, backendVars>>

(* Keys whose replicas do not include the recovered backend are skipped.   *)
CheckOwner ==
    /\ InRecover("own")
    /\ rm' = IF rm.node \in GetNodes(rm.key)
             THEN [rm EXCEPT !.pc = "fetch", !.sources = GetNodes(rm.key) \ {rm.node}]
             ELSE [rm EXCEPT !.pc = "loop", !.key = None]
    /\ UNCHANGED <<hc, routerVars, backendVars>>

(* fetchValueFromPeer: no answer, a 404 and an empty value look the same,  *)
(* and the next peer is tried.                                             *)
IsSource(n) == IsFirst(rm.key, n, rm.sources)

NextSource(n) ==
    rm' = [rm EXCEPT !.pc = "fetch", !.sources = @ \ {n}, !.val = None]

Fetched(v) == rm' = [rm EXCEPT !.pc = "sync", !.sources = {}, !.val = v]

(* The peer answers a GET as it does for clients, from its cache ...       *)
FetchCached ==
    /\ InRecover("fetch")
    /\ \E n \in rm.sources, ok \in BOOLEAN :
          /\ IsSource(n)
          /\ Served(n, ok)
          /\ IF ~ok THEN NextSource(n)
             ELSE IF Hit(n, rm.key) THEN Fetched(cached[n][rm.key])
             ELSE rm' = [rm EXCEPT !.pc = "select"]
    /\ UNCHANGED <<hc, routerVars, alive, db, cached>>

(* ... or from its table, which fills the cache.                           *)
FetchRow ==
    /\ InRecover("select")
    /\ \E n \in rm.sources, ok \in BOOLEAN :
          /\ IsSource(n)
          /\ Served(n, ok)
          /\ IF ok /\ db[n][rm.key] # None
             THEN rm' = [rm EXCEPT !.pc = "fill", !.val = db[n][rm.key]]
             ELSE NextSource(n)
    /\ UNCHANGED <<hc, routerVars, alive, db, cached>>

FetchFill ==
    /\ InRecover("fill")
    /\ \E n \in rm.sources :
          /\ IsSource(n)
          /\ CreateKey(n, rm.key, rm.val)
          /\ IF rm.val = EmptyValue THEN NextSource(n) ELSE Fetched(rm.val)
    /\ UNCHANGED <<hc, routerVars, alive, db, faults>>

NoSource ==
    /\ InRecover("fetch")
    /\ rm.sources = {}
    /\ rm' = [rm EXCEPT !.pc = "loop", !.key = None]
    /\ UNCHANGED <<hc, routerVars, backendVars>>

(* writeValueToRecoveredNode: /kvstore/sync upserts; a failure is ignored. *)
NextKey == rm' = [rm EXCEPT !.pc = "loop", !.key = None, !.sources = {}, !.val = None]

SyncValue ==
    /\ InRecover("sync")
    /\ \E ok \in BOOLEAN :
          /\ Transact(rm.node, rm.key, rm.val, ok)
          /\ IF ok THEN rm' = [rm EXCEPT !.pc = "forget"] ELSE NextKey
    /\ UNCHANGED <<hc, routerVars, alive, cached>>

SyncForget ==
    /\ InRecover("forget")
    /\ DeleteKey(rm.node, rm.key)
    /\ NextKey
    /\ UNCHANGED <<hc, routerVars, alive, db, faults>>

EndRecover ==
    /\ InRecover("loop")
    /\ rm.scan = {} /\ rm.keys = {}
    /\ rm' = NoRecovery
    /\ UNCHANGED <<hc, routerVars, backendVars>>

-----------------------------------------------------------------------------
(* HealthChecker::run.                                                     *)
InRun(pc) == lbUp /\ hc.pc = pc

EndVisit == hc' = [hc EXCEPT !.pc = "loop", !.node = None]

StartRound ==
    /\ InRun("loop")
    /\ DOMAIN hc.pend = {}
    /\ hc' = [hc EXCEPT !.pend = status]
    /\ UNCHANGED <<rm, routerVars, backendVars>>

(* pingBackend, which a running backend may fail to answer in time, and    *)
(* the branch on its result and on the copied status.                      *)
Ping ==
    /\ InRun("loop")
    /\ \E n \in DOMAIN hc.pend, ok \in BOOLEAN :
          LET next == IF ok /\ hc.pend[n] = "DOWN" THEN "recovering"
                      ELSE IF ~ok /\ hc.pend[n] # "DOWN" THEN "down"
                      ELSE "loop"
          IN  /\ Served(n, ok)
              /\ hc' = [pc   |-> next,
                        pend |-> [m \in DOMAIN hc.pend \ {n} |-> hc.pend[m]],
                        node |-> IF next = "loop" THEN None ELSE n]
    /\ UNCHANGED <<rm, routerVars, alive, db, cached>>

MarkRecoveringStatus ==
    /\ InRun("recovering")
    /\ SetStatus(hc.node, "RECOVERING")
    /\ hc' = [hc EXCEPT !.pc = "rejoin"]
    /\ UNCHANGED <<rm, backendVars>>

RecoverOffRing ==  \* bug: recovery starts before the backend is on the ring again
    /\ InRun("rejoin")
    /\ hc' = [hc EXCEPT !.pc = "recover"]
    /\ rm' = [NoRecovery EXCEPT !.pc = "online", !.node = hc.node]
    /\ UNCHANGED <<routerVars, backendVars>>

MarkRecoveringRing ==
    /\ InRun("rejoin")
    /\ AddNode(hc.node)
    /\ hc' = [hc EXCEPT !.pc = "recover"]
    /\ rm' = [NoRecovery EXCEPT !.pc = "online", !.node = hc.node]
    /\ UNCHANGED backendVars

LeaveIfDead ==  \* bug: the visit ends early when the backend has died again
    /\ InRun("recover")
    /\ rm.pc = "off"
    /\ \/ alive[hc.node] /\ SetStatus(hc.node, "UP") /\ hc' = [hc EXCEPT !.pc = "readd"]
       \/ ~alive[hc.node] /\ EndVisit /\ UNCHANGED routerVars
    /\ UNCHANGED <<rm, backendVars>>

(* recover() has returned: markBackendUp, whatever happened meanwhile.     *)
MarkUpStatus ==
    /\ InRun("recover")
    /\ rm.pc = "off"
    /\ SetStatus(hc.node, "UP")
    /\ hc' = [hc EXCEPT !.pc = "readd"]
    /\ UNCHANGED <<rm, backendVars>>

TrustsRecovering ==  \* bug: the backend is taken to be on the ring already
    InRun("readd") /\ EndVisit /\ UNCHANGED <<rm, routerVars, backendVars>>

MarkUpRing ==
    /\ InRun("readd")
    /\ AddNode(hc.node)
    /\ EndVisit
    /\ UNCHANGED <<rm, backendVars>>

CheckerDownStatus ==
    /\ InRun("down")
    /\ SetStatus(hc.node, "DOWN")
    /\ hc' = [hc EXCEPT !.pc = "evict"]
    /\ UNCHANGED <<rm, backendVars>>

StaysOnRing ==  \* bug: a dead backend keeps its virtual nodes
    InRun("evict") /\ EndVisit /\ UNCHANGED <<rm, routerVars, backendVars>>

CheckerDownRing ==
    /\ InRun("evict")
    /\ RemoveNode(hc.node)
    /\ EndVisit
    /\ UNCHANGED <<rm, backendVars>>

RecoveryStep ==
    \/ ListOnline
    \/ FetchAllKeys
    \/ PickKey
    \/ CheckOwner
    \/ FetchCached
    \/ FetchRow
    \/ FetchFill
    \/ NoSource
    \/ SyncValue
    \/ SyncForget
    \/ EndRecover

(* The process of n is gone, and the call to it that is going on fails.    *)
ResetRecovery(n) ==
    IF rm.pc \in {"select", "fill"} /\ IsSource(n) THEN NextSource(n)
    ELSE IF rm.pc = "forget" /\ rm.node = n THEN NextKey
    ELSE UNCHANGED rm

(* recover() is about to have the entry of row k of n created.             *)
FillingPeer(n, k) == rm.pc = "fill" /\ rm.key = k /\ IsSource(n)

HealthStep ==
    \/ RecoveryStep
    \/ StartRound
    \/ Ping
    \/ MarkRecoveringStatus
    \/ MarkRecoveringRing
    \/ MarkUpStatus
    \/ MarkUpRing
    \/ CheckerDownStatus
    \/ CheckerDownRing
=============================================================================
