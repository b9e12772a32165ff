---------------------------- MODULE ProxySession ----------------------------
(***************************************************************************)
(* ProxySession::forwardTraffic: one thread per client connection, which   *)
(* takes a request, asks the Router for candidates, and                    *)
(*   - for POST, PUT and DELETE sends it to every candidate in turn and    *)
(*     answers with the last 200/201 it got, or else the first answer;     *)
(*   - for GET sends it to one candidate after the other until one answers.*)
(*                                                                         *)
(* sess[p] holds the locals of the loop body:                              *)
(*   op, key, val  the request; for a GET val ends as the body returned    *)
(*   todo          the candidates the loop has not reached yet             *)
(*   cur           the backend of the current iteration                    *)
(*   code          the status code of the backend's answer                 *)
(*   best          the status code of primaryResponse                      *)
(* and pc, which of the blocking calls the thread is in:                   *)
(*   recv, route, connect;  exec: the request is on its way to cur;        *)
(*   select, fill, forget: its handler runs at cur, and is going to read   *)
(*   the row, to cache the row it read, or to bring the cache up to date   *)
(*   after its commit;  reply: cur has answered;                           *)
(*   broken: the connection to cur was lost;                               *)
(*   mark, unring: the two halves of markBackendDown(cur).                 *)
(***************************************************************************)
EXTENDS Router, Backends

CONSTANT Proxies  \* the client connections

VARIABLE sess

Codes == {200, 201, 404, 409, 500}
Success == {200, 201}

ASSUME ProxySessionAssumption == None \notin Codes

Fresh == [pc |-> "recv", op |-> None, key |-> None, val |-> None,
          todo |-> {}, cur |-> None, code |-> None, best |-> None]

Session ==
    [pc   : {"recv", "route", "connect", "exec", "select", "fill", "forget", "reply",
             "broken", "mark", "unring"},
     op   : Ops \union {None},
     key  : Keys \union {None},
     val  : Rows,
     todo : SUBSET Nodes,
     cur  : Nodes \union {None},
     code : Codes \union {None},
     best : Codes \union {None}]

SessionTypeOK == sess \in [Proxies -> Session]

SessionInit == sess = [p \in Proxies |-> Fresh]

-----------------------------------------------------------------------------
(* The request is with its backend, or the answer on the way back.         *)
AtBackend == {"exec", "select", "fill", "forget", "reply"}

(* A handler of p is about to create the entry of row k in the cache of n. *)
Filling(p, n, k) ==
    LET s == sess[p] IN
    /\ s.cur = n /\ s.key = k
    /\ s.pc = "fill" \/ (s.pc = "forget" /\ s.op = "create")

At(p, pc) == lbUp /\ sess[p].pc = pc

(* A request has been read and parsed.  The lookup starts with the test    *)
(* that the ring is not empty, under a lock of its own.                    *)
Receive(p, op, k, v) ==
    /\ At(p, "recv")
    /\ \/ /\ onRing # {}
          /\ sess' = [sess EXCEPT ![p] =
                [Fresh EXCEPT !.pc = "route", !.op = op, !.key = k, !.val = v]]
          /\ UNCHANGED routerVars
       \/ ThrowNoBackend /\ UNCHANGED sess
    /\ UNCHANGED backendVars

Candidates(s) ==
    IF IsWrite(s.op) THEN GetWriteBackends(s.key) ELSE GetReadBackends(s.key)

(* The rest of the lookup.  Without a candidate the client gets a 503.     *)
Route(p) ==
    /\ At(p, "route")
    /\ LET S == Candidates(sess[p]) IN
          sess' = [sess EXCEPT ![p] =
              IF S = {} THEN Fresh ELSE [@ EXCEPT !.pc = "connect", !.todo = S]]
    /\ UNCHANGED <<routerVars, backendVars>>

ConnectInAnyOrder(p) ==  \* bug: the order of the ring is lost
    /\ At(p, "connect")
    /\ \E n \in sess[p].todo :
          sess' = [sess EXCEPT ![p].cur = n,
                               ![p].todo = @ \ {n},
                               ![p].pc = IF alive[n] THEN "exec" ELSE "mark"]
    /\ UNCHANGED <<routerVars, backendVars>>

(* connectToBackend for the next candidate.                                *)
Connect(p) ==
    /\ At(p, "connect")
    /\ \E n \in sess[p].todo :
          /\ IsFirst(sess[p].key, n, sess[p].todo)
          /\ sess' = [sess EXCEPT ![p].cur = n,
                                  ![p].todo = @ \ {n},
                                  ![p].pc = IF alive[n] THEN "exec" ELSE "mark"]
    /\ UNCHANGED <<routerVars, backendVars>>

(* The handler of the request runs at backend cur; it needs nothing more   *)
(* of the proxy.  A GET: cache.read_key answers a hit ...                  *)
ReadCache(p) ==
    LET s == sess[p] IN
    /\ s.pc = "exec" /\ ~IsWrite(s.op)
    /\ sess' = [sess EXCEPT ![p] =
          IF Hit(s.cur, s.key)
          THEN [s EXCEPT !.pc = "reply", !.code = 200, !.val = cached[s.cur][s.key]]
          ELSE [s EXCEPT !.pc = "select"]]
    /\ UNCHANGED <<routerVars, backendVars>>

(* ... after a miss the row is read ...                                    *)
SelectRow(p) ==
    LET s == sess[p]
        row == db[s.cur][s.key]
    IN  /\ s.pc = "select"
        /\ \E ok \in BOOLEAN :
              /\ Served(s.cur, ok)
              /\ sess' = [sess EXCEPT
                    ![p].pc = IF ok /\ row # None THEN "fill" ELSE "reply",
                    ![p].code = IF ok THEN StatusCode(s.op, row) ELSE 500,
                    ![p].val = IF ok THEN row ELSE None]
        /\ UNCHANGED <<routerVars, alive, db, cached>>

(* ... and put into the cache.                                             *)
FillCache(p) ==
    LET s == sess[p] IN
    /\ s.pc = "fill"
    /\ CreateKey(s.cur, s.key, s.val)
    /\ sess' = [sess EXCEPT ![p].pc = "reply"]
    /\ UNCHANGED <<routerVars, alive, db, faults>>

(* A write: the transaction, which is not committed for a 404 or a 409 ... *)
CommitWrite(p) ==
    LET s == sess[p]
        row == db[s.cur][s.key]
        code == StatusCode(s.op, row)
    IN  /\ s.pc = "exec" /\ IsWrite(s.op)
        /\ \E ok \in BOOLEAN :
              /\ Transact(s.cur, s.key, RowAfter(s.op, row, s.val), ok)
              /\ sess' = [sess EXCEPT
                    ![p].pc = IF ok /\ code \in Success THEN "forget" ELSE "reply",
                    ![p].code = IF ok THEN code ELSE 500]
        /\ UNCHANGED <<routerVars, alive, cached>>

(* ... and then the cache: create_key in handle_create, delete_key in the  *)
(* others.                                                                 *)
UpdateCache(p) ==
    LET s == sess[p] IN
    /\ s.pc = "forget"
    /\ IF s.op = "create" THEN CreateKey(s.cur, s.key, s.val) ELSE DeleteKey(s.cur, s.key)
    /\ sess' = [sess EXCEPT ![p].pc = "reply"]
    /\ UNCHANGED <<routerVars, alive, db, faults>>

HandlerStep(p) ==
    \/ ReadCache(p)
    \/ SelectRow(p)
    \/ FillCache(p)
    \/ CommitWrite(p)
    \/ UpdateCache(p)

(* The answer of cur is read.  A GET passes it on whatever its status; a   *)
(* write keeps it if it is the first one or a success, and goes on.        *)
Reply(p) ==
    /\ At(p, "reply")
    /\ LET s == sess[p] IN
          sess' = [sess EXCEPT ![p] =
              IF ~IsWrite(s.op)
              THEN Fresh
              ELSE [s EXCEPT !.pc = "connect", !.cur = None, !.code = None,
                             !.best = IF s.best = None \/ s.code \in Success
                                      THEN s.code ELSE s.best]]
    /\ UNCHANGED <<routerVars, backendVars>>

(* The connection to cur ended before the whole answer was there: a GET    *)
(* marks cur DOWN, a write just goes on to the next candidate.             *)
Broken(p) ==
    /\ At(p, "broken")
    /\ sess' = [sess EXCEPT ![p] =
          IF IsWrite(@.op)
          THEN [@ EXCEPT !.pc = "connect", !.cur = None, !.code = None]
          ELSE [@ EXCEPT !.pc = "mark", !.code = None, !.val = None]]
    /\ UNCHANGED <<routerVars, backendVars>>

(* markBackendDown(cur): the status, then the ring.                        *)
MarkDownStatus(p) ==
    /\ At(p, "mark")
    /\ SetStatus(sess[p].cur, "DOWN")
    /\ sess' = [sess EXCEPT ![p].pc = "unring"]
    /\ UNCHANGED backendVars

RetryAfterMark(p) ==  \* bug: the backend found dead is tried again
    /\ At(p, "unring")
    /\ RemoveNode(sess[p].cur)
    /\ sess' = [sess EXCEPT ![p].pc = "connect", ![p].todo = @ \union {sess[p].cur},
                            ![p].cur = None]
    /\ UNCHANGED backendVars

MarkDownRing(p) ==
    /\ At(p, "unring")
    /\ RemoveNode(sess[p].cur)
    /\ sess' = [sess EXCEPT ![p].pc = "connect", ![p].cur = None]
    /\ UNCHANGED backendVars

(* The candidates are exhausted: the client gets the answer kept in best,  *)
(* or a 503 when no backend answered.                                      *)
Respond(p) ==
    /\ At(p, "connect")
    /\ sess[p].todo = {}
    /\ sess' = [sess EXCEPT ![p] = Fresh]
    /\ UNCHANGED <<routerVars, backendVars>>

ProxyStep(p) ==
    \/ Route(p)
    \/ Connect(p)
    \/ HandlerStep(p)
    \/ Reply(p)
    \/ Broken(p)
    \/ MarkDownStatus(p)
    \/ MarkDownRing(p)
    \/ Respond(p)

(* The process of n is gone: every connection to it is reset, whether its  *)
(* handler has run, is at work, or has not begun.                          *)
ResetConnections(n) ==
    sess' = [p \in Proxies |->
                IF sess[p].cur = n /\ sess[p].pc \in AtBackend
                THEN [sess[p] EXCEPT !.pc = "broken"]
                ELSE sess[p]]
=============================================================================
