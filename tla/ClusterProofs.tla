--------------------------- MODULE ClusterProofs ---------------------------
(***************************************************************************)
(* Theorems about Cluster, for any number of backends, keys, values,       *)
(* sessions, crashes and faults, and for every Adversity.                  *)
(*                                                                         *)
(* The inductive invariant says, besides the types, what each thread's     *)
(* locals hold at each of its pcs (SessionInv, RecoveryInv) and which      *)
(* backend the health thread answers for (CheckerInv, RecoveringOwned).    *)
(*                                                                         *)
(* The second half is that Cluster implements RegularStore, for clients    *)
(* that use GET and PUT, as long as no backend and no handler fails and no *)
(* fill of a cache is late.                                                *)
(***************************************************************************)
EXTENDS Cluster, TLAPS, FiniteSetTheorems

(* A session past recv has a request, one that deals with a backend has    *)
(* that backend in cur, and the handler there is the one of the request.   *)
WellFormed(s) ==
    /\ s.pc # "recv" => s.op \in Ops /\ s.key \in Keys
    /\ s.pc \in AtBackend \union {"broken", "mark", "unring"} => s.cur \in Nodes
    /\ s.pc \in {"select", "fill"} => ~IsWrite(s.op)
    /\ s.pc = "forget" => IsWrite(s.op)

SessionInv == \A p \in Proxies : WellFormed(sess[p])

(* recover() works on a key from the moment it has picked it.              *)
RecoveryInv ==
    rm.pc \in {"own", "fetch", "select", "fill", "sync", "forget"} => rm.key \in Keys

(* recover() runs inside the visit of the backend it was called for.       *)
CheckerInv ==
    /\ hc.pc # "loop" => hc.node \in Nodes
    /\ rm.pc # "off" => hc.pc = "recover" /\ rm.node = hc.node

IInv == TypeOK /\ SessionInv /\ RecoveryInv /\ CheckerInv /\ RecoveringOwned

-----------------------------------------------------------------------------
(* What the parts of the invariant that a group of steps leaves alone rest *)
(* on.                                                                     *)
LEMMA SessionFrame ==
    ASSUME SessionTypeOK, SessionInv, UNCHANGED sess
    PROVE  SessionTypeOK' /\ SessionInv'
BY DEF SessionTypeOK, SessionInv

LEMMA HealthFrame ==
    ASSUME HealthTypeOK, RecoveryInv, CheckerInv, UNCHANGED healthVars
    PROVE  HealthTypeOK' /\ RecoveryInv' /\ CheckerInv'
BY DEF HealthTypeOK, RecoveryInv, CheckerInv, healthVars

LEMMA SessionUpdate ==
    ASSUME SessionTypeOK, SessionInv, NEW p \in Proxies,
           NEW s \in Session, WellFormed(s), sess' = [sess EXCEPT ![p] = s]
    PROVE  SessionTypeOK' /\ SessionInv'
BY DEF SessionTypeOK, SessionInv, WellFormed

LEMMA FreshWellFormed == Fresh \in Session /\ WellFormed(Fresh)
BY DEF Fresh, Session, WellFormed, AtBackend, IsWrite, Rows

LEMMA IdleHealthTypes == NoVisit \in Checker /\ NoRecovery \in Recovery
<1>1. [n \in {} |-> "UP"] \in [{} -> BackendStatus]
  OBVIOUS
<1>2. [n \in {} |-> "UP"] \in UNION {[S -> BackendStatus] : S \in SUBSET Nodes}
  BY <1>1
<1> QED  BY <1>2 DEF NoVisit, Checker, NoRecovery, Recovery, Rows

(* The history of a step of a busy session stays well-typed.               *)
LEMMA HistoryTypes ==
    ASSUME TypeOK, SessionInv, NEW p \in Proxies, sess[p].pc # "recv", History(p)
    PROVE  legal' \in [Keys -> SUBSET Rows] /\ seen' \in [Proxies -> SUBSET Rows]
<1> DEFINE s == sess[p]
<1>1. s.key \in Keys /\ legal[s.key] \in SUBSET Rows /\ Written(s) \in Rows
  BY DEF TypeOK, SessionTypeOK, SessionInv, WellFormed, Session, Written, Rows
<1>2. LegalAfter(p) \in SUBSET Rows
  <2>1. {Written(s)} \in SUBSET Rows /\ legal[s.key] \union {Written(s)} \in SUBSET Rows
    BY <1>1
  <2> HIDE DEF s
  <2>2. LegalAfter(p) \in {legal[s.key] \union {Written(s)}, {Written(s)}, legal[s.key]}
    BY DEF s, LegalAfter
  <2> QED  BY <1>1, <2>1, <2>2
<1>3. legal' \in [Keys -> SUBSET Rows]
  BY <1>2 DEF TypeOK, History
<1>4. \A q \in Proxies : seen[q] \in SUBSET Rows /\ seen[q] \union LegalAfter(p) \in SUBSET Rows
  BY <1>2 DEF TypeOK
<1>5. seen' \in [Proxies -> SUBSET Rows]
  BY <1>4 DEF TypeOK, History
<1> QED  BY <1>3, <1>5

(* What the handlers make of a row and answer is a row and a code.         *)
LEMMA HandlerTypes ==
    ASSUME NEW op \in Ops, NEW row \in Rows, NEW v \in Rows
    PROVE  RowAfter(op, row, v) \in Rows /\ StatusCode(op, row) \in Codes
BY DEF Ops, RowAfter, StatusCode, Rows, Codes

LEMMA ServedType ==
    ASSUME BackendsTypeOK, NEW n, NEW ok \in BOOLEAN, Served(n, ok)
    PROVE  faults' \in 0 .. MaxFaults
BY BackendsAssumption DEF BackendsTypeOK, Served

LEMMA TransactTypes ==
    ASSUME BackendsTypeOK, NEW n, NEW k, NEW row \in Rows, NEW ok \in BOOLEAN,
           Transact(n, k, row, ok)
    PROVE  db' \in [Nodes -> [Keys -> Rows]] /\ faults' \in 0 .. MaxFaults
<1>1. faults' \in 0 .. MaxFaults
  BY ServedType DEF Transact
<1>2. db' = db \/ db' = [db EXCEPT ![n][k] = row]
  BY DEF Transact
<1>3. CASE db' = [db EXCEPT ![n][k] = row]
  BY <1>1, <1>3 DEF BackendsTypeOK
<1>4. CASE db' = db
  BY <1>1, <1>4 DEF BackendsTypeOK
<1> QED  BY <1>2, <1>3, <1>4

LEMMA CacheType ==
    ASSUME BackendsTypeOK, NEW n, NEW k,
           (\E v \in Rows : CreateKey(n, k, v)) \/ DeleteKey(n, k)
    PROVE  cached' \in [Nodes -> [Keys -> Rows]]
<1>1. CASE DeleteKey(n, k)
  BY <1>1 DEF DeleteKey, BackendsTypeOK, Rows
<1>2. ASSUME NEW v \in Rows, CreateKey(n, k, v)
      PROVE  cached' \in [Nodes -> [Keys -> Rows]]
  BY <1>2 DEF CreateKey, BackendsTypeOK
<1> QED  BY <1>1, <1>2

LEMMA RouterMarkTypes ==
    ASSUME RouterTypeOK, NEW n \in Nodes,
           \/ \E s \in BackendStatus : SetStatus(n, s)
           \/ AddNode(n)
           \/ RemoveNode(n)
    PROVE  RouterTypeOK'
BY DEF RouterTypeOK, SetStatus, AddNode, RemoveNode

-----------------------------------------------------------------------------
(* The steps of a session, as far as they are about the session and the    *)
(* backends: first those of the handler, ...                               *)
LEMMA HandlerStepTypes ==
    ASSUME IInv, NEW p \in Proxies, HandlerStep(p)
    PROVE  SessionTypeOK' /\ SessionInv' /\ BackendsTypeOK' /\ RouterTypeOK'
<1> DEFINE s == sess[p]
           row == db[s.cur][s.key]
<1> USE DEF IInv, TypeOK
<1>0. /\ s \in Session /\ WellFormed(s) /\ s.val \in Rows
      /\ BackendsTypeOK /\ RouterTypeOK /\ SessionTypeOK /\ SessionInv
  BY DEF SessionTypeOK, SessionInv, Session
<1>1. s.pc \in {"exec", "select", "fill", "forget"} /\ UNCHANGED <<routerVars, alive>>
  BY DEF HandlerStep, ReadCache, SelectRow, FillCache, CommitWrite, UpdateCache, backendVars
<1>2. s.cur \in Nodes /\ s.key \in Keys /\ s.op \in Ops
  BY <1>0, <1>1 DEF WellFormed, AtBackend
<1>3. row \in Rows /\ cached[s.cur][s.key] \in Rows
  BY <1>2 DEF BackendsTypeOK
<1>4. RouterTypeOK'
  BY <1>1 DEF RouterTypeOK, routerVars
<1>5. /\ 200 \in Codes /\ 500 \in Codes /\ None \in Rows
      /\ StatusCode(s.op, row) \in Codes /\ RowAfter(s.op, row, s.val) \in Rows
  BY <1>0, <1>2, <1>3, HandlerTypes DEF Codes, Rows
<1>6. ASSUME NEW pc \in {"select", "fill", "forget", "reply"},
             NEW c \in Codes \union {None}, NEW v \in Rows,
             pc \in {"select", "fill"} => ~IsWrite(s.op), pc = "forget" => IsWrite(s.op),
             sess' = [sess EXCEPT ![p] = [s EXCEPT !.pc = pc, !.code = c, !.val = v]]
      PROVE  SessionTypeOK' /\ SessionInv'
  <2> DEFINE r == [s EXCEPT !.pc = pc, !.code = c, !.val = v]
  <2>1. r \in Session /\ r.pc = pc /\ r.op = s.op /\ r.key = s.key /\ r.cur = s.cur
    BY <1>0, <1>6 DEF Session
  <2>2. WellFormed(r)
    BY <1>2, <1>6, <2>1 DEF WellFormed
  <2> HIDE DEF r
  <2>3. sess' = [sess EXCEPT ![p] = r]
    BY <1>6 DEF r
  <2> QED  BY <1>0, <2>1, <2>2, <2>3, SessionUpdate
<1> HIDE DEF IInv, TypeOK
<1>7. s = [s EXCEPT !.val = s.val] /\ s = [s EXCEPT !.code = s.code] /\ s.code \in Codes \union {None}
  BY <1>0 DEF Session
<1>8. CASE ReadCache(p)
  <2>1. /\ ~IsWrite(s.op) /\ UNCHANGED backendVars
        /\ sess' = [sess EXCEPT ![p] =
              IF Hit(s.cur, s.key)
              THEN [s EXCEPT !.pc = "reply", !.code = 200, !.val = cached[s.cur][s.key]]
              ELSE [s EXCEPT !.pc = "select"]]
    BY <1>8 DEF ReadCache
  <2>2. [s EXCEPT !.pc = "select"] = [s EXCEPT !.pc = "select", !.code = s.code, !.val = s.val]
    BY <1>0 DEF Session
  <2>3. SessionTypeOK' /\ SessionInv'
    <3>1. CASE Hit(s.cur, s.key)
      <4> HIDE DEF s
      <4> QED  BY <1>3, <1>5, <1>6, <2>1, <3>1
    <3>2. CASE ~Hit(s.cur, s.key)
      <4>1. sess' = [sess EXCEPT ![p] =
                        [s EXCEPT !.pc = "select", !.code = s.code, !.val = s.val]]
        BY <2>1, <2>2, <3>2
      <4>2. s.code \in Codes \union {None} /\ s.val \in Rows /\ ~IsWrite(s.op)
        BY <1>0, <1>7, <2>1
      <4> HIDE DEF s
      <4> QED  BY <1>6, <4>1, <4>2
    <3> QED  BY <3>1, <3>2
  <2> QED  BY <1>0, <1>4, <2>1, <2>3 DEF backendVars, BackendsTypeOK
<1>9. CASE SelectRow(p)
  <2>1. PICK ok \in BOOLEAN :
            /\ Served(s.cur, ok)
            /\ sess' = [sess EXCEPT
                  ![p].pc = IF ok /\ row # None THEN "fill" ELSE "reply",
                  ![p].code = IF ok THEN StatusCode(s.op, row) ELSE 500,
                  ![p].val = IF ok THEN row ELSE None]
    BY <1>9 DEF SelectRow
  <2>2. s.pc = "select" /\ UNCHANGED <<alive, db, cached>>
    BY <1>9 DEF SelectRow
  <2> DEFINE pc == IF ok /\ row # None THEN "fill" ELSE "reply"
             c == IF ok THEN StatusCode(s.op, row) ELSE 500
             v == IF ok THEN row ELSE None
  <2>3. pc \in {"fill", "reply"} /\ c \in Codes /\ v \in Rows /\ ~IsWrite(s.op)
    BY <1>0, <1>3, <1>5, <2>2 DEF WellFormed
  <2>4. sess' = [sess EXCEPT ![p] = [s EXCEPT !.pc = pc, !.code = c, !.val = v]]
    <3>1. sess' = [sess EXCEPT ![p].pc = pc, ![p].code = c, ![p].val = v]
      BY <2>1
    <3> HIDE DEF pc, c, v
    <3> QED  BY <1>0, <3>1 DEF SessionTypeOK, Session
  <2>5. SessionTypeOK' /\ SessionInv'
    <3> HIDE DEF pc, c, v, s
    <3> QED  BY <1>6, <2>3, <2>4
  <2>6. faults' \in 0 .. MaxFaults
    BY <1>0, <2>1, ServedType
  <2> QED  BY <1>0, <1>4, <2>2, <2>5, <2>6 DEF BackendsTypeOK
<1>10. CASE FillCache(p)
  <2>1. CreateKey(s.cur, s.key, s.val) /\ UNCHANGED <<alive, db, faults>> /\ s.pc = "fill"
    BY <1>10 DEF FillCache
  <2>2. sess' = [sess EXCEPT ![p] = [s EXCEPT !.pc = "reply", !.code = s.code, !.val = s.val]]
    BY <1>0, <1>10 DEF FillCache, SessionTypeOK, Session
  <2>3. SessionTypeOK' /\ SessionInv'
    <3> HIDE DEF s
    <3> QED  BY <1>0, <1>6, <1>7, <2>2
  <2>4. cached' \in [Nodes -> [Keys -> Rows]]
    BY <1>0, <2>1, CacheType
  <2> QED  BY <1>0, <1>4, <2>1, <2>3, <2>4 DEF BackendsTypeOK
<1>11. CASE CommitWrite(p)
  <2>1. PICK ok \in BOOLEAN :
            /\ Transact(s.cur, s.key, RowAfter(s.op, row, s.val), ok)
            /\ sess' = [sess EXCEPT
                  ![p].pc = IF ok /\ StatusCode(s.op, row) \in Success THEN "forget" ELSE "reply",
                  ![p].code = IF ok THEN StatusCode(s.op, row) ELSE 500]
    BY <1>11 DEF CommitWrite
  <2>2. IsWrite(s.op) /\ UNCHANGED <<alive, cached>>
    BY <1>11 DEF CommitWrite
  <2> DEFINE pc == IF ok /\ StatusCode(s.op, row) \in Success THEN "forget" ELSE "reply"
             c == IF ok THEN StatusCode(s.op, row) ELSE 500
  <2>3. pc \in {"forget", "reply"} /\ c \in Codes
    BY <1>5
  <2>4. sess' = [sess EXCEPT ![p] = [s EXCEPT !.pc = pc, !.code = c, !.val = s.val]]
    <3>1. sess' = [sess EXCEPT ![p].pc = pc, ![p].code = c]
      BY <2>1
    <3> HIDE DEF pc, c
    <3> QED  BY <1>0, <3>1 DEF SessionTypeOK, Session
  <2>5. SessionTypeOK' /\ SessionInv'
    <3> HIDE DEF pc, c, s
    <3> QED  BY <1>0, <1>6, <2>2, <2>3, <2>4
  <2>6. db' \in [Nodes -> [Keys -> Rows]] /\ faults' \in 0 .. MaxFaults
    BY <1>0, <1>5, <2>1, TransactTypes
  <2> QED  BY <1>0, <1>4, <2>2, <2>5, <2>6 DEF BackendsTypeOK
<1>12. CASE UpdateCache(p)
  <2>1. /\ CreateKey(s.cur, s.key, s.val) \/ DeleteKey(s.cur, s.key)
        /\ UNCHANGED <<alive, db, faults>>
    BY <1>12 DEF UpdateCache
  <2>2. sess' = [sess EXCEPT ![p] = [s EXCEPT !.pc = "reply", !.code = s.code, !.val = s.val]]
    BY <1>0, <1>12 DEF UpdateCache, SessionTypeOK, Session
  <2>3. SessionTypeOK' /\ SessionInv'
    <3> HIDE DEF s
    <3> QED  BY <1>0, <1>6, <1>7, <2>2
  <2>4. cached' \in [Nodes -> [Keys -> Rows]]
    BY <1>0, <2>1, CacheType
  <2> QED  BY <1>0, <1>4, <2>1, <2>3, <2>4 DEF BackendsTypeOK
<1> QED  BY <1>8, <1>9, <1>10, <1>11, <1>12 DEF HandlerStep

(* ... and then all.                                                       *)
LEMMA ProxyStepTypes ==
    ASSUME IInv, NEW p \in Proxies, ProxyStep(p)
    PROVE  SessionTypeOK' /\ SessionInv' /\ BackendsTypeOK' /\ RouterTypeOK'
<1> DEFINE s == sess[p]
<1> USE DEF IInv, TypeOK
<1>0. s \in Session /\ WellFormed(s)
  BY DEF SessionTypeOK, SessionInv
<1>1. CASE Route(p)
  <2> DEFINE S == Candidates(s)
             r == IF S = {} THEN Fresh ELSE [s EXCEPT !.pc = "connect", !.todo = S]
  <2>1. S \in SUBSET Nodes
    BY DEF Candidates, GetReadBackends, GetWriteBackends, GetNodes, RouterTypeOK
  <2>2. r \in Session /\ WellFormed(r)
    BY <1>0, <1>1, <2>1, FreshWellFormed, ZenonT(60) DEF Session, WellFormed, AtBackend, IsWrite, Route, At
  <2>3. sess' = [sess EXCEPT ![p] = r]
    BY <1>1 DEF Route, SessionTypeOK
  <2>4. SessionTypeOK' /\ SessionInv'
    <3> HIDE DEF r
    <3> QED  BY <2>2, <2>3, SessionUpdate
  <2> QED  BY <1>1, <2>4 DEF Route, routerVars, backendVars, RouterTypeOK, BackendsTypeOK
<1>2. CASE Connect(p)
  <2>1. PICK n \in s.todo :
            sess' = [sess EXCEPT ![p].cur = n, ![p].todo = @ \ {n},
                                 ![p].pc = IF alive[n] THEN "exec" ELSE "mark"]
    BY <1>2 DEF Connect
  <2> DEFINE r == [s EXCEPT !.cur = n, !.todo = @ \ {n},
                            !.pc = IF alive[n] THEN "exec" ELSE "mark"]
  <2>2. r \in Session /\ WellFormed(r)
    BY <1>0, <1>2 DEF Session, WellFormed, Connect, At
  <2>3. sess' = [sess EXCEPT ![p] = r]
    BY <1>0, <2>1 DEF SessionTypeOK, Session
  <2>4. SessionTypeOK' /\ SessionInv'
    <3> HIDE DEF r
    <3> QED  BY <2>2, <2>3, SessionUpdate
  <2> QED  BY <1>2, <2>4 DEF Connect, routerVars, backendVars, RouterTypeOK, BackendsTypeOK
<1>3. CASE HandlerStep(p)
  BY <1>3, HandlerStepTypes
<1>4. CASE Reply(p)
  <2> DEFINE r == IF ~IsWrite(s.op) THEN Fresh
                  ELSE [s EXCEPT !.pc = "connect", !.cur = None, !.code = None,
                                 !.best = IF s.best = None \/ s.code \in Success
                                          THEN s.code ELSE s.best]
  <2>1. r \in Session /\ WellFormed(r)
    <3>1. s.pc = "reply" /\ s.code \in Codes \union {None} /\ s.best \in Codes \union {None}
      BY <1>0, <1>4 DEF Session, Reply, At
    <3> DEFINE b == IF s.best = None \/ s.code \in Success THEN s.code ELSE s.best
               w == [s EXCEPT !.pc = "connect", !.cur = None, !.code = None, !.best = b]
    <3>2. b \in Codes \union {None}
      BY <3>1
    <3>3. w \in Session /\ WellFormed(w)
      <4> HIDE DEF s, b
      <4> QED  BY <1>0, <3>1, <3>2 DEF Session, WellFormed, AtBackend, IsWrite
    <3> QED  BY <3>3, FreshWellFormed
  <2>2. sess' = [sess EXCEPT ![p] = r]
    BY <1>4 DEF Reply
  <2>3. SessionTypeOK' /\ SessionInv'
    <3> HIDE DEF r
    <3> QED  BY <2>1, <2>2, SessionUpdate
  <2> QED  BY <1>4, <2>3 DEF Reply, routerVars, backendVars, RouterTypeOK, BackendsTypeOK
<1>5. CASE Broken(p)
  <2> DEFINE r == IF IsWrite(s.op)
                  THEN [s EXCEPT !.pc = "connect", !.cur = None, !.code = None]
                  ELSE [s EXCEPT !.pc = "mark", !.code = None, !.val = None]
  <2>1. r \in Session /\ WellFormed(r)
    <3>1. s.pc = "broken"
      BY <1>5 DEF Broken, At
    <3> DEFINE w == [s EXCEPT !.pc = "connect", !.cur = None, !.code = None]
               g == [s EXCEPT !.pc = "mark", !.code = None, !.val = None]
    <3>2. w \in Session /\ WellFormed(w)
      <4> HIDE DEF s
      <4> QED  BY <1>0, <3>1 DEF Session, WellFormed, AtBackend
    <3>3. g \in Session /\ WellFormed(g)
      <4> HIDE DEF s
      <4> QED  BY <1>0, <3>1 DEF Session, WellFormed, AtBackend, Rows
    <3> QED  BY <3>2, <3>3
  <2>2. sess' = [sess EXCEPT ![p] = r]
    BY <1>0, <1>5 DEF Broken, SessionTypeOK, Session
  <2>3. SessionTypeOK' /\ SessionInv'
    <3> HIDE DEF r
    <3> QED  BY <2>1, <2>2, SessionUpdate
  <2> QED  BY <1>5, <2>3 DEF Broken, routerVars, backendVars, RouterTypeOK, BackendsTypeOK
<1>6. CASE MarkDownStatus(p)
  <2> DEFINE r == [s EXCEPT !.pc = "unring"]
  <2>1. r \in Session /\ WellFormed(r)
    BY <1>0, <1>6, FreshWellFormed DEF Session, WellFormed, MarkDownStatus, At
  <2>2. sess' = [sess EXCEPT ![p] = r]
    BY <1>0, <1>6 DEF MarkDownStatus, SessionTypeOK, Session
  <2>3. SessionTypeOK' /\ SessionInv'
    <3> HIDE DEF r
    <3> QED  BY <2>1, <2>2, SessionUpdate
  <2>4. RouterTypeOK'
    BY <1>0, <1>6, RouterMarkTypes DEF MarkDownStatus, At, WellFormed, BackendStatus
  <2> QED  BY <1>6, <2>3, <2>4 DEF MarkDownStatus, backendVars, BackendsTypeOK
<1>7. CASE MarkDownRing(p)
  <2> DEFINE r == [s EXCEPT !.pc = "connect", !.cur = None]
  <2>1. r \in Session /\ WellFormed(r)
    BY <1>0, <1>7, FreshWellFormed DEF Session, WellFormed, AtBackend, IsWrite, MarkDownRing, At
  <2>2. sess' = [sess EXCEPT ![p] = r]
    BY <1>0, <1>7 DEF MarkDownRing, SessionTypeOK, Session
  <2>3. SessionTypeOK' /\ SessionInv'
    <3> HIDE DEF r
    <3> QED  BY <2>1, <2>2, SessionUpdate
  <2>4. RouterTypeOK'
    BY <1>0, <1>7, RouterMarkTypes DEF MarkDownRing, At, WellFormed, BackendStatus
  <2> QED  BY <1>7, <2>3, <2>4 DEF MarkDownRing, backendVars, BackendsTypeOK
<1>8. CASE Respond(p)
  <2> DEFINE r == Fresh
  <2>1. r \in Session /\ WellFormed(r)
    BY <1>0, <1>8, FreshWellFormed DEF Session, WellFormed, Respond, At
  <2>2. sess' = [sess EXCEPT ![p] = r]
    BY <1>0, <1>8 DEF Respond, SessionTypeOK, Session
  <2>3. SessionTypeOK' /\ SessionInv'
    <3> HIDE DEF r
    <3> QED  BY <2>1, <2>2, SessionUpdate
  <2> QED  BY <1>8, <2>3 DEF Respond, routerVars, backendVars, RouterTypeOK, BackendsTypeOK
<1> QED  BY <1>1, <1>2, <1>3, <1>4, <1>5, <1>6, <1>7, <1>8 DEF ProxyStep

-----------------------------------------------------------------------------
(* The steps of the health thread, as far as they are about its own locals *)
(* and the backends: first the two requests of recover(), ...              *)
LEMMA NextSourceType ==
    ASSUME rm \in Recovery, NEW n, NextSource(n)
    PROVE  rm' \in Recovery /\ rm'.node = rm.node /\ rm'.key = rm.key /\ rm'.pc = "fetch"
BY DEF NextSource, Recovery, Rows

LEMMA FetchedType ==
    ASSUME rm \in Recovery, NEW v \in Rows, Fetched(v)
    PROVE  rm' \in Recovery /\ rm'.node = rm.node /\ rm'.key = rm.key /\ rm'.pc = "sync"
BY DEF Fetched, Recovery

LEMMA NextKeyType ==
    ASSUME rm \in Recovery, NextKey
    PROVE  rm' \in Recovery /\ rm'.node = rm.node /\ rm'.pc = "loop"
BY DEF NextKey, Recovery, Rows

LEMMA FetchTypes ==
    ASSUME HealthTypeOK, RecoveryInv, CheckerInv, RouterTypeOK, BackendsTypeOK,
           FetchCached \/ FetchRow \/ FetchFill
    PROVE  /\ HealthTypeOK' /\ RecoveryInv' /\ CheckerInv'
           /\ RouterTypeOK' /\ BackendsTypeOK'
           /\ UNCHANGED <<hc, status>>
<1>1. /\ rm \in Recovery /\ rm.pc \in {"fetch", "select", "fill"} /\ rm.key \in Keys
      /\ UNCHANGED <<hc, routerVars, alive, db>>
  BY DEF HealthTypeOK, RecoveryInv, FetchCached, FetchRow, FetchFill, InRecover
<1>2. rm.sources \in SUBSET Nodes /\ rm.val \in Rows
  BY <1>1 DEF Recovery
<1>3. \A n \in Nodes : db[n][rm.key] \in Rows /\ cached[n][rm.key] \in Rows
  BY <1>1 DEF BackendsTypeOK
<1>4. SUFFICES /\ rm' \in Recovery /\ rm'.node = rm.node /\ rm'.key = rm.key
               /\ rm'.pc \in {"fetch", "select", "fill", "sync"}
               /\ cached' \in [Nodes -> [Keys -> Rows]] /\ faults' \in 0 .. MaxFaults
  BY <1>1 DEF HealthTypeOK, RecoveryInv, CheckerInv, RouterTypeOK, BackendsTypeOK, routerVars
<1>5. CASE FetchCached
  <2>1. PICK n \in rm.sources, ok \in BOOLEAN :
            /\ Served(n, ok)
            /\ IF ~ok THEN NextSource(n)
               ELSE IF Hit(n, rm.key) THEN Fetched(cached[n][rm.key])
               ELSE rm' = [rm EXCEPT !.pc = "select"]
    BY <1>5 DEF FetchCached
  <2>2. faults' \in 0 .. MaxFaults /\ cached' \in [Nodes -> [Keys -> Rows]]
    BY <1>5, <2>1, ServedType DEF FetchCached, BackendsTypeOK
  <2>3. CASE NextSource(n)
    BY <1>1, <2>2, <2>3, NextSourceType
  <2>4. CASE Fetched(cached[n][rm.key])
    BY <1>1, <1>2, <1>3, <2>2, <2>4, FetchedType
  <2>5. CASE rm' = [rm EXCEPT !.pc = "select"]
    BY <1>1, <2>2, <2>5 DEF Recovery
  <2> QED  BY <2>1, <2>3, <2>4, <2>5
<1>6. CASE FetchRow
  <2>1. PICK n \in rm.sources, ok \in BOOLEAN :
            /\ Served(n, ok)
            /\ IF ok /\ db[n][rm.key] # None
               THEN rm' = [rm EXCEPT !.pc = "fill", !.val = db[n][rm.key]]
               ELSE NextSource(n)
    BY <1>6 DEF FetchRow
  <2>2. faults' \in 0 .. MaxFaults /\ cached' \in [Nodes -> [Keys -> Rows]]
    BY <1>6, <2>1, ServedType DEF FetchRow, BackendsTypeOK
  <2>3. CASE NextSource(n)
    BY <1>1, <2>2, <2>3, NextSourceType
  <2>4. CASE rm' = [rm EXCEPT !.pc = "fill", !.val = db[n][rm.key]]
    <3>1. db[n][rm.key] \in Rows
      BY <1>2, <1>3
    <3> QED  BY <1>1, <2>2, <2>4, <3>1 DEF Recovery
  <2> QED  BY <2>1, <2>3, <2>4
<1>7. CASE FetchFill
  <2>1. PICK n \in rm.sources :
            /\ CreateKey(n, rm.key, rm.val)
            /\ IF rm.val = EmptyValue THEN NextSource(n) ELSE Fetched(rm.val)
    BY <1>7 DEF FetchFill
  <2>2. faults' \in 0 .. MaxFaults /\ cached' \in [Nodes -> [Keys -> Rows]]
    BY <1>2, <1>7, <2>1, CacheType DEF FetchFill, BackendsTypeOK
  <2>3. CASE NextSource(n)
    BY <1>1, <2>2, <2>3, NextSourceType
  <2>4. CASE Fetched(rm.val)
    BY <1>1, <1>2, <2>2, <2>4, FetchedType
  <2> QED  BY <2>1, <2>3, <2>4
<1> QED  BY <1>5, <1>6, <1>7

LEMMA SyncTypes ==
    ASSUME HealthTypeOK, RecoveryInv, CheckerInv, RouterTypeOK, BackendsTypeOK,
           SyncValue \/ SyncForget
    PROVE  /\ HealthTypeOK' /\ RecoveryInv' /\ CheckerInv'
           /\ RouterTypeOK' /\ BackendsTypeOK'
           /\ UNCHANGED <<hc, status>>
<1>1. /\ rm \in Recovery /\ rm.pc \in {"sync", "forget"} /\ rm.key \in Keys /\ rm.val \in Rows
      /\ UNCHANGED <<hc, routerVars, alive>>
  BY DEF HealthTypeOK, RecoveryInv, SyncValue, SyncForget, InRecover, Recovery
<1>2. /\ rm' \in Recovery /\ rm'.node = rm.node
      /\ rm'.pc \in {"loop", "forget"} /\ (rm'.pc = "forget" => rm'.key = rm.key)
  <2>1. CASE NextKey
    BY <1>1, <2>1, NextKeyType
  <2>2. CASE rm' = [rm EXCEPT !.pc = "forget"]
    BY <1>1, <2>2 DEF Recovery
  <2>3. NextKey \/ rm' = [rm EXCEPT !.pc = "forget"]
    BY DEF SyncValue, SyncForget
  <2> QED  BY <2>1, <2>2, <2>3
<1>3. /\ db' \in [Nodes -> [Keys -> Rows]] /\ cached' \in [Nodes -> [Keys -> Rows]]
      /\ faults' \in 0 .. MaxFaults
  <2>1. CASE SyncValue
    <3>1. PICK ok \in BOOLEAN : Transact(rm.node, rm.key, rm.val, ok)
      BY <2>1 DEF SyncValue
    <3>2. db' \in [Nodes -> [Keys -> Rows]] /\ faults' \in 0 .. MaxFaults
      BY <1>1, <3>1, TransactTypes
    <3> QED  BY <2>1, <3>2 DEF SyncValue, BackendsTypeOK
  <2>2. CASE SyncForget
    BY <2>2, CacheType DEF SyncForget, BackendsTypeOK
  <2> QED  BY <2>1, <2>2
<1> QED  BY <1>1, <1>2, <1>3 DEF HealthTypeOK, RecoveryInv, CheckerInv, RouterTypeOK,
                                 BackendsTypeOK, routerVars

(* ... then the other steps of it, ...                                     *)
LEMMA RecoveryStepTypes ==
    ASSUME HealthTypeOK, RecoveryInv, CheckerInv, RouterTypeOK, BackendsTypeOK, RecoveryStep
    PROVE  /\ HealthTypeOK' /\ RecoveryInv' /\ CheckerInv'
           /\ RouterTypeOK' /\ BackendsTypeOK'
           /\ UNCHANGED <<hc, status>>
<1> USE DEF HealthTypeOK, RecoveryInv, CheckerInv
<1>1. rm \in Recovery
  OBVIOUS
<1>2. CASE ListOnline
  <2>1. rm' \in Recovery
    BY <1>1, <1>2 DEF ListOnline, Recovery, GetOnlineBackends
  <2> QED  BY <1>2, <2>1 DEF ListOnline, InRecover, Recovery, routerVars, backendVars,
                             RouterTypeOK, BackendsTypeOK
<1>3. CASE FetchAllKeys
  <2>1. PICK n \in rm.scan, ok \in BOOLEAN :
            /\ Served(n, ok)
            /\ rm' = [rm EXCEPT !.scan = @ \ {n},
                                !.keys = @ \union {k \in Keys : ok /\ db[n][k] # None}]
    BY <1>3 DEF FetchAllKeys
  <2>2. rm' \in Recovery /\ rm'.pc = rm.pc /\ rm'.node = rm.node
    BY <1>1, <2>1 DEF Recovery
  <2>3. faults' \in 0 .. MaxFaults
    BY <2>1, ServedType
  <2> QED  BY <1>3, <2>2, <2>3 DEF FetchAllKeys, InRecover, routerVars, RouterTypeOK, BackendsTypeOK
<1>4. CASE PickKey
  <2>1. PICK k \in rm.keys :
            \/ rm' = [rm EXCEPT !.pc = "own", !.keys = @ \ {k}, !.key = k] /\ UNCHANGED routerVars
            \/ ThrowNoBackend /\ UNCHANGED rm
    BY <1>4 DEF PickKey
  <2>2. CASE rm' = [rm EXCEPT !.pc = "own", !.keys = @ \ {k}, !.key = k] /\ UNCHANGED routerVars
    <3>1. rm' \in Recovery /\ rm'.key \in Keys /\ rm'.node = rm.node /\ rm.pc # "off"
      BY <1>1, <1>4, <2>2 DEF Recovery, PickKey, InRecover
    <3> QED  BY <1>4, <2>2, <3>1 DEF PickKey, routerVars, backendVars, RouterTypeOK, BackendsTypeOK
  <2>3. CASE ThrowNoBackend /\ UNCHANGED rm
    BY <1>4, <2>3 DEF PickKey, ThrowNoBackend, backendVars, RouterTypeOK, BackendsTypeOK
  <2> QED  BY <2>1, <2>2, <2>3
<1>5. CASE CheckOwner
  <2>1. /\ rm' \in Recovery /\ rm'.node = rm.node /\ rm.pc # "off"
        /\ rm'.pc = "fetch" => rm'.key \in Keys
        /\ rm'.pc \in {"fetch", "loop"}
    BY <1>1, <1>5 DEF Recovery, CheckOwner, InRecover, GetNodes, RouterTypeOK
  <2> QED  BY <1>5, <2>1 DEF CheckOwner, routerVars, backendVars, RouterTypeOK, BackendsTypeOK
<1>6. CASE FetchCached \/ FetchRow \/ FetchFill
  BY <1>6, FetchTypes
<1>7. CASE NoSource
  <2>1. rm' \in Recovery /\ rm'.node = rm.node /\ rm'.pc = "loop" /\ rm.pc # "off"
    BY <1>1, <1>7 DEF Recovery, NoSource, InRecover
  <2> QED  BY <1>7, <2>1 DEF NoSource, routerVars, backendVars, RouterTypeOK, BackendsTypeOK
<1>8. CASE SyncValue \/ SyncForget
  BY <1>8, SyncTypes
<1>9. CASE EndRecover
  <2>1. rm' \in Recovery /\ rm'.pc = "off"
    BY <1>9 DEF Recovery, EndRecover, NoRecovery, Rows
  <2> QED  BY <1>9, <2>1 DEF EndRecover, routerVars, backendVars, RouterTypeOK, BackendsTypeOK
<1> QED  BY <1>2, <1>3, <1>4, <1>5, <1>6, <1>7, <1>8, <1>9 DEF RecoveryStep

(* ... and then those of run().                                            *)
LEMMA HealthStepTypes ==
    ASSUME IInv, HealthStep
    PROVE  /\ HealthTypeOK' /\ RecoveryInv' /\ CheckerInv' /\ RecoveringOwned'
           /\ RouterTypeOK' /\ BackendsTypeOK'
<1> USE DEF IInv, TypeOK, HealthTypeOK, RecoveryInv, CheckerInv
<1>0. hc \in Checker /\ rm \in Recovery
  OBVIOUS
<1>1. CASE RecoveryStep
  BY <1>1, RecoveryStepTypes DEF RecoveringOwned
<1>2. CASE StartRound
  <2>1. hc.pc = "loop" /\ hc' = [hc EXCEPT !.pend = status]
    BY <1>2 DEF StartRound, InRun
  <2>2. status \in UNION {[S -> BackendStatus] : S \in SUBSET Nodes}
    BY DEF RouterTypeOK
  <2>3. hc' \in Checker /\ hc'.pc = "loop" /\ hc'.node = hc.node
    BY <1>0, <2>1, <2>2 DEF Checker
  <2> QED  BY <1>2, <2>1, <2>3 DEF StartRound, routerVars, backendVars, RouterTypeOK,
                                   BackendsTypeOK, RecoveringOwned
<1>3. CASE Ping
  <2>1. hc.pc = "loop" /\ UNCHANGED <<rm, status>>
    BY <1>3 DEF Ping, InRun, routerVars
  <2>2. PICK n \in DOMAIN hc.pend, ok \in BOOLEAN :
            LET next == IF ok /\ hc.pend[n] = "DOWN" THEN "recovering"
                        ELSE IF ~ok /\ hc.pend[n] # "DOWN" THEN "down"
                        ELSE "loop"
            IN  /\ Served(n, ok)
                /\ hc' = [pc   |-> next,
                          pend |-> [m \in DOMAIN hc.pend \ {n} |-> hc.pend[m]],
                          node |-> IF next = "loop" THEN None ELSE n]
    BY <1>3 DEF Ping
  <2>0. faults' \in 0 .. MaxFaults
    BY <2>2, ServedType
  <2>3. PICK S \in SUBSET Nodes : hc.pend \in [S -> BackendStatus]
    BY <1>0 DEF Checker
  <2> DEFINE rest == [m \in S \ {n} |-> hc.pend[m]]
  <2>4. rest \in [S \ {n} -> BackendStatus] /\ n \in Nodes /\ hc'.pend = rest
    BY <2>2, <2>3
  <2>5. hc'.pend \in UNION {[T -> BackendStatus] : T \in SUBSET Nodes}
    BY <2>3, <2>4
  <2>6. /\ hc' = [pc |-> hc'.pc, pend |-> hc'.pend, node |-> hc'.node]
        /\ hc'.pc \in {"recovering", "down", "loop"}
        /\ hc'.node \in Nodes \union {None}
        /\ hc'.pc # "loop" => hc'.node \in Nodes
    BY <2>2, <2>4
  <2>7. hc' \in Checker
    BY <2>5, <2>6 DEF Checker
  <2>8. RecoveringOwned'
    BY <2>1 DEF RecoveringOwned
  <2> QED  BY <1>3, <2>0, <2>1, <2>6, <2>7, <2>8 DEF Ping, routerVars, RouterTypeOK,
                                                    BackendsTypeOK
<1>4. CASE MarkRecoveringStatus
  <2>1. hc.pc = "recovering" /\ hc.node \in Nodes
    BY <1>4 DEF MarkRecoveringStatus, InRun
  <2>2. RouterTypeOK'
    BY <1>4, <2>1, RouterMarkTypes DEF MarkRecoveringStatus, BackendStatus
  <2>3. hc' \in Checker /\ hc'.pc = "rejoin" /\ hc'.node = hc.node /\ rm' = rm
    BY <1>0, <1>4, <2>1 DEF MarkRecoveringStatus, Checker, EndVisit, NoRecovery, Recovery, Rows
  <2>4. RecoveringOwned'
    BY <1>4, <2>1, <2>3 DEF MarkRecoveringStatus, RecoveringOwned, SetStatus, AddNode, RemoveNode, RouterTypeOK
  <2> QED  BY <1>4, <2>1, <2>2, <2>3, <2>4 DEF MarkRecoveringStatus, backendVars, BackendsTypeOK
<1>5. CASE MarkRecoveringRing
  <2>1. hc.pc = "rejoin" /\ hc.node \in Nodes
    BY <1>5 DEF MarkRecoveringRing, InRun
  <2>2. RouterTypeOK'
    BY <1>5, <2>1, RouterMarkTypes DEF MarkRecoveringRing, BackendStatus
  <2>3. /\ hc' \in Checker /\ hc'.pc = "recover" /\ hc'.node = hc.node
        /\ rm' \in Recovery /\ rm'.pc = "online" /\ rm'.node = hc.node
    BY <1>0, <1>5, <2>1 DEF MarkRecoveringRing, Checker, EndVisit, NoRecovery, Recovery, Rows
  <2>4. RecoveringOwned'
    BY <1>5, <2>1, <2>3 DEF MarkRecoveringRing, RecoveringOwned, SetStatus, AddNode, RemoveNode, RouterTypeOK
  <2> QED  BY <1>5, <2>1, <2>2, <2>3, <2>4 DEF MarkRecoveringRing, backendVars, BackendsTypeOK
<1>6. CASE MarkUpStatus
  <2>1. hc.pc = "recover" /\ hc.node \in Nodes
    BY <1>6 DEF MarkUpStatus, InRun
  <2>2. RouterTypeOK'
    BY <1>6, <2>1, RouterMarkTypes DEF MarkUpStatus, BackendStatus
  <2>3. hc' \in Checker /\ hc'.pc = "readd" /\ hc'.node = hc.node /\ rm' = rm /\ rm.pc = "off"
    BY <1>0, <1>6, <2>1 DEF MarkUpStatus, Checker, EndVisit, NoRecovery, Recovery, Rows
  <2>4. RecoveringOwned'
    BY <1>6, <2>1, <2>3 DEF MarkUpStatus, RecoveringOwned, SetStatus, AddNode, RemoveNode, RouterTypeOK
  <2> QED  BY <1>6, <2>1, <2>2, <2>3, <2>4 DEF MarkUpStatus, backendVars, BackendsTypeOK
<1>7. CASE MarkUpRing
  <2>1. hc.pc = "readd" /\ hc.node \in Nodes
    BY <1>7 DEF MarkUpRing, InRun
  <2>2. RouterTypeOK'
    BY <1>7, <2>1, RouterMarkTypes DEF MarkUpRing, BackendStatus
  <2>3. hc' \in Checker /\ hc'.pc = "loop" /\ rm' = rm
    BY <1>0, <1>7, <2>1 DEF MarkUpRing, Checker, EndVisit, NoRecovery, Recovery, Rows
  <2>4. RecoveringOwned'
    BY <1>7, <2>1, <2>3 DEF MarkUpRing, RecoveringOwned, SetStatus, AddNode, RemoveNode, RouterTypeOK
  <2> QED  BY <1>7, <2>1, <2>2, <2>3, <2>4 DEF MarkUpRing, backendVars, BackendsTypeOK
<1>8. CASE CheckerDownStatus
  <2>1. hc.pc = "down" /\ hc.node \in Nodes
    BY <1>8 DEF CheckerDownStatus, InRun
  <2>2. RouterTypeOK'
    BY <1>8, <2>1, RouterMarkTypes DEF CheckerDownStatus, BackendStatus
  <2>3. hc' \in Checker /\ hc'.pc = "evict" /\ hc'.node = hc.node /\ rm' = rm
    BY <1>0, <1>8, <2>1 DEF CheckerDownStatus, Checker, EndVisit, NoRecovery, Recovery, Rows
  <2>4. RecoveringOwned'
    BY <1>8, <2>1, <2>3 DEF CheckerDownStatus, RecoveringOwned, SetStatus, AddNode, RemoveNode, RouterTypeOK
  <2> QED  BY <1>8, <2>1, <2>2, <2>3, <2>4 DEF CheckerDownStatus, backendVars, BackendsTypeOK
<1>9. CASE CheckerDownRing
  <2>1. hc.pc = "evict" /\ hc.node \in Nodes
    BY <1>9 DEF CheckerDownRing, InRun
  <2>2. RouterTypeOK'
    BY <1>9, <2>1, RouterMarkTypes DEF CheckerDownRing, BackendStatus
  <2>3. hc' \in Checker /\ hc'.pc = "loop" /\ rm' = rm
    BY <1>0, <1>9, <2>1 DEF CheckerDownRing, Checker, EndVisit, NoRecovery, Recovery, Rows
  <2>4. RecoveringOwned'
    BY <1>9, <2>1, <2>3 DEF CheckerDownRing, RecoveringOwned, SetStatus, AddNode, RemoveNode, RouterTypeOK
  <2> QED  BY <1>9, <2>1, <2>2, <2>3, <2>4 DEF CheckerDownRing, backendVars, BackendsTypeOK
<1> QED  BY <1>1, <1>2, <1>3, <1>4, <1>5, <1>6, <1>7, <1>8, <1>9 DEF HealthStep

-----------------------------------------------------------------------------
(* The whole invariant, one lemma for each disjunct of Next.               *)
LEMMA InitInv == Init => IInv
<1> SUFFICES ASSUME Init PROVE IInv
  OBVIOUS
<1> USE DEF Init
<1>1. RouterTypeOK
  BY DEF RouterInit, RouterTypeOK, BackendStatus
<1>2. BackendsTypeOK
  BY BackendsAssumption DEF BackendsInit, BackendsTypeOK, Rows
<1>3. SessionTypeOK /\ SessionInv
  BY FreshWellFormed DEF SessionInit, SessionTypeOK, SessionInv
<1>5. HealthTypeOK /\ RecoveryInv /\ CheckerInv
  BY IdleHealthTypes DEF HealthInit, HealthTypeOK, RecoveryInv, CheckerInv, NoVisit, NoRecovery
<1>6. RecoveringOwned
  BY DEF RouterInit, RecoveringOwned
<1>7. /\ unsent \subseteq Values /\ crashes \in 0 .. MaxCrashes
      /\ legal \in [Keys -> SUBSET Rows] /\ seen \in [Proxies -> SUBSET Rows]
  BY ClusterAssumption DEF Rows
<1> QED  BY <1>1, <1>2, <1>3, <1>5, <1>6, <1>7 DEF IInv, TypeOK

LEMMA RequestInv ==
    ASSUME IInv, NEW p \in Proxies, Request(p)
    PROVE  IInv'
<1> USE DEF IInv, TypeOK
<1>1. PICK op \in OpsAllowed, k \in Keys, v \in unsent \union {None} :
          /\ Receive(p, op, k, v)
          /\ unsent' = unsent \ {v}
          /\ seen' = [seen EXCEPT ![p] = IF Busy(p)' THEN legal[k] ELSE {}]
  BY DEF Request
<1>2. SessionTypeOK' /\ SessionInv' /\ RouterTypeOK' /\ UNCHANGED status
  <2>1. CASE ThrowNoBackend /\ UNCHANGED sess
    BY <2>1, SessionFrame DEF ThrowNoBackend, RouterTypeOK
  <2> DEFINE r == [Fresh EXCEPT !.pc = "route", !.op = op, !.key = k, !.val = v]
  <2>2. CASE sess' = [sess EXCEPT ![p] = r] /\ UNCHANGED routerVars
    <3>1. r \in Session /\ WellFormed(r)
      BY ClusterAssumption DEF Fresh, Session, WellFormed, AtBackend, IsWrite, Rows
    <3>2. SessionTypeOK' /\ SessionInv'
      <4> HIDE DEF r
      <4> QED  BY <2>2, <3>1, SessionUpdate
    <3> QED  BY <2>2, <3>2 DEF routerVars, RouterTypeOK
  <2> QED  BY <1>1, <2>1, <2>2 DEF Receive
<1>3. BackendsTypeOK'
  BY <1>1 DEF Receive, backendVars, BackendsTypeOK
<1>4. UNCHANGED <<healthVars, crashes, legal>>
  BY DEF Request
<1>5. HealthTypeOK' /\ RecoveryInv' /\ CheckerInv' /\ RecoveringOwned'
  BY <1>2, <1>4, HealthFrame DEF healthVars, RecoveringOwned
<1>6. legal[k] \in SUBSET Rows
  OBVIOUS
<1>7. seen' \in [Proxies -> SUBSET Rows] /\ unsent' \subseteq Values
  BY <1>1, <1>6
<1> QED  BY <1>2, <1>3, <1>4, <1>5, <1>7

LEMMA ProxyInv ==
    ASSUME IInv, NEW p \in Proxies, Proxy(p)
    PROVE  IInv'
<1> USE DEF IInv, TypeOK
<1>1. ProxyStep(p) /\ History(p) /\ UNCHANGED <<healthVars, unsent, crashes>>
  BY DEF Proxy
<1>2. SessionTypeOK' /\ SessionInv' /\ BackendsTypeOK' /\ RouterTypeOK'
  BY <1>1, ProxyStepTypes
<1>3. sess[p].pc # "recv"
  BY <1>1 DEF ProxyStep, Route, Connect, HandlerStep, ReadCache, SelectRow, FillCache, CommitWrite,
              UpdateCache, Reply, Broken, MarkDownStatus, MarkDownRing, Respond, At
<1>4. legal' \in [Keys -> SUBSET Rows] /\ seen' \in [Proxies -> SUBSET Rows]
  BY <1>1, <1>3, HistoryTypes
<1>5. HealthTypeOK' /\ RecoveryInv' /\ CheckerInv'
  BY <1>1, HealthFrame
<1>6. \A n \in Nodes : status'[n] \in {status[n], "DOWN"}
  BY <1>1 DEF ProxyStep, Route, Connect, HandlerStep, ReadCache, SelectRow, FillCache, CommitWrite,
              UpdateCache, Reply, Broken, MarkDownStatus, MarkDownRing, Respond, SetStatus,
              RemoveNode, routerVars, RouterTypeOK
<1>7. RecoveringOwned'
  BY <1>1, <1>6 DEF RecoveringOwned, healthVars
<1> QED  BY <1>1, <1>2, <1>4, <1>5, <1>7

LEMMA CrashInv ==
    ASSUME IInv, NEW n \in Nodes, Crash(n)
    PROVE  IInv'
<1> USE DEF IInv, TypeOK
<1>1. /\ crashes < MaxCrashes /\ crashes' = crashes + 1
      /\ Stop(n) /\ ResetConnections(n) /\ ResetRecovery(n)
      /\ UNCHANGED <<routerVars, hc, unsent, legal, seen>>
  BY DEF Crash
<1>2. SessionTypeOK' /\ SessionInv'
  <2>1. \A p \in Proxies : sess[p] \in Session /\ WellFormed(sess[p])
    BY DEF SessionTypeOK, SessionInv
  <2>2. ASSUME NEW s \in Session, WellFormed(s), s.pc \in AtBackend
        PROVE  [s EXCEPT !.pc = "broken"] \in Session /\ WellFormed([s EXCEPT !.pc = "broken"])
    BY <2>2 DEF Session, WellFormed, AtBackend
  <2>3. \A p \in Proxies : sess'[p] \in Session /\ WellFormed(sess'[p])
    BY <1>1, <2>1, <2>2 DEF ResetConnections
  <2>4. sess' = [p \in Proxies |-> sess'[p]]
    BY <1>1 DEF ResetConnections
  <2> QED  BY <2>3, <2>4 DEF SessionTypeOK, SessionInv
<1>3. BackendsTypeOK' /\ RouterTypeOK'
  BY <1>1 DEF Stop, BackendsTypeOK, RouterTypeOK, routerVars, Rows
<1>4. HealthTypeOK' /\ RecoveryInv' /\ CheckerInv' /\ RecoveringOwned'
  <2>1. rm \in Recovery
    BY DEF HealthTypeOK
  <2>2. CASE UNCHANGED rm
    BY <1>1, <2>2, HealthFrame DEF healthVars, routerVars, RecoveringOwned
  <2>3. CASE rm.pc \in {"select", "fill"} /\ NextSource(n)
    <3>1. /\ rm' \in Recovery /\ rm'.node = rm.node /\ rm'.key = rm.key
          /\ rm'.pc = "fetch" /\ rm.pc # "off" /\ rm.key \in Keys
      BY <2>1, <2>3, NextSourceType DEF RecoveryInv
    <3> QED  BY <1>1, <3>1 DEF HealthTypeOK, RecoveryInv, CheckerInv, RecoveringOwned, routerVars
  <2>4. CASE rm.pc = "forget" /\ NextKey
    <3>1. rm' \in Recovery /\ rm'.node = rm.node /\ rm'.pc = "loop" /\ rm.pc # "off"
      BY <2>1, <2>4, NextKeyType
    <3> QED  BY <1>1, <3>1 DEF HealthTypeOK, RecoveryInv, CheckerInv, RecoveringOwned, routerVars
  <2> QED  BY <1>1, <2>2, <2>3, <2>4 DEF ResetRecovery
<1>5. crashes' \in 0 .. MaxCrashes
  BY <1>1, ClusterAssumption
<1> QED  BY <1>1, <1>2, <1>3, <1>4, <1>5

LEMMA RestartInv ==
    ASSUME IInv, NEW n \in Nodes, Restart(n)
    PROVE  IInv'
<1> USE DEF IInv, TypeOK
<1>1. Start(n) /\ UNCHANGED <<routerVars, sess, healthVars, envVars>>
  BY DEF Restart
<1>2. BackendsTypeOK' /\ RouterTypeOK'
  BY <1>1 DEF Start, BackendsTypeOK, RouterTypeOK, routerVars
<1>3. SessionTypeOK' /\ SessionInv'
  BY <1>1, SessionFrame
<1>4. HealthTypeOK' /\ RecoveryInv' /\ CheckerInv' /\ RecoveringOwned'
  BY <1>1, HealthFrame DEF healthVars, routerVars, RecoveringOwned
<1> QED  BY <1>1, <1>2, <1>3, <1>4 DEF envVars

LEMMA PushOutInv ==
    ASSUME IInv, NEW n \in Nodes, NEW k \in Keys, PushOut(n, k)
    PROVE  IInv'
<1> USE DEF IInv, TypeOK
<1>1. Evict(n, k) /\ UNCHANGED <<routerVars, sess, healthVars, envVars>>
  BY DEF PushOut
<1>2. BackendsTypeOK' /\ RouterTypeOK'
  BY <1>1, CacheType DEF Evict, BackendsTypeOK, RouterTypeOK, routerVars
<1>3. SessionTypeOK' /\ SessionInv'
  BY <1>1, SessionFrame
<1>4. HealthTypeOK' /\ RecoveryInv' /\ CheckerInv' /\ RecoveringOwned'
  BY <1>1, HealthFrame DEF healthVars, routerVars, RecoveringOwned
<1> QED  BY <1>1, <1>2, <1>3, <1>4 DEF envVars

LEMMA RestartLbInv ==
    ASSUME IInv, RestartLb
    PROVE  IInv'
<1> USE DEF IInv, TypeOK, RestartLb
<1>1. RouterTypeOK' /\ RecoveringOwned'
  BY DEF RouterTypeOK, BackendStatus, RecoveringOwned
<1>2. SessionTypeOK' /\ SessionInv'
  BY FreshWellFormed DEF SessionTypeOK, SessionInv
<1>4. HealthTypeOK' /\ RecoveryInv' /\ CheckerInv'
  BY IdleHealthTypes DEF HealthTypeOK, RecoveryInv, CheckerInv, NoVisit, NoRecovery
<1>5. BackendsTypeOK'
  BY DEF BackendsTypeOK, Rows
<1>6. seen' \in [Proxies -> SUBSET Rows]
  OBVIOUS
<1>7. crashes' \in 0 .. MaxCrashes
  <2>1. crashes \in 0 .. MaxCrashes /\ crashes < MaxCrashes /\ crashes' = crashes + 1
    OBVIOUS
  <2>2. MaxCrashes \in Nat
    BY ClusterAssumption
  <2> HIDE DEF IInv, TypeOK, RestartLb
  <2> QED  BY <2>1, <2>2
<1> QED  BY <1>1, <1>2, <1>4, <1>5, <1>6, <1>7

LEMMA Inductive == IInv /\ [Next]_vars => IInv'
<1> SUFFICES ASSUME IInv, [Next]_vars PROVE IInv'
  OBVIOUS
<1>1. CASE \E p \in Proxies : Request(p)
  BY <1>1, RequestInv
<1>2. CASE \E p \in Proxies : Proxy(p)
  BY <1>2, ProxyInv
<1>3. CASE Health
  BY <1>3, HealthStepTypes, SessionFrame DEF Health, IInv, TypeOK, envVars
<1>4. CASE \E n \in Nodes : Crash(n)
  BY <1>4, CrashInv
<1>5. CASE \E n \in Nodes : Restart(n)
  BY <1>5, RestartInv
<1>6. CASE RestartLb
  BY <1>6, RestartLbInv
<1>8. CASE \E n \in Nodes, k \in Keys : PushOut(n, k)
  BY <1>8, PushOutInv
<1>7. CASE UNCHANGED vars
  <2>1. SessionTypeOK' /\ SessionInv'
    BY <1>7, SessionFrame DEF IInv, TypeOK, vars
  <2>2. HealthTypeOK' /\ RecoveryInv' /\ CheckerInv' /\ RecoveringOwned'
    BY <1>7, HealthFrame DEF IInv, TypeOK, vars, routerVars, healthVars, RecoveringOwned
  <2>3. RouterTypeOK' /\ BackendsTypeOK'
    BY <1>7 DEF IInv, TypeOK, vars, routerVars, backendVars, RouterTypeOK, BackendsTypeOK
  <2> QED  BY <1>7, <2>1, <2>2, <2>3 DEF IInv, TypeOK, vars, envVars
<1> QED  BY <1>1, <1>2, <1>3, <1>4, <1>5, <1>6, <1>7, <1>8 DEF Next

-----------------------------------------------------------------------------
(* Every step of every thread leaves the state well-typed: no session, no  *)
(* recovery uses a backend, a key or an answer that it has not got yet.    *)
THEOREM TypeCorrect == Spec => []TypeOK
<1>1. IInv => TypeOK
  BY DEF IInv
<1> QED  BY <1>1, InitInv, Inductive, PTL DEF Spec

(* Whatever crashes, faults, restarts and late marks there are, a backend  *)
(* with the status RECOVERING is the one the health thread is recovering:  *)
(* HealthChecker::run leaves no backend half recovered.                    *)
THEOREM RecoveringIsOwned == Spec => []RecoveringOwned
<1>1. IInv => RecoveringOwned
  BY DEF IInv
<1> QED  BY <1>1, InitInv, Inductive, PTL DEF Spec

-----------------------------------------------------------------------------
(* There is no induction over a predicate here (see the README); that a    *)
(* set of numbers has a least one follows from the well-foundedness of     *)
(* inclusion among finite sets.                                            *)
LEMMA LeastNatural ==
    ASSUME NEW S \in SUBSET Nat, S # {}
    PROVE  \E x \in S : \A y \in S : x <= y
<1> DEFINE Below(i) == 0 .. i - 1
           T == {Below(i) : i \in S}
           Less == StrictSubsetOrdering(Nat)
<1>1. T \subseteq FiniteSubsetsOf(Nat) /\ T # {}
  <2>1. \A i \in S : Below(i) \in SUBSET Nat /\ IsFiniteSet(Below(i))
    BY FS_Interval
  <2> QED BY <2>1 DEF FiniteSubsetsOf
<1>2. PICK t \in T : \A u \in T : ~ (<<u, t>> \in Less)
  <2>1. IsWellFoundedOn(Less, FiniteSubsetsOf(Nat))
    BY FS_StrictSubsetOrderingWellFounded
  <2> HIDE DEF T, Less
  <2> QED BY <1>1, <2>1, WFMin
<1>3. PICK x \in S : t = Below(x)
  BY <1>2
<1>4. ASSUME NEW y \in S, y < x PROVE FALSE
  <2>1. Below(y) \subseteq Below(x) /\ y \in Below(x) /\ y \notin Below(y)
    BY <1>4
  <2>2. Below(y) \in SUBSET Nat /\ Below(x) \in SUBSET Nat
    OBVIOUS
  <2> HIDE DEF Below
  <2>3. <<Below(y), Below(x)>> \in Less
    BY <2>1, <2>2 DEF StrictSubsetOrdering
  <2> QED BY <1>2, <1>3, <2>3
<1> QED BY <1>4

-----------------------------------------------------------------------------
(* The ring has a first backend from every key, which is among the         *)
(* replicas, and every walk over candidates that include it starts there.  *)
LEMMA PrimaryIsFirst ==
    ASSUME NEW k \in Keys
    PROVE  IsFirst(k, Primary(k), Nodes)
<1> DEFINE S == {RingRank[k][n] : n \in Nodes}
<1>1. S \in SUBSET Nat /\ S # {}
  BY DeploymentAssumption, RouterAssumption
<1>2. PICK x \in S : \A y \in S : x <= y
  <2> HIDE DEF S
  <2> QED BY <1>1, LeastNatural
<1>3. PICK n \in Nodes : x = RingRank[k][n]
  BY <1>2
<1>4. \A m \in Nodes \ {n} : RingRank[k][n] <= RingRank[k][m] /\ RingRank[k][n] # RingRank[k][m]
  BY <1>2, <1>3, RouterAssumption
<1>5. \A m \in Nodes : RingRank[k][m] \in Nat
  BY RouterAssumption
<1>6. IsFirst(k, n, Nodes)
  BY <1>4, <1>5 DEF IsFirst, Before
<1> QED BY <1>6 DEF Primary

LEMMA PrimaryIsReplica ==
    ASSUME NEW k \in Keys, onRing = Nodes
    PROVE  Primary(k) \in GetNodes(k)
<1>1. Primary(k) \in Nodes /\ \A m \in Nodes \ {Primary(k)} : Before(k, Primary(k), m)
  BY PrimaryIsFirst DEF IsFirst
<1>2. \A m \in Nodes : RingRank[k][m] \in Nat
  BY RouterAssumption
<1> DEFINE S == {m \in onRing : Before(k, m, Primary(k))}
<1>3. S = {}
  BY <1>1, <1>2 DEF Before
<1>4. Cardinality(S) < ReplicationFactor
  <2> HIDE DEF S
  <2> QED BY <1>3, FS_EmptySet, RouterAssumption
<1> QED BY <1>1, <1>4 DEF GetNodes

LEMMA FirstIsPrimary ==
    ASSUME NEW k \in Keys, NEW S \in SUBSET Nodes, Primary(k) \in S, NEW n, IsFirst(k, n, S)
    PROVE  n = Primary(k)
<1>1. \A m \in Nodes \ {Primary(k)} : Before(k, Primary(k), m)
  BY PrimaryIsFirst DEF IsFirst
<1>2. \A m \in Nodes : RingRank[k][m] \in Nat
  BY RouterAssumption
<1> QED BY <1>1, <1>2 DEF IsFirst, Before

-----------------------------------------------------------------------------
(* While no backend fails, the health thread finds everything UP and no    *)
(* handler fails on its database.                                          *)
NoOutage ==
    /\ \A n \in Nodes : alive[n] /\ status[n] = "UP"
    /\ onRing = Nodes /\ lbUp
    /\ hc.pc = "loop" /\ \A n \in DOMAIN hc.pend : hc.pend[n] = "UP"
    /\ rm.pc = "off"
    /\ faults = 0 /\ crashes = 0

(* A GET is on its way to the primary, and so is a PUT until best says     *)
(* that the primary has answered; afterwards it is on its way to others.   *)
InOrder(s) ==
    /\ s.pc \in {"recv", "route", "connect"} \union AtBackend
    /\ s.pc = "recv" => s = Fresh
    /\ s.pc # "recv" => s.op \in {"get", "put"}
    /\ s.op = "get" \/ s.pc = "route" => s.best = None
    /\ s.pc = "connect" => (Primary(s.key) \in s.todo <=> s.best = None)
    /\ s.pc \in AtBackend \ {"reply"} => (s.cur = Primary(s.key) <=> s.best = None)
    /\ s.pc \in AtBackend => Primary(s.key) \notin s.todo
    /\ s.pc \in {"fill", "forget", "reply"} => s.code # None

(* What a handler puts into the cache is still in the table.               *)
FillInv ==
    \A p \in Proxies :
        sess[p].pc = "fill" => sess[p].val = db[sess[p].cur][sess[p].key]

OrderInv == NoOutage /\ FillInv /\ \A p \in Proxies : InOrder(sess[p])

Store == [k \in Keys |-> db[Primary(k)][k]]

Shows == [k \in Keys |-> Shown(Primary(k), k)]

Calls == [p \in Proxies |-> CallOf(p)]

ACall(pc, op, k, v) == [pc |-> pc, op |-> op, key |-> k, val |-> v]

(* What a step of one client is in terms of RegularStore.                   *)
LEMMA OneCaller ==
    ASSUME NEW p \in Proxies, \A q \in Proxies \ {p} : sess'[q] = sess[q]
    PROVE  Calls' = [Calls EXCEPT ![p] = CallOf(p)']
<1>1. \A q \in Proxies \ {p} : CallOf(q)' = CallOf(q)
  BY DEF CallOf, Busy
<1> QED  BY <1>1 DEF Calls

CallStep(p) ==
    \/ CallOf(p)' = CallOf(p) /\ UNCHANGED <<Store, Shows>>
    \/ /\ CallOf(p) = Regular!Idle /\ UNCHANGED <<Store, Shows>>
       /\ \E k \in Keys, v \in Values \union {None} :
              CallOf(p)' = ACall("called", IF v = None THEN "get" ELSE "put", k, v)
    \/ \E k \in Keys, v, w \in Rows :
          /\ CallOf(p) = ACall("called", "get", k, w)
          /\ CallOf(p)' = ACall("done", "get", k, v)
          /\ v \in {Store[k], Shows[k]} /\ UNCHANGED <<Store, Shows>>
    \/ \E k \in Keys, v \in Rows :
          /\ CallOf(p) = ACall("called", "put", k, v)
          /\ CallOf(p)' = ACall("stored", "put", k, v)
          /\ Store' = [Store EXCEPT ![k] = v]
          /\ \E w \in {Shows[k], v} : Shows' = [Shows EXCEPT ![k] = w]
    \/ \E k \in Keys, v \in Rows :
          /\ CallOf(p) = ACall("stored", "put", k, v)
          /\ CallOf(p)' = ACall("done", "put", k, v)
          /\ UNCHANGED Store /\ Shows' = [Shows EXCEPT ![k] = Store[k]]
    \/ CallOf(p).pc = "done" /\ CallOf(p)' = Regular!Idle /\ UNCHANGED <<Store, Shows>>

LEMMA CallSteps ==
    ASSUME NEW p \in Proxies, \A q \in Proxies \ {p} : sess'[q] = sess[q], CallStep(p)
    PROVE  [Regular!Next]_(Regular!vars)
<1>1. Calls' = [Calls EXCEPT ![p] = CallOf(p)'] /\ Calls[p] = CallOf(p)
  BY OneCaller DEF Calls
<1>2. CASE CallOf(p)' = CallOf(p) /\ UNCHANGED <<Store, Shows>>
  <2>1. Calls' = Calls
    BY <1>1, <1>2 DEF Calls
  <2> QED BY <1>2, <2>1 DEF Regular!vars, Store, Shows, Calls
<1>3. CASE /\ CallOf(p) = Regular!Idle /\ UNCHANGED <<Store, Shows>>
           /\ \E k \in Keys, v \in Values \union {None} :
                  CallOf(p)' = ACall("called", IF v = None THEN "get" ELSE "put", k, v)
  <2>1. PICK k \in Keys, v \in Values \union {None} :
            CallOf(p)' = ACall("called", IF v = None THEN "get" ELSE "put", k, v)
    BY <1>3
  <2>2. Calls' = [Calls EXCEPT ![p] = [pc |-> "called", op |-> IF v = None THEN "get" ELSE "put",
                                       key |-> k, val |-> v]]
    BY <1>1, <2>1 DEF ACall
  <2>3. Calls[p] = Regular!Idle /\ UNCHANGED <<Store, Shows>>
    BY <1>1, <1>3
  <2>4. Regular!Call(p)
    BY <2>2, <2>3, Zenon DEF Regular!Call, Store, Shows, Calls
  <2> QED BY <2>4 DEF Regular!Next
<1>4. ASSUME NEW k \in Keys, NEW v \in Rows, NEW w \in Rows,
             CallOf(p) = ACall("called", "get", k, w),
             CallOf(p)' = ACall("done", "get", k, v),
             v \in {Store[k], Shows[k]}, UNCHANGED <<Store, Shows>>
      PROVE  [Regular!Next]_(Regular!vars)
  <2>1. /\ Calls[p].pc = "called" /\ Calls[p].op = "get" /\ Calls[p].key = k
        /\ Calls' = [Calls EXCEPT ![p].pc = "done", ![p].val = v]
    <3> DEFINE a == ACall("done", "get", k, w)
    <3>4. a = [ACall("called", "get", k, w) EXCEPT !.pc = "done"]
      BY DEF ACall
    <3>5. ACall("done", "get", k, v) = [a EXCEPT !.val = v]
      BY DEF ACall
    <3>1. ACall("done", "get", k, v) = [ACall("called", "get", k, w) EXCEPT !.pc = "done", !.val = v]
      <4> HIDE DEF a
      <4> QED BY <3>4, <3>5
    <3>2. Calls' = [Calls EXCEPT ![p].pc = "done", ![p].val = v]
      BY <1>1, <1>4, <3>1 DEF Calls
    <3>3. /\ ACall("called", "get", k, w).pc = "called" /\ ACall("called", "get", k, w).op = "get"
          /\ ACall("called", "get", k, w).key = k
      BY DEF ACall
    <3> QED BY <1>1, <1>4, <3>2, <3>3
  <2>2. Regular!Get(p)
    BY <1>4, <2>1 DEF Regular!Get, Store, Shows, Calls
  <2> QED BY <2>2 DEF Regular!Next
<1>5. ASSUME NEW k \in Keys, NEW v \in Rows,
             CallOf(p) = ACall("called", "put", k, v),
             CallOf(p)' = ACall("stored", "put", k, v),
             Store' = [Store EXCEPT ![k] = v],
             \E w \in {Shows[k], v} : Shows' = [Shows EXCEPT ![k] = w]
      PROVE  [Regular!Next]_(Regular!vars)
  <2>1. /\ Calls[p].pc = "called" /\ Calls[p].op = "put" /\ Calls[p].key = k /\ Calls[p].val = v
        /\ Calls' = [Calls EXCEPT ![p].pc = "stored"]
    <3>1. ACall("stored", "put", k, v) = [ACall("called", "put", k, v) EXCEPT !.pc = "stored"]
      BY DEF ACall
    <3>2. Calls' = [Calls EXCEPT ![p].pc = "stored"]
      BY <1>1, <1>5, <3>1 DEF Calls
    <3>3. ACall("called", "put", k, v).pc = "called" /\ ACall("called", "put", k, v).op = "put"
          /\ ACall("called", "put", k, v).key = k /\ ACall("called", "put", k, v).val = v
      BY DEF ACall
    <3> QED BY <1>1, <1>5, <3>2, <3>3
  <2>2. Regular!Put(p)
    BY <1>5, <2>1 DEF Regular!Put, Store, Shows, Calls
  <2> QED BY <2>2 DEF Regular!Next
<1>6. ASSUME NEW k \in Keys, NEW v \in Rows,
             CallOf(p) = ACall("stored", "put", k, v),
             CallOf(p)' = ACall("done", "put", k, v),
             UNCHANGED Store, Shows' = [Shows EXCEPT ![k] = Store[k]]
      PROVE  [Regular!Next]_(Regular!vars)
  <2>1. /\ Calls[p].pc = "stored" /\ Calls[p].key = k
        /\ Calls' = [Calls EXCEPT ![p].pc = "done"]
    <3>1. ACall("done", "put", k, v) = [ACall("stored", "put", k, v) EXCEPT !.pc = "done"]
      BY DEF ACall
    <3>2. Calls' = [Calls EXCEPT ![p].pc = "done"]
      BY <1>1, <1>6, <3>1 DEF Calls
    <3>3. ACall("stored", "put", k, v).pc = "stored" /\ ACall("stored", "put", k, v).op = "put"
          /\ ACall("stored", "put", k, v).key = k /\ ACall("stored", "put", k, v).val = v
      BY DEF ACall
    <3> QED BY <1>1, <1>6, <3>2, <3>3
  <2>2. Regular!PutSeen(p)
    BY <1>6, <2>1 DEF Regular!PutSeen, Regular!See, Store, Shows, Calls
  <2> QED BY <2>2 DEF Regular!Next
<1>7. CASE CallOf(p).pc = "done" /\ CallOf(p)' = Regular!Idle /\ UNCHANGED <<Store, Shows>>
  <2>1. Regular!Return(p)
    BY <1>1, <1>7 DEF Regular!Return, Store, Shows, Calls
  <2> QED BY <2>1 DEF Regular!Next
<1> QED BY <1>2, <1>3, <1>4, <1>5, <1>6, <1>7 DEF CallStep

-----------------------------------------------------------------------------
(* The steps of a session.  Each leaves the others alone, keeps InOrder,   *)
(* and is a step or a stutter of RegularStore.                             *)
SessionStep(p) ==
    /\ \A q \in Proxies \ {p} : sess'[q] = sess[q]
    /\ InOrder(sess'[p])
    /\ sess'[p].pc = "fill" => sess'[p].val = db'[sess'[p].cur][sess'[p].key]
    /\ CallStep(p)

LEMMA NothingMoves ==
    ASSUME UNCHANGED <<db, cached>>
    PROVE  UNCHANGED <<Store, Shows>>
  BY DEF Store, Shows, Shown, Hit

LEMMA FreshInOrder == InOrder(Fresh) /\ Fresh.pc # "fill"
<1>1. Fresh.pc = "recv" /\ Fresh.best = None
  BY DEF Fresh
<1> QED BY <1>1 DEF InOrder, AtBackend

LEMMA PrimaryIsNode ==
    ASSUME NEW k \in Keys
    PROVE  Primary(k) \in Nodes
  BY PrimaryIsFirst DEF IsFirst

LEMMA RouteOrder ==
    ASSUME IInv, OrderInv, NEW p \in Proxies, Route(p)
    PROVE  SessionStep(p)
<1> DEFINE s == sess[p]
           S == Candidates(s)
<1>1. s \in Session /\ WellFormed(s) /\ InOrder(s) /\ s.pc = "route"
  BY DEF IInv, TypeOK, SessionTypeOK, SessionInv, OrderInv, Route, At
<1>2. s.op \in {"get", "put"} /\ s.key \in Keys /\ s.best = None
  BY <1>1 DEF InOrder, WellFormed
<1>3. Primary(s.key) \in S
  <2>1. Primary(s.key) \in GetNodes(s.key) /\ Primary(s.key) \in Nodes
    BY <1>2, PrimaryIsReplica, PrimaryIsFirst DEF OrderInv, NoOutage, IsFirst
  <2> QED BY <2>1 DEF Candidates, GetReadBackends, GetWriteBackends, OrderInv, NoOutage
<1>4. sess' = [sess EXCEPT ![p] = [s EXCEPT !.pc = "connect", !.todo = S]]
  BY <1>3 DEF Route
<1>5. /\ sess'[p].pc = "connect" /\ sess'[p].todo = S /\ sess'[p].op = s.op
      /\ sess'[p].key = s.key /\ sess'[p].val = s.val /\ sess'[p].best = s.best
  BY <1>1, <1>4 DEF IInv, TypeOK, SessionTypeOK, Session
<1>6. \A q \in Proxies \ {p} : sess'[q] = sess[q]
  BY <1>4 DEF IInv, TypeOK, SessionTypeOK
<1>7. InOrder(sess'[p])
  <2> HIDE DEF S
  <2> QED BY <1>2, <1>3, <1>5 DEF InOrder, AtBackend
<1>8. CallStep(p)
  <2>1. CallOf(p)' = CallOf(p)
    BY <1>1, <1>2, <1>5 DEF CallOf, Busy
  <2> QED BY <2>1, NothingMoves DEF CallStep, Route, backendVars
<1> QED BY <1>5, <1>6, <1>7, <1>8 DEF SessionStep

LEMMA ConnectOrder ==
    ASSUME IInv, OrderInv, NEW p \in Proxies, Connect(p)
    PROVE  SessionStep(p)
<1> DEFINE s == sess[p]
<1>1. s \in Session /\ WellFormed(s) /\ InOrder(s) /\ s.pc = "connect"
  BY DEF IInv, TypeOK, SessionTypeOK, SessionInv, OrderInv, Connect, At
<1>2. PICK n \in s.todo :
          /\ IsFirst(s.key, n, s.todo)
          /\ sess' = [sess EXCEPT ![p].cur = n, ![p].todo = @ \ {n},
                                  ![p].pc = IF alive[n] THEN "exec" ELSE "mark"]
  BY DEF Connect
<1>3. s.key \in Keys /\ s.todo \in SUBSET Nodes /\ alive[n]
  BY <1>1, <1>2 DEF Session, WellFormed, OrderInv, NoOutage
<1>4. /\ sess'[p].pc = "exec" /\ sess'[p].todo = s.todo \ {n} /\ sess'[p].op = s.op
      /\ sess'[p].cur = n
      /\ sess'[p].key = s.key /\ sess'[p].val = s.val /\ sess'[p].best = s.best
      /\ \A q \in Proxies \ {p} : sess'[q] = sess[q]
  BY <1>1, <1>2, <1>3 DEF IInv, TypeOK, SessionTypeOK, Session
<1>5. n = Primary(s.key) <=> s.best = None
  BY <1>1, <1>2, <1>3, FirstIsPrimary DEF InOrder
<1>6. Primary(s.key) \notin s.todo \ {n}
  BY <1>1, <1>5 DEF InOrder
<1>7. InOrder(sess'[p])
  BY <1>1, <1>4, <1>5, <1>6 DEF InOrder, AtBackend
<1>8. CallStep(p)
  <2>1. CallOf(p)' = CallOf(p)
    BY <1>1, <1>4 DEF CallOf, Busy
  <2> QED BY <2>1, NothingMoves DEF CallStep, Connect, backendVars
<1> QED BY <1>4, <1>7, <1>8 DEF SessionStep

LEMMA ReplyOrder ==
    ASSUME IInv, OrderInv, NEW p \in Proxies, Reply(p)
    PROVE  SessionStep(p)
<1> DEFINE s == sess[p]
           b == IF s.best = None \/ s.code \in Success THEN s.code ELSE s.best
<1>1. s \in Session /\ WellFormed(s) /\ InOrder(s) /\ s.pc = "reply"
      /\ UNCHANGED <<db, cached>>
  BY DEF IInv, TypeOK, SessionTypeOK, SessionInv, OrderInv, Reply, At, backendVars
<1>2. \A q \in Proxies \ {p} : sess'[q] = sess[q]
  BY DEF IInv, TypeOK, SessionTypeOK, Reply
<1>3. CASE s.op = "get"
  <2>1. sess'[p] = Fresh
    BY <1>3 DEF Reply, IInv, TypeOK, SessionTypeOK, IsWrite
  <2>2. InOrder(Fresh)
    BY FreshInOrder
  <2>3. CallOf(p).pc = "done" /\ CallOf(p)' = Regular!Idle
    BY <1>1, <1>3, <2>1 DEF CallOf, Busy, Fresh, Regular!Idle
  <2>4. Fresh.pc # "fill"
    BY DEF Fresh
  <2> QED BY <1>1, <1>2, <2>1, <2>2, <2>3, <2>4, NothingMoves DEF SessionStep, CallStep
<1>4. CASE s.op # "get"
  <2>1. sess'[p] = [s EXCEPT !.pc = "connect", !.cur = None, !.code = None, !.best = b]
    BY <1>4 DEF Reply, IInv, TypeOK, SessionTypeOK, IsWrite
  <2>2. /\ sess'[p].pc = "connect" /\ sess'[p].todo = s.todo /\ sess'[p].op = s.op
        /\ sess'[p].key = s.key /\ sess'[p].val = s.val /\ sess'[p].best = b
    <3> HIDE DEF b
    <3> QED BY <1>1, <2>1 DEF Session
  <2>3. b # None
    BY <1>1 DEF InOrder
  <2>4. InOrder(sess'[p])
    <3> HIDE DEF b
    <3> QED BY <1>1, <1>4, <2>2, <2>3 DEF InOrder, AtBackend
  <2>5. CallOf(p)' = CallOf(p)
    BY <1>1, <2>2, <2>3 DEF CallOf, Busy
  <2> QED BY <1>1, <1>2, <2>2, <2>4, <2>5, NothingMoves DEF SessionStep, CallStep
<1> QED BY <1>3, <1>4

LEMMA RespondOrder ==
    ASSUME IInv, OrderInv, NEW p \in Proxies, Respond(p)
    PROVE  SessionStep(p)
<1> DEFINE s == sess[p]
<1>1. s.pc = "connect" /\ s.todo = {} /\ InOrder(s) /\ UNCHANGED <<db, cached>>
  BY DEF OrderInv, Respond, At, backendVars
<1>2. sess'[p] = Fresh /\ \A q \in Proxies \ {p} : sess'[q] = sess[q]
  BY DEF Respond, IInv, TypeOK, SessionTypeOK
<1>3. InOrder(Fresh)
  BY FreshInOrder
<1>4. CallOf(p).pc = "done" /\ CallOf(p)' = Regular!Idle
  BY <1>1, <1>2 DEF InOrder, CallOf, Busy, Fresh, Regular!Idle
<1>5. Fresh.pc # "fill"
  BY DEF Fresh
<1> QED BY <1>1, <1>2, <1>3, <1>4, <1>5, NothingMoves DEF SessionStep, CallStep

-----------------------------------------------------------------------------
(* The steps of the handlers.  What they start from:                       *)
LEMMA HandlerStarts ==
    ASSUME IInv, OrderInv, NEW p \in Proxies, sess[p].pc \in AtBackend \ {"reply"}
    PROVE  /\ sess[p] \in Session /\ WellFormed(sess[p]) /\ InOrder(sess[p])
           /\ sess[p].cur \in Nodes /\ sess[p].key \in Keys
           /\ sess[p].op \in {"get", "put"} /\ sess[p].val \in Rows
           /\ db[sess[p].cur][sess[p].key] \in Rows
           /\ cached[sess[p].cur][sess[p].key] \in Rows
           /\ db \in [Nodes -> [Keys -> Rows]] /\ cached \in [Nodes -> [Keys -> Rows]]
<1>1. /\ sess[p] \in Session /\ WellFormed(sess[p]) /\ InOrder(sess[p])
      /\ db \in [Nodes -> [Keys -> Rows]] /\ cached \in [Nodes -> [Keys -> Rows]]
  BY DEF IInv, TypeOK, SessionTypeOK, SessionInv, OrderInv, BackendsTypeOK
<1>2. /\ sess[p].cur \in Nodes /\ sess[p].key \in Keys
      /\ sess[p].op \in {"get", "put"} /\ sess[p].val \in Rows
  BY <1>1 DEF WellFormed, InOrder, Session, AtBackend
<1> QED BY <1>1, <1>2

(* A handler leaves the request alone but for the place it has got to, the *)
(* code and the value.                                                     *)
LEMMA HandlerMoves ==
    ASSUME IInv, OrderInv, NEW p \in Proxies, sess[p].pc \in AtBackend \ {"reply"},
           NEW pc \in AtBackend, NEW c, NEW v,
           sess' = [sess EXCEPT ![p] = [sess[p] EXCEPT !.pc = pc, !.code = c, !.val = v]],
           pc \in {"fill", "forget", "reply"} => c # None,
           pc = "fill" => v = db'[sess[p].cur][sess[p].key],
           CallStep(p)
    PROVE  SessionStep(p)
<1> DEFINE s == sess[p]
           r == [s EXCEPT !.pc = pc, !.code = c, !.val = v]
<1>1. s \in Session /\ InOrder(s)
  BY HandlerStarts
<1>2. /\ r.pc = pc /\ r.code = c /\ r.val = v /\ r.op = s.op /\ r.key = s.key
      /\ r.cur = s.cur /\ r.todo = s.todo /\ r.best = s.best
  BY <1>1 DEF Session
<1>3. InOrder(r)
  <2> HIDE DEF r
  <2> QED BY <1>1, <1>2 DEF InOrder, AtBackend
<1>4. sess'[p] = r /\ \A q \in Proxies \ {p} : sess'[q] = sess[q]
  BY DEF IInv, TypeOK, SessionTypeOK
<1> HIDE DEF r
<1> QED BY <1>2, <1>3, <1>4 DEF SessionStep

LEMMA HandlerCall ==
    ASSUME IInv, NEW p \in Proxies, sess[p] \in Session, NEW pc, NEW c, NEW v,
           sess' = [sess EXCEPT ![p] = [sess[p] EXCEPT !.pc = pc, !.code = c, !.val = v]]
    PROVE  CallOf(p)' = ACall(IF pc = "recv" THEN "idle"
                              ELSE IF sess[p].best # None \/ pc \in {"fill", "reply"} THEN "done"
                              ELSE IF pc = "forget" THEN "stored" ELSE "called",
                              sess[p].op, sess[p].key, v)
<1> DEFINE s == sess[p]
           r == [s EXCEPT !.pc = pc, !.code = c, !.val = v]
<1>1. sess'[p] = r
  BY DEF IInv, TypeOK, SessionTypeOK
<1>2. r.pc = pc /\ r.val = v /\ r.op = s.op /\ r.key = s.key /\ r.best = s.best
  BY DEF Session
<1> HIDE DEF r
<1> QED BY <1>1, <1>2 DEF CallOf, Busy, ACall

LEMMA ReadCacheOrder ==
    ASSUME IInv, OrderInv, NEW p \in Proxies, ReadCache(p)
    PROVE  SessionStep(p) /\ faults' = 0
<1> DEFINE s == sess[p]
           hit == Hit(s.cur, s.key)
           pc == IF hit THEN "reply" ELSE "select"
           c == IF hit THEN 200 ELSE s.code
           v == IF hit THEN cached[s.cur][s.key] ELSE s.val
<1>1. s.pc = "exec" /\ s.op # "put" /\ UNCHANGED <<db, cached, faults>>
  BY DEF ReadCache, backendVars, IsWrite
<1>2. /\ s \in Session /\ InOrder(s) /\ s.key \in Keys /\ s.op = "get" /\ s.val \in Rows
      /\ cached[s.cur][s.key] \in Rows
  BY <1>1, HandlerStarts DEF AtBackend
<1>3. s.cur = Primary(s.key) /\ s.best = None
  BY <1>1, <1>2 DEF InOrder, AtBackend
<1>4. sess' = [sess EXCEPT ![p] = [s EXCEPT !.pc = pc, !.code = c, !.val = v]]
  <2>1. CASE hit
    BY <2>1 DEF ReadCache
  <2>2. CASE ~hit
    <3>1. [s EXCEPT !.pc = "select", !.code = s.code, !.val = s.val] = [s EXCEPT !.pc = "select"]
      BY <1>2 DEF Session
    <3> QED BY <2>2, <3>1 DEF ReadCache
  <2> QED BY <2>1, <2>2
<1>5. CallOf(p) = ACall("called", "get", s.key, s.val)
  BY <1>1, <1>2, <1>3 DEF CallOf, Busy, ACall
<1>6. UNCHANGED <<Store, Shows>>
  BY <1>1, NothingMoves
<1>7. CallOf(p)' = ACall(IF pc = "reply" THEN "done" ELSE "called", "get", s.key, v)
  <2>1. pc \in {"reply", "select"}
    OBVIOUS
  <2> HIDE DEF pc, c, v
  <2> QED BY <1>2, <1>3, <1>4, <2>1, HandlerCall
<1>8. CallStep(p)
  <2>1. CASE hit
    <3>1. v = Shows[s.key] /\ v \in Rows /\ pc = "reply"
      BY <1>2, <1>3, <2>1 DEF Shows, Shown
    <3> HIDE DEF pc, v
    <3> QED BY <1>2, <1>5, <1>6, <1>7, <3>1 DEF CallStep
  <2>2. CASE ~hit
    <3>1. pc # "reply" /\ v = s.val
      BY <2>2
    <3> HIDE DEF pc, v
    <3> QED BY <1>5, <1>6, <1>7, <3>1 DEF CallStep
  <2> QED BY <2>1, <2>2
<1>9. c # None \/ pc = "select"
  BY ProxySessionAssumption DEF Codes
<1>10. pc \in {"reply", "select"}
  OBVIOUS
<1>11. faults' = 0
  BY <1>1 DEF OrderInv, NoOutage
<1> HIDE DEF pc, c, v, s
<1> QED BY <1>1, <1>4, <1>8, <1>9, <1>10, <1>11, HandlerMoves DEF AtBackend, s

LEMMA SelectOrder ==
    ASSUME IInv, OrderInv, NEW p \in Proxies, SelectRow(p), MaxFaults = 0
    PROVE  SessionStep(p) /\ faults' = 0
<1> DEFINE s == sess[p]
           row == db[s.cur][s.key]
           pc == IF row # None THEN "fill" ELSE "reply"
           c == StatusCode(s.op, row)
<1>1. s.pc = "select" /\ UNCHANGED <<db, cached>>
  BY DEF SelectRow
<1>2. /\ s \in Session /\ InOrder(s) /\ s.key \in Keys /\ s.cur \in Nodes
      /\ s.op \in {"get", "put"} /\ s.val \in Rows /\ row \in Rows /\ WellFormed(s)
  BY <1>1, HandlerStarts DEF AtBackend
<1>3. s.op = "get" /\ s.cur = Primary(s.key) /\ s.best = None
  BY <1>1, <1>2 DEF InOrder, AtBackend, WellFormed, IsWrite
<1>4. /\ sess' = [sess EXCEPT ![p] = [s EXCEPT !.pc = pc, !.code = c, !.val = row]]
      /\ faults' = 0
  <2>1. PICK ok \in BOOLEAN :
            /\ Served(s.cur, ok)
            /\ sess' = [sess EXCEPT
                  ![p].pc = IF ok /\ row # None THEN "fill" ELSE "reply",
                  ![p].code = IF ok THEN StatusCode(s.op, row) ELSE 500,
                  ![p].val = IF ok THEN row ELSE None]
    BY DEF SelectRow
  <2>2. ok = TRUE /\ faults' = 0
    BY <1>2, <2>1 DEF Served, OrderInv, NoOutage
  <2>3. sess' = [sess EXCEPT ![p].pc = pc, ![p].code = c, ![p].val = row]
    BY <2>1, <2>2
  <2> HIDE DEF pc, c
  <2> QED BY <1>2, <2>2, <2>3 DEF IInv, TypeOK, SessionTypeOK, Session
<1>5. CallOf(p) = ACall("called", "get", s.key, s.val)
  BY <1>1, <1>3 DEF CallOf, Busy, ACall
<1>6. UNCHANGED <<Store, Shows>> /\ row = Store[s.key]
  BY <1>1, <1>2, <1>3, NothingMoves DEF Store
<1>7. pc \in {"fill", "reply"} /\ c # None
  <2>1. c \in Codes
    BY <1>2 DEF StatusCode, Codes
  <2> QED BY <2>1, ProxySessionAssumption
<1>8. CallOf(p)' = ACall("done", "get", s.key, row)
  <2> HIDE DEF pc, c, row
  <2> QED BY <1>2, <1>3, <1>4, <1>7, HandlerCall
<1>9. CallStep(p)
  <2> HIDE DEF row
  <2> QED BY <1>2, <1>5, <1>6, <1>8 DEF CallStep
<1> HIDE DEF pc, c
<1> QED BY <1>1, <1>4, <1>7, <1>9, HandlerMoves DEF AtBackend

(* The entry that is created is what is in the table, so that what the     *)
(* replica shows does not change.                                          *)
LEMMA FillOrder ==
    ASSUME IInv, OrderInv, NEW p \in Proxies, FillCache(p)
    PROVE  SessionStep(p) /\ faults' = 0
<1> DEFINE s == sess[p]
<1>1. s.pc = "fill" /\ UNCHANGED <<db, faults>> /\ CreateKey(s.cur, s.key, s.val)
  BY DEF FillCache
<1>2. /\ s \in Session /\ InOrder(s) /\ s.key \in Keys /\ s.cur \in Nodes
      /\ cached \in [Nodes -> [Keys -> Rows]]
  BY <1>1, HandlerStarts DEF AtBackend
<1>3. s.val = db[s.cur][s.key]
  BY <1>1 DEF OrderInv, FillInv
<1>4. sess' = [sess EXCEPT ![p] = [s EXCEPT !.pc = "reply", !.code = s.code, !.val = s.val]]
  BY <1>2 DEF FillCache, IInv, TypeOK, SessionTypeOK, Session
<1>5. \A n \in Nodes, k \in Keys : Shown(n, k)' = Shown(n, k)
  <2>1. \A n \in Nodes, k \in Keys :
            cached'[n][k] = IF n = s.cur /\ k = s.key /\ cached[n][k] = None
                            THEN s.val ELSE cached[n][k]
    BY <1>1, <1>2 DEF CreateKey
  <2> QED BY <1>1, <1>3, <2>1 DEF Shown, Hit
<1>6. UNCHANGED <<Store, Shows>>
  BY <1>1, <1>5, PrimaryIsNode DEF Store, Shows
<1>7. CallOf(p)' = CallOf(p)
  <2>1. CallOf(p)' = ACall("done", s.op, s.key, s.val)
    BY <1>2, <1>4, HandlerCall
  <2> QED BY <1>1, <2>1 DEF CallOf, Busy, ACall
<1>8. CallStep(p)
  BY <1>6, <1>7 DEF CallStep
<1>9. s.code # None
  BY <1>1, <1>2 DEF InOrder
<1>10. faults' = 0
  BY <1>1 DEF OrderInv, NoOutage
<1> QED BY <1>1, <1>4, <1>8, <1>9, <1>10, HandlerMoves DEF AtBackend

(* A PUT takes effect when the primary commits it, ...                     *)
LEMMA CommitOrder ==
    ASSUME IInv, OrderInv, NEW p \in Proxies, CommitWrite(p), MaxFaults = 0
    PROVE  SessionStep(p) /\ faults' = 0
<1> DEFINE s == sess[p]
           row == db[s.cur][s.key]
           c == StatusCode(s.op, row)
<1>1. s.pc = "exec" /\ s.op # "get" /\ UNCHANGED cached
  BY DEF CommitWrite, IsWrite
<1>2. /\ s \in Session /\ InOrder(s) /\ s.key \in Keys /\ s.cur \in Nodes /\ s.op = "put"
      /\ s.val \in Rows /\ db \in [Nodes -> [Keys -> Rows]]
  BY <1>1, HandlerStarts DEF AtBackend
<1>3. RowAfter(s.op, row, s.val) = s.val /\ c \in Success /\ c # None
  BY <1>2, ProxySessionAssumption DEF RowAfter, StatusCode, Success, Codes
<1>4. /\ sess' = [sess EXCEPT ![p] = [s EXCEPT !.pc = "forget", !.code = c, !.val = s.val]]
      /\ db' = [db EXCEPT ![s.cur][s.key] = s.val] /\ faults' = 0
  <2>1. PICK ok \in BOOLEAN :
            /\ Transact(s.cur, s.key, RowAfter(s.op, row, s.val), ok)
            /\ sess' = [sess EXCEPT
                  ![p].pc = IF ok /\ StatusCode(s.op, row) \in Success THEN "forget" ELSE "reply",
                  ![p].code = IF ok THEN StatusCode(s.op, row) ELSE 500]
    BY DEF CommitWrite
  <2>2. ok = TRUE /\ faults' = 0 /\ alive[s.cur] = TRUE
    BY <1>2, <2>1 DEF Transact, Served, OrderInv, NoOutage
  <2>3. db' = [db EXCEPT ![s.cur][s.key] = s.val]
    BY <1>3, <2>1, <2>2 DEF Transact
  <2>4. sess' = [sess EXCEPT ![p].pc = "forget", ![p].code = c]
    BY <1>3, <2>1, <2>2
  <2> HIDE DEF c
  <2> QED BY <1>2, <2>2, <2>3, <2>4 DEF IInv, TypeOK, SessionTypeOK, Session
<1> HIDE DEF c
<1>5. \A n \in Nodes, k \in Keys :
          db'[n][k] = IF n = s.cur /\ k = s.key THEN s.val ELSE db[n][k]
  BY <1>2, <1>4
<1>8. CallOf(p)' = ACall(IF s.best # None THEN "done" ELSE "stored", s.op, s.key, s.val)
  <2>1. sess'[p] = [s EXCEPT !.pc = "forget", !.code = c, !.val = s.val]
    BY <1>4 DEF IInv, TypeOK, SessionTypeOK
  <2>2. /\ sess'[p].pc = "forget" /\ sess'[p].val = s.val /\ sess'[p].op = s.op
        /\ sess'[p].key = s.key /\ sess'[p].best = s.best
    BY <1>2, <2>1 DEF Session
  <2> QED BY <2>2 DEF CallOf, Busy, ACall
<1>6. CallStep(p)
  <2>1. CASE s.best = None
    <3>1. s.cur = Primary(s.key)
      BY <1>1, <1>2, <2>1 DEF InOrder, AtBackend
    <3>2. Store' = [Store EXCEPT ![s.key] = s.val]
      <4>1. \A k \in Keys : db'[Primary(k)][k] = IF k = s.key THEN s.val ELSE db[Primary(k)][k]
        BY <1>5, <3>1, PrimaryIsNode
      <4> QED BY <4>1 DEF Store
    <3>3. \E w \in {Shows[s.key], s.val} : Shows' = [Shows EXCEPT ![s.key] = w]
      <4> DEFINE w == IF Hit(s.cur, s.key) THEN cached[s.cur][s.key] ELSE s.val
      <4>1. w \in {Shows[s.key], s.val}
        BY <1>2, <3>1 DEF Shows, Shown
      <4>2. \A k \in Keys : Shown(Primary(k), k)' = IF k = s.key THEN w ELSE Shown(Primary(k), k)
        BY <1>1, <1>5, <3>1, PrimaryIsNode DEF Shown, Hit
      <4>3. Shows' = [Shows EXCEPT ![s.key] = w]
        <5> HIDE DEF w
        <5> QED BY <4>2 DEF Shows
      <4> QED BY <4>1, <4>3
    <3>4. CallOf(p) = ACall("called", "put", s.key, s.val)
      BY <1>1, <1>2, <2>1 DEF CallOf, Busy, ACall
    <3>5. CallOf(p)' = ACall("stored", "put", s.key, s.val)
      BY <1>2, <1>8, <2>1
    <3> QED BY <1>2, <3>2, <3>3, <3>4, <3>5 DEF CallStep
  <2>2. CASE s.best # None
    <3>1. s.cur # Primary(s.key)
      BY <1>1, <1>2, <2>2 DEF InOrder, AtBackend
    <3>2. \A k \in Keys : db'[Primary(k)][k] = db[Primary(k)][k]
      BY <1>5, <3>1, PrimaryIsNode
    <3>3. UNCHANGED <<Store, Shows>>
      BY <1>1, <3>2 DEF Store, Shows, Shown, Hit
    <3>4. CallOf(p) = ACall("done", "put", s.key, s.val)
      BY <1>1, <1>2, <2>2 DEF CallOf, Busy, ACall
    <3>5. CallOf(p)' = ACall("done", "put", s.key, s.val)
      BY <1>2, <1>8, <2>2
    <3> QED BY <3>3, <3>4, <3>5 DEF CallStep
  <2> QED BY <2>1, <2>2
<1> QED BY <1>1, <1>3, <1>4, <1>6, HandlerMoves DEF AtBackend

(* ... and is seen at the latest when it has deleted the entry there.      *)
LEMMA UpdateCacheOrder ==
    ASSUME IInv, OrderInv, NEW p \in Proxies, UpdateCache(p)
    PROVE  SessionStep(p) /\ faults' = 0
<1> DEFINE s == sess[p]
<1>1. s.pc = "forget" /\ UNCHANGED <<db, faults>>
  BY DEF UpdateCache
<1>2. /\ s \in Session /\ InOrder(s) /\ WellFormed(s) /\ s.key \in Keys /\ s.cur \in Nodes
      /\ s.op \in {"get", "put"} /\ s.val \in Rows /\ cached \in [Nodes -> [Keys -> Rows]]
  BY <1>1, HandlerStarts DEF AtBackend
<1>3. s.op = "put" /\ DeleteKey(s.cur, s.key)
  BY <1>1, <1>2 DEF UpdateCache, WellFormed, IsWrite
<1>4. sess' = [sess EXCEPT ![p] = [s EXCEPT !.pc = "reply", !.code = s.code, !.val = s.val]]
  BY <1>2 DEF UpdateCache, IInv, TypeOK, SessionTypeOK, Session
<1>5. \A n \in Nodes, k \in Keys :
          cached'[n][k] = IF n = s.cur /\ k = s.key THEN None ELSE cached[n][k]
  BY <1>2, <1>3 DEF DeleteKey
<1>6. UNCHANGED Store
  BY <1>1 DEF Store
<1>7. CallStep(p)
  <2>1. CASE s.best = None
    <3>1. s.cur = Primary(s.key)
      BY <1>1, <1>2, <2>1 DEF InOrder, AtBackend
    <3>2. \A k \in Keys :
              Shown(Primary(k), k)' = IF k = s.key THEN db[Primary(k)][k] ELSE Shown(Primary(k), k)
      BY <1>1, <1>5, <3>1, PrimaryIsNode DEF Shown, Hit
    <3>3. Shows' = [Shows EXCEPT ![s.key] = Store[s.key]]
      BY <1>2, <3>2 DEF Shows, Store
    <3>4. CallOf(p) = ACall("stored", "put", s.key, s.val)
      BY <1>1, <1>3, <2>1 DEF CallOf, Busy, ACall
    <3>5. CallOf(p)' = ACall("done", "put", s.key, s.val)
      BY <1>2, <1>3, <1>4, <2>1, HandlerCall
    <3> QED BY <1>2, <1>6, <3>3, <3>4, <3>5 DEF CallStep
  <2>2. CASE s.best # None
    <3>1. s.cur # Primary(s.key)
      BY <1>1, <1>2, <2>2 DEF InOrder, AtBackend
    <3>2. \A k \in Keys : Shown(Primary(k), k)' = Shown(Primary(k), k)
      BY <1>1, <1>5, <3>1, PrimaryIsNode DEF Shown, Hit
    <3>3. UNCHANGED Shows
      BY <3>2 DEF Shows
    <3>4. CallOf(p) = ACall("done", "put", s.key, s.val)
      BY <1>1, <1>3, <2>2 DEF CallOf, Busy, ACall
    <3>5. CallOf(p)' = ACall("done", "put", s.key, s.val)
      BY <1>2, <1>3, <1>4, <2>2, HandlerCall
    <3> QED BY <1>6, <3>3, <3>4, <3>5 DEF CallStep
  <2> QED BY <2>1, <2>2
<1>8. s.code # None
  BY <1>1, <1>2 DEF InOrder
<1>9. faults' = 0
  BY <1>1 DEF OrderInv, NoOutage
<1> QED BY <1>1, <1>4, <1>7, <1>8, <1>9, HandlerMoves DEF AtBackend

(* Nobody fills in a row that has changed since it was read.               *)
LEMMA FillStays ==
    ASSUME IInv, OrderInv, "late fill" \notin Adversity, FillsAreOver,
           NEW p \in Proxies, SessionStep(p)
    PROVE  FillInv'
<1> SUFFICES ASSUME NEW q \in Proxies, sess'[q].pc = "fill"
             PROVE  sess'[q].val = db'[sess'[q].cur][sess'[q].key]
  BY DEF FillInv
<1>1. CASE q = p
  BY <1>1 DEF SessionStep
<1>2. CASE q # p
  <2>1. sess'[q] = sess[q] /\ sess[q].pc = "fill"
    BY <1>2 DEF SessionStep
  <2>2. sess[q].cur \in Nodes /\ sess[q].key \in Keys
    BY <2>1, HandlerStarts DEF AtBackend
  <2>3. Filling(q, sess[q].cur, sess[q].key)
    BY <2>1 DEF Filling
  <2>4. db'[sess[q].cur][sess[q].key] = db[sess[q].cur][sess[q].key]
    BY <2>2, <2>3 DEF FillsAreOver
  <2> QED BY <2>1, <2>4 DEF OrderInv, FillInv
<1> QED BY <1>1, <1>2

LEMMA ProxyOrder ==
    ASSUME IInv, OrderInv, MaxFaults = 0, "late fill" \notin Adversity,
           NEW p \in Proxies, Proxy(p)
    PROVE  SessionStep(p) /\ NoOutage' /\ FillInv'
<1>1. ProxyStep(p) /\ FillsAreOver /\ UNCHANGED <<healthVars, crashes>>
  BY DEF Proxy
<1>2. sess[p].pc \notin {"broken", "mark", "unring"}
  BY DEF OrderInv, InOrder, AtBackend
<1>3. Route(p) \/ Connect(p) \/ HandlerStep(p) \/ Reply(p) \/ Respond(p)
  BY <1>1, <1>2 DEF ProxyStep, Broken, MarkDownStatus, MarkDownRing, At
<1>4. SessionStep(p) /\ faults' = 0 /\ UNCHANGED <<routerVars, alive>>
  <2>1. CASE Route(p)
    BY <2>1, RouteOrder DEF Route, backendVars, OrderInv, NoOutage
  <2>2. CASE Connect(p)
    BY <2>2, ConnectOrder DEF Connect, backendVars, OrderInv, NoOutage
  <2>3. CASE Reply(p)
    BY <2>3, ReplyOrder DEF Reply, backendVars, OrderInv, NoOutage
  <2>4. CASE Respond(p)
    BY <2>4, RespondOrder DEF Respond, backendVars, OrderInv, NoOutage
  <2>5. CASE HandlerStep(p)
    <3>1. UNCHANGED <<routerVars, alive>>
      BY <2>5 DEF HandlerStep, ReadCache, SelectRow, FillCache, CommitWrite, UpdateCache,
                  backendVars
    <3> QED BY <2>5, <3>1, ReadCacheOrder, SelectOrder, FillOrder, CommitOrder, UpdateCacheOrder
            DEF HandlerStep
  <2> QED BY <1>3, <2>1, <2>2, <2>3, <2>4, <2>5
<1>5. NoOutage'
  BY <1>1, <1>4 DEF NoOutage, OrderInv, routerVars, healthVars
<1> QED BY <1>1, <1>4, <1>5, FillStays

LEMMA RequestOrder ==
    ASSUME IInv, OrderInv, OpsAllowed \subseteq {"get", "put"}, NEW p \in Proxies, Request(p)
    PROVE  SessionStep(p) /\ NoOutage' /\ FillInv'
<1>1. PICK op \in OpsAllowed, k \in Keys, v \in unsent \union {None} :
          ((v = None) <=> (op \in {"get", "delete"})) /\ Receive(p, op, k, v)
  BY DEF Request
<1>2. UNCHANGED <<healthVars, crashes, backendVars>> /\ At(p, "recv")
  BY <1>1 DEF Request, Receive
<1>3. /\ sess' = [sess EXCEPT ![p] =
             [Fresh EXCEPT !.pc = "route", !.op = op, !.key = k, !.val = v]]
      /\ UNCHANGED routerVars
  BY <1>1, DeploymentAssumption DEF Receive, ThrowNoBackend, OrderInv, NoOutage
<1>4. /\ sess'[p].pc = "route" /\ sess'[p].op = op /\ sess'[p].key = k
      /\ sess'[p].val = v /\ sess'[p].best = None
      /\ \A q \in Proxies \ {p} : sess'[q] = sess[q]
  BY <1>3 DEF IInv, TypeOK, SessionTypeOK, Fresh
<1>5. op \in {"get", "put"} /\ v \in Values \union {None} /\ op = IF v = None THEN "get" ELSE "put"
  BY <1>1 DEF IInv, TypeOK
<1>6. InOrder(sess'[p])
  BY <1>4, <1>5 DEF InOrder, AtBackend
<1>7. CallOf(p) = Regular!Idle
  <2>1. sess[p] = Fresh /\ sess[p].pc = "recv"
    BY <1>2 DEF OrderInv, InOrder, At
  <2> QED BY <2>1 DEF CallOf, Busy, Fresh, Regular!Idle
<1>8. CallOf(p)' = [pc |-> "called", op |-> IF v = None THEN "get" ELSE "put",
                    key |-> k, val |-> v]
  BY <1>4, <1>5 DEF CallOf, Busy
<1>9. CallStep(p)
  <2>1. UNCHANGED <<Store, Shows>>
    BY <1>2, NothingMoves DEF backendVars
  <2> QED BY <1>5, <1>7, <1>8, <2>1 DEF CallStep, ACall
<1>10. NoOutage'
  BY <1>2, <1>3 DEF OrderInv, NoOutage, healthVars, backendVars, routerVars
<1>11. FillInv'
  BY <1>2, <1>4 DEF OrderInv, FillInv, backendVars
<1> QED BY <1>4, <1>6, <1>9, <1>10, <1>11 DEF SessionStep

(* The health thread finds every backend alive and UP, and does nothing.   *)
LEMMA HealthOrder ==
    ASSUME IInv, OrderInv, MaxFaults = 0, Health
    PROVE  NoOutage' /\ UNCHANGED <<sess, db, cached>>
<1>1. HealthStep /\ UNCHANGED <<sess, crashes>>
  BY DEF Health, envVars
<1>2. StartRound \/ Ping
  BY <1>1 DEF HealthStep, RecoveryStep, ListOnline, FetchAllKeys, PickKey, CheckOwner, FetchCached,
              FetchRow, FetchFill, NoSource, SyncValue, SyncForget, EndRecover, MarkRecoveringStatus, MarkRecoveringRing,
              MarkUpStatus, MarkUpRing, CheckerDownStatus, CheckerDownRing, InRun, InRecover,
              OrderInv, NoOutage
<1>3. UNCHANGED <<rm, routerVars, alive, db, cached>>
  BY <1>2 DEF StartRound, Ping, backendVars
<1>4. hc'.pc = "loop" /\ \A n \in DOMAIN hc'.pend : hc'.pend[n] = "UP"
  <2>1. hc \in Checker /\ hc.pc = "loop" /\ DOMAIN hc.pend \subseteq Nodes
        /\ \A n \in DOMAIN hc.pend : hc.pend[n] = "UP"
    BY DEF IInv, TypeOK, HealthTypeOK, Checker, OrderInv, NoOutage
  <2>2. CASE StartRound
    <3>1. hc' = [hc EXCEPT !.pend = status] /\ DOMAIN status = Nodes
      BY <2>2 DEF StartRound, IInv, TypeOK, RouterTypeOK
    <3> QED BY <2>1, <3>1 DEF Checker, OrderInv, NoOutage
  <2>3. CASE Ping
    <3>1. PICK n \in DOMAIN hc.pend, ok \in BOOLEAN :
              LET next == IF ok /\ hc.pend[n] = "DOWN" THEN "recovering"
                          ELSE IF ~ok /\ hc.pend[n] # "DOWN" THEN "down"
                          ELSE "loop"
              IN  /\ Served(n, ok)
                  /\ hc' = [pc   |-> next,
                            pend |-> [m \in DOMAIN hc.pend \ {n} |-> hc.pend[m]],
                            node |-> IF next = "loop" THEN None ELSE n]
      BY <2>3 DEF Ping
    <3>2. ok /\ hc.pend[n] = "UP"
      BY <2>1, <3>1 DEF Served, OrderInv, NoOutage
    <3> QED BY <2>1, <3>1, <3>2
  <2> QED BY <1>2, <2>2, <2>3
<1>5. faults' = 0
  <2>1. CASE StartRound
    BY <2>1 DEF StartRound, backendVars, OrderInv, NoOutage
  <2>2. CASE Ping
    <3>1. \E n, ok : Served(n, ok)
      BY <2>2 DEF Ping
    <3> QED BY <3>1 DEF Served, OrderInv, NoOutage
  <2> QED BY <1>2, <2>1, <2>2
<1> QED BY <1>1, <1>3, <1>4, <1>5 DEF NoOutage, OrderInv, routerVars

(* An entry that leaves the cache of the primary makes it show the table.  *)
LEMMA PushOutOrder ==
    ASSUME IInv, OrderInv, NEW n \in Nodes, NEW k \in Keys, PushOut(n, k)
    PROVE  OrderInv' /\ [Regular!Next]_(Regular!vars)
<1>1. Evict(n, k) /\ UNCHANGED <<routerVars, sess, healthVars, envVars>>
  BY DEF PushOut
<1>2. DeleteKey(n, k) /\ UNCHANGED <<alive, db, faults>>
  BY <1>1 DEF Evict
<1>3. OrderInv'
  <2>1. NoOutage'
    BY <1>1, <1>2 DEF OrderInv, NoOutage, routerVars, healthVars, envVars
  <2>2. FillInv'
    BY <1>1, <1>2 DEF OrderInv, FillInv
  <2> QED BY <1>1, <2>1, <2>2 DEF OrderInv
<1>4. Store' = Store /\ Calls' = Calls
  BY <1>1, <1>2 DEF Store, Calls, CallOf, Busy
<1>5. \A m \in Nodes, j \in Keys :
          cached'[m][j] = IF m = n /\ j = k THEN None ELSE cached[m][j]
  BY <1>2 DEF IInv, TypeOK, BackendsTypeOK, DeleteKey
<1>6. CASE n = Primary(k)
  <2>1. \A j \in Keys : Shown(Primary(j), j)' = IF j = k THEN db[Primary(j)][j] ELSE Shown(Primary(j), j)
    BY <1>2, <1>5, <1>6, PrimaryIsNode DEF Shown, Hit
  <2>2. Shows' = [Shows EXCEPT ![k] = Store[k]]
    BY <2>1 DEF Shows, Store
  <2>3. Regular!Show(k)
    BY <1>4, <2>2 DEF Regular!Show, Regular!See, Store, Shows, Calls
  <2> QED BY <1>3, <2>3 DEF Regular!Next
<1>7. CASE n # Primary(k)
  <2>1. \A j \in Keys : Shown(Primary(j), j)' = Shown(Primary(j), j)
    BY <1>2, <1>5, <1>7, PrimaryIsNode DEF Shown, Hit
  <2>2. Shows' = Shows
    BY <2>1 DEF Shows
  <2> QED BY <1>3, <1>4, <2>2 DEF Regular!vars, Store, Shows, Calls
<1> QED BY <1>6, <1>7

LEMMA NoneBelowZero == ~(0 < 0)
  OBVIOUS

LEMMA StepOrder ==
    ASSUME IInv, OrderInv, [Next]_vars,
           MaxCrashes = 0, MaxFaults = 0, OpsAllowed \subseteq {"get", "put"},
           "late fill" \notin Adversity
    PROVE  OrderInv' /\ [Regular!Next]_(Regular!vars)
<1>1. ASSUME NEW p \in Proxies, Request(p) \/ Proxy(p)
      PROVE  OrderInv' /\ [Regular!Next]_(Regular!vars)
  <2>1. SessionStep(p) /\ NoOutage' /\ FillInv'
    BY <1>1, RequestOrder, ProxyOrder
  <2>2. \A q \in Proxies : InOrder(sess'[q])
    BY <2>1 DEF SessionStep, OrderInv
  <2>3. OrderInv'
    BY <2>1, <2>2 DEF OrderInv
  <2> QED BY <2>1, <2>3, CallSteps DEF SessionStep
<1>2. ASSUME UNCHANGED <<sess, db, cached>>, NoOutage'
      PROVE  OrderInv' /\ [Regular!Next]_(Regular!vars)
  <2>1. OrderInv'
    BY <1>2 DEF OrderInv, FillInv
  <2>2. Calls' = Calls /\ Store' = Store /\ Shows' = Shows
    BY <1>2, NothingMoves DEF Calls, CallOf, Busy
  <2> QED BY <2>1, <2>2 DEF Regular!vars, Calls, Store, Shows
<1>3. CASE Health
  BY <1>2, <1>3, HealthOrder
<1>4. CASE UNCHANGED vars
  <2>1. NoOutage' /\ UNCHANGED <<sess, db, cached>>
    BY <1>4 DEF vars, routerVars, backendVars, healthVars, envVars, OrderInv, NoOutage
  <2> QED BY <1>2, <2>1
<1>5. ~RestartLb /\ \A n \in Nodes : ~Crash(n) /\ ~Restart(n)
  <2>1. ~(crashes < MaxCrashes) /\ \A n \in Nodes : alive[n]
    <3>1. crashes = 0 /\ MaxCrashes = 0
      BY DEF OrderInv, NoOutage
    <3>2. ~(crashes < MaxCrashes)
      BY <3>1, NoneBelowZero, Zenon
    <3> QED BY <3>2 DEF OrderInv, NoOutage
  <2>2. ~RestartLb
    BY <2>1 DEF RestartLb
  <2>3. \A n \in Nodes : ~Crash(n)
    BY <2>1 DEF Crash
  <2>4. \A n \in Nodes : ~Restart(n)
    BY <2>1 DEF Restart, Start
  <2> QED BY <2>2, <2>3, <2>4
<1>6. CASE \E n \in Nodes, k \in Keys : PushOut(n, k)
  BY <1>6, PushOutOrder
<1> QED BY <1>1, <1>3, <1>4, <1>5, <1>6 DEF Next

(* However many backends, replicas, keys and clients there are: while no   *)
(* backend and no handler fails and no fill of a cache is late, clients    *)
(* that use GET and PUT find what one RegularStore would give them.        *)
(* forwardTraffic writes the replicas one after the other, always the      *)
(* first on the ring first, and reads from that one, whose handle_update   *)
(* deletes the entry of its cache before it answers.                       *)
THEOREM ReplicasAreOneTable ==
    ASSUME MaxCrashes = 0, MaxFaults = 0, OpsAllowed \subseteq {"get", "put"},
           "late fill" \notin Adversity
    PROVE  Spec => ImplementsRegularStore
<1>1. Init => OrderInv /\ Regular!Init
  <2>1. SUFFICES ASSUME Init PROVE OrderInv /\ Regular!Init
    OBVIOUS
  <2>2. NoOutage
    BY <2>1 DEF Init, RouterInit, BackendsInit, HealthInit, NoVisit, NoRecovery, NoOutage
  <2>3. \A p \in Proxies : sess[p] = Fresh
    BY <2>1 DEF Init, SessionInit
  <2>4. OrderInv
    <3>1. InOrder(Fresh) /\ Fresh.pc # "fill"
      BY FreshInOrder
    <3> QED BY <2>2, <2>3, <3>1 DEF OrderInv, FillInv
  <2>5. \A k \in Keys : db[Primary(k)][k] = None /\ Shown(Primary(k), k) = None
    BY <2>1, PrimaryIsNode DEF Init, BackendsInit, Shown, Hit
  <2>6. \A p \in Proxies : CallOf(p) = Regular!Idle
    <3> SUFFICES ASSUME NEW p \in Proxies PROVE CallOf(p) = Regular!Idle
      OBVIOUS
    <3>1. sess[p] = Fresh
      BY <2>3
    <3>2. Fresh.pc = "recv" /\ Fresh.op = None /\ Fresh.key = None /\ Fresh.val = None
      BY DEF Fresh
    <3> QED BY <3>1, <3>2 DEF CallOf, Busy, Regular!Idle
  <2>7. Regular!Init
    BY <2>5, <2>6 DEF Regular!Init
  <2> QED BY <2>4, <2>7
<1>2. IInv /\ OrderInv /\ [Next]_vars => OrderInv' /\ [Regular!Next]_(Regular!vars)
  BY StepOrder
<1> QED BY <1>1, <1>2, InitInv, Inductive, PTL DEF Spec, ImplementsRegularStore, Regular!Spec
=============================================================================
