----------------------------- MODULE CalmProofs -----------------------------
(***************************************************************************)
(* Theorems about Cluster in the environment of the run calm: backends     *)
(* crash and come back one at a time, at any moment and any number of      *)
(* times, none of the disturbances that Adversity names occurs, and one    *)
(* client writes.                                                          *)
(*                                                                         *)
(* Where the ring is whole a key has its home: the backends it is          *)
(* replicated to.  The invariant follows one outage from the crash to the  *)
(* end of the recovery: which backend is in trouble and who knows about it *)
(* (OutageInv), what the replicas at home hold, under way of a write too   *)
(* (DataInv), how the caches may differ from the tables (CacheInv), and    *)
(* what is left to be copied (CopyInv).                                    *)
(***************************************************************************)
EXTENDS ClusterProofs

CalmEnvironment ==
    /\ Adversity = {} /\ MaxFaults = 0
    /\ \A p, q \in Writers : p = q
    /\ EmptyValue \notin Values
    /\ ReplicationFactor > 1
    /\ \A n \in Nodes : Nodes # {n}

(* The replicas of k while every backend is on the ring.                   *)
Home(k) == {n \in Nodes : Cardinality({m \in Nodes : Before(k, m, n)}) < ReplicationFactor}

-----------------------------------------------------------------------------
(* n is down, or some thread has not yet done with its being down.         *)
Troubled(n) ==
    \/ ~alive[n] \/ status[n] # "UP" \/ n \notin onRing
    \/ \E p \in Proxies : Marking(p) /\ sess[p].cur = n
    \/ n \in DOMAIN hc.pend /\ hc.pend[n] # "UP"
    \/ hc.pc # "loop" /\ hc.node = n

OneOutage == \A m, n \in Nodes : Troubled(m) /\ Troubled(n) => m = n

(* Who has marked it what.                                                 *)
MarksOK ==
    /\ \A n \in Nodes : status[n] = "UP" => n \in onRing
    /\ \A p \in Proxies : sess[p].pc = "unring" => status[sess[p].cur] = "DOWN"
    /\ hc.pc = "evict" => status[hc.node] = "DOWN"
    /\ hc.pc \in {"recover", "readd"} => hc.node \in onRing
    /\ Recovering => alive[hc.node]

(* A session that deals with a backend has it alive; creates and deletes   *)
(* meet no trouble.                                                        *)
SessionOK(s) ==
    /\ s.pc \in {"recv", "route"} \/ s.op = "get" => s.best = None
    /\ s.pc = "exec" => s.cur \notin s.todo
    /\ s.pc \in AtBackend => alive[s.cur]
    /\ s.pc = "broken" => s.op = "get"
    /\ s.pc # "recv" /\ s.op \in {"create", "put"} => s.val # None
    /\ s.pc # "recv" /\ s.op \in {"create", "delete"} =>
          /\ \A n \in Nodes : ~Troubled(n)
          /\ s.todo \subseteq Home(s.key)
          /\ s.pc \in AtBackend => s.cur \in Home(s.key)

(* A read that has a stand-in among its candidates was routed while        *)
(* another backend was in trouble; so it never gets to the stand-in.       *)
ReadAtHome(s) ==
    s.pc # "recv" /\ s.op = "get" =>
        /\ s.pc \in AtBackend => s.cur \in Home(s.key)
        /\ ~ (s.todo \subseteq Home(s.key)) =>
              /\ s.pc \in AtBackend \union {"connect"}
              /\ \A n \in s.todo : ~Troubled(n)
              /\ s.pc \in AtBackend => ~Troubled(s.cur)
              /\ s.pc = "connect" => s.todo \intersect Home(s.key) # {}

OutageInv ==
    /\ Calm /\ OneOutage /\ MarksOK
    /\ \A p \in Proxies :
          /\ Writing(p) => p \in Writers
          /\ SessionOK(sess[p]) /\ ReadAtHome(sess[p])

-----------------------------------------------------------------------------
(* p is writing k, and has been given its candidates.                      *)
WritesOn(p, k) == Writing(p) /\ sess[p].pc # "route" /\ sess[p].key = k

(* The candidates it has not passed yet.                                   *)
Pending(s) == s.todo \union (IF s.pc \in {"exec", "mark"} THEN {s.cur} ELSE {})

UpHome(k) == {n \in Home(k) : status[n] = "UP"}

(* The replicas that s has passed agree, those it has not passed agree.    *)
RowsFit(s) ==
    \A m, n \in UpHome(s.key) :
        /\ (m \in Pending(s) <=> n \in Pending(s)) => db[m][s.key] = db[n][s.key]
        /\ m \notin Pending(s) /\ n \in Pending(s) =>
               db[m][s.key] = RowAfter(s.op, db[n][s.key], s.val)
        /\ m \notin Pending(s) /\ s.op # "create" => db[m][s.key] = Written(s)

Acknowledged(s) ==
    s.best \in Success \/ (s.pc \in {"forget", "reply"} /\ s.code \in Success)

WriteOK(p) ==
    LET s == sess[p] IN
    WritesOn(p, s.key) =>
        /\ RowsFit(s)
        /\ Written(s) \in legal[s.key]
        /\ s.op = "create" /\ Acknowledged(s) =>
              \A n \in Home(s.key) :
                  db[n][s.key] = IF n \in Pending(s) THEN None ELSE s.val

Agree(k) ==
    (\A p \in Proxies : ~WritesOn(p, k)) => \A m, n \in UpHome(k) : db[m][k] = db[n][k]

(* A backend that is out of service may have missed puts, nothing else.    *)
MissedPuts(k) ==
    \A m \in UpHome(k), n \in Home(k) \ UpHome(k) :
        /\ \A p \in Proxies : WritesOn(p, k) => m \notin Pending(sess[p])
        /\ db[m][k] = None
        => db[n][k] = None

(* What a GET of k may be given by n, now or after more of its entries are *)
(* pushed out of the cache.                                                *)
Offers(n, k) == {db[n][k]} \union ({cached[n][k]} \ {None})

RowsOK(k) ==
    Agree(k) /\ MissedPuts(k) /\ \A n \in UpHome(k) : Offers(n, k) \subseteq legal[k]

(* The backends that a GET may yet be answered by.                         *)
Ahead(s) == s.todo \union (IF s.pc \in {"exec", "select"} THEN {s.cur} ELSE {})

ReadOK(p) ==
    LET s == sess[p] IN
    /\ Busy(p) => legal[s.key] \subseteq seen[p]
    /\ Busy(p) /\ s.op = "get" =>
          /\ \A n \in Home(s.key) : n \in Ahead(s) => Offers(n, s.key) \subseteq seen[p]
          /\ s.pc \in {"fill", "reply"} => s.val \in seen[p]

DataInv ==
    /\ \A k \in Keys : RowsOK(k)
    /\ \A p \in Proxies : WriteOK(p) /\ ReadOK(p)

-----------------------------------------------------------------------------
(* A cache holds what the table holds, but for the entry that the handler  *)
(* which has changed the row is about to delete; and what a handler is     *)
(* about to put into it is what the table holds.                           *)
EntryOK(n, k) == cached[n][k] \in {None, db[n][k]} \/ Deleting(n, k)

FillOK(s) ==
    s.pc = "fill" \/ (s.pc = "forget" /\ s.op = "create") => s.val = db[s.cur][s.key]

CacheInv ==
    /\ \A n \in Nodes, k \in Keys : EntryOK(n, k)
    /\ \A p \in Proxies : FillOK(sess[p])

-----------------------------------------------------------------------------
(* What is missing on the backend being recovered is still to be copied.   *)
ToCopy(k, m) ==
    \/ rm.pc = "online"
    \/ rm.pc # "off" /\ (m \in rm.scan \/ k \in rm.keys)
    \/ rm.pc \in {"own", "fetch", "select", "fill", "sync"} /\ rm.key = k

CopyInv ==
    hc.pc = "recover" =>
        /\ \A k \in Keys : hc.node \in Home(k) =>
              \A m \in Home(k) \ {hc.node} : db[hc.node][k] # db[m][k] => ToCopy(k, m)
        /\ rm.pc \in {"fetch", "select", "fill"} =>
              /\ rm.sources \subseteq Home(rm.key) \ {hc.node}
              /\ \A m \in Home(rm.key) \ ({hc.node} \union rm.sources) : db[m][rm.key] = None
        /\ rm.pc = "fill" => rm.val \in Values
        /\ rm.pc \in {"fill", "sync"} =>
              \A m \in Home(rm.key) \ {hc.node} : db[m][rm.key] = rm.val

CalmInv == OutageInv /\ DataInv /\ CacheInv /\ CopyInv
-----------------------------------------------------------------------------
(* The ring and the home of a key.                                         *)
LEMMA HomeIsRing ==
    ASSUME onRing = Nodes
    PROVE  \A k : GetNodes(k) = Home(k)
BY DEF GetNodes, Home

LEMMA HomeOnRing ==
    ASSUME RouterTypeOK, NEW k, NEW n \in Home(k), n \in onRing
    PROVE  n \in GetNodes(k)
<1> DEFINE S == {m \in onRing : Before(k, m, n)}
           T == {m \in Nodes : Before(k, m, n)}
<1>1. S \subseteq T /\ T \subseteq Nodes
  BY DEF RouterTypeOK
<1>2. IsFiniteSet(T)
  <2> HIDE DEF T
  <2> QED BY <1>1, FS_Subset, DeploymentAssumption
<1>3. Cardinality(S) <= Cardinality(T) /\ Cardinality(S) \in Nat /\ Cardinality(T) \in Nat
  <2> HIDE DEF S, T
  <2> QED BY <1>1, <1>2, FS_Subset, FS_CardinalityType
<1>4. Cardinality(T) < ReplicationFactor
  BY DEF Home
<1> HIDE DEF S, T
<1>5. Cardinality(S) < ReplicationFactor
  BY <1>3, <1>4, RouterAssumption
<1> QED BY <1>5 DEF GetNodes, S

LEMMA HomeComesFirst ==
    ASSUME NEW k \in Keys, NEW m \in Nodes, NEW n \in Home(k), Before(k, m, n)
    PROVE  m \in Home(k)
<1> DEFINE S == {x \in Nodes : Before(k, x, m)}
           T == {x \in Nodes : Before(k, x, n)}
<1>1. S \subseteq T /\ T \subseteq Nodes
  BY RouterAssumption DEF Before, Home
<1>2. IsFiniteSet(T)
  <2> HIDE DEF T
  <2> QED BY <1>1, FS_Subset, DeploymentAssumption
<1>3. Cardinality(S) <= Cardinality(T) /\ Cardinality(S) \in Nat /\ Cardinality(T) \in Nat
  <2> HIDE DEF S, T
  <2> QED BY <1>1, <1>2, FS_Subset, FS_CardinalityType
<1>4. Cardinality(T) < ReplicationFactor
  BY DEF Home
<1> HIDE DEF S, T
<1>5. Cardinality(S) < ReplicationFactor
  BY <1>3, <1>4, RouterAssumption
<1> QED BY <1>5 DEF Home, S

LEMMA FirstIsHome ==
    ASSUME NEW k \in Keys, NEW S \in SUBSET Nodes, S \intersect Home(k) # {},
           NEW n, IsFirst(k, n, S)
    PROVE  n \in Home(k)
<1>1. PICK m \in S : m \in Home(k)
  OBVIOUS
<1>2. n = m \/ Before(k, n, m)
  BY DEF IsFirst
<1> QED BY <1>1, <1>2, HomeComesFirst DEF IsFirst

(* Every key has a replica at home besides any one backend.                *)
LEMMA HomeHasAnother ==
    ASSUME CalmEnvironment, NEW k \in Keys, NEW n \in Nodes
    PROVE  \E m \in Home(k) : m # n
<1> DEFINE f == Primary(k)
           Rest == {RingRank[k][m] : m \in Nodes \ {f}}
<1>1. f \in Nodes /\ \A m \in Nodes \ {f} : Before(k, f, m)
  BY PrimaryIsFirst DEF IsFirst
<1>2. \A m \in Nodes : RingRank[k][m] \in Nat
  BY RouterAssumption
<1>3. f \in Home(k)
  <2> DEFINE S == {m \in Nodes : Before(k, m, f)}
  <2>1. S = {}
    BY <1>1, <1>2 DEF Before
  <2>2. Cardinality(S) < ReplicationFactor
    <3> HIDE DEF S
    <3> QED BY <2>1, FS_EmptySet, RouterAssumption
  <2> QED BY <1>1, <2>2 DEF Home
<1>4. CASE n # f
  BY <1>3, <1>4
<1>5. CASE n = f
  <2>1. Rest \in SUBSET Nat /\ Rest # {}
    BY <1>1, <1>2 DEF CalmEnvironment
  <2>2. PICK x \in Rest : \A y \in Rest : x <= y
    <3> HIDE DEF Rest
    <3> QED BY <2>1, LeastNatural
  <2>3. PICK g \in Nodes \ {f} : x = RingRank[k][g]
    BY <2>2
  <2> DEFINE S == {m \in Nodes : Before(k, m, g)}
  <2>4. S \subseteq {f}
    <3>1. \A m \in Nodes \ {f} : RingRank[k][g] <= RingRank[k][m]
      BY <2>2, <2>3
    <3> QED BY <3>1, <1>2, <2>3 DEF Before
  <2>5. Cardinality(S) <= 1 /\ Cardinality(S) \in Nat
    <3> HIDE DEF S, f
    <3>1. IsFiniteSet({f}) /\ Cardinality({f}) = 1
      BY FS_Singleton
    <3>2. IsFiniteSet(S) /\ Cardinality(S) <= Cardinality({f})
      BY <2>4, <3>1, FS_Subset
    <3> QED BY <3>1, <3>2, FS_CardinalityType
  <2>6. Cardinality(S) < ReplicationFactor
    <3> HIDE DEF S
    <3> QED BY <2>5, RouterAssumption DEF CalmEnvironment
  <2>7. g \in Home(k)
    BY <2>3, <2>6 DEF Home
  <2> QED BY <2>3, <2>7, <1>5
<1> QED BY <1>4, <1>5

-----------------------------------------------------------------------------
(* What each step of a session does to its locals.                         *)
Unmoved(p) == \A q \in Proxies \ {p} : sess'[q] = sess[q]

SameRequest(p) ==
    /\ sess'[p].op = sess[p].op /\ sess'[p].key = sess[p].key
    /\ Unmoved(p)

LEMMA RouteFields ==
    ASSUME IInv, NEW p \in Proxies, Route(p)
    PROVE  /\ sess[p].pc = "route" /\ UNCHANGED <<status, onRing, lbUp, alive, db, cached, faults>>
           /\ Candidates(sess[p]) \in SUBSET Nodes
           /\ Unmoved(p)
           /\ \/ sess'[p] = Fresh
              \/ /\ sess'[p].pc = "connect" /\ sess'[p].todo = Candidates(sess[p])
                 /\ SameRequest(p) /\ sess'[p].val = sess[p].val
                 /\ sess'[p].cur = sess[p].cur /\ sess'[p].code = sess[p].code
                 /\ sess'[p].best = sess[p].best
<1> DEFINE s == sess[p]
           S == Candidates(s)
<1>1. s \in Session /\ s.pc = "route" /\ UNCHANGED <<status, onRing, lbUp, alive, db, cached, faults>>
  BY DEF IInv, TypeOK, SessionTypeOK, Route, At, routerVars, backendVars
<1>2. S \in SUBSET Nodes
  BY DEF Candidates, GetReadBackends, GetWriteBackends, GetNodes, IInv, TypeOK, RouterTypeOK
<1>3. sess' = [sess EXCEPT ![p] =
                 IF S = {} THEN Fresh ELSE [s EXCEPT !.pc = "connect", !.todo = S]]
  BY DEF Route, IInv, TypeOK, SessionTypeOK
<1>4. Unmoved(p)
  BY <1>3 DEF Unmoved, IInv, TypeOK, SessionTypeOK
<1> HIDE DEF S
<1>5. CASE S = {}
  <2>1. sess'[p] = Fresh
    BY <1>3, <1>5 DEF IInv, TypeOK, SessionTypeOK
  <2> QED BY <1>1, <1>2, <1>4, <2>1 DEF S
<1>6. CASE S # {}
  <2>1. sess'[p] = [s EXCEPT !.pc = "connect", !.todo = S]
    BY <1>3, <1>6 DEF IInv, TypeOK, SessionTypeOK
  <2>2. /\ sess'[p].pc = "connect" /\ sess'[p].todo = S /\ sess'[p].op = s.op
        /\ sess'[p].key = s.key /\ sess'[p].val = s.val /\ sess'[p].cur = s.cur
        /\ sess'[p].code = s.code /\ sess'[p].best = s.best
    <3> HIDE DEF s
    <3> QED BY <1>1, <2>1 DEF Session
  <2> QED BY <1>1, <1>2, <1>4, <2>2 DEF S, SameRequest
<1> QED BY <1>5, <1>6

LEMMA ConnectFields ==
    ASSUME IInv, NEW p \in Proxies, Connect(p)
    PROVE  /\ sess[p].pc = "connect" /\ UNCHANGED <<status, onRing, lbUp, alive, db, cached, faults>>
           /\ sess[p].todo \in SUBSET Nodes /\ sess'[p].cur \in sess[p].todo
           /\ IsFirst(sess[p].key, sess'[p].cur, sess[p].todo)
           /\ sess'[p].pc = IF alive[sess'[p].cur] THEN "exec" ELSE "mark"
           /\ sess'[p].todo = sess[p].todo \ {sess'[p].cur}
           /\ SameRequest(p) /\ sess'[p].val = sess[p].val
           /\ sess'[p].code = sess[p].code /\ sess'[p].best = sess[p].best
<1> DEFINE s == sess[p]
<1>1. s \in Session /\ s.pc = "connect" /\ UNCHANGED <<status, onRing, lbUp, alive, db, cached, faults>>
  BY DEF IInv, TypeOK, SessionTypeOK, Connect, At, routerVars, backendVars
<1>2. PICK n \in s.todo :
          /\ IsFirst(s.key, n, s.todo)
          /\ sess' = [sess EXCEPT ![p].cur = n, ![p].todo = @ \ {n},
                                  ![p].pc = IF alive[n] THEN "exec" ELSE "mark"]
  BY DEF Connect
<1> DEFINE pc == IF alive[n] THEN "exec" ELSE "mark"
<1>3. /\ sess'[p].pc = pc /\ sess'[p].todo = s.todo \ {n} /\ sess'[p].op = s.op
      /\ sess'[p].cur = n /\ sess'[p].code = s.code
      /\ sess'[p].key = s.key /\ sess'[p].val = s.val /\ sess'[p].best = s.best
      /\ Unmoved(p)
  <2>1. sess' = [sess EXCEPT ![p].cur = n, ![p].todo = @ \ {n}, ![p].pc = pc]
    BY <1>2
  <2> HIDE DEF pc
  <2> QED BY <1>1, <2>1 DEF IInv, TypeOK, SessionTypeOK, Session, Unmoved
<1>4. s.todo \in SUBSET Nodes
  BY <1>1 DEF Session
<1> QED BY <1>1, <1>2, <1>3, <1>4 DEF SameRequest

LEMMA ReplyFields ==
    ASSUME IInv, NEW p \in Proxies, Reply(p)
    PROVE  /\ sess[p].pc = "reply" /\ UNCHANGED <<status, onRing, lbUp, alive, db, cached, faults>>
           /\ Unmoved(p)
           /\ ~IsWrite(sess[p].op) => sess'[p] = Fresh
           /\ IsWrite(sess[p].op) =>
                 /\ sess'[p].pc = "connect" /\ sess'[p].todo = sess[p].todo
                 /\ SameRequest(p) /\ sess'[p].val = sess[p].val /\ sess'[p].cur = None
                 /\ sess'[p].best = IF sess[p].best = None \/ sess[p].code \in Success
                                    THEN sess[p].code ELSE sess[p].best
<1> DEFINE s == sess[p]
           b == IF s.best = None \/ s.code \in Success THEN s.code ELSE s.best
<1>1. s \in Session /\ s.pc = "reply" /\ UNCHANGED <<status, onRing, lbUp, alive, db, cached, faults>>
  BY DEF IInv, TypeOK, SessionTypeOK, Reply, At, routerVars, backendVars
<1>2. Unmoved(p)
  BY DEF IInv, TypeOK, SessionTypeOK, Reply, Unmoved
<1>3. CASE ~IsWrite(s.op)
  <2>1. sess'[p] = Fresh
    BY <1>3 DEF Reply, IInv, TypeOK, SessionTypeOK
  <2> QED BY <1>1, <1>2, <1>3, <2>1
<1>4. CASE IsWrite(s.op)
  <2>1. sess'[p] = [s EXCEPT !.pc = "connect", !.cur = None, !.code = None, !.best = b]
    BY <1>4 DEF Reply, IInv, TypeOK, SessionTypeOK
  <2>2. /\ sess'[p].pc = "connect" /\ sess'[p].todo = s.todo /\ sess'[p].op = s.op
        /\ sess'[p].key = s.key /\ sess'[p].val = s.val /\ sess'[p].best = b
        /\ sess'[p].cur = None
    <3> HIDE DEF b
    <3> QED BY <1>1, <2>1 DEF Session
  <2> QED BY <1>1, <1>2, <1>4, <2>2 DEF SameRequest
<1> QED BY <1>3, <1>4

LEMMA BrokenFields ==
    ASSUME IInv, NEW p \in Proxies, Broken(p), ~IsWrite(sess[p].op)
    PROVE  /\ sess[p].pc = "broken" /\ UNCHANGED <<status, onRing, lbUp, alive, db, cached, faults>>
           /\ SameRequest(p) /\ sess'[p].pc = "mark" /\ sess'[p].cur = sess[p].cur
           /\ sess'[p].todo = sess[p].todo /\ sess'[p].best = sess[p].best
<1> DEFINE s == sess[p]
<1>1. s \in Session /\ s.pc = "broken" /\ UNCHANGED <<status, onRing, lbUp, alive, db, cached, faults>>
  BY DEF IInv, TypeOK, SessionTypeOK, Broken, At, routerVars, backendVars
<1>2. sess' = [sess EXCEPT ![p] = [s EXCEPT !.pc = "mark", !.code = None, !.val = None]]
  BY DEF Broken, IInv, TypeOK, SessionTypeOK
<1> QED BY <1>1, <1>2 DEF IInv, TypeOK, SessionTypeOK, Session, SameRequest, Unmoved

LEMMA MarkFields ==
    ASSUME IInv, NEW p \in Proxies, MarkDownStatus(p)
    PROVE  /\ sess[p].pc = "mark" /\ UNCHANGED <<onRing, lbUp, alive, db, cached, faults>>
           /\ sess[p].cur \in Nodes /\ status' = [status EXCEPT ![sess[p].cur] = "DOWN"]
           /\ SameRequest(p) /\ sess'[p].pc = "unring" /\ sess'[p].cur = sess[p].cur
           /\ sess'[p].todo = sess[p].todo /\ sess'[p].val = sess[p].val
           /\ sess'[p].best = sess[p].best
BY DEF IInv, TypeOK, SessionTypeOK, SessionInv, WellFormed, MarkDownStatus, At, SetStatus,
       backendVars, Session, SameRequest, Unmoved

LEMMA UnringFields ==
    ASSUME IInv, NEW p \in Proxies, MarkDownRing(p)
    PROVE  /\ sess[p].pc = "unring" /\ UNCHANGED <<status, lbUp, alive, db, cached, faults>>
           /\ sess[p].cur \in Nodes /\ onRing' = onRing \ {sess[p].cur}
           /\ SameRequest(p) /\ sess'[p].pc = "connect"
           /\ sess'[p].todo = sess[p].todo /\ sess'[p].val = sess[p].val
           /\ sess'[p].best = sess[p].best
BY DEF IInv, TypeOK, SessionTypeOK, SessionInv, WellFormed, MarkDownRing, At, RemoveNode,
       backendVars, Session, SameRequest, Unmoved

LEMMA RespondFields ==
    ASSUME IInv, NEW p \in Proxies, Respond(p)
    PROVE  /\ sess[p].pc = "connect" /\ UNCHANGED <<status, onRing, lbUp, alive, db, cached, faults>>
           /\ sess[p].todo = {} /\ sess'[p] = Fresh /\ Unmoved(p)
BY DEF IInv, TypeOK, SessionTypeOK, Respond, At, routerVars, backendVars, Unmoved

(* With MaxFaults = 0 every call to a running backend is served.           *)
LEMMA AliveServes ==
    ASSUME IInv, CalmEnvironment, NEW n, alive[n], NEW ok \in BOOLEAN, Served(n, ok)
    PROVE  ok
BY DEF IInv, TypeOK, BackendsTypeOK, CalmEnvironment, Served

LEMMA CreateOneEntry ==
    ASSUME IInv, NEW m, NEW k, NEW v, CreateKey(m, k, v)
    PROVE  \A n \in Nodes, x \in Keys :
               cached'[n][x] = IF n = m /\ x = k /\ cached[n][x] = None THEN v ELSE cached[n][x]
BY DEF CreateKey, IInv, TypeOK, BackendsTypeOK

LEMMA DeleteOneEntry ==
    ASSUME IInv, NEW m, NEW k, DeleteKey(m, k)
    PROVE  \A n \in Nodes, x \in Keys :
               cached'[n][x] = IF n = m /\ x = k THEN None ELSE cached[n][x]
BY DEF DeleteKey, IInv, TypeOK, BackendsTypeOK

LEMMA OneMoves ==
    ASSUME IInv, NEW p \in Proxies, NEW r, sess' = [sess EXCEPT ![p] = r]
    PROVE  sess'[p] = r /\ Unmoved(p)
BY DEF IInv, TypeOK, SessionTypeOK, Unmoved

LEMMA AtHandler ==
    ASSUME IInv, NEW p \in Proxies, HandlerStep(p)
    PROVE  /\ sess[p].pc \in AtBackend \ {"reply"} /\ UNCHANGED <<status, onRing, lbUp, alive>>
           /\ sess[p] \in Session
           /\ sess[p].cur \in Nodes /\ sess[p].key \in Keys /\ sess[p].op \in Ops
           /\ db[sess[p].cur][sess[p].key] \in Rows
<1>1. sess[p].pc \in AtBackend \ {"reply"} /\ UNCHANGED <<status, onRing, lbUp, alive>>
  BY DEF HandlerStep, ReadCache, SelectRow, FillCache, CommitWrite, UpdateCache, AtBackend,
         routerVars, backendVars
<1>2. sess[p] \in Session /\ WellFormed(sess[p]) /\ db \in [Nodes -> [Keys -> Rows]]
  BY DEF IInv, TypeOK, SessionTypeOK, SessionInv, BackendsTypeOK
<1>3. sess[p].cur \in Nodes /\ sess[p].key \in Keys /\ sess[p].op \in Ops
  BY <1>1, <1>2 DEF WellFormed, AtBackend
<1> QED BY <1>1, <1>2, <1>3

LEMMA ReadCacheFields ==
    ASSUME IInv, NEW p \in Proxies, ReadCache(p)
    PROVE  LET s == sess[p]
               hit == cached[s.cur][s.key]
           IN  /\ s.pc = "exec" /\ s.op = "get" /\ UNCHANGED <<db, cached>>
               /\ SameRequest(p) /\ sess'[p].cur = s.cur
               /\ sess'[p].todo = s.todo /\ sess'[p].best = s.best
               /\ \/ sess'[p].pc = "reply" /\ sess'[p].val = hit /\ hit # None
                  \/ sess'[p].pc = "select"
<1> DEFINE s == sess[p]
           hit == cached[s.cur][s.key]
<1>1. s.pc = "exec" /\ s.op = "get" /\ UNCHANGED <<db, cached>> /\ s \in Session
  BY DEF ReadCache, IsWrite, backendVars, IInv, TypeOK, SessionTypeOK
<1>2. CASE Hit(s.cur, s.key)
  <2>1. sess' = [sess EXCEPT ![p] = [s EXCEPT !.pc = "reply", !.code = 200, !.val = hit]]
    BY <1>2 DEF ReadCache
  <2>2. hit # None
    BY <1>2 DEF Hit
  <2> DEFINE r == [s EXCEPT !.pc = "reply", !.code = 200, !.val = hit]
  <2>3. /\ r.pc = "reply" /\ r.val = hit /\ r.op = s.op /\ r.key = s.key
        /\ r.cur = s.cur /\ r.todo = s.todo /\ r.best = s.best
    <3> HIDE DEF hit
    <3> QED BY <1>1 DEF Session
  <2>4. sess' = [sess EXCEPT ![p] = r]
    BY <2>1
  <2> HIDE DEF r
  <2>5. sess'[p] = r /\ Unmoved(p)
    BY <2>4, OneMoves
  <2> QED BY <1>1, <2>2, <2>3, <2>5 DEF SameRequest
<1>3. CASE ~Hit(s.cur, s.key)
  <2> DEFINE r == [s EXCEPT !.pc = "select"]
  <2>1. /\ r.pc = "select" /\ r.op = s.op /\ r.key = s.key
        /\ r.cur = s.cur /\ r.todo = s.todo /\ r.best = s.best
    BY <1>1 DEF Session
  <2>2. sess' = [sess EXCEPT ![p] = r]
    BY <1>3 DEF ReadCache
  <2> HIDE DEF r
  <2>3. sess'[p] = r /\ Unmoved(p)
    BY <2>2, OneMoves
  <2> QED BY <1>1, <2>1, <2>3 DEF SameRequest
<1> QED BY <1>2, <1>3

LEMMA SelectFields ==
    ASSUME IInv, CalmEnvironment, NEW p \in Proxies, SelectRow(p), SessionOK(sess[p])
    PROVE  LET s == sess[p]
               row == db[s.cur][s.key]
           IN  /\ s.pc = "select" /\ s.op = "get" /\ UNCHANGED <<db, cached>>
               /\ SameRequest(p) /\ sess'[p].cur = s.cur
               /\ sess'[p].todo = s.todo /\ sess'[p].best = s.best
               /\ sess'[p].pc \in {"fill", "reply"} /\ sess'[p].val = row
<1> DEFINE s == sess[p]
           row == db[s.cur][s.key]
           pc == IF row # None THEN "fill" ELSE "reply"
           c == StatusCode(s.op, row)
<1>1. s.pc = "select" /\ UNCHANGED <<db, cached>> /\ s \in Session /\ WellFormed(s)
  BY DEF SelectRow, IInv, TypeOK, SessionTypeOK, SessionInv
<1>2. s.op = "get" /\ alive[s.cur]
  BY <1>1 DEF WellFormed, IsWrite, SessionOK, AtBackend
<1>3. PICK ok \in BOOLEAN :
          /\ Served(s.cur, ok)
          /\ sess' = [sess EXCEPT
                ![p].pc = IF ok /\ row # None THEN "fill" ELSE "reply",
                ![p].code = IF ok THEN StatusCode(s.op, row) ELSE 500,
                ![p].val = IF ok THEN row ELSE None]
  BY DEF SelectRow
<1>4. ok = TRUE
  BY <1>2, <1>3, AliveServes
<1>5. sess' = [sess EXCEPT ![p].pc = pc, ![p].code = c, ![p].val = row]
  BY <1>3, <1>4
<1>6. pc \in {"fill", "reply"}
  OBVIOUS
<1> HIDE DEF pc, c, row
<1> DEFINE r == [s EXCEPT !.pc = pc, !.code = c, !.val = row]
<1>7. /\ r.pc = pc /\ r.val = row /\ r.op = s.op /\ r.key = s.key
      /\ r.cur = s.cur /\ r.todo = s.todo /\ r.best = s.best
  BY <1>1 DEF Session
<1>8. sess'[p] = r /\ Unmoved(p)
  <2>1. sess' = [sess EXCEPT ![p] = r]
    BY <1>1, <1>5 DEF IInv, TypeOK, SessionTypeOK, Session
  <2> HIDE DEF r
  <2> QED BY <2>1, OneMoves
<1> HIDE DEF r
<1> QED BY <1>1, <1>2, <1>6, <1>7, <1>8 DEF row, SameRequest

LEMMA FillFields ==
    ASSUME IInv, NEW p \in Proxies, FillCache(p)
    PROVE  LET s == sess[p] IN
           /\ s.pc = "fill" /\ s.op = "get" /\ UNCHANGED db
           /\ CreateKey(s.cur, s.key, s.val)
           /\ SameRequest(p) /\ sess'[p].pc = "reply" /\ sess'[p].val = s.val
           /\ sess'[p].cur = s.cur /\ sess'[p].todo = s.todo /\ sess'[p].best = s.best
<1> DEFINE s == sess[p]
<1>1. /\ s.pc = "fill" /\ UNCHANGED db /\ s \in Session /\ WellFormed(s)
      /\ CreateKey(s.cur, s.key, s.val)
  BY DEF FillCache, IInv, TypeOK, SessionTypeOK, SessionInv
<1> DEFINE r == [s EXCEPT !.pc = "reply"]
<1>2. /\ r.pc = "reply" /\ r.op = s.op /\ r.key = s.key /\ r.val = s.val
      /\ r.cur = s.cur /\ r.todo = s.todo /\ r.best = s.best
  BY <1>1 DEF Session
<1>3. sess'[p] = r /\ Unmoved(p)
  <2>1. sess' = [sess EXCEPT ![p] = r]
    BY <1>1 DEF FillCache, IInv, TypeOK, SessionTypeOK
  <2> HIDE DEF r
  <2> QED BY <2>1, OneMoves
<1> HIDE DEF r
<1>4. s.op = "get"
  BY <1>1 DEF WellFormed, IsWrite
<1> QED BY <1>1, <1>2, <1>3, <1>4 DEF SameRequest

LEMMA CommitFields ==
    ASSUME IInv, CalmEnvironment, NEW p \in Proxies, CommitWrite(p), SessionOK(sess[p])
    PROVE  LET s == sess[p]
               row == db[s.cur][s.key]
           IN  /\ s.pc = "exec" /\ IsWrite(s.op) /\ UNCHANGED cached
               /\ \A n \in Nodes, k \in Keys : db'[n][k] =
                      IF n = s.cur /\ k = s.key THEN RowAfter(s.op, row, s.val) ELSE db[n][k]
               /\ SameRequest(p) /\ sess'[p].cur = s.cur /\ sess'[p].val = s.val
               /\ sess'[p].todo = s.todo /\ sess'[p].best = s.best
               /\ sess'[p].code = StatusCode(s.op, row)
               /\ sess'[p].pc = IF StatusCode(s.op, row) \in Success THEN "forget" ELSE "reply"
<1> DEFINE s == sess[p]
           row == db[s.cur][s.key]
           code == StatusCode(s.op, row)
           pc == IF code \in Success THEN "forget" ELSE "reply"
<1>1. s.pc = "exec" /\ IsWrite(s.op) /\ UNCHANGED cached
  BY DEF CommitWrite
<1>2. s \in Session /\ s.cur \in Nodes /\ s.key \in Keys /\ alive[s.cur]
  BY <1>1, AtHandler DEF SessionOK, AtBackend, HandlerStep
<1>3. PICK ok \in BOOLEAN :
          /\ Transact(s.cur, s.key, RowAfter(s.op, row, s.val), ok)
          /\ sess' = [sess EXCEPT
                ![p].pc = IF ok /\ code \in Success THEN "forget" ELSE "reply",
                ![p].code = IF ok THEN code ELSE 500]
  BY DEF CommitWrite
<1>4. /\ ok = TRUE
      /\ \A n \in Nodes, k \in Keys : db'[n][k] =
             IF n = s.cur /\ k = s.key THEN RowAfter(s.op, row, s.val) ELSE db[n][k]
  <2> DEFINE new == RowAfter(s.op, row, s.val)
           a == s.cur
           b == s.key
  <2>1. Transact(a, b, new, ok) /\ alive[a] /\ alive[a] \in BOOLEAN
    BY <1>2, <1>3 DEF IInv, TypeOK, BackendsTypeOK
  <2> HIDE DEF new, a, b
  <2>2. Served(a, ok)
    BY <2>1 DEF Transact
  <2>3. ok = TRUE
    BY <2>1, <2>2, AliveServes
  <2>4. db' = [db EXCEPT ![a][b] = new]
    BY <2>1, <2>3 DEF Transact
  <2>5. \A n \in Nodes, k \in Keys : db'[n][k] = IF n = a /\ k = b THEN new ELSE db[n][k]
    BY <2>4 DEF IInv, TypeOK, BackendsTypeOK
  <2> QED BY <2>3, <2>5 DEF new, a, b
<1>5. sess' = [sess EXCEPT ![p].pc = pc, ![p].code = code]
  BY <1>3, <1>4
<1>6. pc = IF code \in Success THEN "forget" ELSE "reply"
  OBVIOUS
<1> HIDE DEF pc, code
<1> DEFINE r == [s EXCEPT !.pc = pc, !.code = code]
<1>7. /\ r.pc = pc /\ r.code = code /\ r.val = s.val /\ r.op = s.op /\ r.key = s.key
      /\ r.cur = s.cur /\ r.todo = s.todo /\ r.best = s.best
  BY <1>2 DEF Session
<1>8. sess'[p] = r /\ Unmoved(p)
  <2>1. sess' = [sess EXCEPT ![p] = r]
    BY <1>2, <1>5 DEF IInv, TypeOK, SessionTypeOK, Session
  <2> HIDE DEF r
  <2> QED BY <2>1, OneMoves
<1> HIDE DEF r
<1> QED BY <1>1, <1>4, <1>6, <1>7, <1>8 DEF code, SameRequest

LEMMA UpdateFields ==
    ASSUME IInv, NEW p \in Proxies, UpdateCache(p)
    PROVE  LET s == sess[p] IN
           /\ s.pc = "forget" /\ IsWrite(s.op) /\ UNCHANGED db
           /\ IF s.op = "create" THEN CreateKey(s.cur, s.key, s.val)
                                 ELSE DeleteKey(s.cur, s.key)
           /\ SameRequest(p) /\ sess'[p].pc = "reply" /\ sess'[p].val = s.val
           /\ sess'[p].cur = s.cur /\ sess'[p].todo = s.todo /\ sess'[p].best = s.best
           /\ sess'[p].code = s.code
<1> DEFINE s == sess[p]
<1>1. /\ s.pc = "forget" /\ UNCHANGED db /\ s \in Session /\ WellFormed(s)
      /\ IF s.op = "create" THEN CreateKey(s.cur, s.key, s.val) ELSE DeleteKey(s.cur, s.key)
  BY DEF UpdateCache, IInv, TypeOK, SessionTypeOK, SessionInv
<1> DEFINE r == [s EXCEPT !.pc = "reply"]
<1>2. /\ r.pc = "reply" /\ r.op = s.op /\ r.key = s.key /\ r.val = s.val /\ r.code = s.code
      /\ r.cur = s.cur /\ r.todo = s.todo /\ r.best = s.best
  BY <1>1 DEF Session
<1>3. sess'[p] = r /\ Unmoved(p)
  <2>1. sess' = [sess EXCEPT ![p] = r]
    BY <1>1 DEF UpdateCache, IInv, TypeOK, SessionTypeOK
  <2> HIDE DEF r
  <2> QED BY <2>1, OneMoves
<1> HIDE DEF r
<1>4. IsWrite(s.op)
  BY <1>1 DEF WellFormed
<1> QED BY <1>1, <1>2, <1>3, <1>4 DEF SameRequest

(* What they have in common.                                               *)
LEMMA HandlerFields ==
    ASSUME IInv, CalmEnvironment, NEW p \in Proxies, HandlerStep(p), SessionOK(sess[p])
    PROVE  LET s == sess[p] IN
           /\ SameRequest(p) /\ sess'[p].pc \in AtBackend \ {"exec"} /\ sess'[p].cur = s.cur
           /\ sess'[p].todo = s.todo /\ sess'[p].best = s.best
           /\ IsWrite(s.op) => sess'[p].val = s.val
<1>1. CASE ReadCache(p)
  BY <1>1, ReadCacheFields DEF AtBackend, IsWrite
<1>2. CASE SelectRow(p)
  BY <1>2, SelectFields DEF AtBackend, IsWrite
<1>3. CASE FillCache(p)
  BY <1>3, FillFields DEF AtBackend, IsWrite
<1>4. CASE CommitWrite(p)
  BY <1>4, CommitFields DEF AtBackend
<1>5. CASE UpdateCache(p)
  BY <1>5, UpdateFields DEF AtBackend
<1> QED BY <1>1, <1>2, <1>3, <1>4, <1>5 DEF HandlerStep
-----------------------------------------------------------------------------
(* One outage at a time.                                                   *)
LessTrouble == \A n \in Nodes : /\ alive[n] => alive'[n]
                                /\ Troubled(n)' => Troubled(n)

LEMMA RingNotEmpty ==
    ASSUME CalmEnvironment, OutageInv
    PROVE  onRing # {} /\ ~ThrowNoBackend
<1>1. PICK m \in Nodes : TRUE
  BY DeploymentAssumption
<1>2. PICK n \in Nodes : n # m
  BY DEF CalmEnvironment
<1>3. ~Troubled(m) \/ ~Troubled(n)
  BY <1>2 DEF OutageInv, OneOutage
<1> QED BY <1>3 DEF Troubled, ThrowNoBackend

(* A session that is not on its way keeps its part of the invariant.       *)
LEMMA OthersKept ==
    ASSUME IInv, OutageInv, LessTrouble, NEW q \in Proxies, sess'[q] = sess[q]
    PROVE  /\ Writing(q)' => q \in Writers
           /\ SessionOK(sess[q])' /\ ReadAtHome(sess[q])'
<1>1. sess[q] \in Session /\ WellFormed(sess[q])
  BY DEF IInv, TypeOK, SessionTypeOK, SessionInv
<1>2. SessionOK(sess[q]) /\ ReadAtHome(sess[q]) /\ (Writing(q) => q \in Writers)
  BY DEF OutageInv
<1>3. Writing(q)' => q \in Writers
  BY <1>2 DEF Writing, Busy
<1>4. SessionOK(sess[q])'
  BY <1>1, <1>2 DEF SessionOK, WellFormed, LessTrouble
<1>5. ReadAtHome(sess[q])'
  BY <1>1, <1>2 DEF ReadAtHome, WellFormed, LessTrouble, Session
<1> QED BY <1>3, <1>4, <1>5

LEMMA OutageKept ==
    ASSUME IInv, OutageInv, LessTrouble, MarksOK', Calm', NEW p \in Proxies, Unmoved(p),
           Writing(p)' => p \in Writers, SessionOK(sess[p])', ReadAtHome(sess[p])'
    PROVE  OutageInv'
<1>1. OneOutage'
  BY DEF OutageInv, OneOutage, LessTrouble
<1>2. ASSUME NEW q \in Proxies
      PROVE  /\ Writing(q)' => q \in Writers
             /\ SessionOK(sess[q])' /\ ReadAtHome(sess[q])'
  BY <1>2, OthersKept DEF Unmoved
<1> QED BY <1>1, <1>2 DEF OutageInv

(* What a session step leaves of the trouble there was.                    *)
LEMMA SessionTrouble ==
    ASSUME IInv, NEW p \in Proxies, Unmoved(p), UNCHANGED <<alive, hc>>,
           \A n \in Nodes : status'[n] # "UP" => Troubled(n),
           \A n \in Nodes : n \notin onRing' => Troubled(n),
           Marking(p)' /\ sess'[p].cur \in Nodes => Troubled(sess'[p].cur)
    PROVE  LessTrouble
<1>1. ASSUME NEW n \in Nodes, Troubled(n)' PROVE Troubled(n)
  <2>1. CASE \E q \in Proxies : Marking(q)' /\ sess'[q].cur = n
    <3>1. PICK q \in Proxies : Marking(q)' /\ sess'[q].cur = n
      BY <2>1
    <3>2. CASE q = p
      BY <3>1, <3>2
    <3>3. CASE q # p
      BY <3>1, <3>3 DEF Unmoved, Marking, Troubled
    <3> QED BY <3>2, <3>3
  <2>2. CASE ~ \E q \in Proxies : Marking(q)' /\ sess'[q].cur = n
    BY <1>1, <2>2 DEF Troubled
  <2> QED BY <2>1, <2>2
<1> QED BY <1>1 DEF LessTrouble

LEMMA SameMarks ==
    ASSUME MarksOK, NEW p \in Proxies, Unmoved(p), UNCHANGED <<alive, hc, status, onRing>>,
           sess'[p].pc # "unring"
    PROVE  MarksOK'
BY DEF MarksOK, Unmoved, Recovering

LEMMA FreshKept ==
    ASSUME NEW p \in Proxies, sess'[p] = Fresh
    PROVE  ~Busy(p)' /\ ~Marking(p)' /\ SessionOK(sess[p])' /\ ReadAtHome(sess[p])'
<1>1. sess'[p].pc = "recv" /\ sess'[p].best = None
  BY DEF Fresh
<1> QED BY <1>1 DEF AtBackend, Busy, Marking, SessionOK, ReadAtHome

(* The untroubled replicas of a key are candidates of a lookup.            *)
LEMMA UpOnRing ==
    ASSUME IInv, OutageInv, NEW k \in Keys, NEW n \in Home(k), status[n] = "UP"
    PROVE  n \in GetReadBackends(k) /\ n \in GetWriteBackends(k)
<1>1. n \in Nodes /\ n \in onRing
  BY DEF Home, OutageInv, MarksOK
<1>2. n \in GetNodes(k)
  BY <1>1, HomeOnRing DEF IInv, TypeOK
<1> QED BY <1>2 DEF GetReadBackends, GetWriteBackends

LEMMA RouteOutage ==
    ASSUME IInv, CalmEnvironment, OutageInv, NEW p \in Proxies, Route(p), UNCHANGED hc, Calm'
    PROVE  OutageInv'
<1> DEFINE s == sess[p]
           S == Candidates(s)
<1>1. /\ s.pc = "route" /\ UNCHANGED <<status, onRing, alive>> /\ S \in SUBSET Nodes
      /\ Unmoved(p)
      /\ s \in Session /\ s.op \in Ops /\ s.key \in Keys /\ SessionOK(s)
      /\ Writing(p) => p \in Writers
  BY RouteFields DEF IInv, TypeOK, SessionTypeOK, SessionInv, WellFormed, OutageInv
<1>2. ~Marking(p)' /\ sess'[p].pc # "unring"
  BY RouteFields, FreshKept DEF Marking, Fresh
<1>3. LessTrouble
  BY <1>1, <1>2, SessionTrouble DEF Troubled
<1>4. MarksOK'
  BY <1>1, <1>2, SameMarks DEF OutageInv
<1>5. CASE sess'[p] = Fresh
  BY <1>1, <1>3, <1>4, <1>5, FreshKept, OutageKept DEF Writing
<1>6. CASE sess'[p] # Fresh
  <2>1. /\ sess'[p].pc = "connect" /\ sess'[p].todo = S /\ sess'[p].op = s.op
        /\ sess'[p].key = s.key /\ sess'[p].val = s.val /\ sess'[p].best = s.best
    BY <1>6, RouteFields DEF SameRequest
  <2>2. Writing(p)' => p \in Writers
    BY <1>1, <2>1 DEF Writing, Busy
  <2>3. S \subseteq GetNodes(s.key)
    BY DEF Candidates, GetReadBackends, GetWriteBackends
  <2>4. SessionOK(sess[p])'
    <3>1. ASSUME s.op \in {"create", "delete"} PROVE S \subseteq Home(s.key)
      <4>1. \A n \in Nodes : n \in onRing
        BY <1>1, <3>1 DEF SessionOK, Troubled
      <4>2. onRing = Nodes
        BY <4>1 DEF IInv, TypeOK, RouterTypeOK
      <4> QED BY <2>3, <4>2, HomeIsRing
    <3> HIDE DEF S
    <3> QED BY <1>1, <1>3, <2>1, <3>1 DEF AtBackend, SessionOK, LessTrouble
  <2>5. ReadAtHome(sess[p])'
    <3>1. ASSUME s.op = "get", ~ (S \subseteq Home(s.key))
          PROVE  (\A n \in S : ~Troubled(n)) /\ S \intersect Home(s.key) # {}
      <4>1. onRing # Nodes
        BY <2>3, <3>1, HomeIsRing
      <4>2. PICK t \in Nodes : t \notin onRing
        BY <4>1 DEF IInv, TypeOK, RouterTypeOK
      <4>3. \A n \in Nodes \ {t} : ~Troubled(n)
        BY <4>2 DEF OutageInv, OneOutage, Troubled
      <4>4. t \notin S
        BY <2>3, <4>2 DEF GetNodes
      <4>5. PICK m \in Home(s.key) : m # t
        BY <1>1, HomeHasAnother
      <4>6. m \in Nodes /\ ~Troubled(m) /\ status[m] = "UP"
        BY <4>3, <4>5 DEF Home, Troubled
      <4>7. m \in S
        BY <1>1, <3>1, <4>5, <4>6, UpOnRing DEF Candidates, IsWrite
      <4> QED BY <1>1, <4>3, <4>4, <4>5, <4>7
    <3> HIDE DEF S
    <3> QED BY <1>1, <1>3, <2>1, <3>1 DEF AtBackend, ReadAtHome, LessTrouble
  <2> QED BY <1>1, <1>3, <1>4, <2>2, <2>4, <2>5, OutageKept
<1> QED BY <1>5, <1>6

LEMMA ConnectOutage ==
    ASSUME IInv, CalmEnvironment, OutageInv, NEW p \in Proxies, Connect(p), UNCHANGED hc, Calm'
    PROVE  OutageInv'
<1> DEFINE s == sess[p]
           n == sess'[p].cur
<1>1. /\ s.pc = "connect" /\ UNCHANGED <<status, onRing, alive>> /\ s.todo \in SUBSET Nodes
      /\ n \in s.todo /\ IsFirst(s.key, n, s.todo)
      /\ sess'[p].pc = IF alive[n] THEN "exec" ELSE "mark"
      /\ sess'[p].todo = s.todo \ {n} /\ sess'[p].op = s.op /\ sess'[p].key = s.key
      /\ sess'[p].val = s.val /\ sess'[p].best = s.best /\ Unmoved(p)
  BY ConnectFields DEF SameRequest
<1>2. /\ s.op \in Ops /\ s.key \in Keys /\ SessionOK(s) /\ ReadAtHome(s)
      /\ Writing(p) => p \in Writers
  BY <1>1 DEF IInv, SessionInv, WellFormed, OutageInv
<1>3. Marking(p)' => ~alive[n]
  BY <1>1 DEF Marking
<1>4. LessTrouble
  BY <1>1, <1>3, SessionTrouble DEF Troubled
<1>5. MarksOK'
  BY <1>1, SameMarks DEF OutageInv
<1>6. Writing(p)' => p \in Writers
  BY <1>1, <1>2 DEF Writing, Busy
<1>7. SessionOK(sess[p])'
  <2> HIDE DEF n
  <2> QED BY <1>1, <1>2, <1>4 DEF AtBackend, SessionOK, LessTrouble, n
<1>8. ReadAtHome(sess[p])'
  <2>1. ASSUME s.op = "get" PROVE n \in Home(s.key)
    <3>1. s.todo \intersect Home(s.key) # {}
      BY <1>1, <1>2, <2>1 DEF ReadAtHome
    <3> QED BY <1>1, <1>2, <3>1, FirstIsHome
  <2>2. ASSUME s.op = "get", ~ (s.todo \ {n} \subseteq Home(s.key))
        PROVE  alive[n] /\ ~Troubled(n) /\ \A m \in s.todo \ {n} : ~Troubled(m)
    <3>1. \A m \in s.todo : ~Troubled(m)
      BY <1>1, <1>2, <2>2 DEF ReadAtHome
    <3> QED BY <1>1, <3>1 DEF Troubled
  <2> HIDE DEF n
  <2> QED BY <1>1, <1>4, <2>1, <2>2 DEF AtBackend, ReadAtHome, LessTrouble, n
<1> QED BY <1>1, <1>4, <1>5, <1>6, <1>7, <1>8, OutageKept

LEMMA HandlerOutage ==
    ASSUME IInv, CalmEnvironment, OutageInv, NEW p \in Proxies, HandlerStep(p), UNCHANGED hc,
           Calm'
    PROVE  OutageInv'
<1> DEFINE s == sess[p]
<1>1. /\ SessionOK(s) /\ ReadAtHome(s) /\ s \in Session
      /\ Writing(p) => p \in Writers
  BY DEF OutageInv, IInv, TypeOK, SessionTypeOK
<1>2. /\ s.pc \in AtBackend \ {"reply"} /\ UNCHANGED <<status, onRing, alive>>
      /\ s.cur \in Nodes
      /\ sess'[p].op = s.op /\ sess'[p].key = s.key /\ sess'[p].pc \in AtBackend \ {"exec"}
      /\ sess'[p].cur = s.cur /\ sess'[p].todo = s.todo /\ Unmoved(p)
      /\ sess'[p].best = s.best
      /\ IsWrite(s.op) => sess'[p].val = s.val
  BY <1>1, AtHandler, HandlerFields DEF SameRequest
<1>3. LessTrouble
  BY <1>2, SessionTrouble DEF Troubled, Marking, AtBackend
<1>4. MarksOK'
  BY <1>2, SameMarks DEF OutageInv, AtBackend
<1>5. Writing(p)' => p \in Writers
  BY <1>1, <1>2 DEF Writing, Busy, AtBackend
<1>6. SessionOK(sess[p])'
  BY <1>1, <1>2, <1>3 DEF SessionOK, LessTrouble, IsWrite, AtBackend
<1>7. ReadAtHome(sess[p])'
  BY <1>1, <1>2, <1>3 DEF ReadAtHome, LessTrouble, Session, AtBackend
<1> QED BY <1>2, <1>3, <1>4, <1>5, <1>6, <1>7, OutageKept

LEMMA ReplyOutage ==
    ASSUME IInv, CalmEnvironment, OutageInv, NEW p \in Proxies, Reply(p), UNCHANGED hc, Calm'
    PROVE  OutageInv'
<1> DEFINE s == sess[p]
<1>1. /\ SessionOK(s) /\ ReadAtHome(s) /\ s \in Session
      /\ Writing(p) => p \in Writers
  BY DEF OutageInv, IInv, TypeOK, SessionTypeOK
<1>2. s.pc = "reply" /\ UNCHANGED <<status, onRing, alive>> /\ Unmoved(p)
  BY ReplyFields
<1>3. sess'[p].pc \in {"recv", "connect"}
  BY ReplyFields DEF Fresh
<1>4. LessTrouble
  BY <1>2, <1>3, SessionTrouble DEF Troubled, Marking
<1>5. MarksOK'
  BY <1>2, <1>3, SameMarks DEF OutageInv
<1>6. CASE ~IsWrite(s.op)
  BY <1>2, <1>4, <1>5, <1>6, ReplyFields, FreshKept, OutageKept DEF Writing
<1>7. CASE IsWrite(s.op)
  <2>1. /\ sess'[p].pc = "connect" /\ sess'[p].todo = s.todo /\ sess'[p].op = s.op
        /\ sess'[p].key = s.key /\ sess'[p].val = s.val
    BY <1>7, ReplyFields DEF SameRequest
  <2>2. Writing(p)' => p \in Writers
    BY <1>1, <1>2, <2>1 DEF Writing, Busy
  <2>3. SessionOK(sess[p])'
    BY <1>1, <1>2, <1>4, <1>7, <2>1 DEF AtBackend, SessionOK, LessTrouble, IsWrite
  <2>4. ReadAtHome(sess[p])'
    BY <1>7, <2>1 DEF ReadAtHome, IsWrite
  <2> QED BY <1>2, <1>4, <1>5, <2>2, <2>3, <2>4, OutageKept
<1> QED BY <1>6, <1>7

LEMMA MarkingOutage ==
    ASSUME IInv, CalmEnvironment, OutageInv, NEW p \in Proxies, UNCHANGED hc, Calm',
           Broken(p) \/ MarkDownStatus(p) \/ MarkDownRing(p)
    PROVE  OutageInv'
<1> DEFINE s == sess[p]
           n == s.cur
<1>1. /\ SessionOK(s) /\ ReadAtHome(s) /\ s \in Session /\ MarksOK
      /\ Writing(p) => p \in Writers
  BY DEF OutageInv, IInv, TypeOK, SessionTypeOK
<1>2. Marking(p) /\ ~Recovering /\ s.pc # "recv" /\ n \in Nodes
  BY DEF OutageInv, Calm, CalmEnvironment, Broken, MarkDownStatus, MarkDownRing, At, Marking,
         IInv, SessionInv, WellFormed
<1>3. Broken(p) => ~IsWrite(s.op)
  BY <1>1 DEF Broken, At, SessionOK, IsWrite
<1>4. /\ sess'[p].op = s.op /\ sess'[p].key = s.key /\ sess'[p].todo = s.todo
      /\ sess'[p].best = s.best
      /\ s.op # "get" => sess'[p].val = s.val
      /\ sess'[p].pc \in {"mark", "unring", "connect"} /\ Unmoved(p)
      /\ Marking(p)' => sess'[p].cur = n
  BY <1>3, BrokenFields, MarkFields, UnringFields DEF SameRequest, Marking, IsWrite
<1>5. /\ UNCHANGED <<alive, hc>>
      /\ \/ UNCHANGED <<status, onRing>> /\ sess'[p].pc = "mark"
         \/ /\ status' = [status EXCEPT ![n] = "DOWN"] /\ UNCHANGED onRing
            /\ sess'[p].pc = "unring" /\ sess'[p].cur = n
         \/ /\ UNCHANGED status /\ onRing' = onRing \ {n} /\ status[n] = "DOWN"
            /\ sess'[p].pc = "connect"
  BY <1>1, <1>3, BrokenFields, MarkFields, UnringFields DEF MarksOK
<1>6. Troubled(n) /\ status \in [Nodes -> BackendStatus] /\ onRing \subseteq Nodes
  BY <1>2 DEF Troubled, IInv, TypeOK, RouterTypeOK
<1>7. LessTrouble
  <2>1. \A m \in Nodes : status'[m] # "UP" \/ m \notin onRing' => Troubled(m)
    BY <1>5, <1>6 DEF Troubled
  <2> QED BY <1>4, <1>5, <1>6, <2>1, SessionTrouble
<1>8. MarksOK'
  <2>1. \A m \in Nodes : status'[m] = "UP" => m \in onRing'
    BY <1>1, <1>5, <1>6 DEF MarksOK
  <2>2. \A m \in Nodes : status[m] = "DOWN" => status'[m] = "DOWN"
    BY <1>5, <1>6
  <2>3. \A q \in Proxies : sess'[q].pc = "unring" => status'[sess'[q].cur] = "DOWN"
    BY <1>1, <1>2, <1>4, <1>5, <1>6, <2>2 DEF MarksOK, Unmoved, IInv, SessionInv, WellFormed
  <2>4. hc.pc = "evict" => status'[hc.node] = "DOWN"
    BY <1>1, <2>2 DEF MarksOK, IInv, CheckerInv
  <2> QED BY <1>2, <1>5, <2>1, <2>3, <2>4 DEF MarksOK, Recovering
<1>9. Writing(p)' => p \in Writers
  BY <1>1, <1>2, <1>4 DEF Writing, Busy
<1>10. SessionOK(sess[p])'
  BY <1>1, <1>2, <1>4, <1>7 DEF AtBackend, SessionOK, LessTrouble
<1>11. ReadAtHome(sess[p])'
  <2>1. s.op = "get" => s.todo \subseteq Home(s.key)
    BY <1>1, <1>2 DEF AtBackend, ReadAtHome, Marking
  <2> QED BY <1>4, <2>1 DEF AtBackend, ReadAtHome
<1> QED BY <1>4, <1>7, <1>8, <1>9, <1>10, <1>11, OutageKept

LEMMA RespondOutage ==
    ASSUME IInv, CalmEnvironment, OutageInv, NEW p \in Proxies, Respond(p), UNCHANGED hc, Calm'
    PROVE  OutageInv'
<1>1. /\ UNCHANGED <<status, onRing, alive>> /\ sess'[p] = Fresh /\ Unmoved(p)
  BY RespondFields
<1>2. sess'[p].pc = "recv"
  BY <1>1 DEF Fresh
<1>3. LessTrouble
  BY <1>1, <1>2, SessionTrouble DEF Troubled, Marking
<1>4. MarksOK'
  BY <1>1, <1>2, SameMarks DEF OutageInv
<1> QED BY <1>1, <1>3, <1>4, FreshKept, OutageKept DEF Writing

(* A client sends a request; the backends are not concerned.               *)
LEMMA RequestFields ==
    ASSUME IInv, CalmEnvironment, OutageInv, NEW p \in Proxies, Request(p)
    PROVE  /\ sess[p].pc = "recv" /\ Unmoved(p) /\ Calm'
           /\ UNCHANGED <<status, onRing, alive, db, cached, hc, rm, legal>>
           /\ sess'[p].pc = "route" /\ sess'[p].todo = {} /\ sess'[p].best = None
           /\ sess'[p].op \in Ops /\ sess'[p].key \in Keys
           /\ IsWrite(sess'[p].op) => p \in Writers
           /\ sess'[p].op \in {"create", "put"} => sess'[p].val # None
           /\ sess'[p].op \in {"create", "delete"} => Settled
           /\ seen' = [seen EXCEPT ![p] = legal[sess'[p].key]]
<1>1. PICK op \in OpsAllowed, k \in Keys, v \in unsent \union {None} :
          /\ p \in IF IsWrite(op) THEN Writers ELSE Readers
          /\ (v = None) <=> (op \in {"get", "delete"})
          /\ MayMeetOutage(op) \/ Settled
          /\ Receive(p, op, k, v)
          /\ seen' = [seen EXCEPT ![p] = IF Busy(p)' THEN legal[k] ELSE {}]
  BY DEF Request
<1> DEFINE r == [Fresh EXCEPT !.pc = "route", !.op = op, !.key = k, !.val = v]
<1>2. sess[p].pc = "recv" /\ sess' = [sess EXCEPT ![p] = r]
      /\ UNCHANGED <<status, onRing, alive, db, cached>>
  BY <1>1, RingNotEmpty DEF Receive, At, routerVars, backendVars
<1>3. /\ r.pc = "route" /\ r.todo = {} /\ r.best = None /\ r.op = op /\ r.key = k /\ r.val = v
  BY DEF Fresh
<1>4. sess'[p] = r /\ Unmoved(p)
  BY <1>2 DEF IInv, TypeOK, SessionTypeOK, Unmoved
<1>5. op \in Ops
  BY ClusterAssumption
<1> HIDE DEF r
<1>6. seen' = [seen EXCEPT ![p] = legal[k]]
  BY <1>1, <1>3, <1>4 DEF Busy
<1>7. op \in {"create", "delete"} => Settled
  BY <1>1 DEF MayMeetOutage, CalmEnvironment
<1> QED BY <1>1, <1>2, <1>3, <1>4, <1>5, <1>6, <1>7 DEF Request, healthVars

LEMMA SettledUntroubled ==
    ASSUME Settled, IInv
    PROVE  onRing = Nodes /\ \A n \in Nodes : ~Troubled(n)
BY DEF Settled, Troubled, IInv, TypeOK, RouterTypeOK

LEMMA RequestOutage ==
    ASSUME IInv, CalmEnvironment, OutageInv, NEW p \in Proxies, Request(p)
    PROVE  OutageInv'
<1>1. /\ Unmoved(p) /\ UNCHANGED <<status, onRing, alive, hc>> /\ Calm' /\ sess'[p].pc = "route"
      /\ sess'[p].todo = {} /\ sess'[p].best = None
      /\ IsWrite(sess'[p].op) => p \in Writers
      /\ sess'[p].op \in {"create", "put"} => sess'[p].val # None
      /\ sess'[p].op \in {"create", "delete"} => Settled
  BY RequestFields
<1>2. LessTrouble
  BY <1>1, SessionTrouble DEF Troubled, Marking
<1>3. MarksOK'
  BY <1>1, SameMarks DEF OutageInv
<1>4. SessionOK(sess[p])' /\ ReadAtHome(sess[p])'
  BY <1>1, <1>2, SettledUntroubled DEF AtBackend, SessionOK, ReadAtHome, LessTrouble
<1>5. Writing(p)' => p \in Writers
  BY <1>1 DEF Writing
<1> QED BY <1>1, <1>2, <1>3, <1>4, <1>5, OutageKept

LEMMA StillOutage ==
    ASSUME IInv, OutageInv, LessTrouble, MarksOK', Calm', UNCHANGED sess
    PROVE  OutageInv'
<1>1. OneOutage'
  BY DEF OutageInv, OneOutage, LessTrouble
<1>2. ASSUME NEW q \in Proxies
      PROVE  /\ Writing(q)' => q \in Writers
             /\ SessionOK(sess[q])' /\ ReadAtHome(sess[q])'
  BY <1>2, OthersKept
<1> QED BY <1>1, <1>2 DEF OutageInv

LEMMA RestartOutage ==
    ASSUME IInv, OutageInv, NEW n \in Nodes, Restart(n)
    PROVE  OutageInv'
<1>1. UNCHANGED <<status, onRing, lbUp, sess, hc>> /\ \A m \in Nodes : alive[m] => alive'[m]
  BY DEF Restart, Start, routerVars, healthVars, IInv, TypeOK, BackendsTypeOK
<1>2. LessTrouble
  BY <1>1 DEF LessTrouble, Troubled, Marking
<1>3. MarksOK'
  BY <1>1 DEF OutageInv, MarksOK, Recovering, IInv, CheckerInv
<1>4. Calm'
  BY <1>1 DEF OutageInv, Calm, Recovering, Marking, Writing, Busy
<1> QED BY <1>1, <1>2, <1>3, <1>4, StillOutage

LEMMA PushOutFields ==
    ASSUME IInv, NEW n \in Nodes, NEW k \in Keys, PushOut(n, k)
    PROVE  /\ UNCHANGED <<status, onRing, lbUp, alive, db, sess, hc, rm, legal, seen>>
           /\ \A m \in Nodes, x \in Keys : cached'[m][x] \in {None, cached[m][x]}
BY DEF PushOut, Evict, DeleteKey, routerVars, healthVars, envVars, IInv, TypeOK, BackendsTypeOK

LEMMA PushOutOutage ==
    ASSUME IInv, OutageInv, NEW n \in Nodes, NEW k \in Keys, PushOut(n, k)
    PROVE  OutageInv'
<1>1. UNCHANGED <<status, onRing, alive, sess, hc>>
  BY PushOutFields
<1>2. LessTrouble
  BY <1>1 DEF LessTrouble, Troubled, Marking
<1>3. MarksOK' /\ Calm'
  BY <1>1 DEF OutageInv, MarksOK, Recovering, Calm, Marking, Writing, Busy
<1> QED BY <1>1, <1>2, <1>3, StillOutage

(* A crash is the beginning of an outage, and the only one.                *)
LEMMA CrashFields ==
    ASSUME IInv, CalmEnvironment, NEW n \in Nodes, Crash(n)
    PROVE  /\ Settled /\ Calm' /\ UNCHANGED <<status, onRing, db, hc, rm, legal, seen>>
           /\ \A m \in Nodes : alive'[m] <=> alive[m] /\ m # n
           /\ \A m \in Nodes, k \in Keys :
                  cached'[m][k] = IF m = n THEN None ELSE cached[m][k]
           /\ \A p \in Proxies :
                 /\ Busy(p) => sess[p].op \notin {"create", "delete"}
                 /\ Writing(p) => sess[p].cur # n
                 /\ sess'[p].op = sess[p].op /\ sess'[p].key = sess[p].key
                 /\ sess'[p].val = sess[p].val /\ sess'[p].todo = sess[p].todo
                 /\ sess'[p].cur = sess[p].cur /\ sess'[p].code = sess[p].code
                 /\ sess'[p].best = sess[p].best
                 /\ sess'[p].pc = IF sess[p].cur = n /\ sess[p].pc \in AtBackend
                                  THEN "broken" ELSE sess[p].pc
<1>1. /\ Settled /\ Calm' /\ UNCHANGED <<status, onRing, db, hc, legal, seen>>
      /\ \A m \in Nodes : alive'[m] <=> alive[m] /\ m # n
      /\ \A m \in Nodes, k \in Keys : cached'[m][k] = IF m = n THEN None ELSE cached[m][k]
  BY DEF Crash, CalmEnvironment, Stop, routerVars, IInv, TypeOK, BackendsTypeOK
<1>4. UNCHANGED rm
  <2>1. rm.pc = "off"
    BY <1>1 DEF Settled, IInv, CheckerInv
  <2> QED BY <2>1 DEF Crash, ResetRecovery
<1>2. ASSUME NEW p \in Proxies
      PROVE  /\ Busy(p) => sess[p].op \notin {"create", "delete"}
             /\ Writing(p) => sess[p].cur # n
  BY DEF Crash, CalmEnvironment, MayMeetOutage
<1>3. ASSUME NEW p \in Proxies
      PROVE  /\ sess'[p].op = sess[p].op /\ sess'[p].key = sess[p].key
             /\ sess'[p].val = sess[p].val /\ sess'[p].todo = sess[p].todo
             /\ sess'[p].cur = sess[p].cur /\ sess'[p].code = sess[p].code
             /\ sess'[p].best = sess[p].best
             /\ sess'[p].pc = IF sess[p].cur = n /\ sess[p].pc \in AtBackend
                              THEN "broken" ELSE sess[p].pc
  <2>1. sess[p] \in Session
    BY DEF IInv, TypeOK, SessionTypeOK
  <2>2. sess'[p] = IF sess[p].cur = n /\ sess[p].pc \in AtBackend
                   THEN [sess[p] EXCEPT !.pc = "broken"] ELSE sess[p]
    BY DEF Crash, ResetConnections
  <2> QED BY <2>1, <2>2 DEF Session
<1> QED BY <1>1, <1>2, <1>3, <1>4

LEMMA CrashOutage ==
    ASSUME IInv, CalmEnvironment, OutageInv, NEW n \in Nodes, Crash(n)
    PROVE  OutageInv'
<1>1. /\ Settled /\ Calm' /\ UNCHANGED <<status, onRing, hc>>
      /\ \A m \in Nodes : alive'[m] <=> alive[m] /\ m # n
  BY CrashFields
<1>2. onRing = Nodes /\ \A m \in Nodes : ~Troubled(m)
  BY <1>1, SettledUntroubled
<1>3. \A p \in Proxies :
          /\ ~Marking(p)
          /\ sess'[p].cur = sess[p].cur
          /\ sess'[p].pc \in {"mark", "unring"} => Marking(p)
          /\ sess'[p].pc = "broken" => sess[p].cur = n
  BY <1>1, CrashFields DEF Settled, Marking
<1>4. \A m \in Nodes : Troubled(m)' => m = n
  BY <1>1, <1>2, <1>3 DEF Troubled, Marking, Settled
<1>5. MarksOK'
  BY <1>1, <1>3 DEF OutageInv, MarksOK, Settled, Recovering
<1>6. ASSUME NEW p \in Proxies
      PROVE  /\ Writing(p)' => p \in Writers
             /\ SessionOK(sess[p])' /\ ReadAtHome(sess[p])'
  <2> DEFINE s == sess[p]
  <2>1. /\ s \in Session /\ SessionOK(s) /\ ReadAtHome(s) /\ (Writing(p) => p \in Writers)
        /\ WellFormed(s)
    BY DEF OutageInv, IInv, TypeOK, SessionTypeOK, SessionInv
  <2>2. /\ s.pc # "recv" => s.op \notin {"create", "delete"}
        /\ s.pc # "recv" /\ IsWrite(s.op) => s.cur # n
        /\ sess'[p].op = s.op /\ sess'[p].key = s.key /\ sess'[p].val = s.val
        /\ sess'[p].todo = s.todo /\ sess'[p].cur = s.cur /\ sess'[p].best = s.best
        /\ sess'[p].pc = IF s.cur = n /\ s.pc \in AtBackend THEN "broken" ELSE s.pc
    BY CrashFields DEF Busy, Writing
  <2>3. Writing(p)' => p \in Writers
    BY <2>1, <2>2 DEF AtBackend, Writing, Busy
  <2>4. SessionOK(sess[p])'
    BY <1>1, <2>1, <2>2 DEF SessionOK, WellFormed, IsWrite, AtBackend
  <2>5. ReadAtHome(sess[p])'
    <3>1. s.pc # "recv" => s.todo \subseteq Home(s.key)
      BY <1>1, <1>2, HomeIsRing DEF Settled, Busy
    <3> QED BY <2>1, <2>2, <3>1 DEF AtBackend, ReadAtHome
  <2> QED BY <2>3, <2>4, <2>5
<1> QED BY <1>1, <1>4, <1>5, <1>6 DEF OutageInv, OneOutage

(* What the health thread does, and to which backend.                      *)
LEMMA StartFields ==
    ASSUME IInv, StartRound
    PROVE  /\ hc.pc = "loop" /\ hc'.pc = "loop" /\ hc'.pend = status
           /\ UNCHANGED <<status, onRing, alive, db, cached, rm>>
BY DEF StartRound, InRun, IInv, TypeOK, HealthTypeOK, Checker, routerVars, backendVars

LEMMA PingFields ==
    ASSUME IInv, CalmEnvironment, Ping
    PROVE  \E n \in Nodes :
              /\ n \in DOMAIN hc.pend /\ hc.pc = "loop"
              /\ \A m \in DOMAIN hc'.pend : m \in DOMAIN hc.pend /\ hc'.pend[m] = hc.pend[m]
              /\ UNCHANGED <<status, onRing, alive, db, cached, rm>>
              /\ \/ hc'.pc = "loop"
                 \/ hc'.pc = "recovering" /\ hc'.node = n /\ alive[n] /\ hc.pend[n] # "UP"
                 \/ hc'.pc = "down" /\ hc'.node = n /\ ~alive[n]
<1>1. PICK n \in DOMAIN hc.pend, ok \in BOOLEAN :
          LET next == IF ok /\ hc.pend[n] = "DOWN" THEN "recovering"
                      ELSE IF ~ok /\ hc.pend[n] # "DOWN" THEN "down"
                      ELSE "loop"
          IN  /\ Served(n, ok)
              /\ hc' = [pc   |-> next,
                        pend |-> [m \in DOMAIN hc.pend \ {n} |-> hc.pend[m]],
                        node |-> IF next = "loop" THEN None ELSE n]
  BY DEF Ping
<1>2. n \in Nodes
  BY DEF IInv, TypeOK, HealthTypeOK, Checker
<1>3. hc.pc = "loop" /\ UNCHANGED <<status, onRing, alive, db, cached, rm>>
  BY DEF Ping, InRun, routerVars
<1>4. ok <=> alive[n]
  <2>1. Served(n, ok)
    BY <1>1
  <2> QED BY <1>2, <2>1 DEF Served, CalmEnvironment, IInv, TypeOK, BackendsTypeOK
<1> DEFINE next == IF ok /\ hc.pend[n] = "DOWN" THEN "recovering"
                   ELSE IF ~ok /\ hc.pend[n] # "DOWN" THEN "down"
                   ELSE "loop"
<1>5. /\ hc'.pc = next /\ hc'.node = IF next = "loop" THEN None ELSE n
      /\ hc'.pend = [m \in DOMAIN hc.pend \ {n} |-> hc.pend[m]]
  BY <1>1
<1> QED BY <1>2, <1>3, <1>4, <1>5

(* The visit of a backend that answers again or no more: the halves of the *)
(* marks.                                                                  *)
LEMMA VisitFields ==
    ASSUME IInv,
           \/ MarkRecoveringStatus \/ MarkRecoveringRing \/ MarkUpStatus \/ MarkUpRing
           \/ CheckerDownStatus \/ CheckerDownRing
    PROVE  /\ hc.pc # "loop" /\ hc.node \in Nodes /\ hc'.pend = hc.pend
           /\ UNCHANGED <<alive, db, cached>>
           /\ hc'.pc # "loop" => hc'.node = hc.node
           /\ \/ /\ hc.pc = "recovering" /\ hc'.pc = "rejoin" /\ UNCHANGED <<rm, onRing>>
                 /\ status' = [status EXCEPT ![hc.node] = "RECOVERING"]
              \/ /\ hc.pc = "rejoin" /\ hc'.pc = "recover" /\ UNCHANGED status
                 /\ onRing' = onRing \union {hc.node} /\ rm'.pc = "online"
              \/ /\ hc.pc = "recover" /\ hc'.pc = "readd" /\ UNCHANGED <<rm, onRing>>
                 /\ rm.pc = "off" /\ status' = [status EXCEPT ![hc.node] = "UP"]
              \/ /\ hc.pc = "readd" /\ hc'.pc = "loop" /\ UNCHANGED <<rm, status>>
                 /\ onRing' = onRing \union {hc.node}
              \/ /\ hc.pc = "down" /\ hc'.pc = "evict" /\ UNCHANGED <<rm, onRing>>
                 /\ status' = [status EXCEPT ![hc.node] = "DOWN"]
              \/ /\ hc.pc = "evict" /\ hc'.pc = "loop" /\ UNCHANGED <<rm, status>>
                 /\ onRing' = onRing \ {hc.node}
<1>0. hc \in Checker /\ (hc.pc # "loop" => hc.node \in Nodes)
  BY DEF IInv, TypeOK, HealthTypeOK, CheckerInv
<1> USE DEF InRun, Checker, backendVars, SetStatus, AddNode, RemoveNode, EndVisit
<1>1. CASE MarkRecoveringStatus
  BY <1>0, <1>1 DEF MarkRecoveringStatus
<1>2. CASE MarkRecoveringRing
  BY <1>0, <1>2 DEF MarkRecoveringRing, NoRecovery
<1>3. CASE MarkUpStatus
  BY <1>0, <1>3 DEF MarkUpStatus
<1>4. CASE MarkUpRing
  BY <1>0, <1>4 DEF MarkUpRing
<1>5. CASE CheckerDownStatus
  BY <1>0, <1>5 DEF CheckerDownStatus
<1>6. CASE CheckerDownRing
  BY <1>0, <1>6 DEF CheckerDownRing
<1> QED BY <1>1, <1>2, <1>3, <1>4, <1>5, <1>6

LEMMA RecoveryLeaves ==
    ASSUME RecoveryStep
    PROVE  UNCHANGED <<status, onRing, alive, hc>>
BY DEF RecoveryStep, ListOnline, FetchAllKeys, PickKey, CheckOwner, FetchCached, FetchRow,
       FetchFill, NoSource, SyncValue, SyncForget, EndRecover, routerVars, backendVars,
       ThrowNoBackend

LEMMA HealthOutage ==
    ASSUME IInv, CalmEnvironment, OutageInv, Health
    PROVE  OutageInv'
<1>0. HealthStep /\ UNCHANGED sess /\ Calm' /\ MarksOK /\ Calm
  BY DEF Health, OutageInv
<1>1. SUFFICES LessTrouble /\ MarksOK'
  BY <1>0, StillOutage
<1>2. CASE RecoveryStep
  <2>1. UNCHANGED <<status, onRing, alive, hc, sess>>
    BY <1>0, <1>2, RecoveryLeaves
  <2> QED BY <1>0, <2>1 DEF LessTrouble, Troubled, MarksOK, Recovering, Marking
<1>3. CASE StartRound
  BY <1>0, <1>3, StartFields DEF LessTrouble, Troubled, MarksOK, Recovering, Marking
<1>4. CASE Ping
  <2>1. PICK n \in Nodes :
              /\ n \in DOMAIN hc.pend /\ hc.pc = "loop"
              /\ \A m \in DOMAIN hc'.pend : m \in DOMAIN hc.pend /\ hc'.pend[m] = hc.pend[m]
              /\ UNCHANGED <<status, onRing, alive, db, cached, rm>>
              /\ \/ hc'.pc = "loop"
                 \/ hc'.pc = "recovering" /\ hc'.node = n /\ alive[n] /\ hc.pend[n] # "UP"
                 \/ hc'.pc = "down" /\ hc'.node = n /\ ~alive[n]
    BY <1>4, PingFields
  <2> QED BY <1>0, <2>1 DEF LessTrouble, Troubled, MarksOK, Recovering, Marking
<1>5. CASE \/ MarkRecoveringStatus \/ MarkRecoveringRing \/ MarkUpStatus \/ MarkUpRing
           \/ CheckerDownStatus \/ CheckerDownRing
  <2> DEFINE n == hc.node
  <2>1. /\ n \in Nodes /\ hc.pc # "loop" /\ hc'.pend = hc.pend /\ UNCHANGED <<alive, sess>>
        /\ hc'.pc # "loop" => hc'.node = n
        /\ \/ /\ hc.pc = "recovering" /\ hc'.pc = "rejoin" /\ UNCHANGED <<rm, onRing>>
              /\ status' = [status EXCEPT ![n] = "RECOVERING"]
           \/ /\ hc.pc = "rejoin" /\ hc'.pc = "recover" /\ UNCHANGED status
              /\ onRing' = onRing \union {n}
           \/ /\ hc.pc = "recover" /\ hc'.pc = "readd" /\ UNCHANGED <<rm, onRing>>
              /\ status' = [status EXCEPT ![n] = "UP"]
           \/ /\ hc.pc = "readd" /\ hc'.pc = "loop" /\ UNCHANGED <<rm, status>>
              /\ onRing' = onRing \union {n}
           \/ /\ hc.pc = "down" /\ hc'.pc = "evict" /\ UNCHANGED <<rm, onRing>>
              /\ status' = [status EXCEPT ![n] = "DOWN"]
           \/ /\ hc.pc = "evict" /\ hc'.pc = "loop" /\ UNCHANGED <<rm, status>>
              /\ onRing' = onRing \ {n}
    BY <1>0, <1>5, VisitFields
  <2>2. Troubled(n) /\ status \in [Nodes -> BackendStatus] /\ onRing \subseteq Nodes
    BY <2>1 DEF Troubled, IInv, TypeOK, RouterTypeOK
  <2>3. \A m \in Nodes : m # n => status'[m] = status[m] /\ (m \in onRing' <=> m \in onRing)
    BY <2>1, <2>2
  <2>4. LessTrouble
    <3>1. ASSUME NEW m \in Nodes, m # n, Troubled(m)' PROVE Troubled(m)
      BY <2>1, <2>3, <3>1 DEF Troubled, Marking
    <3> QED BY <2>1, <2>2, <3>1 DEF LessTrouble
  <2>5. \A m \in Nodes : status'[m] = "UP" => m \in onRing'
    <3>1. status'[n] = "UP" => n \in onRing'
      BY <1>0, <2>1, <2>2 DEF MarksOK
    <3> QED BY <1>0, <2>3, <3>1 DEF MarksOK
  <2>6. \A p \in Proxies : sess[p].pc = "unring" => status'[sess[p].cur] = "DOWN"
    <3>1. hc.pc \in {"recovering", "recover"} => \A p \in Proxies : ~Marking(p)
      BY <1>0 DEF Calm, CalmEnvironment, Recovering
    <3> QED BY <1>0, <2>1, <2>2, <3>1
            DEF MarksOK, Marking, IInv, SessionInv, WellFormed
  <2>7. hc'.pc = "evict" => status'[n] = "DOWN"
    BY <2>1, <2>2
  <2>8. hc'.pc \in {"recover", "readd"} => n \in onRing'
    BY <1>0, <2>1 DEF MarksOK
  <2>9. Recovering' => alive'[n]
    BY <1>0, <2>1 DEF MarksOK, Recovering
  <2>10. MarksOK'
    BY <2>1, <2>5, <2>6, <2>7, <2>8, <2>9 DEF MarksOK, Recovering
  <2> QED BY <2>4, <2>10
<1> QED BY <1>0, <1>2, <1>3, <1>4, <1>5 DEF HealthStep

-----------------------------------------------------------------------------
(* The data.  Most steps leave the rows, and what is still to be written,  *)
(* as they are, and put no backend into service.                           *)
NothingNew(k) ==
    \A n \in Nodes : db'[n][k] = db[n][k] /\ Offers(n, k)' \subseteq Offers(n, k)

SameRows(k) == legal[k] \subseteq legal'[k] /\ NothingNew(k)

NoneEnters ==
    \A n \in Nodes :
        /\ status'[n] = "UP" => status[n] = "UP"
        /\ status[n] = "UP" /\ status'[n] # "UP" => Troubled(n)

KeepsPending(q) ==
    \A n \in Nodes : status'[n] = "UP" =>
        (n \in Pending(sess[q])' <=> n \in Pending(sess[q]))

SameWriters(k) ==
    \A q \in Proxies :
        /\ WritesOn(q, k)' <=> WritesOn(q, k)
        /\ WritesOn(q, k) => KeepsPending(q)

LEMMA RowsKept ==
    ASSUME IInv, OutageInv, DataInv, NEW k \in Keys, SameRows(k), NoneEnters, SameWriters(k)
    PROVE  RowsOK(k)'
<1>1. UpHome(k)' \subseteq UpHome(k) /\ UpHome(k) \subseteq Nodes /\ Home(k) \subseteq Nodes
  BY DEF UpHome, Home, NoneEnters
<1>2. \A n \in Nodes : db'[n][k] = db[n][k]
  BY DEF SameRows, NothingNew
<1>3. Agree(k) /\ MissedPuts(k) /\ \A n \in UpHome(k) : Offers(n, k) \subseteq legal[k]
  BY DEF DataInv, RowsOK
<1>4. Agree(k)'
  BY <1>1, <1>2, <1>3 DEF Agree, SameWriters
<1>5. MissedPuts(k)'
  <2> SUFFICES ASSUME NEW m \in UpHome(k)', NEW n \in Home(k) \ UpHome(k)',
                      \A q \in Proxies : WritesOn(q, k)' => m \notin Pending(sess[q])',
                      db'[m][k] = None
               PROVE  db'[n][k] = None
    BY DEF MissedPuts
  <2>1. status'[m] = "UP" /\ m \in UpHome(k) /\ db[m][k] = None
    BY <1>1, <1>2 DEF UpHome
  <2>2. \A q \in Proxies : WritesOn(q, k) => m \notin Pending(sess[q])
    BY <1>1, <2>1 DEF SameWriters, KeepsPending
  <2>3. CASE n \notin UpHome(k)
    BY <1>1, <1>2, <1>3, <2>1, <2>2, <2>3 DEF MissedPuts
  <2>4. CASE n \in UpHome(k)
    <3>1. Troubled(n)
      BY <1>1, <2>4 DEF UpHome, NoneEnters
    <3>2. CASE \A q \in Proxies : ~WritesOn(q, k)
      BY <1>1, <1>2, <1>3, <2>1, <2>4, <3>2 DEF Agree
    <3>3. CASE \E q \in Proxies : WritesOn(q, k)
      <4>1. PICK q \in Proxies : WritesOn(q, k)
        BY <3>3
      <4>2. sess[q].pc # "recv" /\ IsWrite(sess[q].op) /\ sess[q].op \in Ops /\ sess[q].key = k
        BY <4>1 DEF WritesOn, Writing, Busy, IInv, SessionInv, WellFormed
      <4>3. sess[q].op = "put" /\ sess[q].val # None
        BY <1>1, <2>4, <3>1, <4>2 DEF OutageInv, SessionOK, Ops, IsWrite
      <4>4. db[m][k] = sess[q].val
        BY <2>1, <2>2, <4>1, <4>2, <4>3 DEF DataInv, WriteOK, RowsFit, Written
      <4> QED BY <2>1, <4>3, <4>4
    <3> QED BY <3>2, <3>3
  <2> QED BY <2>3, <2>4
<1>6. \A n \in UpHome(k)' : Offers(n, k)' \subseteq legal'[k]
  BY <1>1, <1>3 DEF SameRows, NothingNew
<1> QED BY <1>4, <1>5, <1>6 DEF RowsOK

(* A write that goes on as it was.                                         *)
StillWrites(q) ==
    /\ sess'[q].op = sess[q].op /\ sess'[q].key = sess[q].key /\ sess'[q].val = sess[q].val
    /\ Acknowledged(sess[q])' => Acknowledged(sess[q])
    /\ KeepsPending(q)

LEMMA WriteKept ==
    ASSUME IInv, OutageInv, DataInv, NoneEnters, NEW q \in Proxies,
           WritesOn(q, sess[q].key)' =>
               WritesOn(q, sess[q].key) /\ StillWrites(q) /\ SameRows(sess[q].key)
    PROVE  WriteOK(q)'
<1> DEFINE s == sess[q]
           k == sess[q].key
<1> SUFFICES ASSUME WritesOn(q, s.key)'
             PROVE  /\ RowsFit(s)'
                    /\ (Written(s) \in legal[s.key])'
                    /\ (s.op = "create" /\ Acknowledged(s))' =>
                          \A n \in Home(k) :
                              db'[n][k] = IF n \in Pending(s)' THEN None ELSE s.val
  BY DEF WriteOK, StillWrites
<1>1. /\ WritesOn(q, k) /\ SameRows(k)
      /\ s'.op = s.op /\ s'.key = k /\ s'.val = s.val
      /\ Acknowledged(s)' => Acknowledged(s)
      /\ KeepsPending(q)
  BY DEF StillWrites
<1>2. /\ RowsFit(s) /\ Written(s) \in legal[k]
      /\ s.op = "create" /\ Acknowledged(s) =>
            \A n \in Home(k) : db[n][k] = IF n \in Pending(s) THEN None ELSE s.val
  BY <1>1 DEF DataInv, WriteOK
<1>3. /\ UpHome(k)' \subseteq UpHome(k) /\ Home(k) \subseteq Nodes
      /\ \A n \in UpHome(k)' : n \in Nodes /\ db'[n][k] = db[n][k]
                               /\ (n \in Pending(s)' <=> n \in Pending(s))
  BY <1>1 DEF UpHome, Home, NoneEnters, SameRows, NothingNew, KeepsPending
<1>4. RowsFit(s)'
  <2> SUFFICES ASSUME NEW m \in UpHome(k)', NEW n \in UpHome(k)'
               PROVE  /\ (m \in Pending(s)' <=> n \in Pending(s)') => db'[m][k] = db'[n][k]
                      /\ m \notin Pending(s)' /\ n \in Pending(s)' =>
                            db'[m][k] = RowAfter(s.op, db'[n][k], s.val)
                      /\ m \notin Pending(s)' /\ s.op # "create" => db'[m][k] = Written(s)'
    BY <1>1 DEF RowsFit, RowAfter
  <2>1. Written(s)' = Written(s)
    BY <1>1 DEF Written
  <2> QED BY <1>1, <1>2, <1>3, <2>1 DEF RowsFit
<1>5. (Written(s) \in legal[s.key])'
  BY <1>1, <1>2 DEF Written, SameRows
<1>6. ASSUME s.op = "create", Acknowledged(s)'
      PROVE  \A n \in Home(k) : db'[n][k] = IF n \in Pending(s)' THEN None ELSE s.val
  <2>1. \A n \in Nodes : ~Troubled(n)
    BY <1>1, <1>6 DEF OutageInv, SessionOK, WritesOn, Writing, Busy
  <2>2. \A n \in Nodes : status'[n] = "UP"
    BY <2>1 DEF NoneEnters, Troubled
  <2> QED BY <1>1, <1>2, <1>3, <1>6, <2>2 DEF KeepsPending, SameRows, NothingNew
<1> QED BY <1>1, <1>4, <1>5, <1>6

LEMMA WritesKept ==
    ASSUME IInv, OutageInv, DataInv, NoneEnters, \A k \in Keys : SameRows(k),
           \A q \in Proxies : \A k : /\ WritesOn(q, k)' <=> WritesOn(q, k)
                                     /\ WritesOn(q, k) => StillWrites(q)
    PROVE  (\A k \in Keys : RowsOK(k)') /\ \A q \in Proxies : WriteOK(q)'
<1>1. ASSUME NEW k \in Keys PROVE RowsOK(k)'
  <2>1. SameWriters(k)
    BY DEF SameWriters, StillWrites
  <2> QED BY <2>1, RowsKept
<1>2. ASSUME NEW q \in Proxies PROVE WriteOK(q)'
  <2>1. ASSUME WritesOn(q, sess[q].key)'
        PROVE  WritesOn(q, sess[q].key) /\ StillWrites(q) /\ SameRows(sess[q].key)
    <3>1. PICK k : k = sess'[q].key
      OBVIOUS
    <3>2. WritesOn(q, k)'
      BY <2>1, <3>1 DEF WritesOn
    <3>3. WritesOn(q, k)
      BY <3>2
    <3>4. sess[q].key = k /\ k \in Keys
      BY <3>3 DEF WritesOn, Writing, Busy, IInv, SessionInv, WellFormed
    <3>5. WritesOn(q, sess[q].key) /\ StillWrites(q) /\ SameRows(sess[q].key)
      BY <3>3, <3>4
    <3> QED BY <3>5
  <2> QED BY <2>1, WriteKept
<1> QED BY <1>1, <1>2

(* What the history records of a step of p: whoever is busy may be given   *)
(* what is legal now.                                                      *)
Sees(q) == seen[q] \subseteq seen'[q] /\ legal'[sess[q].key] \subseteq seen'[q]

LEMMA HistoryFacts ==
    ASSUME IInv, DataInv, NEW p \in Proxies, Busy(p), Unmoved(p), History(p)
    PROVE  /\ \A q \in Proxies : Busy(q)' => Busy(q) /\ Sees(q)
           /\ legal'[sess[p].key] = LegalAfter(p)
           /\ \A k \in Keys : k # sess[p].key => legal'[k] = legal[k]
<1> DEFINE x == sess[p].key
<1>1. x \in Keys /\ legal \in [Keys -> SUBSET Rows]
  BY DEF Busy, IInv, TypeOK, SessionInv, WellFormed
<1>2. legal' = [legal EXCEPT ![x] = LegalAfter(p)]
  BY DEF History
<1>3. legal'[x] = LegalAfter(p) /\ \A k \in Keys : k # x => legal'[k] = legal[k]
  BY <1>1, <1>2
<1>4. ASSUME NEW q \in Proxies, Busy(q)' PROVE Busy(q) /\ Sees(q)
  <2>1. Busy(q)
    BY <1>4 DEF Busy, Unmoved
  <2>2. sess[q].key \in Keys /\ legal[sess[q].key] \subseteq seen[q]
    BY <2>1 DEF Busy, IInv, SessionInv, WellFormed, DataInv, ReadOK
  <2>3. seen'[q] = IF sess[q].key = x THEN seen[q] \union LegalAfter(p) ELSE seen[q]
    BY <1>4 DEF History, Busy
  <2> QED BY <1>3, <2>1, <2>2, <2>3 DEF Sees
<1> QED BY <1>3, <1>4

(* Nothing happens to a request that makes its answer wrong.               *)
LEMMA ReadKept ==
    ASSUME DataInv, NEW q \in Proxies,
           Busy(q)' =>
              /\ Busy(q) /\ Sees(q)
              /\ sess'[q].op = sess[q].op /\ sess'[q].key = sess[q].key
              /\ sess[q].op = "get" =>
                    /\ \A n \in Home(sess[q].key) :
                           Offers(n, sess[q].key)' \subseteq
                               Offers(n, sess[q].key) \union legal'[sess[q].key]
                    /\ \A n \in Home(sess[q].key) : n \in Ahead(sess'[q]) =>
                           \/ n \in Ahead(sess[q])
                           \/ Offers(n, sess[q].key) \subseteq legal'[sess[q].key]
                    /\ sess'[q].pc \in {"fill", "reply"} =>
                           \/ sess[q].pc \in {"fill", "reply"} /\ sess'[q].val = sess[q].val
                           \/ sess'[q].val \in seen[q]
    PROVE  ReadOK(q)'
<1> DEFINE k == sess[q].key
<1>1. SUFFICES ASSUME Busy(q)' PROVE ReadOK(q)'
  BY DEF ReadOK
<1>2. /\ Busy(q) /\ Sees(q) /\ sess'[q].key = k /\ sess'[q].op = sess[q].op
      /\ legal'[k] \subseteq seen'[q] /\ seen[q] \subseteq seen'[q]
  BY <1>1 DEF Sees
<1>3. ASSUME sess[q].op = "get", NEW n \in Home(k), n \in Ahead(sess'[q])
      PROVE  Offers(n, k)' \subseteq seen'[q]
  <2>1. /\ Offers(n, k)' \subseteq Offers(n, k) \union legal'[k]
        /\ n \in Ahead(sess[q]) \/ Offers(n, k) \subseteq legal'[k]
    BY <1>1, <1>3
  <2>2. n \in Ahead(sess[q]) => Offers(n, k) \subseteq seen[q]
    BY <1>2, <1>3 DEF DataInv, ReadOK
  <2> QED BY <1>2, <2>1, <2>2
<1>4. ASSUME sess[q].op = "get", sess'[q].pc \in {"fill", "reply"}
      PROVE  sess'[q].val \in seen'[q]
  <2>1. sess[q].pc \in {"fill", "reply"} => sess[q].val \in seen[q]
    BY <1>2, <1>4 DEF DataInv, ReadOK
  <2> QED BY <1>1, <1>2, <1>4, <2>1
<1> QED BY <1>2, <1>3, <1>4 DEF ReadOK

LEMMA UnmovedRead ==
    ASSUME DataInv, NEW q \in Proxies, sess'[q] = sess[q], Busy(q) => Sees(q),
           \A n \in Home(sess[q].key) :
                Offers(n, sess[q].key)' \subseteq Offers(n, sess[q].key) \union legal'[sess[q].key]
    PROVE  ReadOK(q)'
BY ReadKept DEF Busy

LEMMA UnmovedWrite ==
    ASSUME NEW q \in Proxies, sess'[q] = sess[q]
    PROVE  \A k : /\ WritesOn(q, k)' <=> WritesOn(q, k)
                  /\ WritesOn(q, k) => StillWrites(q)
<1>1. \A k : WritesOn(q, k)' <=> WritesOn(q, k)
  BY DEF WritesOn, Writing, Busy
<1>2. Pending(sess[q])' = Pending(sess[q]) /\ (Acknowledged(sess[q])' <=> Acknowledged(sess[q]))
  BY DEF Pending, Acknowledged
<1>3. ASSUME NEW k, WritesOn(q, k) PROVE StillWrites(q)
  BY <1>2, <1>3 DEF StillWrites, KeepsPending
<1> QED BY <1>1, <1>3

(* A step of p that leaves every row and what p has still to write as they *)
(* are.                                                                    *)
LEMMA LightStep ==
    ASSUME IInv, OutageInv, DataInv, NEW p \in Proxies, Busy(p), Unmoved(p), History(p),
           \A k \in Keys : NothingNew(k),
           LegalAfter(p) = legal[sess[p].key], NoneEnters,
           \A k : /\ WritesOn(p, k)' <=> WritesOn(p, k)
                  /\ WritesOn(p, k) =>
                        /\ sess'[p].op = sess[p].op /\ sess'[p].key = sess[p].key
                        /\ sess'[p].val = sess[p].val
                        /\ Acknowledged(sess[p])' => Acknowledged(sess[p])
                        /\ KeepsPending(p),
           Busy(p)' =>
              /\ sess'[p].op = sess[p].op /\ sess'[p].key = sess[p].key
              /\ sess[p].op = "get" =>
                    /\ \A n \in Home(sess[p].key) : n \in Ahead(sess'[p]) =>
                           \/ n \in Ahead(sess[p])
                           \/ Offers(n, sess[p].key) \subseteq legal'[sess[p].key]
                    /\ sess'[p].pc \in {"fill", "reply"} =>
                           \/ sess[p].pc \in {"fill", "reply"} /\ sess'[p].val = sess[p].val
                           \/ sess'[p].val \in seen[p]
    PROVE  DataInv'
<1>1. \A q \in Proxies : Busy(q)' => Busy(q) /\ Sees(q)
  BY HistoryFacts
<1>2. \A k \in Keys : SameRows(k)
  BY HistoryFacts DEF SameRows
<1>3. ASSUME NEW q \in Proxies
      PROVE  \A k : /\ WritesOn(q, k)' <=> WritesOn(q, k)
                    /\ WritesOn(q, k) => StillWrites(q)
  <2>1. CASE q = p
    <3>1. ASSUME NEW k, WritesOn(p, k) PROVE StillWrites(p)
      BY <3>1 DEF StillWrites
    <3> QED BY <2>1, <3>1
  <2>2. CASE q # p
    <3>1. sess'[q] = sess[q]
      BY <2>2 DEF Unmoved
    <3> QED BY <3>1, UnmovedWrite
  <2> QED BY <2>1, <2>2
<1>4. (\A k \in Keys : RowsOK(k)') /\ \A q \in Proxies : WriteOK(q)'
  BY <1>2, <1>3, WritesKept
<1>5. ASSUME NEW q \in Proxies PROVE ReadOK(q)'
  <2>0. Busy(q) => \A n \in Home(sess[q].key) :
                      Offers(n, sess[q].key)' \subseteq Offers(n, sess[q].key)
    <3> DEFINE k == sess[q].key
    <3>1. Busy(q) => NothingNew(k)
      BY DEF Busy, IInv, SessionInv, WellFormed
    <3>2. Home(k) \subseteq Nodes
      BY DEF Home
    <3> HIDE DEF k
    <3>3. NothingNew(k) => \A n \in Home(k) : Offers(n, k)' \subseteq Offers(n, k)
      BY <3>2 DEF NothingNew
    <3> QED BY <3>1, <3>3 DEF k
  <2>1. CASE q = p
    BY <1>1, <2>0, <2>1, ReadKept
  <2>2. CASE q # p
    <3>1. sess'[q] = sess[q]
      BY <2>2 DEF Unmoved
    <3>2. Busy(q)' <=> Busy(q)
      BY <3>1 DEF Busy
    <3> QED BY <1>1, <2>0, <3>1, <3>2, ReadKept
  <2> QED BY <2>1, <2>2
<1> QED BY <1>4, <1>5 DEF DataInv

LEMMA OneWriter ==
    ASSUME CalmEnvironment, OutageInv, NEW p \in Proxies, Writing(p),
           NEW q \in Proxies, q # p
    PROVE  ~Writing(q) /\ \A k : ~WritesOn(q, k)
BY DEF CalmEnvironment, OutageInv, WritesOn

(* A step of the writer is nothing to the keys that it does not write.     *)
LEMMA OtherKeys ==
    ASSUME CalmEnvironment, OutageInv, NEW p \in Proxies, Writing(p), Unmoved(p),
           NEW k, ~WritesOn(p, k), ~WritesOn(p, k)'
    PROVE  SameWriters(k)
<1>1. ASSUME NEW q \in Proxies, q # p PROVE ~WritesOn(q, k) /\ ~WritesOn(q, k)'
  <2>1. ~Writing(q) /\ sess'[q] = sess[q]
    BY <1>1, OneWriter DEF Unmoved
  <2> QED BY <2>1 DEF WritesOn, Writing, Busy
<1> QED BY <1>1 DEF SameWriters

LEMMA OtherWrites ==
    ASSUME CalmEnvironment, OutageInv, NEW p \in Proxies, Writing(p), Unmoved(p),
           NEW q \in Proxies, q # p
    PROVE  WriteOK(q)'
<1>1. ~Writing(q) /\ sess'[q] = sess[q]
  BY OneWriter DEF Unmoved
<1>2. ~Writing(q)'
  BY <1>1 DEF Writing, Busy
<1> QED BY <1>2 DEF WriteOK, WritesOn

LEMMA SameBackends ==
    ASSUME UNCHANGED <<db, cached>>
    PROVE  \A k \in Keys : NothingNew(k)
BY DEF NothingNew, Offers

LEMMA SameStatus ==
    ASSUME UNCHANGED status
    PROVE  NoneEnters
BY DEF NoneEnters

LEMMA ConnectData ==
    ASSUME IInv, OutageInv, DataInv, NEW p \in Proxies, Connect(p), History(p)
    PROVE  DataInv'
<1> DEFINE s == sess[p]
           n == sess'[p].cur
<1>1. /\ s.pc = "connect" /\ UNCHANGED <<status, db, cached>> /\ s.todo \in SUBSET Nodes /\ n \in s.todo
      /\ sess'[p].pc \in {"exec", "mark"}
      /\ sess'[p].todo = s.todo \ {n} /\ sess'[p].op = s.op /\ sess'[p].key = s.key
      /\ sess'[p].val = s.val /\ sess'[p].best = s.best /\ Unmoved(p)
  BY ConnectFields DEF SameRequest
<1>2. Busy(p) /\ Busy(p)' /\ LegalAfter(p) = legal[s.key] /\ NoneEnters
      /\ \A k \in Keys : NothingNew(k)
  BY <1>1, SameStatus, SameBackends DEF Busy, LegalAfter
<1>3. KeepsPending(p)
  <2> HIDE DEF n
  <2> QED BY <1>1 DEF KeepsPending, Pending, n
<1>4. \A k : WritesOn(p, k)' <=> WritesOn(p, k)
  BY <1>1 DEF WritesOn, Writing, Busy
<1>5. Acknowledged(s)' => Acknowledged(s)
  BY <1>1 DEF Acknowledged
<1> HIDE DEF n
<1>6. Ahead(sess'[p]) \subseteq Ahead(s)
  BY <1>1 DEF n, Ahead
<1> QED BY <1>1, <1>2, <1>3, <1>4, <1>5, <1>6, LightStep

LEMMA ReplyData ==
    ASSUME IInv, OutageInv, DataInv, NEW p \in Proxies, Reply(p), History(p)
    PROVE  DataInv'
<1> DEFINE s == sess[p]
<1>1. /\ s.pc = "reply" /\ UNCHANGED <<status, db, cached>> /\ Unmoved(p)
      /\ ~IsWrite(s.op) => sess'[p] = Fresh
      /\ IsWrite(s.op) =>
            /\ sess'[p].pc = "connect" /\ sess'[p].todo = s.todo
            /\ sess'[p].op = s.op /\ sess'[p].key = s.key /\ sess'[p].val = s.val
            /\ sess'[p].best = IF s.best = None \/ s.code \in Success THEN s.code ELSE s.best
  BY ReplyFields DEF SameRequest
<1>2. Busy(p) /\ LegalAfter(p) = legal[s.key] /\ NoneEnters
      /\ \A k \in Keys : NothingNew(k)
  BY <1>1, SameStatus, SameBackends DEF Busy, LegalAfter
<1>3. CASE ~IsWrite(s.op)
  <2>1. ~Busy(p)' /\ \A k : ~WritesOn(p, k) /\ ~WritesOn(p, k)'
    BY <1>1, <1>3 DEF Busy, Fresh, WritesOn, Writing
  <2> QED BY <1>1, <1>2, <2>1, LightStep
<1>4. CASE IsWrite(s.op)
  <2>1. KeepsPending(p)
    BY <1>1, <1>4 DEF KeepsPending, Pending
  <2>2. \A k : WritesOn(p, k)' <=> WritesOn(p, k)
    BY <1>1, <1>4 DEF WritesOn, Writing, Busy
  <2>3. Acknowledged(s)' => Acknowledged(s)
    BY <1>1, <1>4 DEF Acknowledged
  <2> QED BY <1>1, <1>2, <1>4, <2>1, <2>2, <2>3, LightStep DEF IsWrite
<1> QED BY <1>3, <1>4

LEMMA MarkingData ==
    ASSUME IInv, CalmEnvironment, OutageInv, DataInv, NEW p \in Proxies, History(p),
           Broken(p) \/ MarkDownStatus(p) \/ MarkDownRing(p)
    PROVE  DataInv'
<1> DEFINE s == sess[p]
           n == s.cur
<1>1. /\ Marking(p) /\ n \in Nodes /\ SessionOK(s)
  BY DEF OutageInv, Broken, MarkDownStatus, MarkDownRing, At, Marking, IInv, SessionInv, WellFormed
<1>2. Broken(p) => ~IsWrite(s.op)
  BY <1>1 DEF Broken, At, SessionOK, IsWrite
<1>3. /\ sess'[p].op = s.op /\ sess'[p].key = s.key /\ sess'[p].todo = s.todo
      /\ sess'[p].best = s.best /\ UNCHANGED <<db, cached>> /\ Unmoved(p)
      /\ IsWrite(s.op) => sess'[p].val = s.val
      /\ \/ s.pc = "broken" /\ sess'[p].pc = "mark" /\ UNCHANGED status /\ ~IsWrite(s.op)
         \/ s.pc = "mark" /\ sess'[p].pc = "unring" /\ status' = [status EXCEPT ![n] = "DOWN"]
         \/ s.pc = "unring" /\ sess'[p].pc = "connect" /\ UNCHANGED status
  BY <1>2, BrokenFields, MarkFields, UnringFields DEF SameRequest
<1>4. Busy(p) /\ Busy(p)' /\ LegalAfter(p) = legal[s.key] /\ \A k \in Keys : NothingNew(k)
  BY <1>3, SameBackends DEF Busy, LegalAfter
<1>5. Troubled(n) /\ status \in [Nodes -> BackendStatus]
  BY <1>1 DEF Troubled, IInv, TypeOK, RouterTypeOK
<1>6. NoneEnters
  BY <1>3, <1>5 DEF NoneEnters
<1>7. \A k : WritesOn(p, k)' <=> WritesOn(p, k)
  BY <1>3 DEF WritesOn, Writing, Busy
<1>8. Acknowledged(s)' => Acknowledged(s)
  BY <1>3 DEF Acknowledged
<1>9. ASSUME IsWrite(s.op) PROVE KeepsPending(p)
  BY <1>1, <1>3, <1>5, <1>9 DEF KeepsPending, Pending
<1>10. \A k : WritesOn(p, k) => IsWrite(s.op)
  BY DEF WritesOn, Writing
<1>11. Ahead(sess'[p]) \subseteq Ahead(s)
  BY <1>3 DEF Ahead
<1> QED BY <1>3, <1>4, <1>6, <1>7, <1>8, <1>9, <1>10, <1>11, LightStep

(* A write gets its candidates: all the replicas at home that are UP, and  *)
(* they agree, there being no other write.                                 *)
LEMMA RouteData ==
    ASSUME IInv, CalmEnvironment, OutageInv, DataInv, NEW p \in Proxies, Route(p), History(p)
    PROVE  DataInv'
<1> DEFINE s == sess[p]
           S == Candidates(s)
<1>0. PICK x : x = s.key
  OBVIOUS
<1>1. /\ s.pc = "route" /\ UNCHANGED <<status, db, cached>> /\ Unmoved(p) /\ s.best = None
      /\ x \in Keys /\ s.key = x
      /\ \/ sess'[p] = Fresh
         \/ /\ sess'[p].pc = "connect" /\ sess'[p].todo = S /\ sess'[p].op = s.op
            /\ sess'[p].key = x /\ sess'[p].val = s.val /\ sess'[p].best = s.best
  BY <1>0, RouteFields DEF SameRequest, IInv, SessionInv, WellFormed, OutageInv, SessionOK
<1>2. Busy(p) /\ NoneEnters /\ (\A k : ~WritesOn(p, k)) /\ \A k \in Keys : NothingNew(k)
  BY <1>1, SameStatus, SameBackends DEF Busy, WritesOn
<1>3. CASE sess'[p] = Fresh
  <2>1. ~Busy(p)' /\ \A k : ~WritesOn(p, k)'
    BY <1>3 DEF Busy, Fresh, WritesOn, Writing
  <2>2. LegalAfter(p) = legal[x]
    BY <1>1, <2>1 DEF LegalAfter
  <2> QED BY <1>1, <1>2, <2>1, <2>2, LightStep
<1>4. CASE sess'[p] # Fresh /\ ~IsWrite(s.op)
  <2>1. /\ sess'[p].pc = "connect" /\ sess'[p].todo = S /\ sess'[p].op = s.op
        /\ sess'[p].key = x
    BY <1>1, <1>4
  <2>2. \A k : ~WritesOn(p, k)'
    BY <1>4, <2>1 DEF WritesOn, Writing
  <2>3. LegalAfter(p) = legal[x]
    BY <1>1, <1>4 DEF LegalAfter, Writing
  <2>4. \A n \in Home(x) : n \in S => n \in UpHome(x)
    BY <1>4 DEF Candidates, GetReadBackends, UpHome
  <2>5. \A n \in Home(x) : n \in S => Offers(n, x) \subseteq legal'[x]
    BY <1>1, <1>2, <2>3, <2>4, HistoryFacts DEF DataInv, RowsOK
  <2> HIDE DEF S
  <2>6. Ahead(sess'[p]) = S
    BY <2>1 DEF Ahead
  <2> QED BY <1>1, <1>2, <2>1, <2>2, <2>3, <2>5, <2>6, LightStep
<1>5. CASE sess'[p] # Fresh /\ IsWrite(s.op)
  <2>1. /\ sess'[p].pc = "connect" /\ sess'[p].todo = S /\ sess'[p].op = s.op
        /\ sess'[p].key = x /\ sess'[p].val = s.val /\ sess'[p].best = None
    BY <1>1, <1>5
  <2>2. Writing(p) /\ Busy(p)' /\ Written(s)' = Written(s)
    BY <1>2, <1>5, <2>1 DEF Writing, Busy, Written
  <2>3. legal'[x] = legal[x] \union {Written(s)} /\ \A k \in Keys : k # x => legal'[k] = legal[k]
    BY <1>1, <1>2, <2>2, HistoryFacts DEF LegalAfter
  <2>4. \A q \in Proxies : Busy(q)' => Busy(q) /\ Sees(q)
    BY <1>1, <1>2, HistoryFacts
  <2>5. UpHome(x)' = UpHome(x) /\ UpHome(x) \subseteq S /\ Pending(s)' = S
    <3>1. UpHome(x) \subseteq S
      BY <1>1, <1>5, UpOnRing DEF Candidates, UpHome
    <3>2. UpHome(x)' = UpHome(x)
      BY <1>1 DEF UpHome
    <3> QED BY <2>1, <3>1, <3>2 DEF Pending
  <2> HIDE DEF S
  <2>6. \A q \in Proxies : ~WritesOn(q, x)
    BY <1>2, <2>2, OneWriter
  <2>7. \A m, n \in UpHome(x) : db[m][x] = db[n][x]
    BY <1>1, <2>6 DEF DataInv, RowsOK, Agree
  <2>8. WritesOn(p, x)'
    BY <1>5, <2>1 DEF WritesOn, Writing, Busy
  <2>9. RowsOK(x)'
    <3>1. Agree(x)'
      BY <2>8 DEF Agree
    <3>2. MissedPuts(x)'
      BY <2>5, <2>8 DEF MissedPuts
    <3>3. \A n \in UpHome(x)' : Offers(n, x)' \subseteq legal'[x]
      BY <1>1, <2>3, <2>5 DEF DataInv, RowsOK, Offers
    <3> QED BY <3>1, <3>2, <3>3 DEF RowsOK
  <2>10. ASSUME NEW k \in Keys PROVE RowsOK(k)'
    <3>1. CASE k # x
      <4>1. ~WritesOn(p, k)'
        BY <2>1, <3>1 DEF WritesOn
      <4>2. SameRows(k)
        BY <1>2, <2>3, <3>1 DEF SameRows
      <4> QED BY <1>1, <1>2, <2>2, <4>1, <4>2, OtherKeys, RowsKept
    <3> QED BY <2>9, <3>1
  <2>11. WriteOK(p)'
    <3>1. RowsFit(s)'
      <4>1. \A m, n \in UpHome(x)' : /\ m \in Pending(s)' /\ n \in Pending(s)'
                                     /\ db'[m][x] = db'[n][x]
        BY <1>1, <2>5, <2>7
      <4> QED BY <2>1, <4>1 DEF RowsFit
    <3>2. Written(s)' \in legal'[x]
      BY <2>2, <2>3
    <3>3. ~Acknowledged(s)'
      BY <2>1, ProxySessionAssumption DEF Acknowledged, Success, Codes
    <3> QED BY <2>1, <3>1, <3>2, <3>3 DEF WriteOK
  <2>12. ASSUME NEW q \in Proxies PROVE WriteOK(q)'
    BY <1>1, <2>2, <2>11, OtherWrites
  <2>13. ASSUME NEW q \in Proxies PROVE ReadOK(q)'
    <3>1. CASE q = p
      <4>1. s.op # "get"
        BY <1>5 DEF IsWrite
      <4> QED BY <1>1, <2>1, <2>4, <3>1, <4>1, ReadKept
    <3>2. CASE q # p
      <4>1. sess'[q] = sess[q] /\ (Busy(q) => Sees(q))
        BY <1>1, <2>4, <3>2 DEF Unmoved, Busy
      <4> QED BY <1>1, <4>1, UnmovedRead DEF Offers
    <3> QED BY <3>1, <3>2
  <2> QED BY <2>10, <2>12, <2>13 DEF DataInv
<1> QED BY <1>3, <1>4, <1>5

(* The write is over: every replica at home has it.                        *)
LEMMA NothingStale ==
    ASSUME IInv, CalmEnvironment, OutageInv, CacheInv, NEW p \in Proxies, Writing(p),
           sess[p].pc # "forget", NEW n \in Nodes, NEW k \in Keys
    PROVE  cached[n][k] \in {None, db[n][k]}
<1>1. ~Recovering
  BY DEF OutageInv, Calm, CalmEnvironment
<1>2. rm.pc # "forget"
  BY <1>1 DEF Recovering, IInv, CheckerInv
<1>3. ASSUME NEW q \in Proxies, sess[q].pc = "forget" PROVE FALSE
  <2>1. Writing(q) /\ q # p
    BY <1>3 DEF Writing, Busy, IInv, SessionInv, WellFormed
  <2> QED BY <2>1, OneWriter
<1> QED BY <1>2, <1>3 DEF CacheInv, EntryOK, Deleting

LEMMA RespondData ==
    ASSUME IInv, CalmEnvironment, OutageInv, DataInv, CacheInv, NEW p \in Proxies,
           Respond(p), History(p)
    PROVE  DataInv'
<1> DEFINE s == sess[p]
<1>0. PICK x : x = s.key
  OBVIOUS
<1>1. /\ s.pc = "connect" /\ UNCHANGED <<status, db, cached>> /\ Unmoved(p) /\ s.todo = {}
      /\ sess'[p] = Fresh /\ x \in Keys /\ s.key = x
      /\ s.op = "get" => s.best = None
  BY <1>0, RespondFields DEF IInv, SessionInv, WellFormed, OutageInv, SessionOK
<1>2. /\ Busy(p) /\ NoneEnters /\ ~Busy(p)' /\ \A k : ~WritesOn(p, k)'
      /\ \A k \in Keys : NothingNew(k)
  BY <1>1, SameStatus, SameBackends DEF Busy, WritesOn, Writing, Fresh
<1>3. CASE ~IsWrite(s.op)
  <2>1. \A k : ~WritesOn(p, k)
    BY <1>3 DEF WritesOn, Writing
  <2>2. LegalAfter(p) = legal[x]
    BY <1>1, <1>3, ProxySessionAssumption DEF LegalAfter, IsWrite, Success, Codes
  <2> QED BY <1>1, <1>2, <2>1, <2>2, LightStep
<1>4. CASE IsWrite(s.op)
  <2>1. Writing(p) /\ WritesOn(p, x) /\ Pending(s) = {}
    BY <1>1, <1>2, <1>4 DEF Writing, WritesOn, Pending
  <2>2. /\ legal'[x] = IF s.best \in Success THEN {Written(s)} ELSE legal[x]
        /\ \A k \in Keys : k # x => legal'[k] = legal[k]
    BY <1>1, <1>2, HistoryFacts DEF LegalAfter
  <2>3. \A q \in Proxies : Busy(q)' => Busy(q) /\ Sees(q)
    BY <1>1, <1>2, HistoryFacts
  <2>4. RowsFit(s) /\ (s.op = "create" /\ s.best \in Success =>
                          \A n \in Home(x) : db[n][x] = s.val)
    BY <1>1, <2>1 DEF DataInv, WriteOK, Acknowledged
  <2>5. UpHome(x)' = UpHome(x) /\ UpHome(x) \subseteq Home(x)
    BY <1>1 DEF UpHome
  <2>6. \A m, n \in UpHome(x) : db[m][x] = db[n][x]
    BY <1>1, <2>1, <2>4 DEF RowsFit
  <2>7. RowsOK(x)'
    <3>1. Agree(x)'
      BY <1>1, <2>5, <2>6 DEF Agree
    <3>2. \A q \in Proxies : WritesOn(q, x) => Pending(sess[q]) = {}
      BY <2>1, OneWriter
    <3>3. \A m \in UpHome(x), n \in Home(x) \ UpHome(x) : db[m][x] = None => db[n][x] = None
      BY <1>1, <3>2 DEF DataInv, RowsOK, MissedPuts
    <3>4. MissedPuts(x)'
      BY <1>1, <2>5, <3>3 DEF MissedPuts
    <3>5. \A n \in UpHome(x) : Offers(n, x) \subseteq legal'[x]
      <4>1. \A n \in UpHome(x) : Offers(n, x) \subseteq legal[x]
        BY <1>1 DEF DataInv, RowsOK
      <4>2. \A n \in UpHome(x) : s.op # "create" => db[n][x] = Written(s)
        BY <1>1, <2>1, <2>4 DEF RowsFit
      <4>3. \A n \in UpHome(x) : s.best \in Success => db[n][x] = Written(s)
        BY <2>4, <2>5, <4>2 DEF Written
      <4>4. \A n \in UpHome(x) : n \in Nodes /\ cached[n][x] \in {None, db[n][x]}
        BY <1>1, <2>1, NothingStale DEF UpHome, Home
      <4> QED BY <2>2, <4>1, <4>3, <4>4 DEF Offers
    <3>6. \A n \in UpHome(x)' : Offers(n, x)' \subseteq legal'[x]
      BY <1>1, <2>5, <3>5 DEF Offers
    <3> QED BY <3>1, <3>4, <3>6 DEF RowsOK
  <2>8. ASSUME NEW k \in Keys PROVE RowsOK(k)'
    <3>1. CASE k # x
      <4>1. ~WritesOn(p, k)
        BY <1>1, <3>1 DEF WritesOn
      <4>2. SameRows(k)
        BY <1>2, <2>2, <3>1 DEF SameRows
      <4> QED BY <1>1, <1>2, <2>1, <4>1, <4>2, OtherKeys, RowsKept
    <3> QED BY <2>7, <3>1
  <2>9. ASSUME NEW q \in Proxies PROVE WriteOK(q)'
    <3>1. CASE q = p
      BY <1>2, <3>1 DEF WriteOK
    <3> QED BY <1>1, <2>1, <3>1, OtherWrites
  <2>10. ASSUME NEW q \in Proxies PROVE ReadOK(q)'
    <3>1. CASE q = p
      BY <1>2, <3>1, ReadKept
    <3>2. CASE q # p
      <4>1. sess'[q] = sess[q] /\ (Busy(q) => Sees(q))
        BY <1>1, <2>3, <3>2 DEF Unmoved, Busy
      <4> QED BY <1>1, <4>1, UnmovedRead DEF Offers
    <3> QED BY <3>1, <3>2
  <2> QED BY <2>8, <2>9, <2>10 DEF DataInv
<1> QED BY <1>3, <1>4

(* A handler commits: what it makes of its row is what the handlers before *)
(* it made of theirs.                                                      *)
LEMMA CommitData ==
    ASSUME IInv, CalmEnvironment, OutageInv, DataInv, NEW p \in Proxies, CommitWrite(p),
           History(p)
    PROVE  DataInv'
<1> DEFINE s == sess[p]
<1>0. PICK x, c : x = s.key /\ c = s.cur
  OBVIOUS
<1> DEFINE row == db[c][x]
           new == RowAfter(s.op, row, s.val)
<1>1. /\ SessionOK(s) /\ s \in Session /\ s.cur \in Nodes /\ s.key \in Keys /\ s.op \in Ops
      /\ db[s.cur][s.key] \in Rows /\ UNCHANGED <<status, cached>>
  BY AtHandler, CommitFields DEF OutageInv, HandlerStep
<1>2. /\ s.pc = "exec" /\ Unmoved(p) /\ IsWrite(s.op)
      /\ c \in Nodes /\ x \in Keys /\ row \in Rows /\ s.key = x /\ s.cur = c /\ s.op \in Ops
      /\ \A n \in Nodes, k \in Keys : db'[n][k] = IF n = c /\ k = x THEN new ELSE db[n][k]
      /\ sess'[p].op = s.op /\ sess'[p].key = x /\ sess'[p].pc \in {"forget", "reply"}
      /\ sess'[p].cur = c /\ sess'[p].todo = s.todo /\ sess'[p].best = s.best
      /\ sess'[p].code = StatusCode(s.op, row) /\ sess'[p].val = s.val
  BY <1>0, <1>1, CommitFields DEF SameRequest
<1>3. Busy(p) /\ Busy(p)' /\ NoneEnters /\ LegalAfter(p) = legal[x]
  BY <1>1, <1>2, SameStatus DEF Busy, LegalAfter
<1>4. \A n \in Nodes, k \in Keys :
          /\ n # c \/ k # x => Offers(n, k)' = Offers(n, k)
          /\ Offers(n, k)' \subseteq Offers(n, k) \union {db'[n][k]}
  BY <1>1, <1>2 DEF Offers
<1>5. DataInv'
  <2>1. /\ Writing(p) /\ WritesOn(p, x) /\ WritesOn(p, x)' /\ c \notin s.todo
        /\ sess'[p].val = s.val /\ Written(s)' = Written(s)
    BY <1>1, <1>2, <1>3 DEF WritesOn, Writing, Busy, SessionOK, Written
  <2>2. Pending(s) = s.todo \union {c} /\ Pending(s)' = s.todo
    BY <1>2 DEF Pending
  <2>3. \A k \in Keys : legal'[k] = legal[k]
    BY <1>2, <1>3, HistoryFacts
  <2>4. \A q \in Proxies : Busy(q)' => Busy(q) /\ Sees(q)
    BY <1>2, <1>3, HistoryFacts
  <2>5. UpHome(x)' = UpHome(x) /\ UpHome(x) \subseteq Home(x) /\ Home(x) \subseteq Nodes
    BY <1>1 DEF UpHome, Home
  <2>6. /\ RowsFit(s) /\ Written(s) \in legal[x]
        /\ s.op = "create" /\ Acknowledged(s) =>
              \A n \in Home(x) : db[n][x] = IF n \in Pending(s) THEN None ELSE s.val
    BY <1>2, <2>1 DEF DataInv, WriteOK
  <2>7. /\ db'[c][x] = new
        /\ \A n \in Nodes : n # c => db'[n][x] = db[n][x]
    BY <1>2
  <2>8. /\ s.op # "create" => new = Written(s)
        /\ s.op = "create" => new = IF row = None THEN s.val ELSE row
    BY <1>2 DEF RowAfter, Written, Ops, IsWrite
  <2>9. ASSUME s.op \in {"create", "delete"} PROVE c \in UpHome(x) /\ UpHome(x) = Home(x)
    <3>1. c \in Home(x) /\ \A n \in Nodes : ~Troubled(n)
      BY <1>1, <1>2, <2>9 DEF AtBackend, SessionOK
    <3> QED BY <3>1, <2>5 DEF UpHome, Troubled
  <2>10. s.op = "put" => s.val # None
    BY <1>1, <1>2 DEF SessionOK
  <2>11. RowsOK(x)
    BY <1>2 DEF DataInv
  <2> HIDE DEF new, row
  <2>12. RowsOK(x)'
    <3>1. Agree(x)'
      BY <2>1 DEF Agree
    <3>2. MissedPuts(x)'
      <4> SUFFICES ASSUME NEW m \in UpHome(x), NEW n \in Home(x) \ UpHome(x),
                          m \notin s.todo, db'[m][x] = None
                   PROVE  db'[n][x] = None
        BY <2>1, <2>2, <2>5 DEF MissedPuts
      <4>1. s.op = "put"
        BY <1>2, <2>9 DEF Ops, IsWrite
      <4>2. db'[m][x] = Written(s)
        <5>1. CASE m = c
          BY <2>7, <2>8, <4>1, <5>1
        <5>2. CASE m # c
          <6>1. m \notin Pending(s)
            BY <2>2, <5>2
          <6> QED BY <1>2, <2>5, <2>6, <2>7, <4>1, <5>2, <6>1 DEF RowsFit
        <5> QED BY <5>1, <5>2
      <4> QED BY <2>10, <4>1, <4>2 DEF Written
    <3>3. ASSUME NEW n \in UpHome(x)' PROVE Offers(n, x)' \subseteq legal'[x]
      <4>1. n \in UpHome(x) /\ n \in Nodes /\ Offers(n, x) \subseteq legal'[x]
        BY <1>2, <2>3, <2>5, <2>11 DEF RowsOK
      <4>2. CASE n # c
        BY <1>2, <1>4, <4>1, <4>2
      <4>3. CASE n = c
        <5>1. row \in legal'[x]
          BY <4>1, <4>3 DEF Offers, row
        <5>2. new \in legal'[x]
          BY <1>2, <2>3, <2>6, <2>8, <5>1 DEF Written
        <5> QED BY <1>2, <1>4, <2>7, <4>1, <4>3, <5>2
      <4> QED BY <4>2, <4>3
    <3> QED BY <3>1, <3>2, <3>3 DEF RowsOK
  <2>13. ASSUME NEW k \in Keys PROVE RowsOK(k)'
    <3>1. CASE k # x
      <4>1. ~WritesOn(p, k) /\ ~WritesOn(p, k)'
        BY <1>2, <3>1 DEF WritesOn
      <4>2. SameRows(k)
        BY <1>2, <1>4, <2>3, <3>1 DEF SameRows, NothingNew
      <4> QED BY <1>2, <1>3, <2>1, <4>1, <4>2, OtherKeys, RowsKept
    <3> QED BY <2>12, <3>1
  <2>14. WriteOK(p)'
    <3>1. RowsFit(s)'
      <4> SUFFICES ASSUME NEW m \in UpHome(x), NEW n \in UpHome(x)
                   PROVE  /\ (m \in s.todo <=> n \in s.todo) => db'[m][x] = db'[n][x]
                          /\ m \notin s.todo /\ n \in s.todo =>
                                db'[m][x] = RowAfter(s.op, db'[n][x], s.val)
                          /\ m \notin s.todo /\ s.op # "create" => db'[m][x] = Written(s)
        BY <1>2, <2>1, <2>2, <2>5 DEF RowsFit, RowAfter
      <4>1. \A a, b \in UpHome(x) :
                /\ (a \in Pending(s) <=> b \in Pending(s)) => db[a][x] = db[b][x]
                /\ a \notin Pending(s) /\ b \in Pending(s) =>
                      db[a][x] = RowAfter(s.op, db[b][x], s.val)
                /\ a \notin Pending(s) /\ s.op # "create" => db[a][x] = Written(s)
        BY <1>2, <2>6 DEF RowsFit
      <4>2. c \in UpHome(x) =>
               \A b \in UpHome(x) :
                   /\ b \in s.todo => db'[c][x] = RowAfter(s.op, db'[b][x], s.val)
                   /\ b \notin s.todo => db'[b][x] = db'[c][x]
        <5> SUFFICES ASSUME c \in UpHome(x), NEW b \in UpHome(x)
                     PROVE  /\ b \in s.todo => db'[c][x] = RowAfter(s.op, db'[b][x], s.val)
                            /\ b \notin s.todo => db'[b][x] = db'[c][x]
          OBVIOUS
        <5>1. CASE b \in s.todo
          <6>1. b # c /\ db[b][x] = db[c][x] /\ db'[b][x] = db[b][x]
            BY <2>1, <2>2, <2>5, <2>7, <4>1, <5>1
          <6> QED BY <2>7, <5>1, <6>1 DEF new, row
        <5>2. CASE b \notin s.todo /\ b # c
          <6>1. db[b][x] = RowAfter(s.op, db[c][x], s.val) /\ db'[b][x] = db[b][x]
            BY <2>1, <2>2, <2>5, <2>7, <4>1, <5>2
          <6> QED BY <2>7, <5>2, <6>1 DEF new, row
        <5> QED BY <2>1, <5>1, <5>2
      <4>3. \A a \in UpHome(x) : a # c => (a \in Pending(s) <=> a \in s.todo)
        BY <2>2
      <4>4. \A a \in UpHome(x) : a \in Nodes
        BY <2>5
      <4>5. CASE m = c
        BY <2>1, <2>7, <2>8, <4>2, <4>5
      <4>6. CASE n = c /\ m # c
        BY <2>1, <2>7, <2>8, <4>1, <4>2, <4>3, <4>4, <4>6
      <4>7. CASE m # c /\ n # c
        BY <2>7, <4>1, <4>3, <4>4, <4>7
      <4> QED BY <4>5, <4>6, <4>7
    <3>2. Written(s)' \in legal'[x]
      BY <1>2, <2>1, <2>3, <2>6
    <3>3. ASSUME s.op = "create", Acknowledged(s)'
          PROVE  \A n \in Home(x) : db'[n][x] = IF n \in s.todo THEN None ELSE s.val
      <4>1. s.best \in Success \/ row = None
        BY <1>2, <3>3 DEF Acknowledged, StatusCode, Success, row
      <4>2. c \in UpHome(x) /\ UpHome(x) = Home(x)
        BY <3>3, <2>9
      <4>4. CASE s.best \in Success
        <5>1. \A n \in Home(x) : db[n][x] = IF n \in Pending(s) THEN None ELSE s.val
          BY <2>6, <3>3, <4>4 DEF Acknowledged
        <5>2. row = None /\ new = s.val
          BY <2>2, <2>8, <3>3, <4>2, <5>1 DEF row
        <5> QED BY <2>1, <2>2, <2>5, <2>7, <5>1, <5>2
      <4>5. CASE row = None
        <5>2. new = s.val
          BY <2>8, <3>3, <4>5
        <5>3. ASSUME NEW n \in Home(x), n # c
              PROVE  db[n][x] = IF n \in s.todo THEN None ELSE s.val
          <6>1. n \in UpHome(x) /\ db[c][x] = None /\ c \in Pending(s)
            BY <2>2, <4>2, <4>5, <5>3 DEF row
          <6>2. CASE n \in s.todo
            <7>1. n \in Pending(s)
              BY <2>2, <6>2
            <7> QED BY <1>2, <2>6, <4>2, <6>1, <6>2, <7>1 DEF RowsFit
          <6>3. CASE n \notin s.todo
            <7>1. n \notin Pending(s)
              BY <2>2, <5>3, <6>3
            <7>2. db[n][x] = RowAfter(s.op, db[c][x], s.val)
              BY <1>2, <2>6, <4>2, <6>1, <7>1 DEF RowsFit
            <7> QED BY <3>3, <6>1, <6>3, <7>2 DEF RowAfter
          <6> QED BY <6>2, <6>3
        <5> QED BY <2>1, <2>5, <2>7, <5>2, <5>3
      <4> QED BY <4>1, <4>4, <4>5
    <3> QED BY <1>2, <2>1, <2>2, <3>1, <3>2, <3>3 DEF WriteOK
  <2>15. ASSUME NEW q \in Proxies PROVE WriteOK(q)'
    BY <1>2, <2>1, <2>14, OtherWrites
  <2>16. ASSUME NEW q \in Proxies PROVE ReadOK(q)'
    <3>1. CASE q = p
      <4>1. s.op # "get"
        BY <1>2 DEF IsWrite
      <4> QED BY <1>2, <1>3, <2>4, <3>1, <4>1, ReadKept
    <3>2. CASE q # p
      <4>1. sess'[q] = sess[q] /\ (Busy(q) => Sees(q))
        BY <1>2, <2>4, <3>2 DEF Unmoved, Busy
      <4>2. CASE ~Busy(q)
        BY <4>1, <4>2 DEF ReadOK, Busy
      <4>3. CASE Busy(q)
        <5>1. sess[q].key \in Keys
          BY <4>3 DEF Busy, IInv, SessionInv, WellFormed
        <5>2. new = row \/ new \in legal'[x]
          BY <1>2, <2>3, <2>6, <2>8 DEF Written
        <5>3. \A n \in Nodes : Offers(n, x)' \subseteq Offers(n, x) \union legal'[x]
          <6>1. Offers(c, x)' \subseteq Offers(c, x) \union {new}
            BY <1>2, <1>4, <2>7
          <6>2. row \in Offers(c, x)
            BY DEF Offers, row
          <6> QED BY <1>2, <1>4, <5>2, <6>1, <6>2
        <5>4. PICK k \in Keys : k = sess[q].key /\ k = sess'[q].key /\ Home(k) \subseteq Nodes
          BY <4>1, <5>1 DEF Home
        <5>5. k # x => \A n \in Nodes : Offers(n, k)' = Offers(n, k)
          BY <1>4, <5>4
        <5>6. \A n \in Home(k) : Offers(n, k)' \subseteq Offers(n, k) \union legal'[k]
          BY <5>3, <5>4, <5>5
        <5> QED BY <4>1, <5>4, <5>6, UnmovedRead
      <4> QED BY <4>2, <4>3
    <3> QED BY <3>1, <3>2
  <2> QED BY <2>13, <2>15, <2>16 DEF DataInv
<1> QED BY <1>5

(* The other parts of a handler: the row it reads is one it may give, and  *)
(* what it puts into the cache is what the table holds.                    *)
LEMMA HandlerData ==
    ASSUME IInv, CalmEnvironment, OutageInv, DataInv, CacheInv, NEW p \in Proxies,
           HandlerStep(p), ~CommitWrite(p), History(p)
    PROVE  DataInv'
<1> DEFINE s == sess[p]
<1>0. PICK x, c : x = s.key /\ c = s.cur
  OBVIOUS
<1>1. /\ SessionOK(s) /\ ReadAtHome(s) /\ FillOK(s)
      /\ s.pc \in AtBackend \ {"reply"} /\ UNCHANGED status /\ s.op \in Ops
      /\ s.key = x /\ s.cur = c /\ x \in Keys /\ c \in Nodes
  BY <1>0, AtHandler DEF OutageInv, CacheInv
<1>2. /\ sess'[p].op = s.op /\ sess'[p].key = x /\ sess'[p].cur = c /\ Unmoved(p)
      /\ sess'[p].pc \in AtBackend \ {"exec"} /\ sess'[p].todo = s.todo
      /\ sess'[p].best = s.best /\ (IsWrite(s.op) => sess'[p].val = s.val)
  BY <1>1, HandlerFields DEF SameRequest
<1>3. Busy(p) /\ Busy(p)' /\ NoneEnters /\ LegalAfter(p) = legal[x]
  BY <1>1, <1>2, SameStatus DEF Busy, LegalAfter, AtBackend
<1>4. /\ \A n \in Nodes, k \in Keys :
             db'[n][k] = db[n][k] /\ cached'[n][k] \in {None, cached[n][k], db[n][k]}
      /\ IsWrite(s.op) => s.pc = "forget" /\ sess'[p].code = s.code /\ sess'[p].pc = "reply"
      /\ s.op = "get" /\ sess'[p].pc \in {"fill", "reply"} =>
             \/ s.pc = "fill" /\ sess'[p].val = s.val
             \/ s.pc \in {"exec", "select"} /\ sess'[p].val \in Offers(c, x)
  <2>1. CASE ReadCache(p)
    <3>1. UNCHANGED <<db, cached>> /\ s.op = "get" /\ s.pc = "exec"
      BY <2>1, ReadCacheFields
    <3>2. sess'[p].pc = "select" \/ sess'[p].val \in Offers(c, x)
      BY <1>1, <2>1, ReadCacheFields DEF Offers
    <3> QED BY <3>1, <3>2 DEF IsWrite
  <2>2. CASE SelectRow(p)
    <3>1. UNCHANGED <<db, cached>> /\ s.op = "get" /\ s.pc = "select"
      BY <1>1, <2>2, SelectFields
    <3>2. sess'[p].val \in Offers(c, x)
      BY <1>1, <2>2, SelectFields DEF Offers
    <3> QED BY <3>1, <3>2 DEF IsWrite
  <2>3. CASE FillCache(p)
    <3>1. /\ UNCHANGED db /\ s.op = "get" /\ s.pc = "fill" /\ sess'[p].val = s.val
          /\ CreateKey(c, x, s.val)
      BY <1>1, <2>3, FillFields
    <3>2. s.val = db[c][x]
      BY <1>1, <3>1 DEF FillOK
    <3>3. \A n \in Nodes, k \in Keys : cached'[n][k] \in {cached[n][k], db[n][k]}
      BY <3>1, <3>2, CreateOneEntry
    <3> QED BY <3>1, <3>3 DEF IsWrite
  <2>4. CASE UpdateCache(p)
    <3>1. /\ UNCHANGED db /\ IsWrite(s.op) /\ s.pc = "forget" /\ sess'[p].code = s.code
          /\ sess'[p].pc = "reply"
          /\ IF s.op = "create" THEN CreateKey(c, x, s.val) ELSE DeleteKey(c, x)
      BY <1>1, <2>4, UpdateFields
    <3>2. s.op = "create" => s.val = db[c][x]
      BY <1>1, <3>1 DEF FillOK
    <3>3. CASE s.op = "create"
      <4>1. \A n \in Nodes, k \in Keys : cached'[n][k] \in {cached[n][k], db[n][k]}
        BY <3>1, <3>2, <3>3, CreateOneEntry
      <4> QED BY <3>1, <4>1 DEF IsWrite
    <3>4. CASE s.op # "create"
      <4>1. \A n \in Nodes, k \in Keys : cached'[n][k] \in {None, cached[n][k]}
        BY <3>1, <3>4, DeleteOneEntry
      <4> QED BY <3>1, <4>1 DEF IsWrite
    <3> QED BY <3>3, <3>4
  <2> QED BY <2>1, <2>2, <2>3, <2>4 DEF HandlerStep
<1>5. \A k \in Keys : NothingNew(k)
  BY <1>4 DEF NothingNew, Offers
<1>6. CASE s.op = "get"
  <2>1. \A k : ~WritesOn(p, k) /\ ~WritesOn(p, k)'
    BY <1>2, <1>6 DEF WritesOn, Writing, IsWrite
  <2>2. Ahead(sess'[p]) \subseteq Ahead(s)
    <3>1. s.pc = "fill" => sess'[p].pc # "select"
      BY <1>1, <1>2, FillFields, ReadCacheFields, SelectFields, UpdateFields DEF HandlerStep
    <3>2. sess'[p].pc = "select" => s.pc \in {"exec", "select"}
      BY <1>1, <1>2, FillFields, ReadCacheFields, SelectFields, UpdateFields DEF HandlerStep
    <3> QED BY <1>1, <1>2, <3>2 DEF Ahead, AtBackend
  <2>3. s.pc \in {"exec", "select"} => c \in Home(x) /\ c \in Ahead(s)
    BY <1>1, <1>6 DEF ReadAtHome, Ahead
  <2>4. s.pc \in {"exec", "select"} => Offers(c, x) \subseteq seen[p]
    BY <1>1, <1>3, <1>6, <2>3 DEF DataInv, ReadOK
  <2> QED BY <1>1, <1>2, <1>3, <1>4, <1>5, <1>6, <2>1, <2>2, <2>4, LightStep
<1>7. CASE s.op # "get"
  <2>1. IsWrite(s.op)
    BY <1>7 DEF IsWrite
  <2>2. KeepsPending(p) /\ (Acknowledged(s)' => Acknowledged(s))
    BY <1>2, <1>4, <2>1 DEF KeepsPending, Pending, Acknowledged
  <2>3. \A k : WritesOn(p, k)' <=> WritesOn(p, k)
    BY <1>1, <1>2, <1>4, <2>1 DEF WritesOn, Writing, Busy
  <2> QED BY <1>1, <1>2, <1>3, <1>5, <1>7, <2>1, <2>2, <2>3, LightStep
<1> QED BY <1>6, <1>7

LEMMA StillData ==
    ASSUME IInv, OutageInv, DataInv, UNCHANGED <<sess, legal, seen>>, NoneEnters,
           \A k \in Keys : NothingNew(k)
    PROVE  DataInv'
<1>1. \A k \in Keys : SameRows(k)
  BY DEF SameRows
<1>2. ASSUME NEW q \in Proxies PROVE sess'[q] = sess[q] /\ (Busy(q) => Sees(q))
  BY DEF Sees, DataInv, ReadOK
<1>3. ASSUME NEW q \in Proxies
      PROVE  \A k : /\ WritesOn(q, k)' <=> WritesOn(q, k)
                    /\ WritesOn(q, k) => StillWrites(q)
  BY <1>2, UnmovedWrite
<1>4. (\A k \in Keys : RowsOK(k)') /\ \A q \in Proxies : WriteOK(q)'
  BY <1>1, <1>3, WritesKept
<1>5. ASSUME NEW q \in Proxies PROVE ReadOK(q)'
  <2>1. Busy(q) => sess[q].key \in Keys
    BY DEF Busy, IInv, SessionInv, WellFormed
  <2>2. ReadOK(q) /\ (Busy(q)' <=> Busy(q))
    BY DEF DataInv, Busy
  <2>3. CASE Busy(q)
    <3> DEFINE k == sess[q].key
    <3>1. k \in Keys /\ Home(k) \subseteq Nodes
      BY <2>1, <2>3 DEF Home
    <3> HIDE DEF k
    <3>2. NothingNew(k)
      BY <3>1
    <3>3. \A n \in Home(k) : Offers(n, k)' \subseteq Offers(n, k) \union legal'[k]
      BY <3>1, <3>2 DEF NothingNew
    <3> QED BY <1>2, <2>3, <3>3, UnmovedRead DEF k
  <2>4. CASE ~Busy(q)
    BY <1>2, <2>2, <2>4 DEF ReadOK, Busy
  <2> QED BY <2>3, <2>4
<1> QED BY <1>4, <1>5 DEF DataInv

LEMMA RequestData ==
    ASSUME IInv, CalmEnvironment, OutageInv, DataInv, NEW p \in Proxies, Request(p)
    PROVE  DataInv'
<1>0. PICK x : x = sess'[p].key
  OBVIOUS
<1>1. /\ sess[p].pc = "recv" /\ Unmoved(p) /\ UNCHANGED <<status, db, cached, legal>>
      /\ sess'[p].pc = "route" /\ sess'[p].todo = {} /\ sess'[p].key = x /\ x \in Keys
      /\ seen' = [seen EXCEPT ![p] = legal[x]]
  BY <1>0, RequestFields
<1>2. /\ seen'[p] = legal[x]
      /\ \A q \in Proxies : q # p => seen'[q] = seen[q]
  BY <1>1 DEF IInv, TypeOK
<1>3. (\A k \in Keys : SameRows(k)) /\ NoneEnters
  BY <1>1, SameStatus, SameBackends DEF SameRows
<1>4. ASSUME NEW q \in Proxies, q # p PROVE sess'[q] = sess[q] /\ (Busy(q) => Sees(q))
  BY <1>1, <1>2, <1>4 DEF Unmoved, Sees, DataInv, ReadOK
<1>5. \A k : ~WritesOn(p, k) /\ ~WritesOn(p, k)'
  BY <1>1 DEF WritesOn, Writing, Busy
<1>6. ASSUME NEW q \in Proxies
      PROVE  \A k : /\ WritesOn(q, k)' <=> WritesOn(q, k)
                    /\ WritesOn(q, k) => StillWrites(q)
  BY <1>4, <1>5, UnmovedWrite
<1>7. (\A k \in Keys : RowsOK(k)') /\ \A q \in Proxies : WriteOK(q)'
  BY <1>3, <1>6, WritesKept
<1>8. ASSUME NEW q \in Proxies PROVE ReadOK(q)'
  <2>1. CASE q = p
    BY <1>1, <1>2, <2>1 DEF ReadOK, Ahead
  <2>2. CASE q # p
    BY <1>1, <1>4, <2>2, UnmovedRead DEF Offers
  <2> QED BY <2>1, <2>2
<1> QED BY <1>7, <1>8 DEF DataInv

LEMMA CrashData ==
    ASSUME IInv, CalmEnvironment, OutageInv, DataInv, NEW n \in Nodes, Crash(n)
    PROVE  DataInv'
<1>1. /\ UNCHANGED <<status, db, legal, seen>>
      /\ \A q \in Proxies :
            /\ Writing(q) => sess[q].cur # n
            /\ sess'[q].op = sess[q].op /\ sess'[q].key = sess[q].key
            /\ sess'[q].val = sess[q].val /\ sess'[q].todo = sess[q].todo
            /\ sess'[q].cur = sess[q].cur /\ sess'[q].code = sess[q].code
            /\ sess'[q].best = sess[q].best
            /\ sess'[q].pc = IF sess[q].cur = n /\ sess[q].pc \in AtBackend
                             THEN "broken" ELSE sess[q].pc
  BY CrashFields
<1>0. \A m \in Nodes, k \in Keys : cached'[m][k] \in {None, cached[m][k]}
  BY CrashFields
<1>2. (\A k \in Keys : SameRows(k)) /\ NoneEnters
  BY <1>0, <1>1, SameStatus DEF SameRows, NothingNew, Offers
<1>3. ASSUME NEW q \in Proxies
      PROVE  \A k : /\ WritesOn(q, k)' <=> WritesOn(q, k)
                    /\ WritesOn(q, k) => StillWrites(q)
  <2>1. \A k : WritesOn(q, k)' <=> WritesOn(q, k)
    BY <1>1 DEF AtBackend, WritesOn, Writing, Busy
  <2>2. ASSUME NEW k, WritesOn(q, k) PROVE StillWrites(q)
    <3>1. sess'[q].pc = sess[q].pc
      BY <1>1, <2>2 DEF WritesOn
    <3>2. Pending(sess[q])' = Pending(sess[q]) /\ (Acknowledged(sess[q])' <=> Acknowledged(sess[q]))
      BY <1>1, <3>1 DEF Pending, Acknowledged
    <3> QED BY <1>1, <3>2 DEF StillWrites, KeepsPending
  <2> QED BY <2>1, <2>2
<1>4. (\A k \in Keys : RowsOK(k)') /\ \A q \in Proxies : WriteOK(q)'
  BY <1>2, <1>3, WritesKept
<1>5. ASSUME NEW q \in Proxies PROVE ReadOK(q)'
  <2>1. Busy(q) => Sees(q)
    BY <1>1 DEF Sees, DataInv, ReadOK
  <2>2. Busy(q)' <=> Busy(q)
    BY <1>1 DEF AtBackend, Busy
  <2>3. CASE Busy(q)
    <3> DEFINE k == sess[q].key
    <3>1. k \in Keys /\ Home(k) \subseteq Nodes
      BY <2>3 DEF Home, Busy, IInv, SessionInv, WellFormed
    <3>2. sess'[q].key = k /\ sess'[q].op = sess[q].op /\ sess'[q].val = sess[q].val
      BY <1>1
    <3>3. Ahead(sess'[q]) \subseteq Ahead(sess[q])
      BY <1>1 DEF Ahead
    <3>4. sess'[q].pc \in {"fill", "reply"} => sess[q].pc \in {"fill", "reply"}
      BY <1>1
    <3> HIDE DEF k
    <3>5. SameRows(k)
      BY <1>2, <3>1
    <3>6. \A m \in Home(k) : Offers(m, k)' \subseteq Offers(m, k) \union legal'[k]
      BY <3>1, <3>5 DEF SameRows, NothingNew
    <3> QED BY <2>1, <2>3, <3>2, <3>3, <3>4, <3>6, ReadKept DEF k
  <2>4. CASE ~Busy(q)
    BY <2>2, <2>4 DEF ReadOK
  <2> QED BY <2>3, <2>4
<1> QED BY <1>4, <1>5 DEF DataInv

LEMMA RestartData ==
    ASSUME IInv, OutageInv, DataInv, NEW n \in Nodes, Restart(n)
    PROVE  DataInv'
BY StillData, SameStatus, SameBackends DEF Restart, Start, routerVars, envVars

LEMMA PushOutData ==
    ASSUME IInv, OutageInv, DataInv, NEW n \in Nodes, NEW k \in Keys, PushOut(n, k)
    PROVE  DataInv'
<1>1. /\ UNCHANGED <<status, db, sess, legal, seen>>
      /\ \A m \in Nodes, x \in Keys : cached'[m][x] \in {None, cached[m][x]}
  BY PushOutFields
<1>2. \A x \in Keys : NothingNew(x)
  BY <1>1 DEF NothingNew, Offers
<1> QED BY <1>1, <1>2, StillData, SameStatus

-----------------------------------------------------------------------------
(* Recovery.  While it goes on nobody writes, and every backend but the    *)
(* one that is recovered is in service.                                    *)
LEMMA RecoveryPeers ==
    ASSUME IInv, CalmEnvironment, OutageInv, Recovering
    PROVE  /\ hc.node \in Nodes /\ alive[hc.node]
           /\ \A n \in Nodes : n # hc.node =>
                  ~Troubled(n) /\ alive[n] /\ status[n] = "UP" /\ n \in onRing
           /\ \A k : \A n \in Home(k) : n # hc.node => n \in UpHome(k)
           /\ \A q \in Proxies : ~Writing(q) /\ \A k : ~WritesOn(q, k)
<1>1. hc.node \in Nodes /\ alive[hc.node] /\ Troubled(hc.node)
  BY DEF IInv, CheckerInv, Recovering, OutageInv, MarksOK, Troubled
<1>2. \A n \in Nodes : n # hc.node =>
          ~Troubled(n) /\ alive[n] /\ status[n] = "UP" /\ n \in onRing
  BY <1>1 DEF OutageInv, OneOutage, Troubled
<1>3. \A q \in Proxies : ~Writing(q)
  BY DEF OutageInv, Calm, CalmEnvironment
<1> QED BY <1>1, <1>2, <1>3 DEF UpHome, Home, WritesOn

(* A row that the backend under recovery lacks is one that its peers have. *)
LEMMA MissingRow ==
    ASSUME IInv, CalmEnvironment, OutageInv, DataInv, Recovering,
           NEW k \in Keys, hc.node \in Home(k), NEW m \in Home(k) \ {hc.node}
    PROVE  /\ db[m][k] = None => db[hc.node][k] = None
           /\ \A n \in Home(k) \ {hc.node} : db[n][k] = db[m][k]
<1> DEFINE c == hc.node
<1>1. /\ \A n \in Home(k) : n # c => n \in UpHome(k)
      /\ \A q \in Proxies : ~WritesOn(q, k)
  BY RecoveryPeers
<1>2. Agree(k) /\ MissedPuts(k)
  BY DEF DataInv, RowsOK
<1>3. CASE c \in UpHome(k)
  BY <1>1, <1>2, <1>3 DEF Agree
<1>4. CASE c \notin UpHome(k)
  BY <1>1, <1>2, <1>4 DEF Agree, MissedPuts
<1> QED BY <1>3, <1>4

LEMMA QuietCaches ==
    ASSUME IInv, CacheInv, rm.pc # "forget", \A q \in Proxies : ~Writing(q)
    PROVE  \A n \in Nodes, k \in Keys : cached[n][k] \in {None, db[n][k]}
<1>1. ASSUME NEW q \in Proxies, sess[q].pc = "forget" PROVE FALSE
  BY <1>1 DEF Writing, Busy, IInv, SessionInv, WellFormed
<1> QED BY <1>1 DEF CacheInv, EntryOK, Deleting

(* The recovered backend goes UP: nothing is left to be copied.            *)
LEMMA MarkUpData ==
    ASSUME IInv, CalmEnvironment, OutageInv, DataInv, CacheInv, CopyInv,
           hc.pc = "recover", rm.pc = "off", status' = [status EXCEPT ![hc.node] = "UP"],
           UNCHANGED <<sess, legal, seen, db, cached>>
    PROVE  DataInv'
<1> DEFINE c == hc.node
<1>1. /\ c \in Nodes
      /\ \A n \in Nodes : n # c => status[n] = "UP"
      /\ \A k : \A n \in Home(k) : n # c => n \in UpHome(k)
      /\ \A q \in Proxies : ~Writing(q) /\ \A k : ~WritesOn(q, k)
  BY RecoveryPeers DEF Recovering
<1>2. \A n \in Nodes : status'[n] = "UP"
  BY <1>1 DEF IInv, TypeOK, RouterTypeOK
<1>3. \A k : UpHome(k)' = Home(k)
  BY <1>2 DEF UpHome, Home
<1>4. \A q \in Proxies : ~Writing(q)' /\ \A k : ~WritesOn(q, k)'
  BY <1>1 DEF Writing, WritesOn, Busy
<1>5. ASSUME NEW k \in Keys PROVE RowsOK(k)'
  <2>1. \A m, n \in UpHome(k) : db[m][k] = db[n][k] /\ db[m][k] \in legal[k]
    BY <1>1 DEF DataInv, RowsOK, Agree, Offers
  <2>2. c \in Home(k) => \A m \in Home(k) \ {c} : db[c][k] = db[m][k]
    BY DEF CopyInv, ToCopy
  <2>3. PICK m \in Home(k) : m # c
    BY <1>1, HomeHasAnother
  <2>4. \A n \in Home(k) : db[n][k] = db[m][k]
    BY <1>1, <2>1, <2>2, <2>3
  <2>5. db[m][k] \in legal[k]
    BY <1>1, <2>1, <2>3
  <2>6. Agree(k)'
    BY <1>3, <2>4 DEF Agree
  <2>7. MissedPuts(k)'
    BY <1>3 DEF MissedPuts
  <2>8. \A n \in UpHome(k)' : Offers(n, k)' \subseteq legal'[k]
    <3>1. \A n \in Home(k) : n \in Nodes /\ cached[n][k] \in {None, db[n][k]}
      BY <1>1, QuietCaches DEF Home
    <3> QED BY <1>3, <2>4, <2>5, <3>1 DEF Offers
  <2> QED BY <2>6, <2>7, <2>8 DEF RowsOK
<1>6. ASSUME NEW q \in Proxies PROVE WriteOK(q)' /\ ReadOK(q)'
  <2>1. WriteOK(q)'
    BY <1>4 DEF WriteOK
  <2>2. ReadOK(q)'
    BY UnmovedRead DEF Sees, DataInv, ReadOK, Offers
  <2> QED BY <2>1, <2>2
<1> QED BY <1>5, <1>6 DEF DataInv

LEMMA SyncFields ==
    ASSUME IInv, CalmEnvironment, OutageInv, SyncValue
    PROVE  /\ hc.pc = "recover" /\ rm.node = hc.node /\ rm.pc = "sync" /\ rm.key \in Keys
           /\ UNCHANGED <<status, hc, cached>>
           /\ \A n \in Nodes, k \in Keys :
                  db'[n][k] = IF n = hc.node /\ k = rm.key THEN rm.val ELSE db[n][k]
           /\ rm'.pc = "forget" /\ rm'.scan = rm.scan /\ rm'.keys = rm.keys
           /\ rm'.node = rm.node /\ rm'.key = rm.key
<1> DEFINE c == rm.node
           x == rm.key
           v == rm.val
<1>1. /\ hc.pc = "recover" /\ c = hc.node /\ rm.pc = "sync" /\ x \in Keys
      /\ rm \in Recovery
  BY DEF SyncValue, InRecover, IInv, RecoveryInv, CheckerInv, TypeOK, HealthTypeOK
<1>2. c \in Nodes /\ alive[c] /\ alive[c] \in BOOLEAN
  BY <1>1, RecoveryPeers DEF Recovering, IInv, TypeOK, BackendsTypeOK
<1>3. PICK ok \in BOOLEAN :
          /\ Transact(c, x, v, ok)
          /\ IF ok THEN rm' = [rm EXCEPT !.pc = "forget"] ELSE NextKey
  BY DEF SyncValue
<1>4. UNCHANGED <<status, hc, cached>>
  BY DEF SyncValue, routerVars
<1>5. ok = TRUE /\ \A n \in Nodes, k \in Keys : db'[n][k] = IF n = c /\ k = x THEN v ELSE db[n][k]
  <2> HIDE DEF c, x, v
  <2>1. Served(c, ok)
    BY <1>3 DEF Transact
  <2>2. ok = TRUE
    BY <1>2, <2>1, AliveServes
  <2>3. db' = [db EXCEPT ![c][x] = v]
    BY <1>2, <1>3, <2>2 DEF Transact
  <2> QED BY <2>2, <2>3 DEF IInv, TypeOK, BackendsTypeOK
<1>6. /\ rm'.pc = "forget" /\ rm'.scan = rm.scan /\ rm'.keys = rm.keys
      /\ rm'.node = c /\ rm'.key = x
  BY <1>1, <1>3, <1>5 DEF Recovery
<1> QED BY <1>1, <1>4, <1>5, <1>6

(* A row is copied: the value is that of all the other replicas.           *)
LEMMA SyncData ==
    ASSUME IInv, CalmEnvironment, OutageInv, DataInv, CopyInv, SyncValue,
           UNCHANGED <<sess, legal, seen>>
    PROVE  DataInv'
<1>0. PICK c, x, v : c = hc.node /\ x = rm.key /\ v = rm.val
  OBVIOUS
<1>1. /\ hc.pc = "recover" /\ rm.pc = "sync" /\ x \in Keys /\ UNCHANGED <<status, cached>>
      /\ hc.node = c /\ rm.key = x /\ rm.val = v
      /\ \A n \in Nodes, k \in Keys : db'[n][k] = IF n = c /\ k = x THEN v ELSE db[n][k]
  BY <1>0, SyncFields
<1>2. /\ c \in Nodes
      /\ \A k : \A n \in Home(k) : n # c => n \in UpHome(k)
      /\ \A q \in Proxies : ~Writing(q) /\ \A k : ~WritesOn(q, k)
  BY <1>1, RecoveryPeers DEF Recovering
<1>3. \A m \in Home(x) \ {c} : db[m][x] = v
  BY <1>1 DEF CopyInv
<1>4. v \in legal[x]
  <2>1. PICK m \in Home(x) : m # c
    BY <1>1, <1>2, HomeHasAnother
  <2>2. db[m][x] \in legal[x]
    BY <1>1, <1>2, <2>1 DEF DataInv, RowsOK, Offers
  <2> QED BY <1>3, <2>1, <2>2
<1>5. \A q \in Proxies : ~Writing(q)' /\ \A k : ~WritesOn(q, k)'
  BY <1>2 DEF Writing, WritesOn, Busy
<1>6. \A k : UpHome(k)' = UpHome(k) /\ UpHome(k) \subseteq Home(k) /\ Home(k) \subseteq Nodes
  BY <1>1 DEF UpHome, Home
<1>7. \A n \in Nodes : Offers(n, x)' \subseteq Offers(n, x) \union {v}
  BY <1>1 DEF Offers
<1>8. \A n \in Nodes, k \in Keys : k # x => Offers(n, k)' = Offers(n, k)
  BY <1>1 DEF Offers
<1>9. ASSUME NEW k \in Keys PROVE RowsOK(k)'
  <2>1. CASE k # x
    <3>1. SameRows(k)
      BY <1>1, <1>8, <2>1 DEF SameRows, NothingNew
    <3>2. NoneEnters /\ SameWriters(k)
      BY <1>1, <1>2, <1>5, SameStatus DEF SameWriters
    <3> QED BY <3>1, <3>2, RowsKept
  <2>2. CASE k = x
    <3>1. \A n \in Home(x) : db'[n][x] = v
      <4>1. ASSUME NEW n \in Home(x) PROVE db'[n][x] = v
        <5>1. n \in Nodes
          BY <1>6
        <5> QED BY <1>1, <1>3, <5>1
      <4> QED BY <4>1
    <3>2. Agree(x)'
      BY <1>6, <3>1 DEF Agree
    <3>3. MissedPuts(x)'
      BY <1>6, <3>1 DEF MissedPuts
    <3>4. \A n \in UpHome(x)' : Offers(n, x)' \subseteq legal'[x]
      <4>1. \A n \in UpHome(x) : Offers(n, x) \subseteq legal[x]
        BY <1>1 DEF DataInv, RowsOK
      <4> QED BY <1>4, <1>6, <1>7, <4>1
    <3> QED BY <2>2, <3>2, <3>3, <3>4 DEF RowsOK
  <2> QED BY <2>1, <2>2
<1>10. ASSUME NEW q \in Proxies PROVE WriteOK(q)' /\ ReadOK(q)'
  <2>1. WriteOK(q)'
    BY <1>5 DEF WriteOK
  <2>2. ReadOK(q)'
    <3>1. CASE ~Busy(q)
      BY <3>1 DEF ReadOK, Busy
    <3>2. CASE Busy(q)
      <4>1. sess[q].key \in Keys /\ Sees(q)
        BY <3>2 DEF Busy, IInv, SessionInv, WellFormed, Sees, DataInv, ReadOK
      <4>2. PICK k \in Keys : k = sess[q].key
        BY <4>1
      <4>3. \A n \in Home(k) : Offers(n, k)' \subseteq Offers(n, k) \union legal'[k]
        BY <1>4, <1>6, <1>7, <1>8
      <4> QED BY <4>1, <4>2, <4>3, UnmovedRead
    <3> QED BY <3>1, <3>2
  <2> QED BY <2>1, <2>2
<1> QED BY <1>9, <1>10 DEF DataInv

LEMMA CopyStays ==
    ASSUME IInv, CopyInv, UNCHANGED <<hc, rm>>,
           \A n \in Nodes, k \in Keys : db'[n][k] = db[n][k]
    PROVE  CopyInv'
<1>1. \A k, m : ToCopy(k, m)' = ToCopy(k, m)
  BY DEF ToCopy
<1> QED BY <1>1, ZenonT(60) DEF CopyInv, Home, IInv, CheckerInv, RecoveryInv

(* What a step of recover() is, if every call it makes is answered.        *)
SameList == rm'.scan = rm.scan /\ rm'.keys = rm.keys
SameKey == SameList /\ rm'.key = rm.key

CopyStep ==
    LET c == hc.node IN
    \/ /\ rm.pc = "online" /\ rm'.pc = "loop" /\ rm'.scan = Nodes \ {c}
    \/ /\ rm.pc = "loop" /\ rm'.pc = "loop"
       /\ \E n \in rm.scan : /\ rm'.scan = rm.scan \ {n}
                            /\ rm'.keys = rm.keys \union {k \in Keys : db[n][k] # None}
    \/ /\ rm.pc = "loop" /\ rm'.pc = "own" /\ rm'.scan = rm.scan
       /\ rm'.keys = rm.keys \ {rm'.key}
    \/ /\ rm.pc = "own" /\ rm'.pc = "fetch" /\ SameKey
       /\ rm'.sources = Home(rm.key) \ {c}
    \/ /\ rm.pc = "own" /\ rm'.pc = "loop" /\ SameList /\ c \notin Home(rm.key)
    \/ /\ rm.pc = "fetch" /\ rm'.pc = "select" /\ SameKey /\ rm'.sources = rm.sources
    \/ /\ rm.pc = "fetch" /\ rm'.pc = "sync" /\ SameKey
       /\ \E n \in rm.sources : rm'.val = db[n][rm.key]
    \/ /\ rm.pc = "fetch" /\ rm'.pc = "loop" /\ SameList /\ rm.sources = {}
    \/ /\ rm.pc = "select" /\ rm'.pc = "fill" /\ SameKey /\ rm'.sources = rm.sources
       /\ rm'.val \in Values /\ \E n \in rm.sources : rm'.val = db[n][rm.key]
    \/ /\ rm.pc = "select" /\ rm'.pc = "fetch" /\ SameKey
       /\ \E n \in rm.sources : rm'.sources = rm.sources \ {n} /\ db[n][rm.key] = None
    \/ /\ rm.pc = "fill" /\ rm'.pc = "sync" /\ SameKey /\ rm'.val = rm.val
    \/ SyncValue
    \/ rm.pc = "forget" /\ rm'.pc = "loop" /\ SameList
    \/ rm.pc = "loop" /\ rm'.pc = "off" /\ rm.scan = {} /\ rm.keys = {}

LEMMA CopyFields ==
    ASSUME IInv, CalmEnvironment, OutageInv, CacheInv, CopyInv, RecoveryStep
    PROVE  /\ hc.pc = "recover" /\ rm \in Recovery /\ CopyStep
           /\ SyncValue \/ UNCHANGED db
           /\ \/ UNCHANGED cached
              \/ rm.pc = "fill" /\ \E n \in Nodes : CreateKey(n, rm.key, db[n][rm.key])
              \/ rm.pc = "forget" /\ DeleteKey(rm.node, rm.key)
<1> DEFINE c == hc.node
<1> USE DEF CopyStep, SameKey, SameList
<1>1. rm.pc # "off"
  BY DEF RecoveryStep, ListOnline, FetchAllKeys, PickKey, CheckOwner, FetchCached, FetchRow,
         FetchFill, NoSource, SyncValue, SyncForget, EndRecover, InRecover
<1>2. /\ hc.pc = "recover" /\ rm \in Recovery /\ rm.node = c
      /\ rm.pc \in {"fetch", "select", "fill"} => rm.key \in Keys
  BY <1>1 DEF IInv, CheckerInv, RecoveryInv, TypeOK, HealthTypeOK
<1>3. /\ c \in Nodes
      /\ \A n \in Nodes : alive[n]
      /\ \A n \in Nodes : n # c => status[n] = "UP"
      /\ onRing = Nodes
      /\ \A q \in Proxies : ~Writing(q)
  <2>1. c \in onRing
    BY <1>2 DEF OutageInv, MarksOK
  <2> QED BY <1>2, <2>1, RecoveryPeers DEF Recovering, IInv, TypeOK, RouterTypeOK
<1>4. \A n \in Nodes, ok \in BOOLEAN : Served(n, ok) => ok
  BY <1>3, AliveServes
<1>5. CASE ListOnline
  <2>1. GetOnlineBackends \ {c} = Nodes \ {c}
    BY <1>3 DEF GetOnlineBackends
  <2>2. rm' = [rm EXCEPT !.pc = "loop", !.scan = Nodes \ {c}] /\ UNCHANGED <<db, cached>>
    BY <1>2, <1>5, <2>1 DEF ListOnline, backendVars
  <2> QED BY <1>2, <1>5, <2>2 DEF ListOnline, InRecover, Recovery
<1>6. CASE FetchAllKeys
  <2>1. PICK n \in rm.scan, ok \in BOOLEAN :
            /\ Served(n, ok)
            /\ rm' = [rm EXCEPT !.scan = @ \ {n},
                                !.keys = @ \union {k \in Keys : ok /\ db[n][k] # None}]
    BY <1>6 DEF FetchAllKeys
  <2>2. n \in Nodes
    BY <1>2 DEF Recovery
  <2>3. ok = TRUE
    BY <1>4, <2>1, <2>2
  <2> DEFINE S == {k \in Keys : db[n][k] # None}
  <2>4. rm' = [rm EXCEPT !.scan = @ \ {n}, !.keys = @ \union S]
    BY <2>1, <2>3
  <2>5. rm'.pc = rm.pc /\ rm'.scan = rm.scan \ {n} /\ rm'.keys = rm.keys \union S
    <3> HIDE DEF S
    <3> QED BY <1>2, <2>4 DEF Recovery
  <2> QED BY <1>2, <1>6, <2>5 DEF FetchAllKeys, InRecover
<1>7. CASE PickKey
  <2>1. PICK k \in rm.keys : rm' = [rm EXCEPT !.pc = "own", !.keys = @ \ {k}, !.key = k]
    BY <1>7, RingNotEmpty DEF PickKey
  <2>2. rm'.pc = "own" /\ rm'.scan = rm.scan /\ rm'.keys = rm.keys \ {rm'.key}
    BY <1>2, <2>1 DEF Recovery
  <2> QED BY <1>2, <1>7, <2>2 DEF PickKey, InRecover, backendVars
<1>8. CASE CheckOwner
  <2>1. GetNodes(rm.key) = Home(rm.key)
    BY <1>3, HomeIsRing
  <2>2. rm' = IF c \in Home(rm.key)
              THEN [rm EXCEPT !.pc = "fetch", !.sources = Home(rm.key) \ {c}]
              ELSE [rm EXCEPT !.pc = "loop", !.key = None]
    BY <1>2, <1>8, <2>1 DEF CheckOwner
  <2>3. rm.pc = "own" /\ UNCHANGED <<db, cached>>
    BY <1>8 DEF CheckOwner, InRecover, backendVars
  <2>4. CASE c \in Home(rm.key)
    <3>1. rm' = [rm EXCEPT !.pc = "fetch", !.sources = Home(rm.key) \ {c}]
      BY <2>2, <2>4
    <3>2. /\ rm'.pc = "fetch" /\ rm'.scan = rm.scan /\ rm'.keys = rm.keys /\ rm'.key = rm.key
          /\ rm'.sources = Home(rm.key) \ {c}
      BY <1>2, <3>1 DEF Recovery
    <3> QED BY <1>2, <2>3, <3>2
  <2>5. CASE c \notin Home(rm.key)
    <3>1. rm' = [rm EXCEPT !.pc = "loop", !.key = None]
      BY <2>2, <2>5
    <3>2. rm'.pc = "loop" /\ rm'.scan = rm.scan /\ rm'.keys = rm.keys
      BY <1>2, <3>1 DEF Recovery
    <3> QED BY <1>2, <2>3, <2>5, <3>2
  <2> QED BY <2>4, <2>5
<1>9. CASE FetchCached
  <2>1. PICK n \in rm.sources, ok \in BOOLEAN :
            /\ Served(n, ok)
            /\ IF ~ok THEN NextSource(n)
               ELSE IF Hit(n, rm.key) THEN Fetched(cached[n][rm.key])
               ELSE rm' = [rm EXCEPT !.pc = "select"]
    BY <1>9 DEF FetchCached
  <2>2. rm.pc = "fetch" /\ UNCHANGED <<db, cached>> /\ n \in Nodes
    BY <1>2, <1>9 DEF FetchCached, InRecover, Recovery
  <2>3. ok = TRUE
    BY <1>4, <2>1, <2>2
  <2> DEFINE v == cached[n][rm.key]
  <2>4. CASE Hit(n, rm.key)
    <3>1. rm' = [rm EXCEPT !.pc = "sync", !.sources = {}, !.val = v]
      BY <2>1, <2>3, <2>4 DEF Fetched
    <3>2. v = db[n][rm.key]
      BY <1>2, <1>3, <2>2, <2>4, QuietCaches DEF Hit
    <3>3. /\ rm'.pc = "sync" /\ rm'.scan = rm.scan /\ rm'.keys = rm.keys /\ rm'.key = rm.key
          /\ rm'.val = v
      <4> HIDE DEF v
      <4> QED BY <1>2, <3>1 DEF Recovery
    <3> QED BY <1>2, <2>2, <3>2, <3>3
  <2>5. CASE ~Hit(n, rm.key)
    <3>1. rm' = [rm EXCEPT !.pc = "select"]
      BY <2>1, <2>3, <2>5
    <3>2. /\ rm'.pc = "select" /\ rm'.scan = rm.scan /\ rm'.keys = rm.keys
          /\ rm'.key = rm.key /\ rm'.sources = rm.sources
      BY <1>2, <3>1 DEF Recovery
    <3> QED BY <1>2, <2>2, <3>2
  <2> QED BY <2>4, <2>5
<1>10. CASE FetchRow
  <2>1. PICK n \in rm.sources, ok \in BOOLEAN :
            /\ Served(n, ok)
            /\ IF ok /\ db[n][rm.key] # None
               THEN rm' = [rm EXCEPT !.pc = "fill", !.val = db[n][rm.key]]
               ELSE NextSource(n)
    BY <1>10 DEF FetchRow
  <2>2. rm.pc = "select" /\ UNCHANGED <<db, cached>> /\ n \in Nodes /\ rm.key \in Keys
    BY <1>2, <1>10 DEF FetchRow, InRecover, Recovery
  <2>3. ok = TRUE
    BY <1>4, <2>1, <2>2
  <2> DEFINE v == db[n][rm.key]
  <2>4. v # None => v \in Values
    BY <2>2 DEF IInv, TypeOK, BackendsTypeOK, Rows
  <2>5. CASE v # None
    <3>1. rm' = [rm EXCEPT !.pc = "fill", !.val = v]
      BY <2>1, <2>3, <2>5
    <3>2. /\ rm'.pc = "fill" /\ rm'.scan = rm.scan /\ rm'.keys = rm.keys /\ rm'.key = rm.key
          /\ rm'.val = v /\ rm'.sources = rm.sources
      <4> HIDE DEF v
      <4> QED BY <1>2, <3>1 DEF Recovery
    <3> QED BY <1>2, <2>2, <2>4, <2>5, <3>2
  <2>6. CASE v = None
    <3>1. rm' = [rm EXCEPT !.pc = "fetch", !.sources = @ \ {n}, !.val = None]
      BY <2>1, <2>6 DEF NextSource
    <3>2. /\ rm'.pc = "fetch" /\ rm'.scan = rm.scan /\ rm'.keys = rm.keys /\ rm'.key = rm.key
          /\ rm'.sources = rm.sources \ {n}
      BY <1>2, <3>1 DEF Recovery
    <3> QED BY <1>2, <2>2, <2>6, <3>2
  <2> QED BY <2>5, <2>6
<1>11. CASE FetchFill
  <2>1. /\ rm.pc = "fill" /\ UNCHANGED db /\ rm.key \in Keys /\ rm.val \in Values
        /\ rm.val # EmptyValue
    BY <1>2, <1>11 DEF FetchFill, InRecover, CopyInv, CalmEnvironment
  <2>2. PICK n \in rm.sources : CreateKey(n, rm.key, rm.val) /\ Fetched(rm.val)
    BY <1>11, <2>1 DEF FetchFill
  <2>3. n \in Nodes /\ rm.val = db[n][rm.key]
    BY <1>2, <2>1 DEF CopyInv, Home
  <2>4. rm' = [rm EXCEPT !.pc = "sync", !.sources = {}, !.val = rm.val]
    BY <2>2 DEF Fetched
  <2>5. /\ rm'.pc = "sync" /\ rm'.scan = rm.scan /\ rm'.keys = rm.keys /\ rm'.key = rm.key
        /\ rm'.val = rm.val
    BY <1>2, <2>4 DEF Recovery
  <2>6. CreateKey(n, rm.key, db[n][rm.key])
    BY <2>2, <2>3
  <2> QED BY <1>2, <2>1, <2>3, <2>5, <2>6
<1>12. CASE NoSource
  <2>1. /\ rm.pc = "fetch" /\ rm.sources = {} /\ UNCHANGED <<db, cached>>
        /\ rm' = [rm EXCEPT !.pc = "loop", !.key = None]
    BY <1>12 DEF NoSource, InRecover, backendVars
  <2>2. rm'.pc = "loop" /\ rm'.scan = rm.scan /\ rm'.keys = rm.keys
    BY <1>2, <2>1 DEF Recovery
  <2> QED BY <1>2, <2>1, <2>2
<1>13. CASE SyncValue
  BY <1>2, <1>13, SyncFields
<1>14. CASE SyncForget
  <2>1. /\ rm.pc = "forget" /\ UNCHANGED db /\ DeleteKey(rm.node, rm.key)
        /\ rm' = [rm EXCEPT !.pc = "loop", !.key = None, !.sources = {}, !.val = None]
    BY <1>14 DEF SyncForget, InRecover, NextKey
  <2>2. rm'.pc = "loop" /\ rm'.scan = rm.scan /\ rm'.keys = rm.keys
    BY <1>2, <2>1 DEF Recovery
  <2> QED BY <1>2, <2>1, <2>2
<1>15. CASE EndRecover
  BY <1>2, <1>15 DEF EndRecover, InRecover, backendVars, NoRecovery
<1> QED BY <1>5, <1>6, <1>7, <1>8, <1>9, <1>10, <1>11, <1>12, <1>13, <1>14, <1>15
        DEF RecoveryStep

LEMMA RecoveryCopy ==
    ASSUME IInv, CalmEnvironment, OutageInv, DataInv, CacheInv, CopyInv, RecoveryStep
    PROVE  CopyInv'
<1>0. PICK c : c = hc.node
  OBVIOUS
<1>1. /\ hc.pc = "recover" /\ hc.node = c /\ UNCHANGED hc /\ rm \in Recovery
      /\ SyncValue \/ UNCHANGED db
  BY <1>0, CopyFields, RecoveryLeaves
<1>2. ASSUME NEW k \in Keys, c \in Home(k), NEW m \in Home(k) \ {c}
      PROVE  /\ db[m][k] = None => db[c][k] = None
             /\ \A n \in Home(k) \ {c} : db[n][k] = db[m][k]
  BY <1>1, <1>2, MissingRow DEF Recovering
<1>3. ASSUME NEW k \in Keys, c \in Home(k), NEW m \in Home(k) \ {c}, db[c][k] # db[m][k]
      PROVE  ToCopy(k, m) /\ db[m][k] # None
  BY <1>1, <1>2, <1>3 DEF CopyInv
<1>4. \A k : Home(k) \subseteq Nodes
  BY DEF Home
<1>5. rm.pc \in {"own", "fetch", "select", "fill", "sync"} => rm.key \in Keys
  BY DEF IInv, RecoveryInv
<1>6. SUFFICES /\ \A k \in Keys : c \in Home(k) =>
                     \A m \in Home(k) \ {c} : db'[c][k] # db'[m][k] => ToCopy(k, m)'
               /\ rm'.pc \in {"fetch", "select", "fill"} =>
                     /\ rm'.sources \subseteq Home(rm'.key) \ {c}
                     /\ \A m \in Home(rm'.key) \ ({c} \union rm'.sources) :
                           db'[m][rm'.key] = None
               /\ rm'.pc = "fill" => rm'.val \in Values
               /\ rm'.pc \in {"fill", "sync"} =>
                     \A m \in Home(rm'.key) \ {c} : db'[m][rm'.key] = rm'.val
  BY <1>1 DEF CopyInv
<1>7. CASE SyncValue
  <2>1. /\ rm.pc = "sync" /\ rm.key \in Keys
        /\ \A n \in Nodes, k \in Keys :
               db'[n][k] = IF n = c /\ k = rm.key THEN rm.val ELSE db[n][k]
        /\ rm'.pc = "forget" /\ rm'.scan = rm.scan /\ rm'.keys = rm.keys
    BY <1>1, <1>7, SyncFields
  <2>2. ASSUME NEW k \in Keys, c \in Home(k), NEW m \in Home(k) \ {c}, db'[c][k] # db'[m][k]
        PROVE  ToCopy(k, m)'
    <3>1. CASE k = rm.key
      <4>1. db[m][k] = rm.val
        BY <1>1, <2>1, <2>2, <3>1 DEF CopyInv
      <4> QED BY <1>4, <2>1, <2>2, <3>1, <4>1
    <3>2. CASE k # rm.key
      <4>1. db[c][k] # db[m][k]
        BY <1>4, <2>1, <2>2, <3>2
      <4> QED BY <1>3, <2>1, <2>2, <3>2, <4>1 DEF ToCopy
    <3> QED BY <3>1, <3>2
  <2> QED BY <2>1, <2>2
<1>8. CASE UNCHANGED db /\ ~SyncValue
  <2>1. ASSUME NEW k \in Keys, c \in Home(k), NEW m \in Home(k) \ {c}, db'[c][k] # db'[m][k]
        PROVE  ToCopy(k, m) /\ db[m][k] # None
    BY <1>3, <1>8, <2>1
  (* The peer that is asked shows what all of them hold.                   *)
  <2>0. ASSUME rm.pc \in {"fetch", "select"}, NEW n \in rm.sources, rm'.val = db[n][rm.key]
        PROVE  \A m \in Home(rm.key) \ {c} : db[m][rm.key] = rm'.val
    <3>1. n \in Home(rm.key) \ {c} /\ rm.key \in Keys
      BY <1>1, <1>5, <2>0 DEF CopyInv
    <3>2. /\ \A a \in Home(rm.key) : a # c => a \in UpHome(rm.key)
          /\ \A q \in Proxies : ~WritesOn(q, rm.key)
      BY <1>1, RecoveryPeers DEF Recovering
    <3> QED BY <2>0, <3>1, <3>2 DEF DataInv, RowsOK, Agree
  <2> DEFINE Kept == rm'.scan = rm.scan /\ rm'.keys = rm.keys /\ rm'.key = rm.key
  <2>2. CASE rm.pc = "online" /\ rm'.pc = "loop" /\ rm'.scan = Nodes \ {c}
    BY <1>4, <2>2 DEF ToCopy
  <2>3. CASE /\ rm.pc = "loop" /\ rm'.pc = "loop"
             /\ \E n \in rm.scan :
                   /\ rm'.scan = rm.scan \ {n}
                   /\ rm'.keys = rm.keys \union {k \in Keys : db[n][k] # None}
    BY <2>1, <2>3 DEF ToCopy
  <2>4. CASE /\ rm.pc = "loop" /\ rm'.pc = "own" /\ rm'.scan = rm.scan
             /\ rm'.keys = rm.keys \ {rm'.key}
    BY <2>1, <2>4 DEF ToCopy
  <2>5. CASE /\ rm.pc = "own" /\ rm'.pc = "fetch" /\ Kept
             /\ rm'.sources = Home(rm.key) \ {c}
    BY <2>1, <2>5 DEF ToCopy
  <2>6. CASE /\ rm.pc = "own" /\ rm'.pc = "loop" /\ rm'.scan = rm.scan
             /\ rm'.keys = rm.keys /\ c \notin Home(rm.key)
    BY <2>1, <2>6 DEF ToCopy
  <2>7. CASE rm.pc = "fetch" /\ rm'.pc = "select" /\ Kept /\ rm'.sources = rm.sources
    <3>1. /\ rm.sources \subseteq Home(rm.key) \ {c}
          /\ \A m \in Home(rm.key) \ ({c} \union rm.sources) : db[m][rm.key] = None
      BY <1>1, <2>7 DEF CopyInv
    <3> QED BY <1>8, <2>1, <2>7, <3>1 DEF ToCopy
  <2>8. CASE /\ rm.pc = "fetch" /\ rm'.pc = "sync" /\ Kept
             /\ \E n \in rm.sources : rm'.val = db[n][rm.key]
    <3>1. \A m \in Home(rm.key) \ {c} : db[m][rm.key] = rm'.val
      BY <2>0, <2>8
    <3> QED BY <1>8, <2>1, <2>8, <3>1 DEF ToCopy
  <2>9. CASE /\ rm.pc = "fetch" /\ rm'.pc = "loop" /\ rm'.scan = rm.scan
             /\ rm'.keys = rm.keys /\ rm.sources = {}
    <3>1. \A m \in Home(rm.key) \ {c} : db[m][rm.key] = None
      BY <1>1, <2>9 DEF CopyInv
    <3> QED BY <2>1, <2>9, <3>1 DEF ToCopy
  <2>10. CASE /\ rm.pc = "select" /\ rm'.pc = "fill" /\ Kept
              /\ rm'.sources = rm.sources /\ rm'.val \in Values
              /\ \E n \in rm.sources : rm'.val = db[n][rm.key]
    <3>1. \A m \in Home(rm.key) \ {c} : db[m][rm.key] = rm'.val
      BY <2>0, <2>10
    <3>2. /\ rm.sources \subseteq Home(rm.key) \ {c}
          /\ \A m \in Home(rm.key) \ ({c} \union rm.sources) : db[m][rm.key] = None
      BY <1>1, <2>10 DEF CopyInv
    <3> QED BY <1>8, <2>1, <2>10, <3>1, <3>2 DEF ToCopy
  <2>11. CASE /\ rm.pc = "select" /\ rm'.pc = "fetch" /\ Kept
              /\ \E n \in rm.sources :
                    rm'.sources = rm.sources \ {n} /\ db[n][rm.key] = None
    <3>1. /\ rm.sources \subseteq Home(rm.key) \ {c}
          /\ \A m \in Home(rm.key) \ ({c} \union rm.sources) : db[m][rm.key] = None
      BY <1>1, <2>11 DEF CopyInv
    <3>2. \A m \in Home(rm'.key) \ ({c} \union rm'.sources) : db'[m][rm'.key] = None
      BY <1>8, <2>11, <3>1
    <3> QED BY <2>1, <2>11, <3>1, <3>2 DEF ToCopy
  <2>12. CASE rm.pc = "fill" /\ rm'.pc = "sync" /\ Kept /\ rm'.val = rm.val
    <3>1. \A m \in Home(rm.key) \ {c} : db[m][rm.key] = rm.val
      BY <1>1, <2>12 DEF CopyInv
    <3> QED BY <1>8, <2>1, <2>12, <3>1 DEF ToCopy
  <2>13. CASE /\ rm.pc = "forget" /\ rm'.pc = "loop" /\ rm'.scan = rm.scan
              /\ rm'.keys = rm.keys
    BY <2>1, <2>13 DEF ToCopy
  <2>14. CASE rm.pc = "loop" /\ rm'.pc = "off" /\ rm.scan = {} /\ rm.keys = {}
    BY <2>1, <2>14 DEF ToCopy
  <2>15. CopyStep
    BY CopyFields
  <2> QED BY <1>1, <1>8, <2>2, <2>3, <2>4, <2>5, <2>6, <2>7, <2>8, <2>9, <2>10, <2>11,
             <2>12, <2>13, <2>14, <2>15 DEF CopyStep, SameKey, SameList
<1> QED BY <1>1, <1>7, <1>8

LEMMA HealthCopy ==
    ASSUME IInv, CalmEnvironment, OutageInv, DataInv, CacheInv, CopyInv, Health
    PROVE  CopyInv'
<1>1. CASE RecoveryStep
  BY <1>1, RecoveryCopy
<1>2. CASE StartRound \/ Ping
  <2>1. hc'.pc # "recover"
    BY <1>2, StartFields, PingFields
  <2> QED BY <2>1 DEF CopyInv
<1>3. CASE \/ MarkRecoveringStatus \/ MarkRecoveringRing \/ MarkUpStatus \/ MarkUpRing
           \/ CheckerDownStatus \/ CheckerDownRing
  <2>1. hc'.pc = "recover" => rm'.pc = "online"
    BY <1>3, VisitFields
  <2> QED BY <2>1 DEF CopyInv, ToCopy
<1> QED BY <1>1, <1>2, <1>3 DEF Health, HealthStep

LEMMA HealthData ==
    ASSUME IInv, CalmEnvironment, OutageInv, DataInv, CacheInv, CopyInv, Health
    PROVE  DataInv'
<1>0. UNCHANGED <<sess, legal, seen>> /\ HealthStep
  BY DEF Health, envVars
<1>1. CASE SyncValue
  BY <1>0, <1>1, SyncData
<1>2. CASE RecoveryStep /\ ~SyncValue
  <2>1. UNCHANGED <<db, status>>
    BY <1>2, CopyFields, RecoveryLeaves
  <2>2. \A n \in Nodes, k \in Keys : cached'[n][k] \in {None, cached[n][k], db[n][k]}
    <3>1. CASE UNCHANGED cached
      BY <3>1
    <3>2. CASE \E n \in Nodes : CreateKey(n, rm.key, db[n][rm.key])
      BY <3>2, CreateOneEntry
    <3>3. CASE DeleteKey(rm.node, rm.key)
      BY <3>3, DeleteOneEntry
    <3> QED BY <1>2, <3>1, <3>2, <3>3, CopyFields
  <2>3. \A k \in Keys : NothingNew(k)
    BY <2>1, <2>2 DEF NothingNew, Offers
  <2> QED BY <1>0, <2>1, <2>3, SameStatus, StillData
<1>3. CASE StartRound \/ Ping
  <2>1. UNCHANGED <<db, status, cached>>
    BY <1>3, StartFields, PingFields
  <2> QED BY <1>0, <2>1, SameStatus, SameBackends, StillData
<1>4. CASE \/ MarkRecoveringStatus \/ MarkRecoveringRing \/ MarkUpStatus \/ MarkUpRing
           \/ CheckerDownStatus \/ CheckerDownRing
  <2>1. /\ hc.pc # "loop" /\ hc.node \in Nodes /\ UNCHANGED <<db, cached>>
        /\ \/ UNCHANGED status
           \/ \E s \in {"RECOVERING", "DOWN"} : status' = [status EXCEPT ![hc.node] = s]
           \/ /\ hc.pc = "recover" /\ rm.pc = "off"
              /\ status' = [status EXCEPT ![hc.node] = "UP"]
    BY <1>4, VisitFields
  <2>2. \A k \in Keys : NothingNew(k)
    BY <2>1, SameBackends
  <2>3. CASE UNCHANGED status
    BY <1>0, <2>2, <2>3, SameStatus, StillData
  <2>4. CASE \E s \in {"RECOVERING", "DOWN"} : status' = [status EXCEPT ![hc.node] = s]
    <3>1. Troubled(hc.node)
      BY <2>1 DEF Troubled
    <3>2. NoneEnters
      BY <2>1, <2>4, <3>1 DEF NoneEnters, IInv, TypeOK, RouterTypeOK
    <3> QED BY <1>0, <2>2, <3>2, StillData
  <2>5. CASE /\ hc.pc = "recover" /\ rm.pc = "off"
             /\ status' = [status EXCEPT ![hc.node] = "UP"]
    BY <1>0, <2>1, <2>5, MarkUpData
  <2> QED BY <2>1, <2>3, <2>4, <2>5
<1> QED BY <1>0, <1>1, <1>2, <1>3, <1>4 DEF HealthStep


-----------------------------------------------------------------------------
(* The caches.  As long as the rows stay, an entry may go, or come to hold *)
(* what the row holds; and a handler that has to delete one does so.       *)
EntriesMove ==
    \A n \in Nodes, k \in Keys :
        /\ db'[n][k] = db[n][k]
        /\ cached'[n][k] \in {None, cached[n][k], db[n][k]}
        /\ Deleting(n, k) => Deleting(n, k)' \/ cached'[n][k] = None

LEMMA CacheKept ==
    ASSUME CacheInv, EntriesMove, \A q \in Proxies : FillOK(sess[q])'
    PROVE  CacheInv'
BY DEF CacheInv, EntriesMove, EntryOK

LEMMA FillKept ==
    ASSUME IInv, CacheInv, \A n \in Nodes, k \in Keys : db'[n][k] = db[n][k],
           NEW q \in Proxies,
           \/ sess'[q].pc \notin {"fill", "forget"}
           \/ /\ sess'[q].pc = sess[q].pc /\ sess'[q].op = sess[q].op
              /\ sess'[q].key = sess[q].key /\ sess'[q].val = sess[q].val
              /\ sess'[q].cur = sess[q].cur
    PROVE  FillOK(sess[q])'
<1>1. CASE sess'[q].pc \notin {"fill", "forget"}
  BY <1>1 DEF FillOK
<1>2. CASE /\ sess'[q].pc = sess[q].pc /\ sess'[q].op = sess[q].op
           /\ sess'[q].key = sess[q].key /\ sess'[q].val = sess[q].val
           /\ sess'[q].cur = sess[q].cur /\ sess[q].pc \in {"fill", "forget"}
  <2>1. sess[q].cur \in Nodes /\ sess[q].key \in Keys
    BY <1>2 DEF IInv, SessionInv, WellFormed, AtBackend
  <2> QED BY <1>2, <2>1 DEF CacheInv, FillOK
<1> QED BY <1>1, <1>2

(* Nobody that is to delete an entry does anything else.                   *)
LEMMA DeletingStays ==
    ASSUME NEW n \in Nodes, NEW k \in Keys, Deleting(n, k), UNCHANGED rm,
           \A q \in Proxies : sess[q].pc = "forget" => sess'[q] = sess[q]
    PROVE  Deleting(n, k)'
<1>1. CASE rm.pc = "forget" /\ rm.node = n /\ rm.key = k
  BY <1>1 DEF Deleting
<1>2. CASE \E q \in Proxies : LET s == sess[q] IN
              s.pc = "forget" /\ s.op # "create" /\ s.cur = n /\ s.key = k
  BY <1>2 DEF Deleting
<1> QED BY <1>1, <1>2 DEF Deleting

LEMMA StillCache ==
    ASSUME IInv, CacheInv, UNCHANGED <<db, rm>>,
           \A n \in Nodes, k \in Keys : cached'[n][k] \in {None, cached[n][k]},
           \A q \in Proxies :
               \/ sess'[q] = sess[q]
               \/ sess[q].pc # "forget" /\ sess'[q].pc \notin {"fill", "forget"}
    PROVE  CacheInv'
<1>1. \A q \in Proxies : FillOK(sess[q])'
  BY FillKept
<1>2. \A n \in Nodes, k \in Keys : Deleting(n, k) => Deleting(n, k)'
  BY DeletingStays
<1> QED BY <1>1, <1>2, CacheKept DEF EntriesMove

LEMMA RequestCache ==
    ASSUME IInv, CalmEnvironment, OutageInv, CacheInv, NEW p \in Proxies, Request(p)
    PROVE  CacheInv'
<1>1. /\ sess[p].pc = "recv" /\ Unmoved(p) /\ UNCHANGED <<db, cached, rm>>
      /\ sess'[p].pc = "route"
  BY RequestFields
<1> QED BY <1>1, StillCache DEF Unmoved

LEMMA PassCache ==
    ASSUME IInv, CacheInv, NEW p \in Proxies, ProxyStep(p), ~HandlerStep(p), UNCHANGED rm
    PROVE  CacheInv'
<1>1. /\ sess[p].pc # "forget" /\ sess'[p].pc \notin {"fill", "forget"}
      /\ Unmoved(p) /\ UNCHANGED <<db, cached>>
  <2>1. Fresh.pc \notin {"fill", "forget"}
    BY DEF Fresh
  <2>2. CASE Route(p)
    BY <2>1, <2>2, RouteFields
  <2>3. CASE Connect(p)
    BY <2>3, ConnectFields DEF SameRequest
  <2>4. CASE Reply(p)
    BY <2>1, <2>4, ReplyFields
  <2>5. CASE Broken(p)
    <3>1. sess[p] \in Session /\ sess[p].pc = "broken" /\ UNCHANGED <<db, cached>>
      BY <2>5 DEF Broken, At, backendVars, IInv, TypeOK, SessionTypeOK
    <3>2. Unmoved(p)
      BY <2>5 DEF Broken, Unmoved, IInv, TypeOK, SessionTypeOK
    <3>3. sess'[p].pc \in {"connect", "mark"}
      BY <2>5, <3>1 DEF Broken, IInv, TypeOK, SessionTypeOK, Session
    <3> QED BY <3>1, <3>2, <3>3
  <2>6. CASE MarkDownStatus(p)
    BY <2>6, MarkFields DEF SameRequest
  <2>7. CASE MarkDownRing(p)
    BY <2>7, UnringFields DEF SameRequest
  <2>8. CASE Respond(p)
    BY <2>1, <2>8, RespondFields
  <2> QED BY <2>2, <2>3, <2>4, <2>5, <2>6, <2>7, <2>8 DEF ProxyStep
<1> QED BY <1>1, StillCache DEF Unmoved

(* A handler that caches a row caches what the row still is.               *)
LEMMA HandlerCache ==
    ASSUME IInv, CalmEnvironment, OutageInv, CacheInv, NEW p \in Proxies, HandlerStep(p),
           ~CommitWrite(p), UNCHANGED rm
    PROVE  CacheInv'
<1> DEFINE s == sess[p]
<1>0. PICK x, c : x = s.key /\ c = s.cur
  OBVIOUS
<1>1. SessionOK(s) /\ FillOK(s) /\ s.key = x /\ s.cur = c /\ x \in Keys /\ c \in Nodes
  BY <1>0, AtHandler DEF OutageInv, CacheInv
<1>2. CASE ReadCache(p)
  <2>1. /\ s.pc = "exec" /\ UNCHANGED <<db, cached>> /\ Unmoved(p)
        /\ sess'[p].pc \in {"reply", "select"}
    BY <1>2, ReadCacheFields DEF SameRequest
  <2> QED BY <2>1, StillCache DEF Unmoved
<1>3. CASE SelectRow(p)
  <2>1. /\ s.pc = "select" /\ s.op = "get" /\ UNCHANGED <<db, cached>> /\ Unmoved(p)
        /\ sess'[p].key = x /\ sess'[p].cur = c /\ sess'[p].val = db[c][x]
    BY <1>1, <1>3, SelectFields DEF SameRequest
  <2>2. \A q \in Proxies : FillOK(sess[q])'
    <3>1. FillOK(sess[p])'
      BY <2>1 DEF FillOK
    <3> QED BY <2>1, <3>1, FillKept DEF Unmoved
  <2>3. \A n \in Nodes, k \in Keys : Deleting(n, k) => Deleting(n, k)'
    BY <2>1, DeletingStays DEF Unmoved
  <2> QED BY <2>1, <2>2, <2>3, CacheKept DEF EntriesMove
<1>4. CASE FillCache(p)
  <2>1. /\ s.pc = "fill" /\ UNCHANGED db /\ Unmoved(p) /\ CreateKey(c, x, s.val)
        /\ sess'[p].pc = "reply"
    BY <1>1, <1>4, FillFields DEF SameRequest
  <2>2. s.val = db[c][x]
    BY <1>1, <2>1 DEF FillOK
  <2>3. \A n \in Nodes, k \in Keys : cached'[n][k] \in {cached[n][k], db[n][k]}
    BY <2>1, <2>2, CreateOneEntry
  <2>4. \A q \in Proxies : FillOK(sess[q])'
    BY <2>1, FillKept DEF Unmoved
  <2>5. \A n \in Nodes, k \in Keys : Deleting(n, k) => Deleting(n, k)'
    BY <2>1, DeletingStays DEF Unmoved
  <2> QED BY <2>1, <2>3, <2>4, <2>5, CacheKept DEF EntriesMove
<1>5. CASE UpdateCache(p)
  <2>1. /\ s.pc = "forget" /\ UNCHANGED db /\ Unmoved(p) /\ sess'[p].pc = "reply"
        /\ IF s.op = "create" THEN CreateKey(c, x, s.val) ELSE DeleteKey(c, x)
    BY <1>1, <1>5, UpdateFields DEF SameRequest
  <2>2. \A q \in Proxies : FillOK(sess[q])'
    BY <2>1, FillKept DEF Unmoved
  <2>3. \A n \in Nodes, k \in Keys : cached'[n][k] \in {None, cached[n][k], db[n][k]}
    <3>1. s.op = "create" => s.val = db[c][x]
      BY <1>1, <2>1 DEF FillOK
    <3>2. CASE s.op = "create"
      BY <2>1, <3>1, <3>2, CreateOneEntry
    <3>3. CASE s.op # "create"
      BY <2>1, <3>3, DeleteOneEntry
    <3> QED BY <3>2, <3>3
  <2>4. ASSUME NEW n \in Nodes, NEW k \in Keys, Deleting(n, k)
        PROVE  Deleting(n, k)' \/ cached'[n][k] = None
    <3>1. CASE s.op # "create" /\ n = c /\ k = x
      BY <2>1, <3>1, DeleteOneEntry
    <3>2. CASE rm.pc = "forget" /\ rm.node = n /\ rm.key = k
      BY <3>2 DEF Deleting
    <3>3. CASE /\ s.op = "create" \/ n # c \/ k # x
               /\ \E q \in Proxies : LET u == sess[q] IN
                     u.pc = "forget" /\ u.op # "create" /\ u.cur = n /\ u.key = k
      <4>1. PICK q \in Proxies : LET u == sess[q] IN
               u.pc = "forget" /\ u.op # "create" /\ u.cur = n /\ u.key = k
        BY <3>3
      <4>2. q # p
        BY <1>1, <3>3, <4>1
      <4>3. sess'[q] = sess[q]
        BY <2>1, <4>2 DEF Unmoved
      <4> QED BY <4>1, <4>3 DEF Deleting
    <3> QED BY <2>4, <3>1, <3>2, <3>3 DEF Deleting
  <2> QED BY <2>1, <2>2, <2>3, <2>4, CacheKept DEF EntriesMove
<1> QED BY <1>2, <1>3, <1>4, <1>5 DEF HandlerStep


(* A row is changed: nobody is about to cache what it was, and the handler *)
(* that has changed it, unless it was absent, goes on to delete the entry. *)
LEMMA CommitCache ==
    ASSUME IInv, CalmEnvironment, OutageInv, CacheInv, NEW p \in Proxies, CommitWrite(p),
           FillsAreOver, UNCHANGED rm
    PROVE  CacheInv'
<1> DEFINE s == sess[p]
<1>0. PICK x, c : x = s.key /\ c = s.cur
  OBVIOUS
<1> DEFINE row == db[c][x]
           new == RowAfter(s.op, row, s.val)
           code == StatusCode(s.op, row)
<1>1. SessionOK(s) /\ s.key \in Keys /\ s.cur \in Nodes /\ s.op \in Ops
  BY AtHandler DEF OutageInv, HandlerStep
<1>2. /\ s.pc = "exec" /\ IsWrite(s.op) /\ UNCHANGED cached /\ Unmoved(p)
      /\ s.key = x /\ s.cur = c /\ x \in Keys /\ c \in Nodes
      /\ \A n \in Nodes, k \in Keys : db'[n][k] = IF n = c /\ k = x THEN new ELSE db[n][k]
      /\ sess'[p].op = s.op /\ sess'[p].key = x /\ sess'[p].cur = c /\ sess'[p].val = s.val
      /\ sess'[p].pc = IF code \in Success THEN "forget" ELSE "reply"
  BY <1>0, <1>1, CommitFields DEF SameRequest
<1>3. s.op \in {"create", "put", "delete"}
  BY <1>1, <1>2 DEF IsWrite, Ops
<1>4. /\ s.op = "put" => code \in Success
      /\ s.op = "delete" /\ new # row => code \in Success
      /\ s.op = "delete" => new = None
      /\ s.op = "create" /\ new # row => row = None
      /\ s.op = "create" /\ code \in Success => new = s.val
  BY DEF RowAfter, StatusCode, Success
<1>5. \A n \in Nodes, k \in Keys : Deleting(n, k) => Deleting(n, k)'
  BY <1>2, DeletingStays DEF Unmoved
<1>6. ASSUME NEW n \in Nodes, NEW k \in Keys PROVE EntryOK(n, k)'
  <2>0. EntryOK(n, k)
    BY DEF CacheInv
  <2> HIDE DEF new, code, row
  <2>1. CASE db'[n][k] = db[n][k]
    BY <1>2, <1>5, <2>0, <2>1 DEF EntryOK
  <2>2. CASE db'[n][k] # db[n][k]
    <3>1. n = c /\ k = x /\ new # row
      BY <1>2, <2>2 DEF row
    <3>2. CASE s.op = "create"
      <4>1. cached'[n][k] = None \/ Deleting(n, k)'
        BY <1>2, <1>4, <1>5, <2>0, <3>1, <3>2 DEF EntryOK, row
      <4> QED BY <4>1 DEF EntryOK
    <3>3. CASE s.op # "create"
      <4>1. sess'[p].pc = "forget"
        BY <1>2, <1>3, <1>4, <3>1, <3>3
      <4>2. Deleting(n, k)'
        BY <1>2, <3>1, <3>3, <4>1 DEF Deleting
      <4> QED BY <4>2 DEF EntryOK
    <3> QED BY <3>2, <3>3
  <2> QED BY <2>1, <2>2
<1>7. ASSUME NEW q \in Proxies PROVE FillOK(sess[q])'
  <2>1. CASE q = p
    <3>1. sess'[p].pc = "forget" /\ s.op = "create" => s.val = db'[c][x]
      BY <1>2, <1>4
    <3> HIDE DEF code
    <3> QED BY <1>2, <2>1, <3>1 DEF FillOK
  <2>2. CASE q # p
    <3>1. sess'[q] = sess[q] /\ FillOK(sess[q])
      BY <1>2, <2>2 DEF Unmoved, CacheInv
    <3>2. CASE sess[q].pc = "fill" \/ (sess[q].pc = "forget" /\ sess[q].op = "create")
      <4>1. PICK n, k : n = sess[q].cur /\ k = sess[q].key
        OBVIOUS
      <4>2. n \in Nodes /\ k \in Keys
        BY <3>2, <4>1 DEF IInv, SessionInv, WellFormed, AtBackend
      <4>3. Filling(q, n, k)
        BY <3>2, <4>1 DEF Filling
      <4>4. db'[n][k] = db[n][k]
        BY <4>2, <4>3 DEF FillsAreOver, CalmEnvironment
      <4> QED BY <3>1, <3>2, <4>1, <4>4 DEF FillOK
    <3>3. CASE ~(sess[q].pc = "fill" \/ (sess[q].pc = "forget" /\ sess[q].op = "create"))
      BY <3>1, <3>3 DEF FillOK
    <3> QED BY <3>2, <3>3
  <2> QED BY <2>1, <2>2
<1> QED BY <1>6, <1>7 DEF CacheInv

(* recover() changes a row of the backend being recovered, and then has    *)
(* its entry deleted; of the peers' rows it only has entries created.      *)
LEMMA SyncCache ==
    ASSUME IInv, CalmEnvironment, OutageInv, CacheInv, SyncValue, FillsAreOver,
           UNCHANGED sess
    PROVE  CacheInv'
<1>0. PICK c, x : c = hc.node /\ x = rm.key
  OBVIOUS
<1>1. /\ x \in Keys /\ UNCHANGED cached /\ rm.pc = "sync"
      /\ \A n \in Nodes, k \in Keys : db'[n][k] = IF n = c /\ k = x THEN rm.val ELSE db[n][k]
      /\ rm'.pc = "forget" /\ rm'.node = c /\ rm'.key = x
  BY <1>0, SyncFields
<1>2. ASSUME NEW n \in Nodes, NEW k \in Keys PROVE EntryOK(n, k)'
  <2>0. EntryOK(n, k)
    BY DEF CacheInv
  <2>1. CASE n = c /\ k = x
    BY <1>1, <2>1 DEF EntryOK, Deleting
  <2>2. CASE ~(n = c /\ k = x)
    <3>1. db'[n][k] = db[n][k] /\ cached'[n][k] = cached[n][k]
      BY <1>1, <2>2
    <3>2. Deleting(n, k) => Deleting(n, k)'
      BY <1>1 DEF Deleting
    <3> QED BY <2>0, <3>1, <3>2 DEF EntryOK
  <2> QED BY <2>1, <2>2
<1>3. ASSUME NEW q \in Proxies PROVE FillOK(sess[q])'
  <2>1. FillOK(sess[q])
    BY DEF CacheInv
  <2>2. CASE sess[q].pc = "fill" \/ (sess[q].pc = "forget" /\ sess[q].op = "create")
    <3>1. PICK n, k : n = sess[q].cur /\ k = sess[q].key
      OBVIOUS
    <3>2. n \in Nodes /\ k \in Keys
      BY <2>2, <3>1 DEF IInv, SessionInv, WellFormed, AtBackend
    <3>3. Filling(q, n, k)
      BY <2>2, <3>1 DEF Filling
    <3>4. db'[n][k] = db[n][k]
      BY <3>2, <3>3 DEF FillsAreOver, CalmEnvironment
    <3> QED BY <2>1, <2>2, <3>1, <3>4 DEF FillOK
  <2>3. CASE ~(sess[q].pc = "fill" \/ (sess[q].pc = "forget" /\ sess[q].op = "create"))
    BY <2>1, <2>3 DEF FillOK
  <2> QED BY <2>2, <2>3
<1> QED BY <1>2, <1>3 DEF CacheInv

LEMMA HealthCache ==
    ASSUME IInv, CalmEnvironment, OutageInv, CacheInv, CopyInv, Health
    PROVE  CacheInv'
<1>0. UNCHANGED sess /\ HealthStep /\ FillsAreOver
  BY DEF Health
<1>1. CASE SyncValue
  BY <1>0, <1>1, SyncCache
<1>2. CASE RecoveryStep /\ ~SyncValue
  <2>1. UNCHANGED db
    BY <1>2, CopyFields
  <2>2. \A q \in Proxies : FillOK(sess[q])'
    BY <1>0, <2>1, FillKept
  <2>3. CASE rm.pc = "forget"
    <3>1. DeleteKey(rm.node, rm.key)
      BY <1>2, <2>3 DEF RecoveryStep, ListOnline, FetchAllKeys, PickKey, CheckOwner,
         FetchCached, FetchRow, FetchFill, NoSource, SyncForget, EndRecover, InRecover
    <3>2. \A n \in Nodes, k \in Keys :
              cached'[n][k] = IF n = rm.node /\ k = rm.key THEN None ELSE cached[n][k]
      BY <3>1, DeleteOneEntry
    <3>3. \A n \in Nodes, k \in Keys :
              Deleting(n, k) => Deleting(n, k)' \/ cached'[n][k] = None
      BY <1>0, <3>2 DEF Deleting
    <3> QED BY <2>1, <2>2, <3>2, <3>3, CacheKept DEF EntriesMove
  <2>4. CASE rm.pc # "forget"
    <3>1. \A n \in Nodes, k \in Keys : cached'[n][k] \in {cached[n][k], db[n][k]}
      <4>1. CASE UNCHANGED cached
        BY <4>1
      <4>2. CASE \E n \in Nodes : CreateKey(n, rm.key, db[n][rm.key])
        BY <4>2, CreateOneEntry
      <4> QED BY <1>2, <2>4, <4>1, <4>2, CopyFields
    <3>2. \A n \in Nodes, k \in Keys : Deleting(n, k) => Deleting(n, k)'
      BY <1>0, <2>4 DEF Deleting
    <3> QED BY <2>1, <2>2, <3>1, <3>2, CacheKept DEF EntriesMove
  <2> QED BY <2>3, <2>4
<1>3. CASE StartRound \/ Ping
  <2>1. UNCHANGED <<db, cached, rm>>
    BY <1>3, StartFields, PingFields
  <2> QED BY <1>0, <2>1, StillCache
<1>4. CASE \/ MarkRecoveringStatus \/ MarkRecoveringRing \/ MarkUpStatus \/ MarkUpRing
           \/ CheckerDownStatus \/ CheckerDownRing
  <2>1. UNCHANGED <<db, cached>>
    BY <1>4, VisitFields
  <2>2. rm.pc # "forget"
    BY <1>4, VisitFields DEF IInv, CheckerInv
  <2>3. \A n \in Nodes, k \in Keys : Deleting(n, k) => Deleting(n, k)'
    BY <1>0, <2>2 DEF Deleting
  <2>4. \A q \in Proxies : FillOK(sess[q])'
    BY <1>0, <2>1, FillKept
  <2> QED BY <2>1, <2>3, <2>4, CacheKept DEF EntriesMove
<1> QED BY <1>0, <1>1, <1>2, <1>3, <1>4 DEF HealthStep

(* A crash leaves the backend with an empty cache.                         *)
LEMMA CrashCache ==
    ASSUME IInv, CalmEnvironment, OutageInv, CacheInv, NEW n \in Nodes, Crash(n)
    PROVE  CacheInv'
<1>1. /\ Settled /\ UNCHANGED <<db, rm>>
      /\ \A m \in Nodes, k \in Keys : cached'[m][k] = IF m = n THEN None ELSE cached[m][k]
      /\ \A q \in Proxies :
            /\ sess'[q].op = sess[q].op /\ sess'[q].key = sess[q].key
            /\ sess'[q].val = sess[q].val /\ sess'[q].cur = sess[q].cur
            /\ sess'[q].pc = IF sess[q].cur = n /\ sess[q].pc \in AtBackend
                             THEN "broken" ELSE sess[q].pc
  BY CrashFields
<1>2. \A q \in Proxies : FillOK(sess[q])'
  BY <1>1, FillKept
<1>3. ASSUME NEW m \in Nodes, NEW k \in Keys, Deleting(m, k)
      PROVE  Deleting(m, k)' \/ cached'[m][k] = None
  <2>1. CASE m = n
    BY <1>1, <2>1
  <2>2. CASE m # n
    <3>1. PICK q \in Proxies : LET s == sess[q] IN
              s.pc = "forget" /\ s.op # "create" /\ s.cur = m /\ s.key = k
      BY <1>1, <1>3 DEF Deleting, Settled, IInv, CheckerInv
    <3> QED BY <1>1, <2>2, <3>1 DEF Deleting
  <2> QED BY <2>1, <2>2
<1> QED BY <1>1, <1>2, <1>3, CacheKept DEF EntriesMove

LEMMA RestartCache ==
    ASSUME IInv, CacheInv, NEW n \in Nodes, Restart(n)
    PROVE  CacheInv'
BY StillCache DEF Restart, Start, healthVars

LEMMA PushOutCache ==
    ASSUME IInv, CacheInv, NEW n \in Nodes, NEW k \in Keys, PushOut(n, k)
    PROVE  CacheInv'
BY PushOutFields, StillCache

-----------------------------------------------------------------------------
(* The invariant is inductive.                                             *)
LEMMA CalmInit ==
    ASSUME Init, CalmEnvironment
    PROVE  CalmInv
<1> USE DEF Init
<1>1. /\ \A n \in Nodes : alive[n] /\ status[n] = "UP" /\ n \in onRing
      /\ hc.pc = "loop" /\ hc.pend = [n \in {} |-> "UP"]
      /\ \A p \in Proxies : sess[p] = Fresh /\ sess[p].pc = "recv" /\ sess[p].best = None
      /\ \A n \in Nodes, k \in Keys : db[n][k] = None /\ cached[n][k] = None
      /\ \A k \in Keys : legal[k] = {None}
  BY DEF RouterInit, BackendsInit, HealthInit, NoVisit, SessionInit, Fresh
<1>2. DOMAIN hc.pend = {}
  BY <1>1
<1>3. \A p \in Proxies : ~Busy(p) /\ ~Marking(p) /\ ~Writing(p) /\ \A k : ~WritesOn(p, k)
  BY <1>1 DEF Busy, Marking, Writing, WritesOn
<1>4. \A n \in Nodes : ~Troubled(n)
  BY <1>1, <1>2, <1>3 DEF Troubled
<1>5. Calm /\ MarksOK
  BY <1>1, <1>3 DEF Calm, MarksOK, Recovering
<1>6. \A p \in Proxies : SessionOK(sess[p]) /\ ReadAtHome(sess[p]) /\ FillOK(sess[p])
  BY <1>1 DEF SessionOK, ReadAtHome, AtBackend, FillOK
<1>7. OutageInv
  BY <1>3, <1>4, <1>5, <1>6 DEF OutageInv, OneOutage
<1>8. ASSUME NEW k \in Keys PROVE RowsOK(k)
  <2>1. UpHome(k) \subseteq Nodes /\ Home(k) \subseteq Nodes
    BY DEF UpHome, Home
  <2> QED BY <1>1, <2>1 DEF RowsOK, Agree, MissedPuts, Offers
<1>9. \A p \in Proxies : WriteOK(p) /\ ReadOK(p)
  BY <1>3 DEF WriteOK, ReadOK
<1>10. CopyInv
  BY <1>1 DEF CopyInv
<1>11. CacheInv
  BY <1>1, <1>6 DEF CacheInv, EntryOK
<1> QED BY <1>7, <1>8, <1>9, <1>10, <1>11 DEF CalmInv, DataInv

LEMMA ProxyCalm ==
    ASSUME IInv, CalmEnvironment, CalmInv, NEW p \in Proxies, Proxy(p)
    PROVE  CalmInv'
<1>1. ProxyStep(p) /\ History(p) /\ UNCHANGED <<hc, rm>> /\ Calm' /\ FillsAreOver
  BY DEF Proxy, healthVars
<1>2. OutageInv /\ DataInv /\ CacheInv /\ CopyInv
  BY DEF CalmInv
<1>3. OutageInv'
  BY <1>1, <1>2, RouteOutage, ConnectOutage, HandlerOutage, ReplyOutage, MarkingOutage,
     RespondOutage DEF ProxyStep
<1>4. CommitWrite(p) => HandlerStep(p)
  BY DEF HandlerStep
<1>5. DataInv'
  BY <1>1, <1>2, RouteData, ConnectData, CommitData, HandlerData, ReplyData, MarkingData,
     RespondData DEF ProxyStep
<1>6. CacheInv'
  BY <1>1, <1>2, <1>4, PassCache, HandlerCache, CommitCache
<1>7. CopyInv'
  <2>1. CASE hc.pc # "recover"
    BY <1>1, <2>1 DEF CopyInv
  <2>2. CASE hc.pc = "recover"
    <3>1. ~Writing(p)
      BY <1>2, <2>2 DEF OutageInv, Calm, CalmEnvironment, Recovering
    <3>2. ~CommitWrite(p)
      BY <3>1 DEF CommitWrite, Writing, Busy
    <3>3. UNCHANGED db
      BY <1>1, <3>2 DEF ProxyStep, Route, Connect, HandlerStep, ReadCache, SelectRow,
                        FillCache, UpdateCache, Reply, Broken, MarkDownStatus,
                        MarkDownRing, Respond, backendVars
    <3> QED BY <1>1, <1>2, <3>3, CopyStays
  <2> QED BY <2>1, <2>2
<1> QED BY <1>3, <1>5, <1>6, <1>7 DEF CalmInv

LEMMA CalmStep ==
    ASSUME IInv, CalmEnvironment, CalmInv, [Next]_vars
    PROVE  CalmInv'
<1>0. OutageInv /\ DataInv /\ CacheInv /\ CopyInv
  BY DEF CalmInv
<1>1. ASSUME NEW p \in Proxies, Request(p) PROVE CalmInv'
  <2>1. OutageInv' /\ DataInv' /\ CacheInv'
    BY <1>0, <1>1, RequestOutage, RequestData, RequestCache
  <2>2. CopyInv'
    BY <1>0, <1>1, RequestFields, CopyStays
  <2> QED BY <2>1, <2>2 DEF CalmInv
<1>2. ASSUME NEW p \in Proxies, Proxy(p) PROVE CalmInv'
  BY <1>2, ProxyCalm
<1>3. CASE Health
  BY <1>0, <1>3, HealthOutage, HealthData, HealthCache, HealthCopy DEF CalmInv
<1>4. ASSUME NEW n \in Nodes, Crash(n) PROVE CalmInv'
  <2>1. OutageInv' /\ DataInv' /\ CacheInv'
    BY <1>0, <1>4, CrashOutage, CrashData, CrashCache
  <2>2. CopyInv'
    BY <1>0, <1>4, CrashFields, CopyStays
  <2> QED BY <2>1, <2>2 DEF CalmInv
<1>5. ASSUME NEW n \in Nodes, Restart(n) PROVE CalmInv'
  <2>1. OutageInv' /\ DataInv' /\ CacheInv'
    BY <1>0, <1>5, RestartOutage, RestartData, RestartCache
  <2>2. CopyInv'
    BY <1>0, <1>5, CopyStays DEF Restart, Start, healthVars
  <2> QED BY <2>1, <2>2 DEF CalmInv
<1>6. ASSUME NEW n \in Nodes, NEW k \in Keys, PushOut(n, k) PROVE CalmInv'
  <2>1. OutageInv' /\ DataInv' /\ CacheInv'
    BY <1>0, <1>6, PushOutOutage, PushOutData, PushOutCache
  <2>2. CopyInv'
    BY <1>0, <1>6, PushOutFields, CopyStays
  <2> QED BY <2>1, <2>2 DEF CalmInv
<1>7. ~RestartLb
  BY DEF RestartLb, CalmEnvironment
<1>8. CASE UNCHANGED vars
  <2>1. UNCHANGED <<status, onRing, alive, db, cached, sess, hc, rm, legal, seen>>
    BY <1>8 DEF vars, routerVars, backendVars, healthVars, envVars
  <2>2. LessTrouble /\ MarksOK' /\ Calm'
    BY <1>0, <2>1
       DEF LessTrouble, Troubled, Marking, OutageInv, MarksOK, Recovering, Calm, Writing, Busy
  <2>3. OutageInv'
    BY <1>0, <2>1, <2>2, StillOutage
  <2>4. DataInv' /\ CacheInv' /\ CopyInv'
    BY <1>0, <2>1, SameStatus, SameBackends, StillData, StillCache, CopyStays
  <2> QED BY <2>3, <2>4 DEF CalmInv
<1> QED BY <1>1, <1>2, <1>3, <1>4, <1>5, <1>6, <1>7, <1>8 DEF Next

-----------------------------------------------------------------------------
(* One backend at a time may crash, as often as it may and at any moment   *)
(* of a PUT or a GET, and come back: a GET is never answered with a value  *)
(* that was not current at some moment of it.  getReadBackendsForKey never *)
(* gives out a replica that has missed a write, and a handler that changes *)
(* a row has deleted its entry in the cache before the write is answered.  *)
THEOREM CalmReadsCurrent ==
    ASSUME CalmEnvironment
    PROVE  Spec => []ReadsCurrent
<1>1. CalmInv => ReadsCurrent
  BY DEF CalmInv, DataInv, ReadOK, Busy, ReadsCurrent
<1>2. Init => CalmInv
  BY CalmInit
<1>3. IInv /\ CalmInv /\ [Next]_vars => CalmInv'
  BY CalmStep
<1> QED BY <1>1, <1>2, <1>3, InitInv, Inductive, PTL DEF Spec

(* What a client was told is stored is on some backend at every moment of  *)
(* the outage and of the recovery: recover(), which is given rows from the *)
(* caches of the peers, overwrites none by an older one, and of a key's    *)
(* replicas one is always in service.                                      *)
THEOREM CalmNotLost ==
    ASSUME CalmEnvironment
    PROVE  Spec => []NotLost
<1>1. ASSUME CalmInv PROVE NotLost
  <2>1. ASSUME NEW k \in Keys PROVE \E n \in Nodes : db[n][k] \in legal[k]
    <3>1. PICK t \in Nodes : \A n \in Nodes : n # t => ~Troubled(n)
      BY <1>1, DeploymentAssumption DEF CalmInv, OutageInv, OneOutage
    <3>2. PICK m \in Home(k) : m # t
      BY HomeHasAnother
    <3>3. m \in UpHome(k) /\ m \in Nodes
      BY <3>1, <3>2 DEF UpHome, Home, Troubled
    <3>4. Offers(m, k) \subseteq legal[k]
      BY <1>1, <3>3 DEF CalmInv, DataInv, RowsOK
    <3> QED BY <3>3, <3>4 DEF Offers
  <2> QED BY <2>1 DEF NotLost
<1>2. Init => CalmInv
  BY CalmInit
<1>3. IInv /\ CalmInv /\ [Next]_vars => CalmInv'
  BY CalmStep
<1>4. CalmInv => NotLost
  BY <1>1
<1> QED BY <1>2, <1>3, <1>4, InitInv, Inductive, PTL DEF Spec

(* When an outage is over and no write is under way, the replicas of every *)
(* key hold the same and their caches show nothing else: recovery has      *)
(* copied all that was missed.                                             *)
THEOREM CalmReplicasAgree ==
    ASSUME CalmEnvironment
    PROVE  Spec => []QuietReplicasAgree
<1>1. ASSUME IInv, CalmInv PROVE QuietReplicasAgree
  <2>1. SUFFICES ASSUME Settled, \A p \in Proxies : ~Writing(p), NEW k \in Keys
                 PROVE  \A m, n \in GetNodes(k) : Shown(m, k) = db[n][k]
    BY DEF QuietReplicasAgree
  <2>2. GetNodes(k) = Home(k) /\ Home(k) \subseteq Nodes
    BY <1>1, <2>1, SettledUntroubled, HomeIsRing DEF Home
  <2>3. UpHome(k) = Home(k)
    BY <2>1 DEF UpHome, Home, Settled
  <2>4. \A p \in Proxies : ~WritesOn(p, k)
    BY <2>1 DEF WritesOn
  <2>5. \A m, n \in Home(k) : db[m][k] = db[n][k]
    BY <1>1, <2>3, <2>4 DEF CalmInv, DataInv, RowsOK, Agree
  <2>6. rm.pc # "forget"
    BY <1>1, <2>1 DEF Settled, IInv, CheckerInv
  <2>7. \A m \in Nodes : cached[m][k] \in {None, db[m][k]}
    BY <1>1, <2>1, <2>6, QuietCaches DEF CalmInv
  <2>8. \A m \in Nodes : Shown(m, k) = db[m][k]
    BY <2>7 DEF Shown, Hit
  <2> QED BY <2>2, <2>5, <2>8
<1>2. Init => CalmInv
  BY CalmInit
<1>3. IInv /\ CalmInv /\ [Next]_vars => CalmInv'
  BY CalmStep
<1>4. IInv /\ CalmInv => QuietReplicasAgree
  BY <1>1
<1> QED BY <1>2, <1>3, <1>4, InitInv, Inductive, PTL DEF Spec
=============================================================================
