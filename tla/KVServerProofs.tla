--------------------------- MODULE KVServerProofs ---------------------------
(***************************************************************************)
(* Proofs about KVServer, for any number of threads, keys, values and      *)
(* connections and for every capacity of the cache.                        *)
(***************************************************************************)
EXTENDS KVServer, LruCacheProofs

Changing == {"create", "put", "update", "delete", "sync"}

(* What a request in each stage of its handler looks like.                 *)
ThreadOK(s) ==
    /\ s \in Thread
    /\ s.pc # "idle" /\ s.op # "allkeys" => s.key \in Keys
    /\ s.pc # "idle" /\ HasValue(s.op) => s.val \in Values
    /\ s.pc = "lookup" => s.op = "get"
    /\ s.pc = "commit" => s.op \in Changing
    /\ s.pc = "cache" => s.op \in Changing \union {"get"} /\ s.code # None
    /\ s.pc = "cache" /\ s.op = "get" => s.val \in Values
    /\ s.pc \in {"lookup", "connect", "exec"} /\ s.op = "get" => s.val = None
    /\ s.pc \in {"idle", "lookup", "connect", "exec", "commit"} => s.code = None

(* A thread that is about to commit holds the lock of its row, and the row *)
(* is as its statement found it.                                           *)
RowLocked(t) ==
    LET s == thread[t] IN
    s.pc = "commit" =>
        /\ lock[s.key] = t
        /\ s.op = "create" => table[s.key] = None
        /\ s.op \in {"update", "delete"} => table[s.key] # None

ServerInv ==
    /\ CacheInv
    /\ thread \in [Threads -> Thread]
    /\ table \in [Keys -> Rows]
    /\ lock \in [Keys -> Threads \union {None}]
    /\ \A t \in Threads : ThreadOK(thread[t]) /\ RowLocked(t)

(* What a step does, seen from the thread that takes it: only its own      *)
(* request changes, and a row and a lock only if they are those of its key *)
(* and nobody else holds them.                                             *)
StepOf(t) ==
    LET s == thread[t] IN
    /\ CacheInv'
    /\ thread' \in [Threads -> Thread]
    /\ \A u \in Threads \ {t} : thread'[u] = thread[u]
    /\ ThreadOK(thread'[t])
    /\ table' \in [Keys -> Rows]
    /\ lock' \in [Keys -> Threads \union {None}]
    /\ \A k \in Keys :
           \/ table'[k] = table[k] /\ (lock'[k] = lock[k] \/ lock[k] \in {t, None})
           \/ s.pc = "commit" /\ lock[k] = t
    /\ RowLocked(t)'

LEMMA StepPreserves ==
    ASSUME ServerInv, NEW t \in Threads, StepOf(t)
    PROVE  ServerInv'
<1>1. \A u \in Threads \ {t} : thread'[u] = thread[u]
  BY DEF StepOf
<1>2. ASSUME NEW u \in Threads \ {t}
      PROVE  RowLocked(u)'
  <2>1. SUFFICES ASSUME thread[u].pc = "commit"
                 PROVE  /\ lock'[thread[u].key] = u
                        /\ table'[thread[u].key] = table[thread[u].key]
    BY <1>1 DEF ServerInv, RowLocked
  <2>2. lock[thread[u].key] = u /\ thread[u].key \in Keys
    BY <2>1 DEF ServerInv, RowLocked, ThreadOK, Changing
  <2>3. u # t /\ u # None
    BY KVServerAssumption
  <2> QED BY <2>2, <2>3 DEF StepOf
<1>3. \A u \in Threads : ThreadOK(thread'[u]) /\ RowLocked(u)'
  BY <1>1, <1>2 DEF StepOf, ServerInv
<1> QED BY <1>3 DEF StepOf, ServerInv

(* A request moves on, with a status code, with a value.                   *)
Stages == {"idle", "lookup", "connect", "exec", "commit", "cache", "done"}

SameRequest(t) ==
    /\ thread' \in [Threads -> Thread]
    /\ \A u \in Threads \ {t} : thread'[u] = thread[u]
    /\ thread'[t].op = thread[t].op
    /\ thread'[t].key = thread[t].key

LEMMA GotoFields ==
    ASSUME ServerInv, NEW t \in Threads, NEW pc \in Stages, Goto(t, pc)
    PROVE  /\ SameRequest(t)
           /\ thread'[t].pc = pc /\ thread'[t].val = thread[t].val /\ thread'[t].code = thread[t].code
  BY DEF ServerInv, Goto, Thread, Stages, SameRequest

LEMMA DecideFields ==
    ASSUME ServerInv, NEW t \in Threads, NEW pc \in Stages,
           NEW code \in Codes, Decide(t, pc, code)
    PROVE  /\ SameRequest(t)
           /\ thread'[t].pc = pc /\ thread'[t].val = thread[t].val /\ thread'[t].code = code
<1>1. thread[t] \in Thread /\ DOMAIN thread[t] = {"pc", "op", "key", "val", "code"}
  BY DEF ServerInv, Thread
<1>2. thread'[t] = [pc |-> pc, op |-> thread[t].op, key |-> thread[t].key, val |-> thread[t].val, code |-> code]
  <2>1. thread'[t] = [thread[t] EXCEPT !.pc = pc, !.code = code]
    BY DEF ServerInv, Decide
  <2>2. /\ DOMAIN thread'[t] = DOMAIN thread[t]
        /\ thread'[t].pc = pc /\ thread'[t].op = thread[t].op /\ thread'[t].key = thread[t].key
        /\ thread'[t].val = thread[t].val /\ thread'[t].code = code
    BY <1>1, <2>1
  <2> QED BY <1>1, <2>1, <2>2
<1>3. thread'[t] \in Thread
  BY <1>1, <1>2 DEF Thread, Stages, Codes
<1>4. DOMAIN thread' = Threads /\ \A u \in Threads \ {t} : thread'[u] = thread[u]
  BY DEF ServerInv, Decide
<1>5. thread' \in [Threads -> Thread]
  BY <1>3, <1>4 DEF ServerInv, Decide
<1> QED BY <1>2, <1>4, <1>5 DEF SameRequest

LEMMA TakeFields ==
    ASSUME ServerInv, NEW t \in Threads, NEW pc \in Stages, NEW v \in Rows, Take(t, pc, v)
    PROVE  /\ SameRequest(t)
           /\ thread'[t].pc = pc /\ thread'[t].val = v /\ thread'[t].code = 200
<1>1. thread[t] \in Thread /\ DOMAIN thread[t] = {"pc", "op", "key", "val", "code"}
  BY DEF ServerInv, Thread
<1>2. thread'[t] = [pc |-> pc, op |-> thread[t].op, key |-> thread[t].key, val |-> v, code |-> 200]
  BY <1>1, ZenonT(60) DEF ServerInv, Take
<1>3. thread'[t] \in Thread
  BY <1>1, <1>2 DEF Thread, Stages, Codes
<1>4. DOMAIN thread' = Threads /\ \A u \in Threads \ {t} : thread'[u] = thread[u]
  BY DEF ServerInv, Take
<1>5. thread' \in [Threads -> Thread]
  BY <1>3, <1>4 DEF ServerInv, Take
<1> QED BY <1>2, <1>4, <1>5 DEF SameRequest

LEMMA SameCache == ASSUME CacheInv, UNCHANGED cacheVars PROVE CacheInv'
  BY DEF CacheInv, CacheTypeOK, ListAndMapAgree, Cached, cacheVars

LEMMA InitInv == Init => ServerInv
<1>1. SUFFICES ASSUME Init PROVE ServerInv
  OBVIOUS
<1>2. CacheInv
  BY <1>1, EmptyCacheInv DEF Init
<1>3. Idle \in Thread /\ Idle.pc = "idle" /\ Idle.op = None /\ Idle.code = None
  BY DEF Idle, Thread, Rows
<1>4. thread \in [Threads -> Thread] /\ \A t \in Threads : thread[t] = Idle
  BY <1>1, <1>3 DEF Init
<1>5. ThreadOK(Idle)
  BY <1>3 DEF ThreadOK
<1>6. \A t \in Threads : ThreadOK(thread[t]) /\ RowLocked(t)
  BY <1>3, <1>4, <1>5 DEF RowLocked
<1>7. table \in [Keys -> Rows] /\ lock \in [Keys -> Threads \union {None}]
  BY <1>1 DEF Init, Rows
<1> QED BY <1>2, <1>4, <1>6, <1>7 DEF ServerInv

LEMMA ReceiveStep ==
    ASSUME ServerInv, NEW t \in Threads, NEW r \in Requests, Receive(t, r)
    PROVE  StepOf(t)
<1>1. IsRequest(r) /\ r.op \in HandlerOps
  BY KVServerAssumption
<1>2. /\ r.op # "allkeys" => r.key \in Keys
      /\ r.op = "allkeys" => r.key = None
      /\ HasValue(r.op) => r.val \in Values
      /\ ~HasValue(r.op) => r.val = None
  BY <1>1 DEF IsRequest
<1>3. thread'[t] = [pc |-> IF r.op = "get" THEN "lookup" ELSE "connect",
           op |-> r.op, key |-> r.key, val |-> r.val, code |-> None]
  BY DEF Receive, ServerInv
<1>4. thread'[t] \in Thread
  BY <1>1, <1>2, <1>3 DEF Thread, Rows, HandlerOps
<1>5. ThreadOK(thread'[t])
  BY <1>2, <1>3, <1>4 DEF ThreadOK, HasValue
<1>6. CacheInv'
  BY SameCache DEF Receive, ServerInv, cacheVars
<1> QED BY <1>3, <1>4, <1>5, <1>6 DEF Receive, StepOf, RowLocked, dbVars, ServerInv

LEMMA LookupStep ==
    ASSUME ServerInv, NEW t \in Threads, CacheLookup(t)
    PROVE  StepOf(t)
<1> DEFINE s == thread[t]
<1>1. /\ s.pc = "lookup" /\ s.op = "get" /\ s.key \in Keys /\ ThreadOK(s)
      /\ s.code = None /\ s.val = None
  BY DEF CacheLookup, At, ServerInv, ThreadOK
<1>2. Lookup(s.key) \in Rows
  BY <1>1, CachedCell, KVServerAssumption DEF Lookup, ValueOf, Entry, ServerInv, Rows
<1>3. CacheInv'
  BY <1>1, ReadKeyInv DEF CacheLookup, ServerInv
<1>4. SameRequest(t) /\ ThreadOK(thread'[t]) /\ thread'[t].pc # "commit"
  <2>1. CASE Take(t, "done", Lookup(s.key))
    <3>1. SameRequest(t) /\ thread'[t].pc = "done"
      BY <1>2, <2>1, TakeFields DEF Stages
    <3> QED BY <1>1, <3>1 DEF SameRequest, ThreadOK, HasValue
  <2>2. CASE Goto(t, "connect")
    <3>1. /\ SameRequest(t) /\ thread'[t].pc = "connect"
          /\ thread'[t].code = s.code /\ thread'[t].val = s.val
      BY <2>2, GotoFields DEF Stages
    <3> QED BY <1>1, <3>1 DEF SameRequest, ThreadOK, HasValue
  <2> QED BY <2>1, <2>2 DEF CacheLookup
<1> QED BY <1>1, <1>3, <1>4 DEF CacheLookup, StepOf, SameRequest, RowLocked, dbVars, ServerInv

LEMMA ConnectStep ==
    ASSUME ServerInv, NEW t \in Threads, GetConnection(t)
    PROVE  StepOf(t)
<1>1. thread[t].pc = "connect" /\ ThreadOK(thread[t]) /\ UNCHANGED <<cacheVars, dbVars>>
  BY DEF GetConnection, At, ServerInv
<1>2. CASE Goto(t, "exec")
  <2>1. /\ SameRequest(t) /\ thread'[t].pc = "exec"
        /\ thread'[t].val = thread[t].val /\ thread'[t].code = thread[t].code
    BY <1>2, GotoFields DEF Stages
  <2>2. ThreadOK(thread'[t])
    BY <1>1, <2>1 DEF SameRequest, ThreadOK
  <2> QED BY <1>1, <2>1, <2>2, SameCache DEF StepOf, SameRequest, RowLocked, dbVars, ServerInv
<1>3. CASE Finish(t, 500)
  <2>1. SameRequest(t) /\ thread'[t].pc = "done" /\ thread'[t].val = thread[t].val
    BY <1>3, DecideFields DEF Codes, Stages, Finish
  <2>2. ThreadOK(thread'[t])
    BY <1>1, <2>1 DEF SameRequest, ThreadOK
  <2> QED BY <1>1, <2>1, <2>2, SameCache DEF StepOf, SameRequest, RowLocked, dbVars, ServerInv
<1> QED BY <1>2, <1>3 DEF GetConnection

(* A statement is refused, or locks its row and goes on to commit.         *)
LEMMA RejectStep ==
    ASSUME ServerInv, NEW t \in Threads, NEW code \in {404, 409},
           At(t, "exec"), Reject(t, code), UNCHANGED <<cacheVars, table>>
    PROVE  StepOf(t)
<1>1. SameRequest(t) /\ thread'[t].pc = "done" /\ thread'[t].val = thread[t].val
  BY DecideFields DEF Codes, Stages, Finish, Reject
<1>2. ThreadOK(thread'[t])
  BY <1>1 DEF SameRequest, ThreadOK, ServerInv, At
<1> QED BY <1>1, <1>2, SameCache DEF Reject, StepOf, SameRequest, RowLocked, ServerInv

LEMMA LockRowStep ==
    ASSUME ServerInv, NEW t \in Threads,
           At(t, "exec"), Free(t), LockRow(t), UNCHANGED <<cacheVars, table>>,
           thread[t].op \in Changing,
           thread[t].op = "create" => table[thread[t].key] = None,
           thread[t].op \in {"update", "delete"} => table[thread[t].key] # None
    PROVE  StepOf(t)
<1>1. /\ SameRequest(t) /\ thread'[t].pc = "commit"
      /\ thread'[t].val = thread[t].val /\ thread'[t].code = thread[t].code
  BY GotoFields DEF Stages, LockRow
<1>2. ThreadOK(thread'[t])
  BY <1>1 DEF SameRequest, ThreadOK, ServerInv, At
<1>3. thread[t].key \in Keys
  BY DEF ServerInv, ThreadOK, At, Changing
<1>4. /\ lock' = [lock EXCEPT ![thread[t].key] = t] /\ lock[thread[t].key] = None
  BY DEF LockRow, Free
<1>5. RowLocked(t)'
  BY <1>1, <1>3, <1>4 DEF RowLocked, SameRequest, ServerInv
<1> QED BY <1>1, <1>2, <1>3, <1>4, <1>5, SameCache DEF StepOf, SameRequest, ServerInv

LEMMA StatementStep ==
    ASSUME ServerInv, NEW t \in Threads, InsertRow(t) \/ UpsertRow(t) \/ ChangeRow(t)
    PROVE  StepOf(t)
<1>1. CASE InsertRow(t)
  BY <1>1, RejectStep, LockRowStep DEF InsertRow, Changing
<1>2. CASE UpsertRow(t)
  BY <1>2, LockRowStep DEF UpsertRow, Changing
<1>3. CASE ChangeRow(t)
  BY <1>3, RejectStep, LockRowStep DEF ChangeRow, Changing
<1> QED BY <1>1, <1>2, <1>3

LEMMA SelectStep ==
    ASSUME ServerInv, NEW t \in Threads, SelectRow(t) \/ SelectKeys(t)
    PROVE  StepOf(t)
<1>1. thread[t].pc = "exec" /\ ThreadOK(thread[t]) /\ UNCHANGED <<cacheVars, dbVars>>
  BY DEF SelectRow, SelectKeys, At, ServerInv
<1>2. CASE SelectRow(t) /\ Take(t, "cache", table[thread[t].key]) /\ table[thread[t].key] # None
  <2>1. thread[t].op = "get" /\ thread[t].key \in Keys /\ table[thread[t].key] \in Values
    BY <1>1, <1>2 DEF SelectRow, ThreadOK, ServerInv, Rows
  <2>2. /\ SameRequest(t) /\ thread'[t].pc = "cache" /\ thread'[t].val \in Values
        /\ thread'[t].code = 200
    BY <1>2, <2>1, TakeFields DEF Stages, Rows
  <2>3. 200 # None
    BY KVServerAssumption DEF Codes
  <2>4. ThreadOK(thread'[t])
    BY <1>1, <2>1, <2>2, <2>3 DEF SameRequest, ThreadOK
  <2> QED BY <1>1, <2>2, <2>4, SameCache DEF StepOf, SameRequest, RowLocked, dbVars, ServerInv
<1>3. ASSUME NEW code \in {404, 200}, Finish(t, code)
      PROVE  StepOf(t)
  <2>1. SameRequest(t) /\ thread'[t].pc = "done" /\ thread'[t].val = thread[t].val
    BY <1>3, DecideFields DEF Codes, Stages, Finish
  <2>2. ThreadOK(thread'[t])
    BY <1>1, <2>1 DEF SameRequest, ThreadOK
  <2> QED BY <1>1, <2>1, <2>2, SameCache DEF StepOf, SameRequest, RowLocked, dbVars, ServerInv
<1> QED BY <1>2, <1>3 DEF SelectRow, SelectKeys

LEMMA CommitFields ==
    ASSUME ServerInv, NEW t \in Threads, thread[t].pc = "commit",
           Commit(t, thread[t].key, NewRow(thread[t]))
    PROVE  /\ thread[t].key \in Keys /\ lock[thread[t].key] = t
           /\ table' \in [Keys -> Rows]
           /\ table'[thread[t].key] = NewRow(thread[t])
           /\ \A k \in Keys \ {thread[t].key} : table'[k] = table[k]
<1>1. thread[t].key \in Keys /\ lock[thread[t].key] = t
  BY DEF ServerInv, ThreadOK, RowLocked, Changing
<1>2. NewRow(thread[t]) \in Rows
  BY DEF NewRow, ServerInv, Thread, Rows
<1> QED BY <1>1, <1>2 DEF Commit, ServerInv

LEMMA CommitStep ==
    ASSUME ServerInv, NEW t \in Threads, CommitRow(t)
    PROVE  StepOf(t)
<1>1. thread[t].pc = "commit" /\ ThreadOK(thread[t])
  BY DEF CommitRow, At, ServerInv
<1>2. CommitCode(thread[t]) \in {200, 201} /\ CommitCode(thread[t]) # None
  BY KVServerAssumption DEF CommitCode, Codes
<1>3. /\ SameRequest(t) /\ thread'[t].pc = "cache" /\ thread'[t].val = thread[t].val
      /\ thread'[t].code = CommitCode(thread[t])
  BY <1>2, DecideFields DEF Codes, Stages, CommitRow
<1>4. ThreadOK(thread'[t])
  BY <1>1, <1>2, <1>3 DEF SameRequest, ThreadOK, Changing, HasValue
<1>5. lock' = [lock EXCEPT ![thread[t].key] = None]
  BY DEF CommitRow
<1>6. CacheInv'
  BY SameCache DEF CommitRow, ServerInv
<1>7. \A k \in Keys : (table'[k] = table[k] /\ lock'[k] = lock[k]) \/ lock[k] = t
  BY <1>1, <1>5, CommitFields DEF CommitRow, ServerInv
<1> QED BY <1>1, <1>3, <1>4, <1>5, <1>6, <1>7, CommitFields
        DEF CommitRow, StepOf, SameRequest, RowLocked, ServerInv

LEMMA FillStep ==
    ASSUME ServerInv, NEW t \in Threads, Fill(t)
    PROVE  StepOf(t)
<1>1. /\ thread[t].pc = "cache" /\ ThreadOK(thread[t])
      /\ thread[t].key \in Keys /\ thread[t].val \in Values
  BY DEF Fill, Fills, ServerInv, ThreadOK, HasValue
<1>2. CacheInv'
  BY <1>1, CreateKeyInv DEF Fill, ServerInv
<1>3. /\ SameRequest(t) /\ thread'[t].pc = "done"
      /\ thread'[t].val = thread[t].val /\ thread'[t].code = thread[t].code
  BY GotoFields DEF Stages, Fill
<1>4. ThreadOK(thread'[t])
  BY <1>1, <1>3 DEF SameRequest, ThreadOK
<1> QED BY <1>2, <1>3, <1>4 DEF Fill, StepOf, SameRequest, RowLocked, dbVars, ServerInv

LEMMA InvalidateStep ==
    ASSUME ServerInv, NEW t \in Threads, Invalidate(t)
    PROVE  StepOf(t)
<1>1. thread[t].pc = "cache" /\ ThreadOK(thread[t]) /\ thread[t].key \in Keys
  BY DEF Invalidate, Invalidates, ServerInv, ThreadOK, Changing
<1>2. CacheInv'
  BY <1>1, DeleteKeyInv DEF Invalidate, ServerInv
<1>3. /\ SameRequest(t) /\ thread'[t].pc = "done"
      /\ thread'[t].val = thread[t].val /\ thread'[t].code = thread[t].code
  BY GotoFields DEF Stages, Invalidate
<1>4. ThreadOK(thread'[t])
  BY <1>1, <1>3 DEF SameRequest, ThreadOK
<1> QED BY <1>2, <1>3, <1>4 DEF Invalidate, StepOf, SameRequest, RowLocked, dbVars, ServerInv

LEMMA ThrowStep ==
    ASSUME ServerInv, NEW t \in Threads, Throw(t)
    PROVE  StepOf(t)
<1>1. thread[t].pc \in {"connect", "exec", "commit"} /\ ThreadOK(thread[t])
  BY DEF Throw, ServerInv
<1>2. SameRequest(t) /\ thread'[t].pc = "done" /\ thread'[t].val = thread[t].val
  <2>1. Decide(t, "done", 500)
    BY DEF Throw, Finish
  <2> QED BY <2>1, DecideFields DEF Codes, Stages
<1>3. ThreadOK(thread'[t])
  BY <1>1, <1>2 DEF SameRequest, ThreadOK
<1>4. lock' = [k \in Keys |-> IF lock[k] = t THEN None ELSE lock[k]]
  BY DEF Throw
<1>5. lock' \in [Keys -> Threads \union {None}] /\ \A k \in Keys : lock'[k] = lock[k] \/ lock[k] = t
  BY <1>4 DEF ServerInv
<1>6. CacheInv'
  BY SameCache DEF Throw, ServerInv
<1>7. /\ table' \in [Keys -> Rows]
      /\ \A k \in Keys : table'[k] = table[k] \/ (thread[t].pc = "commit" /\ lock[k] = t)
  <2>1. CASE UNCHANGED table
    BY <2>1 DEF ServerInv
  <2>2. CASE thread[t].pc = "commit" /\ Commit(t, thread[t].key, NewRow(thread[t]))
    BY <2>2, CommitFields
  <2> QED BY <2>1, <2>2 DEF Throw
<1> QED BY <1>2, <1>3, <1>5, <1>6, <1>7 DEF StepOf, SameRequest, RowLocked

LEMMA AnswerStep ==
    ASSUME ServerInv, NEW t \in Threads, Answer(t)
    PROVE  StepOf(t)
<1>1. Idle \in Thread /\ ThreadOK(Idle) /\ Idle.pc = "idle"
  BY DEF Idle, Thread, ThreadOK, Rows
<1>2. thread' = [thread EXCEPT ![t] = Idle]
  BY DEF Answer
<1>3. CacheInv'
  BY SameCache DEF Answer, ServerInv
<1> QED BY <1>1, <1>2, <1>3 DEF Answer, StepOf, RowLocked, dbVars, ServerInv

LEMMA CrashInv == ASSUME ServerInv, Crash PROVE ServerInv'
<1>1. Idle \in Thread /\ ThreadOK(Idle) /\ Idle.pc = "idle"
  BY DEF Idle, Thread, ThreadOK, Rows
<1>2. thread' = [t \in Threads |-> Idle] /\ lock' = [k \in Keys |-> None] /\ UNCHANGED table
  BY DEF Crash
<1>3. CacheInv'
  BY LruCacheAssumption DEF Crash, CacheInv, CacheTypeOK, ListAndMapAgree, Cached, ToSet
<1> QED BY <1>1, <1>2, <1>3 DEF ServerInv, RowLocked

LEMMA HandlerStepOf ==
    ASSUME ServerInv, NEW t \in Threads, HandlerStep(t) \/ Throw(t)
    PROVE  StepOf(t)
  BY LookupStep, ConnectStep, StatementStep, SelectStep, CommitStep, FillStep, InvalidateStep,
     ThrowStep, AnswerStep DEF HandlerStep

LEMMA NextInv == ServerInv /\ [Next]_vars => ServerInv'
<1>1. SUFFICES ASSUME ServerInv, [Next]_vars PROVE ServerInv'
  OBVIOUS
<1>2. CASE UNCHANGED vars
  BY <1>1, <1>2, SameCache DEF vars, dbVars, cacheVars, ServerInv, RowLocked
<1>3. ASSUME NEW t \in Threads, NEW r \in Requests, Receive(t, r) PROVE ServerInv'
  BY <1>1, <1>3, ReceiveStep, StepPreserves
<1>4. ASSUME NEW t \in Threads, HandlerStep(t) \/ Throw(t) PROVE ServerInv'
  BY <1>1, <1>4, HandlerStepOf, StepPreserves
<1>5. CASE Crash
  BY <1>1, <1>5, CrashInv
<1> QED BY <1>1, <1>2, <1>3, <1>4, <1>5 DEF Next

LEMMA ServerInvariant == Spec => []ServerInv
  BY InitInv, NextInv, PTL DEF Spec

(* The handlers of any number of threads keep the list and the map of      *)
(* their common cache in agreement, through evictions, invalidations and   *)
(* restarts.                                                               *)
THEOREM ServerCacheSafe == Spec => []ListAndMapAgree
<1>1. ServerInv => ListAndMapAgree
  BY DEF ServerInv, CacheInv
<1> QED BY <1>1, ServerInvariant, PTL

-----------------------------------------------------------------------------
(* The step at which a handler decides on its answer.                      *)
DecisionOK(t) ==
    /\ Decides(t) /\ thread[t].op \in {"create", "put", "delete", "sync"} => WriteDecided(t)
    /\ Decides(t) /\ thread[t].op = "get" => GetDecided(t)

(* A GET is answered from the cache only on a hit ...                      *)
LEMMA LookupDecides ==
    ASSUME ServerInv, NEW t \in Threads, CacheLookup(t)
    PROVE  DecisionOK(t)
<1> DEFINE k == thread[t].key
<1>1. thread[t].op = "get" /\ k \in Keys
  BY DEF CacheLookup, At, ServerInv, ThreadOK
<1>2. CASE Goto(t, "connect")
  <2>1. ~Decides(t)
    BY <1>2, GotoFields DEF Stages, Decides
  <2> QED BY <2>1 DEF DecisionOK
<1>3. CASE Lookup(k) # EmptyValue /\ Take(t, "done", Lookup(k))
  <2>1. Cached(k) /\ Lookup(k) = ValueOf(k)
    BY <1>3 DEF Lookup
  <2>2. ValueOf(k) \in Values
    BY <1>1, <2>1, CachedCell DEF ServerInv, ValueOf, Entry
  <2>3. Lookup(k) \in Rows /\ Lookup(k) # None
    BY <2>1, <2>2, DeploymentAssumption DEF Rows
  <2>4. thread'[t].code = 200 /\ thread'[t].val = Lookup(k)
    BY <1>3, <2>3, TakeFields DEF Stages
  <2>5. EntryOf(k) = Lookup(k)
    BY <2>1 DEF EntryOf
  <2>6. \A n \in Nodes : B!Hit(n, k)
    BY <1>1, <1>3, <2>3, <2>5 DEF B!Hit
  <2> QED BY <1>1, <2>4, <2>5, <2>6 DEF DecisionOK, GetDecided
<1> QED BY <1>2, <1>3 DEF CacheLookup

(* ... and otherwise with what its row holds.                              *)
LEMMA SelectDecides ==
    ASSUME ServerInv, NEW t \in Threads, SelectRow(t)
    PROVE  DecisionOK(t)
<1> DEFINE row == table[thread[t].key]
<1>1. /\ thread[t].op = "get" /\ thread[t].pc = "exec" /\ thread[t].key \in Keys
      /\ thread[t].val = None /\ row \in Rows
  BY DEF SelectRow, At, ServerInv, ThreadOK
<1>2. CASE row = None /\ Finish(t, 404)
  <2>1. Decide(t, "done", 404) /\ 404 \in Codes /\ "done" \in Stages
    BY <1>2 DEF Finish, Codes, Stages
  <2>2. thread'[t].code = 404 /\ thread'[t].val = None
    BY <1>1, <2>1, DecideFields
  <2> QED BY <1>1, <1>2, <2>2 DEF DecisionOK, GetDecided, B!StatusCode
<1>3. CASE row # None /\ Take(t, "cache", row)
  <2>1. thread'[t].code = 200 /\ thread'[t].val = row
    BY <1>1, <1>3, TakeFields DEF Stages
  <2> QED BY <1>1, <1>3, <2>1 DEF DecisionOK, GetDecided, B!StatusCode
<1> QED BY <1>2, <1>3 DEF SelectRow

LEMMA StepDecides ==
    ASSUME ServerInv, ~CommitInDoubt,
           NEW t \in Threads, HandlerStep(t) \/ Throw(t)
    PROVE  /\ DecisionOK(t)
           /\ \A k \in Keys : table'[k] # table[k] => Decides(t) /\ thread[t].key = k
<1>1. ThreadOK(thread[t]) /\ RowLocked(t)
  BY DEF ServerInv
<1>2. CASE CommitRow(t)
  <2>1. Decide(t, "cache", CommitCode(thread[t])) /\ CommitCode(thread[t]) \in {200, 201}
    BY <1>2 DEF CommitRow, CommitCode
  <2>2. thread'[t].code = CommitCode(thread[t])
    <3>1. CommitCode(thread[t]) \in Codes /\ "cache" \in Stages
      BY <2>1 DEF Codes, Stages
    <3> QED BY <2>1, <3>1, DecideFields
  <2>3. Decides(t)
    <3>1. thread[t].code = None /\ None \notin {200, 201}
      BY <1>1, <1>2, KVServerAssumption DEF ThreadOK, CommitRow, At, Codes
    <3> QED BY <2>1, <2>2, <3>1 DEF Decides
  <2>4. /\ table'[thread[t].key] = NewRow(thread[t])
        /\ \A k \in Keys \ {thread[t].key} : table'[k] = table[k]
    BY <1>2, CommitFields DEF CommitRow, At
  <2>5. thread[t].op \in {"create", "put", "delete", "sync"} => WriteDecided(t)
    BY <1>1, <1>2, <2>1, <2>2, <2>4
    DEF WriteDecided, CommitCode, NewRow, RowLocked, CommitRow, At, B!StatusCode, B!RowAfter
  <2>6. thread[t].op # "get"
    BY <1>1, <1>2 DEF ThreadOK, Changing, CommitRow, At
  <2> QED BY <2>3, <2>4, <2>5, <2>6 DEF DecisionOK
<1>3. CASE InsertRow(t) /\ Reject(t, 409) /\ table[thread[t].key] # None
  <2>1. thread'[t].code = 409 /\ UNCHANGED table /\ thread[t].op = "create"
    <3>1. Decide(t, "done", 409) /\ 409 \in Codes /\ "done" \in Stages
      BY <1>3 DEF Reject, Finish, Codes, Stages
    <3> QED BY <1>3, <3>1, DecideFields DEF InsertRow
  <2> QED BY <1>3, <2>1 DEF DecisionOK, WriteDecided, B!StatusCode, B!RowAfter
<1>4. CASE ChangeRow(t) /\ Reject(t, 404) /\ table[thread[t].key] = None
  <2>1. thread'[t].code = 404 /\ UNCHANGED table /\ thread[t].op \in {"update", "delete"}
    <3>1. Decide(t, "done", 404) /\ 404 \in Codes /\ "done" \in Stages
      BY <1>4 DEF Reject, Finish, Codes, Stages
    <3> QED BY <1>4, <3>1, DecideFields DEF ChangeRow
  <2> QED BY <1>4, <2>1 DEF DecisionOK, WriteDecided, B!StatusCode, B!RowAfter
<1>5. CASE LockRow(t) /\ UNCHANGED table
  <2>1. ~Decides(t)
    BY <1>5, GotoFields DEF LockRow, Stages, Decides
  <2> QED BY <1>5, <2>1 DEF DecisionOK
<1>6. CASE GetConnection(t) \/ Throw(t)
  <2>1. UNCHANGED table
    BY <1>6 DEF GetConnection, Throw, dbVars
  <2>2. Goto(t, "exec") \/ Finish(t, 500)
    BY <1>6 DEF GetConnection, Throw
  <2>3. CASE Goto(t, "exec")
    <3>1. ~Decides(t)
      BY <2>3, GotoFields DEF Stages, Decides
    <3> QED BY <2>1, <3>1 DEF DecisionOK
  <2>4. CASE Finish(t, 500)
    <3>1. thread'[t].code = 500
      <4>1. Decide(t, "done", 500) /\ 500 \in Codes /\ "done" \in Stages
        BY <2>4 DEF Finish, Codes, Stages
      <4> QED BY <4>1, DecideFields
    <3> QED BY <2>1, <3>1 DEF DecisionOK, WriteDecided, GetDecided
  <2> QED BY <2>2, <2>3, <2>4
<1>7. CASE CacheLookup(t) \/ SelectRow(t) \/ SelectKeys(t)
  <2>1. UNCHANGED table
    BY <1>1, <1>7 DEF CacheLookup, SelectRow, SelectKeys, dbVars
  <2>2. SelectKeys(t) => thread[t].op = "allkeys"
    BY DEF SelectKeys
  <2> QED BY <1>7, <2>1, <2>2, LookupDecides, SelectDecides DEF DecisionOK
<1>8. CASE Fill(t) \/ Invalidate(t)
  <2>1. Goto(t, "done") /\ UNCHANGED table
    BY <1>8 DEF Fill, Invalidate, dbVars
  <2>2. ~Decides(t)
    BY <2>1, GotoFields DEF Stages, Decides
  <2> QED BY <2>1, <2>2 DEF DecisionOK
<1>9. CASE Answer(t)
  <2>1. thread'[t] = Idle /\ UNCHANGED table
    BY <1>9 DEF Answer, dbVars, ServerInv
  <2>2. ~Decides(t)
    BY <2>1 DEF Idle, Decides
  <2> QED BY <2>1, <2>2 DEF DecisionOK
<1> QED BY <1>2, <1>3, <1>4, <1>5, <1>6, <1>7, <1>8, <1>9
        DEF HandlerStep, InsertRow, UpsertRow, ChangeRow

(* What the steps do to the entries of the cache.                          *)
EntriesOK ==
    /\ \A k \in Keys : EntryOf(k)' \notin {EntryOf(k), None} => EntryCreated(k)
    /\ \A t \in Threads :
          Invalidates(t) /\ thread'[t].pc = "done" => EntryOf(thread[t].key)' = None

LEMMA SameEntries ==
    ASSUME UNCHANGED <<cache_map, cell>>,
           \A t \in Threads : Invalidates(t) => thread'[t].pc # "done"
    PROVE  EntriesOK
<1>1. \A k \in Keys : EntryOf(k)' = EntryOf(k)
  BY DEF EntryOf, Cached, ValueOf
<1> QED BY <1>1 DEF EntriesOK

LEMMA FillEntries ==
    ASSUME ServerInv, NEW t \in Threads, Fill(t)
    PROVE  EntriesOK
<1> DEFINE k == thread[t].key
<1>1. /\ k \in Keys /\ thread[t].val \in Values /\ Fills(t) /\ ~Invalidates(t)
      /\ CreateKey(k, thread[t].val) /\ CacheInv
  BY DEF Fill, Fills, Invalidates, ServerInv, ThreadOK, HasValue
<1>2. ASSUME NEW x \in Keys, EntryOf(x)' \notin {EntryOf(x), None}
      PROVE  EntryCreated(x)
  <2>1. Cached(x)' /\ EntryOf(x)' = ValueOf(x)'
    BY <1>2 DEF EntryOf
  <2>2. ~(Cached(x) /\ ValueOf(x)' = ValueOf(x))
    BY <1>2, <2>1 DEF EntryOf
  <2>3. x = k /\ ValueOf(x)' = thread[t].val
    BY <1>1, <2>1, <2>2, CreateKeyValues
  <2>4. ~Cached(k)
    <3>1. SUFFICES ASSUME UNCHANGED cacheVars PROVE FALSE
      BY <1>1 DEF CreateKey
    <3> QED BY <1>2, <3>1 DEF EntryOf, Cached, ValueOf, cacheVars
  <2> QED BY <1>1, <2>1, <2>3, <2>4 DEF EntryCreated, EntryOf
<1>3. \A u \in Threads \ {t} : thread'[u] = thread[u]
  BY DEF Fill, Goto, ServerInv
<1>4. \A u \in Threads : Invalidates(u) => thread'[u].pc # "done"
  BY <1>1, <1>3 DEF Invalidates
<1> QED BY <1>2, <1>4 DEF EntriesOK

LEMMA InvalidateEntries ==
    ASSUME ServerInv, NEW t \in Threads, Invalidate(t)
    PROVE  EntriesOK
<1> DEFINE k == thread[t].key
<1>1. k \in Keys /\ DeleteKey(k) /\ CacheInv
  BY DEF Invalidate, Invalidates, ServerInv, ThreadOK, Changing
<1>2. \A x \in Keys : Cached(x)' => x # k /\ Cached(x) /\ ValueOf(x)' = ValueOf(x)
  BY <1>1, DeleteKeyValues
<1>3. \A x \in Keys : EntryOf(x)' \in {EntryOf(x), None}
  BY <1>2 DEF EntryOf
<1>4. \A u \in Threads \ {t} : thread'[u] = thread[u]
  BY DEF Invalidate, Goto, ServerInv
<1>5. ASSUME NEW u \in Threads, Invalidates(u), thread'[u].pc = "done"
      PROVE  EntryOf(thread[u].key)' = None
  <2>1. u = t
    BY <1>4, <1>5 DEF Invalidates
  <2>2. PICK x \in Keys : x = k
    BY <1>1
  <2>3. EntryOf(x)' = None
    BY <1>2, <2>2 DEF EntryOf
  <2>4. thread'[u].key = x
    BY <2>1, <2>2 DEF Invalidate, Goto, ServerInv, Thread
  <2> QED BY <2>3, <2>4 DEF EntryOf, Cached, ValueOf
<1> QED BY <1>3, <1>5 DEF EntriesOK

LEMMA StepEntries ==
    ASSUME ServerInv, [Next]_vars
    PROVE  EntriesOK
<1>1. CASE UNCHANGED vars
  BY <1>1, SameEntries DEF vars, cacheVars, Invalidates
<1>2. ASSUME NEW t \in Threads, NEW r \in Requests, Receive(t, r) PROVE EntriesOK
  <2>1. /\ \A u \in Threads \ {t} : thread'[u] = thread[u]
        /\ thread[t].pc = "idle" /\ UNCHANGED <<cache_map, cell>>
    BY <1>2 DEF Receive, At, ServerInv, cacheVars
  <2> QED BY <2>1, SameEntries DEF Invalidates
<1>3. ASSUME NEW t \in Threads, HandlerStep(t) \/ Throw(t), ~Fill(t), ~Invalidate(t)
      PROVE  EntriesOK
  <2>1. \A u \in Threads \ {t} : thread'[u] = thread[u]
    BY <1>3, HandlerStepOf DEF StepOf
  <2>2. UNCHANGED <<cache_map, cell>> /\ thread[t].pc # "cache"
    BY <1>3 DEF HandlerStep, CacheLookup, ReadKey, GetConnection, InsertRow, UpsertRow,
       ChangeRow, SelectRow, SelectKeys, CommitRow, Throw, Answer, At, cacheVars
  <2> QED BY <2>1, <2>2, SameEntries DEF Invalidates
<1>4. CASE Crash
  <2>1. \A k \in Keys : EntryOf(k)' = None
    BY <1>4 DEF Crash, EntryOf, Cached
  <2>2. \A t \in Threads : thread'[t].pc # "done"
    BY <1>4 DEF Crash, Idle
  <2> QED BY <2>1, <2>2 DEF EntriesOK
<1> QED BY <1>1, <1>2, <1>3, <1>4, FillEntries, InvalidateEntries DEF Next

(* For any number of threads a request that is not answered with a 500     *)
(* changes its row in the step that decides on the answer, as Backends has *)
(* its transaction do in one step; no other step changes a row.  The row   *)
(* lock makes it so: the row a statement has found is still the same when  *)
(* the transaction commits.  A GET decides on an entry of the cache or on  *)
(* the row, and entries come and go as Backends has it.                    *)
THEOREM OneStepHandlers ==
    ASSUME ~CommitInDoubt
    PROVE  Spec => HandlersAreTransactions
<1> DEFINE Transactions ==
        /\ \A k \in Keys : table'[k] # table[k] =>
               \E t \in Threads : Decides(t) /\ thread[t].key = k
        /\ \A t \in Threads : DecisionOK(t)
<1>1. ASSUME ServerInv, [Next]_vars
      PROVE  Transactions
  <2>1. CASE UNCHANGED vars
    BY <2>1 DEF vars, dbVars, Decides, DecisionOK
  <2>2. ASSUME NEW t \in Threads, NEW r \in Requests, Receive(t, r) PROVE Transactions
    <3>1. /\ \A u \in Threads \ {t} : thread'[u] = thread[u]
          /\ thread'[t].code = None /\ UNCHANGED table
      BY <1>1, <2>2 DEF Receive, ServerInv, dbVars
    <3>2. \A u \in Threads : ~Decides(u)
      BY <3>1 DEF Decides
    <3> QED BY <3>1, <3>2 DEF DecisionOK
  <2>3. ASSUME NEW t \in Threads, HandlerStep(t) \/ Throw(t) PROVE Transactions
    <3>1. \A u \in Threads \ {t} : ~Decides(u)
      BY <1>1, <2>3, HandlerStepOf DEF StepOf, Decides
    <3> QED BY <1>1, <2>3, <3>1, StepDecides DEF DecisionOK
  <2>4. CASE Crash
    <3>1. UNCHANGED table /\ \A t \in Threads : ~Decides(t)
      BY <2>4 DEF Crash, Idle, Decides
    <3> QED BY <3>1 DEF DecisionOK
  <2> QED BY <1>1, <2>1, <2>2, <2>3, <2>4 DEF Next
<1>2. Transactions /\ EntriesOK =>
       /\ \A k \in Keys :
              /\ table'[k] # table[k] => \E t \in Threads : Decides(t) /\ thread[t].key = k
              /\ EntryOf(k)' \notin {EntryOf(k), None} => EntryCreated(k)
       /\ \A t \in Threads :
              /\ Decides(t) /\ thread[t].op \in {"create", "put", "delete", "sync"} =>
                     WriteDecided(t)
              /\ Decides(t) /\ thread[t].op = "get" => GetDecided(t)
              /\ Invalidates(t) /\ thread'[t].pc = "done" => EntryOf(thread[t].key)' = None
  BY Zenon DEF DecisionOK, EntriesOK
<1>3. ServerInv /\ [Next]_vars => EntriesOK
  BY StepEntries
<1> HIDE DEF Transactions
<1> QED BY <1>1, <1>2, <1>3, ServerInvariant, PTL DEF Spec, HandlersAreTransactions

-----------------------------------------------------------------------------
(* A thread that is about to fill the cache has the row as it is.          *)
FillsCurrent == \A t \in Threads : Fills(t) => thread[t].val = table[thread[t].key]

FreshInv == FillsCurrent /\ CacheFollowsTable

(* Steps that touch neither cache nor table, and in which a thread that    *)
(* reaches or leaves a cache operation has nothing to answer for.          *)
LEMMA QuietStep ==
    ASSUME FreshInv, NEW t \in Threads,
           \A u \in Threads \ {t} : thread'[u] = thread[u],
           ~Invalidates(t),
           Fills(t)' => thread'[t].val = table[thread'[t].key],
           UNCHANGED <<cache_map, cell, table>>
    PROVE  FreshInv'
<1>1. FillsCurrent'
  BY DEF FreshInv, FillsCurrent, Fills
<1>2. CacheFollowsTable'
  <2>1. SUFFICES ASSUME NEW k \in Keys, Cached(k)', ValueOf(k)' # table'[k]
                 PROVE  \E u \in Threads : thread'[u].key = k /\ Invalidates(u)'
    BY DEF CacheFollowsTable
  <2>2. Cached(k) /\ ValueOf(k) # table[k]
    BY <2>1 DEF Cached, ValueOf
  <2>3. PICK u \in Threads : thread[u].key = k /\ Invalidates(u)
    BY <2>2 DEF FreshInv, CacheFollowsTable
  <2> QED BY <2>3 DEF Invalidates
<1> QED BY <1>1, <1>2 DEF FreshInv

LEMMA CommitFresh ==
    ASSUME ServerInv, FreshInv, ~LateFill, NEW t \in Threads, CommitRow(t)
    PROVE  FreshInv'
<1> DEFINE k == thread[t].key
<1>1. /\ thread[t].pc = "commit" /\ thread[t].op \in Changing /\ RowLocked(t)
      /\ Undisturbed(t) /\ UNCHANGED <<cache_map, cell>>
  BY DEF CommitRow, At, ServerInv, ThreadOK, cacheVars
<1>2. /\ k \in Keys
      /\ table'[k] = NewRow(thread[t])
      /\ \A x \in Keys \ {k} : table'[x] = table[x]
  BY <1>1, CommitFields DEF CommitRow
<1>3. CommitCode(thread[t]) \in Codes
  BY DEF CommitCode, Codes
<1>4. SameRequest(t) /\ thread'[t].pc = "cache" /\ thread'[t].val = thread[t].val
  BY <1>3, DecideFields DEF Stages, CommitRow
<1>5. FillsCurrent'
  <2>1. SUFFICES ASSUME NEW u \in Threads, Fills(u)'
                 PROVE  thread'[u].val = table'[thread'[u].key]
    BY DEF FillsCurrent
  <2>2. CASE u = t
    <3>1. NewRow(thread[t]) = thread[t].val
      BY <1>1, <1>4, <2>1, <2>2 DEF Fills, NewRow, Changing, SameRequest
    <3> QED BY <1>2, <1>4, <2>2, <3>1 DEF SameRequest
  <2>3. CASE u # t
    <3>1. Fills(u) /\ thread'[u] = thread[u]
      BY <1>4, <2>1, <2>3 DEF Fills, SameRequest
    <3>2. thread[u].key # k
      BY <1>1, <2>3, <3>1 DEF Undisturbed
    <3>3. thread[u].key \in Keys
      BY <3>1 DEF Fills, ServerInv, ThreadOK
    <3> QED BY <1>2, <3>1, <3>2, <3>3 DEF FreshInv, FillsCurrent
  <2> QED BY <2>2, <2>3
<1>6. CacheFollowsTable'
  <2>1. SUFFICES ASSUME NEW x \in Keys, Cached(x)', ValueOf(x)' # table'[x]
                 PROVE  \E u \in Threads : thread'[u].key = x /\ Invalidates(u)'
    BY DEF CacheFollowsTable
  <2>2. Cached(x) /\ ValueOf(x)' = ValueOf(x)
    BY <1>1, <2>1 DEF Cached, ValueOf
  <2>3. ASSUME NEW u \in Threads, thread[u].key = x, Invalidates(u)
        PROVE  thread'[u].key = x /\ Invalidates(u)'
    BY <1>1, <1>4, <2>3 DEF Invalidates, SameRequest
  <2>4. CASE x # k
    BY <1>2, <2>1, <2>2, <2>3, <2>4 DEF FreshInv, CacheFollowsTable
  <2>5. CASE x = k /\ thread[t].op = "create"
    <3>1. table[x] = None
      BY <1>1, <2>5 DEF RowLocked
    <3>2. ValueOf(x) \in Values
      BY <2>2, CachedCell DEF ServerInv, ValueOf, Entry
    <3> QED BY <2>2, <2>3, <3>1, <3>2, DeploymentAssumption DEF FreshInv, CacheFollowsTable
  <2>6. CASE x = k /\ thread[t].op # "create"
    BY <1>1, <1>4, <2>6 DEF Invalidates, SameRequest, Changing
  <2> QED BY <2>4, <2>5, <2>6
<1> QED BY <1>5, <1>6 DEF FreshInv

(* After an operation on the cache an entry is an old one, though not the  *)
(* one that is invalidated, or has the value of its row.                   *)
LEMMA CacheOpValues ==
    ASSUME ServerInv, FreshInv, NEW t \in Threads, Fill(t) \/ Invalidate(t),
           NEW x \in Keys, Cached(x)'
    PROVE  \/ /\ Cached(x) /\ ValueOf(x)' = ValueOf(x)
              /\ Invalidates(t) => x # thread[t].key
           \/ ValueOf(x)' = table'[x]
<1> DEFINE k == thread[t].key
<1>1. k \in Keys /\ UNCHANGED table
  BY DEF Fill, Fills, Invalidate, Invalidates, ServerInv, ThreadOK, Changing, dbVars
<1>2. CASE Fill(t)
  <2>1. thread[t].val = table[k] /\ ~Invalidates(t)
    BY <1>2 DEF FreshInv, FillsCurrent, Fill, Fills, Invalidates
  <2>2. thread[t].val \in Values
    BY <1>2 DEF Fill, Fills, ServerInv, ThreadOK, HasValue
  <2>3. CreateKey(k, thread[t].val) /\ CacheInv
    BY <1>2 DEF Fill, ServerInv
  <2> QED BY <1>1, <2>1, <2>2, <2>3, CreateKeyValues
<1>3. CASE Invalidate(t)
  <2>1. DeleteKey(k) /\ CacheInv
    BY <1>3 DEF Invalidate, ServerInv
  <2> QED BY <1>1, <2>1, DeleteKeyValues
<1> QED BY <1>2, <1>3

LEMMA CacheOpFresh ==
    ASSUME ServerInv, FreshInv, NEW t \in Threads, Fill(t) \/ Invalidate(t)
    PROVE  FreshInv'
<1> DEFINE k == thread[t].key
<1>1. UNCHANGED table
  BY DEF Fill, Invalidate, dbVars
<1>2. SameRequest(t) /\ thread'[t].pc = "done"
  BY GotoFields DEF Stages, Fill, Invalidate
<1>3. FillsCurrent'
  BY <1>1, <1>2 DEF FreshInv, FillsCurrent, Fills, SameRequest
<1>4. CacheFollowsTable'
  <2>1. SUFFICES ASSUME NEW x \in Keys, Cached(x)', ValueOf(x)' # table'[x]
                 PROVE  \E u \in Threads : thread'[u].key = x /\ Invalidates(u)'
    BY DEF CacheFollowsTable
  <2>2. Cached(x) /\ ValueOf(x) # table[x] /\ (Invalidates(t) => x # k)
    BY <1>1, <2>1, CacheOpValues
  <2>3. PICK u \in Threads : thread[u].key = x /\ Invalidates(u)
    BY <2>2 DEF FreshInv, CacheFollowsTable
  <2>4. u # t
    BY <2>2, <2>3
  <2> QED BY <1>2, <2>3, <2>4 DEF Invalidates, SameRequest
<1> QED BY <1>3, <1>4 DEF FreshInv

LEMMA HandlerFresh ==
    ASSUME ServerInv, FreshInv, ~LateFill, ~CommitInDoubt,
           NEW t \in Threads, HandlerStep(t) \/ Throw(t)
    PROVE  FreshInv'
<1>1. StepOf(t)
  BY HandlerStepOf
<1>2. CASE CommitRow(t) \/ Fill(t) \/ Invalidate(t)
  BY <1>2, CommitFresh, CacheOpFresh
<1>3. CASE SelectRow(t)
  <2>1. thread[t].pc = "exec" /\ UNCHANGED <<cache_map, cell, table>>
    BY <1>3 DEF SelectRow, At, cacheVars, dbVars
  <2>2. CASE Finish(t, 404)
    <3>1. thread'[t].pc = "done"
      BY <2>2, DecideFields DEF Finish, Codes, Stages
    <3> QED BY <1>1, <2>1, <3>1, QuietStep DEF StepOf, Fills, Invalidates
  <2>3. CASE Take(t, "cache", table[thread[t].key]) /\ thread[t].op = "get"
    <3>1. thread[t].key \in Keys
      BY <2>1, <2>3 DEF ServerInv, ThreadOK
    <3>2. SameRequest(t) /\ thread'[t].val = table[thread[t].key]
      BY <2>3, <3>1, TakeFields DEF Stages, ServerInv
    <3> QED BY <1>1, <2>1, <3>2, QuietStep DEF StepOf, SameRequest, Invalidates
  <2> QED BY <1>3, <2>2, <2>3 DEF SelectRow
<1>4. CASE ~(CommitRow(t) \/ Fill(t) \/ Invalidate(t) \/ SelectRow(t))
  <2>1. UNCHANGED <<cache_map, cell, table>> /\ thread[t].pc # "cache"
    BY <1>4 DEF HandlerStep, Throw, CacheLookup, GetConnection, InsertRow, UpsertRow, ChangeRow,
                SelectKeys, Answer, At, ReadKey, cacheVars, dbVars
  <2>2. thread'[t].pc # "cache"
    <3>1. CASE Goto(t, "connect") \/ Goto(t, "exec") \/ Goto(t, "commit")
      BY <3>1, GotoFields DEF Stages
    <3>2. ASSUME NEW code \in Codes, Finish(t, code) PROVE thread'[t].pc = "done"
      BY <3>2, DecideFields DEF Finish, Stages
    <3>3. CASE CacheLookup(t) /\ Take(t, "done", Lookup(thread[t].key))
      BY <3>3 DEF Take, ServerInv, Thread
    <3>4. CASE Answer(t)
      BY <3>4 DEF Answer, Idle, ServerInv
    <3> QED BY <1>4, <3>1, <3>2, <3>3, <3>4
            DEF HandlerStep, Throw, CacheLookup, GetConnection, InsertRow, UpsertRow, ChangeRow,
                SelectKeys, LockRow, Reject, Codes
  <2> QED BY <1>1, <2>1, <2>2, QuietStep DEF StepOf, Fills, Invalidates
<1> QED BY <1>2, <1>3, <1>4

LEMMA InitFresh == Init => FreshInv
  BY DEF Init, EmptyCache, FreshInv, FillsCurrent, Fills, CacheFollowsTable, Cached, Idle

LEMMA NextFresh ==
    ASSUME ServerInv, FreshInv, [Next]_vars, ~LateFill, ~CommitInDoubt
    PROVE  FreshInv'
<1>1. CASE UNCHANGED vars
  BY <1>1 DEF vars, cacheVars, dbVars, FreshInv, FillsCurrent, Fills, Invalidates,
              CacheFollowsTable, Cached, ValueOf
<1>2. ASSUME NEW t \in Threads, NEW r \in Requests, Receive(t, r) PROVE FreshInv'
  <2>1. /\ thread[t].pc = "idle" /\ thread'[t].pc # "cache"
        /\ UNCHANGED <<cache_map, cell, table>>
        /\ \A u \in Threads \ {t} : thread'[u] = thread[u]
    BY <1>2 DEF Receive, At, ServerInv, cacheVars, dbVars
  <2> QED BY <2>1, QuietStep DEF Fills, Invalidates
<1>3. ASSUME NEW t \in Threads, HandlerStep(t) \/ Throw(t) PROVE FreshInv'
  BY <1>3, HandlerFresh
<1>4. CASE Crash
  BY <1>4 DEF Crash, FreshInv, FillsCurrent, Fills, CacheFollowsTable, Cached, Idle
<1> QED BY <1>1, <1>2, <1>3, <1>4 DEF Next

(* As long as no commit overtakes a fill of its key and commit() tells the *)
(* truth, no number of threads leaves a stale entry behind: whatever reads *)
(* and writes run at once, a cached value that is not the row's is about   *)
(* to be invalidated.                                                      *)
THEOREM NothingStaleStays ==
    ASSUME ~LateFill, ~CommitInDoubt
    PROVE  Spec => []CacheFollowsTable
<1>1. ServerInv /\ FreshInv /\ [Next]_vars => FreshInv'
  BY NextFresh
<1>2. FreshInv => CacheFollowsTable
  BY DEF FreshInv
<1> QED BY <1>1, <1>2, InitFresh, ServerInvariant, PTL DEF Spec

-----------------------------------------------------------------------------
(* Reads are current.  What a read answers depends on where the entry it   *)
(* finds came from.  The invariant therefore says of the row and of the    *)
(* entry of every key that a read which starts now may be given them, and  *)
(* of every request under way that it may still be given them (read), or   *)
(* that whoever reads after its answer may (write).                        *)
HistoryType ==
    /\ faults \in 0 .. MaxFaults
    /\ legal \in [Keys -> SUBSET Rows]
    /\ since \in [Threads -> SUBSET Rows]

LEMMA CommitType ==
    ASSUME ServerInv, HistoryType, NEW t \in Threads, thread[t].pc = "commit",
           Commit(t, thread[t].key, NewRow(thread[t]))
    PROVE  legal' \in [Keys -> SUBSET Rows] /\ since' \in [Threads -> SUBSET Rows]
<1>1. NewRow(thread[t]) \in Rows
  BY DEF NewRow, ServerInv, Thread, Rows
<1>2. legal' \in [Keys -> SUBSET Rows]
  BY <1>1 DEF Commit, HistoryType
<1>3. since' \in [Threads -> SUBSET Rows]
  BY <1>1 DEF Commit, HistoryType
<1> QED BY <1>2, <1>3

LEMMA NextHistoryType ==
    ASSUME ServerInv, HistoryType, [Next]_vars
    PROVE  HistoryType'
<1>1. CASE UNCHANGED vars
  BY <1>1 DEF vars, history, HistoryType
<1>2. ASSUME NEW t \in Threads, NEW r \in Requests, Receive(t, r) PROVE HistoryType'
  <2>1. r.op = "get" => r.key \in Keys
    BY KVServerAssumption DEF IsRequest
  <2>2. since' \in [Threads -> SUBSET Rows]
    BY <1>2, <2>1 DEF Receive, HistoryType
  <2> QED BY <1>2, <2>2 DEF Receive, HistoryType
<1>3. ASSUME NEW t \in Threads, CommitRow(t) PROVE HistoryType'
  BY <1>3, CommitType DEF CommitRow, At, HistoryType
<1>4. ASSUME NEW t \in Threads, Throw(t) PROVE HistoryType'
  <2>1. faults' \in 0 .. MaxFaults
    BY <1>4, KVServerAssumption DEF Throw, HistoryType
  <2> QED BY <1>4, <2>1, CommitType DEF Throw, HistoryType
<1>5. ASSUME NEW t \in Threads, Answer(t) PROVE HistoryType'
  <2>1. legal' \in [Keys -> SUBSET Rows]
    <3>1. thread[t].op # "allkeys" => thread[t].key \in Keys
      BY <1>5 DEF Answer, At, ServerInv, ThreadOK
    <3>2. CASE legal' = legal
      BY <3>2 DEF HistoryType
    <3>3. CASE /\ thread[t].key \in Keys
               /\ legal' = [legal EXCEPT ![thread[t].key] = @ \intersect since[t]]
      BY <3>3 DEF HistoryType
    <3> QED BY <1>5, <3>1, <3>2, <3>3 DEF Answer
  <2>2. since' \in [Threads -> SUBSET Rows]
    BY <1>5 DEF Answer, HistoryType
  <2> QED BY <1>5, <2>1, <2>2 DEF Answer, HistoryType
<1>6. ASSUME NEW t \in Threads, HandlerStep(t), ~CommitRow(t), ~Answer(t) PROVE HistoryType'
  BY <1>6 DEF HandlerStep, CacheLookup, GetConnection, InsertRow, UpsertRow, ChangeRow, SelectRow,
              SelectKeys, Fill, Invalidate, history, HistoryType
<1>7. CASE Crash
  <2>1. faults' \in 0 .. MaxFaults
    BY <1>7, KVServerAssumption DEF Crash, HistoryType
  <2> QED BY <1>7, <2>1 DEF Crash, HistoryType
<1> QED BY <1>1, <1>2, <1>3, <1>4, <1>5, <1>6, <1>7 DEF Next

(* The types of all variables, for every value of the constants and every  *)
(* Adversity: among them that the cache never holds anything but entries,  *)
(* and a row lock is always that of a thread.                              *)
THEOREM ServerTypes == Spec => []TypeOK
<1>1. Init => HistoryType
  BY KVServerAssumption DEF Init, HistoryType, Rows
<1>2. ServerInv /\ HistoryType /\ [Next]_vars => HistoryType'
  BY NextHistoryType
<1>3. ServerInv /\ HistoryType => TypeOK
  BY DEF ServerInv, CacheInv, HistoryType, TypeOK
<1> QED BY <1>1, <1>2, <1>3, ServerInvariant, PTL DEF Spec

LEMMA HistoryTypes == Spec => []HistoryType
<1>1. TypeOK => HistoryType
  BY DEF TypeOK, HistoryType
<1> QED BY <1>1, ServerTypes, PTL

-----------------------------------------------------------------------------
Reads(t) == thread[t].pc # "idle" /\ thread[t].op = "get"

Wrote(t) ==
    /\ thread[t].pc \in {"cache", "done"}
    /\ thread[t].op \notin {"get", "allkeys"}
    /\ thread[t].code \in {200, 201}

(* The entry of its key is one that t may be given, or that may be given   *)
(* after its answer.                                                       *)
Finds(t) ==
    \/ Reads(t) /\ thread[t].pc = "lookup"
    \/ Wrote(t) /\ (thread[t].pc = "done" \/ thread[t].op = "create")

HistoryOK(t) ==
    LET s == thread[t] IN
    /\ Reads(t) \/ Wrote(t) => table[s.key] \in since[t]
    /\ Finds(t) /\ Cached(s.key) => ValueOf(s.key) \in since[t]
    /\ Reads(t) /\ s.pc \in {"lookup", "connect", "exec"} => s.val = None
    /\ Reads(t) /\ s.pc \in {"cache", "done"} /\ s.code \in {200, 404} => s.val \in since[t]

KeyOK(k) == table[k] \in legal[k] /\ (Cached(k) => ValueOf(k) \in legal[k])

ReadInv ==
    /\ \A k \in Keys : KeyOK(k)
    /\ \A t \in Threads : HistoryOK(t)

LEMMA KeyOfRequest ==
    ASSUME ServerInv, NEW t \in Threads, Reads(t) \/ Wrote(t)
    PROVE  thread[t].key \in Keys
  BY DEF ServerInv, ThreadOK, Reads, Wrote

(* The entries a step leaves are old ones or have the value of their row.  *)
EntriesFollow ==
    \A k \in Keys : Cached(k)' =>
        \/ Cached(k) /\ ValueOf(k)' = ValueOf(k)
        \/ ValueOf(k)' = table'[k]

(* A request that is not served by the step.                               *)
LEMMA OtherRequest ==
    ASSUME ServerInv, NEW u \in Threads, HistoryOK(u), thread'[u] = thread[u], EntriesFollow,
           since[u] \subseteq since'[u],
           Reads(u) \/ Wrote(u) => table'[thread[u].key] \in since'[u]
    PROVE  HistoryOK(u)'
<1>1. /\ Reads(u)' <=> Reads(u)
      /\ Wrote(u)' <=> Wrote(u)
      /\ Finds(u)' <=> Finds(u)
  BY DEF Reads, Wrote, Finds
<1>2. ASSUME Finds(u)', Cached(thread[u].key)'
      PROVE  ValueOf(thread[u].key)' \in since'[u]
  <2>1. Finds(u) /\ (Reads(u) \/ Wrote(u)) /\ thread[u].key \in Keys
    BY <1>1, <1>2, KeyOfRequest DEF Finds
  <2> QED BY <1>2, <2>1 DEF EntriesFollow, HistoryOK
<1> QED BY <1>1, <1>2 DEF HistoryOK

(* A step of t that changes neither table, cache nor history of others.    *)
LEMMA OwnStep ==
    ASSUME ServerInv, ReadInv, NEW t \in Threads,
           \A u \in Threads \ {t} : thread'[u] = thread[u] /\ since'[u] = since[u],
           UNCHANGED <<cache_map, cell, table, legal>>,
           HistoryOK(t)'
    PROVE  ReadInv'
<1>1. EntriesFollow
  BY DEF EntriesFollow, Cached, ValueOf
<1>2. \A u \in Threads \ {t} : HistoryOK(u)'
  BY <1>1, OtherRequest DEF ReadInv, HistoryOK
<1>3. \A k \in Keys : KeyOK(k)'
  BY DEF ReadInv, KeyOK, Cached, ValueOf
<1> QED BY <1>2, <1>3 DEF ReadInv

LEMMA ReceiveReads ==
    ASSUME ServerInv, HistoryType, ReadInv,
           NEW t \in Threads, NEW r \in Requests, Receive(t, r)
    PROVE  ReadInv'
<1>1. /\ thread'[t] = [pc |-> IF r.op = "get" THEN "lookup" ELSE "connect",
                       op |-> r.op, key |-> r.key, val |-> r.val, code |-> None]
      /\ since'[t] = IF r.op = "get" THEN legal[r.key] ELSE {}
      /\ \A u \in Threads \ {t} : thread'[u] = thread[u] /\ since'[u] = since[u]
      /\ UNCHANGED <<cache_map, cell, table, legal>>
  BY DEF Receive, ServerInv, HistoryType, cacheVars, dbVars
<1>2. ~Wrote(t)'
  BY <1>1 DEF Wrote
<1>3. HistoryOK(t)'
  <2>1. CASE r.op = "get"
    <3>1. r.key \in Keys /\ r.val = None
      BY <2>1, KVServerAssumption DEF IsRequest, HasValue
    <3>2. KeyOK(r.key)
      BY <3>1 DEF ReadInv
    <3> QED BY <1>1, <1>2, <2>1, <3>1, <3>2 DEF HistoryOK, Finds, KeyOK, Cached, ValueOf
  <2>2. CASE r.op # "get"
    <3>1. ~Reads(t)'
      BY <1>1, <2>2 DEF Reads
    <3> QED BY <1>2, <3>1 DEF HistoryOK, Finds
  <2> QED BY <2>1, <2>2
<1> QED BY <1>1, <1>3, OwnStep

(* A request that moves on before its commit, or on to a failure.          *)
LEMMA MovedOn ==
    ASSUME NEW t \in Threads, HistoryOK(t), SameRequest(t),
           thread[t].pc \in {"lookup", "connect", "exec", "commit"},
           \/ /\ thread[t].pc # "commit" /\ thread'[t].pc \in {"connect", "exec", "commit"}
              /\ thread'[t].val = thread[t].val
           \/ thread'[t].pc = "done" /\ thread'[t].code \in {409, 500},
           UNCHANGED <<table, since>>
    PROVE  HistoryOK(t)'
  BY DEF HistoryOK, Reads, Wrote, Finds, SameRequest

LEMMA LookupReads ==
    ASSUME ServerInv, ReadInv, NEW t \in Threads, CacheLookup(t)
    PROVE  ReadInv'
<1> DEFINE k == thread[t].key
<1>1. /\ thread[t].pc = "lookup" /\ thread[t].op = "get" /\ k \in Keys /\ HistoryOK(t)
      /\ UNCHANGED <<cache_map, cell, table, legal, since>>
  BY DEF CacheLookup, At, ReadKey, dbVars, ServerInv, ThreadOK, ReadInv
<1>2. CASE Lookup(k) # EmptyValue /\ Take(t, "done", Lookup(k))
  <2>1. Cached(k) /\ Lookup(k) = ValueOf(k)
    BY <1>2 DEF Lookup
  <2>2. ValueOf(k) \in Rows
    BY <1>1, <2>1, CachedCell DEF ValueOf, Entry, ServerInv, Rows
  <2>3. SameRequest(t) /\ thread'[t].pc = "done" /\ thread'[t].val = ValueOf(k)
    BY <1>2, <2>1, <2>2, TakeFields DEF Stages
  <2>4. ValueOf(k) \in since[t] /\ table[k] \in since[t]
    BY <1>1, <2>1 DEF HistoryOK, Reads, Finds
  <2>5. HistoryOK(t)'
    BY <1>1, <2>3, <2>4 DEF HistoryOK, Reads, Wrote, Finds, SameRequest
  <2> QED BY <1>1, <2>3, <2>5, OwnStep DEF SameRequest
<1>3. CASE Goto(t, "connect")
  <2>1. SameRequest(t) /\ thread'[t].pc = "connect" /\ thread'[t].val = thread[t].val
    BY <1>3, GotoFields DEF Stages
  <2> QED BY <1>1, <2>1, MovedOn, OwnStep DEF SameRequest
<1> QED BY <1>2, <1>3 DEF CacheLookup

LEMMA StatementReads ==
    ASSUME ServerInv, ReadInv, NEW t \in Threads,
           GetConnection(t) \/ InsertRow(t) \/ UpsertRow(t) \/ ChangeRow(t)
    PROVE  ReadInv'
<1>1. /\ thread[t].pc \in {"connect", "exec"} /\ HistoryOK(t)
      /\ UNCHANGED <<cache_map, cell, table, legal, since>>
  BY DEF GetConnection, InsertRow, UpsertRow, ChangeRow, At, cacheVars, dbVars, history, ReadInv
<1>2. CASE Goto(t, "exec") \/ LockRow(t)
  <2>1. SameRequest(t) /\ thread'[t].pc \in {"exec", "commit"} /\ thread'[t].val = thread[t].val
    BY <1>2, GotoFields DEF Stages, LockRow
  <2> QED BY <1>1, <2>1, MovedOn, OwnStep DEF SameRequest
<1>3. ASSUME NEW code \in {404, 409, 500}, Finish(t, code),
             code = 404 => thread[t].op \in {"update", "delete"}
      PROVE  ReadInv'
  <2>1. SameRequest(t) /\ thread'[t].pc = "done" /\ thread'[t].code = code
    BY <1>3, DecideFields DEF Stages, Codes, Finish
  <2>2. HistoryOK(t)'
    BY <1>1, <1>3, <2>1, MovedOn DEF HistoryOK, Reads, Wrote, Finds, SameRequest
  <2> QED BY <1>1, <2>1, <2>2, OwnStep DEF SameRequest
<1> QED BY <1>2, <1>3 DEF GetConnection, InsertRow, UpsertRow, ChangeRow, Reject

LEMMA SelectReads ==
    ASSUME ServerInv, ReadInv, NEW t \in Threads, SelectRow(t) \/ SelectKeys(t)
    PROVE  ReadInv'
<1>1. /\ thread[t].pc = "exec" /\ HistoryOK(t)
      /\ UNCHANGED <<cache_map, cell, table, legal, since>>
  BY DEF SelectRow, SelectKeys, At, cacheVars, dbVars, history, ReadInv
<1>2. CASE SelectKeys(t)
  <2>1. SameRequest(t)
    BY <1>2, DecideFields DEF SelectKeys, Finish, Stages, Codes
  <2>2. HistoryOK(t)'
    BY <1>2, <2>1 DEF SelectKeys, HistoryOK, Reads, Wrote, Finds, SameRequest
  <2> QED BY <1>1, <2>1, <2>2, OwnStep DEF SameRequest
<1>3. CASE SelectRow(t)
  <2>1. thread[t].op = "get" /\ thread[t].key \in Keys /\ Reads(t)
    BY <1>1, <1>3 DEF SelectRow, ServerInv, ThreadOK, Reads
  <2>2. thread[t].val = None /\ table[thread[t].key] \in since[t]
    BY <1>1, <2>1 DEF HistoryOK
  <2>3. /\ SameRequest(t) /\ thread'[t].pc \in {"done", "cache"}
        /\ thread'[t].val = table[thread[t].key]
    <3>1. CASE table[thread[t].key] = None /\ Finish(t, 404)
      BY <2>2, <3>1, DecideFields DEF Finish, Stages, Codes
    <3>2. CASE Take(t, "cache", table[thread[t].key])
      BY <2>1, <3>2, TakeFields DEF Stages, ServerInv
    <3> QED BY <1>3, <3>1, <3>2 DEF SelectRow
  <2>4. HistoryOK(t)'
    BY <1>1, <2>1, <2>2, <2>3 DEF HistoryOK, Reads, Wrote, Finds, SameRequest
  <2> QED BY <1>1, <2>3, <2>4, OwnStep DEF SameRequest
<1> QED BY <1>2, <1>3

(* A commit adds its row to what everybody under way may be given. An      *)
(* older value that is still cached then stays legal, as the handler that  *)
(* committed has yet to fill or invalidate the entry and to answer.        *)
LEMMA CommitReads ==
    ASSUME ServerInv, HistoryType, FreshInv, ReadInv, ~LateInvalidation,
           NEW t \in Threads, CommitRow(t)
    PROVE  ReadInv'
<1> DEFINE k == thread[t].key
           row == NewRow(thread[t])
<1>1. /\ thread[t].pc = "commit" /\ thread[t].op \in Changing /\ RowLocked(t)
      /\ Undisturbed(t) /\ UNCHANGED <<cache_map, cell>> /\ Commit(t, k, row)
  BY DEF CommitRow, At, ServerInv, ThreadOK, cacheVars
<1>2. k \in Keys /\ table'[k] = row /\ \A x \in Keys \ {k} : table'[x] = table[x]
  BY <1>1, CommitFields
<1>3. /\ legal'[k] = legal[k] \union {row}
      /\ \A x \in Keys \ {k} : legal'[x] = legal[x]
  BY <1>1, <1>2 DEF Commit, HistoryType
<1>4. /\ since'[t] = {row}
      /\ \A u \in Threads \ {t} :
             since'[u] = IF thread[u].key = k /\ since[u] # {}
                         THEN since[u] \union {row} ELSE since[u]
  BY <1>1 DEF Commit
<1>5. SameRequest(t) /\ thread'[t].pc = "cache"
  <2>1. CommitCode(thread[t]) \in Codes
    BY DEF CommitCode, Codes
  <2> QED BY <2>1, DecideFields DEF Stages, CommitRow
<1>6. EntriesFollow
  BY <1>1 DEF EntriesFollow, Cached, ValueOf
<1>7. \A x \in Keys : KeyOK(x)'
  BY <1>1, <1>2, <1>3 DEF ReadInv, KeyOK, Cached, ValueOf
<1>8. ASSUME NEW u \in Threads \ {t} PROVE HistoryOK(u)'
  <2>1. ASSUME Reads(u) \/ Wrote(u) PROVE table'[thread[u].key] \in since'[u]
    <3>1. thread[u].key \in Keys /\ table[thread[u].key] \in since[u]
      BY <2>1, KeyOfRequest DEF ReadInv, HistoryOK
    <3> QED BY <1>2, <1>4, <3>1
  <2>2. since[u] \subseteq since'[u] /\ thread'[u] = thread[u]
    BY <1>4, <1>5 DEF SameRequest
  <2> QED BY <1>6, <2>1, <2>2, OtherRequest DEF ReadInv
<1>9. HistoryOK(t)'
  <2>1. ~Reads(t)' /\ thread'[t].key = k
    BY <1>1, <1>5 DEF Reads, SameRequest, Changing
  <2>2. ASSUME Finds(t)', Cached(k)' PROVE FALSE
    <3>1. thread[t].op = "create" /\ Cached(k)
      BY <1>1, <1>5, <2>1, <2>2 DEF Finds, SameRequest, Cached
    <3>2. table[k] = None /\ ValueOf(k) # None
      <4>1. ValueOf(k) \in Values
        BY <1>2, <3>1, CachedCell DEF ServerInv, ValueOf, Entry
      <4> QED BY <1>1, <3>1, <4>1, DeploymentAssumption DEF RowLocked
    <3>3. PICK u \in Threads : thread[u].key = k /\ Invalidates(u)
      BY <1>2, <3>1, <3>2 DEF FreshInv, CacheFollowsTable
    <3> QED BY <1>1, <3>1, <3>3 DEF Invalidates, Undisturbed
  <2>3. table'[k] \in since'[t]
    BY <1>2, <1>4
  <2> QED BY <2>1, <2>2, <2>3 DEF HistoryOK
<1> QED BY <1>7, <1>8, <1>9 DEF ReadInv

LEMMA CacheOpReads ==
    ASSUME ServerInv, FreshInv, ReadInv, NEW t \in Threads, Fill(t) \/ Invalidate(t)
    PROVE  ReadInv'
<1> DEFINE k == thread[t].key
<1>1. UNCHANGED <<table, legal, since>> /\ HistoryOK(t) /\ thread[t].pc = "cache"
  BY DEF Fill, Fills, Invalidate, Invalidates, dbVars, ReadInv
<1>2. /\ SameRequest(t) /\ thread'[t].pc = "done"
      /\ thread'[t].val = thread[t].val /\ thread'[t].code = thread[t].code
  BY GotoFields DEF Stages, Fill, Invalidate
<1>3. EntriesFollow
  BY CacheOpValues DEF EntriesFollow
<1>4. \A x \in Keys : KeyOK(x)'
  BY <1>1, <1>3 DEF EntriesFollow, ReadInv, KeyOK
<1>5. \A u \in Threads \ {t} : HistoryOK(u)'
  BY <1>1, <1>2, <1>3, OtherRequest DEF SameRequest, ReadInv, HistoryOK
<1>6. HistoryOK(t)'
  <2>1. /\ Reads(t)' <=> Reads(t)
        /\ Wrote(t)' <=> Wrote(t)
        /\ thread'[t].key = k
    BY <1>1, <1>2 DEF Reads, Wrote, SameRequest
  <2>2. ASSUME NEW x \in Keys, x = k, Finds(t)', Cached(x)' PROVE ValueOf(x)' \in since'[t]
    <3>1. Wrote(t) /\ table'[x] \in since'[t]
      BY <1>1, <1>2, <2>1, <2>2 DEF Finds, HistoryOK
    <3>2. CASE Cached(x) /\ ValueOf(x)' = ValueOf(x) /\ ~Invalidates(t)
      <4>1. Finds(t)
        BY <1>1, <3>1, <3>2 DEF Finds, Wrote, Invalidates
      <4> QED BY <1>1, <2>2, <3>2, <4>1 DEF HistoryOK
    <3> QED BY <2>2, <3>1, <3>2, CacheOpValues
  <2>3. table'[k] \in since'[t] \/ ~(Reads(t) \/ Wrote(t))
    BY <1>1 DEF HistoryOK
  <2>4. Reads(t) /\ thread[t].code \in {200, 404} => thread[t].val \in since[t]
    BY <1>1 DEF HistoryOK
  <2>5. Finds(t)' /\ Cached(k)' => ValueOf(k)' \in since'[t]
    <3>1. Finds(t)' => k \in Keys
      BY <1>2, <2>1, KeyOfRequest DEF Finds
    <3> QED BY <2>1, <2>2, <3>1 DEF Cached, ValueOf
  <2> QED BY <1>1, <1>2, <2>1, <2>3, <2>4, <2>5 DEF HistoryOK
<1> QED BY <1>4, <1>5, <1>6 DEF ReadInv

LEMMA ThrowReads ==
    ASSUME ServerInv, ReadInv, ~CommitInDoubt, NEW t \in Threads, Throw(t)
    PROVE  ReadInv'
<1>1. /\ thread[t].pc \in {"connect", "exec", "commit"} /\ HistoryOK(t)
      /\ UNCHANGED <<cache_map, cell, table, legal, since>>
  BY DEF Throw, cacheVars, ReadInv
<1>2. SameRequest(t) /\ thread'[t].pc = "done" /\ thread'[t].code = 500
  <2>1. Decide(t, "done", 500)
    BY DEF Throw, Finish
  <2> QED BY <2>1, DecideFields DEF Codes, Stages
<1> QED BY <1>1, <1>2, MovedOn, OwnStep DEF SameRequest

(* When a change is acknowledged what its row held before is legal no      *)
(* more; neither the row nor its entry is of that time.                    *)
LEMMA AnswerReads ==
    ASSUME ServerInv, HistoryType, ReadInv, NEW t \in Threads, Answer(t)
    PROVE  ReadInv'
<1> DEFINE s == thread[t]
<1>1. /\ s.pc = "done" /\ HistoryOK(t) /\ UNCHANGED <<cache_map, cell, table>>
      /\ thread'[t] = Idle /\ \A u \in Threads \ {t} : thread'[u] = thread[u]
      /\ \A u \in Threads \ {t} : since'[u] = since[u]
  BY DEF Answer, At, cacheVars, dbVars, ServerInv, HistoryType, ReadInv
<1>2. EntriesFollow
  BY <1>1 DEF EntriesFollow, Cached, ValueOf
<1>3. \A u \in Threads \ {t} : HistoryOK(u)'
  BY <1>1, <1>2, OtherRequest DEF ReadInv, HistoryOK
<1>4. HistoryOK(t)'
  BY <1>1 DEF Idle, HistoryOK, Reads, Wrote, Finds
<1>5. ASSUME NEW k \in Keys PROVE KeyOK(k)'
  <2>1. CASE legal'[k] = legal[k]
    BY <1>1, <2>1 DEF ReadInv, KeyOK, Cached, ValueOf
  <2>2. CASE Wrote(t) /\ s.key = k /\ legal'[k] = legal[k] \intersect since[t]
    <3>1. table[k] \in since[t] /\ (Cached(k) => ValueOf(k) \in since[t])
      BY <1>1, <2>2 DEF HistoryOK, Finds
    <3> QED BY <1>1, <2>2, <3>1 DEF ReadInv, KeyOK, Cached, ValueOf
  <2>3. \/ legal'[k] = legal[k]
        \/ Wrote(t) /\ s.key = k /\ legal'[k] = legal[k] \intersect since[t]
    BY <1>1 DEF Answer, HistoryType, Wrote
  <2> QED BY <2>1, <2>2, <2>3
<1> QED BY <1>3, <1>4, <1>5 DEF ReadInv

LEMMA CrashReads ==
    ASSUME ReadInv, Crash
    PROVE  ReadInv'
<1>1. \A k \in Keys : KeyOK(k)'
  BY DEF Crash, ReadInv, KeyOK, Cached
<1>2. \A t \in Threads : HistoryOK(t)'
  BY DEF Crash, Idle, HistoryOK, Reads, Wrote, Finds
<1> QED BY <1>1, <1>2 DEF ReadInv

LEMMA NextReads ==
    ASSUME ServerInv, HistoryType, FreshInv, ReadInv, [Next]_vars,
           ~LateInvalidation, ~CommitInDoubt
    PROVE  ReadInv'
<1>1. CASE UNCHANGED vars
  BY <1>1 DEF vars, cacheVars, dbVars, history, ReadInv, KeyOK, HistoryOK, Reads, Wrote, Finds,
              Cached, ValueOf
<1>2. ASSUME NEW t \in Threads, NEW r \in Requests, Receive(t, r) PROVE ReadInv'
  BY <1>2, ReceiveReads
<1>3. ASSUME NEW t \in Threads, HandlerStep(t) PROVE ReadInv'
  BY <1>3, LookupReads, StatementReads, SelectReads, CommitReads, CacheOpReads, AnswerReads
  DEF HandlerStep
<1>4. ASSUME NEW t \in Threads, Throw(t) PROVE ReadInv'
  BY <1>4, ThrowReads
<1>5. CASE Crash
  BY <1>5, CrashReads
<1> QED BY <1>1, <1>2, <1>3, <1>4, <1>5 DEF Next

(* However many handlers run at once, and with an empty cache after each   *)
(* restart: a GET answers with a value its row had at some time since the  *)
(* last change acknowledged before it was sent, as long as no commit       *)
(* overtakes a fill of its key, no create commits before another thread's  *)
(* invalidation of its key, and commit() tells the truth.                  *)
THEOREM ReadsAreCurrent ==
    ASSUME ~LateFill, ~LateInvalidation, ~CommitInDoubt
    PROVE  Spec => []ReadsCurrent
<1>1. Init => ReadInv
  BY DEF Init, EmptyCache, Idle, ReadInv, KeyOK, HistoryOK, Reads, Wrote, Finds, Cached
<1>2. ServerInv /\ FreshInv /\ [Next]_vars => FreshInv'
  BY NextFresh
<1>3. ServerInv /\ HistoryType /\ FreshInv /\ ReadInv /\ [Next]_vars => ReadInv'
  BY NextReads
<1>4. ReadInv => ReadsCurrent
  BY DEF ReadInv, HistoryOK, Reads, ReadsCurrent, At
<1> QED BY <1>1, <1>2, <1>3, <1>4, InitFresh, ServerInvariant, HistoryTypes, PTL DEF Spec
=============================================================================
