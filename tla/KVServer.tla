------------------------------ MODULE KVServer ------------------------------
(***************************************************************************)
(* Inside one kvserver process: worker threads that run the handlers of    *)
(* kvserver.cpp over one PostgreSQL table and one LRUCache.  What Backends *)
(* takes as a transaction is here a connection, a statement and a commit,  *)
(* between any two of which other threads run.                             *)
(*                                                                         *)
(* thread[t] is the request t is serving: op, key and val as received (val *)
(* of a read ends as the body returned, None for a 404), code the status   *)
(* of the answer once it is decided, and pc the next call of the handler:  *)
(*   lookup: cache.read_key;  connect: get_connection;  exec: the SQL      *)
(*   statement;  commit;  cache: create_key or delete_key;  done.          *)
(* op "put" is a PUT with X-Internal-Replication, "update" one without.    *)
(*                                                                         *)
(* lock[k] is the transaction that has changed row k and not committed     *)
(* (READ COMMITTED, one row lock per changed row).  A thread holds its     *)
(* database connection from connect until it is done; the database takes   *)
(* MaxConnections of them and refuses more, upon which get_connection      *)
(* throws.                                                                 *)
(*                                                                         *)
(* Adversity names what runs may leave out:                                *)
(*   "late fill"          a commit on a key whose cache entry another      *)
(*                        thread is about to create                        *)
(*   "late invalidation"  a create commits a key that another thread has   *)
(*                        changed and not yet invalidated                  *)
(*   "commit in doubt"    commit() throws though the database committed    *)
(*                                                                         *)
(* History: legal[k] is what row k has held since the last acknowledged    *)
(* change of it, since[t] what its key has held since the read of t began  *)
(* or since the commit of t.                                               *)
(***************************************************************************)
EXTENDS LruCache

CONSTANTS
    Threads,         \* the workers of httplib::ThreadPool
    MaxConnections,  \* max_connections of the database
    MaxFaults,       \* bound: failed calls to the database and restarts together
    Requests,        \* what clients and the load balancer send
    Adversity

HandlerOps == {"get", "create", "put", "update", "delete", "sync", "allkeys"}

Codes == {200, 201, 404, 409, 500}

HasValue(op) == op \in {"create", "put", "update", "sync"}

IsRequest(r) ==
    /\ r.op \in HandlerOps
    /\ r.key \in IF r.op = "allkeys" THEN {None} ELSE Keys
    /\ r.val \in IF HasValue(r.op) THEN Values ELSE {None}

ASSUME KVServerAssumption ==
    /\ MaxConnections \in Nat \ {0}
    /\ MaxFaults \in Nat
    /\ Requests \subseteq [op : HandlerOps, key : Keys \union {None}, val : Rows]
    /\ \A r \in Requests : IsRequest(r)
    /\ EmptyValue \in Values
    /\ None \notin Threads \union Codes

LateFill == "late fill" \in Adversity
LateInvalidation == "late invalidation" \in Adversity
CommitInDoubt == "commit in doubt" \in Adversity

VARIABLES
    thread,
    table,   \* table[k]: the committed row k of kv_data, or None
    lock,
    faults,
    legal,
    since

dbVars == <<table, lock>>
history == <<legal, since>>
vars == <<thread, cacheVars, dbVars, faults, history>>

Idle == [pc |-> "idle", op |-> None, key |-> None, val |-> None, code |-> None]

Thread ==
    [pc   : {"idle", "lookup", "connect", "exec", "commit", "cache", "done"},
     op   : HandlerOps \union {None},
     key  : Keys \union {None},
     val  : Rows,
     code : Codes \union {None}]

TypeOK ==
    /\ CacheTypeOK
    /\ thread \in [Threads -> Thread]
    /\ table \in [Keys -> Rows]
    /\ lock \in [Keys -> Threads \union {None}]
    /\ faults \in 0 .. MaxFaults
    /\ legal \in [Keys -> SUBSET Rows]
    /\ since \in [Threads -> SUBSET Rows]

Init ==
    /\ EmptyCache
    /\ thread = [t \in Threads |-> Idle]
    /\ table = [k \in Keys |-> None]
    /\ lock = [k \in Keys |-> None]
    /\ faults = 0
    /\ legal = [k \in Keys |-> {None}]
    /\ since = [t \in Threads |-> {}]

-----------------------------------------------------------------------------
(* History.                                                                *)
Commit(t, k, row) ==
    /\ table' = [table EXCEPT ![k] = row]
    /\ legal' = [legal EXCEPT ![k] = @ \union {row}]
    /\ since' = [u \in Threads |->
                   IF u = t THEN {row}
                   ELSE IF thread[u].key = k /\ since[u] # {} THEN since[u] \union {row}
                   ELSE since[u]]

-----------------------------------------------------------------------------
(* Steps of a handler.                                                     *)
At(t, pc) == thread[t].pc = pc

Goto(t, pc) == thread' = [thread EXCEPT ![t].pc = pc]

Decide(t, pc, code) == thread' = [thread EXCEPT ![t].pc = pc, ![t].code = code]

Finish(t, code) == Decide(t, "done", code)

Take(t, pc, v) ==
    thread' = [thread EXCEPT ![t].pc = pc, ![t].code = 200, ![t].val = v]

Connected(t) == thread[t].pc \in {"exec", "commit", "cache"}

Receive(t, r) ==
    /\ At(t, "idle")
    /\ thread' = [thread EXCEPT ![t] =
          [pc |-> IF r.op = "get" THEN "lookup" ELSE "connect",
           op |-> r.op, key |-> r.key, val |-> r.val, code |-> None]]
    /\ since' = [since EXCEPT ![t] = IF r.op = "get" THEN legal[r.key] ELSE {}]
    /\ UNCHANGED <<cacheVars, dbVars, faults, legal>>

(* handle_read: a hit is answered from the cache, unless it is empty.      *)
CacheLookup(t) ==
    LET k == thread[t].key IN
    /\ At(t, "lookup")
    /\ ReadKey(k)
    /\ \/ Lookup(k) # EmptyValue /\ Take(t, "done", Lookup(k))
       \/ Lookup(k) = EmptyValue /\ Goto(t, "connect")
    /\ UNCHANGED <<dbVars, faults, legal, since>>

(* get_connection and the start of the transaction.                        *)
GetConnection(t) ==
    /\ At(t, "connect")
    /\ LET free == Cardinality({u \in Threads : Connected(u)}) < MaxConnections IN
          \/ free /\ Goto(t, "exec")
          \/ ~free /\ Finish(t, 500)
    /\ UNCHANGED <<cacheVars, dbVars, faults, history>>

Free(t) == lock[thread[t].key] = None

LockRow(t) ==
    /\ lock' = [lock EXCEPT ![thread[t].key] = t]
    /\ Goto(t, "commit")

Reject(t, code) == Finish(t, code) /\ UNCHANGED lock

KeepLock(t) ==  \* bug: the unique violation leaves the transaction open
    /\ At(t, "exec") /\ thread[t].op = "create" /\ Free(t)
    /\ \/ table[thread[t].key] = None /\ LockRow(t)
       \/ /\ table[thread[t].key] # None
          /\ Finish(t, 409)
          /\ lock' = [lock EXCEPT ![thread[t].key] = t]
    /\ UNCHANGED <<cacheVars, table, faults, history>>

InsertBlindly(t) ==  \* bug: the open transactions of other threads are not waited for
    /\ At(t, "exec") /\ thread[t].op = "create"
    /\ \/ table[thread[t].key] = None /\ LockRow(t)
       \/ table[thread[t].key] # None /\ Reject(t, 409)
    /\ UNCHANGED <<cacheVars, table, faults, history>>

(* INSERT waits for a transaction that has changed the row, and fails with *)
(* a unique violation when the row then exists.                            *)
InsertRow(t) ==
    /\ At(t, "exec") /\ thread[t].op = "create" /\ Free(t)
    /\ \/ table[thread[t].key] = None /\ LockRow(t)
       \/ table[thread[t].key] # None /\ Reject(t, 409)
    /\ UNCHANGED <<cacheVars, table, faults, history>>

(* INSERT ... ON CONFLICT DO UPDATE.                                       *)
UpsertRow(t) ==
    /\ At(t, "exec") /\ thread[t].op \in {"put", "sync"} /\ Free(t)
    /\ LockRow(t)
    /\ UNCHANGED <<cacheVars, table, faults, history>>

(* UPDATE and DELETE ... RETURNING see committed rows only.  Without one   *)
(* the handler returns before commit(), which rolls back.                  *)
ChangeRow(t) ==
    /\ At(t, "exec") /\ thread[t].op \in {"update", "delete"}
    /\ \/ table[thread[t].key] = None /\ Reject(t, 404)
       \/ table[thread[t].key] # None /\ Free(t) /\ LockRow(t)
    /\ UNCHANGED <<cacheVars, table, faults, history>>

(* SELECT; a row that is found goes to the cache next.                     *)
SelectRow(t) ==
    LET row == table[thread[t].key] IN
    /\ At(t, "exec") /\ thread[t].op = "get"
    /\ \/ row = None /\ Finish(t, 404)
       \/ row # None /\ Take(t, "cache", row)
    /\ UNCHANGED <<cacheVars, dbVars, faults, history>>

SelectKeys(t) ==
    /\ At(t, "exec") /\ thread[t].op = "allkeys"
    /\ Finish(t, 200)
    /\ UNCHANGED <<cacheVars, dbVars, faults, history>>

Fills(t) == thread[t].pc = "cache" /\ thread[t].op \in {"get", "create"}

Invalidates(t) == thread[t].pc = "cache" /\ thread[t].op \notin {"get", "create"}

(* The assumptions on the timing of other threads; see Adversity.          *)
Undisturbed(t) ==
    \A u \in Threads \ {t} : thread[u].key = thread[t].key =>
        /\ Fills(u) => LateFill
        /\ Invalidates(u) /\ thread[t].op = "create" => LateInvalidation

NewRow(s) == IF s.op = "delete" THEN None ELSE s.val

NoContent(s) == IF s.op = "delete" THEN 204 ELSE 200  \* bug: a code clients do not know

CommitCode(s) == IF s.op \in {"create", "sync"} THEN 201 ELSE 200

FillUncommitted(t) ==  \* bug: the new value is cached before commit()
    LET s == thread[t] IN
    /\ At(t, "commit")
    /\ Undisturbed(t)
    /\ \/ /\ s.op = "create" /\ ~Cached(s.key)
          /\ CreateKey(s.key, s.val)
          /\ UNCHANGED <<thread, dbVars, legal, since>>
       \/ /\ s.op # "create" \/ Cached(s.key)
          /\ Commit(t, s.key, NewRow(s))
          /\ lock' = [lock EXCEPT ![s.key] = None]
          /\ Decide(t, "cache", CommitCode(s))
          /\ UNCHANGED cacheVars
    /\ UNCHANGED faults

CommitRow(t) ==
    LET s == thread[t] IN
    /\ At(t, "commit")
    /\ Undisturbed(t)
    /\ Commit(t, s.key, NewRow(s))
    /\ lock' = [lock EXCEPT ![s.key] = None]
    /\ Decide(t, "cache", CommitCode(s))
    /\ UNCHANGED <<cacheVars, faults>>

(* cache.create_key after a SELECT or an INSERT.                           *)
Fill(t) ==
    LET s == thread[t] IN
    /\ Fills(t)
    /\ CreateKey(s.key, s.val)
    /\ Goto(t, "done")
    /\ UNCHANGED <<dbVars, faults, legal, since>>

ForgetInvalidation(t) ==  \* bug: the entry of a changed row stays
    /\ Invalidates(t)
    /\ Goto(t, "done")
    /\ UNCHANGED <<cacheVars, dbVars, faults, history>>

(* cache.delete_key after any other change.                                *)
Invalidate(t) ==
    /\ Invalidates(t)
    /\ DeleteKey(thread[t].key)
    /\ Goto(t, "done")
    /\ UNCHANGED <<dbVars, faults, legal, since>>

(* A call to the database throws: the catch block answers with a 500 and   *)
(* leaves the cache alone; the destructors roll back and disconnect.  When *)
(* it is commit() that throws, the database may have committed.            *)
Throw(t) ==
    LET s == thread[t] IN
    /\ thread[t].pc \in {"connect", "exec", "commit"}
    /\ faults < MaxFaults
    /\ faults' = faults + 1
    /\ \/ UNCHANGED <<table, legal, since>>
       \/ /\ s.pc = "commit" /\ CommitInDoubt
          /\ Commit(t, s.key, NewRow(s))
    /\ lock' = [k \in Keys |-> IF lock[k] = t THEN None ELSE lock[k]]
    /\ Finish(t, 500)
    /\ UNCHANGED cacheVars

(* The handler returns and the answer is written: the client knows from    *)
(* now on that its change came after those committed before it.            *)
Answer(t) ==
    LET s == thread[t] IN
    /\ At(t, "done")
    /\ thread' = [thread EXCEPT ![t] = Idle]
    /\ legal' = IF s.code \in {200, 201} /\ s.op \notin {"get", "allkeys"}
                THEN [legal EXCEPT ![s.key] = @ \intersect since[t]]
                ELSE legal
    /\ since' = [since EXCEPT ![t] = {}]
    /\ UNCHANGED <<cacheVars, dbVars, faults>>

HandlerStep(t) ==
    \/ CacheLookup(t)
    \/ GetConnection(t)
    \/ InsertRow(t)
    \/ UpsertRow(t)
    \/ ChangeRow(t)
    \/ SelectRow(t)
    \/ SelectKeys(t)
    \/ CommitRow(t)
    \/ Fill(t)
    \/ Invalidate(t)
    \/ Answer(t)

(* The process is killed and started again: its threads, its connections   *)
(* and its cache are gone, open transactions are rolled back.              *)
Crash ==
    /\ faults < MaxFaults
    /\ faults' = faults + 1
    /\ thread' = [t \in Threads |-> Idle]
    /\ lock' = [k \in Keys |-> None]
    /\ cache_list' = <<>>
    /\ cache_map' = [k \in Keys |-> None]
    /\ cell' = [c \in Cells |-> None]
    /\ since' = [t \in Threads |-> {}]
    /\ UNCHANGED <<table, legal>>

Next ==
    \/ \E t \in Threads, r \in Requests : Receive(t, r)
    \/ \E t \in Threads : HandlerStep(t) \/ Throw(t)
    \/ Crash

Spec == Init /\ [][Next]_vars

(* A worker thread runs on and the database answers.  The fairness is      *)
(* strong because the database grants a row lock to those that wait for it *)
(* in turn.                                                                *)
FairSpec == Spec /\ \A t \in Threads : SF_vars(HandlerStep(t))

-----------------------------------------------------------------------------
(* A GET answers with a value its row had at some time since the last      *)
(* change acknowledged before it was sent, whether it comes from the cache *)
(* or from the table: "invalidated on write to prevent stale cache         *)
(* serving" (README).                                                      *)
ReadsCurrent ==
    \A t \in Threads :
        At(t, "done") /\ thread[t].op = "get" /\ thread[t].code \in {200, 404}
            => thread[t].val \in since[t]

(* A cached value is that of the row, unless a thread has changed the row  *)
(* and is just about to invalidate it: nothing stale stays in the cache    *)
(* when the handlers have returned.                                        *)
CacheFollowsTable ==
    \A k \in Keys : Cached(k) =>
        \/ ValueOf(k) = table[k]
        \/ \E t \in Threads : thread[t].key = k /\ Invalidates(t)

(* The parts into which Backends divides a handler.  One that decides on   *)
(* another answer than 500 does so in one step with the change of the row, *)
(* and the code and the new row are those Backends gives for the row as it *)
(* then is, however many handlers work on it; a GET decides on the entry   *)
(* that is cached, when that is a hit, or on the row.  A 500 leaves the    *)
(* row alone, and nothing else changes a row.  A new entry is one that a   *)
(* handler was to create and that was not there, and the entry of a        *)
(* changed row is gone when the handler is done.                           *)
EntryOf(k) == IF Cached(k) THEN ValueOf(k) ELSE None

B == INSTANCE Backends WITH
    alive <- [n \in Nodes |-> TRUE],
    db <- [n \in Nodes |-> table],
    cached <- [n \in Nodes |-> [k \in Keys |-> EntryOf(k)]]

Decides(t) == thread[t].code = None /\ thread'[t].code # None

WriteDecided(t) ==
    LET s == thread[t] IN
    IF thread'[t].code = 500
    THEN table'[s.key] = table[s.key]
    ELSE /\ s.op # "sync" => thread'[t].code = B!StatusCode(s.op, table[s.key])
         /\ table'[s.key] =
              B!RowAfter(IF s.op = "sync" THEN "put" ELSE s.op, table[s.key], s.val)

GetDecided(t) ==
    LET s == thread[t] IN
    \/ thread'[t].code = 500
    \/ /\ \A n \in Nodes : B!Hit(n, s.key)
       /\ thread'[t].val = EntryOf(s.key) /\ thread'[t].code = 200
    \/ /\ thread'[t].val = table[s.key]
       /\ thread'[t].code = B!StatusCode("get", table[s.key])

EntryCreated(k) ==
    EntryOf(k) = None /\ \E t \in Threads :
        Fills(t) /\ thread[t].key = k /\ EntryOf(k)' = thread[t].val

HandlersAreTransactions ==
    [][/\ \A k \in Keys :
              /\ table'[k] # table[k] => \E t \in Threads : Decides(t) /\ thread[t].key = k
              /\ EntryOf(k)' \notin {EntryOf(k), None} => EntryCreated(k)
       /\ \A t \in Threads :
              /\ Decides(t) /\ thread[t].op \in {"create", "put", "delete", "sync"} =>
                     WriteDecided(t)
              /\ Decides(t) /\ thread[t].op = "get" => GetDecided(t)
              /\ Invalidates(t) /\ thread'[t].pc = "done" => EntryOf(thread[t].key)' = None
      ]_vars

(* Every request is answered: no handler waits for a row lock or in a      *)
(* transaction for good, whatever the others answer.                       *)
Answered == \A t \in Threads : ~At(t, "idle") ~> At(t, "idle")
=============================================================================
