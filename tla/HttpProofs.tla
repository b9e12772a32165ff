----------------------------- MODULE HttpProofs -----------------------------
(***************************************************************************)
(* The queue of the thread pool and the end of listen(), and what a Result *)
(* tells of its request, for any number of workers, connections, clients   *)
(* and requests.                                                           *)
(*                                                                         *)
(* HttpInv is about who holds which connection.  ToldInv adds to it what   *)
(* is on the connections: Shape (types, who holds which socket), LinkOK    *)
(* (what a connection may hold while its client is in a call), RunsOnce    *)
(* (what has been sent but not dispatched has not run and is nowhere       *)
(* twice) and AnswersTell (whoever holds a response, it says what ran).    *)
(***************************************************************************)
EXTENDS HttpLink, SequenceTheorems, FiniteSetTheorems, TLAPS

(* Only the states of the sockets matter here, not what is sent on them.   *)
ConnOK ==
    /\ conn = [c \in Conns |-> conn[c]]
    /\ \A c \in Conns :
          /\ conn[c] = [at |-> conn[c].at, to |-> conn[c].to]
          /\ conn[c].at \in [Ends -> {"closed", "backlog", "open"}]

ServerAt(c) == conn[c].at["server"]

IsWork(s) ==
    s = [pc |-> s.pc, sock |-> s.sock, left |-> s.left, buf |-> s.buf,
         req |-> s.req, res |-> s.res]

ListenerPcs ==
    {"accept", "enqueue", "notify", "shutdown", "notify_all", "join", "ended", "killed"}

PoolOK ==
    /\ listener = [pc |-> listener.pc, sock |-> listener.sock]
    /\ listener.pc \in ListenerPcs
    /\ listener.pc = "enqueue" => listener.sock \in Conns
    /\ jobs \in Seq(Conns)
    /\ shutdown_ \in BOOLEAN
    /\ shutdown_ <=> listener.pc \in {"notify_all", "join", "ended"}
    /\ asleep \subseteq Workers
    /\ worker = [w \in Workers |-> worker[w]]
    /\ \A w \in Workers : IsWork(worker[w])

(* A worker has a connection except at the top of its loop and at its end. *)
Busy(w) == worker[w].pc \notin {"check", "gone"}

LeftOnEmpty ==
    /\ \A w \in Workers :
          WorkerAt(w, "gone") => listener.pc = "killed" \/ (shutdown_ /\ jobs = <<>>)
    /\ listener.pc = "ended" => \A w \in Workers : WorkerAt(w, "gone")

(* Every connection that was accepted is in somebody's hands until it is   *)
(* closed, and none waits in the backlog of a server that has ended.       *)
Owned(c) ==
    \/ listener.pc = "enqueue" /\ listener.sock = c
    \/ \E i \in DOMAIN jobs : jobs[i] = c
    \/ \E w \in Workers : Busy(w) /\ worker[w].sock = c

NothingDropped ==
    \A c \in Conns :
        /\ ServerAt(c) = "open" => Owned(c)
        /\ ServerAt(c) = "backlog" => Listening

HttpInv == ConnOK /\ PoolOK /\ LeftOnEmpty /\ NothingDropped /\ NobodySleepsOnWork

-----------------------------------------------------------------------------
(* What the operations on sockets do to the states of the two ends.        *)
LEMMA SetEnds ==
    ASSUME ConnOK, NEW c, NEW x, x = [at |-> x.at, to |-> x.to],
           c \in Conns => x.at \in [Ends -> {"closed", "backlog", "open"}],
           conn' = [d \in Conns |-> IF d = c THEN x ELSE conn[d]]
    PROVE  ConnOK' /\ \A d \in Conns : conn'[d].at = IF d = c THEN x.at ELSE conn[d].at
<1>1. \A d \in Conns : conn'[d] = IF d = c THEN x ELSE conn[d]
  BY DEF ConnOK
<1>2. conn' = [d \in Conns |-> conn'[d]]
  BY DEF ConnOK
<1> QED
  BY <1>1, <1>2 DEF ConnOK

LEMMA SendEnds ==
    ASSUME ConnOK, NEW c, NEW e, NEW data, conn' = [conn EXCEPT ![c].to[e] = data]
    PROVE  ConnOK' /\ \A d \in Conns : conn'[d].at = conn[d].at
<1> DEFINE x == [at |-> conn[c].at, to |-> [conn[c].to EXCEPT ![e] = data]]
<1>1. CASE c \in Conns
  <2>1. conn' = [d \in Conns |-> IF d = c THEN x ELSE conn[d]]
    <3>1. x = [conn[c] EXCEPT !.to = [conn[c].to EXCEPT ![e] = data]]
      BY <1>1 DEF ConnOK
    <3>2. conn' = [conn EXCEPT ![c] = [conn[c] EXCEPT !.to = [conn[c].to EXCEPT ![e] = data]]]
      OBVIOUS
    <3> HIDE DEF x
    <3> QED
      BY <3>1, <3>2 DEF ConnOK
  <2>2. x = [at |-> x.at, to |-> x.to] /\ x.at = conn[c].at
    OBVIOUS
  <2>3. x.at \in [Ends -> {"closed", "backlog", "open"}]
    BY <1>1, <2>2 DEF ConnOK
  <2> HIDE DEF x
  <2>4. ConnOK' /\ \A d \in Conns : conn'[d].at = IF d = c THEN x.at ELSE conn[d].at
    <3>1. \A d \in Conns : conn'[d] = IF d = c THEN x ELSE conn[d]
      BY <2>1
    <3>2. conn' = [d \in Conns |-> conn'[d]]
      BY <2>1
    <3> QED
      BY <2>2, <2>3, <3>1, <3>2 DEF ConnOK
  <2> QED
    BY <2>2, <2>4
<1>2. CASE c \notin Conns
  BY <1>2 DEF ConnOK
<1> QED
  BY <1>1, <1>2

LEMMA WriteEnds ==
    ASSUME ConnOK, NEW c, NEW e \in Ends, NEW data, NEW ok, Write(c, e, data, ok)
    PROVE  ConnOK' /\ \A d \in Conns : conn'[d].at = conn[d].at
<1>1. CASE conn' = conn
  BY <1>1 DEF ConnOK
<1>2. CASE conn' = [conn EXCEPT ![c].to[Other(e)] = @ \o data]
  BY <1>2, SendEnds
<1> QED
  BY <1>1, <1>2 DEF Write

LEMMA RecvEnds ==
    ASSUME ConnOK, NEW c, NEW e \in Ends, NEW n, Recv(c, e, n)
    PROVE  ConnOK' /\ \A d \in Conns : conn'[d].at = conn[d].at
BY SendEnds DEF Recv

LEMMA SameEnds ==
    ASSUME ConnOK, UNCHANGED conn
    PROVE  ConnOK' /\ \A d \in Conns : conn'[d].at = conn[d].at
BY DEF ConnOK

LEMMA CloseEnds ==
    ASSUME ConnOK, NEW c, NEW e \in Ends, Close(c, e)
    PROVE  /\ ConnOK'
           /\ \A d \in Conns : conn'[d].at = IF d = c THEN [conn[d].at EXCEPT ![e] = "closed"]
                                             ELSE conn[d].at
<1>1. PICK kept \in MayKeep(c, e) : conn' = [conn EXCEPT ![c] = ClosedAt(c, e, kept)]
  BY DEF Close
<1>2. ClosedAt(c, e, kept).at = [conn[c].at EXCEPT ![e] = "closed"]
  BY DEF ClosedAt
<1>3. ClosedAt(c, e, kept) =
        [at |-> ClosedAt(c, e, kept).at, to |-> ClosedAt(c, e, kept).to]
  BY DEF ClosedAt
<1>4. c \in Conns => [conn[c].at EXCEPT ![e] = "closed"] \in [Ends -> {"closed", "backlog", "open"}]
  BY DEF ConnOK
<1> DEFINE x == ClosedAt(c, e, kept)
<1>5. conn' = [d \in Conns |-> IF d = c THEN x ELSE conn[d]]
  BY <1>1 DEF ConnOK
<1> HIDE DEF x
<1>6. ConnOK' /\ \A d \in Conns : conn'[d].at = IF d = c THEN x.at ELSE conn[d].at
  BY <1>2, <1>3, <1>4, <1>5, SetEnds DEF x
<1> QED
  BY <1>2, <1>6 DEF x

LEMMA CloseAllEnds ==
    ASSUME ConnOK, NEW cs, NEW e \in Ends, CloseAll(cs, e)
    PROVE  /\ ConnOK'
           /\ \A d \in Conns : conn'[d].at = IF d \in cs THEN [conn[d].at EXCEPT ![e] = "closed"]
                                             ELSE conn[d].at
<1> DEFINE K(lost, d) == IF lost /\ HasData(d, e) THEN 0 ELSE Len(conn[d].to[Other(e)])
<1>1. PICK lost \in BOOLEAN :
        conn' = [d \in Conns |-> IF d \notin cs THEN conn[d] ELSE ClosedAt(d, e, K(lost, d))]
  BY DEF CloseAll
<1>2. \A d, k : /\ ClosedAt(d, e, k).at = [conn[d].at EXCEPT ![e] = "closed"]
                /\ ClosedAt(d, e, k) = [at |-> ClosedAt(d, e, k).at, to |-> ClosedAt(d, e, k).to]
  BY DEF ClosedAt
<1>3. \A d \in Conns : conn'[d] = IF d \notin cs THEN conn[d] ELSE ClosedAt(d, e, K(lost, d))
  BY <1>1
<1>4. conn' = [d \in Conns |-> conn'[d]]
  BY <1>1
<1> HIDE DEF K
<1>5. ASSUME NEW d \in Conns
      PROVE  /\ conn'[d] = [at |-> conn'[d].at, to |-> conn'[d].to]
             /\ conn'[d].at = IF d \in cs THEN [conn[d].at EXCEPT ![e] = "closed"] ELSE conn[d].at
  <2>1. CASE d \in cs
    <3>1. conn'[d] = ClosedAt(d, e, K(lost, d))
      BY <1>3, <2>1
    <3> QED
      BY <1>2, <2>1, <3>1
  <2>2. CASE d \notin cs
    BY <1>3, <2>2 DEF ConnOK
  <2> QED
    BY <2>1, <2>2
<1>6. \A d \in Conns : conn'[d].at \in [Ends -> {"closed", "backlog", "open"}]
  BY <1>5 DEF ConnOK
<1> QED
  BY <1>4, <1>5, <1>6 DEF ConnOK

LEMMA ConnectEnds ==
    ASSUME ConnOK, NEW c \in Slots, Connect(c, Slots)
    PROVE  /\ ConnOK' /\ c \in Conns
           /\ \A d \in Conns : conn'[d].at["server"] =
                  IF d = c THEN "backlog" ELSE conn[d].at["server"]
<1>1. c \in Conns
  BY HttpClientAssumption
<1>2. conn' = [conn EXCEPT ![c] = Connected(c)]
  BY DEF Connect
<1>3. /\ Connected(c) = [at |-> [client |-> "open", server |-> "backlog"],
                         to |-> [f \in Ends |-> <<>>]]
      /\ [client |-> "open", server |-> "backlog"] \in [Ends -> {"closed", "backlog", "open"}]
  BY DEF Connected, NoConn, Ends
<1> DEFINE x == Connected(c)
<1>4. conn' = [d \in Conns |-> IF d = c THEN x ELSE conn[d]]
  BY <1>2 DEF ConnOK
<1>5. x = [at |-> x.at, to |-> x.to] /\ x.at \in [Ends -> {"closed", "backlog", "open"}]
      /\ x.at["server"] = "backlog"
  BY <1>3
<1> HIDE DEF x
<1>6. ConnOK' /\ \A d \in Conns : conn'[d].at = IF d = c THEN x.at ELSE conn[d].at
  BY <1>4, <1>5, SetEnds
<1> QED
  BY <1>1, <1>5, <1>6

-----------------------------------------------------------------------------
(* The records that the actions make of a worker's, under names of their   *)
(* own, which the provers take more easily than the updates themselves.    *)
WorkOn(pc, sock, left) == [NoWork EXCEPT !.pc = pc, !.sock = sock, !.left = left]

WorkAfterReading(s, pc, buf, req, res) ==
    [s EXCEPT !.pc = pc, !.buf = buf, !.req = req, !.res = res]

WorkWithAnswer(s, pc, res) == [s EXCEPT !.pc = pc, !.res = res]

LEMMA NewWork ==
    ASSUME NEW pc, NEW sock, NEW left
    PROVE  LET x == WorkOn(pc, sock, left) IN IsWork(x) /\ x.pc = pc /\ x.sock = sock
<1> DEFINE r == [NoWork EXCEPT !.pc = pc]
           q == [r EXCEPT !.sock = sock]
           t == [q EXCEPT !.left = left]
<1>1. t = WorkOn(pc, sock, left)
  BY DEF WorkOn
<1>2. IsWork(r) /\ r.pc = pc
  <2>1. IsWork(NoWork)
    BY DEF IsWork, NoWork
  <2> QED
    BY <2>1 DEF IsWork
<1> HIDE DEF r
<1>3. IsWork(q) /\ q.pc = pc /\ q.sock = sock
  BY <1>2 DEF IsWork
<1> HIDE DEF q
<1>4. IsWork(t) /\ t.pc = pc /\ t.sock = sock
  BY <1>3 DEF IsWork
<1> QED
  BY <1>1, <1>4

LEMMA InitHttp == Init => HttpInv
<1> SUFFICES ASSUME Init PROVE HttpInv
  OBVIOUS
<1>1. ConnOK /\ \A c \in Conns : ServerAt(c) = "closed"
  BY DEF Init, ConnOK, NoConn, Ends, ServerAt
<1>2. PoolOK /\ \A w \in Workers : worker[w].pc = "check"
  <2>1. \A w \in Workers : worker[w] = NoWork /\ IsWork(NoWork) /\ NoWork.pc = "check"
    BY DEF Init, ServerInit, NoWork, IsWork
  <2>2. worker = [w \in Workers |-> worker[w]]
    BY DEF Init, ServerInit
  <2>3. \A w \in Workers : IsWork(worker[w]) /\ worker[w].pc = "check"
    BY <2>1
  <2>4. jobs \in Seq(Conns)
    BY DEF Init, ServerInit
  <2>5. /\ listener = [pc |-> listener.pc, sock |-> listener.sock]
        /\ listener.pc = "accept" /\ shutdown_ = FALSE /\ asleep = {}
    BY DEF Init, ServerInit
  <2> QED
    BY <2>2, <2>3, <2>4, <2>5 DEF PoolOK, ListenerPcs
<1>3. LeftOnEmpty
  BY <1>2 DEF Init, ServerInit, LeftOnEmpty, WorkerAt
<1>4. NothingDropped
  BY <1>1 DEF NothingDropped
<1>5. NobodySleepsOnWork
  BY DEF Init, ServerInit, NobodySleepsOnWork
<1> QED
  BY <1>1, <1>2, <1>3, <1>4, <1>5 DEF HttpInv

(* A step of a client: it sends, receives and closes its own end, and      *)
(* connects while the server listens.                                      *)
LEMMA ClientKeepsInv ==
    ASSUME HttpInv, UNCHANGED serverVars, ConnOK',
           \A c \in Conns : \/ ServerAt(c)' = ServerAt(c)
                            \/ ServerAt(c)' = "backlog" /\ Listening
    PROVE  HttpInv'
<1>1. PoolOK' /\ LeftOnEmpty' /\ NobodySleepsOnWork'
  BY DEF HttpInv, PoolOK, LeftOnEmpty, NobodySleepsOnWork, WorkerAt, serverVars, poolVars
<1>2. \A c \in Conns : (Owned(c)' <=> Owned(c)) /\ (Listening' <=> Listening)
  BY DEF Owned, Busy, Listening, serverVars, poolVars
<1>3. NothingDropped'
  BY <1>2 DEF HttpInv, NothingDropped
<1> QED
  BY <1>1, <1>3 DEF HttpInv

LEMMA ClientStepInv ==
    ASSUME HttpInv, NEW k \in Clients, UNCHANGED serverVars,
           ClientStep(k, Listening) \/ read_timeout(k) \/ (\E r \in Requests[k] : Call(k, r))
    PROVE  HttpInv'
<1> "client" \in Ends /\ "server" \in Ends /\ ConnOK
  BY DEF Ends, HttpInv
<1>1. CASE UNCHANGED conn
  BY <1>1, SameEnds, ClientKeepsInv DEF ServerAt
<1>2. CASE Close(client[k].sock, "client")
  <2>1. ConnOK' /\ \A d \in Conns : ServerAt(d)' = ServerAt(d)
    <3>1. /\ ConnOK'
          /\ \A d \in Conns : conn'[d].at \in {conn[d].at, [conn[d].at EXCEPT !["client"] = "closed"]}
      BY <1>2, CloseEnds
    <3> QED
      BY <3>1 DEF ServerAt, ConnOK
  <2> QED
    BY <2>1, ClientKeepsInv
<1>3. ASSUME NEW n, Recv(client[k].sock, "client", n) PROVE HttpInv'
  BY <1>3, RecvEnds, ClientKeepsInv DEF ServerAt
<1>4. ASSUME NEW data, NEW ok, Write(client[k].sock, "client", data, ok) PROVE HttpInv'
  BY <1>4, WriteEnds, ClientKeepsInv DEF ServerAt
<1>5. ASSUME NEW c \in Slots, Connect(c, Slots), Listening PROVE HttpInv'
  BY <1>5, ConnectEnds, ClientKeepsInv DEF ServerAt
<1>6. CASE send_(k)
  BY <1>6, <1>1, <1>2 DEF send_
<1>7. CASE create_and_connect_socket(k, Listening)
  BY <1>7, <1>1, <1>5 DEF create_and_connect_socket
<1>8. CASE write_head(k)
  BY <1>8, <1>4 DEF write_head
<1>9. CASE write_body(k)
  BY <1>9, <1>4 DEF write_body
<1>10. CASE read_response(k)
  BY <1>10, <1>3 DEF read_response
<1>11. CASE read_end(k) \/ read_timeout(k) \/ (\E r \in Requests[k] : Call(k, r))
  BY <1>11, <1>1 DEF read_end, read_timeout, Call
<1>12. CASE return(k)
  BY <1>12, <1>1, <1>2 DEF return
<1> QED
  BY <1>6, <1>7, <1>8, <1>9, <1>10, <1>11, <1>12 DEF ClientStep

-----------------------------------------------------------------------------
(* A worker at work on its connection, which it keeps.                     *)
LEMMA WorkKeepsInv ==
    ASSUME HttpInv, NEW w \in Workers, Busy(w), NEW s, IsWork(s),
           s.sock = worker[w].sock, s.pc \notin {"check", "gone"},
           worker' = [worker EXCEPT ![w] = s],
           UNCHANGED <<listener, poolVars>>,
           ConnOK', \A d \in Conns : conn'[d].at = conn[d].at
    PROVE  HttpInv'
<1>1. \A u \in Workers : worker'[u] = IF u = w THEN s ELSE worker[u]
  BY DEF HttpInv, PoolOK
<1>2. worker' = [u \in Workers |-> worker'[u]]
  BY DEF HttpInv, PoolOK
<1>3. PoolOK'
  BY <1>1, <1>2 DEF HttpInv, PoolOK, poolVars
<1>4. \A u \in Workers : /\ WorkerAt(u, "gone")' <=> WorkerAt(u, "gone")
                         /\ Busy(u)' <=> Busy(u)
                         /\ worker'[u].sock = worker[u].sock
  BY <1>1 DEF WorkerAt, Busy
<1>5. LeftOnEmpty' /\ NobodySleepsOnWork'
  BY <1>4 DEF HttpInv, LeftOnEmpty, NobodySleepsOnWork, poolVars
<1>6. \A c \in Conns : (Owned(c)' <=> Owned(c)) /\ ServerAt(c)' = ServerAt(c)
  BY <1>4 DEF Owned, ServerAt, poolVars
<1>7. NothingDropped'
  BY <1>6 DEF HttpInv, NothingDropped, Listening
<1> QED
  BY <1>3, <1>5, <1>7 DEF HttpInv

LEMMA NextJobInv ==
    ASSUME HttpInv, NEW w \in Workers, next_job(w) PROVE HttpInv'
<1>1. ConnOK' /\ \A d \in Conns : conn'[d].at = conn[d].at
  BY SameEnds DEF HttpInv, next_job
<1>2. UNCHANGED <<listener, shutdown_, conn>> /\ WorkerAt(w, "check") /\ w \notin asleep
  BY DEF next_job
<1>3. listener.pc # "ended"
  BY <1>2 DEF HttpInv, LeftOnEmpty, WorkerAt
<1> DEFINE s == WorkOn("keep_alive", Head(jobs), KeepAliveMax)
<1>4. CASE jobs # <<>> /\ worker' = [worker EXCEPT ![w] = s] /\ jobs' = Tail(jobs)
           /\ UNCHANGED asleep
  <2>1. IsWork(s) /\ s.pc = "keep_alive" /\ s.sock = Head(jobs)
    BY NewWork
  <2> HIDE DEF s
  <2>2. \A u \in Workers : worker'[u] = IF u = w THEN s ELSE worker[u]
    BY <1>4 DEF HttpInv, PoolOK
  <2>3. worker' = [u \in Workers |-> worker'[u]]
    BY <1>4 DEF HttpInv, PoolOK
  <2>4. jobs \in Seq(Conns) /\ jobs # <<>> /\ jobs' \in Seq(Conns)
    BY <1>4 DEF HttpInv, PoolOK
  <2>5. PoolOK'
    BY <1>2, <1>4, <2>1, <2>2, <2>3, <2>4 DEF HttpInv, PoolOK
  <2>6. \A u \in Workers : WorkerAt(u, "gone")' => u # w /\ WorkerAt(u, "gone")
    BY <2>1, <2>2 DEF WorkerAt
  <2>7. LeftOnEmpty'
    BY <1>2, <1>3, <1>4, <2>6 DEF HttpInv, LeftOnEmpty
  <2>8. NobodySleepsOnWork'
    BY <1>2, <1>4 DEF HttpInv, NobodySleepsOnWork
  <2>9. \A i \in DOMAIN jobs : i = 1 \/ (i - 1 \in DOMAIN jobs' /\ jobs'[i - 1] = jobs[i])
    BY <1>4, <2>4
  <2>10. Busy(w)' /\ worker'[w].sock = jobs[1]
    BY <2>1, <2>2, <2>4 DEF Busy
  <2>11. \A u \in Workers : Busy(u) => Busy(u)' /\ worker'[u].sock = worker[u].sock
    BY <1>2, <2>2 DEF Busy, WorkerAt
  <2>12. \A c \in Conns : Owned(c) => Owned(c)'
    BY <1>2, <2>9, <2>10, <2>11 DEF Owned
  <2>13. NothingDropped'
    BY <1>1, <1>2, <2>12 DEF HttpInv, NothingDropped, ServerAt, Listening
  <2> QED
    BY <1>1, <2>5, <2>7, <2>8, <2>13 DEF HttpInv
<1>5. CASE jobs = <<>> /\ shutdown_ /\ Step(w, "gone") /\ UNCHANGED <<jobs, asleep>>
  <2>1. worker' = [worker EXCEPT ![w] = [worker[w] EXCEPT !.pc = "gone"]]
    BY <1>5 DEF Step
  <2>2. \A u \in Workers \ {w} : worker'[u] = worker[u]
    BY <2>1 DEF HttpInv, PoolOK
  <2>3. worker' = [u \in Workers |-> worker'[u]]
    BY <2>1 DEF HttpInv, PoolOK
  <2>4. IsWork(worker'[w]) /\ worker'[w].pc = "gone"
    <3>1. worker'[w] = [worker[w] EXCEPT !.pc = "gone"] /\ IsWork(worker[w])
      BY <2>1 DEF HttpInv, PoolOK
    <3> QED
      BY <3>1 DEF IsWork
  <2>5. PoolOK'
    BY <1>2, <1>5, <2>2, <2>3, <2>4 DEF HttpInv, PoolOK
  <2>6. LeftOnEmpty'
    BY <1>2, <1>3, <1>5, <2>2 DEF HttpInv, LeftOnEmpty, WorkerAt
  <2>7. NobodySleepsOnWork'
    BY <1>2, <1>5 DEF HttpInv, NobodySleepsOnWork
  <2>8. \A u \in Workers : Busy(u) => Busy(u)' /\ worker'[u] = worker[u]
    BY <1>2, <2>2 DEF Busy, WorkerAt
  <2>9. \A c \in Conns : Owned(c) => Owned(c)'
    BY <1>2, <1>5, <2>8 DEF Owned
  <2>10. NothingDropped'
    BY <1>1, <1>2, <2>9 DEF HttpInv, NothingDropped, ServerAt, Listening
  <2> QED
    BY <1>1, <2>5, <2>6, <2>7, <2>10 DEF HttpInv
<1>6. CASE /\ jobs = <<>> /\ ~shutdown_
           /\ asleep' = asleep \union {w} /\ UNCHANGED <<jobs, worker>>
  <2>1. PoolOK'
    BY <1>2, <1>6 DEF HttpInv, PoolOK
  <2>2. LeftOnEmpty'
    BY <1>2, <1>6 DEF HttpInv, LeftOnEmpty, WorkerAt
  <2>3. NobodySleepsOnWork'
    BY <1>2, <1>6 DEF HttpInv, NobodySleepsOnWork
  <2>4. NothingDropped'
    BY <1>1, <1>2, <1>6 DEF HttpInv, NothingDropped, Owned, Busy, ServerAt, Listening
  <2> QED
    BY <1>1, <2>1, <2>2, <2>3, <2>4 DEF HttpInv
<1> QED
  BY <1>4, <1>5, <1>6 DEF next_job, WorkOn

-----------------------------------------------------------------------------
(* The actions of a worker keep the shape of its record and its socket.    *)
LEMMA ReadingWork ==
    ASSUME NEW s, IsWork(s), NEW pc, NEW buf, NEW req, NEW res
    PROVE  LET x == WorkAfterReading(s, pc, buf, req, res) IN
           IsWork(x) /\ x.pc = pc /\ x.sock = s.sock
<1> DEFINE a == [s EXCEPT !.pc = pc]
           b == [a EXCEPT !.buf = buf]
           c == [b EXCEPT !.req = req]
           t == [c EXCEPT !.res = res]
<1>1. t = WorkAfterReading(s, pc, buf, req, res)
  BY DEF WorkAfterReading
<1>2. IsWork(a) /\ a.pc = pc /\ a.sock = s.sock
  BY DEF IsWork
<1> HIDE DEF a
<1>3. IsWork(b) /\ b.pc = pc /\ b.sock = s.sock
  BY <1>2 DEF IsWork
<1> HIDE DEF b
<1>4. IsWork(c) /\ c.pc = pc /\ c.sock = s.sock
  BY <1>3 DEF IsWork
<1> HIDE DEF c
<1>5. IsWork(t) /\ t.pc = pc /\ t.sock = s.sock
  BY <1>4 DEF IsWork
<1> QED
  BY <1>1, <1>5

LEMMA AnsweringWork ==
    ASSUME NEW s, IsWork(s), NEW pc, NEW res
    PROVE  LET x == WorkWithAnswer(s, pc, res) IN
           IsWork(x) /\ x.pc = pc /\ x.sock = s.sock
<1> DEFINE a == [s EXCEPT !.pc = pc]
           t == [a EXCEPT !.res = res]
<1>1. t = WorkWithAnswer(s, pc, res)
  BY DEF WorkWithAnswer
<1>2. IsWork(a) /\ a.pc = pc /\ a.sock = s.sock
  BY DEF IsWork
<1> HIDE DEF a
<1>3. IsWork(t) /\ t.pc = pc /\ t.sock = s.sock
  BY <1>2 DEF IsWork
<1> QED
  BY <1>1, <1>3

LEMMA RejectedWork ==
    ASSUME NEW s, IsWork(s), NEW buf
    PROVE  /\ IsWork(Rejected(s, buf))
           /\ Rejected(s, buf).pc = "head" /\ Rejected(s, buf).sock = s.sock
<1>1. \E req, res : Rejected(s, buf) = WorkAfterReading(s, "head", buf, req, res)
  BY ZenonT(60) DEF Rejected, WorkAfterReading
<1> QED
  BY <1>1, ReadingWork

LEMMA ParsedWork ==
    ASSUME NEW s, IsWork(s), s.pc = "read", NEW buf
    PROVE  /\ IsWork(Parsed(s, buf)) /\ Parsed(s, buf).sock = s.sock
           /\ Parsed(s, buf).pc \in {"head", "dispatch", "read"}
<1>1. CASE Progress(buf) = "malformed"
  BY <1>1, RejectedWork DEF Parsed
<1>2. CASE Progress(buf) = "complete"
  <2> DEFINE a == [s EXCEPT !.pc = "dispatch"]
             b == [a EXCEPT !.buf = buf]
             t == [b EXCEPT !.req = buf[1].m]
  <2>1. Parsed(s, buf) = t
    BY <1>2 DEF Parsed
  <2>2. IsWork(a) /\ a.pc = "dispatch" /\ a.sock = s.sock
    BY DEF IsWork
  <2> HIDE DEF a
  <2>3. IsWork(b) /\ b.pc = "dispatch" /\ b.sock = s.sock
    BY <2>2 DEF IsWork
  <2> HIDE DEF b
  <2>4. IsWork(t) /\ t.pc = "dispatch" /\ t.sock = s.sock
    BY <2>3 DEF IsWork
  <2> QED
    BY <2>1, <2>4
<1>3. CASE Progress(buf) \notin {"malformed", "complete"}
  <2>1. Parsed(s, buf) = [s EXCEPT !.buf = buf]
    BY <1>3 DEF Parsed
  <2>2. IsWork([s EXCEPT !.buf = buf]) /\ [s EXCEPT !.buf = buf].sock = s.sock
        /\ [s EXCEPT !.buf = buf].pc = s.pc
    BY DEF IsWork
  <2> QED
    BY <2>1, <2>2
<1> QED
  BY <1>1, <1>2, <1>3

(* What a worker at work does to itself.                                   *)
Works(w) ==
    \E s \in {worker'[w]} :
        /\ IsWork(s) /\ s.sock = worker[w].sock /\ s.pc \notin {"check", "gone"}
        /\ worker' = [worker EXCEPT ![w] = s]

LEMMA GoesOn ==
    ASSUME HttpInv, NEW w \in Workers, NEW s, IsWork(s), s.sock = worker[w].sock,
           s.pc \notin {"check", "gone"}, worker' = [worker EXCEPT ![w] = s]
    PROVE  Works(w)
<1>1. worker'[w] = s
  BY DEF HttpInv, PoolOK
<1> QED
  BY <1>1 DEF Works

LEMMA StepWorks ==
    ASSUME HttpInv, NEW w \in Workers, NEW pc, pc \notin {"check", "gone"}, Step(w, pc)
    PROVE  Works(w)
<1> DEFINE s == [worker[w] EXCEPT !.pc = pc]
<1>1. IsWork(worker[w])
  BY DEF HttpInv, PoolOK
<1>2. IsWork(s) /\ s.pc = pc /\ s.sock = worker[w].sock
  BY <1>1 DEF IsWork
<1>3. worker' = [worker EXCEPT ![w] = s]
  BY DEF Step
<1> HIDE DEF s
<1> QED
  BY <1>2, <1>3, GoesOn

LEMMA AnswerWorks ==
    ASSUME HttpInv, NEW w \in Workers, NEW pc, pc \notin {"check", "gone"}, NEW res,
           worker' = [worker EXCEPT ![w].pc = pc, ![w].res = res]
    PROVE  Works(w)
<1>1. IsWork(worker[w])
  BY DEF HttpInv, PoolOK
<1>2. worker' = [worker EXCEPT ![w] = [worker[w] EXCEPT !.pc = pc, !.res = res]]
  BY DEF HttpInv, PoolOK
<1>3. worker' = [worker EXCEPT ![w] = WorkWithAnswer(worker[w], pc, res)]
  BY <1>2 DEF WorkWithAnswer
<1>4. LET x == WorkWithAnswer(worker[w], pc, res) IN
      IsWork(x) /\ x.pc = pc /\ x.sock = worker[w].sock
  BY <1>1, AnsweringWork
<1> QED
  BY <1>3, <1>4, GoesOn

LEMMA NextRoundWorks ==
    ASSUME HttpInv, NEW w \in Workers, NextRound(w) PROVE Works(w)
<1>1. PICK pc \in {"close", "keep_alive"} :
        worker' = [worker EXCEPT ![w] = WorkOn(pc, worker[w].sock, worker[w].left - 1)]
  BY DEF NextRound, WorkOn, NoWork
<1> QED
  BY <1>1, NewWork, GoesOn

LEMMA WorksInv ==
    ASSUME HttpInv, NEW w \in Workers, Busy(w), Works(w), UNCHANGED <<listener, poolVars>>,
           ConnOK', \A d \in Conns : conn'[d].at = conn[d].at
    PROVE  HttpInv'
BY WorkKeepsInv DEF Works

(* The socket is closed and, with it, what the worker owned.               *)
LEMMA CloseSocketInv ==
    ASSUME HttpInv, NEW w \in Workers, close_socket(w) PROVE HttpInv'
<1> DEFINE c == worker[w].sock
<1>1. /\ WorkerAt(w, "close") /\ Close(c, "server")
      /\ worker' = [worker EXCEPT ![w] = NoWork] /\ UNCHANGED <<listener, poolVars>>
  BY DEF close_socket
<1>2. /\ ConnOK'
      /\ \A d \in Conns : conn'[d].at =
             IF d = c THEN [conn[d].at EXCEPT !["server"] = "closed"] ELSE conn[d].at
  BY <1>1, CloseEnds DEF HttpInv, Ends
<1>3. \A d \in Conns : ServerAt(d)' = IF d = c THEN "closed" ELSE ServerAt(d)
  BY <1>2 DEF ServerAt, HttpInv, ConnOK, Ends
<1>4. IsWork(NoWork) /\ NoWork.pc = "check"
  BY DEF IsWork, NoWork
<1>5. \A u \in Workers : worker'[u] = IF u = w THEN NoWork ELSE worker[u]
  BY <1>1 DEF HttpInv, PoolOK
<1>6. worker' = [u \in Workers |-> worker'[u]]
  BY <1>1 DEF HttpInv, PoolOK
<1>7. PoolOK'
  BY <1>1, <1>4, <1>5, <1>6 DEF HttpInv, PoolOK, poolVars
<1>8. \A u \in Workers : WorkerAt(u, "gone")' <=> WorkerAt(u, "gone")
  BY <1>1, <1>4, <1>5 DEF WorkerAt
<1>9. LeftOnEmpty' /\ NobodySleepsOnWork'
  BY <1>1, <1>8 DEF HttpInv, LeftOnEmpty, NobodySleepsOnWork, poolVars
<1>10. \A u \in Workers : Busy(u) /\ worker[u].sock # c =>
           Busy(u)' /\ worker'[u].sock = worker[u].sock
  BY <1>5 DEF Busy
<1>11. \A d \in Conns : d # c /\ Owned(d) => Owned(d)'
  BY <1>1, <1>10 DEF Owned, poolVars
<1>12. NothingDropped'
  BY <1>1, <1>3, <1>11 DEF HttpInv, NothingDropped, Listening
<1> QED
  BY <1>2, <1>7, <1>9, <1>12 DEF HttpInv

LEMMA WorkerStepInv ==
    ASSUME HttpInv, NEW w \in Workers, WorkerStep(w) PROVE HttpInv'
<1> "server" \in Ends /\ ConnOK /\ IsWork(worker[w])
  BY DEF Ends, HttpInv, PoolOK
<1> HIDE DEF HttpInv
<1>1. CASE keep_alive(w)
  <2>1. Works(w) /\ Busy(w) /\ UNCHANGED <<listener, poolVars, conn>>
    BY <1>1, StepWorks DEF keep_alive, Busy, WorkerAt
  <2> QED
    BY <2>1, SameEnds, WorksInv
<1>2. CASE read_request(w)
  <2>1. PICK n, buf : /\ Recv(worker[w].sock, "server", n)
                      /\ worker' = [worker EXCEPT ![w] = Parsed(worker[w], buf)]
    BY <1>2 DEF read_request
  <2>2. Busy(w) /\ worker[w].pc = "read" /\ UNCHANGED <<listener, poolVars>>
    BY <1>2 DEF read_request, Busy, WorkerAt
  <2>3. Works(w)
    BY <2>1, <2>2, ParsedWork, GoesOn
  <2>4. ConnOK' /\ \A d \in Conns : conn'[d].at = conn[d].at
    BY <2>1, RecvEnds
  <2> QED
    BY <2>2, <2>3, <2>4, WorksInv
<1>3. CASE read_ends(w)
  <2>1. Busy(w) /\ UNCHANGED <<listener, poolVars, conn>>
    BY <1>3 DEF read_ends, Busy, WorkerAt
  <2>2. \/ Step(w, "close")
        \/ worker' = [worker EXCEPT ![w] = Rejected(worker[w], worker[w].buf)]
    BY <1>3 DEF read_ends
  <2>3. Works(w)
    BY <2>2, StepWorks, RejectedWork, GoesOn
  <2> QED
    BY <2>1, <2>3, SameEnds, WorksInv
<1>4. CASE dispatch_request(w)
  <2>1. Busy(w) /\ UNCHANGED <<listener, poolVars, conn>>
    BY <1>4 DEF dispatch_request, Busy, WorkerAt
  <2>2. PICK res : worker' = [worker EXCEPT ![w].pc = "head", ![w].res = res]
    BY <1>4 DEF dispatch_request
  <2>3. Works(w)
    BY <2>2, AnswerWorks
  <2> QED
    BY <2>1, <2>3, SameEnds, WorksInv
<1>5. CASE write_response_head(w)
  <2>1. Busy(w) /\ UNCHANGED <<listener, poolVars>>
    BY <1>5 DEF write_response_head, Busy, WorkerAt
  <2>2. \/ NextRound(w)
        \/ \E res : worker' = [worker EXCEPT ![w].res = res, ![w].pc = "body"]
    BY <1>5 DEF write_response_head
  <2>3. Works(w)
    <3>1. CASE NextRound(w)
      BY <3>1, NextRoundWorks
    <3>2. ASSUME NEW res, worker' = [worker EXCEPT ![w].res = res, ![w].pc = "body"]
          PROVE  Works(w)
      <4>1. worker' = [worker EXCEPT ![w].pc = "body", ![w].res = res]
        BY <3>2 DEF IsWork
      <4> QED
        BY <4>1, AnswerWorks
    <3> QED
      BY <2>2, <3>1, <3>2
  <2>4. \E data, ok : Write(worker[w].sock, "server", data, ok)
    BY <1>5 DEF write_response_head
  <2> QED
    BY <2>1, <2>3, <2>4, WriteEnds, WorksInv
<1>6. CASE write_response_body(w)
  <2>1. Busy(w) /\ UNCHANGED <<listener, poolVars>>
    BY <1>6 DEF write_response_body, Busy, WorkerAt
  <2>2. NextRound(w) \/ Step(w, "close")
    BY <1>6 DEF write_response_body
  <2>3. Works(w)
    BY <2>2, NextRoundWorks, StepWorks
  <2>4. \E data, ok : Write(worker[w].sock, "server", data, ok)
    BY <1>6 DEF write_response_body
  <2> QED
    BY <2>1, <2>3, <2>4, WriteEnds, WorksInv
<1> QED
  BY <1>1, <1>2, <1>3, <1>4, <1>5, <1>6, NextJobInv, CloseSocketInv DEF WorkerStep

-----------------------------------------------------------------------------
(* The listener takes a connection from the backlog and hands it on.       *)
LEMMA AcceptInv ==
    ASSUME HttpInv, NEW c \in Conns, accept(c) PROVE HttpInv'
<1>1. /\ listener.pc = "accept" /\ listener' = [pc |-> "enqueue", sock |-> c]
      /\ conn' = [conn EXCEPT ![c].at["server"] = "open"]
      /\ UNCHANGED <<poolVars, worker>>
  BY DEF accept, Accept
<1> DEFINE x == [at |-> [conn[c].at EXCEPT !["server"] = "open"], to |-> conn[c].to]
<1>2. x = [conn[c] EXCEPT !.at = [conn[c].at EXCEPT !["server"] = "open"]]
  BY DEF HttpInv, ConnOK
<1>3. conn' = [conn EXCEPT ![c] =
          [conn[c] EXCEPT !.at = [conn[c].at EXCEPT !["server"] = "open"]]]
  BY <1>1
<1>4. /\ x = [at |-> x.at, to |-> x.to]
      /\ x.at \in [Ends -> {"closed", "backlog", "open"}]
      /\ x.at["server"] = "open"
  BY DEF HttpInv, ConnOK, Ends
<1> HIDE DEF x
<1>5. conn' = [d \in Conns |-> IF d = c THEN x ELSE conn[d]]
  BY <1>2, <1>3 DEF HttpInv, ConnOK
<1>6. ConnOK' /\ \A d \in Conns : conn'[d].at = IF d = c THEN x.at ELSE conn[d].at
  BY <1>4, <1>5, SetEnds DEF HttpInv
<1>7. \A d \in Conns : ServerAt(d)' = IF d = c THEN "open" ELSE ServerAt(d)
  BY <1>4, <1>6 DEF ServerAt
<1>8. PoolOK'
  BY <1>1 DEF HttpInv, PoolOK, poolVars, ListenerPcs
<1>9. LeftOnEmpty' /\ NobodySleepsOnWork'
  BY <1>1 DEF HttpInv, LeftOnEmpty, NobodySleepsOnWork, poolVars, WorkerAt
<1>10. \A d \in Conns : Owned(d) => Owned(d)'
  BY <1>1 DEF Owned, Busy, poolVars
<1>11. Owned(c)' /\ Listening'
  BY <1>1 DEF Owned, Listening
<1>12. NothingDropped'
  BY <1>7, <1>10, <1>11 DEF HttpInv, NothingDropped
<1> QED
  BY <1>6, <1>8, <1>9, <1>12 DEF HttpInv

LEMMA EnqueueInv ==
    ASSUME HttpInv, enqueue PROVE HttpInv'
<1>1. /\ listener.pc = "enqueue" /\ jobs' = Append(jobs, listener.sock)
      /\ listener' = [pc |-> "notify", sock |-> None]
      /\ UNCHANGED <<shutdown_, asleep, worker, conn>>
  BY DEF enqueue
<1>2. ConnOK' /\ \A d \in Conns : conn'[d].at = conn[d].at
  BY <1>1, SameEnds DEF HttpInv
<1>3. jobs \in Seq(Conns) /\ listener.sock \in Conns
  BY <1>1 DEF HttpInv, PoolOK
<1>4. PoolOK'
  BY <1>1, <1>3 DEF HttpInv, PoolOK, ListenerPcs
<1>5. LeftOnEmpty'
  BY <1>1 DEF HttpInv, LeftOnEmpty, PoolOK, WorkerAt
<1>6. NobodySleepsOnWork'
  BY <1>1 DEF HttpInv, NobodySleepsOnWork, PoolOK
<1>7. /\ \A i \in DOMAIN jobs : i \in DOMAIN jobs' /\ jobs'[i] = jobs[i]
      /\ Len(jobs) + 1 \in DOMAIN jobs' /\ jobs'[Len(jobs) + 1] = listener.sock
  BY <1>1, <1>3
<1>8. \A c \in Conns : Owned(c) => Owned(c)'
  BY <1>1, <1>7 DEF Owned, Busy
<1>9. NothingDropped'
  BY <1>1, <1>2, <1>8 DEF HttpInv, NothingDropped, Listening, ServerAt
<1> QED
  BY <1>2, <1>4, <1>5, <1>6, <1>9 DEF HttpInv

(* The other steps of the listener move it and the sleepers only.          *)
LEMMA ListenerMoves ==
    ASSUME HttpInv, PoolOK', LeftOnEmpty', NobodySleepsOnWork',
           listener.pc # "enqueue", Listening => Listening',
           UNCHANGED <<jobs, worker, conn>>
    PROVE  HttpInv'
<1>1. ConnOK' /\ \A d \in Conns : conn'[d].at = conn[d].at
  BY SameEnds DEF HttpInv
<1>2. \A c \in Conns : Owned(c) => Owned(c)'
  BY DEF Owned, Busy
<1>3. NothingDropped'
  BY <1>1, <1>2 DEF HttpInv, NothingDropped, ServerAt
<1> QED
  BY <1>1, <1>3 DEF HttpInv

LEMMA NotifyOneInv == ASSUME HttpInv, notify_one PROVE HttpInv'
<1>1. /\ listener.pc = "notify" /\ listener' = [listener EXCEPT !.pc = "accept"]
      /\ UNCHANGED <<jobs, shutdown_, worker, conn>>
  BY DEF notify_one
<1>2. listener' = [pc |-> "accept", sock |-> listener.sock]
  BY <1>1 DEF HttpInv, PoolOK
<1>3. asleep' \subseteq asleep /\ asleep' # Workers
  BY HttpServerAssumption DEF notify_one, HttpInv, PoolOK
<1>4. PoolOK'
  BY <1>1, <1>2, <1>3 DEF HttpInv, PoolOK, ListenerPcs
<1>5. LeftOnEmpty' /\ NobodySleepsOnWork'
  BY <1>1, <1>2, <1>3 DEF HttpInv, LeftOnEmpty, NobodySleepsOnWork, PoolOK, WorkerAt
<1> QED
  BY <1>1, <1>2, <1>4, <1>5, ListenerMoves DEF Listening

LEMMA ShutdownInv ==
    ASSUME HttpInv, set_shutdown \/ notify_all PROVE HttpInv'
<1>1. PICK pc \in {"notify_all", "join"} :
          listener' = [listener EXCEPT !.pc = pc] /\ listener.pc # pc
          /\ (pc = "join" <=> listener.pc = "notify_all")
          /\ (pc = "notify_all" <=> listener.pc = "shutdown")
  BY DEF set_shutdown, notify_all
<1>2. listener' = [pc |-> pc, sock |-> listener.sock]
  BY <1>1 DEF HttpInv, PoolOK
<1>3. UNCHANGED <<jobs, worker, conn>> /\ shutdown_' = TRUE
      /\ asleep' = (IF pc = "join" THEN {} ELSE asleep)
  BY <1>1 DEF set_shutdown, notify_all, HttpInv, PoolOK
<1>4. PoolOK'
  BY <1>2, <1>3 DEF HttpInv, PoolOK, ListenerPcs
<1>5. LeftOnEmpty'
  BY <1>1, <1>2, <1>3 DEF HttpInv, LeftOnEmpty, PoolOK, WorkerAt
<1>6. NobodySleepsOnWork'
  BY <1>1, <1>2, <1>3, HttpServerAssumption DEF NobodySleepsOnWork
<1> QED
  BY <1>1, <1>3, <1>4, <1>5, <1>6, ListenerMoves DEF Listening

LEMMA JoinInv == ASSUME HttpInv, join PROVE HttpInv'
<1>1. /\ listener.pc = "join" /\ listener' = [listener EXCEPT !.pc = "ended"]
      /\ \A w \in Workers : worker[w].pc = "gone"
      /\ UNCHANGED <<poolVars, worker, conn>>
  BY DEF join
<1>2. listener' = [pc |-> "ended", sock |-> listener.sock]
  BY <1>1 DEF HttpInv, PoolOK
<1>3. PoolOK'
  BY <1>1, <1>2 DEF HttpInv, PoolOK, ListenerPcs, poolVars
<1>4. LeftOnEmpty' /\ NobodySleepsOnWork'
  BY <1>1, <1>2 DEF HttpInv, LeftOnEmpty, NobodySleepsOnWork, poolVars, WorkerAt
<1> QED
  BY <1>1, <1>3, <1>4, ListenerMoves DEF Listening, poolVars

LEMMA SpuriousInv ==
    ASSUME HttpInv, NEW w \in Workers, spurious_wakeup(w) PROVE HttpInv'
<1>1. asleep' \subseteq asleep /\ asleep' # Workers /\ UNCHANGED <<listener, jobs, shutdown_, worker, conn>>
  BY DEF spurious_wakeup
<1>2. PoolOK' /\ LeftOnEmpty' /\ NobodySleepsOnWork'
  BY <1>1 DEF HttpInv, PoolOK, LeftOnEmpty, NobodySleepsOnWork, WorkerAt
<1>3. ConnOK' /\ \A d \in Conns : conn'[d].at = conn[d].at
  BY <1>1, SameEnds DEF HttpInv
<1>4. NothingDropped'
  BY <1>1, <1>3 DEF HttpInv, NothingDropped, Owned, Busy, Listening, ServerAt
<1> QED
  BY <1>2, <1>3, <1>4 DEF HttpInv

(* The server closes its socket: what waited to be accepted is reset.      *)
LEMMA AcceptFailsInv == ASSUME HttpInv, accept_fails PROVE HttpInv'
<1> DEFINE cs == {c \in Conns : conn[c].at["server"] = "backlog"}
<1>1. /\ listener.pc = "accept" /\ listener' = [listener EXCEPT !.pc = "shutdown"]
      /\ CloseAll(cs, "server") /\ UNCHANGED <<poolVars, worker>>
  BY DEF accept_fails
<1>2. listener' = [pc |-> "shutdown", sock |-> listener.sock]
  BY <1>1 DEF HttpInv, PoolOK
<1> HIDE DEF cs
<1>3. /\ ConnOK'
      /\ \A d \in Conns : conn'[d].at =
             IF d \in cs THEN [conn[d].at EXCEPT !["server"] = "closed"] ELSE conn[d].at
  BY <1>1, CloseAllEnds DEF HttpInv, Ends
<1>4. \A d \in Conns : ServerAt(d)' = IF d \in cs THEN "closed" ELSE ServerAt(d)
  BY <1>3 DEF ServerAt, HttpInv, ConnOK, Ends
<1>5. \A d \in Conns : ServerAt(d)' # "backlog" /\ (ServerAt(d)' = "open" => ServerAt(d) = "open")
  BY <1>4 DEF cs, ServerAt
<1>6. PoolOK'
  BY <1>1, <1>2 DEF HttpInv, PoolOK, ListenerPcs, poolVars
<1>7. LeftOnEmpty' /\ NobodySleepsOnWork'
  BY <1>1, <1>2 DEF HttpInv, LeftOnEmpty, NobodySleepsOnWork, PoolOK, poolVars, WorkerAt
<1>8. \A c \in Conns : Owned(c) => Owned(c)'
  BY <1>1 DEF Owned, Busy, poolVars
<1>9. NothingDropped'
  BY <1>5, <1>8 DEF HttpInv, NothingDropped
<1> QED
  BY <1>3, <1>6, <1>7, <1>9 DEF HttpInv

LEMMA KillInv == ASSUME HttpInv, kill PROVE HttpInv'
<1> DEFINE cs == {c \in Conns : ~Gone(c, "server")}
           s == [NoWork EXCEPT !.pc = "gone"]
<1>1. /\ Listening /\ listener' = [pc |-> "killed", sock |-> None]
      /\ CloseAll(cs, "server") /\ jobs' = <<>> /\ asleep' = {}
      /\ worker' = [w \in Workers |-> s] /\ UNCHANGED shutdown_
  BY DEF kill
<1> HIDE DEF cs
<1>2. /\ ConnOK'
      /\ \A d \in Conns : conn'[d].at =
             IF d \in cs THEN [conn[d].at EXCEPT !["server"] = "closed"] ELSE conn[d].at
  BY <1>1, CloseAllEnds DEF HttpInv, Ends
<1>3. \A d \in Conns : ServerAt(d)' = IF d \in cs THEN "closed" ELSE ServerAt(d)
  BY <1>2 DEF ServerAt, HttpInv, ConnOK, Ends
<1>4. \A d \in Conns : ServerAt(d)' = "closed"
  BY <1>3 DEF cs, ServerAt, Gone
<1>5. IsWork(s) /\ s.pc = "gone"
  BY DEF IsWork, NoWork
<1> HIDE DEF s
<1>6. shutdown_ = FALSE
  BY <1>1 DEF Listening, HttpInv, PoolOK
<1>7. PoolOK'
  <2>1. \A w \in Workers : IsWork(worker'[w])
    BY <1>1, <1>5
  <2>2. worker' = [w \in Workers |-> worker'[w]]
    BY <1>1
  <2> QED
    <3>1. listener' = [pc |-> listener'.pc, sock |-> listener'.sock] /\ listener'.pc = "killed"
      BY <1>1
    <3>2. jobs' \in Seq(Conns)
      BY <1>1
    <3> QED
      BY <1>1, <1>6, <2>1, <2>2, <3>1, <3>2 DEF PoolOK, ListenerPcs
<1>8. LeftOnEmpty' /\ NobodySleepsOnWork'
  BY <1>1, <1>6 DEF LeftOnEmpty, NobodySleepsOnWork
<1>9. NothingDropped'
  BY <1>4 DEF NothingDropped
<1> QED
  BY <1>2, <1>7, <1>8, <1>9 DEF HttpInv

-----------------------------------------------------------------------------
LEMMA NextHttp == HttpInv /\ [Next]_linkVars => HttpInv'
<1> SUFFICES ASSUME HttpInv, [Next]_linkVars PROVE HttpInv'
  OBVIOUS
<1>1. CASE UNCHANGED linkVars
  BY <1>1, SameEnds, ClientKeepsInv DEF linkVars, HttpInv, ServerAt
<1>2. ASSUME NEW k \in Clients, UNCHANGED serverVars,
             ClientStep(k, Listening) \/ read_timeout(k) \/ (\E r \in Requests[k] : Call(k, r))
      PROVE  HttpInv'
  BY <1>2, ClientStepInv
<1>3. CASE ListenerStep
  BY <1>3, AcceptInv, EnqueueInv, NotifyOneInv, ShutdownInv, JoinInv DEF ListenerStep
<1>4. CASE accept_fails \/ kill
  BY <1>4, AcceptFailsInv, KillInv
<1>5. ASSUME NEW w \in Workers, WorkerStep(w) \/ spurious_wakeup(w) PROVE HttpInv'
  BY <1>5, WorkerStepInv, SpuriousInv
<1> QED
  BY <1>1, <1>2, <1>3, <1>4, <1>5 DEF Next

LEMMA HttpInvariant == Spec => []HttpInv
BY InitHttp, NextHttp, PTL DEF Spec

(* No job is left in the queue to sleeping workers, though the listener    *)
(* signals outside the mutex: NobodySleepsOnWork for any number of them.   *)
THEOREM NoLostWakeup == Spec => []NobodySleepsOnWork
<1>1. HttpInv => NobodySleepsOnWork
  BY DEF HttpInv
<1> QED
  BY <1>1, HttpInvariant, PTL

(* listen() returns only when every connection it accepted was served to   *)
(* its end, whenever accept() fails: ListenEndsClean.                      *)
THEOREM ShutdownDrains == Spec => []ListenEndsClean
<1>1. HttpInv => ListenEndsClean
  <2> SUFFICES ASSUME HttpInv, listener.pc = "ended"
               PROVE  jobs = <<>> /\ \A c \in Conns : Gone(c, "server")
    BY DEF ListenEndsClean
  <2>1. \A w \in Workers : worker[w].pc = "gone"
    BY DEF HttpInv, LeftOnEmpty, WorkerAt
  <2>2. jobs = <<>>
    BY <2>1, HttpServerAssumption DEF HttpInv, LeftOnEmpty, WorkerAt
  <2>3. \A c \in Conns : ~Owned(c) /\ ~Listening
    BY <2>1, <2>2 DEF Owned, Busy, Listening
  <2>4. \A c \in Conns : ServerAt(c) \in {"closed", "backlog", "open"}
    BY DEF HttpInv, ConnOK, ServerAt, Ends
  <2>5. \A c \in Conns : ServerAt(c) = "closed"
    BY <2>3, <2>4 DEF HttpInv, NothingDropped
  <2> QED
    BY <2>2, <2>5 DEF Gone, ServerAt
<1> QED
  BY <1>1, HttpInvariant, PTL

-----------------------------------------------------------------------------
(* What a Result tells: the requests and the answers on the connections.   *)
Ids == Clients \X Nat

ReqMsgs ==
    [id : Ids, kind : {"request"}, ask : UNION {Requests[k] : k \in Clients},
     close : BOOLEAN, len : Nat, size : Nat]

AnsMsgs ==
    [id : Ids, kind : {200, 400, 404}, close : BOOLEAN, len : Nat, size : Nat]

Msgs == {m \in ReqMsgs \union AnsMsgs : m.size = m.len}

Tokens == [t : {"line", "headers", "byte"}, m : Msgs]

Begins(s) == 1 \in DOMAIN s /\ s[1].t = "line"

(* Parts of one message, from its start if s has the line.                 *)
OneMessage(s) ==
    /\ \A i \in DOMAIN s : s[i].m = s[1].m /\ (s[i].t = "line" => i = 1)
    /\ Begins(s) => Len(s) <= 2 + s[1].m.len

Whole(s) == Begins(s) /\ Len(s) >= 2 + s[1].m.len

IdsIn(s) == {s[i].m.id : i \in DOMAIN s}

(* The worker that serves c, and what it has read, or is yet to read, of   *)
(* requests that it has not dispatched.                                    *)
ServerOf(work, c) ==
    IF \E w \in Workers : work[w].pc \notin {"check", "gone"} /\ work[w].sock = c
    THEN work[CHOOSE w \in Workers : work[w].pc \notin {"check", "gone"} /\ work[w].sock = c]
    ELSE NoWork

Srv(c) == ServerOf(worker, c)

Held(v) == IF v.pc \in {"read", "dispatch"} THEN v.buf ELSE <<>>

Up(c) == Held(Srv(c)) \o conn[c].to["server"]

Down(k) == client[k].buf \o conn[client[k].sock].to["client"]

-----------------------------------------------------------------------------
(* Types, and who holds which socket.                                      *)
ClientRec ==
    [pc : {"idle", "send", "connect", "head", "body", "read", "return"}, n : Nat,
     sock : Conns \union {None}, req : Msgs \union {None}, buf : Seq(Tokens),
     res : Msgs \union {None}, err : {"Success", "Connection", "Write", "Read"}]

SocketTypes ==
    conn \in [Conns -> [at : [Ends -> {"closed", "open", "backlog"}], to : [Ends -> Seq(Tokens)]]]

SocketsOK ==
    /\ SocketTypes
    /\ \A c \in Conns : \A e \in Ends : conn[c].at[e] = "closed" => conn[c].to[e] = <<>>

Asking(s) == s.pc \in {"body", "read", "return"}

ClientOK(k) ==
    /\ client[k].n <= MaxCalls[k]
    /\ client[k].sock # None => conn[client[k].sock].at["client"] = "open"
    /\ client[k].pc \in {"send", "head", "body", "read"} => client[k].sock # None
    /\ client[k].pc = "connect" => client[k].sock = None
    /\ client[k].pc \notin {"read", "return"} => client[k].buf = <<>>
    /\ client[k].pc # "idle" => client[k].n > 0
    /\ client[k].n > 0 =>
          /\ client[k].req \in Msgs /\ client[k].req.id = <<k, client[k].n>>
          /\ client[k].req.close = (k \notin KeepAlive)
    /\ client[k].pc = "idle" /\ client[k].sock # None => k \in KeepAlive
    /\ client[k].pc = "return" /\ client[k].err = "Success" =>
          /\ client[k].sock # None
          /\ Whole(client[k].buf) /\ client[k].res = client[k].buf[1].m

OneClient ==
    \A k, l \in Clients : client[k].sock # None /\ client[k].sock = client[l].sock => k = l

ServerOK(v) ==
    /\ v.pc \in {"check", "keep_alive", "read", "dispatch", "head", "body", "close", "gone"}
    /\ v.buf \in Seq(Tokens)
    /\ v.pc \in {"check", "keep_alive"} => v.buf = <<>>
    /\ v.pc = "dispatch" => Whole(v.buf) /\ v.req = v.buf[1].m
    /\ v.pc \in {"head", "body"} => v.res \in AnsMsgs /\ v.res \in Msgs
    /\ v.pc = "body" => v.res.len > 0

(* Each connection that was accepted is in one place.                      *)
OneServer ==
    /\ \A w \in Workers : Busy(w) => worker[w].sock \in Conns /\ ServerAt(worker[w].sock) = "open"
    /\ \A w, u \in Workers : Busy(w) /\ Busy(u) /\ worker[w].sock = worker[u].sock => w = u
    /\ \A i \in DOMAIN jobs :
          /\ ServerAt(jobs[i]) = "open"
          /\ \A j \in DOMAIN jobs : jobs[i] = jobs[j] => i = j
          /\ \A w \in Workers : Busy(w) => worker[w].sock # jobs[i]
    /\ listener.pc = "enqueue" =>
          /\ ServerAt(listener.sock) = "open"
          /\ \A i \in DOMAIN jobs : jobs[i] # listener.sock
          /\ \A w \in Workers : Busy(w) => worker[w].sock # listener.sock

Shape ==
    /\ SocketsOK
    /\ client \in [Clients -> ClientRec]
    /\ \A k \in Clients : ClientOK(k)
    /\ OneClient
    /\ \A w \in Workers : ServerOK(worker[w])
    /\ OneServer

-----------------------------------------------------------------------------
(* The connection of a client: its request, or the answer to it.  up is    *)
(* what the server has to read, down what the client has, v the server and *)
(* at the server's end of the connection.                                  *)
Speaks(s, up, down, v) ==
    /\ \A i \in DOMAIN up : up[i].m = s.req
    /\ \A i \in DOMAIN down : down[i].m.id = s.req.id
    /\ v.pc \in {"head", "body"} => v.res.id = s.req.id
    /\ s.pc = "body" => Len(up) <= 2 /\ s.req.len > 0

(* On a connection that is kept, nothing may be left over.                 *)
InTurn(s, up, down, v, at) ==
    /\ up # <<>> => Begins(up) /\ down = <<>> /\ v.pc \notin {"head", "body"}
    /\ OneMessage(down) /\ (down # <<>> => Begins(down))
    /\ v.pc = "head" => down = <<>>
    /\ v.pc = "body" => Len(down) = 2 /\ down[1].m = v.res
    /\ s.pc = "body" /\ at # "closed" => up # <<>>

Fits(k, s, up, down, v, at) ==
    IF Asking(s) THEN Speaks(s, up, down, v) /\ (k \in KeepAlive => InTurn(s, up, down, v, at))
    ELSE up = <<>> /\ down = <<>> /\ v.pc \notin {"dispatch", "head", "body"}

LinkOK(k) ==
    client[k].sock # None =>
        Fits(k, client[k], Up(client[k].sock), Down(k), Srv(client[k].sock),
             ServerAt(client[k].sock))

-----------------------------------------------------------------------------
(* What has been sent, what runs and what is told of it.                   *)
Launched(s) ==
    s.n > 0 /\ (s.pc \in {"body", "read"} \/ (s.pc \in {"return", "idle"} /\ s.err # "Connection"))

IsSent(id) ==
    \E k \in Clients : \E j \in 1 .. client[k].n :
        id = <<k, j>> /\ (j < client[k].n \/ Launched(client[k]))

Starting(c, id) == Begins(Up(c)) /\ Up(c)[1].m.id = id

(* A response of this kind to this request, somewhere.                     *)
Given(id, kind) ==
    \/ \E c \in Conns : Srv(c).pc \in {"head", "body"} /\ Srv(c).res.id = id /\ Srv(c).res.kind = kind
    \/ \E c \in Conns : \E i \in DOMAIN conn[c].to["client"] :
          conn[c].to["client"][i].m.id = id /\ conn[c].to["client"][i].m.kind = kind
    \/ \E k \in Clients : \E i \in DOMAIN client[k].buf :
          client[k].buf[i].m.id = id /\ client[k].buf[i].m.kind = kind
    \/ \E k \in Clients : /\ Returned(k) /\ client[k].err = "Success"
                          /\ client[k].res.id = id /\ client[k].res.kind = kind

Answered(id, kind) ==
    /\ ran[id] = IF kind = 200 THEN 1 ELSE 0
    /\ IsSent(id)
    /\ \A c \in Conns : ~Starting(c, id)

(* Between the head of a request and its body.                             *)
BodyAhead(k) ==
    client[k].pc = "body" =>
        /\ ran[<<k, client[k].n>>] = 0
        /\ \A c \in Conns : c # client[k].sock => <<k, client[k].n>> \notin IdsIn(Up(c))

RunsOnce ==
    /\ \A c \in Conns : \A id \in IdsIn(Up(c)) : ran[id] = 0 /\ IsSent(id)
    /\ \A c, d \in Conns : \A id \in IdsIn(Up(c)) : id \in IdsIn(Up(d)) => c = d
    /\ DOMAIN ran = ServerCalls
    /\ \A id \in ServerCalls : ran[id] \in {0, 1} /\ (~IsSent(id) => ran[id] = 0)
    /\ \A k \in Clients : BodyAhead(k)

AnswersTell == \A id, kind : Given(id, kind) => Answered(id, kind)

ResultsAreOwn ==
    \A k \in Clients : Returned(k) /\ client[k].err = "Success" =>
        client[k].res.id = client[k].req.id

ToldInv ==
    /\ HttpInv
    /\ Shape
    /\ \A c \in Conns : OneMessage(Up(c))
    /\ \A k \in Clients : LinkOK(k)
    /\ RunsOnce /\ AnswersTell /\ ResultsAreOwn

-----------------------------------------------------------------------------
(* Sequences of tokens.                                                    *)
LEMMA TokenAt ==
    ASSUME NEW s \in Seq(Tokens)
    PROVE  /\ Len(s) \in Nat /\ DOMAIN s = 1 .. Len(s)
           /\ \A i \in DOMAIN s : s[i] \in Tokens /\ s[i].m \in Msgs
           /\ s = <<>> <=> Len(s) = 0
<1>1. Len(s) \in Nat /\ DOMAIN s = 1 .. Len(s)
  BY LenProperties
<1>2. ASSUME NEW i \in DOMAIN s PROVE s[i] \in Tokens
  BY <1>1, ElementOfSeq
<1> QED
  BY <1>1, <1>2, EmptySeq DEF Tokens

LEMMA NoTokens == <<>> \in Seq(Tokens) /\ DOMAIN <<>> = {} /\ IdsIn(<<>>) = {} /\ Len(<<>>) = 0
<1>1. DOMAIN <<>> = {}
  BY EmptySeq, LenProperties
<1> QED
  BY <1>1, EmptySeq DEF IdsIn

LEMMA MsgIs ==
    ASSUME NEW m \in Msgs
    PROVE  /\ m.id \in Ids /\ m.len \in Nat /\ m.size = m.len /\ m.close \in BOOLEAN
           /\ \A t \in {"line", "headers", "byte"} : Token(t, m) \in Tokens
<1>1. m.id \in Ids /\ m.len \in Nat /\ m.close \in BOOLEAN
  <2>1. CASE m \in ReqMsgs
    BY <2>1 DEF ReqMsgs
  <2>2. CASE m \in AnsMsgs
    BY <2>2 DEF AnsMsgs
  <2> QED
    BY <2>1, <2>2 DEF Msgs
<1> QED
  BY <1>1 DEF Msgs, Token, Tokens

LEMMA Joined ==
    ASSUME NEW s \in Seq(Tokens), NEW t \in Seq(Tokens), NEW u, u = s \o t
    PROVE  /\ u \in Seq(Tokens) /\ Len(u) = Len(s) + Len(t)
           /\ \A i \in DOMAIN s : i \in DOMAIN u /\ u[i] = s[i]
           /\ \A i \in DOMAIN t : Len(s) + i \in DOMAIN u /\ u[Len(s) + i] = t[i]
           /\ \A i \in DOMAIN u : \/ i \in DOMAIN s /\ u[i] = s[i]
                                  \/ i - Len(s) \in DOMAIN t /\ u[i] = t[i - Len(s)]
<1>1. /\ u \in Seq(Tokens) /\ Len(u) = Len(s) + Len(t)
      /\ \A i \in 1 .. Len(s) + Len(t) : u[i] = IF i <= Len(s) THEN s[i] ELSE t[i - Len(s)]
  BY ConcatProperties
<1>2. /\ Len(s) \in Nat /\ DOMAIN s = 1 .. Len(s)
      /\ Len(t) \in Nat /\ DOMAIN t = 1 .. Len(t)
      /\ DOMAIN u = 1 .. Len(s) + Len(t)
  BY <1>1, LenProperties
<1>3. ASSUME NEW i \in DOMAIN t
      PROVE  Len(s) + i \in DOMAIN u /\ u[Len(s) + i] = t[i]
  <2>1. Len(s) + i \in 1 .. Len(s) + Len(t) /\ ~(Len(s) + i <= Len(s)) /\ (Len(s) + i) - Len(s) = i
    BY <1>2
  <2> QED
    BY <1>1, <1>2, <2>1
<1>4. ASSUME NEW i \in DOMAIN s
      PROVE  i \in DOMAIN u /\ u[i] = s[i]
  BY <1>1, <1>2
<1>5. ASSUME NEW i \in DOMAIN u
      PROVE  \/ i \in DOMAIN s /\ u[i] = s[i]
             \/ i - Len(s) \in DOMAIN t /\ u[i] = t[i - Len(s)]
  <2>1. i \in 1 .. Len(s) + Len(t)
    BY <1>2
  <2>2. CASE i <= Len(s)
    BY <1>1, <1>2, <2>1, <2>2
  <2>3. CASE ~(i <= Len(s))
    <3>1. i - Len(s) \in DOMAIN t
      BY <1>2, <2>1, <2>3
    <3> QED
      BY <1>1, <2>1, <2>3, <3>1
  <2> QED
    BY <2>2, <2>3
<1> QED
  BY <1>1, <1>3, <1>4, <1>5

LEMMA JoinedIds ==
    ASSUME NEW s \in Seq(Tokens), NEW t \in Seq(Tokens), NEW u, u = s \o t
    PROVE  IdsIn(u) = IdsIn(s) \union IdsIn(t)
<1>1. /\ \A i \in DOMAIN s : i \in DOMAIN u /\ u[i] = s[i]
      /\ \A i \in DOMAIN t : Len(s) + i \in DOMAIN u /\ u[Len(s) + i] = t[i]
      /\ \A i \in DOMAIN u : \/ i \in DOMAIN s /\ u[i] = s[i]
                             \/ i - Len(s) \in DOMAIN t /\ u[i] = t[i - Len(s)]
  BY Joined
<1>2. \A x \in IdsIn(s) \union IdsIn(t) : x \in IdsIn(u)
  <2>1. ASSUME NEW i \in DOMAIN s PROVE s[i].m.id \in IdsIn(u)
    BY <1>1 DEF IdsIn
  <2>2. ASSUME NEW i \in DOMAIN t PROVE t[i].m.id \in IdsIn(u)
    BY <1>1 DEF IdsIn
  <2> QED
    BY <2>1, <2>2 DEF IdsIn
<1>3. \A x \in IdsIn(u) : x \in IdsIn(s) \union IdsIn(t)
  BY <1>1 DEF IdsIn
<1> QED
  BY <1>2, <1>3

(* What is received of what was sent, and the rest.                        *)
LEMMA Cut ==
    ASSUME NEW s \in Seq(Tokens), NEW n \in 0 .. Len(s)
    PROVE  /\ SubSeq(s, 1, n) \in Seq(Tokens) /\ Len(SubSeq(s, 1, n)) = n
           /\ SubSeq(s, n + 1, Len(s)) \in Seq(Tokens)
           /\ s = SubSeq(s, 1, n) \o SubSeq(s, n + 1, Len(s))
<1>1. Len(s) \in Nat
  BY LenProperties
<1>2. s = SubSeq(s, 1, Len(s))
  BY SubSeqFull
<1>3. SubSeq(s, 1, n) \o SubSeq(s, n + 1, Len(s)) = SubSeq(s, 1, Len(s))
  <2>1. /\ 1 \in 1 .. Len(s) + 1 /\ n \in 1 - 1 .. Len(s) /\ Len(s) \in n .. Len(s)
    BY <1>1
  <2> QED
    BY <2>1, ConcatAdjacentSubSeq
<1>4. SubSeq(s, 1, n) \in Seq(Tokens) /\ Len(SubSeq(s, 1, n)) = n
  BY <1>1, SubSeqProperties
<1>5. SubSeq(s, n + 1, Len(s)) \in Seq(Tokens)
  BY <1>1, SubSeqProperties
<1> QED
  BY <1>2, <1>3, <1>4, <1>5

LEMMA JoinedThree ==
    ASSUME NEW s \in Seq(Tokens), NEW t \in Seq(Tokens), NEW u \in Seq(Tokens)
    PROVE  (s \o t) \o u = s \o (t \o u)
BY ConcatAssociative

LEMMA JoinedNone ==
    ASSUME NEW s \in Seq(Tokens)
    PROVE  s \o <<>> = s /\ <<>> \o s = s
BY ConcatEmptySeq

Parts(up, f, rest) == f \in Seq(Tokens) /\ rest \in Seq(Tokens) /\ up = f \o rest

(* Of one message cut in two, the second part has no line.                 *)
LEMMA CutMessage ==
    ASSUME NEW s, NEW f, NEW b, Parts(s, f, b), OneMessage(s)
    PROVE  /\ OneMessage(f) /\ OneMessage(b)
           /\ f # <<>> => ~Begins(b)
           /\ Begins(f) => Begins(s) /\ f[1] = s[1]
           /\ f # <<>> /\ Begins(s) => Begins(f) /\ f[1] = s[1]
           /\ IdsIn(f) \subseteq IdsIn(s) /\ IdsIn(b) \subseteq IdsIn(s)
           /\ \A i \in DOMAIN f : f[i].m = s[1].m
           /\ \A i \in DOMAIN b : b[i].m = s[1].m
           /\ Len(s) = Len(f) + Len(b)
<1>0. f \in Seq(Tokens) /\ b \in Seq(Tokens) /\ s = f \o b
  BY DEF Parts
<1>1. /\ s \in Seq(Tokens) /\ Len(s) = Len(f) + Len(b)
      /\ \A i \in DOMAIN f : i \in DOMAIN s /\ s[i] = f[i]
      /\ \A i \in DOMAIN b : Len(f) + i \in DOMAIN s /\ s[Len(f) + i] = b[i]
  BY <1>0, Joined
<1>2. /\ Len(f) \in Nat /\ DOMAIN f = 1 .. Len(f) /\ (f = <<>> <=> Len(f) = 0)
      /\ Len(b) \in Nat /\ DOMAIN b = 1 .. Len(b)
      /\ DOMAIN s = 1 .. Len(s)
  BY <1>0, <1>1, TokenAt
<1>3. \A i \in DOMAIN s : s[i].m = s[1].m /\ (s[i].t = "line" => i = 1)
  BY DEF OneMessage
<1>4. \A i \in DOMAIN f : f[i].m = s[1].m /\ (f[i].t = "line" => i = 1)
  BY <1>1, <1>3
<1>5. \A i \in DOMAIN b : b[i].m = s[1].m /\ (b[i].t = "line" => Len(f) + i = 1)
  BY <1>1, <1>3
<1>6. \A i \in DOMAIN b : b[i].t = "line" => i = 1 /\ Len(f) = 0
  BY <1>2, <1>5
<1>7. Begins(f) => Begins(s) /\ f[1] = s[1]
  BY <1>1, <1>2 DEF Begins
<1>8. f # <<>> => ~Begins(b)
  BY <1>2, <1>6 DEF Begins
<1>9. f # <<>> => 1 \in DOMAIN f /\ f[1] = s[1]
  BY <1>1, <1>2
<1>10. Begins(s) => Len(s) <= 2 + s[1].m.len /\ s[1].m.len \in Nat
  <2>1. Begins(s) => s[1].m \in Msgs
    BY <1>1, TokenAt DEF Begins
  <2> QED
    BY <2>1, MsgIs DEF OneMessage
<1>11. OneMessage(f)
  <2>1. \A i \in DOMAIN f : f[i].m = f[1].m
    BY <1>2, <1>4
  <2>2. ASSUME Begins(f) PROVE Len(f) <= 2 + f[1].m.len
    <3>1. Len(s) <= 2 + f[1].m.len /\ f[1].m.len \in Nat
      BY <1>7, <1>10, <2>2
    <3> QED
      BY <1>1, <1>2, <3>1
  <2> QED
    BY <1>4, <2>1, <2>2 DEF OneMessage
<1>12. OneMessage(b)
  <2>1. \A i \in DOMAIN b : b[i].m = b[1].m
    BY <1>2, <1>5
  <2>2. ASSUME Begins(b) PROVE Len(b) <= 2 + b[1].m.len
    <3>1. Len(f) = 0 /\ 1 \in DOMAIN b
      BY <1>6, <2>2 DEF Begins
    <3>2. s[1] = b[1] /\ 1 \in DOMAIN s /\ Len(s) = Len(b)
      <4>1. Len(f) + 1 = 1
        BY <3>1
      <4> QED
        BY <1>1, <1>2, <3>1, <4>1
    <3> QED
      BY <1>10, <2>2, <3>2 DEF Begins
  <2> QED
    BY <1>6, <2>1, <2>2 DEF OneMessage
<1>13. IdsIn(s) = IdsIn(f) \union IdsIn(b)
  BY <1>0, JoinedIds
<1> QED
  BY <1>1, <1>4, <1>5, <1>7, <1>8, <1>9, <1>11, <1>12, <1>13 DEF Begins

LEMMA HeadIs ==
    ASSUME NEW m \in Msgs
    PROVE  /\ HeadOf(m) \in Seq(Tokens) /\ Len(HeadOf(m)) = 2 /\ HeadOf(m) # <<>>
           /\ \A i \in DOMAIN HeadOf(m) : HeadOf(m)[i].m = m
           /\ Begins(HeadOf(m)) /\ HeadOf(m)[1].m = m /\ OneMessage(HeadOf(m))
           /\ IdsIn(HeadOf(m)) = {m.id}
<1> DEFINE s == HeadOf(m)
<1>1. s = <<Token("line", m), Token("headers", m)>>
  BY DEF HeadOf
<1>2. /\ s \in Seq(Tokens) /\ Len(s) = 2 /\ DOMAIN s = 1 .. 2
      /\ s[1] = Token("line", m) /\ s[2] = Token("headers", m)
  BY <1>1, MsgIs
<1> HIDE DEF s
<1>3. /\ \A i \in DOMAIN s : s[i].m = m /\ (s[i].t = "line" => i = 1)
      /\ Begins(s) /\ s[1].m = m
  BY <1>2 DEF Begins, Token
<1>4. OneMessage(s)
  BY <1>2, <1>3, MsgIs DEF OneMessage
<1>5. IdsIn(s) = {m.id}
  BY <1>2, <1>3 DEF IdsIn
<1>6. s # <<>>
  BY <1>2, TokenAt
<1> QED
  BY <1>2, <1>3, <1>4, <1>5, <1>6 DEF s

LEMMA BodyIs ==
    ASSUME NEW m \in Msgs
    PROVE  /\ BodyOf(m) \in Seq(Tokens) /\ Len(BodyOf(m)) = m.len
           /\ \A i \in DOMAIN BodyOf(m) : BodyOf(m)[i].m = m /\ BodyOf(m)[i].t = "byte"
           /\ IdsIn(BodyOf(m)) \subseteq {m.id}
<1> DEFINE s == BodyOf(m)
<1>1. s = [i \in 1 .. m.len |-> Token("byte", m)] /\ m.len \in Nat
  BY MsgIs DEF BodyOf
<1>2. s \in Seq(Tokens) /\ Len(s) = m.len /\ DOMAIN s = 1 .. m.len
  BY <1>1, MsgIs, IsASeq, LenProperties
<1>3. \A i \in DOMAIN s : s[i].m = m /\ s[i].t = "byte"
  BY <1>1 DEF Token
<1> HIDE DEF s
<1>4. IdsIn(s) \subseteq {m.id}
  BY <1>3 DEF IdsIn
<1> QED
  BY <1>2, <1>3, <1>4 DEF s

(* The body after the head, or after a part that does not begin.           *)
WithBody(s, m, u) == u = s \o BodyOf(m)

LEMMA BodyFollows ==
    ASSUME NEW m \in Msgs, NEW s \in Seq(Tokens), OneMessage(s),
           \A i \in DOMAIN s : s[i].m = m, Len(s) <= 2, NEW u, WithBody(s, m, u)
    PROVE  OneMessage(u) /\ (\A i \in DOMAIN u : u[i].m = m) /\ (Begins(u) <=> Begins(s))
           /\ u \in Seq(Tokens)
           /\ (s # <<>> => u[1] = s[1]) /\ Len(u) = Len(s) + m.len
<1>1. /\ BodyOf(m) \in Seq(Tokens) /\ Len(BodyOf(m)) = m.len
      /\ \A i \in DOMAIN BodyOf(m) : BodyOf(m)[i].m = m /\ BodyOf(m)[i].t = "byte"
  BY BodyIs
<1>2. /\ u \in Seq(Tokens) /\ Len(u) = Len(s) + Len(BodyOf(m))
      /\ \A i \in DOMAIN s : i \in DOMAIN u /\ u[i] = s[i]
      /\ \A i \in DOMAIN u : \/ i \in DOMAIN s /\ u[i] = s[i]
                             \/ i - Len(s) \in DOMAIN BodyOf(m) /\ u[i] = BodyOf(m)[i - Len(s)]
  BY <1>1, Joined DEF WithBody
<1>3. /\ DOMAIN s = 1 .. Len(s) /\ Len(s) \in Nat /\ (s = <<>> <=> Len(s) = 0)
      /\ DOMAIN u = 1 .. Len(u) /\ Len(u) \in Nat /\ m.len \in Nat
  BY <1>2, TokenAt, MsgIs
<1>4. \A i \in DOMAIN u : u[i].m = m /\ (u[i].t = "line" => i \in DOMAIN s /\ u[i] = s[i])
  BY <1>1, <1>2
<1>5. Begins(u) <=> Begins(s)
  BY <1>2, <1>4 DEF Begins
<1>6. \A i \in DOMAIN u : u[i].t = "line" => i = 1
  BY <1>4 DEF OneMessage
<1>7. Begins(u) => Len(u) <= 2 + u[1].m.len
  <2>1. Begins(u) => u[1].m = m
    BY <1>4 DEF Begins
  <2>2. Len(u) <= 2 + m.len
    BY <1>1, <1>2, <1>3
  <2> QED
    BY <2>1, <2>2
<1>8. \A i \in DOMAIN u : u[i].m = u[1].m
  BY <1>3, <1>4
<1>9. OneMessage(u)
  BY <1>6, <1>7, <1>8 DEF OneMessage
<1>10. u \in Seq(Tokens) /\ Len(u) = Len(s) + m.len
  BY <1>1, <1>2
<1>11. s # <<>> => u[1] = s[1]
  BY <1>2, <1>3
<1>12. \A i \in DOMAIN u : u[i].m = m
  BY <1>4
<1> QED
  BY <1>5, <1>9, <1>10, <1>11, <1>12

LEMMA EmptyMessage == OneMessage(<<>>) /\ ~Begins(<<>>)
BY NoTokens DEF OneMessage, Begins

(* There is no induction over a predicate here (see the README); that a    *)
(* set of numbers has a least one follows from the well-foundedness of     *)
(* inclusion among finite sets.                                            *)
LEMMA LeastNatural ==
    ASSUME NEW S \in SUBSET Nat, S # {}
    PROVE  \E x \in S : \A y \in S : x <= y
<1> DEFINE Below(i) == 0 .. i - 1
           T == {Below(i) : i \in S}
           Less == StrictSubsetOrdering(Nat)
<1>1. T \subseteq FiniteSubsetsOf(Nat) /\ T # {}
  <2>1. \A i \in S : Below(i) \in SUBSET Nat /\ IsFiniteSet(Below(i))
    BY FS_Interval
  <2> QED BY <2>1 DEF FiniteSubsetsOf
<1>2. PICK t \in T : \A u \in T : ~ (<<u, t>> \in Less)
  <2>1. IsWellFoundedOn(Less, FiniteSubsetsOf(Nat))
    BY FS_StrictSubsetOrderingWellFounded
  <2> HIDE DEF T, Less
  <2> QED BY <1>1, <2>1, WFMin
<1>3. PICK x \in S : t = Below(x)
  BY <1>2
<1>4. ASSUME NEW y \in S, y < x PROVE FALSE
  <2>1. Below(y) \subseteq Below(x) /\ y \in Below(x) /\ y \notin Below(y)
    BY <1>4
  <2>2. Below(y) \in SUBSET Nat /\ Below(x) \in SUBSET Nat
    OBVIOUS
  <2> HIDE DEF Below
  <2>3. <<Below(y), Below(x)>> \in Less
    BY <2>1, <2>2 DEF StrictSubsetOrdering
  <2> QED BY <1>2, <1>3, <2>3
<1> QED BY <1>4

(* How a reader stands that has read s.                                    *)
LEMMA ProgressIs ==
    ASSUME NEW s \in Seq(Tokens)
    PROVE  /\ Progress(s) = "line" => \A i \in DOMAIN s : s[i].t = "byte"
           /\ Progress(s) # "line" => s # <<>> /\ getline(s) \in DOMAIN s
           /\ Progress(s) = "malformed" => ~Begins(s)
           /\ Progress(s) = "complete" => Whole(s)
<1>1. CASE \A i \in DOMAIN s : s[i].t = "byte"
  <2>1. getline(s) = 0
    BY <1>1 DEF getline
  <2>2. Progress(s) = "line"
    BY <2>1 DEF Progress, IsStartLine
  <2> QED
    BY <1>1, <2>2
<1>2. CASE ~ \A i \in DOMAIN s : s[i].t = "byte"
  <2> DEFINE S == {i \in DOMAIN s : s[i].t # "byte"}
             First(i) == s[i].t # "byte" /\ \A j \in 1 .. i - 1 : s[j].t = "byte"
  <2>1. DOMAIN s = 1 .. Len(s) /\ Len(s) \in Nat
    BY TokenAt
  <2>2. S \in SUBSET Nat /\ S # {}
    BY <1>2, <2>1
  <2>3. PICK x \in S : \A y \in S : x <= y
    BY <2>2, LeastNatural
  <2>4. x \in DOMAIN s /\ First(x)
    BY <2>1, <2>3
  <2>5. getline(s) = CHOOSE i \in DOMAIN s : First(i)
    BY <1>2 DEF getline
  <2> HIDE DEF First
  <2>6. getline(s) \in DOMAIN s /\ First(getline(s))
    BY <2>4, <2>5
  <2>7. getline(s) # 0 /\ s # <<>>
    BY <2>1, <2>6, NoTokens
  <2>8. Progress(s) # "line"
    BY <2>7 DEF Progress
  <2>9. ASSUME Begins(s) PROVE IsStartLine(s)
    <3>1. 1 \in DOMAIN s /\ s[1].t = "line"
      BY <2>9 DEF Begins
    <3>2. ~(getline(s) > 1)
      BY <2>1, <2>6, <3>1 DEF First
    <3> QED
      BY <2>1, <2>6, <3>1, <3>2 DEF IsStartLine
  <2>10. Progress(s) = "malformed" => ~IsStartLine(s)
    BY DEF Progress
  <2>11. Progress(s) = "complete" => IsStartLine(s) /\ read_content(s)
    BY <2>7 DEF Progress
  <2>12. Progress(s) = "complete" => Whole(s)
    BY <2>6, <2>11 DEF IsStartLine, read_content, Whole, Begins
  <2> QED
    BY <2>6, <2>7, <2>8, <2>9, <2>10, <2>12
<1> QED
  BY <1>1, <1>2

-----------------------------------------------------------------------------
(* The states of the two ends and what is on its way to them, after a step *)
(* of the socket at one end.                                               *)
SameAt(c) == conn'[c].at = conn[c].at

SameTo(c) == conn'[c].to = conn[c].to

OthersSame(c) == \A d \in Conns \ {c} : conn'[d] = conn[d]

Wrote(c, e, data) ==
    /\ OthersSame(c) /\ SameAt(c)
    /\ conn'[c].to[e] = conn[c].to[e]
    /\ conn'[c].to[Other(e)] = IF Gone(c, Other(e)) THEN conn[c].to[Other(e)]
                               ELSE conn[c].to[Other(e)] \o data

Took(c, e, n) ==
    /\ OthersSame(c) /\ SameAt(c)
    /\ n \in 1 .. Len(conn[c].to[e])
    /\ conn'[c].to[Other(e)] = conn[c].to[Other(e)]
    /\ conn'[c].to[e] = SubSeq(conn[c].to[e], n + 1, Len(conn[c].to[e]))

ClosedEnd(c, e) ==
    /\ OthersSame(c)
    /\ conn'[c].at[e] = "closed" /\ conn'[c].at[Other(e)] = conn[c].at[Other(e)]
    /\ conn'[c].to[e] = <<>>
    /\ \E n \in 0 .. Len(conn[c].to[Other(e)]) :
          conn'[c].to[Other(e)] = SubSeq(conn[c].to[Other(e)], 1, n)

LEMMA OtherEnd ==
    ASSUME NEW e \in Ends
    PROVE  Other(e) \in Ends /\ Other(e) # e /\ Ends = {e, Other(e)}
BY DEF Ends, Other

LEMMA ConnFields ==
    ASSUME SocketsOK, NEW c \in Conns
    PROVE  /\ conn[c] \in [at : [Ends -> {"closed", "open", "backlog"}], to : [Ends -> Seq(Tokens)]]
           /\ \A e \in Ends : /\ conn[c].to[e] \in Seq(Tokens)
                              /\ conn[c].at[e] \in {"closed", "open", "backlog"}
                              /\ conn[c].at[e] = "closed" => conn[c].to[e] = <<>>
BY DEF SocketsOK, SocketTypes

LEMMA WriteDoes ==
    ASSUME SocketsOK, NEW c \in Conns, NEW e \in Ends, NEW data \in Seq(Tokens), NEW ok,
           Write(c, e, data, ok)
    PROVE  SocketsOK' /\ Wrote(c, e, data)
<1> DEFINE f == Other(e)
           new == conn[c].to[f] \o data
<1>1. f \in Ends /\ f # e /\ Ends = {e, f}
  BY OtherEnd
<1>2. CASE Gone(c, f)
  <2>1. conn' = conn
    BY <1>2 DEF Write
  <2> QED
    BY <1>1, <1>2, <2>1 DEF SocketsOK, SocketTypes, Wrote, OthersSame, SameAt
<1>3. CASE ~Gone(c, f)
  <2>1. conn' = [conn EXCEPT ![c].to[f] = new]
    BY <1>3 DEF Write
  <2>2. conn[c].to[f] \in Seq(Tokens)
    BY <1>1, ConnFields
  <2>3. new \in Seq(Tokens)
    BY <2>2, ConcatProperties
  <2> HIDE DEF new
  <2>4. SocketTypes'
    BY <1>1, <2>1, <2>3 DEF SocketsOK, SocketTypes
  <2>5. OthersSame(c) /\ SameAt(c) /\ conn'[c].to[e] = conn[c].to[e] /\ conn'[c].to[f] = new
    BY <1>1, <2>1 DEF SocketsOK, SocketTypes, OthersSame, SameAt
  <2>6. SocketsOK'
    BY <1>1, <1>3, <2>4, <2>5 DEF SocketsOK, OthersSame, SameAt, Gone
  <2> QED
    BY <1>3, <2>5, <2>6 DEF Wrote, new
<1> QED
  BY <1>2, <1>3

LEMMA RecvDoes ==
    ASSUME SocketsOK, NEW c \in Conns, NEW e \in Ends, NEW n \in Arrived(c, e), Recv(c, e, n)
    PROVE  SocketsOK' /\ Took(c, e, n)
<1> DEFINE f == Other(e)
           s == conn[c].to[e]
           new == SubSeq(s, n + 1, Len(s))
<1>1. f \in Ends /\ f # e /\ Ends = {e, f}
  BY OtherEnd
<1>2. s \in Seq(Tokens) /\ Len(s) \in Nat
  BY ConnFields, LenProperties
<1>3. n \in 1 .. Len(s)
  BY <1>2 DEF Arrived
<1>4. new \in Seq(Tokens)
  BY <1>2, <1>3, Cut
<1>5. conn' = [conn EXCEPT ![c].to[e] = new]
  BY DEF Recv
<1> HIDE DEF new
<1>6. SocketTypes'
  BY <1>4, <1>5 DEF SocketsOK, SocketTypes
<1>7. OthersSame(c) /\ SameAt(c) /\ conn'[c].to[f] = conn[c].to[f] /\ conn'[c].to[e] = new
  BY <1>1, <1>5 DEF SocketsOK, SocketTypes, OthersSame, SameAt
<1>8. conn[c].at[e] # "closed"
  BY <1>2, <1>3, ConnFields, EmptySeq
<1>9. SocketsOK'
  BY <1>1, <1>6, <1>7, <1>8 DEF SocketsOK, OthersSame, SameAt
<1> QED
  BY <1>3, <1>7, <1>9 DEF Took, new

LEMMA CloseDoes ==
    ASSUME SocketsOK, NEW c \in Conns, NEW e \in Ends, Close(c, e)
    PROVE  SocketsOK' /\ ClosedEnd(c, e)
<1> DEFINE f == Other(e)
           s == conn[c].to[f]
<1>1. f \in Ends /\ f # e /\ Ends = {e, f}
  BY OtherEnd
<1>2. s \in Seq(Tokens) /\ Len(s) \in Nat
  BY <1>1, ConnFields, LenProperties
<1>3. PICK kept \in MayKeep(c, e) : conn' = [conn EXCEPT ![c] = ClosedAt(c, e, kept)]
  BY DEF Close
<1>4. kept \in 0 .. Len(s)
  BY <1>2 DEF MayKeep
<1> DEFINE front == SubSeq(s, 1, kept)
           x == ClosedAt(c, e, kept)
<1>5. front \in Seq(Tokens) /\ <<>> \in Seq(Tokens)
  BY <1>2, <1>4, Cut, NoTokens
<1>6. x = [at |-> [conn[c].at EXCEPT ![e] = "closed"],
           to |-> [conn[c].to EXCEPT ![e] = <<>>, ![f] = front]]
  BY <1>1 DEF ClosedAt
<1> HIDE DEF front, x
<1>7. x \in [at : [Ends -> {"closed", "open", "backlog"}], to : [Ends -> Seq(Tokens)]]
  BY <1>1, <1>5, <1>6, ConnFields
<1>8. /\ x.at[e] = "closed" /\ x.at[f] = conn[c].at[f]
      /\ x.to[e] = <<>> /\ x.to[f] = front
  BY <1>1, <1>6, ConnFields
<1>9. conn' = [conn EXCEPT ![c] = x]
  BY <1>3 DEF x
<1>10. SocketTypes' /\ OthersSame(c) /\ conn'[c] = x
  BY <1>7, <1>9 DEF SocketsOK, SocketTypes, OthersSame
<1>11. s = <<>> => front = <<>>
  BY <1>4, EmptySeq, SubSeqEmpty DEF front
<1>12. SocketsOK'
  BY <1>1, <1>8, <1>10, <1>11, ConnFields DEF SocketsOK, OthersSame
<1> QED
  BY <1>4, <1>8, <1>10, <1>12 DEF ClosedEnd, front

LEMMA ConnectDoes ==
    ASSUME SocketsOK, NEW slots \in SUBSET Conns, NEW c, Connect(c, slots)
    PROVE  /\ SocketsOK' /\ OthersSame(c) /\ c \in slots
           /\ conn[c].at["client"] = "closed" /\ conn[c].at["server"] = "closed"
           /\ conn'[c].at["client"] = "open" /\ conn'[c].at["server"] = "backlog"
           /\ conn'[c].to["client"] = <<>> /\ conn'[c].to["server"] = <<>>
<1>1. c \in Unused(slots)
  BY DEF Connect
<1>2. c \in slots /\ c \in Conns /\ conn[c] = NoConn
  BY <1>1 DEF Unused
<1>3. conn' = [conn EXCEPT ![c] = Connected(c)]
  BY DEF Connect
<1> DEFINE x == Connected(c)
<1>4. /\ x.at = [client |-> "open", server |-> "backlog"]
      /\ x.to = [e \in Ends |-> <<>>]
      /\ x = [at |-> x.at, to |-> x.to]
  BY DEF Connected, NoConn
<1> HIDE DEF x
<1>5. x.at \in [Ends -> {"closed", "open", "backlog"}] /\ x.to \in [Ends -> Seq(Tokens)]
      /\ \A e \in Ends : x.at[e] # "closed"
  BY <1>4, NoTokens DEF Ends
<1>6. x \in [at : [Ends -> {"closed", "open", "backlog"}], to : [Ends -> Seq(Tokens)]]
  BY <1>4, <1>5
<1>7. SocketTypes' /\ OthersSame(c) /\ conn'[c] = x
  BY <1>2, <1>3, <1>6 DEF SocketsOK, SocketTypes, OthersSame, x
<1>8. SocketsOK'
  BY <1>5, <1>7 DEF SocketsOK, OthersSame
<1>9. conn[c].at["client"] = "closed" /\ conn[c].at["server"] = "closed"
  BY <1>2 DEF NoConn, Ends
<1> QED
  BY <1>2, <1>4, <1>7, <1>8, <1>9 DEF Ends

LEMMA AcceptDoes ==
    ASSUME SocketsOK, NEW c \in Conns, Accept(c)
    PROVE  /\ SocketsOK' /\ OthersSame(c) /\ SameTo(c)
           /\ conn[c].at["server"] = "backlog" /\ conn'[c].at["server"] = "open"
           /\ conn'[c].at["client"] = conn[c].at["client"]
<1>1. "server" \in Ends /\ "client" \in Ends
  BY DEF Ends
<1>2. conn' = [conn EXCEPT ![c].at["server"] = "open"] /\ conn[c].at["server"] = "backlog"
  BY DEF Accept
<1>3. SocketTypes'
  BY <1>1, <1>2 DEF SocketsOK, SocketTypes
<1>4. /\ OthersSame(c) /\ SameTo(c)
      /\ conn'[c].at["server"] = "open" /\ conn'[c].at["client"] = conn[c].at["client"]
  BY <1>1, <1>2 DEF SocketsOK, SocketTypes, OthersSame, SameTo
<1>5. SocketsOK'
  BY <1>3, <1>4 DEF SocketsOK, OthersSame, SameTo, Ends
<1> QED
  BY <1>2, <1>4, <1>5

LEMMA ConnStays ==
    ASSUME SocketsOK, UNCHANGED conn
    PROVE  SocketsOK'
BY DEF SocketsOK, SocketTypes

LEMMA CloseAllDoes ==
    ASSUME SocketsOK, NEW cs, NEW e \in Ends, CloseAll(cs, e)
    PROVE  /\ SocketsOK'
           /\ \A d \in Conns :
                 /\ d \notin cs => conn'[d] = conn[d]
                 /\ d \in cs =>
                       /\ conn'[d].at[e] = "closed"
                       /\ conn'[d].at[Other(e)] = conn[d].at[Other(e)]
                       /\ conn'[d].to[e] = <<>>
                       /\ \E n \in 0 .. Len(conn[d].to[Other(e)]) :
                             conn'[d].to[Other(e)] = SubSeq(conn[d].to[Other(e)], 1, n)
<1> DEFINE f == Other(e)
           K(lost, d) == IF lost /\ HasData(d, e) THEN 0 ELSE Len(conn[d].to[f])
<1>1. f \in Ends /\ f # e /\ Ends = {e, f}
  BY OtherEnd
<1>2. PICK lost \in BOOLEAN :
        conn' = [d \in Conns |-> IF d \notin cs THEN conn[d] ELSE ClosedAt(d, e, K(lost, d))]
  BY DEF CloseAll
<1>3. conn' = [d \in Conns |-> conn'[d]]
  BY <1>2
<1>4. \A d \in Conns : conn'[d] = IF d \notin cs THEN conn[d] ELSE ClosedAt(d, e, K(lost, d))
  BY <1>2
<1>5. ASSUME NEW d \in Conns, d \in cs
      PROVE  /\ conn'[d] \in [at : [Ends -> {"closed", "open", "backlog"}], to : [Ends -> Seq(Tokens)]]
             /\ conn'[d].at[e] = "closed" /\ conn'[d].at[f] = conn[d].at[f]
             /\ conn'[d].to[e] = <<>>
             /\ conn[d].to[f] = <<>> => conn'[d].to[f] = <<>>
             /\ \E n \in 0 .. Len(conn[d].to[f]) : conn'[d].to[f] = SubSeq(conn[d].to[f], 1, n)
  <2> DEFINE q == conn[d].to[f]
             n == K(lost, d)
             front == SubSeq(q, 1, n)
             x == ClosedAt(d, e, n)
  <2>1. q \in Seq(Tokens) /\ Len(q) \in Nat
    BY <1>1, ConnFields, LenProperties
  <2>2. n \in 0 .. Len(q)
    BY <2>1
  <2> HIDE DEF n
  <2>3. front \in Seq(Tokens) /\ <<>> \in Seq(Tokens)
    BY <2>1, <2>2, Cut, NoTokens
  <2>4. x = [at |-> [conn[d].at EXCEPT ![e] = "closed"],
             to |-> [conn[d].to EXCEPT ![e] = <<>>, ![f] = front]]
    BY <1>1 DEF ClosedAt
  <2>5. conn'[d] = x
    BY <1>4, <1>5 DEF n
  <2>6. q = <<>> => front = <<>>
    BY <2>1, <2>2, EmptySeq, SubSeqEmpty
  <2> HIDE DEF front, x, q
  <2>7. x \in [at : [Ends -> {"closed", "open", "backlog"}], to : [Ends -> Seq(Tokens)]]
    BY <1>1, <2>3, <2>4, ConnFields
  <2>8. /\ x.at[e] = "closed" /\ x.at[f] = conn[d].at[f]
        /\ x.to[e] = <<>> /\ x.to[f] = front
    BY <1>1, <2>4, ConnFields
  <2> QED
    BY <2>2, <2>5, <2>6, <2>7, <2>8 DEF front, q
<1> HIDE DEF K
<1>6. SocketTypes'
  <2>1. \A d \in Conns : conn'[d] \in [at : [Ends -> {"closed", "open", "backlog"}], to : [Ends -> Seq(Tokens)]]
    BY <1>4, <1>5, ConnFields
  <2> QED
    BY <1>3, <2>1 DEF SocketTypes
<1>7. SocketsOK'
  <2>1. ASSUME NEW d \in Conns, NEW g \in Ends, conn'[d].at[g] = "closed"
        PROVE  conn'[d].to[g] = <<>>
    <3>1. CASE d \in cs
      BY <1>1, <1>5, <2>1, <3>1, ConnFields
    <3>2. CASE d \notin cs
      BY <1>4, <2>1, <3>2, ConnFields
    <3> QED
      BY <3>1, <3>2
  <2> QED
    BY <1>6, <2>1 DEF SocketsOK
<1> QED
  BY <1>4, <1>5, <1>7

-----------------------------------------------------------------------------
(* What each step of a client does.                                        *)
Types == SocketsOK /\ client \in [Clients -> ClientRec]

OnlyClient(k) ==
    /\ client' \in [Clients -> ClientRec]
    /\ \A l \in Clients \ {k} : client'[l] = client[l]

SameCall(k) ==
    OnlyClient(k) /\ client'[k].n = client[k].n /\ client'[k].req = client[k].req

LEMMA ClientsType ==
    ASSUME Types PROVE client \in [Clients -> ClientRec]
BY DEF Types

LEMMA ClientType ==
    ASSUME Types, NEW k \in Clients
    PROVE  /\ client[k] \in ClientRec
           /\ client[k].sock # None => client[k].sock \in Conns
           /\ client[k].buf \in Seq(Tokens) /\ client[k].n \in Nat
BY DEF Types, ClientRec

LEMMA RequestType ==
    ASSUME NEW k \in Clients, NEW n \in Nat, NEW r \in Requests[k]
    PROVE  /\ Request(k, n, r) \in ReqMsgs /\ Request(k, n, r) \in Msgs
           /\ Request(k, n, r).id = <<k, n>> /\ Request(k, n, r).close = (k \notin KeepAlive)
<1>1. r \in UNION {Requests[l] : l \in Clients} /\ BodyLen(r) \in Nat /\ <<k, n>> \in Ids
  BY DEF BodyLen, Ids
<1>2. Request(k, n, r) \in ReqMsgs /\ Request(k, n, r).size = Request(k, n, r).len
  BY <1>1 DEF Request, ReqMsgs
<1> QED
  BY <1>2 DEF Request, Msgs

LEMMA CallDoes ==
    ASSUME Types, NEW k \in Clients, NEW r \in Requests[k], Call(k, r)
    PROVE  /\ OnlyClient(k) /\ UNCHANGED conn /\ client[k].pc = "idle"
           /\ client'[k].n = client[k].n + 1 /\ client'[k].sock = client[k].sock
           /\ client[k].n < MaxCalls[k]
           /\ client'[k].req \in Msgs /\ client'[k].req.id = <<k, client[k].n + 1>>
           /\ client'[k].req.close = (k \notin KeepAlive)
           /\ client'[k].buf = <<>>
           /\ client'[k].pc = IF client[k].sock = None THEN "connect" ELSE "send"
<1> DEFINE x == [pc |-> IF client[k].sock = None THEN "connect" ELSE "send",
                 n |-> client[k].n + 1, sock |-> client[k].sock,
                 req |-> Request(k, client[k].n + 1, r), buf |-> <<>>,
                 res |-> None, err |-> "Success"]
<1>1. client[k] \in ClientRec /\ <<>> \in Seq(Tokens)
  BY ClientType, NoTokens
<1>2. client[k].n \in Nat /\ client[k].sock \in Conns \union {None}
  BY <1>1 DEF ClientRec
<1>3. Request(k, client[k].n + 1, r) \in ReqMsgs /\ Request(k, client[k].n + 1, r) \in Msgs
      /\ Request(k, client[k].n + 1, r).id = <<k, client[k].n + 1>>
      /\ Request(k, client[k].n + 1, r).close = (k \notin KeepAlive)
  BY <1>2, RequestType
<1>4. x \in ClientRec
  BY <1>1, <1>2, <1>3 DEF ClientRec
<1>5. client' = [client EXCEPT ![k] = x] /\ At(k, "idle") /\ UNCHANGED conn
      /\ client[k].n < MaxCalls[k]
  BY DEF Call
<1>6. client' \in [Clients -> ClientRec] /\ (\A l \in Clients \ {k} : client'[l] = client[l])
      /\ client'[k] = x
  <2> HIDE DEF x
  <2> QED
    BY <1>4, <1>5 DEF Types
<1> QED
  BY <1>3, <1>5, <1>6 DEF OnlyClient, At

LEMMA GotoDoes ==
    ASSUME Types, NEW k \in Clients, NEW pc \in {"head", "body", "read"}, Goto(k, pc)
    PROVE  /\ SameCall(k) /\ client'[k].pc = pc
           /\ client'[k].sock = client[k].sock /\ client'[k].buf = client[k].buf
BY DEF Types, Goto, ClientRec, OnlyClient, SameCall

LEMMA FailDoes ==
    ASSUME Types, NEW k \in Clients, NEW err \in {"Connection", "Write", "Read"}, Fail(k, err)
    PROVE  /\ SameCall(k) /\ client'[k].pc = "return" /\ client'[k].err = err
           /\ client'[k].sock = client[k].sock /\ client'[k].buf = client[k].buf
BY ClientsType, ZenonT(60) DEF Fail, ClientRec, OnlyClient, SameCall

LEMMA ClientReq ==
    ASSUME Shape, NEW k \in Clients, client[k].n > 0 \/ client[k].pc # "idle"
    PROVE  /\ client[k].req \in Msgs /\ client[k].n > 0
           /\ client[k].req.id = <<k, client[k].n>>
           /\ client[k].req.close = (k \notin KeepAlive)
BY DEF Shape, ClientOK

LEMMA SendDoes ==
    ASSUME Shape, NEW k \in Clients, send_(k)
    PROVE  /\ SameCall(k) /\ client[k].pc = "send" /\ client'[k].buf = client[k].buf
           /\ \/ client'[k].pc = "head" /\ client'[k].sock = client[k].sock /\ UNCHANGED conn
              \/ /\ client'[k].pc = "connect" /\ client'[k].sock = None
                 /\ SocketsOK' /\ ClosedEnd(client[k].sock, "client")
<1>1. Types /\ client[k].pc = "send" /\ client[k].sock \in Conns
  BY ClientType DEF Shape, Types, ClientOK, send_, At
<1>2. CASE Goto(k, "head") /\ UNCHANGED conn
  BY <1>1, <1>2, GotoDoes
<1>3. CASE /\ client' = [client EXCEPT ![k].pc = "connect", ![k].sock = None]
           /\ Close(client[k].sock, "client")
  <2>1. SocketsOK' /\ ClosedEnd(client[k].sock, "client")
    BY <1>1, <1>3, CloseDoes DEF Types, Ends
  <2>2. SameCall(k) /\ client'[k].buf = client[k].buf /\ client'[k].pc = "connect"
        /\ client'[k].sock = None
    BY <1>1, <1>3, ClientsType, ZenonT(60) DEF ClientRec, OnlyClient, SameCall
  <2> QED
    BY <1>1, <2>1, <2>2
<1> QED
  BY <1>2, <1>3 DEF send_

LEMMA ConnectSocketDoes ==
    ASSUME Shape, NEW k \in Clients, NEW listening, create_and_connect_socket(k, listening)
    PROVE  /\ SameCall(k) /\ client[k].pc = "connect" /\ client'[k].buf = client[k].buf
           /\ \/ \E c \in Slots :
                    /\ client'[k].pc = "head" /\ client'[k].sock = c
                    /\ Connect(c, Slots)
              \/ /\ client'[k].pc = "return" /\ client'[k].err = "Connection"
                 /\ client'[k].sock = client[k].sock /\ UNCHANGED conn
<1>1. Types /\ client[k].pc = "connect"
  BY DEF Shape, Types, create_and_connect_socket, At
<1>2. CASE Fail(k, "Connection") /\ UNCHANGED conn
  BY <1>1, <1>2, FailDoes
<1>3. ASSUME NEW c \in Slots, Connect(c, Slots),
             client' = [client EXCEPT ![k].pc = "head", ![k].sock = c]
      PROVE  /\ SameCall(k) /\ client'[k].buf = client[k].buf
             /\ client'[k].pc = "head" /\ client'[k].sock = c
  <2>1. c \in Conns
    BY HttpClientAssumption
  <2> QED
    BY <1>1, <1>3, <2>1, ClientsType, ZenonT(60) DEF ClientRec, OnlyClient, SameCall
<1> QED
  BY <1>1, <1>2, <1>3 DEF create_and_connect_socket

LEMMA WriteHeadDoes ==
    ASSUME Shape, NEW k \in Clients, write_head(k)
    PROVE  /\ SameCall(k) /\ client[k].pc = "head" /\ client'[k].buf = client[k].buf
           /\ client'[k].sock = client[k].sock
           /\ \/ client'[k].pc = IF client[k].req.len > 0 THEN "body" ELSE "read"
              \/ /\ client'[k].pc = "return" /\ client'[k].err = "Write"
                 /\ Gone(client[k].sock, "server")
           /\ client[k].req \in Msgs
           /\ SocketsOK' /\ Wrote(client[k].sock, "client", HeadOf(client[k].req))
<1>1. Types /\ client[k].pc = "head" /\ client[k].sock \in Conns
      /\ client[k].req \in Msgs
  BY ClientReq, ClientType DEF Shape, Types, ClientOK, write_head, At
<1>2. HeadOf(client[k].req) \in Seq(Tokens)
  BY <1>1, HeadIs
<1>3. PICK ok \in BOOLEAN :
        /\ Write(client[k].sock, "client", HeadOf(client[k].req), ok)
        /\ IF ok THEN Goto(k, IF client[k].req.len > 0 THEN "body" ELSE "read")
           ELSE Fail(k, "Write")
  BY DEF write_head
<1>4. SocketsOK' /\ Wrote(client[k].sock, "client", HeadOf(client[k].req))
  BY <1>1, <1>2, <1>3, WriteDoes DEF Types, Ends
<1>5. CASE ok
  BY <1>1, <1>3, <1>4, <1>5, GotoDoes
<1>6. CASE ~ok
  BY <1>1, <1>3, <1>4, <1>6, FailDoes DEF Write, Other
<1> QED
  BY <1>5, <1>6

LEMMA WriteBodyDoes ==
    ASSUME Shape, NEW k \in Clients, write_body(k)
    PROVE  /\ SameCall(k) /\ client[k].pc = "body" /\ client'[k].buf = client[k].buf
           /\ client'[k].sock = client[k].sock
           /\ \/ client'[k].pc = "read"
              \/ client'[k].pc = "return" /\ client'[k].err = "Write"
           /\ client[k].req \in Msgs
           /\ SocketsOK' /\ Wrote(client[k].sock, "client", BodyOf(client[k].req))
<1>1. Types /\ client[k].pc = "body" /\ client[k].sock \in Conns
      /\ client[k].req \in Msgs
  BY ClientReq, ClientType DEF Shape, Types, ClientOK, write_body, At
<1>2. BodyOf(client[k].req) \in Seq(Tokens)
  BY <1>1, BodyIs
<1>3. PICK ok \in BOOLEAN :
        /\ Write(client[k].sock, "client", BodyOf(client[k].req), ok)
        /\ IF ok THEN Goto(k, "read") ELSE Fail(k, "Write")
  BY DEF write_body
<1>4. SocketsOK' /\ Wrote(client[k].sock, "client", BodyOf(client[k].req))
  BY <1>1, <1>2, <1>3, WriteDoes DEF Types, Ends
<1>5. CASE ok
  BY <1>1, <1>3, <1>4, <1>5, GotoDoes
<1>6. CASE ~ok
  BY <1>1, <1>3, <1>4, <1>6, FailDoes
<1> QED
  BY <1>5, <1>6

LEMMA ReadResponseDoes ==
    ASSUME Shape, NEW k \in Clients, read_response(k)
    PROVE  LET c == client[k].sock IN
           /\ SameCall(k) /\ client[k].pc = "read" /\ client'[k].sock = c /\ c \in Conns
           /\ client'[k].pc \in {"read", "return"}
           /\ \E n \in 1 .. Len(conn[c].to["client"]) :
                 /\ SocketsOK' /\ Took(c, "client", n)
                 /\ client'[k].buf = client[k].buf \o Received(c, "client", n)
           /\ client'[k].pc = "return" => client'[k].err \in {"Success", "Read"}
           /\ client'[k].pc = "return" /\ client'[k].err = "Success" =>
                 Whole(client'[k].buf) /\ client'[k].res = client'[k].buf[1].m
<1> DEFINE c == client[k].sock
<1>1. Types /\ client[k].pc = "read" /\ c \in Conns /\ client[k].buf \in Seq(Tokens)
  BY ClientType DEF Shape, Types, ClientOK, read_response, At
<1>2. PICK n \in Arrived(c, "client") :
        LET buf == client[k].buf \o Received(c, "client", n)
            state == Progress(buf) IN
        /\ Recv(c, "client", n)
        /\ client' = [client EXCEPT ![k].buf = buf,
               ![k].pc  = IF state \in {"complete", "malformed"} THEN "return" ELSE "read",
               ![k].err = IF state = "malformed" THEN "Read" ELSE "Success",
               ![k].res = IF state = "complete" THEN buf[1].m ELSE None]
  BY DEF read_response
<1>3. SocketsOK' /\ Took(c, "client", n) /\ n \in 1 .. Len(conn[c].to["client"])
  BY <1>1, <1>2, RecvDoes DEF Types, Ends, Took
<1> DEFINE buf == client[k].buf \o Received(c, "client", n)
           state == Progress(buf)
<1>4. buf \in Seq(Tokens)
  <2>1. conn[c].to["client"] \in Seq(Tokens)
    BY <1>1, ConnFields DEF Types, Ends
  <2>2. n \in 0 .. Len(conn[c].to["client"])
    BY <1>3, <2>1, TokenAt
  <2>3. Received(c, "client", n) \in Seq(Tokens)
    BY <2>1, <2>2, Cut DEF Received
  <2> QED
    BY <1>1, <2>3, Joined
<1>5. state = "complete" => Whole(buf) /\ buf[1].m \in Msgs
  BY <1>4, ProgressIs, TokenAt DEF Whole, Begins
<1> DEFINE p == IF state \in {"complete", "malformed"} THEN "return" ELSE "read"
           e == IF state = "malformed" THEN "Read" ELSE "Success"
           r == IF state = "complete" THEN buf[1].m ELSE None
<1>6. client' = [client EXCEPT ![k].buf = buf, ![k].pc = p, ![k].err = e, ![k].res = r]
  BY <1>2
<1> HIDE DEF buf, state
<1>7. p \in {"read", "return"} /\ e \in {"Success", "Read"} /\ r \in Msgs \union {None}
      /\ (p = "return" /\ e = "Success" => state = "complete" /\ r = buf[1].m)
  BY <1>5
<1> HIDE DEF p, e, r
<1>8. /\ OnlyClient(k)
      /\ client'[k].n = client[k].n /\ client'[k].req = client[k].req
      /\ client'[k].sock = c /\ client'[k].buf = buf
      /\ client'[k].pc = p /\ client'[k].err = e /\ client'[k].res = r
  BY <1>1, <1>4, <1>6, <1>7, ClientsType, ZenonT(60) DEF ClientRec, OnlyClient
<1>9. buf = client[k].buf \o Received(c, "client", n)
  BY DEF buf
<1> QED
  BY <1>1, <1>3, <1>5, <1>7, <1>8, <1>9 DEF SameCall

LEMMA ReturnDoes ==
    ASSUME Shape, NEW k \in Clients, return(k)
    PROVE  /\ SameCall(k) /\ client[k].pc = "return" /\ client'[k].pc = "idle"
           /\ client'[k].buf = <<>>
           /\ client'[k].res = client[k].res /\ client'[k].err = client[k].err
           /\ \/ /\ client[k].sock # None /\ client'[k].sock = None
                 /\ SocketsOK' /\ ClosedEnd(client[k].sock, "client")
              \/ /\ client'[k].sock = client[k].sock /\ UNCHANGED conn
                 /\ client[k].sock # None =>
                       client[k].err = "Success" /\ ~client[k].req.close
<1>1. /\ Types /\ client[k].pc = "return" /\ <<>> \in Seq(Tokens)
      /\ client[k].sock # None => client[k].sock \in Conns
  BY ClientType, NoTokens DEF Shape, Types, return, At
<1>2. CASE client[k].sock # None /\ Closes(k)
  <2>1. SocketsOK' /\ ClosedEnd(client[k].sock, "client")
    BY <1>1, <1>2, CloseDoes DEF return, Types, Ends
  <2>2. client' = [client EXCEPT ![k].pc = "idle", ![k].sock = None, ![k].buf = <<>>]
    BY <1>2 DEF return
  <2>3. /\ SameCall(k) /\ client'[k].pc = "idle" /\ client'[k].buf = <<>>
        /\ client'[k].sock = None
        /\ client'[k].res = client[k].res /\ client'[k].err = client[k].err
    BY <1>1, <2>2, ClientsType, ZenonT(60) DEF ClientRec, OnlyClient, SameCall
  <2> QED
    BY <1>1, <1>2, <2>1, <2>3
<1>3. CASE ~(client[k].sock # None /\ Closes(k))
  <2>1. client' = [client EXCEPT ![k].pc = "idle", ![k].buf = <<>>] /\ UNCHANGED conn
    BY <1>3 DEF return
  <2>2. /\ SameCall(k) /\ client'[k].pc = "idle" /\ client'[k].buf = <<>>
        /\ client'[k].sock = client[k].sock
        /\ client'[k].res = client[k].res /\ client'[k].err = client[k].err
    BY <1>1, <2>1 DEF Types, ClientRec, OnlyClient, SameCall
  <2>3. client[k].sock # None => client[k].err = "Success" /\ ~client[k].req.close
    BY <1>3 DEF Closes
  <2> QED
    BY <1>1, <2>1, <2>2, <2>3
<1> QED
  BY <1>2, <1>3

LEMMA ReadFailsDoes ==
    ASSUME Shape, NEW k \in Clients, read_end(k) \/ read_timeout(k)
    PROVE  /\ SameCall(k) /\ client[k].pc = "read" /\ client'[k].pc = "return"
           /\ client'[k].err = "Read" /\ UNCHANGED conn
           /\ client'[k].sock = client[k].sock /\ client'[k].buf = client[k].buf
<1>1. Types /\ Fail(k, "Read") /\ client[k].pc = "read" /\ UNCHANGED conn
  BY DEF Shape, Types, read_end, read_timeout, At
<1> QED
  BY <1>1, FailDoes

-----------------------------------------------------------------------------
(* The worker that serves a connection.                                    *)
OnDuty(v) == v.pc \notin {"check", "gone"}

OnePerSocket(work) ==
    \A w, u \in Workers : OnDuty(work[w]) /\ OnDuty(work[u]) /\ work[w].sock = work[u].sock => w = u

LEMMA ServerIs ==
    ASSUME NEW work, OnePerSocket(work), NEW w \in Workers, OnDuty(work[w])
    PROVE  ServerOf(work, work[w].sock) = work[w]
<1> DEFINE P(u) == OnDuty(work[u]) /\ work[u].sock = work[w].sock
           x == CHOOSE u \in Workers : P(u)
<1>1. x \in Workers /\ P(x)
  OBVIOUS
<1>2. x = w
  BY <1>1 DEF OnePerSocket
<1>3. ServerOf(work, work[w].sock) = work[x]
  BY DEF ServerOf, OnDuty
<1> QED
  BY <1>2, <1>3

LEMMA NoServer ==
    ASSUME NEW work, NEW c, \A w \in Workers : OnDuty(work[w]) => work[w].sock # c
    PROVE  ServerOf(work, c) = NoWork
BY DEF ServerOf, OnDuty

LEMMA SomeServer ==
    ASSUME NEW work, OnePerSocket(work), NEW c
    PROVE  \/ ServerOf(work, c) = NoWork /\ \A w \in Workers : OnDuty(work[w]) => work[w].sock # c
           \/ \E w \in Workers : OnDuty(work[w]) /\ work[w].sock = c /\ ServerOf(work, c) = work[w]
<1>1. CASE \A w \in Workers : OnDuty(work[w]) => work[w].sock # c
  BY <1>1, NoServer
<1>2. CASE \E w \in Workers : OnDuty(work[w]) /\ work[w].sock = c
  BY <1>2, ServerIs
<1> QED
  BY <1>1, <1>2

(* One worker turns to another task, on one connection.                    *)
LEMMA ServerChanges ==
    ASSUME NEW old, NEW new, OnePerSocket(old), OnePerSocket(new), NEW w \in Workers, NEW c,
           \A u \in Workers : u # w => new[u] = old[u],
           OnDuty(old[w]) => old[w].sock = c,
           OnDuty(new[w]) => new[w].sock = c
    PROVE  /\ \A d : d # c => ServerOf(new, d) = ServerOf(old, d)
           /\ OnDuty(new[w]) => ServerOf(new, c) = new[w]
           /\ OnDuty(old[w]) /\ ~OnDuty(new[w]) => ServerOf(new, c) = NoWork
<1>1. ASSUME NEW d, d # c PROVE ServerOf(new, d) = ServerOf(old, d)
  <2>1. CASE ServerOf(old, d) = NoWork /\ \A u \in Workers : OnDuty(old[u]) => old[u].sock # d
    <3>1. \A u \in Workers : OnDuty(new[u]) => new[u].sock # d
      BY <1>1, <2>1
    <3> QED
      BY <2>1, <3>1, NoServer
  <2>2. ASSUME NEW u \in Workers, OnDuty(old[u]), old[u].sock = d, ServerOf(old, d) = old[u]
        PROVE  ServerOf(new, d) = ServerOf(old, d)
    <3>1. u # w /\ new[u] = old[u]
      BY <1>1, <2>2
    <3>2. ServerOf(new, new[u].sock) = new[u]
      BY <2>2, <3>1, ServerIs
    <3> QED
      BY <2>2, <3>1, <3>2
  <2> QED
    BY <2>1, <2>2, SomeServer
<1>2. ASSUME OnDuty(new[w]) PROVE ServerOf(new, c) = new[w]
  BY <1>2, ServerIs
<1>3. ASSUME OnDuty(old[w]), ~OnDuty(new[w]) PROVE ServerOf(new, c) = NoWork
  <2>1. \A u \in Workers : OnDuty(new[u]) => new[u].sock # c
    BY <1>3 DEF OnePerSocket
  <2> QED
    BY <2>1, NoServer
<1> QED
  BY <1>1, <1>2, <1>3

LEMMA IdleServer == ServerOK(NoWork) /\ Held(NoWork) = <<>> /\ ~OnDuty(NoWork)
<1>1. NoWork.pc = "check" /\ NoWork.buf = <<>>
  BY DEF NoWork
<1> QED
  BY <1>1, NoTokens DEF ServerOK, Held, OnDuty

LEMMA ServerTypes ==
    ASSUME Shape
    PROVE  /\ OnePerSocket(worker)
           /\ \A c \in Conns : /\ ServerOK(Srv(c)) /\ Held(Srv(c)) \in Seq(Tokens)
                               /\ conn[c].to["server"] \in Seq(Tokens)
                               /\ conn[c].to["client"] \in Seq(Tokens)
                               /\ Up(c) \in Seq(Tokens)
           /\ \A w \in Workers : Busy(w) => worker[w].sock \in Conns /\ Srv(worker[w].sock) = worker[w]
<1>1. OnePerSocket(worker)
  BY DEF Shape, OneServer, OnePerSocket, OnDuty, Busy
<1>2. ASSUME NEW c \in Conns PROVE ServerOK(Srv(c))
  <2>1. \/ Srv(c) = NoWork
        \/ \E w \in Workers : Srv(c) = worker[w]
    BY <1>1, SomeServer DEF Srv
  <2> QED
    BY <2>1, IdleServer DEF Shape
<1>3. ASSUME NEW c \in Conns PROVE Held(Srv(c)) \in Seq(Tokens)
  BY <1>2, NoTokens DEF ServerOK, Held
<1>4. ASSUME NEW c \in Conns PROVE conn[c].to["server"] \in Seq(Tokens) /\ conn[c].to["client"] \in Seq(Tokens)
  BY ConnFields DEF Shape, Ends
<1>5. ASSUME NEW c \in Conns PROVE Up(c) \in Seq(Tokens)
  BY <1>3, <1>4, Joined DEF Up
<1>6. ASSUME NEW w \in Workers, Busy(w)
      PROVE  worker[w].sock \in Conns /\ Srv(worker[w].sock) = worker[w]
  BY <1>1, <1>6, ServerIs DEF Shape, OneServer, OnDuty, Busy, Srv
<1> QED
  BY <1>1, <1>2, <1>3, <1>4, <1>5, <1>6

-----------------------------------------------------------------------------
(* What a worker answers, and the records it makes.                        *)
LEMMA AnswerIs ==
    ASSUME NEW m \in Msgs, NEW code \in {200, 400, 404}
    PROVE  /\ Answer(m, code) \in AnsMsgs /\ Answer(m, code) \in Msgs
           /\ Answer(m, code).id = m.id /\ Answer(m, code).kind = code
<1> DEFINE len == IF code = 200 THEN AnswerLen ELSE 0
           close == m.close \/ (code = 200 /\ SetsClose(m.ask))
<1>1. len \in Nat /\ close \in BOOLEAN /\ m.id \in Ids
  BY MsgIs, HttpServerAssumption DEF SetsClose
<1>2. Answer(m, code) = [id |-> m.id, kind |-> code, close |-> close, len |-> len, size |-> len]
  BY DEF Answer
<1> HIDE DEF len, close
<1>3. Answer(m, code) \in AnsMsgs /\ Answer(m, code).size = Answer(m, code).len
  BY <1>1, <1>2 DEF AnsMsgs
<1> QED
  BY <1>2, <1>3 DEF Msgs

LEMMA Declined ==
    ASSUME NEW m \in Msgs, NEW b \in BOOLEAN
    PROVE  [m EXCEPT !.close = @ /\ b] \in Msgs /\ [m EXCEPT !.close = @ /\ b].id = m.id
<1>1. m.close \in BOOLEAN
  BY MsgIs
<1>2. CASE m \in ReqMsgs
  BY <1>1, <1>2 DEF Msgs, ReqMsgs
<1>3. CASE m \in AnsMsgs
  BY <1>1, <1>3 DEF Msgs, AnsMsgs
<1> QED
  BY <1>2, <1>3 DEF Msgs

LEMMA LastAnswer ==
    ASSUME NEW m \in AnsMsgs, m \in Msgs, NEW b \in BOOLEAN
    PROVE  LET r == [m EXCEPT !.close = @ \/ b] IN
           r \in AnsMsgs /\ r \in Msgs /\ r.id = m.id /\ r.kind = m.kind /\ r.len = m.len
<1>1. m.close \in BOOLEAN
  BY MsgIs
<1> QED
  BY <1>1 DEF Msgs, AnsMsgs

LEMMA ReadingFields ==
    ASSUME NEW s, IsWork(s), NEW pc, NEW buf, NEW req, NEW res
    PROVE  LET x == WorkAfterReading(s, pc, buf, req, res) IN
           x.pc = pc /\ x.buf = buf /\ x.req = req /\ x.res = res /\ x.sock = s.sock
<1>1. WorkAfterReading(s, pc, buf, req, res) =
        [pc |-> pc, sock |-> s.sock, left |-> s.left, buf |-> buf, req |-> req, res |-> res]
  <2> DEFINE a == [s EXCEPT !.pc = pc]
             b == [a EXCEPT !.buf = buf]
             c == [b EXCEPT !.req = req]
             t == [c EXCEPT !.res = res]
  <2>1. t = WorkAfterReading(s, pc, buf, req, res)
    BY DEF WorkAfterReading
  <2>2. a = [pc |-> pc, sock |-> s.sock, left |-> s.left, buf |-> s.buf, req |-> s.req, res |-> s.res]
    BY DEF IsWork
  <2> HIDE DEF a
  <2>3. b = [pc |-> pc, sock |-> s.sock, left |-> s.left, buf |-> buf, req |-> s.req, res |-> s.res]
    BY <2>2
  <2> HIDE DEF b
  <2>4. c = [pc |-> pc, sock |-> s.sock, left |-> s.left, buf |-> buf, req |-> req, res |-> s.res]
    BY <2>3
  <2> HIDE DEF c
  <2>5. t = [pc |-> pc, sock |-> s.sock, left |-> s.left, buf |-> buf, req |-> req, res |-> res]
    BY <2>4
  <2> QED
    BY <2>1, <2>5
<1> QED
  BY <1>1

LEMMA RejectedIs ==
    ASSUME NEW s, IsWork(s), NEW buf \in Seq(Tokens), getline(buf) \in DOMAIN buf
    PROVE  LET v == Rejected(s, buf) IN
           /\ v.pc = "head" /\ v.sock = s.sock /\ v.buf = buf
           /\ v.res \in AnsMsgs /\ v.res \in Msgs
           /\ v.res.kind = 400 /\ v.res.id = buf[getline(buf)].m.id
<1> DEFINE m == buf[getline(buf)].m
           parsed == Progress(buf) = "content"
           n == [m EXCEPT !.close = @ /\ parsed]
           res == Answer(n, 400)
           req == IF parsed THEN m ELSE None
<1>1. m \in Msgs
  BY TokenAt
<1>2. n \in Msgs /\ n.id = m.id
  <2>1. parsed \in BOOLEAN
    OBVIOUS
  <2> HIDE DEF m, parsed
  <2> QED
    BY <1>1, <2>1, Declined
<1>3. Rejected(s, buf) = WorkAfterReading(s, "head", buf, req, res)
  BY DEF Rejected, WorkAfterReading
<1> HIDE DEF n, req
<1>4. res \in AnsMsgs /\ res \in Msgs /\ res.id = n.id /\ res.kind = 400
  BY <1>2, AnswerIs
<1> HIDE DEF res
<1>5. LET x == WorkAfterReading(s, "head", buf, req, res) IN
      x.pc = "head" /\ x.buf = buf /\ x.res = res /\ x.sock = s.sock
  BY ReadingFields
<1> QED
  BY <1>2, <1>3, <1>4, <1>5

LEMMA ParsedIs ==
    ASSUME NEW s, IsWork(s), s.pc = "read", NEW buf \in Seq(Tokens)
    PROVE  LET v == Parsed(s, buf) IN
           /\ Progress(buf) = "malformed" => v = Rejected(s, buf)
           /\ Progress(buf) = "complete" => v.pc = "dispatch" /\ v.buf = buf /\ v.req = buf[1].m
           /\ Progress(buf) \notin {"malformed", "complete"} => v.pc = "read" /\ v.buf = buf
<1>1. ASSUME Progress(buf) = "complete"
      PROVE  LET v == Parsed(s, buf) IN v.pc = "dispatch" /\ v.buf = buf /\ v.req = buf[1].m
  <2>1. Parsed(s, buf) = [s EXCEPT !.pc = "dispatch", !.buf = buf, !.req = buf[1].m]
    BY <1>1 DEF Parsed
  <2> DEFINE a == [s EXCEPT !.pc = "dispatch"]
             b == [a EXCEPT !.buf = buf]
             t == [b EXCEPT !.req = buf[1].m]
  <2>2. Parsed(s, buf) = t
    BY <2>1
  <2>3. a = [pc |-> "dispatch", sock |-> s.sock, left |-> s.left, buf |-> s.buf, req |-> s.req, res |-> s.res]
    BY DEF IsWork
  <2> HIDE DEF a
  <2>4. b = [pc |-> "dispatch", sock |-> s.sock, left |-> s.left, buf |-> buf, req |-> s.req, res |-> s.res]
    BY <2>3
  <2> HIDE DEF b
  <2>5. t = [pc |-> "dispatch", sock |-> s.sock, left |-> s.left, buf |-> buf, req |-> buf[1].m, res |-> s.res]
    BY <2>4
  <2> HIDE DEF t
  <2> QED
    BY <2>2, <2>5
<1>2. ASSUME Progress(buf) \notin {"malformed", "complete"}
      PROVE  LET v == Parsed(s, buf) IN v.pc = "read" /\ v.buf = buf
  <2>1. Parsed(s, buf) = [s EXCEPT !.buf = buf]
    BY <1>2 DEF Parsed
  <2>2. [s EXCEPT !.buf = buf] =
          [pc |-> "read", sock |-> s.sock, left |-> s.left, buf |-> buf, req |-> s.req, res |-> s.res]
    BY DEF IsWork
  <2> QED
    BY <2>1, <2>2
<1>3. Progress(buf) = "malformed" => Parsed(s, buf) = Rejected(s, buf)
  BY DEF Parsed
<1> QED
  BY <1>1, <1>2, <1>3

-----------------------------------------------------------------------------
(* What of the invariant a step leaves alone that runs no handler.         *)
Calmly(c, x) ==
    /\ UNCHANGED ran
    /\ \A id : IsSent(id) => IsSent(id)'
    /\ \A d \in Conns : IdsIn(Up(d))' \subseteq IdsIn(Up(d)) \union (IF d = c THEN {x} ELSE {})
    /\ \A d \in Conns : \A id : Starting(d, id)' =>
           Starting(d, id) \/ (d = c /\ id = x /\ ~IsSent(x))
    /\ c \in Conns /\ x \in IdsIn(Up(c))' =>
           ran[x] = 0 /\ IsSent(x)' /\ \A d \in Conns : d # c => x \notin IdsIn(Up(d))
    /\ \A id, kind : Given(id, kind)' => Given(id, kind) \/ Answered(id, kind)'
    /\ \A k \in Clients : client'[k].pc = "body" =>
           \/ BodyAhead(k)'
           \/ /\ client[k].pc = "body" /\ client'[k].n = client[k].n
              /\ client'[k].sock = client[k].sock
              /\ <<k, client[k].n>> = x => client[k].sock = c

LEMMA Calm ==
    ASSUME RunsOnce, AnswersTell, NEW c, NEW x, Calmly(c, x)
    PROVE  RunsOnce' /\ AnswersTell'
<1>0. /\ UNCHANGED ran
      /\ \A id : IsSent(id) => IsSent(id)'
      /\ \A d \in Conns : IdsIn(Up(d))' \subseteq IdsIn(Up(d)) \union (IF d = c THEN {x} ELSE {})
      /\ \A d \in Conns : \A id : Starting(d, id)' =>
             Starting(d, id) \/ (d = c /\ id = x /\ ~IsSent(x))
      /\ c \in Conns /\ x \in IdsIn(Up(c))' =>
             ran[x] = 0 /\ IsSent(x)' /\ \A d \in Conns : d # c => x \notin IdsIn(Up(d))
      /\ \A id, kind : Given(id, kind)' => Given(id, kind) \/ Answered(id, kind)'
      /\ \A k \in Clients : client'[k].pc = "body" =>
             \/ BodyAhead(k)'
             \/ /\ client[k].pc = "body" /\ client'[k].n = client[k].n
                /\ client'[k].sock = client[k].sock
                /\ <<k, client[k].n>> = x => client[k].sock = c
  BY DEF Calmly
<1> USE <1>0
<1>1. \A d \in Conns : \A id \in IdsIn(Up(d))' : ran'[id] = 0 /\ IsSent(id)'
  BY DEF RunsOnce
<1>2. ASSUME NEW d \in Conns, NEW e \in Conns, NEW id \in IdsIn(Up(d))', id \in IdsIn(Up(e))'
      PROVE  d = e
  <2>1. CASE id \in IdsIn(Up(d)) /\ id \in IdsIn(Up(e))
    BY <2>1 DEF RunsOnce
  <2>2. CASE id \notin IdsIn(Up(d))
    <3>1. d = c /\ id = x
      BY <1>2, <2>2
    <3> QED
      BY <1>2, <3>1
  <2>3. CASE id \notin IdsIn(Up(e))
    <3>1. e = c /\ id = x
      BY <1>2, <2>3
    <3> QED
      BY <1>2, <3>1
  <2> QED
    BY <2>1, <2>2, <2>3
<1>3. /\ DOMAIN ran' = ServerCalls
      /\ \A id \in ServerCalls : ran'[id] \in {0, 1} /\ (~IsSent(id)' => ran'[id] = 0)
  BY DEF RunsOnce
<1>4. ASSUME NEW k \in Clients PROVE BodyAhead(k)'
  <2>1. CASE client'[k].pc # "body"
    BY <2>1 DEF BodyAhead
  <2>2. CASE /\ client[k].pc = "body" /\ client'[k].n = client[k].n
             /\ client'[k].sock = client[k].sock
             /\ <<k, client[k].n>> = x => client[k].sock = c
    <3> DEFINE id == <<k, client[k].n>>
    <3>1. ran[id] = 0 /\ \A d \in Conns : d # client[k].sock => id \notin IdsIn(Up(d))
      BY <2>2 DEF RunsOnce, BodyAhead
    <3>2. \A d \in Conns : d # client[k].sock => id \notin IdsIn(Up(d))'
      BY <2>2, <3>1
    <3> HIDE DEF id
    <3>3. id' = id
      BY <2>2 DEF id
    <3>4. ran'[id'] = 0 /\ \A d \in Conns : d # client'[k].sock => id' \notin IdsIn(Up(d))'
      BY <2>2, <3>1, <3>2, <3>3
    <3> QED
      BY <3>4 DEF BodyAhead, id
  <2> QED
    BY <2>1, <2>2
<1>5. ASSUME NEW id, NEW kind, Given(id, kind)' PROVE Answered(id, kind)'
  <2>1. CASE Answered(id, kind)'
    BY <2>1
  <2>2. CASE Given(id, kind)
    <3>1. /\ ran[id] = IF kind = 200 THEN 1 ELSE 0
          /\ IsSent(id) /\ \A d \in Conns : ~Starting(d, id)
      BY <2>2 DEF AnswersTell, Answered
    <3>2. \A d \in Conns : ~Starting(d, id)'
      BY <3>1
    <3> QED
      BY <3>1, <3>2 DEF Answered
  <2> QED
    BY <1>5, <2>1, <2>2
<1> QED
  BY <1>1, <1>2, <1>3, <1>4, <1>5 DEF RunsOnce, AnswersTell

(* The connections that a step does not touch.                             *)
LEMMA UpElsewhere ==
    ASSUME NEW d \in Conns, conn'[d] = conn[d], Srv(d)' = Srv(d)
    PROVE  Up(d)' = Up(d) /\ \A id : Starting(d, id)' <=> Starting(d, id)
<1>1. Up(d)' = Up(d)
  BY DEF Up
<1> QED
  BY <1>1 DEF Starting

LEMMA LinkElsewhere ==
    ASSUME NEW k \in Clients, LinkOK(k), client'[k] = client[k],
           \A c \in Conns : client[k].sock = c => conn'[c] = conn[c] /\ Srv(c)' = Srv(c),
           client[k].sock \in Conns \union {None}
    PROVE  LinkOK(k)'
<1>1. CASE client[k].sock = None
  BY <1>1 DEF LinkOK
<1>2. CASE client[k].sock # None
  <2>1. PICK c \in Conns : client[k].sock = c
    BY <1>2
  <2>2. Fits(k, client[k], Up(c), Down(k), Srv(c), ServerAt(c))
    BY <1>2, <2>1 DEF LinkOK
  <2>3. conn'[c] = conn[c] /\ Srv(c)' = Srv(c) /\ client'[k].sock = c
    BY <2>1
  <2>4. Up(c)' = Up(c)
    BY <2>3, UpElsewhere
  <2>5. Down(k)' = Down(k)
    BY <2>1, <2>3 DEF Down
  <2>6. ServerAt(c)' = ServerAt(c)
    BY <2>3 DEF ServerAt
  <2>7. Fits(k, client'[k], Up(c)', Down(k)', Srv(c)', ServerAt(c)')
    BY <2>2, <2>3, <2>4, <2>5, <2>6
  <2> QED
    BY <2>3, <2>7 DEF LinkOK
<1> QED
  BY <1>1, <1>2

-----------------------------------------------------------------------------
(* A step of the server on the connection c.                               *)
OnlyAt(c) == \A d \in Conns : d # c => conn'[d] = conn[d] /\ Srv(d)' = Srv(d)

LEMMA SocksTyped ==
    ASSUME Shape, NEW k \in Clients
    PROVE  client[k].sock \in Conns \union {None} /\ None \notin Conns
BY HttpLinkAssumption DEF Shape, ClientRec

LEMMA LinksTurn ==
    ASSUME Shape, \A k \in Clients : LinkOK(k), UNCHANGED client, NEW c \in Conns, OnlyAt(c),
           \A k \in Clients : client[k].sock = c =>
               Fits(k, client[k], Up(c)', client[k].buf \o conn'[c].to["client"], Srv(c)',
                    ServerAt(c)')
    PROVE  \A k \in Clients : LinkOK(k)'
<1> SUFFICES ASSUME NEW k \in Clients PROVE LinkOK(k)'
  OBVIOUS
<1>1. CASE client[k].sock = c
  <2>1. client'[k] = client[k] /\ client'[k].sock = c
    BY <1>1
  <2>2. Down(k)' = client[k].buf \o conn'[c].to["client"]
    BY <1>1, <2>1 DEF Down
  <2>3. Fits(k, client'[k], Up(c)', Down(k)', Srv(c)', ServerAt(c)')
    BY <1>1, <2>1, <2>2
  <2> QED
    BY <2>1, <2>3 DEF LinkOK
<1>2. CASE client[k].sock # c
  BY <1>2, SocksTyped, LinkElsewhere DEF OnlyAt
<1> QED
  BY <1>1, <1>2

LEMMA GivenTurn ==
    ASSUME UNCHANGED client, NEW c \in Conns, OnlyAt(c), NEW id, NEW kind, Given(id, kind)'
    PROVE  \/ Given(id, kind)
           \/ Srv(c)'.pc \in {"head", "body"} /\ Srv(c)'.res.id = id /\ Srv(c)'.res.kind = kind
           \/ \E i \in DOMAIN conn'[c].to["client"] :
                 /\ conn'[c].to["client"][i].m.id = id
                 /\ conn'[c].to["client"][i].m.kind = kind
<1>1. CASE \/ \E k \in Clients : \E i \in DOMAIN client'[k].buf :
                  client'[k].buf[i].m.id = id /\ client'[k].buf[i].m.kind = kind
           \/ \E k \in Clients : /\ Returned(k)' /\ client'[k].err = "Success"
                                 /\ client'[k].res.id = id /\ client'[k].res.kind = kind
  BY <1>1 DEF Given, Returned, At
<1>2. ASSUME NEW d \in Conns, Srv(d)'.pc \in {"head", "body"},
             Srv(d)'.res.id = id, Srv(d)'.res.kind = kind
      PROVE  \/ Given(id, kind)
             \/ Srv(c)'.pc \in {"head", "body"} /\ Srv(c)'.res.id = id /\ Srv(c)'.res.kind = kind
  BY <1>2 DEF Given, OnlyAt
<1>3. ASSUME NEW d \in Conns, NEW i \in DOMAIN conn'[d].to["client"],
             conn'[d].to["client"][i].m.id = id, conn'[d].to["client"][i].m.kind = kind
      PROVE  \/ Given(id, kind)
             \/ \E j \in DOMAIN conn'[c].to["client"] :
                   /\ conn'[c].to["client"][j].m.id = id
                   /\ conn'[c].to["client"][j].m.kind = kind
  BY <1>3 DEF Given, OnlyAt
<1> QED
  BY <1>1, <1>2, <1>3 DEF Given

LEMMA SentStays ==
    ASSUME UNCHANGED client
    PROVE  \A id : IsSent(id)' <=> IsSent(id)
BY DEF IsSent, Launched

(* The server has no more to read than before, and what it says is given.  *)
LEMMA ServerTurn ==
    ASSUME ToldInv, HttpInv', Shape', UNCHANGED <<client, ran>>, NEW c \in Conns, OnlyAt(c),
           OneMessage(Up(c)'), IdsIn(Up(c)') \subseteq IdsIn(Up(c)),
           Begins(Up(c)') => Begins(Up(c)) /\ Up(c)'[1].m = Up(c)[1].m,
           \A id, kind : Srv(c)'.pc \in {"head", "body"} /\ Srv(c)'.res.id = id /\ Srv(c)'.res.kind = kind =>
               \/ Given(id, kind)
               \/ /\ ran[id] = IF kind = 200 THEN 1 ELSE 0
                  /\ IsSent(id)
                  /\ \A d \in Conns : ~Starting(d, id)',
           \A i \in DOMAIN conn'[c].to["client"] :
               Given(conn'[c].to["client"][i].m.id, conn'[c].to["client"][i].m.kind),
           \A k \in Clients : client[k].sock = c =>
               Fits(k, client[k], Up(c)', client[k].buf \o conn'[c].to["client"], Srv(c)',
                    ServerAt(c)')
    PROVE  ToldInv'
<1>1. \A k \in Clients : LinkOK(k)'
  BY LinksTurn DEF ToldInv
<1>2. \A d \in Conns : d # c => Up(d)' = Up(d) /\ \A id : Starting(d, id)' <=> Starting(d, id)
  BY UpElsewhere DEF OnlyAt
<1>3. \A d \in Conns : OneMessage(Up(d))'
  BY <1>2 DEF ToldInv
<1>4. \A id : IsSent(id)' <=> IsSent(id)
  BY SentStays
<1>5. \A id : Starting(c, id)' => Starting(c, id)
  BY DEF Starting
<1>6. ASSUME NEW id, NEW kind, Given(id, kind)', ~Given(id, kind) PROVE Answered(id, kind)'
  <2>1. Srv(c)'.pc \in {"head", "body"} /\ Srv(c)'.res.id = id /\ Srv(c)'.res.kind = kind
    BY <1>6, GivenTurn
  <2>2. /\ ran[id] = IF kind = 200 THEN 1 ELSE 0
        /\ IsSent(id) /\ \A d \in Conns : ~Starting(d, id)'
    BY <1>6, <2>1
  <2> QED
    BY <1>4, <2>2 DEF Answered
<1>7. RunsOnce' /\ AnswersTell'
  <2>1. PICK x : x \in IdsIn(Up(c)) \/ IdsIn(Up(c)) = {}
    OBVIOUS
  <2>2. RunsOnce /\ AnswersTell
    BY DEF ToldInv
  <2>3. \A d \in Conns : IdsIn(Up(d))' \subseteq IdsIn(Up(d)) \union (IF d = c THEN {x} ELSE {})
    BY <1>2
  <2>4. \A d \in Conns : \A id : Starting(d, id)' => Starting(d, id) \/ (d = c /\ id = x /\ ~IsSent(x))
    BY <1>2, <1>5
  <2>5. x \in IdsIn(Up(c))' =>
          ran[x] = 0 /\ IsSent(x)' /\ \A d \in Conns : d # c => x \notin IdsIn(Up(d))
    BY <1>4, <2>2 DEF RunsOnce
  <2>6. \A id, kind : Given(id, kind)' => Given(id, kind) \/ Answered(id, kind)'
    BY <1>6
  <2>7. ASSUME NEW k \in Clients, client'[k].pc = "body" PROVE BodyAhead(k)'
    <3>1. client[k].pc = "body" /\ client'[k] = client[k]
      BY <2>7
    <3>2. /\ ran'[<<k, client'[k].n>>] = 0
          /\ \A d \in Conns : d # client[k].sock => <<k, client'[k].n>> \notin IdsIn(Up(d))
      BY <2>2, <3>1 DEF RunsOnce, BodyAhead
    <3>3. ASSUME NEW d \in Conns PROVE IdsIn(Up(d))' \subseteq IdsIn(Up(d))
      BY <1>2
    <3> QED
      BY <3>1, <3>2, <3>3 DEF BodyAhead
  <2>8. \A id : IsSent(id) => IsSent(id)'
    BY <1>4
  <2>9. Calmly(c, x)
    BY <2>3, <2>4, <2>5, <2>6, <2>7, <2>8 DEF Calmly
  <2> QED
    BY <2>2, <2>9, Calm
<1>8. ResultsAreOwn'
  BY DEF ToldInv, ResultsAreOwn, Returned, At
<1> QED
  BY <1>1, <1>3, <1>7, <1>8 DEF ToldInv

(* A step of the server leaves what a client is to itself.                 *)
LEMMA ClientsStay ==
    ASSUME Shape, UNCHANGED client, \A d \in Conns : conn'[d].at["client"] = conn[d].at["client"]
    PROVE  client' \in [Clients -> ClientRec] /\ (\A k \in Clients : ClientOK(k)') /\ OneClient'
<1>1. client' \in [Clients -> ClientRec] /\ OneClient'
  BY DEF Shape, OneClient
<1>2. ASSUME NEW k \in Clients PROVE ClientOK(k)'
  <2>1. client'[k] = client[k] /\ ClientOK(k)
    BY DEF Shape
  <2>2. client'[k].sock # None => conn'[client'[k].sock].at["client"] = "open"
    BY <2>1, SocksTyped DEF ClientOK
  <2> QED
    BY <2>1, <2>2 DEF ClientOK
<1> QED
  BY <1>1, <1>2

LEMMA OnDutyIsBusy == \A w \in Workers : Busy(w) <=> OnDuty(worker[w])
BY DEF Busy, OnDuty

(* A worker at work on c.                                                  *)
LEMMA WorkStays ==
    ASSUME HttpInv, Shape, SocketsOK', UNCHANGED <<client, listener, jobs>>,
           NEW w \in Workers, Busy(w), Works(w), ServerOK(worker'[w]),
           NEW c \in Conns, c = worker[w].sock, \A d \in Conns : conn'[d].at = conn[d].at
    PROVE  /\ Shape' /\ Srv(c) = worker[w] /\ Srv(c)' = worker'[w]
           /\ \A d \in Conns : d # c => Srv(d)' = Srv(d)
<1>1. /\ worker'[w].sock = c /\ OnDuty(worker'[w]) /\ OnDuty(worker[w])
      /\ \A u \in Workers : u # w => worker'[u] = worker[u]
  BY DEF Works, HttpInv, PoolOK, OnDuty, Busy
<1>2. OneServer'
  <2>1. \A u \in Workers : (Busy(u)' <=> Busy(u)) /\ worker'[u].sock = worker[u].sock
    BY <1>1 DEF Busy, OnDuty
  <2>2. \A d \in Conns : ServerAt(d)' = ServerAt(d)
    BY DEF ServerAt
  <2>3. OneServer /\ (\A i \in DOMAIN jobs : jobs[i] \in Conns)
        /\ (listener.pc = "enqueue" => listener.sock \in Conns)
    BY ElementOfSeq, LenProperties DEF Shape, HttpInv, PoolOK
  <2>4. ASSUME NEW u \in Workers, Busy(u)'
        PROVE  worker'[u].sock \in Conns /\ ServerAt(worker[u].sock)' = "open"
    <3>1. Busy(u) /\ worker'[u].sock = worker[u].sock
      BY <2>1, <2>4
    <3>2. PICK d \in Conns : d = worker[u].sock /\ ServerAt(d) = "open"
      BY <2>3, <3>1 DEF OneServer
    <3>3. conn'[worker'[u].sock] = conn'[d] /\ conn'[d].at["server"] = "open"
      BY <2>2, <3>1, <3>2 DEF ServerAt
    <3> QED
      BY <3>1, <3>2, <3>3 DEF ServerAt
  <2>5. \A i \in DOMAIN jobs : ServerAt(jobs[i])' = "open"
    BY <2>2, <2>3 DEF OneServer, ServerAt
  <2>6. listener.pc = "enqueue" => ServerAt(listener.sock)' = "open"
    BY <2>2, <2>3 DEF OneServer, ServerAt
  <2> QED
    BY <2>1, <2>3, <2>4, <2>5, <2>6 DEF OneServer
<1>3. \A u \in Workers : ServerOK(worker'[u])
  BY <1>1 DEF Shape
<1>4. Shape'
  <2>1. \A d \in Conns : conn'[d].at["client"] = conn[d].at["client"]
    OBVIOUS
  <2> QED
    BY <1>2, <1>3, <2>1, ClientsStay DEF Shape
<1>5. OnePerSocket(worker) /\ OnePerSocket(worker')
  <2>1. OnePerSocket(worker)
    BY ServerTypes
  <2>2. \A u \in Workers : (OnDuty(worker'[u]) <=> OnDuty(worker[u])) /\ worker'[u].sock = worker[u].sock
    BY <1>1
  <2> QED
    BY <2>1, <2>2 DEF OnePerSocket
<1>6. /\ \A d : d # c => ServerOf(worker', d) = ServerOf(worker, d)
      /\ ServerOf(worker', c) = worker'[w]
  BY <1>1, <1>5, ServerChanges
<1>7. Srv(c) = worker[w]
  BY ServerTypes
<1> QED
  BY <1>4, <1>6, <1>7 DEF Srv

(* A server that has nothing to say yet.                                   *)
LEMMA FitsWaiting ==
    ASSUME NEW k, NEW s, NEW up, NEW down, NEW v, NEW at, Fits(k, s, up, down, v, at),
           NEW u, u.pc \notin {"head", "body"}, u.pc = "dispatch" => up # <<>>,
           NEW to, to # "closed" => at # "closed"
    PROVE  Fits(k, s, up, down, u, to)
<1>1. CASE Asking(s)
  BY <1>1 DEF Fits, Speaks, InTurn
<1>2. CASE ~Asking(s)
  BY <1>2 DEF Fits
<1> QED
  BY <1>1, <1>2

LEMMA GivenDown ==
    ASSUME NEW c \in Conns, NEW i \in DOMAIN conn[c].to["client"]
    PROVE  Given(conn[c].to["client"][i].m.id, conn[c].to["client"][i].m.kind)
BY DEF Given

LEMMA QuietTurn ==
    ASSUME ToldInv, HttpInv', Shape', UNCHANGED <<client, ran>>, NEW c \in Conns, OnlyAt(c),
           Up(c)' = Up(c), conn'[c].to["client"] = conn[c].to["client"],
           Srv(c)'.pc \notin {"head", "body"}, Srv(c)'.pc = "dispatch" => Up(c) # <<>>,
           ServerAt(c)' # "closed" => ServerAt(c) # "closed"
    PROVE  ToldInv'
<1>1. OneMessage(Up(c)') /\ IdsIn(Up(c)') \subseteq IdsIn(Up(c))
  BY DEF ToldInv
<1>2. Begins(Up(c)') => Begins(Up(c)) /\ Up(c)'[1].m = Up(c)[1].m
  OBVIOUS
<1>3. \A i \in DOMAIN conn'[c].to["client"] :
          Given(conn'[c].to["client"][i].m.id, conn'[c].to["client"][i].m.kind)
  BY GivenDown
<1>4. ASSUME NEW k \in Clients, client[k].sock = c
      PROVE  Fits(k, client[k], Up(c)', client[k].buf \o conn'[c].to["client"], Srv(c)',
                  ServerAt(c)')
  <2>1. client[k].sock # None
    BY <1>4, HttpLinkAssumption
  <2>2. Fits(k, client[k], Up(c), client[k].buf \o conn[c].to["client"], Srv(c), ServerAt(c))
    BY <1>4, <2>1 DEF ToldInv, LinkOK, Down
  <2>3. PICK u, to, up, down : /\ u = Srv(c)' /\ to = ServerAt(c)' /\ up = Up(c)
                               /\ down = client[k].buf \o conn[c].to["client"]
    OBVIOUS
  <2>4. Fits(k, client[k], up, down, u, to)
    BY <2>2, <2>3, FitsWaiting
  <2> QED
    BY <2>3, <2>4
<1>5. \A id, kind : Srv(c)'.pc \in {"head", "body"} /\ Srv(c)'.res.id = id /\ Srv(c)'.res.kind = kind =>
          \/ Given(id, kind)
          \/ /\ ran[id] = IF kind = 200 THEN 1 ELSE 0
             /\ IsSent(id)
             /\ \A d \in Conns : ~Starting(d, id)'
  OBVIOUS
<1> QED
  BY <1>1, <1>2, <1>3, <1>4, <1>5, ServerTurn

LEMMA StepFields ==
    ASSUME HttpInv, NEW w \in Workers, NEW pc, Step(w, pc)
    PROVE  /\ worker'[w].pc = pc /\ worker'[w].sock = worker[w].sock
           /\ worker'[w].buf = worker[w].buf /\ worker'[w].req = worker[w].req
           /\ worker'[w].res = worker[w].res
<1>1. worker'[w] = [worker[w] EXCEPT !.pc = pc] /\ IsWork(worker[w])
  BY DEF HttpInv, PoolOK, Step
<1> QED
  BY <1>1 DEF IsWork

LEMMA NextRoundFields ==
    ASSUME HttpInv, NEW w \in Workers, NextRound(w)
    PROVE  worker'[w].pc \in {"keep_alive", "close"} /\ worker'[w].buf = <<>>
<1>1. PICK pc \in {"close", "keep_alive"} :
        worker' = [worker EXCEPT ![w] = WorkOn(pc, worker[w].sock, worker[w].left - 1)]
  BY DEF NextRound, WorkOn, NoWork
<1>2. worker'[w] = WorkOn(pc, worker[w].sock, worker[w].left - 1)
  BY <1>1 DEF HttpInv, PoolOK
<1> QED
  BY <1>2 DEF WorkOn, NoWork

LEMMA TalkIs ==
    ASSUME NEW v, v.pc \in {"keep_alive", "read", "close"}, v.buf \in Seq(Tokens),
           v.pc = "keep_alive" => v.buf = <<>>
    PROVE  ServerOK(v)
BY DEF ServerOK

(* What is known of a worker at work.                                      *)
LEMMA AtWork ==
    ASSUME ToldInv, NEW w \in Workers, Busy(w)
    PROVE  /\ worker[w].sock \in Conns /\ ServerAt(worker[w].sock) = "open"
           /\ Srv(worker[w].sock) = worker[w] /\ ServerOK(worker[w]) /\ IsWork(worker[w])
           /\ worker[w].buf \in Seq(Tokens)
           /\ HttpInv /\ Shape /\ SocketsOK
<1>1. HttpInv /\ Shape /\ SocketsOK /\ OneServer /\ ServerOK(worker[w])
  BY DEF ToldInv, Shape
<1> QED
  BY <1>1, ServerTypes DEF OneServer, HttpInv, PoolOK, ServerOK

LEMMA KeepAliveTold ==
    ASSUME ToldInv, HttpInv', UNCHANGED client, NEW w \in Workers, keep_alive(w)
    PROVE  ToldInv'
<1>1. PICK pc \in {"read", "close"} : Step(w, pc)
  BY DEF keep_alive
<1>2. /\ worker[w].pc = "keep_alive" /\ Busy(w) /\ UNCHANGED <<listener, jobs, ran, conn>>
  BY DEF keep_alive, WorkerAt, Busy, poolVars
<1>3. PICK c \in Conns : c = worker[w].sock /\ Srv(c) = worker[w]
  BY <1>2, AtWork
<1>4. HttpInv /\ Shape /\ SocketsOK /\ worker[w].buf = <<>>
  BY <1>2, AtWork DEF ServerOK
<1>5. worker'[w].pc = pc /\ worker'[w].buf = <<>>
  BY <1>1, <1>4, StepFields
<1>6. ServerOK(worker'[w]) /\ Works(w)
  <2>1. worker'[w].buf \in Seq(Tokens)
    BY <1>5, NoTokens
  <2>2. ServerOK(worker'[w])
    BY <1>5, <2>1 DEF ServerOK
  <2> QED
    BY <1>1, <1>4, <2>2, StepWorks
<1>7. /\ Shape' /\ Srv(c)' = worker'[w]
      /\ \A d \in Conns : d # c => Srv(d)' = Srv(d)
  BY <1>2, <1>3, <1>4, <1>6, ConnStays, WorkStays
<1>8. OnlyAt(c)
  BY <1>2, <1>7 DEF OnlyAt
<1>9. Held(Srv(c)) = <<>> /\ Held(Srv(c)') = <<>>
  BY <1>2, <1>3, <1>5, <1>7 DEF Held
<1>10. Up(c)' = Up(c)
  BY <1>2, <1>9 DEF Up
<1>11. Srv(c)'.pc \notin {"head", "body", "dispatch"}
  BY <1>5, <1>7
<1> QED
  BY <1>2, <1>7, <1>8, <1>10, <1>11, QuietTurn DEF ServerAt

(* A worker answers a request of which it has not read all, or that it has *)
(* not read from its start.                                                *)
LEMMA RejectTurn ==
    ASSUME ToldInv, HttpInv', Shape', UNCHANGED <<client, ran>>, NEW c \in Conns, OnlyAt(c),
           Up(c) # <<>>, Up(c)' \in Seq(Tokens), OneMessage(Up(c)'), ~Begins(Up(c)'), IdsIn(Up(c)') \subseteq IdsIn(Up(c)),
           Len(Up(c)') <= Len(Up(c)), \A i \in DOMAIN Up(c)' : Up(c)'[i].m = Up(c)[1].m,
           Srv(c)'.pc = "head", Srv(c)'.res.kind = 400, Srv(c)'.res.id = Up(c)[1].m.id,
           conn'[c].to["client"] = conn[c].to["client"],
           \A k \in KeepAlive \intersect Clients : client[k].sock = c => ~Asking(client[k])
    PROVE  ToldInv'
<1>0. PICK up, rest : up = Up(c) /\ rest = Up(c)'
  OBVIOUS
<1>1. 1 \in DOMAIN up /\ Len(up) \in Nat /\ Len(rest) \in Nat
  <2>1. up \in Seq(Tokens) /\ rest \in Seq(Tokens) /\ up # <<>>
    <3>1. Up(c) \in Seq(Tokens)
      BY ServerTypes DEF ToldInv
    <3> QED
      BY <1>0, <3>1
  <2>2. Len(up) \in Nat /\ DOMAIN up = 1 .. Len(up) /\ Len(up) # 0
    BY <2>1, TokenAt
  <2> QED
    BY <2>1, <2>2, TokenAt
<1>3. PICK id : id = up[1].m.id
  OBVIOUS
<1>4. id \in IdsIn(up)
  BY <1>1, <1>3 DEF IdsIn
<1>12. /\ \A d \in Conns : \A x \in IdsIn(Up(d)) : ran[x] = 0 /\ IsSent(x)
       /\ \A d, e \in Conns : \A x \in IdsIn(Up(d)) : x \in IdsIn(Up(e)) => d = e
       /\ id \in IdsIn(Up(c))
  BY <1>0, <1>4 DEF ToldInv, RunsOnce
<1>5. /\ ran[id] = 0 /\ IsSent(id) /\ \A d \in Conns : d # c => id \notin IdsIn(Up(d))
  BY <1>12
<1>6. \A d \in Conns : ~Starting(d, id)'
  <2>1. ~Starting(c, id)'
    BY DEF Starting
  <2>2. ASSUME NEW d \in Conns, d # c PROVE ~Starting(d, id)'
    <3>1. Starting(d, id)' <=> Starting(d, id)
      BY <2>2, UpElsewhere DEF OnlyAt
    <3>2. Starting(d, id) => id \in IdsIn(Up(d))
      BY DEF Starting, Begins, IdsIn
    <3> QED
      BY <1>5, <2>2, <3>1, <3>2
  <2> QED
    BY <2>1, <2>2
<1>7. \A x, kind : Srv(c)'.pc \in {"head", "body"} /\ Srv(c)'.res.id = x /\ Srv(c)'.res.kind = kind =>
          \/ Given(x, kind)
          \/ /\ ran[x] = IF kind = 200 THEN 1 ELSE 0
             /\ IsSent(x)
             /\ \A d \in Conns : ~Starting(d, x)'
  BY <1>0, <1>3, <1>5, <1>6
<1>8. \A i \in DOMAIN conn'[c].to["client"] :
          Given(conn'[c].to["client"][i].m.id, conn'[c].to["client"][i].m.kind)
  BY GivenDown
<1>9. ASSUME NEW k \in Clients, client[k].sock = c
      PROVE  Fits(k, client[k], Up(c)', client[k].buf \o conn'[c].to["client"], Srv(c)',
                  ServerAt(c)')
  <2>1. PICK down, v : down = client[k].buf \o conn[c].to["client"] /\ v = Srv(c)'
    OBVIOUS
  <2>2. Fits(k, client[k], up, down, Srv(c), ServerAt(c))
    BY <1>0, <1>9, <2>1, HttpLinkAssumption DEF ToldInv, LinkOK, Down
  <2>4. Asking(client[k]) /\ k \notin KeepAlive
    BY <1>0, <1>9, <2>2 DEF Fits
  <2>5. Speaks(client[k], up, down, Srv(c))
    BY <2>2, <2>4 DEF Fits
  <2>6. up[1].m = client[k].req
    BY <1>1, <2>5 DEF Speaks
  <2>7. \A i \in DOMAIN rest : rest[i].m = client[k].req
    BY <1>0, <2>6
  <2>8. v.res.id = client[k].req.id
    BY <1>0, <2>1, <2>6
  <2>9. client[k].pc = "body" => Len(rest) <= 2 /\ client[k].req.len > 0
    BY <1>0, <1>1, <2>5 DEF Speaks
  <2>10. Speaks(client[k], rest, down, v)
    BY <2>5, <2>7, <2>8, <2>9 DEF Speaks
  <2>11. Fits(k, client[k], rest, down, v, ServerAt(c)')
    BY <2>4, <2>10 DEF Fits
  <2> QED
    BY <1>0, <2>1, <2>11
<1>10. Begins(Up(c)') => Begins(Up(c)) /\ Up(c)'[1].m = Up(c)[1].m
  OBVIOUS
<1> QED
  BY <1>7, <1>8, <1>9, <1>10, ServerTurn

(* One message, received in part.                                          *)
Reads(old, to, n, f, rest, up) ==
    /\ f = old \o SubSeq(to, 1, n) /\ rest = SubSeq(to, n + 1, Len(to))
    /\ up = old \o to

LEMMA Reading ==
    ASSUME NEW old \in Seq(Tokens), NEW to \in Seq(Tokens), NEW n \in 0 .. Len(to),
           NEW f, NEW rest, NEW up, Reads(old, to, n, f, rest, up)
    PROVE  Parts(up, f, rest) /\ (n > 0 => f # <<>>)
<1>1. PICK data : data = SubSeq(to, 1, n)
  OBVIOUS
<1>2. n \in 0 .. Len(to) /\ Len(to) \in Nat
  BY LenProperties
<1>3. data \in Seq(Tokens) /\ Len(data) = n /\ rest \in Seq(Tokens) /\ to = data \o rest
  BY <1>1, <1>2, Cut DEF Reads
<1>4. f = old \o data
  BY <1>1 DEF Reads
<1>5. f \in Seq(Tokens) /\ Len(f) = Len(old) + Len(data)
  BY <1>3, <1>4, Joined
<1>6. n > 0 => f # <<>>
  <2>1. Len(old) \in Nat
    BY <1>2, LenProperties
  <2>2. n > 0 => Len(f) # 0
    BY <1>3, <1>5, <2>1
  <2> QED
    BY <2>2, NoTokens
<1>7. f \o rest = old \o (data \o rest)
  <2>1. (old \o data) \o rest = old \o (data \o rest)
    BY <1>3, JoinedThree
  <2> QED
    BY <1>4, <2>1
<1>8. up = f \o rest
  BY <1>3, <1>7 DEF Reads
<1> QED
  BY <1>3, <1>5, <1>6, <1>8 DEF Parts

LEMMA PartsOf ==
    ASSUME NEW up, NEW f, NEW rest, Parts(up, f, rest)
    PROVE  /\ up \in Seq(Tokens) /\ f \in Seq(Tokens) /\ rest \in Seq(Tokens)
           /\ Len(up) = Len(f) + Len(rest)
           /\ Len(up) \in Nat /\ Len(f) \in Nat /\ Len(rest) \in Nat
           /\ f # <<>> => up # <<>>
           /\ IdsIn(up) = IdsIn(f) \union IdsIn(rest)
<1>1. /\ f \in Seq(Tokens) /\ rest \in Seq(Tokens) /\ up = f \o rest
  BY DEF Parts
<1>2. up \in Seq(Tokens) /\ Len(up) = Len(f) + Len(rest)
  BY <1>1, Joined
<1>3. IdsIn(up) = IdsIn(f) \union IdsIn(rest)
  BY <1>1, JoinedIds
<1>4. Len(up) \in Nat /\ Len(f) \in Nat /\ Len(rest) \in Nat
  BY <1>1, <1>2, LenProperties
<1>5. f # <<>> => up # <<>>
  <2>1. f # <<>> => Len(f) # 0
    BY <1>1, TokenAt
  <2> QED
    BY <1>2, <1>4, <2>1, NoTokens
<1> QED
  BY <1>1, <1>2, <1>3, <1>4, <1>5

LEMMA ReadRequestTold ==
    ASSUME ToldInv, HttpInv', UNCHANGED client, NEW w \in Workers, read_request(w)
    PROVE  ToldInv'
<1>1. worker[w].pc = "read" /\ Busy(w) /\ UNCHANGED <<listener, jobs, ran>>
  BY DEF read_request, WorkerAt, Busy, poolVars
<1>2. PICK c \in Conns : c = worker[w].sock /\ Srv(c) = worker[w] /\ ServerAt(c) = "open"
  BY <1>1, AtWork
<1>3. HttpInv /\ Shape /\ SocketsOK /\ worker[w].buf \in Seq(Tokens) /\ IsWork(worker[w])
  BY <1>1, AtWork
<1>4. PICK n \in Arrived(c, "server") :
        /\ Recv(c, "server", n)
        /\ worker' = [worker EXCEPT ![w] = Parsed(worker[w], worker[w].buf \o Received(c, "server", n))]
  BY <1>2 DEF read_request
<1>5. SocketsOK' /\ Took(c, "server", n)
  BY <1>3, <1>4, RecvDoes DEF Ends
<1>6. PICK old, to, f, rest, up :
        /\ old = worker[w].buf /\ to = conn[c].to["server"] /\ rest = conn'[c].to["server"]
        /\ f = worker[w].buf \o Received(c, "server", n) /\ up = Up(c)
  OBVIOUS
<1>7. /\ n \in 1 .. Len(to) /\ rest = SubSeq(to, n + 1, Len(to))
      /\ conn'[c].to["client"] = conn[c].to["client"] /\ conn'[c].at = conn[c].at
      /\ OthersSame(c)
  BY <1>5, <1>6 DEF Took, SameAt, Other
<1>8. old \in Seq(Tokens) /\ to \in Seq(Tokens)
  BY <1>3, <1>6, ConnFields DEF Ends
<1>9. Parts(up, f, rest) /\ f # <<>>
  <2>1. Reads(old, to, n, f, rest, up)
    BY <1>1, <1>2, <1>6, <1>7 DEF Reads, Received, Up, Held
  <2>2. n \in 0 .. Len(to) /\ n > 0
    BY <1>7, <1>8, TokenAt
  <2> QED
    BY <1>8, <2>1, <2>2, Reading
<1>10. f \in Seq(Tokens) /\ rest \in Seq(Tokens)
  BY <1>9, PartsOf
<1>11. PICK v : v = worker'[w] /\ v = Parsed(worker[w], f)
  BY <1>3, <1>4, <1>6 DEF HttpInv, PoolOK
<1>12. /\ ServerOK(v)
       /\ \/ v.pc \in {"read", "dispatch"} /\ v.buf = f
          \/ /\ v.pc = "head" /\ ~Begins(f) /\ getline(f) \in DOMAIN f
             /\ v.res.kind = 400 /\ v.res.id = f[getline(f)].m.id
  <2>1. CASE Progress(f) = "malformed"
    <3>1. v = Rejected(worker[w], f)
      BY <1>1, <1>3, <1>10, <1>11, <2>1, ParsedIs
    <3>2. getline(f) \in DOMAIN f
      BY <1>10, <2>1, ProgressIs
    <3>3. /\ v.pc = "head" /\ v.buf = f /\ v.res \in AnsMsgs /\ v.res \in Msgs
          /\ v.res.kind = 400 /\ v.res.id = f[getline(f)].m.id
      BY <1>3, <1>10, <3>1, <3>2, RejectedIs
    <3>4. ~Begins(f)
      BY <1>10, <2>1, ProgressIs
    <3> QED
      BY <1>10, <3>2, <3>3, <3>4 DEF ServerOK
  <2>2. CASE Progress(f) = "complete"
    <3>1. v.pc = "dispatch" /\ v.buf = f /\ v.req = f[1].m
      BY <1>1, <1>3, <1>10, <1>11, <2>2, ParsedIs
    <3>2. Whole(f)
      BY <1>10, <2>2, ProgressIs
    <3> QED
      BY <1>10, <3>1, <3>2 DEF ServerOK
  <2>3. CASE Progress(f) \notin {"malformed", "complete"}
    <3>1. v.pc = "read" /\ v.buf = f
      BY <1>1, <1>3, <1>10, <1>11, <2>3, ParsedIs
    <3> QED
      BY <1>10, <3>1 DEF ServerOK
  <2> QED
    BY <2>1, <2>2, <2>3
<1>13. Works(w)
  <2>1. IsWork(Parsed(worker[w], f)) /\ Parsed(worker[w], f).sock = worker[w].sock
        /\ Parsed(worker[w], f).pc \in {"head", "dispatch", "read"}
    BY <1>1, <1>3, ParsedWork
  <2>2. worker' = [worker EXCEPT ![w] = Parsed(worker[w], f)]
    BY <1>4, <1>6
  <2> QED
    BY <1>3, <2>1, <2>2, GoesOn
<1>14. \A d \in Conns : conn'[d].at = conn[d].at
  BY <1>7 DEF OthersSame
<1>15. /\ Shape' /\ Srv(c)' = worker'[w]
       /\ \A d \in Conns : d # c => Srv(d)' = Srv(d)
  BY <1>1, <1>2, <1>3, <1>5, <1>11, <1>12, <1>13, <1>14, WorkStays, ZenonT(60)
<1>16. OnlyAt(c) /\ Srv(c)' = v /\ ServerAt(c)' = ServerAt(c)
  BY <1>7, <1>11, <1>15 DEF OnlyAt, OthersSame, ServerAt
<1>17. CASE v.pc \in {"read", "dispatch"}
  <2>1. v.buf = f /\ Held(v) = f
    BY <1>12, <1>17 DEF Held
  <2>2. Up(c)' = f \o rest
    BY <1>6, <1>16, <2>1 DEF Up
  <2>3. Up(c)' = Up(c)
    BY <1>6, <1>9, <2>2 DEF Parts
  <2>4. up # <<>>
    BY <1>9, PartsOf
  <2>5. Srv(c)'.pc \notin {"head", "body"} /\ Up(c) # <<>>
    BY <1>6, <1>16, <1>17, <2>4
  <2> QED
    BY <1>1, <1>7, <1>15, <1>16, <2>3, <2>5, QuietTurn
<1>18. CASE v.pc = "head"
  <2>1. /\ ~Begins(f) /\ getline(f) \in DOMAIN f
        /\ v.res.kind = 400 /\ v.res.id = f[getline(f)].m.id
    BY <1>12, <1>18
  <2>2. Up(c)' = rest
    <3>1. Held(v) = <<>>
      BY <1>18 DEF Held
    <3>2. Up(c)' = <<>> \o rest
      BY <1>6, <1>16, <3>1 DEF Up
    <3> QED
      BY <1>10, <3>2, JoinedNone
  <2>3. OneMessage(up)
    BY <1>6 DEF ToldInv
  <2>4. /\ OneMessage(f) /\ OneMessage(rest)
        /\ f # <<>> => ~Begins(rest)
        /\ Begins(f) => Begins(up) /\ f[1] = up[1]
        /\ f # <<>> /\ Begins(up) => Begins(f) /\ f[1] = up[1]
        /\ IdsIn(f) \subseteq IdsIn(up) /\ IdsIn(rest) \subseteq IdsIn(up)
        /\ \A i \in DOMAIN f : f[i].m = up[1].m
        /\ \A i \in DOMAIN rest : rest[i].m = up[1].m
        /\ Len(up) = Len(f) + Len(rest)
    BY <1>9, <2>3, CutMessage
  <2>5. /\ Len(up) = Len(f) + Len(rest) /\ Len(f) \in Nat /\ Len(rest) \in Nat
        /\ up # <<>> /\ IdsIn(up) = IdsIn(f) \union IdsIn(rest)
    BY <1>9, PartsOf
  <2>6. /\ Up(c) # <<>> /\ Up(c)' \in Seq(Tokens) /\ OneMessage(Up(c)') /\ ~Begins(Up(c)')
        /\ IdsIn(Up(c)') \subseteq IdsIn(Up(c)) /\ Len(Up(c)') <= Len(Up(c))
        /\ \A i \in DOMAIN Up(c)' : Up(c)'[i].m = Up(c)[1].m
    <3>1. /\ up # <<>> /\ rest \in Seq(Tokens) /\ OneMessage(rest) /\ ~Begins(rest)
          /\ IdsIn(rest) \subseteq IdsIn(up) /\ Len(rest) <= Len(up)
      BY <1>9, <1>10, <2>4, <2>5
    <3>2. \A i \in DOMAIN rest : rest[i].m = up[1].m
      BY <2>4
    <3> QED
      BY <1>6, <2>2, <3>1, <3>2
  <2>7. Srv(c)'.pc = "head" /\ Srv(c)'.res.kind = 400 /\ Srv(c)'.res.id = Up(c)[1].m.id
    BY <1>6, <1>16, <1>18, <2>1, <2>4
  <2>8. ~Begins(up)
    BY <1>9, <2>1, <2>4
  <2>9. ASSUME NEW k \in KeepAlive \intersect Clients, client[k].sock = c, Asking(client[k])
        PROVE  FALSE
    <3>1. PICK down : Fits(k, client[k], up, down, Srv(c), ServerAt(c))
      BY <1>6, <2>9, HttpLinkAssumption DEF ToldInv, LinkOK
    <3>2. InTurn(client[k], up, down, Srv(c), ServerAt(c))
      BY <2>9, <3>1 DEF Fits
    <3> QED
      BY <2>5, <2>8, <3>2 DEF InTurn
  <2> QED
    BY <1>1, <1>7, <1>15, <1>16, <2>6, <2>7, <2>9, RejectTurn
<1> QED
  BY <1>12, <1>17, <1>18

(* A client holds its end of its connection, and its connection fits.      *)
LEMMA OwnerIs ==
    ASSUME ToldInv, NEW k \in Clients, NEW c \in Conns, client[k].sock = c
    PROVE  /\ conn[c].at["client"] = "open" /\ client[k].buf \in Seq(Tokens)
           /\ Fits(k, client[k], Up(c), client[k].buf \o conn[c].to["client"], Srv(c), ServerAt(c))
           /\ client[k].n > 0 =>
                 client[k].req \in Msgs /\ client[k].req.close = (k \notin KeepAlive)
<1>1. c # None
  BY HttpLinkAssumption
<1>2. Shape /\ ClientOK(k) /\ LinkOK(k) /\ client[k] \in ClientRec
  BY DEF ToldInv, Shape
<1> QED
  BY <1>1, <1>2 DEF ClientOK, ClientRec, LinkOK, Down

(* What is left of a message that has no line.                             *)
LEMMA FitsDropped ==
    ASSUME NEW k, NEW s, NEW up, NEW down, NEW v, NEW at, Fits(k, s, up, down, v, at),
           ~Begins(up), NEW u, u.pc \notin {"dispatch", "head", "body"}
    PROVE  Fits(k, s, <<>>, down, u, at)
<1>1. DOMAIN <<>> = {} /\ Len(<<>>) = 0
  BY NoTokens
<1>2. CASE Asking(s)
  <2>1. Speaks(s, up, down, v) /\ (k \in KeepAlive => InTurn(s, up, down, v, at))
    BY <1>2 DEF Fits
  <2>2. Speaks(s, <<>>, down, u)
    BY <1>1, <2>1 DEF Speaks
  <2>3. InTurn(s, up, down, v, at) => InTurn(s, <<>>, down, u, at)
    BY DEF InTurn
  <2> QED
    BY <1>2, <2>1, <2>2, <2>3 DEF Fits
<1>3. CASE ~Asking(s)
  BY <1>3 DEF Fits
<1> QED
  BY <1>2, <1>3

LEMMA ReadEndsTold ==
    ASSUME ~SlowWriters, ToldInv, HttpInv', UNCHANGED client, NEW w \in Workers, read_ends(w)
    PROVE  ToldInv'
<1>1. worker[w].pc = "read" /\ Busy(w) /\ UNCHANGED <<listener, jobs, ran, conn>>
  BY DEF read_ends, WorkerAt, Busy, poolVars
<1>2. PICK c \in Conns : c = worker[w].sock /\ Srv(c) = worker[w] /\ ServerAt(c) = "open"
  BY <1>1, AtWork
<1>3. HttpInv /\ Shape /\ SocketsOK /\ worker[w].buf \in Seq(Tokens) /\ IsWork(worker[w])
  BY <1>1, AtWork
<1>4. PICK buf : buf = worker[w].buf
  OBVIOUS
<1>5. /\ conn[c].to["server"] = <<>> /\ (AtEof(c, "server") \/ MayPause(w))
      /\ \/ Progress(buf) = "line" /\ Step(w, "close")
         \/ /\ Progress(buf) # "line"
            /\ worker' = [worker EXCEPT ![w] = Rejected(worker[w], buf)]
  BY <1>2, <1>4 DEF read_ends, HasData
<1>6. Up(c) = buf
  BY <1>1, <1>2, <1>3, <1>4, <1>5, JoinedNone DEF Up, Held
<1>7. PICK v : v = worker'[w]
  OBVIOUS
<1>8. \/ Progress(buf) = "line" /\ v.pc = "close" /\ v.buf = buf
      \/ /\ v.pc = "head" /\ getline(buf) \in DOMAIN buf /\ v.res \in AnsMsgs /\ v.res \in Msgs
         /\ v.res.kind = 400 /\ v.res.id = buf[getline(buf)].m.id /\ v.buf = buf
  <2>1. CASE Progress(buf) = "line"
    BY <1>3, <1>4, <1>5, <1>7, <2>1, StepFields
  <2>2. CASE Progress(buf) # "line"
    <3>1. getline(buf) \in DOMAIN buf
      BY <1>3, <1>4, <2>2, ProgressIs
    <3>2. v = Rejected(worker[w], buf)
      BY <1>3, <1>5, <1>7, <2>2 DEF HttpInv, PoolOK
    <3>3. buf \in Seq(Tokens) /\ IsWork(worker[w])
      BY <1>3, <1>4
    <3>4. LET x == Rejected(worker[w], buf) IN
          /\ x.pc = "head" /\ x.sock = worker[w].sock /\ x.buf = buf
          /\ x.res \in AnsMsgs /\ x.res \in Msgs
          /\ x.res.kind = 400 /\ x.res.id = buf[getline(buf)].m.id
      BY <3>1, <3>3, RejectedIs
    <3> QED
      BY <3>1, <3>2, <3>4
  <2> QED
    BY <2>1, <2>2
<1>9. ServerOK(v)
  BY <1>3, <1>4, <1>8 DEF ServerOK
<1>10. Works(w)
  <2>1. IsWork(Rejected(worker[w], buf)) /\ Rejected(worker[w], buf).pc = "head"
        /\ Rejected(worker[w], buf).sock = worker[w].sock
    BY <1>3, RejectedWork
  <2> QED
    BY <1>3, <1>5, <2>1, StepWorks, GoesOn
<1>11. /\ Shape' /\ Srv(c)' = worker'[w]
       /\ \A d \in Conns : d # c => Srv(d)' = Srv(d)
  BY <1>1, <1>2, <1>3, <1>7, <1>9, <1>10, ConnStays, WorkStays
<1>12. OnlyAt(c) /\ Srv(c)' = v
  BY <1>1, <1>7, <1>11 DEF OnlyAt
<1>13. Up(c)' = <<>>
  <2>1. Held(v) = <<>>
    BY <1>8 DEF Held
  <2>2. Up(c)' = <<>> \o <<>>
    BY <1>1, <1>5, <1>12, <2>1 DEF Up
  <2> QED
    BY <2>2, NoTokens, JoinedNone
<1>14. CASE Progress(buf) = "line" /\ v.pc = "close"
  <2>1. ~Begins(buf)
    BY <1>3, <1>4, <1>14, ProgressIs DEF Begins
  <2>2. \A i \in DOMAIN conn'[c].to["client"] :
            Given(conn'[c].to["client"][i].m.id, conn'[c].to["client"][i].m.kind)
    BY <1>1, GivenDown
  <2>3. ASSUME NEW k \in Clients, client[k].sock = c
        PROVE  Fits(k, client[k], Up(c)', client[k].buf \o conn'[c].to["client"], Srv(c)',
                    ServerAt(c)')
    <3>1. PICK down, at : down = client[k].buf \o conn[c].to["client"] /\ at = ServerAt(c)
      OBVIOUS
    <3>2. Fits(k, client[k], buf, down, Srv(c), at)
      BY <1>6, <2>3, <3>1, OwnerIs
    <3>3. Fits(k, client[k], <<>>, down, v, at)
      BY <1>14, <2>1, <3>2, FitsDropped
    <3> QED
      BY <1>1, <1>12, <1>13, <3>1, <3>3 DEF ServerAt
  <2>4. OneMessage(Up(c)') /\ IdsIn(Up(c)') \subseteq IdsIn(Up(c)) /\ ~Begins(Up(c)')
    BY <1>13, NoTokens, EmptyMessage
  <2>5. Srv(c)'.pc \notin {"head", "body"}
    BY <1>12, <1>14
  <2> QED
    BY <1>1, <1>11, <1>12, <2>2, <2>3, <2>4, <2>5, ServerTurn
<1>15. CASE v.pc = "head"
  <2>1. /\ getline(buf) \in DOMAIN buf /\ v.res.kind = 400 /\ v.res.id = buf[getline(buf)].m.id
    BY <1>8, <1>15
  <2>2. OneMessage(buf) /\ buf \in Seq(Tokens) /\ buf # <<>>
    BY <1>3, <1>4, <1>6, <2>1, NoTokens DEF ToldInv
  <2>3. v.res.id = buf[1].m.id
    BY <2>1, <2>2 DEF OneMessage
  <2>4. /\ Up(c) # <<>> /\ Up(c)' \in Seq(Tokens) /\ OneMessage(Up(c)') /\ ~Begins(Up(c)')
        /\ IdsIn(Up(c)') \subseteq IdsIn(Up(c)) /\ Len(Up(c)') <= Len(Up(c))
        /\ \A i \in DOMAIN Up(c)' : Up(c)'[i].m = Up(c)[1].m
    <3>1. Len(buf) \in Nat
      BY <2>2, TokenAt
    <3> QED
      BY <1>6, <1>13, <2>2, <3>1, NoTokens, EmptyMessage
  <2>5. Srv(c)'.pc = "head" /\ Srv(c)'.res.kind = 400 /\ Srv(c)'.res.id = Up(c)[1].m.id
    BY <1>6, <1>12, <1>15, <2>1, <2>3
  <2>6. ASSUME NEW k \in KeepAlive \intersect Clients, client[k].sock = c, Asking(client[k])
        PROVE  FALSE
    <3>1. PICK down : Fits(k, client[k], buf, down, Srv(c), ServerAt(c))
      BY <1>6, <2>6, OwnerIs
    <3>2. \A i \in DOMAIN buf : buf[i].m = client[k].req
      BY <2>6, <3>1 DEF Fits, Speaks
    <3>3. /\ conn[c].at["client"] = "open"
          /\ client[k].req.close = FALSE
      <4>1. client[k].pc # "idle"
        BY <2>6 DEF Asking
      <4> QED
        BY <2>6, <4>1, OwnerIs, ClientReq, <1>3
    <3>4. MayPause(w)
      BY <1>5, <3>3 DEF AtEof, Gone, Other
    <3>5. \A i \in DOMAIN buf : buf[i].m.close
      BY <1>4, <3>4 DEF MayPause
    <3>6. buf[getline(buf)].m = client[k].req
      BY <2>1, <3>2
    <3> QED
      BY <2>1, <3>3, <3>5, <3>6
  <2> QED
    BY <1>1, <1>11, <1>12, <2>4, <2>5, <2>6, RejectTurn
<1> QED
  BY <1>8, <1>14, <1>15

(* What a worker writes is part of the answer it gives.                    *)
LEMMA DownIs ==
    ASSUME NEW c \in Conns, NEW old, old = conn[c].to["client"], old \in Seq(Tokens),
           NEW data \in Seq(Tokens), NEW m, \A i \in DOMAIN data : data[i].m = m, Given(m.id, m.kind),
           NEW new, new = old \o data
    PROVE  \A i \in DOMAIN new : Given(new[i].m.id, new[i].m.kind)
<1> SUFFICES ASSUME NEW i \in DOMAIN new PROVE Given(new[i].m.id, new[i].m.kind)
  OBVIOUS
<1>1. \/ i \in DOMAIN old /\ new[i] = old[i]
      \/ i - Len(old) \in DOMAIN data /\ new[i] = data[i - Len(old)]
  BY Joined
<1>2. CASE i \in DOMAIN old /\ new[i] = old[i]
  <2>1. \A j \in DOMAIN old : Given(old[j].m.id, old[j].m.kind)
    BY GivenDown
  <2> QED
    BY <1>2, <2>1
<1>3. CASE i - Len(old) \in DOMAIN data /\ new[i] = data[i - Len(old)]
  <2>1. new[i].m = m
    BY <1>3
  <2> QED
    BY <2>1
<1> QED
  BY <1>1, <1>2, <1>3

LEMMA SpeaksMore ==
    ASSUME NEW s, NEW up, NEW down \in Seq(Tokens), NEW v, Speaks(s, up, down, v),
           NEW data \in Seq(Tokens), \A i \in DOMAIN data : data[i].m.id = s.req.id,
           NEW u, u.pc \in {"head", "body"} => u.res.id = s.req.id, NEW more, more = down \o data
    PROVE  Speaks(s, up, more, u)
<1>1. \A i \in DOMAIN more : more[i].m.id = s.req.id
  <2>1. \A i \in DOMAIN more : \/ i \in DOMAIN down /\ more[i] = down[i]
                               \/ i - Len(down) \in DOMAIN data /\ more[i] = data[i - Len(down)]
    BY Joined
  <2>2. \A i \in DOMAIN down : down[i].m.id = s.req.id
    BY DEF Speaks
  <2> QED
    BY <2>1, <2>2
<1> QED
  BY <1>1 DEF Speaks

LEMMA WriteTurn ==
    ASSUME ToldInv, HttpInv', Shape', UNCHANGED <<client, ran>>, NEW c \in Conns, OnlyAt(c),
           NEW m \in Msgs, NEW data \in Seq(Tokens), \A i \in DOMAIN data : data[i].m = m,
           Given(m.id, m.kind), Wrote(c, "server", data), Up(c)' = Up(c),
           Srv(c).pc \in {"head", "body"}, Srv(c).res.id = m.id,
           NEW u, u = Srv(c)', u.pc \in {"body", "keep_alive", "close"}, u.pc = "body" => u.res = m,
           \A s, up, at : \A down \in Seq(Tokens) :
               InTurn(s, up, down, Srv(c), at) => InTurn(s, up, down \o data, u, at)
    PROVE  ToldInv'
<1>1. PICK old, new : old = conn[c].to["client"] /\ new = conn'[c].to["client"]
  OBVIOUS
<1>2. old \in Seq(Tokens) /\ ServerAt(c)' = ServerAt(c)
  BY <1>1, ServerTypes DEF ToldInv, Wrote, SameAt, ServerAt
<1>3. new = IF Gone(c, "client") THEN old ELSE old \o data
  BY <1>1 DEF Wrote, Other
<1>4. \A i \in DOMAIN new : Given(new[i].m.id, new[i].m.kind)
  <2>1. CASE Gone(c, "client")
    BY <1>1, <1>3, <2>1, GivenDown
  <2>2. CASE new = old \o data
    BY <1>1, <1>2, <2>2, DownIs
  <2> QED
    BY <1>3, <2>1, <2>2
<1>5. ASSUME NEW k \in Clients, client[k].sock = c
      PROVE  Fits(k, client[k], Up(c)', client[k].buf \o conn'[c].to["client"], Srv(c)',
                  ServerAt(c)')
  <2>1. PICK up, down, at, more : /\ up = Up(c) /\ down = client[k].buf \o old /\ at = ServerAt(c)
                                  /\ more = down \o data
    OBVIOUS
  <2>2. Fits(k, client[k], up, down, Srv(c), at) /\ ~Gone(c, "client") /\ client[k].buf \in Seq(Tokens)
    BY <1>1, <1>5, <2>1, OwnerIs DEF Gone
  <2>3. /\ Asking(client[k]) /\ Speaks(client[k], up, down, Srv(c))
        /\ k \in KeepAlive => InTurn(client[k], up, down, Srv(c), at)
    BY <2>2 DEF Fits
  <2>4. client[k].buf \o new = more
    <3>1. (client[k].buf \o old) \o data = client[k].buf \o (old \o data)
      BY <1>2, <2>2, JoinedThree
    <3> QED
      BY <1>3, <2>1, <2>2, <3>1
  <2>5. down \in Seq(Tokens)
    BY <1>2, <2>1, <2>2, Joined
  <2>6. m.id = client[k].req.id
    BY <2>3 DEF Speaks
  <2>7. Speaks(client[k], up, more, u)
    <3>1. \A i \in DOMAIN data : data[i].m.id = client[k].req.id
      BY <2>6
    <3>2. u.pc \in {"head", "body"} => u.res.id = client[k].req.id
      BY <2>6
    <3> QED
      BY <2>1, <2>3, <2>5, <3>1, <3>2, SpeaksMore
  <2>8. k \in KeepAlive => InTurn(client[k], up, more, u, at)
    BY <2>1, <2>3, <2>5
  <2>9. Fits(k, client[k], up, more, u, at)
    BY <2>3, <2>7, <2>8 DEF Fits
  <2> QED
    BY <1>1, <1>2, <2>1, <2>4, <2>9
<1>6. \A id, kind : Srv(c)'.pc \in {"head", "body"} /\ Srv(c)'.res.id = id /\ Srv(c)'.res.kind = kind =>
          \/ Given(id, kind)
          \/ /\ ran[id] = IF kind = 200 THEN 1 ELSE 0
             /\ IsSent(id)
             /\ \A d \in Conns : ~Starting(d, id)'
  OBVIOUS
<1>7. OneMessage(Up(c)') /\ IdsIn(Up(c)') \subseteq IdsIn(Up(c))
  BY DEF ToldInv
<1>8. Begins(Up(c)') => Begins(Up(c)) /\ Up(c)'[1].m = Up(c)[1].m
  OBVIOUS
<1>9. \A i \in DOMAIN conn'[c].to["client"] :
          Given(conn'[c].to["client"][i].m.id, conn'[c].to["client"][i].m.kind)
  BY <1>1, <1>4
<1> QED
  BY <1>5, <1>6, <1>7, <1>8, <1>9, ServerTurn

(* The head of an answer, and its body.                                    *)
LEMMA HeadInTurn ==
    ASSUME NEW m \in Msgs, NEW s, NEW up, NEW at, NEW down, NEW v, v.pc = "head",
           InTurn(s, up, down, v, at),
           NEW u, u.pc \in {"body", "keep_alive", "close"}, u.pc = "body" => u.res = m
    PROVE  InTurn(s, up, down \o HeadOf(m), u, at)
<1>1. up = <<>> /\ down = <<>>
  BY DEF InTurn
<1>2. PICK h : h = HeadOf(m)
  OBVIOUS
<1>3. h \in Seq(Tokens) /\ Len(h) = 2 /\ Begins(h) /\ h[1].m = m /\ OneMessage(h)
  BY <1>2, HeadIs
<1>4. InTurn(s, up, h, u, at)
  BY <1>1, <1>3 DEF InTurn
<1>5. down \o HeadOf(m) = h
  BY <1>1, <1>2, <1>3, JoinedNone
<1> QED
  BY <1>4, <1>5

LEMMA BodyInTurn ==
    ASSUME NEW m \in Msgs, NEW s, NEW up, NEW at, NEW down \in Seq(Tokens), NEW v, v.pc = "body",
           v.res = m, InTurn(s, up, down, v, at), NEW u, u.pc \in {"keep_alive", "close"}
    PROVE  InTurn(s, up, down \o BodyOf(m), u, at)
<1>1. up = <<>> /\ Len(down) = 2 /\ down[1].m = m /\ OneMessage(down) /\ Begins(down)
  <2>1. Len(down) = 2 => down # <<>>
    BY NoTokens
  <2> QED
    BY <2>1 DEF InTurn
<1>2. \A i \in DOMAIN down : down[i].m = m
  BY <1>1 DEF OneMessage
<1>3. PICK more : more = down \o BodyOf(m)
  OBVIOUS
<1>4. OneMessage(more) /\ (\A i \in DOMAIN more : more[i].m = m) /\ (Begins(more) <=> Begins(down))
      /\ more \in Seq(Tokens)
      /\ (down # <<>> => more[1] = down[1]) /\ Len(more) = Len(down) + m.len
  <2>1. Len(down) <= 2 /\ OneMessage(down) /\ WithBody(down, m, more)
    BY <1>1, <1>3 DEF WithBody
  <2> QED
    BY <1>2, <2>1, BodyFollows
<1>5. InTurn(s, up, more, u, at)
  BY <1>1, <1>4 DEF InTurn
<1> QED
  BY <1>3, <1>5

LEMMA BodyFields ==
    ASSUME HttpInv, NEW w \in Workers, NEW m,
           worker' = [worker EXCEPT ![w].res = m, ![w].pc = "body"]
    PROVE  /\ worker'[w].pc = "body" /\ worker'[w].res = m /\ worker'[w].buf = worker[w].buf
           /\ Works(w)
<1>1. IsWork(worker[w])
  BY DEF HttpInv, PoolOK
<1>2. worker'[w] = [worker[w] EXCEPT !.res = m, !.pc = "body"]
  BY DEF HttpInv, PoolOK
<1>3. worker' = [worker EXCEPT ![w].pc = "body", ![w].res = m]
  BY <1>1 DEF IsWork
<1> QED
  BY <1>1, <1>2, <1>3, AnswerWorks DEF IsWork

LEMMA WriteResponseHeadTold ==
    ASSUME ToldInv, HttpInv', UNCHANGED client, NEW w \in Workers, write_response_head(w)
    PROVE  ToldInv'
<1>1. worker[w].pc = "head" /\ Busy(w) /\ UNCHANGED <<listener, jobs, ran>>
  BY DEF write_response_head, WorkerAt, Busy, poolVars
<1>2. PICK c \in Conns : c = worker[w].sock /\ Srv(c) = worker[w] /\ ServerAt(c) = "open"
  BY <1>1, AtWork
<1>3. /\ HttpInv /\ Shape /\ SocketsOK /\ worker[w].buf \in Seq(Tokens) /\ IsWork(worker[w])
      /\ worker[w].res \in AnsMsgs /\ worker[w].res \in Msgs
  BY <1>1, AtWork DEF ServerOK
<1>4. PICK m : m = [worker[w].res EXCEPT !.close = @ \/ LastOne(w)]
  OBVIOUS
<1>5. /\ m \in AnsMsgs /\ m \in Msgs /\ m.id = worker[w].res.id /\ m.kind = worker[w].res.kind
      /\ m.len = worker[w].res.len
  BY <1>3, <1>4, LastAnswer DEF LastOne
<1>6. /\ \E ok \in BOOLEAN : Write(c, "server", HeadOf(m), ok)
      /\ IF m.len = 0 THEN NextRound(w)
         ELSE worker' = [worker EXCEPT ![w].res = m, ![w].pc = "body"]
  BY <1>2, <1>4 DEF write_response_head
<1>7. HeadOf(m) \in Seq(Tokens) /\ \A i \in DOMAIN HeadOf(m) : HeadOf(m)[i].m = m
  BY <1>5, HeadIs
<1>8. SocketsOK' /\ Wrote(c, "server", HeadOf(m))
  BY <1>3, <1>6, <1>7, WriteDoes DEF Ends
<1>9. PICK u : u = worker'[w]
  OBVIOUS
<1>10. /\ Works(w) /\ ServerOK(u) /\ u.pc \in {"body", "keep_alive", "close"}
       /\ u.pc = "body" => u.res = m
  <2>1. CASE m.len = 0
    <3>1. u.pc \in {"keep_alive", "close"} /\ u.buf = <<>> /\ Works(w)
      BY <1>3, <1>6, <1>9, <2>1, NextRoundFields, NextRoundWorks
    <3> QED
      BY <3>1, NoTokens DEF ServerOK
  <2>2. CASE m.len # 0
    <3>1. u.pc = "body" /\ u.res = m /\ u.buf = worker[w].buf /\ Works(w)
      BY <1>3, <1>6, <1>9, <2>2, BodyFields
    <3>2. m.len > 0
      BY <1>5, <2>2, MsgIs
    <3> QED
      BY <1>3, <1>5, <3>1, <3>2 DEF ServerOK
  <2> QED
    BY <2>1, <2>2
<1>11. \A d \in Conns : conn'[d].at = conn[d].at
  BY <1>8 DEF Wrote, OthersSame, SameAt
<1>12. /\ Shape' /\ Srv(c)' = worker'[w]
       /\ \A d \in Conns : d # c => Srv(d)' = Srv(d)
  BY <1>1, <1>2, <1>3, <1>8, <1>9, <1>10, <1>11, WorkStays
<1>13. OnlyAt(c)
  BY <1>8, <1>12 DEF OnlyAt, Wrote, OthersSame
<1>14. Up(c)' = Up(c)
  <2>1. Held(Srv(c)) = <<>> /\ Held(Srv(c)') = <<>>
    BY <1>1, <1>2, <1>9, <1>10, <1>12 DEF Held
  <2>2. conn'[c].to["server"] = conn[c].to["server"]
    BY <1>8 DEF Wrote
  <2> QED
    BY <2>1, <2>2 DEF Up
<1>15. Given(m.id, m.kind)
  BY <1>1, <1>2, <1>5 DEF Given
<1>16. \A s, up, at : \A down \in Seq(Tokens) :
         InTurn(s, up, down, Srv(c), at) => InTurn(s, up, down \o HeadOf(m), u, at)
  BY <1>1, <1>2, <1>5, <1>10, HeadInTurn
<1>17. Srv(c).pc \in {"head", "body"} /\ Srv(c).res.id = m.id /\ u = Srv(c)'
  BY <1>1, <1>2, <1>5, <1>9, <1>12
<1> QED
  BY <1>1, <1>5, <1>7, <1>8, <1>10, <1>12, <1>13, <1>14, <1>15, <1>16, <1>17, WriteTurn

LEMMA WriteResponseBodyTold ==
    ASSUME ToldInv, HttpInv', UNCHANGED client, NEW w \in Workers, write_response_body(w)
    PROVE  ToldInv'
<1>1. worker[w].pc = "body" /\ Busy(w) /\ UNCHANGED <<listener, jobs, ran>>
  BY DEF write_response_body, WorkerAt, Busy, poolVars
<1>2. PICK c \in Conns : c = worker[w].sock /\ Srv(c) = worker[w] /\ ServerAt(c) = "open"
  BY <1>1, AtWork
<1>3. PICK m : m = worker[w].res
  OBVIOUS
<1>4. /\ HttpInv /\ Shape /\ SocketsOK /\ worker[w].buf \in Seq(Tokens) /\ IsWork(worker[w])
      /\ m \in AnsMsgs /\ m \in Msgs
  BY <1>1, <1>3, AtWork DEF ServerOK
<1>5. /\ \E ok \in BOOLEAN : Write(c, "server", BodyOf(m), ok)
      /\ NextRound(w) \/ Step(w, "close")
  BY <1>2, <1>3 DEF write_response_body
<1>6. BodyOf(m) \in Seq(Tokens) /\ \A i \in DOMAIN BodyOf(m) : BodyOf(m)[i].m = m
  BY <1>4, BodyIs
<1>7. SocketsOK' /\ Wrote(c, "server", BodyOf(m))
  BY <1>4, <1>5, <1>6, WriteDoes DEF Ends
<1>8. PICK u : u = worker'[w]
  OBVIOUS
<1>9. Works(w) /\ ServerOK(u) /\ u.pc \in {"keep_alive", "close"}
  <2>1. CASE NextRound(w)
    <3>1. u.pc \in {"keep_alive", "close"} /\ u.buf = <<>> /\ Works(w)
      BY <1>4, <1>8, <2>1, NextRoundFields, NextRoundWorks
    <3> QED
      BY <3>1, NoTokens DEF ServerOK
  <2>2. CASE Step(w, "close")
    <3>1. u.pc = "close" /\ u.buf = worker[w].buf /\ Works(w)
      BY <1>4, <1>8, <2>2, StepFields, StepWorks
    <3> QED
      BY <1>4, <3>1 DEF ServerOK
  <2> QED
    BY <1>5, <2>1, <2>2
<1>10. \A d \in Conns : conn'[d].at = conn[d].at
  BY <1>7 DEF Wrote, OthersSame, SameAt
<1>11. /\ Shape' /\ Srv(c)' = worker'[w]
       /\ \A d \in Conns : d # c => Srv(d)' = Srv(d)
  BY <1>1, <1>2, <1>4, <1>7, <1>8, <1>9, <1>10, WorkStays
<1>12. OnlyAt(c)
  BY <1>7, <1>11 DEF OnlyAt, Wrote, OthersSame
<1>13. Up(c)' = Up(c)
  <2>1. Held(Srv(c)) = <<>> /\ Held(Srv(c)') = <<>>
    BY <1>1, <1>2, <1>8, <1>9, <1>11 DEF Held
  <2>2. conn'[c].to["server"] = conn[c].to["server"]
    BY <1>7 DEF Wrote
  <2> QED
    BY <2>1, <2>2 DEF Up
<1>14. Given(m.id, m.kind)
  BY <1>1, <1>2, <1>3 DEF Given
<1>15. \A s, up, at : \A down \in Seq(Tokens) :
         InTurn(s, up, down, Srv(c), at) => InTurn(s, up, down \o BodyOf(m), u, at)
  BY <1>1, <1>2, <1>3, <1>4, <1>9, BodyInTurn
<1>16. Srv(c).pc \in {"head", "body"} /\ Srv(c).res.id = m.id /\ u = Srv(c)'
  BY <1>1, <1>2, <1>3, <1>8, <1>11
<1>17. u.pc \in {"body", "keep_alive", "close"} /\ (u.pc = "body" => u.res = m)
  BY <1>9
<1> QED
  BY <1>1, <1>4, <1>6, <1>7, <1>11, <1>12, <1>13, <1>14, <1>15, <1>16, <1>17, WriteTurn

(* Servers that go, and their ends of the connections with them.           *)
LEMMA CalmLess ==
    ASSUME RunsOnce, AnswersTell, UNCHANGED <<ran, client>>,
           \A d \in Conns : IdsIn(Up(d))' \subseteq IdsIn(Up(d)),
           \A d \in Conns : \A id : Starting(d, id)' => Starting(d, id),
           \A id, kind : Given(id, kind)' => Given(id, kind)
    PROVE  RunsOnce' /\ AnswersTell'
<1>1. None \notin Conns
  BY HttpLinkAssumption
<1>2. \A id : IsSent(id) => IsSent(id)'
  BY SentStays
<1>3. ASSUME NEW k \in Clients, client'[k].pc = "body" PROVE BodyAhead(k)'
  <2>1. client[k].pc = "body" /\ client'[k] = client[k]
    BY <1>3
  <2>2. /\ ran'[<<k, client'[k].n>>] = 0
        /\ \A d \in Conns : d # client[k].sock => <<k, client'[k].n>> \notin IdsIn(Up(d))
    BY <2>1 DEF RunsOnce, BodyAhead
  <2> QED
    BY <2>1, <2>2 DEF BodyAhead
<1>4. Calmly(None, None)
  BY <1>1, <1>2, <1>3 DEF Calmly
<1> QED
  BY <1>4, Calm

LEMMA FitsClosed ==
    ASSUME NEW k, NEW s, NEW up, NEW down, NEW v, NEW at, Fits(k, s, up, down, v, at),
           NEW new, NEW rest, Parts(down, new, rest)
    PROVE  Fits(k, s, <<>>, new, NoWork, "closed")
<1>1. DOMAIN <<>> = {} /\ Len(<<>>) = 0 /\ NoWork.pc = "check"
  BY NoTokens DEF NoWork
<1>2. new \in Seq(Tokens) /\ (new # <<>> => down # <<>>)
  BY PartsOf
<1>3. \A i \in DOMAIN new : i \in DOMAIN down /\ down[i] = new[i]
  BY Joined DEF Parts
<1>4. CASE Asking(s)
  <2>1. Speaks(s, up, down, v) /\ (k \in KeepAlive => InTurn(s, up, down, v, at))
    BY <1>4 DEF Fits
  <2>2. Speaks(s, <<>>, new, NoWork)
    BY <1>1, <1>3, <2>1 DEF Speaks
  <2>3. ASSUME InTurn(s, up, down, v, at) PROVE InTurn(s, <<>>, new, NoWork, "closed")
    <3>1. OneMessage(down) /\ (down # <<>> => Begins(down))
      BY <2>3 DEF InTurn
    <3>2. /\ OneMessage(new) /\ OneMessage(rest)
          /\ new # <<>> => ~Begins(rest)
          /\ Begins(new) => Begins(down) /\ new[1] = down[1]
          /\ new # <<>> /\ Begins(down) => Begins(new) /\ new[1] = down[1]
          /\ IdsIn(new) \subseteq IdsIn(down) /\ IdsIn(rest) \subseteq IdsIn(down)
          /\ \A i \in DOMAIN new : new[i].m = down[1].m
          /\ \A i \in DOMAIN rest : rest[i].m = down[1].m
          /\ Len(down) = Len(new) + Len(rest)
      BY <3>1, CutMessage
    <3> QED
      BY <1>1, <1>2, <3>1, <3>2 DEF InTurn
  <2> QED
    BY <1>4, <2>1, <2>2, <2>3 DEF Fits
<1>5. CASE ~Asking(s)
  BY <1>1, <1>2, <1>5 DEF Fits
<1> QED
  BY <1>4, <1>5

LEMMA PartOfSent ==
    ASSUME NEW to \in Seq(Tokens), NEW n \in 0 .. Len(to), NEW new, new = SubSeq(to, 1, n)
    PROVE  \A i \in DOMAIN new : i \in DOMAIN to /\ new[i] = to[i]
<1>1. PICK rest : rest = SubSeq(to, n + 1, Len(to))
  OBVIOUS
<1>2. new \in Seq(Tokens) /\ rest \in Seq(Tokens) /\ to = new \o rest
  BY <1>1, Cut
<1> QED
  BY <1>2, Joined

LEMMA EndsClosed ==
    ASSUME ToldInv, HttpInv', Shape', UNCHANGED <<client, ran>>, NEW cs,
           \A d \in Conns : d \notin cs => conn'[d] = conn[d] /\ Srv(d)' = Srv(d),
           \A d \in Conns : d \in cs =>
               /\ ServerAt(d)' = "closed" /\ Srv(d)' = NoWork /\ conn'[d].to["server"] = <<>>
               /\ \E n \in 0 .. Len(conn[d].to["client"]) :
                     conn'[d].to["client"] = SubSeq(conn[d].to["client"], 1, n)
    PROVE  ToldInv'
<1>1. \A d \in Conns : d \in cs => Up(d)' = <<>>
  BY IdleServer, NoTokens, JoinedNone DEF Up
<1>2. \A d \in Conns : d \notin cs => Up(d)' = Up(d)
  BY UpElsewhere
<1>3. \A d \in Conns : OneMessage(Up(d))'
  BY <1>1, <1>2, EmptyMessage DEF ToldInv
<1>4. \A d \in Conns : IdsIn(Up(d))' \subseteq IdsIn(Up(d))
  BY <1>1, <1>2, NoTokens
<1>5. \A d \in Conns : \A id : Starting(d, id)' => Starting(d, id)
  BY <1>1, <1>2, EmptyMessage DEF Starting
<1>6. ASSUME NEW d \in Conns, NEW i \in DOMAIN conn'[d].to["client"]
      PROVE  i \in DOMAIN conn[d].to["client"] /\ conn'[d].to["client"][i] = conn[d].to["client"][i]
  <2>1. CASE d \in cs
    <3>1. PICK n \in 0 .. Len(conn[d].to["client"]) :
            conn'[d].to["client"] = SubSeq(conn[d].to["client"], 1, n)
      BY <2>1
    <3>2. conn[d].to["client"] \in Seq(Tokens)
      BY ServerTypes DEF ToldInv
    <3> QED
      BY <1>6, <3>1, <3>2, PartOfSent
  <2> QED
    BY <1>6, <2>1
<1>7. ASSUME NEW id, NEW kind, Given(id, kind)' PROVE Given(id, kind)
  <2>1. ASSUME NEW d \in Conns, Srv(d)'.pc \in {"head", "body"},
               Srv(d)'.res.id = id, Srv(d)'.res.kind = kind
        PROVE  Given(id, kind)
    <3>1. d \notin cs
      BY <2>1 DEF NoWork
    <3> QED
      BY <2>1, <3>1 DEF Given
  <2>2. ASSUME NEW d \in Conns, NEW i \in DOMAIN conn'[d].to["client"],
               conn'[d].to["client"][i].m.id = id, conn'[d].to["client"][i].m.kind = kind
        PROVE  Given(id, kind)
    BY <1>6, <2>2 DEF Given
  <2>3. CASE \/ \E k \in Clients : \E i \in DOMAIN client'[k].buf :
                    client'[k].buf[i].m.id = id /\ client'[k].buf[i].m.kind = kind
             \/ \E k \in Clients : /\ Returned(k)' /\ client'[k].err = "Success"
                                   /\ client'[k].res.id = id /\ client'[k].res.kind = kind
    BY <2>3 DEF Given, Returned, At
  <2> QED
    BY <1>7, <2>1, <2>2, <2>3 DEF Given
<1>8. RunsOnce' /\ AnswersTell'
  BY <1>4, <1>5, <1>7, CalmLess DEF ToldInv
<1>9. ASSUME NEW k \in Clients PROVE LinkOK(k)'
  <2>1. client'[k] = client[k] /\ client[k].sock \in Conns \union {None} /\ LinkOK(k)
    BY SocksTyped DEF ToldInv
  <2>2. CASE client[k].sock \notin cs
    <3>1. \A c \in Conns : client[k].sock = c => conn'[c] = conn[c] /\ Srv(c)' = Srv(c)
      BY <2>2
    <3> QED
      BY <2>1, <3>1, LinkElsewhere
  <2>3. CASE client[k].sock \in Conns /\ client[k].sock \in cs
    <3>1. PICK c \in Conns : c = client[k].sock
      BY <2>3
    <3>2. PICK buf, to, down, new :
            /\ buf = client[k].buf /\ to = conn[c].to["client"] /\ down = buf \o to
            /\ new = buf \o conn'[c].to["client"]
      OBVIOUS
    <3>3. PICK n \in 0 .. Len(to) : conn'[c].to["client"] = SubSeq(to, 1, n)
      BY <2>3, <3>1, <3>2
    <3>4. Fits(k, client[k], Up(c), down, Srv(c), ServerAt(c)) /\ buf \in Seq(Tokens) /\ to \in Seq(Tokens)
      BY <3>1, <3>2, OwnerIs, ServerTypes DEF ToldInv
    <3>5. \E rest : Parts(down, new, rest)
      <4>1. PICK rest : rest = SubSeq(to, n + 1, Len(to))
        OBVIOUS
      <4>2. Reads(buf, to, n, new, rest, down)
        BY <3>2, <3>3, <4>1 DEF Reads
      <4> QED
        BY <3>4, <4>2, Reading
    <3>6. Fits(k, client[k], <<>>, new, NoWork, "closed")
      BY <3>4, <3>5, FitsClosed
    <3>7. Up(c)' = <<>> /\ Srv(c)' = NoWork /\ ServerAt(c)' = "closed"
      BY <1>1, <2>3, <3>1
    <3>8. Down(k)' = new /\ client'[k].sock = c
      BY <2>1, <3>1, <3>2 DEF Down
    <3>9. Fits(k, client'[k], Up(c)', Down(k)', Srv(c)', ServerAt(c)')
      BY <2>1, <3>6, <3>7, <3>8
    <3> QED
      BY <3>8, <3>9 DEF LinkOK
  <2>4. CASE client[k].sock = None
    BY <2>1, <2>4 DEF LinkOK
  <2> QED
    BY <2>1, <2>2, <2>3, <2>4
<1>10. ResultsAreOwn'
  BY DEF ToldInv, ResultsAreOwn, Returned, At
<1> QED
  BY <1>3, <1>8, <1>9, <1>10 DEF ToldInv

LEMMA StillTold ==
    ASSUME ToldInv, HttpInv', Shape', UNCHANGED <<conn, client, ran>>,
           \A d \in Conns : Srv(d)' = Srv(d)
    PROVE  ToldInv'
<1> PICK cs : cs = {}
  OBVIOUS
<1>1. \A d \in Conns : d \notin cs => conn'[d] = conn[d] /\ Srv(d)' = Srv(d)
  OBVIOUS
<1>2. \A d \in Conns : d \in cs =>
          /\ ServerAt(d)' = "closed" /\ Srv(d)' = NoWork /\ conn'[d].to["server"] = <<>>
          /\ \E n \in 0 .. Len(conn[d].to["client"]) :
                conn'[d].to["client"] = SubSeq(conn[d].to["client"], 1, n)
  OBVIOUS
<1> QED
  BY <1>1, <1>2, EndsClosed

LEMMA SetEndsIn ==
    ASSUME HttpInv, OneServer
    PROVE  /\ \A i \in DOMAIN jobs : jobs[i] \in Conns
           /\ listener.pc = "enqueue" => listener.sock \in Conns
           /\ \A w \in Workers : Busy(w) => worker[w].sock \in Conns
<1>1. jobs \in Seq(Conns)
  BY DEF HttpInv, PoolOK
<1>2. \A i \in DOMAIN jobs : jobs[i] \in Conns
  BY <1>1, ElementOfSeq, LenProperties
<1> QED
  BY <1>2 DEF HttpInv, PoolOK, OneServer

(* Nobody serves a connection that is not open.                            *)
LEMMA NotServed ==
    ASSUME Shape, NEW c, ServerAt(c) # "open"
    PROVE  Srv(c) = NoWork
<1>1. \A w \in Workers : OnDuty(worker[w]) => worker[w].sock # c
  BY OnDutyIsBusy DEF Shape, OneServer
<1> QED
  BY <1>1, NoServer DEF Srv

LEMMA CloseSocketTold ==
    ASSUME ToldInv, HttpInv', UNCHANGED client, NEW w \in Workers, close_socket(w)
    PROVE  ToldInv'
<1>1. worker[w].pc = "close" /\ Busy(w) /\ UNCHANGED <<listener, jobs, ran>>
  BY DEF close_socket, WorkerAt, Busy, poolVars
<1>2. PICK c \in Conns : c = worker[w].sock /\ Srv(c) = worker[w] /\ ServerAt(c) = "open"
  BY <1>1, AtWork
<1>3. HttpInv /\ Shape /\ SocketsOK /\ OneServer
  BY <1>1, AtWork DEF Shape
<1>4. Close(c, "server") /\ worker' = [worker EXCEPT ![w] = NoWork]
  BY <1>2 DEF close_socket
<1>5. SocketsOK' /\ ClosedEnd(c, "server")
  BY <1>3, <1>4, CloseDoes DEF Ends
<1>6. /\ \A d \in Conns : d # c => conn'[d] = conn[d]
      /\ ServerAt(c)' = "closed" /\ conn'[c].to["server"] = <<>>
      /\ conn'[c].at["client"] = conn[c].at["client"]
      /\ \E n \in 0 .. Len(conn[c].to["client"]) :
            conn'[c].to["client"] = SubSeq(conn[c].to["client"], 1, n)
  BY <1>5 DEF ClosedEnd, OthersSame, Other, ServerAt
<1>7. worker'[w] = NoWork /\ \A u \in Workers : u # w => worker'[u] = worker[u]
  BY <1>3, <1>4 DEF HttpInv, PoolOK
<1>8. ~OnDuty(worker'[w]) /\ OnDuty(worker[w])
  BY <1>1, <1>7, IdleServer DEF OnDuty
<1>9. \A u \in Workers : Busy(u)' => u # w /\ Busy(u) /\ worker[u].sock # c
  BY <1>1, <1>2, <1>3, <1>7, <1>8 DEF Busy, OnDuty, OneServer
<1>10. OneServer'
  <2>1. \A d \in Conns : d # c => ServerAt(d)' = ServerAt(d)
    BY <1>6 DEF ServerAt
  <2>2. /\ \A i \in DOMAIN jobs : jobs[i] \in Conns /\ jobs[i] # c
        /\ listener.pc = "enqueue" => listener.sock \in Conns /\ listener.sock # c
    BY <1>1, <1>2, <1>3, SetEndsIn DEF OneServer
  <2>3. ASSUME NEW u \in Workers, Busy(u)'
        PROVE  worker'[u].sock \in Conns /\ ServerAt(worker[u].sock)' = "open"
               /\ worker'[u].sock = worker[u].sock
    BY <1>3, <1>7, <1>9, <2>1, <2>3 DEF OneServer
  <2>4. \A i \in DOMAIN jobs' :
          /\ ServerAt(jobs[i])' = "open"
          /\ \A j \in DOMAIN jobs' : jobs'[i] = jobs'[j] => i = j
          /\ \A u \in Workers : Busy(u)' => worker'[u].sock # jobs'[i]
    BY <1>1, <1>3, <1>7, <1>9, <2>1, <2>2 DEF OneServer
  <2>5. listener'.pc = "enqueue" =>
          /\ ServerAt(listener.sock)' = "open"
          /\ \A i \in DOMAIN jobs' : jobs'[i] # listener'.sock
          /\ \A u \in Workers : Busy(u)' => worker'[u].sock # listener'.sock
    BY <1>1, <1>3, <1>7, <1>9, <2>1, <2>2 DEF OneServer
  <2>6. \A u, v \in Workers : Busy(u)' /\ Busy(v)' /\ worker'[u].sock = worker'[v].sock => u = v
    BY <1>3, <1>7, <1>9 DEF OneServer
  <2> QED
    BY <1>1, <2>3, <2>4, <2>5, <2>6 DEF OneServer, ServerAt
<1>11. Shape'
  <2>1. \A u \in Workers : ServerOK(worker'[u])
    BY <1>3, <1>7, IdleServer DEF Shape
  <2>2. \A d \in Conns : conn'[d].at["client"] = conn[d].at["client"]
    BY <1>6
  <2> QED
    BY <1>3, <1>5, <1>10, <2>1, <2>2, ClientsStay DEF Shape
<1>12. (\A d : d # c => ServerOf(worker', d) = ServerOf(worker, d)) /\ ServerOf(worker', c) = NoWork
  <2>1. OnePerSocket(worker)
    BY <1>3, ServerTypes
  <2>2. OnePerSocket(worker')
    BY <1>7, <1>8, <2>1 DEF OnePerSocket
  <2>3. \A u \in Workers : u # w => worker'[u] = worker[u]
    BY <1>7
  <2> QED
    BY <1>2, <1>8, <2>1, <2>2, <2>3, ServerChanges
<1>13. \A d \in Conns : d \notin {c} => conn'[d] = conn[d] /\ Srv(d)' = Srv(d)
  BY <1>6, <1>12 DEF Srv
<1>14. \A d \in Conns : d \in {c} =>
          /\ ServerAt(d)' = "closed" /\ Srv(d)' = NoWork /\ conn'[d].to["server"] = <<>>
          /\ \E n \in 0 .. Len(conn[d].to["client"]) :
                conn'[d].to["client"] = SubSeq(conn[d].to["client"], 1, n)
  BY <1>6, <1>12 DEF Srv
<1> QED
  BY <1>1, <1>11, <1>13, <1>14, EndsClosed

(* The connection at the head of the queue goes to w.                      *)
TakesHead(v) == jobs # <<>> /\ jobs' = Tail(jobs) /\ v.sock = Head(jobs)

LEMMA TakesJob ==
    ASSUME ToldInv, HttpInv', UNCHANGED <<client, listener, ran, conn>>, NEW w \in Workers,
           worker[w].pc = "check", NEW v, TakesHead(v),
           worker'[w] = v, \A u \in Workers : u # w => worker'[u] = worker[u],
           v.pc = "keep_alive", v.buf = <<>>
    PROVE  ToldInv'
<1>1. HttpInv /\ Shape /\ SocketsOK /\ OneServer
  BY DEF ToldInv, Shape
<1>2. /\ jobs \in Seq(Conns) /\ Len(jobs) \in Nat /\ DOMAIN jobs = 1 .. Len(jobs) /\ Len(jobs) # 0
      /\ Tail(jobs) \in Seq(Conns) /\ Len(Tail(jobs)) = Len(jobs) - 1
      /\ \A i \in 1 .. Len(Tail(jobs)) : Tail(jobs)[i] = jobs[i + 1]
      /\ Head(jobs) = jobs[1]
  BY <1>1, HeadTailProperties, LenProperties, EmptySeq DEF HttpInv, PoolOK, TakesHead
<1>3. /\ DOMAIN jobs' = 1 .. Len(jobs) - 1
      /\ \A i \in DOMAIN jobs' : i + 1 \in DOMAIN jobs /\ i + 1 # 1 /\ jobs'[i] = jobs[i + 1]
  BY <1>2, LenProperties DEF TakesHead
<1>4. PICK c \in Conns : c = jobs[1] /\ v.sock = c /\ 1 \in DOMAIN jobs
  BY <1>1, <1>2, SetEndsIn DEF TakesHead
<1>5. /\ worker'[w] = v /\ ~Busy(w) /\ ~OnDuty(worker[w]) /\ OnDuty(v)
      /\ \A u \in Workers : u # w => worker'[u] = worker[u]
  BY <1>1 DEF HttpInv, PoolOK, Busy, OnDuty
<1>6. /\ ServerAt(c) = "open"
      /\ \A u \in Workers : Busy(u) => worker[u].sock # c
      /\ listener.pc = "enqueue" => listener.sock # c
      /\ \A i \in DOMAIN jobs : i # 1 => jobs[i] # c
  BY <1>1, <1>4 DEF OneServer
<1>7. \A u \in Workers : Busy(u)' => u = w \/ Busy(u)
  BY <1>5 DEF Busy
<1>8. OneServer'
  <2>1. \A u \in Workers : Busy(u)' => worker'[u].sock \in Conns /\ conn[worker'[u].sock].at["server"] = "open"
    BY <1>1, <1>4, <1>5, <1>6, <1>7 DEF OneServer, ServerAt
  <2>2. \A u, x \in Workers : Busy(u)' /\ Busy(x)' /\ worker'[u].sock = worker'[x].sock => u = x
    BY <1>1, <1>4, <1>5, <1>6, <1>7 DEF OneServer
  <2>3. ASSUME NEW i \in DOMAIN jobs'
        PROVE  /\ conn[jobs'[i]].at["server"] = "open"
               /\ \A j \in DOMAIN jobs' : jobs'[i] = jobs'[j] => i = j
               /\ \A u \in Workers : Busy(u)' => worker'[u].sock # jobs'[i]
    <3>1. conn[jobs'[i]].at["server"] = "open"
      BY <1>1, <1>3 DEF OneServer, ServerAt
    <3>2. ASSUME NEW j \in DOMAIN jobs', jobs'[i] = jobs'[j] PROVE i = j
      <4>1. i + 1 = j + 1
        BY <1>1, <1>3, <3>2 DEF OneServer
      <4> QED
        BY <1>2, <1>3, <4>1
    <3>3. \A u \in Workers : Busy(u)' => worker'[u].sock # jobs'[i]
      BY <1>1, <1>3, <1>4, <1>5, <1>6, <1>7 DEF OneServer
    <3> QED
      BY <3>1, <3>2, <3>3
  <2>4. listener.pc = "enqueue" =>
          /\ conn[listener.sock].at["server"] = "open"
          /\ \A i \in DOMAIN jobs' : jobs'[i] # listener.sock
          /\ \A u \in Workers : Busy(u)' => worker'[u].sock # listener.sock
    BY <1>1, <1>3, <1>4, <1>5, <1>6, <1>7 DEF OneServer, ServerAt
  <2> QED
    BY <2>1, <2>2, <2>3, <2>4 DEF OneServer, ServerAt
<1>9. ServerOK(v)
  BY NoTokens DEF ServerOK
<1>10. Shape'
  <2>1. \A u \in Workers : ServerOK(worker'[u])
    BY <1>1, <1>5, <1>9 DEF Shape
  <2> QED
    BY <1>1, <1>8, <2>1, ClientsStay, ConnStays DEF Shape
<1>11. (\A d : d # c => ServerOf(worker', d) = ServerOf(worker, d)) /\ ServerOf(worker', c) = v
  <2>1. OnePerSocket(worker)
    BY <1>1, ServerTypes
  <2>2. \A u \in Workers : OnDuty(worker[u]) => worker[u].sock # c
    BY <1>6, OnDutyIsBusy
  <2>3. OnePerSocket(worker')
    BY <1>4, <1>5, <2>1, <2>2 DEF OnePerSocket
  <2> QED
    <3>1. ~OnDuty(worker[w]) /\ OnDuty(worker'[w]) /\ worker'[w].sock = c
      BY <1>4, <1>5
    <3>2. \A u \in Workers : u # w => worker'[u] = worker[u]
      BY <1>5
    <3>3. \A d : d # c => ServerOf(worker', d) = ServerOf(worker, d)
      BY <2>1, <2>3, <3>1, <3>2, ServerChanges, SMTT(90)
    <3>4. ServerOf(worker', c) = worker'[w]
      BY <2>3, <3>1, ServerIs
    <3> QED
      BY <1>5, <3>3, <3>4
<1>12. Srv(c) = NoWork
  BY <1>6, OnDutyIsBusy, NoServer DEF Srv
<1>13. OnlyAt(c) /\ Srv(c)' = v
  BY <1>11 DEF OnlyAt, Srv
<1>14. Up(c)' = Up(c)
  <2>1. Held(Srv(c)) = <<>> /\ Held(Srv(c)') = <<>>
    BY <1>12, <1>13, IdleServer DEF Held
  <2> QED
    BY <2>1 DEF Up
<1>15. Srv(c)'.pc \notin {"head", "body", "dispatch"} /\ ServerAt(c)' = ServerAt(c)
  BY <1>13 DEF ServerAt
<1> QED
  BY <1>10, <1>13, <1>14, <1>15, QuietTurn

LEMMA NextJobTold ==
    ASSUME ToldInv, HttpInv', UNCHANGED client, NEW w \in Workers, next_job(w)
    PROVE  ToldInv'
<1>1. worker[w].pc = "check" /\ UNCHANGED <<listener, ran, conn>>
  BY DEF next_job, WorkerAt
<1>2. HttpInv /\ Shape /\ OneServer /\ SocketsOK
  BY DEF ToldInv, Shape
<1>3. CASE /\ jobs # <<>> /\ jobs' = Tail(jobs)
           /\ worker' = [worker EXCEPT ![w] = [NoWork EXCEPT
                  !.pc = "keep_alive", !.sock = Head(jobs), !.left = KeepAliveMax]]
  <2>1. PICK v : v = [NoWork EXCEPT !.pc = "keep_alive", !.sock = Head(jobs), !.left = KeepAliveMax]
    OBVIOUS
  <2>2. v.pc = "keep_alive" /\ v.buf = <<>> /\ TakesHead(v)
    BY <1>3, <2>1 DEF NoWork, TakesHead
  <2>3. worker'[w] = v /\ \A u \in Workers : u # w => worker'[u] = worker[u]
    BY <1>2, <1>3, <2>1 DEF HttpInv, PoolOK
  <2> QED
    BY <1>1, <1>3, <2>2, <2>3, TakesJob
<1>4. CASE Step(w, "gone") /\ UNCHANGED jobs
  <2>1. /\ worker'[w].pc = "gone" /\ worker'[w].buf = worker[w].buf
        /\ \A u \in Workers : u # w => worker'[u] = worker[u]
    BY <1>2, <1>4, StepFields DEF Step, HttpInv, PoolOK
  <2>2. ~Busy(w) /\ ~Busy(w)' /\ \A u \in Workers : u # w => (Busy(u)' <=> Busy(u))
    BY <1>1, <2>1 DEF Busy
  <2>3. \A u \in Workers : Busy(u)' => u # w /\ Busy(u) /\ worker'[u] = worker[u]
    BY <2>1, <2>2
  <2>4. OneServer'
    BY <1>1, <1>2, <1>4, <2>3 DEF OneServer, ServerAt
  <2>5. Shape'
    <3>1. \A u \in Workers : ServerOK(worker'[u])
      BY <1>2, <2>1 DEF Shape, ServerOK
    <3> QED
      BY <1>1, <1>2, <2>4, <3>1, ClientsStay, ConnStays DEF Shape
  <2>6. \A d \in Conns : Srv(d)' = Srv(d)
    <3>1. OnePerSocket(worker)
      BY <1>2, ServerTypes
    <3>2. ~OnDuty(worker[w]) /\ ~OnDuty(worker'[w])
      BY <1>1, <2>1 DEF OnDuty
    <3>3. OnePerSocket(worker')
      BY <2>1, <3>1, <3>2 DEF OnePerSocket
    <3>4. \A d : d # None => ServerOf(worker', d) = ServerOf(worker, d)
      BY <2>1, <3>1, <3>2, <3>3, ServerChanges
    <3> QED
      BY <3>4, HttpLinkAssumption DEF Srv
  <2> QED
    BY <1>1, <2>5, <2>6, StillTold
<1>5. CASE UNCHANGED <<jobs, worker>>
  <2>1. Shape'
    BY <1>1, <1>2, <1>5, ClientsStay, ConnStays DEF Shape, OneServer, ServerAt, Busy
  <2>2. \A d \in Conns : Srv(d)' = Srv(d)
    BY <1>5 DEF Srv
  <2> QED
    BY <1>1, <2>1, <2>2, StillTold
<1> QED
  BY <1>3, <1>4, <1>5 DEF next_job

(* The listener takes a connection and hands it on.                        *)
LEMMA AcceptTold ==
    ASSUME ToldInv, HttpInv', UNCHANGED client, NEW c \in Conns, accept(c)
    PROVE  ToldInv'
<1>1. /\ listener.pc = "accept" /\ Accept(c) /\ listener'.pc = "enqueue" /\ listener'.sock = c
      /\ UNCHANGED <<jobs, worker, ran>>
  BY DEF accept, poolVars
<1>2. HttpInv /\ Shape /\ OneServer /\ SocketsOK
  BY DEF ToldInv, Shape
<1>3. /\ SocketsOK' /\ OthersSame(c) /\ SameTo(c)
      /\ conn[c].at["server"] = "backlog" /\ conn'[c].at["server"] = "open"
      /\ conn'[c].at["client"] = conn[c].at["client"]
  BY <1>1, <1>2, AcceptDoes
<1>4. /\ ServerAt(c) = "backlog" /\ ServerAt(c)' = "open"
      /\ \A d \in Conns : d # c => conn'[d] = conn[d] /\ ServerAt(d)' = ServerAt(d)
  BY <1>3 DEF ServerAt, OthersSame
<1>5. OneServer'
  <2>1. \A w \in Workers : Busy(w) => worker[w].sock \in Conns /\ worker[w].sock # c
    BY <1>2, <1>4 DEF OneServer
  <2>2. \A i \in DOMAIN jobs : jobs[i] \in Conns /\ jobs[i] # c
    BY <1>2, <1>4, SetEndsIn DEF OneServer
  <2>3. \A w \in Workers : Busy(w)' <=> Busy(w)
    BY <1>1 DEF Busy
  <2>4. \A w \in Workers : Busy(w) => conn'[worker[w].sock].at["server"] = "open"
    BY <1>2, <1>4, <2>1 DEF OneServer, ServerAt
  <2>5. \A i \in DOMAIN jobs : conn'[jobs[i]].at["server"] = "open"
    BY <1>2, <1>4, <2>2 DEF OneServer, ServerAt
  <2> QED
    BY <1>1, <1>2, <1>3, <2>1, <2>2, <2>3, <2>4, <2>5 DEF OneServer, ServerAt
<1>6. Shape'
  <2>1. \A d \in Conns : conn'[d].at["client"] = conn[d].at["client"]
    BY <1>3, <1>4
  <2>2. \A w \in Workers : ServerOK(worker'[w])
    BY <1>1, <1>2 DEF Shape
  <2> QED
    BY <1>2, <1>3, <1>5, <2>1, <2>2, ClientsStay DEF Shape
<1>7. \A d \in Conns : Srv(d)' = Srv(d)
  BY <1>1 DEF Srv
<1>8. OnlyAt(c)
  BY <1>4, <1>7 DEF OnlyAt
<1>9. Up(c)' = Up(c) /\ conn'[c].to["client"] = conn[c].to["client"]
  BY <1>3, <1>7 DEF Up, SameTo
<1>10. Srv(c)'.pc \notin {"head", "body", "dispatch"}
  BY <1>2, <1>4, <1>7, NotServed DEF NoWork
<1> QED
  BY <1>1, <1>4, <1>6, <1>8, <1>9, <1>10, QuietTurn

LEMMA EnqueueTold ==
    ASSUME ToldInv, HttpInv', UNCHANGED client, enqueue
    PROVE  ToldInv'
<1>1. /\ listener.pc = "enqueue" /\ listener'.pc = "notify" /\ jobs' = Append(jobs, listener.sock)
      /\ UNCHANGED <<worker, ran, conn>>
  BY DEF enqueue
<1>2. HttpInv /\ Shape /\ OneServer /\ SocketsOK
  BY DEF ToldInv, Shape
<1>3. PICK c \in Conns : c = listener.sock
  BY <1>1, <1>2, SetEndsIn
<1>4. /\ jobs \in Seq(Conns) /\ Len(jobs) \in Nat /\ DOMAIN jobs = 1 .. Len(jobs)
      /\ DOMAIN jobs' = 1 .. Len(jobs) + 1
      /\ \A i \in DOMAIN jobs : jobs'[i] = jobs[i]
      /\ jobs'[Len(jobs) + 1] = c
  BY <1>1, <1>2, <1>3, AppendProperties, LenProperties DEF HttpInv, PoolOK
<1>5. \A i \in DOMAIN jobs' : \/ i \in DOMAIN jobs /\ jobs'[i] = jobs[i]
                              \/ i = Len(jobs) + 1 /\ jobs'[i] = c
  BY <1>4
<1>6. /\ ServerAt(c) = "open"
      /\ \A i \in DOMAIN jobs : jobs[i] # c
      /\ \A w \in Workers : Busy(w) => worker[w].sock # c
  BY <1>1, <1>2, <1>3 DEF OneServer
<1>7. OneServer'
  <2>1. ASSUME NEW i \in DOMAIN jobs'
        PROVE  /\ conn[jobs'[i]].at["server"] = "open"
               /\ \A j \in DOMAIN jobs' : jobs'[i] = jobs'[j] => i = j
               /\ \A w \in Workers : Busy(w) => worker[w].sock # jobs'[i]
    <3>1. CASE i \in DOMAIN jobs /\ jobs'[i] = jobs[i]
      BY <1>2, <1>5, <1>6, <3>1 DEF OneServer, ServerAt
    <3>2. CASE i = Len(jobs) + 1 /\ jobs'[i] = c
      BY <1>5, <1>6, <3>2 DEF ServerAt
    <3> QED
      BY <1>5, <3>1, <3>2
  <2>2. \A w \in Workers : Busy(w)' <=> Busy(w)
    BY <1>1 DEF Busy
  <2> QED
    BY <1>1, <1>2, <2>1, <2>2 DEF OneServer, ServerAt
<1>8. Shape'
  <2>1. \A w \in Workers : ServerOK(worker'[w])
    BY <1>1, <1>2 DEF Shape
  <2> QED
    BY <1>1, <1>2, <1>7, <2>1, ClientsStay, ConnStays DEF Shape
<1>9. \A d \in Conns : Srv(d)' = Srv(d)
  BY <1>1 DEF Srv
<1> QED
  BY <1>1, <1>8, <1>9, StillTold

LEMMA ListenerTold ==
    ASSUME ToldInv, HttpInv', UNCHANGED <<client, worker, jobs, ran, conn>>,
           listener'.pc # "enqueue" \/ listener' = listener
    PROVE  ToldInv'
<1>1. HttpInv /\ Shape /\ OneServer /\ SocketsOK
  BY DEF ToldInv, Shape
<1>2. OneServer'
  BY <1>1 DEF OneServer, ServerAt, Busy
<1>3. \A w \in Workers : ServerOK(worker'[w])
  BY <1>1 DEF Shape
<1>4. Shape'
  BY <1>1, <1>2, <1>3, ClientsStay, ConnStays DEF Shape
<1>5. \A d \in Conns : Srv(d)' = Srv(d)
  BY DEF Srv
<1> QED
  BY <1>4, <1>5, StillTold

(* Sockets that are closed together.                                       *)
LEMMA AcceptFailsTold ==
    ASSUME ToldInv, HttpInv', UNCHANGED client, accept_fails
    PROVE  ToldInv'
<1>1. PICK cs : cs = {c \in Conns : conn[c].at["server"] = "backlog"}
  OBVIOUS
<1>2. CloseAll(cs, "server") /\ UNCHANGED <<jobs, worker, ran>>
  BY <1>1 DEF accept_fails, poolVars
<1>3. HttpInv /\ Shape /\ OneServer /\ SocketsOK
  BY DEF ToldInv, Shape
<1>4. listener'.pc = "shutdown"
  BY <1>3 DEF accept_fails, HttpInv, PoolOK
<1>5. /\ SocketsOK'
      /\ \A d \in Conns :
            /\ d \notin cs => conn'[d] = conn[d]
            /\ d \in cs =>
                  /\ conn'[d].at["server"] = "closed"
                  /\ conn'[d].at["client"] = conn[d].at["client"]
                  /\ conn'[d].to["server"] = <<>>
                  /\ \E n \in 0 .. Len(conn[d].to["client"]) :
                        conn'[d].to["client"] = SubSeq(conn[d].to["client"], 1, n)
  BY <1>2, <1>3, CloseAllDoes DEF Ends, Other
<1>6. OneServer'
  <2>1. \A d \in Conns : ServerAt(d) = "open" => d \notin cs /\ conn'[d] = conn[d]
    BY <1>1, <1>5 DEF ServerAt
  <2>2. \A w \in Workers : Busy(w)' <=> Busy(w)
    BY <1>2 DEF Busy
  <2>3. \A w \in Workers : Busy(w) => conn'[worker[w].sock] = conn[worker[w].sock]
    BY <1>3, <2>1 DEF OneServer
  <2>4. \A i \in DOMAIN jobs : conn'[jobs[i]] = conn[jobs[i]]
    BY <1>3, <2>1, SetEndsIn DEF OneServer
  <2> QED
    BY <1>2, <1>3, <1>4, <2>2, <2>3, <2>4 DEF OneServer, ServerAt
<1>7. Shape'
  <2>1. \A d \in Conns : conn'[d].at["client"] = conn[d].at["client"]
    BY <1>5
  <2>2. \A w \in Workers : ServerOK(worker'[w])
    BY <1>2, <1>3 DEF Shape
  <2> QED
    BY <1>3, <1>5, <1>6, <2>1, <2>2, ClientsStay DEF Shape
<1>8. \A d \in Conns : Srv(d)' = Srv(d)
  BY <1>2 DEF Srv
<1>9. \A d \in Conns : d \in cs => Srv(d)' = NoWork
  BY <1>1, <1>3, <1>8, NotServed DEF ServerAt
<1>10. \A d \in Conns : d \notin cs => conn'[d] = conn[d] /\ Srv(d)' = Srv(d)
  BY <1>5, <1>8
<1>11. \A d \in Conns : d \in cs =>
          /\ ServerAt(d)' = "closed" /\ Srv(d)' = NoWork /\ conn'[d].to["server"] = <<>>
          /\ \E n \in 0 .. Len(conn[d].to["client"]) :
                conn'[d].to["client"] = SubSeq(conn[d].to["client"], 1, n)
  BY <1>5, <1>9 DEF ServerAt
<1> QED
  BY <1>2, <1>7, <1>10, <1>11, EndsClosed

LEMMA KillTold ==
    ASSUME ToldInv, HttpInv', UNCHANGED client, kill
    PROVE  ToldInv'
<1>1. PICK cs : cs = {c \in Conns : ~Gone(c, "server")}
  OBVIOUS
<1>2. /\ CloseAll(cs, "server") /\ jobs' = <<>> /\ listener'.pc = "killed" /\ UNCHANGED ran
      /\ \A w \in Workers : worker'[w] = [NoWork EXCEPT !.pc = "gone"]
  BY <1>1 DEF kill
<1>3. HttpInv /\ Shape /\ OneServer /\ SocketsOK
  BY DEF ToldInv, Shape
<1>4. /\ SocketsOK'
      /\ \A d \in Conns :
            /\ d \notin cs => conn'[d] = conn[d]
            /\ d \in cs =>
                  /\ conn'[d].at["server"] = "closed"
                  /\ conn'[d].at["client"] = conn[d].at["client"]
                  /\ conn'[d].to["server"] = <<>>
                  /\ \E n \in 0 .. Len(conn[d].to["client"]) :
                        conn'[d].to["client"] = SubSeq(conn[d].to["client"], 1, n)
  BY <1>2, <1>3, CloseAllDoes DEF Ends, Other
<1>5. \A w \in Workers : worker'[w].pc = "gone" /\ worker'[w].buf = <<>>
  BY <1>2 DEF NoWork
<1>6. OneServer'
  <2>1. DOMAIN jobs' = {}
    BY <1>2, EmptySeq, LenProperties
  <2> QED
    BY <1>2, <1>5, <2>1 DEF OneServer, Busy
<1>7. Shape'
  <2>1. \A d \in Conns : conn'[d].at["client"] = conn[d].at["client"]
    BY <1>4
  <2>2. \A w \in Workers : ServerOK(worker'[w])
    BY <1>5, NoTokens DEF ServerOK
  <2> QED
    BY <1>3, <1>4, <1>6, <2>1, <2>2, ClientsStay DEF Shape
<1>8. \A d : Srv(d)' = NoWork
  <2>1. \A w \in Workers : ~OnDuty(worker'[w])
    BY <1>5 DEF OnDuty
  <2> QED
    BY <2>1, NoServer DEF Srv
<1>9. \A d \in Conns : d \notin cs => conn'[d] = conn[d] /\ Srv(d)' = Srv(d)
  <2>1. \A d \in Conns : d \notin cs => ServerAt(d) # "open"
    BY <1>1 DEF Gone, ServerAt
  <2> QED
    BY <1>3, <1>4, <1>8, <2>1, NotServed
<1>10. \A d \in Conns : d \in cs =>
          /\ ServerAt(d)' = "closed" /\ Srv(d)' = NoWork /\ conn'[d].to["server"] = <<>>
          /\ \E n \in 0 .. Len(conn[d].to["client"]) :
                conn'[d].to["client"] = SubSeq(conn[d].to["client"], 1, n)
  BY <1>4, <1>8 DEF ServerAt
<1> QED
  BY <1>2, <1>7, <1>9, <1>10, EndsClosed

(* The handler runs.                                                       *)
LEMMA SentCounted ==
    ASSUME Shape, NEW id, IsSent(id)
    PROVE  id \in ServerCalls
<1>0. PICK k \in Clients : \E j \in 1 .. client[k].n : id = <<k, j>>
  BY DEF IsSent
<1>1. PICK j \in 1 .. client[k].n : id = <<k, j>>
  BY <1>0
<1>2. client[k].n <= MaxCalls[k] /\ client[k].n \in Nat /\ MaxCalls[k] \in Nat
  BY HttpClientAssumption DEF Shape, ClientOK, ClientRec
<1>3. j \in 1 .. MaxCalls[k]
  BY <1>2
<1> QED
  BY <1>1, <1>3, HttpLinkAssumption

LEMMA WholeRequest ==
    ASSUME NEW buf, NEW to, NEW up, Parts(up, buf, to), OneMessage(up), Whole(buf)
    PROVE  /\ to = <<>> /\ Begins(up) /\ up[1] = buf[1] /\ up[1].m \in Msgs
           /\ Len(up) = 2 + up[1].m.len
<1>1. /\ up \in Seq(Tokens) /\ buf \in Seq(Tokens) /\ to \in Seq(Tokens)
      /\ Len(up) = Len(buf) + Len(to)
      /\ Len(up) \in Nat /\ Len(buf) \in Nat /\ Len(to) \in Nat
  BY PartsOf
<1>2. Begins(buf) /\ Len(buf) >= 2 + buf[1].m.len
  BY DEF Whole
<1>3. Begins(up) /\ buf[1] = up[1]
  <2>1. /\ OneMessage(buf) /\ OneMessage(to)
        /\ buf # <<>> => ~Begins(to)
        /\ Begins(buf) => Begins(up) /\ buf[1] = up[1]
        /\ buf # <<>> /\ Begins(up) => Begins(buf) /\ buf[1] = up[1]
        /\ IdsIn(buf) \subseteq IdsIn(up) /\ IdsIn(to) \subseteq IdsIn(up)
        /\ \A i \in DOMAIN buf : buf[i].m = up[1].m
        /\ \A i \in DOMAIN to : to[i].m = up[1].m
        /\ Len(up) = Len(buf) + Len(to)
    BY CutMessage
  <2> QED
    BY <1>2, <2>1
<1>4. up[1].m \in Msgs /\ up[1].m.len \in Nat
  <2>1. 1 \in DOMAIN up
    BY <1>3 DEF Begins
  <2> QED
    BY <1>1, <2>1, TokenAt, MsgIs
<1>5. Len(up) <= 2 + up[1].m.len
  BY <1>3 DEF OneMessage
<1>6. Len(to) = 0 /\ Len(up) = 2 + up[1].m.len
  BY <1>1, <1>2, <1>3, <1>4, <1>5
<1> QED
  BY <1>1, <1>3, <1>4, <1>6, TokenAt

Counts(id, code) ==
    /\ DOMAIN ran' = DOMAIN ran
    /\ \A x \in DOMAIN ran : x # id => ran'[x] = ran[x]
    /\ id \in DOMAIN ran => ran'[id] = (IF code = 200 THEN ran[id] + 1 ELSE ran[id])

(* The answer to a request that was read in full.                          *)
LEMMA DispatchTurn ==
    ASSUME ToldInv, HttpInv', Shape', UNCHANGED client, NEW c \in Conns, OnlyAt(c),
           NEW up, up = Up(c), Begins(up), Len(up) = 2 + up[1].m.len, up[1].m.len \in Nat,
           Up(c)' = <<>>, NEW id, id = up[1].m.id, NEW code \in {200, 404},
           Counts(id, code),
           NEW u, u = Srv(c)', u.pc = "head", u.res.id = id, u.res.kind = code,
           conn'[c].to["client"] = conn[c].to["client"], ServerAt(c)' = ServerAt(c)
    PROVE  ToldInv'
<1>1. id \in IdsIn(up) /\ up # <<>> /\ 1 \in DOMAIN up /\ Len(up) \in Nat
  BY NoTokens DEF Begins, IdsIn
<1>2. /\ \A d \in Conns : \A x \in IdsIn(Up(d)) : ran[x] = 0 /\ IsSent(x)
      /\ \A d, e \in Conns : \A x \in IdsIn(Up(d)) : x \in IdsIn(Up(e)) => d = e
      /\ DOMAIN ran = ServerCalls
      /\ \A x \in ServerCalls : ran[x] \in {0, 1} /\ (~IsSent(x) => ran[x] = 0)
      /\ \A k \in Clients : BodyAhead(k)
  BY DEF ToldInv, RunsOnce
<1>3. ran[id] = 0 /\ IsSent(id) /\ \A d \in Conns : d # c => id \notin IdsIn(Up(d))
  BY <1>1, <1>2
<1>4. \A x : IsSent(x) => x \in ServerCalls
  BY SentCounted DEF ToldInv
<1>5. ran'[id] = (IF code = 200 THEN 1 ELSE 0) /\ id \in ServerCalls
  BY <1>2, <1>3, <1>4 DEF Counts
<1>6. \A x \in ServerCalls : x # id => ran'[x] = ran[x]
  BY <1>2 DEF Counts
<1>7. \A x : IsSent(x)' <=> IsSent(x)
  BY SentStays
<1>8. \A d \in Conns : d # c => Up(d)' = Up(d)
  BY UpElsewhere DEF OnlyAt
<1>9. \A k \in Clients : client[k].pc = "body" => client[k].sock # c /\ <<k, client[k].n>> # id
  <2> SUFFICES ASSUME NEW k \in Clients, client[k].pc = "body",
                      client[k].sock = c \/ <<k, client[k].n>> = id
               PROVE  FALSE
    OBVIOUS
  <2>1. client[k].sock = c
    <3>1. \A d \in Conns : d # client[k].sock => <<k, client[k].n>> \notin IdsIn(Up(d))
      BY <1>2 DEF BodyAhead
    <3>2. id \in IdsIn(Up(c))
      BY <1>1
    <3>3. c # client[k].sock => <<k, client[k].n>> # id
      BY <3>1, <3>2
    <3> QED
      BY <3>3
  <2>2. PICK down : Fits(k, client[k], up, down, Srv(c), ServerAt(c))
    BY <2>1, OwnerIs
  <2>3. Speaks(client[k], up, down, Srv(c))
    BY <2>2 DEF Fits, Asking
  <2>4. up[1].m = client[k].req /\ Len(up) <= 2 /\ client[k].req.len > 0
    BY <1>1, <2>3 DEF Speaks
  <2> QED
    BY <1>1, <2>4
<1>10. RunsOnce'
  <2>1. ASSUME NEW d \in Conns, NEW x \in IdsIn(Up(d))' PROVE ran'[x] = 0 /\ IsSent(x)' /\ x \in IdsIn(Up(d)) /\ d # c
    <3>1. d # c
      BY <2>1, NoTokens
    <3>2. x \in IdsIn(Up(d)) /\ x # id
      BY <1>3, <1>8, <2>1, <3>1
    <3> QED
      BY <1>2, <1>4, <1>6, <1>7, <3>1, <3>2
  <2>2. \A d, e \in Conns : \A x \in IdsIn(Up(d))' : x \in IdsIn(Up(e))' => d = e
    BY <1>2, <2>1
  <2>3. ASSUME NEW x \in ServerCalls PROVE ran'[x] \in {0, 1} /\ (~IsSent(x)' => ran'[x] = 0)
    <3>1. CASE x = id
      BY <1>3, <1>5, <1>7, <3>1
    <3>2. CASE x # id
      BY <1>2, <1>6, <1>7, <3>2
    <3> QED
      BY <3>1, <3>2
  <2>4. ASSUME NEW k \in Clients PROVE BodyAhead(k)'
    <3>1. CASE client[k].pc # "body"
      BY <3>1 DEF BodyAhead
    <3>2. CASE client[k].pc = "body"
      <4>1. PICK x : x = <<k, client[k].n>>
        OBVIOUS
      <4>2. /\ x # id /\ ran[x] = 0
            /\ \A d \in Conns : d # client[k].sock => x \notin IdsIn(Up(d))
        BY <1>2, <1>9, <3>2, <4>1 DEF BodyAhead
      <4>3. x \in ServerCalls
        <5>1. client[k].n \in 1 .. MaxCalls[k]
          <6>1. client[k].n > 0 /\ client[k].n <= MaxCalls[k] /\ client[k].n \in Nat
            BY <3>2 DEF ToldInv, Shape, ClientOK, ClientRec
          <6>2. MaxCalls[k] \in Nat
            BY HttpClientAssumption
          <6> QED
            BY <6>1, <6>2
        <5> QED
          BY <4>1, <5>1, HttpLinkAssumption
      <4>4. ran'[x] = 0
        BY <1>6, <4>2, <4>3
      <4>5. \A d \in Conns : d # client[k].sock => x \notin IdsIn(Up(d))'
        BY <2>1, <4>2
      <4>6. client'[k] = client[k]
        OBVIOUS
      <4> QED
        BY <4>1, <4>4, <4>5, <4>6 DEF BodyAhead
    <3> QED
      BY <3>1, <3>2
  <2> QED
    BY <1>2, <2>1, <2>2, <2>3, <2>4 DEF RunsOnce, Counts
<1>11. AnswersTell'
  <2> SUFFICES ASSUME NEW x, NEW kind, Given(x, kind)' PROVE Answered(x, kind)'
    BY DEF AnswersTell
  <2>1. CASE Given(x, kind)
    <3>1. /\ ran[x] = IF kind = 200 THEN 1 ELSE 0
          /\ IsSent(x) /\ \A d \in Conns : ~Starting(d, x)
      BY <2>1 DEF ToldInv, AnswersTell, Answered
    <3>2. x # id
      BY <3>1 DEF Starting
    <3>3. ran'[x] = ran[x]
      BY <1>4, <1>6, <3>1, <3>2
    <3>4. ASSUME NEW d \in Conns PROVE ~Starting(d, x)'
      <4>1. CASE d = c
        BY <4>1, EmptyMessage DEF Starting
      <4>2. CASE d # c
        BY <1>8, <3>1, <4>2 DEF Starting
      <4> QED
        BY <4>1, <4>2
    <3> QED
      BY <1>7, <3>1, <3>3, <3>4 DEF Answered
  <2>2. CASE x = id /\ kind = code
    <3>1. ASSUME NEW d \in Conns PROVE ~Starting(d, id)'
      <4>1. CASE d = c
        BY <4>1, EmptyMessage DEF Starting
      <4>2. CASE d # c
        BY <1>3, <1>8, <4>2 DEF Starting, Begins, IdsIn
      <4> QED
        BY <4>1, <4>2
    <3> QED
      BY <1>3, <1>5, <1>7, <2>2, <3>1 DEF Answered
  <2>3. \/ Given(x, kind)
        \/ Srv(c)'.pc \in {"head", "body"} /\ Srv(c)'.res.id = x /\ Srv(c)'.res.kind = kind
        \/ \E i \in DOMAIN conn'[c].to["client"] :
              /\ conn'[c].to["client"][i].m.id = x
              /\ conn'[c].to["client"][i].m.kind = kind
    BY GivenTurn
  <2>4. CASE \E i \in DOMAIN conn'[c].to["client"] :
                /\ conn'[c].to["client"][i].m.id = x
                /\ conn'[c].to["client"][i].m.kind = kind
    BY <2>1, <2>4, GivenDown
  <2> QED
    BY <2>1, <2>2, <2>3, <2>4
<1>12. \A k \in Clients : LinkOK(k)'
  <2>1. ASSUME NEW k \in Clients, client[k].sock = c
        PROVE  Fits(k, client[k], Up(c)', client[k].buf \o conn'[c].to["client"], Srv(c)',
                    ServerAt(c)')
    <3>1. PICK down, at, v : /\ down = client[k].buf \o conn[c].to["client"] /\ at = ServerAt(c)
                             /\ v = Srv(c)
      OBVIOUS
    <3>2. Fits(k, client[k], up, down, v, at)
      BY <2>1, <3>1, OwnerIs
    <3>3. /\ Asking(client[k]) /\ Speaks(client[k], up, down, v)
          /\ k \in KeepAlive => InTurn(client[k], up, down, v, at)
      BY <1>1, <3>2 DEF Fits
    <3>4. client[k].pc # "body"
      BY <1>9, <2>1
    <3>5. Speaks(client[k], <<>>, down, u)
      BY <1>1, <3>3, <3>4, NoTokens DEF Speaks
    <3>6. k \in KeepAlive => InTurn(client[k], <<>>, down, u, at)
      BY <1>1, <3>3, <3>4 DEF InTurn
    <3>7. Fits(k, client[k], <<>>, down, u, at)
      BY <3>3, <3>5, <3>6 DEF Fits
    <3> QED
      BY <3>1, <3>7
  <2> QED
    BY <2>1, LinksTurn DEF ToldInv
<1>13. \A d \in Conns : OneMessage(Up(d))'
  BY <1>8, EmptyMessage DEF ToldInv
<1>14. ResultsAreOwn'
  BY DEF ToldInv, ResultsAreOwn, Returned, At
<1> QED
  BY <1>10, <1>11, <1>12, <1>13, <1>14 DEF ToldInv

LEMMA DispatchTold ==
    ASSUME ToldInv, HttpInv', UNCHANGED client, NEW w \in Workers, dispatch_request(w)
    PROVE  ToldInv'
<1>1. worker[w].pc = "dispatch" /\ Busy(w) /\ UNCHANGED <<listener, jobs, conn>>
  BY DEF dispatch_request, WorkerAt, Busy, poolVars
<1>2. PICK c \in Conns : c = worker[w].sock /\ Srv(c) = worker[w] /\ ServerAt(c) = "open"
  BY <1>1, AtWork
<1>3. /\ HttpInv /\ Shape /\ SocketsOK /\ worker[w].buf \in Seq(Tokens) /\ IsWork(worker[w])
      /\ Whole(worker[w].buf) /\ worker[w].req = worker[w].buf[1].m
  BY <1>1, AtWork DEF ServerOK
<1>4. PICK buf, to, up : buf = worker[w].buf /\ to = conn[c].to["server"] /\ up = Up(c)
  OBVIOUS
<1>5. Parts(up, buf, to) /\ OneMessage(up) /\ Whole(buf)
  <2>1. to \in Seq(Tokens)
    BY <1>3, <1>4, ConnFields DEF Ends
  <2>2. up = buf \o to
    BY <1>1, <1>2, <1>4 DEF Up, Held
  <2> QED
    BY <1>3, <1>4, <2>1, <2>2 DEF Parts, ToldInv
<1>6. /\ to = <<>> /\ Begins(up) /\ up[1] = buf[1] /\ up[1].m \in Msgs
      /\ Len(up) = 2 + up[1].m.len
  BY <1>5, WholeRequest
<1>7. PICK m, id : m = worker[w].req /\ id = m.id
  OBVIOUS
<1>8. m = up[1].m /\ m \in Msgs /\ m.len \in Nat
  BY <1>3, <1>4, <1>6, <1>7, MsgIs
<1>9. PICK code \in {200, 404} :
        /\ worker' = [worker EXCEPT ![w].pc = "head", ![w].res = Answer(m, code)]
        /\ ran' = IF code = 200 THEN [ran EXCEPT ![id] = @ + 1] ELSE ran
  BY <1>7 DEF dispatch_request
<1>10. PICK u : u = worker'[w]
  OBVIOUS
<1>11. Answer(m, code) \in AnsMsgs /\ Answer(m, code) \in Msgs
       /\ Answer(m, code).id = m.id /\ Answer(m, code).kind = code
  BY <1>8, AnswerIs
<1>12. u.pc = "head" /\ u.res = Answer(m, code) /\ u.buf = worker[w].buf
  <2>1. u = [worker[w] EXCEPT !.pc = "head", !.res = Answer(m, code)]
    BY <1>3, <1>9, <1>10 DEF HttpInv, PoolOK
  <2> QED
    BY <1>3, <2>1 DEF IsWork
<1>13. ServerOK(u) /\ Works(w)
  <2>1. ServerOK(u)
    BY <1>3, <1>11, <1>12 DEF ServerOK
  <2>2. Works(w)
    BY <1>3, <1>9, AnswerWorks
  <2> QED
    BY <2>1, <2>2
<1>14. /\ Shape' /\ Srv(c)' = worker'[w]
       /\ \A d \in Conns : d # c => Srv(d)' = Srv(d)
  BY <1>1, <1>2, <1>3, <1>10, <1>13, ConnStays, WorkStays
<1>15. OnlyAt(c) /\ u = Srv(c)'
  BY <1>1, <1>10, <1>14 DEF OnlyAt
<1>16. Up(c)' = <<>>
  <2>1. Held(u) = <<>>
    BY <1>12 DEF Held
  <2>2. Up(c)' = <<>> \o <<>>
    BY <1>1, <1>4, <1>6, <1>15, <2>1 DEF Up
  <2> QED
    BY <2>2, NoTokens, JoinedNone
<1>17. Counts(id, code)
  <2>1. CASE code = 200
    BY <1>9, <2>1 DEF Counts
  <2>2. CASE code # 200
    BY <1>9, <2>2 DEF Counts
  <2> QED
    BY <2>1, <2>2
<1>18. /\ id = up[1].m.id /\ up[1].m.len \in Nat
       /\ u.res.id = id /\ u.res.kind = code
  BY <1>7, <1>8, <1>11, <1>12
<1>19. conn'[c].to["client"] = conn[c].to["client"] /\ ServerAt(c)' = ServerAt(c)
  BY <1>1 DEF ServerAt
<1> QED
  BY <1>4, <1>6, <1>12, <1>14, <1>15, <1>16, <1>17, <1>18, <1>19, DispatchTurn

LEMMA WorkerTold ==
    ASSUME ~SlowWriters, ToldInv, HttpInv', UNCHANGED client,
           NEW w \in Workers, WorkerStep(w) \/ spurious_wakeup(w)
    PROVE  ToldInv'
<1>1. CASE spurious_wakeup(w)
  BY <1>1, ListenerTold DEF spurious_wakeup
<1>2. CASE WorkerStep(w)
  BY <1>2, NextJobTold, KeepAliveTold, ReadRequestTold, ReadEndsTold, DispatchTold,
     WriteResponseHeadTold, WriteResponseBodyTold, CloseSocketTold DEF WorkerStep
<1> QED
  BY <1>1, <1>2

LEMMA ListenerStepTold ==
    ASSUME ToldInv, HttpInv', UNCHANGED client, ListenerStep
    PROVE  ToldInv'
<1>1. CASE notify_one \/ set_shutdown \/ notify_all \/ join
  <2>1. listener = [pc |-> listener.pc, sock |-> listener.sock]
    BY DEF ToldInv, HttpInv, PoolOK
  <2>2. UNCHANGED <<client, worker, jobs, ran, conn>> /\ listener'.pc # "enqueue"
    BY <1>1, <2>1 DEF notify_one, set_shutdown, notify_all, join, poolVars
  <2> QED
    BY <2>2, ListenerTold
<1> QED
  BY <1>1, AcceptTold, EnqueueTold DEF ListenerStep

-----------------------------------------------------------------------------
(* A step of the client k, on the connection c if on any.                  *)
LEMMA ClientShape ==
    ASSUME HttpInv, Shape, UNCHANGED <<worker, jobs, listener>>, SocketsOK',
           NEW k \in Clients, OnlyClient(k), ClientOK(k)',
           NEW c, \A d \in Conns : d # c => conn'[d] = conn[d],
           \A d \in Conns : ServerAt(d) = "open" => ServerAt(d)' = "open",
           \A l \in Clients \ {k} : client[l].sock # None => client[l].sock # c,
           client'[k].sock \in {None, client[k].sock, c}
    PROVE  Shape' /\ \A d : Srv(d)' = Srv(d)
<1>1. \A l \in Clients : l # k => client'[l] = client[l]
  BY DEF OnlyClient
<1>2. ASSUME NEW l \in Clients, l # k PROVE ClientOK(l)'
  <2>1. client'[l] = client[l] /\ ClientOK(l) /\ client[l].sock \in Conns \union {None}
    BY <1>1, <1>2, SocksTyped DEF Shape
  <2>2. client'[l].sock # None => conn'[client'[l].sock] = conn[client[l].sock]
    BY <1>2, <2>1
  <2>3. client'[l].sock # None => conn'[client'[l].sock].at["client"] = "open"
    BY <2>1, <2>2 DEF ClientOK
  <2> QED
    BY <2>1, <2>3 DEF ClientOK
<1>3. OneClient'
  <2> SUFFICES ASSUME NEW l \in Clients, NEW m \in Clients, client'[l].sock # None,
                      client'[l].sock = client'[m].sock, l # m
               PROVE  FALSE
    BY DEF OneClient
  <2>1. CASE l # k /\ m # k
    BY <1>1, <2>1 DEF Shape, OneClient
  <2>2. CASE l = k
    <3>1. client[m].sock # None /\ client[m].sock # c /\ client'[k].sock = client[m].sock
      BY <1>1, <2>2
    <3>2. client[k].sock = client[m].sock
      BY <2>2, <3>1
    <3> QED
      BY <2>2, <3>1, <3>2 DEF Shape, OneClient
  <2>3. CASE m = k
    <3>1. client[l].sock # None /\ client[l].sock # c /\ client'[k].sock = client[l].sock
      BY <1>1, <2>3
    <3>2. client[k].sock = client[l].sock
      BY <2>3, <3>1
    <3> QED
      BY <2>3, <3>1, <3>2 DEF Shape, OneClient
  <2> QED
    BY <2>1, <2>2, <2>3
<1>4. OneServer'
  <2>1. OneServer
    BY DEF Shape
  <2>2. /\ \A i \in DOMAIN jobs : jobs[i] \in Conns
        /\ listener.pc = "enqueue" => listener.sock \in Conns
        /\ \A w \in Workers : Busy(w) => worker[w].sock \in Conns
    BY <2>1, SetEndsIn
  <2>3. \A w \in Workers : Busy(w)' <=> Busy(w)
    BY DEF Busy
  <2>4. /\ \A w \in Workers : Busy(w) => ServerAt(worker[w].sock) = "open"
        /\ \A i \in DOMAIN jobs : ServerAt(jobs[i]) = "open"
        /\ listener.pc = "enqueue" => ServerAt(listener.sock) = "open"
    BY <2>1 DEF OneServer
  <2>5. \A d \in Conns : conn[d].at["server"] = "open" => conn'[d].at["server"] = "open"
    BY DEF ServerAt
  <2>6. /\ \A w \in Workers : Busy(w) => conn'[worker[w].sock].at["server"] = "open"
        /\ \A i \in DOMAIN jobs : conn'[jobs[i]].at["server"] = "open"
        /\ listener.pc = "enqueue" => conn'[listener.sock].at["server"] = "open"
    BY <2>2, <2>4, <2>5 DEF ServerAt
  <2>7. /\ \A w \in Workers : Busy(w) => ServerAt(worker[w].sock)' = "open"
        /\ \A i \in DOMAIN jobs : ServerAt(jobs[i])' = "open"
        /\ listener.pc = "enqueue" => ServerAt(listener.sock)' = "open"
    BY <2>6 DEF ServerAt
  <2> QED
    BY <2>1, <2>2, <2>3, <2>7 DEF OneServer
<1>5. client' \in [Clients -> ClientRec] /\ \A l \in Clients : ClientOK(l)'
  BY <1>2 DEF OnlyClient
<1>6. \A w \in Workers : ServerOK(worker'[w])
  BY DEF Shape
<1> QED
  BY <1>3, <1>4, <1>5, <1>6 DEF Shape, Srv

LEMMA SentGrows ==
    ASSUME Shape, NEW k \in Clients, OnlyClient(k),
           \/ client'[k].n = client[k].n /\ (Launched(client[k]) => Launched(client'[k]))
           \/ client'[k].n = client[k].n + 1
    PROVE  \A id : IsSent(id) => IsSent(id)'
<1> SUFFICES ASSUME NEW id, IsSent(id) PROVE IsSent(id)'
  OBVIOUS
<1>1. PICK l \in Clients : \E j \in 1 .. client[l].n :
            id = <<l, j>> /\ (j < client[l].n \/ Launched(client[l]))
  BY DEF IsSent
<1>2. PICK j \in 1 .. client[l].n : id = <<l, j>> /\ (j < client[l].n \/ Launched(client[l]))
  BY <1>1
<1>3. client[l].n \in Nat
  BY DEF Shape, ClientRec
<1>4. j \in 1 .. client'[l].n /\ (j < client'[l].n \/ Launched(client'[l]))
  <2>1. CASE l # k
    BY <1>2, <2>1 DEF OnlyClient
  <2>2. CASE l = k /\ client'[k].n = client[k].n
    BY <1>2, <1>3, <2>2
  <2>3. CASE l = k /\ client'[k].n = client[k].n + 1
    BY <1>2, <1>3, <2>3
  <2> QED
    BY <2>1, <2>2, <2>3
<1> QED
  BY <1>2, <1>4 DEF IsSent

(* What the server may now read of x, and the client of answers.           *)
Reaches(c, x) ==
    c \in Conns =>
        /\ OneMessage(Up(c)')
        /\ IdsIn(Up(c)') \subseteq IdsIn(Up(c)) \union {x}
        /\ Begins(Up(c)') =>
              \/ Begins(Up(c)) /\ Up(c)'[1].m.id = Up(c)[1].m.id
              \/ Up(c)'[1].m.id = x /\ ~IsSent(x)
        /\ x \in IdsIn(Up(c)') =>
              ran[x] = 0 /\ IsSent(x)' /\ \A d \in Conns : d # c => x \notin IdsIn(Up(d))
        /\ \A i \in DOMAIN conn'[c].to["client"] :
              Given(conn'[c].to["client"][i].m.id, conn'[c].to["client"][i].m.kind)

FitsThen(k, t) ==
    t \in Conns => Fits(k, client'[k], Up(t)', client'[k].buf \o conn'[t].to["client"],
                        Srv(t), ServerAt(t)')

LEMMA ClientTurn ==
    ASSUME ToldInv, HttpInv', Shape', UNCHANGED ran, \A d : Srv(d)' = Srv(d),
           NEW k \in Clients, OnlyClient(k),
           \/ client'[k].n = client[k].n /\ (Launched(client[k]) => Launched(client'[k]))
           \/ client'[k].n = client[k].n + 1,
           NEW c, \A d \in Conns : d # c => conn'[d] = conn[d],
           \A l \in Clients \ {k} : client[l].sock # None => client[l].sock # c,
           NEW x, x = <<k, client[k].n>>,
           Reaches(c, x), \A i \in DOMAIN client'[k].buf : Given(client'[k].buf[i].m.id, client'[k].buf[i].m.kind),
           client'[k].pc = "idle" /\ client'[k].err = "Success" /\ client'[k].n > 0 =>
               /\ Given(client'[k].res.id, client'[k].res.kind)
               /\ client'[k].res.id = client'[k].req.id,
           BodyAhead(k)',
           NEW t, t = client'[k].sock,
           FitsThen(k, t)
    PROVE  ToldInv'
<1>1. RunsOnce /\ AnswersTell /\ Shape
  BY DEF ToldInv
<1>2. \A id : IsSent(id) => IsSent(id)'
  BY <1>1, SentGrows
<1>3. \A d \in Conns : d # c => Up(d)' = Up(d) /\ \A id : Starting(d, id)' <=> Starting(d, id)
  BY UpElsewhere
<1>4. \A d \in Conns : IdsIn(Up(d))' \subseteq IdsIn(Up(d)) \union (IF d = c THEN {x} ELSE {})
  BY <1>3 DEF Reaches
<1>5. ASSUME NEW d \in Conns, NEW id, Starting(d, id)'
      PROVE  Starting(d, id) \/ (d = c /\ id = x /\ ~IsSent(x))
  <2>1. CASE d # c
    BY <1>3, <1>5, <2>1
  <2>2. CASE d = c
    BY <1>5, <2>2 DEF Starting, Reaches
  <2> QED
    BY <2>1, <2>2
<1>6. c \in Conns /\ x \in IdsIn(Up(c))' =>
          ran[x] = 0 /\ IsSent(x)' /\ \A d \in Conns : d # c => x \notin IdsIn(Up(d))
  BY DEF Reaches
<1>7. ASSUME NEW id, NEW kind, Given(id, kind)' PROVE Given(id, kind)
  <2>1. ASSUME NEW d \in Conns, Srv(d)'.pc \in {"head", "body"},
               Srv(d)'.res.id = id, Srv(d)'.res.kind = kind
        PROVE  Given(id, kind)
    BY <2>1 DEF Given
  <2>2. ASSUME NEW d \in Conns, NEW i \in DOMAIN conn'[d].to["client"],
               conn'[d].to["client"][i].m.id = id, conn'[d].to["client"][i].m.kind = kind
        PROVE  Given(id, kind)
    <3>1. CASE d = c
      BY <2>2, <3>1 DEF Reaches
    <3>2. CASE d # c
      BY <2>2, <3>2 DEF Given
    <3> QED
      BY <3>1, <3>2
  <2>3. ASSUME NEW l \in Clients, NEW i \in DOMAIN client'[l].buf,
               client'[l].buf[i].m.id = id, client'[l].buf[i].m.kind = kind
        PROVE  Given(id, kind)
    <3>1. CASE l = k
      BY <2>3, <3>1
    <3>2. CASE l # k
      BY <2>3, <3>2 DEF Given, OnlyClient
    <3> QED
      BY <3>1, <3>2
  <2>4. ASSUME NEW l \in Clients, Returned(l)', client'[l].err = "Success",
               client'[l].res.id = id, client'[l].res.kind = kind
        PROVE  Given(id, kind)
    <3>1. CASE l = k
      BY <2>4, <3>1 DEF Returned, At
    <3>2. CASE l # k
      BY <2>4, <3>2 DEF Given, OnlyClient, Returned, At
    <3> QED
      BY <3>1, <3>2
  <2> QED
    BY <1>7, <2>1, <2>2, <2>3, <2>4 DEF Given
<1>8. ASSUME NEW l \in Clients, client'[l].pc = "body"
      PROVE  \/ BodyAhead(l)'
             \/ /\ client[l].pc = "body" /\ client'[l].n = client[l].n
                /\ client'[l].sock = client[l].sock
                /\ <<l, client[l].n>> = x => client[l].sock = c
  <2>1. CASE l = k
    BY <2>1
  <2>2. CASE l # k
    <3>1. client'[l] = client[l] /\ <<l, client[l].n>> # x
      BY <2>2 DEF OnlyClient
    <3> QED
      BY <1>8, <3>1
  <2> QED
    BY <2>1, <2>2
<1>9. RunsOnce' /\ AnswersTell'
  <2>1. \A d \in Conns : \A id : Starting(d, id)' =>
            Starting(d, id) \/ (d = c /\ id = x /\ ~IsSent(x))
    BY <1>5
  <2>2. \A id, kind : Given(id, kind)' => Given(id, kind) \/ Answered(id, kind)'
    BY <1>7
  <2>3. \A l \in Clients : client'[l].pc = "body" =>
            \/ BodyAhead(l)'
            \/ /\ client[l].pc = "body" /\ client'[l].n = client[l].n
               /\ client'[l].sock = client[l].sock
               /\ <<l, client[l].n>> = x => client[l].sock = c
    BY <1>8
  <2> QED
    <3>1. Calmly(c, x)
      BY <1>2, <1>4, <1>6, <2>1, <2>2, <2>3 DEF Calmly
    <3> QED
      BY <1>1, <3>1, Calm
<1>10. \A d \in Conns : OneMessage(Up(d))'
  BY <1>3 DEF ToldInv, Reaches
<1>11. LinkOK(k)'
  <2>1. t \in Conns \union {None}
    BY DEF Shape, ClientRec
  <2>2. CASE t \in Conns
    <3>1. Down(k)' = client'[k].buf \o conn'[t].to["client"] /\ Srv(t)' = Srv(t)
      BY DEF Down
    <3>2. Fits(k, client'[k], Up(t)', Down(k)', Srv(t)', ServerAt(t)')
      BY <2>2, <3>1 DEF FitsThen
    <3> QED
      BY <3>2 DEF LinkOK
  <2>3. CASE t = None
    BY <2>3 DEF LinkOK
  <2> QED
    BY <2>1, <2>2, <2>3
<1>12. ASSUME NEW l \in Clients, l # k PROVE LinkOK(l)'
  <2>1. client'[l] = client[l] /\ client[l].sock \in Conns \union {None} /\ LinkOK(l)
    BY <1>1, <1>12, SocksTyped DEF ToldInv, OnlyClient
  <2>2. \A d \in Conns : client[l].sock = d => conn'[d] = conn[d] /\ Srv(d)' = Srv(d)
    <3>1. \A d \in Conns : d # None
      BY HttpLinkAssumption
    <3> QED
      BY <1>12, <3>1
  <2> QED
    BY <2>1, <2>2, LinkElsewhere
<1>13. ResultsAreOwn'
  <2> SUFFICES ASSUME NEW l \in Clients, Returned(l)', client'[l].err = "Success"
               PROVE  client'[l].res.id = client'[l].req.id
    BY DEF ResultsAreOwn
  <2>1. CASE l = k
    BY <2>1 DEF Returned, At
  <2>2. CASE l # k
    BY <2>2 DEF ToldInv, ResultsAreOwn, Returned, At, OnlyClient
  <2> QED
    BY <2>1, <2>2
<1> QED
  BY <1>9, <1>10, <1>11, <1>12, <1>13 DEF ToldInv

(* What the server has to read is no more than before.                     *)
LEMMA ReachesLess ==
    ASSUME ToldInv, NEW c, NEW x,
           c \in Conns =>
               /\ \/ Up(c)' = Up(c)
                  \/ \E rest : Parts(Up(c), Up(c)', rest)
               /\ \A i \in DOMAIN conn'[c].to["client"] :
                     Given(conn'[c].to["client"][i].m.id, conn'[c].to["client"][i].m.kind),
           \A id : IsSent(id) => IsSent(id)'
    PROVE  Reaches(c, x)
<1> SUFFICES ASSUME c \in Conns PROVE Reaches(c, x)
  BY DEF Reaches
<1>1. PICK up, new : up = Up(c) /\ new = Up(c)'
  OBVIOUS
<1>2. /\ OneMessage(up)
      /\ \A id \in IdsIn(up) : ran[id] = 0 /\ IsSent(id)
                               /\ \A d \in Conns : d # c => id \notin IdsIn(Up(d))
  BY <1>1 DEF ToldInv, RunsOnce
<1>3. /\ OneMessage(new) /\ IdsIn(new) \subseteq IdsIn(up)
      /\ Begins(new) => Begins(up) /\ new[1] = up[1]
  <2>1. CASE new = up
    BY <1>2, <2>1
  <2>2. CASE \E rest : Parts(up, new, rest)
    <3>1. PICK rest : Parts(up, new, rest)
      BY <2>2
    <3> QED
      BY <1>2, <3>1, CutMessage
  <2> QED
    BY <1>1, <2>1, <2>2
<1>4. \A i \in DOMAIN conn'[c].to["client"] :
          Given(conn'[c].to["client"][i].m.id, conn'[c].to["client"][i].m.kind)
  OBVIOUS
<1>5. x \in IdsIn(new) =>
          ran[x] = 0 /\ IsSent(x)' /\ \A d \in Conns : d # c => x \notin IdsIn(Up(d))
  BY <1>2, <1>3
<1> QED
  BY <1>1, <1>3, <1>4, <1>5 DEF Reaches

LEMMA GivenBuf ==
    ASSUME NEW k \in Clients, NEW i \in DOMAIN client[k].buf
    PROVE  Given(client[k].buf[i].m.id, client[k].buf[i].m.kind)
BY DEF Given

(* What a client that is not in a call, or has not sent, leaves to fit.    *)
LEMMA FitsQuiet ==
    ASSUME NEW k, NEW s, NEW up, NEW down, NEW v, NEW at, Fits(k, s, up, down, v, at),
           ~Asking(s), NEW z, ~Asking(z)
    PROVE  Fits(k, z, up, down, v, at)
BY DEF Fits

LEMMA LaunchedNot ==
    ASSUME NEW s, s.pc \in {"send", "connect", "head"}
    PROVE  ~Launched(s)
BY DEF Launched

(* A step of k that leaves its connection alone.                           *)
LEMMA AloneTurn ==
    ASSUME ToldInv, HttpInv', UNCHANGED <<conn, worker, jobs, listener, ran>>,
           NEW k \in Clients, OnlyClient(k), ClientOK(k)',
           \/ client'[k].n = client[k].n /\ (Launched(client[k]) => Launched(client'[k]))
           \/ client'[k].n = client[k].n + 1,
           client'[k].buf = client[k].buf \/ client'[k].buf = <<>>,
           client'[k].sock = client[k].sock,
           client'[k].pc = "idle" /\ client'[k].err = "Success" /\ client'[k].n > 0 =>
               /\ Given(client'[k].res.id, client'[k].res.kind)
               /\ client'[k].res.id = client'[k].req.id,
           client'[k].pc # "body",
           \A c \in Conns : client[k].sock = c => FitsThen(k, c)
    PROVE  ToldInv'
<1>0. HttpInv /\ Shape /\ SocketsOK /\ SocketsOK'
  BY ConnStays DEF ToldInv, Shape
<1>1. PICK x, t : x = <<k, client[k].n>> /\ t = client[k].sock
  OBVIOUS
<1>2. \A l \in Clients \ {k} : client[l].sock # None => client[l].sock # t
  BY <1>0, <1>1 DEF Shape, OneClient
<1>3. Shape' /\ \A d : Srv(d)' = Srv(d)
  <2>1. \A d \in Conns : d # t => conn'[d] = conn[d]
    OBVIOUS
  <2>2. \A d \in Conns : ServerAt(d) = "open" => ServerAt(d)' = "open"
    BY DEF ServerAt
  <2> QED
    BY <1>0, <1>1, <1>2, <2>1, <2>2, ClientShape
<1>4. Reaches(t, x)
  <2>1. t \in Conns => Up(t)' = Up(t)
    BY <1>3 DEF Up
  <2>2. \A id : IsSent(id) => IsSent(id)'
    BY <1>0, SentGrows
  <2>3. t \in Conns => \A i \in DOMAIN conn'[t].to["client"] :
            Given(conn'[t].to["client"][i].m.id, conn'[t].to["client"][i].m.kind)
    BY GivenDown
  <2> QED
    BY <2>1, <2>2, <2>3, ReachesLess
<1>5. \A i \in DOMAIN client'[k].buf : Given(client'[k].buf[i].m.id, client'[k].buf[i].m.kind)
  BY GivenBuf, NoTokens
<1>6. BodyAhead(k)'
  BY DEF BodyAhead
<1>7. FitsThen(k, t)
  <2>1. CASE t \in Conns
    BY <1>1, <2>1
  <2>2. CASE t \notin Conns
    BY <2>2 DEF FitsThen
  <2> QED
    BY <2>1, <2>2
<1>8. \A d \in Conns : d # t => conn'[d] = conn[d]
  OBVIOUS
<1>9. t = client'[k].sock
  BY <1>1
<1> QED
  BY <1>1, <1>2, <1>3, <1>4, <1>5, <1>6, <1>7, <1>8, <1>9, ClientTurn

LEMMA FitsAlone ==
    ASSUME ToldInv, UNCHANGED <<conn, worker>>, NEW k \in Clients, NEW c \in Conns,
           client[k].sock = c, client'[k].buf = client[k].buf,
           \A up, down, v, at :
               Fits(k, client[k], up, down, v, at) => Fits(k, client'[k], up, down, v, at)
    PROVE  FitsThen(k, c)
<1>1. Fits(k, client[k], Up(c), client[k].buf \o conn[c].to["client"], Srv(c), ServerAt(c))
  BY OwnerIs
<1>2. Up(c)' = Up(c) /\ ServerAt(c)' = ServerAt(c)
  BY DEF Up, Srv, ServerAt
<1>3. conn'[c].to["client"] = conn[c].to["client"]
  OBVIOUS
<1>4. Fits(k, client'[k], Up(c), client[k].buf \o conn[c].to["client"], Srv(c), ServerAt(c))
  BY <1>1
<1> QED
  BY <1>2, <1>3, <1>4 DEF FitsThen

(* A response that is awaited no longer.                                   *)
LEMMA FitsEnded ==
    ASSUME NEW k, NEW s, NEW up, NEW down, NEW v, NEW at, Fits(k, s, up, down, v, at),
           Asking(s), NEW z, Asking(z), z.pc # "body", z.req = s.req
    PROVE  Fits(k, z, up, down, v, at)
<1>1. Speaks(z, up, down, v)
  BY DEF Fits, Speaks
<1>2. k \in KeepAlive => InTurn(z, up, down, v, at)
  BY DEF Fits, InTurn
<1> QED
  BY <1>1, <1>2 DEF Fits

LEMMA CallTold ==
    ASSUME ToldInv, HttpInv', UNCHANGED <<worker, jobs, listener, ran>>,
           NEW k \in Clients, NEW r \in Requests[k], Call(k, r)
    PROVE  ToldInv'
<1>1. Shape /\ Types /\ ClientOK(k) /\ client[k].n \in Nat /\ MaxCalls[k] \in Nat
  BY HttpClientAssumption DEF ToldInv, Shape, Types, ClientRec
<1>2. /\ OnlyClient(k) /\ UNCHANGED conn /\ client[k].pc = "idle"
      /\ client'[k].n = client[k].n + 1 /\ client'[k].sock = client[k].sock
      /\ client[k].n < MaxCalls[k]
      /\ client'[k].req \in Msgs /\ client'[k].req.id = <<k, client[k].n + 1>>
      /\ client'[k].req.close = (k \notin KeepAlive)
      /\ client'[k].buf = <<>>
      /\ client'[k].pc = IF client[k].sock = None THEN "connect" ELSE "send"
  BY <1>1, CallDoes
<1>3. client[k].buf = <<>> /\ client'[k].pc \in {"connect", "send"}
  BY <1>1, <1>2 DEF ClientOK
<1>4. ClientOK(k)'
  <2>1. client'[k].n <= MaxCalls[k] /\ client'[k].n > 0
    BY <1>1, <1>2
  <2>2. client'[k].sock # None => conn'[client'[k].sock].at["client"] = "open"
    BY <1>1, <1>2 DEF ClientOK
  <2>3. client'[k].req.id = <<k, client'[k].n>>
    BY <1>2
  <2> QED
    BY <1>2, <1>3, <2>1, <2>2, <2>3 DEF ClientOK
<1>5. ASSUME NEW c \in Conns, client[k].sock = c PROVE FitsThen(k, c)
  <2>1. ~Asking(client[k]) /\ ~Asking(client'[k])
    BY <1>2, <1>3 DEF Asking
  <2>2. \A up, down, v, at :
            Fits(k, client[k], up, down, v, at) => Fits(k, client'[k], up, down, v, at)
    BY <2>1, FitsQuiet
  <2> QED
    BY <1>2, <1>3, <1>5, <2>2, FitsAlone
<1>6. UNCHANGED <<conn, worker, jobs, listener, ran>> /\ client'[k].pc # "body" /\ client'[k].pc # "idle"
  BY <1>2, <1>3
<1> QED
  BY <1>2, <1>4, <1>5, <1>6, AloneTurn

LEMMA ReadFailsTold ==
    ASSUME ToldInv, HttpInv', UNCHANGED <<worker, jobs, listener, ran>>,
           NEW k \in Clients, read_end(k) \/ read_timeout(k)
    PROVE  ToldInv'
<1>1. Shape /\ ClientOK(k)
  BY DEF ToldInv, Shape
<1>2. /\ SameCall(k) /\ client[k].pc = "read" /\ client'[k].pc = "return"
      /\ client'[k].err = "Read" /\ UNCHANGED conn
      /\ client'[k].sock = client[k].sock /\ client'[k].buf = client[k].buf
  BY <1>1, ReadFailsDoes
<1>3. OnlyClient(k) /\ client'[k].n = client[k].n /\ client'[k].req = client[k].req
  BY <1>2 DEF SameCall
<1>4. ClientOK(k)'
  BY <1>1, <1>2, <1>3 DEF ClientOK
<1>5. ASSUME NEW c \in Conns, client[k].sock = c PROVE FitsThen(k, c)
  <2>1. Asking(client[k]) /\ Asking(client'[k]) /\ client'[k].pc # "body"
    BY <1>2 DEF Asking
  <2>2. \A up, down, v, at :
            Fits(k, client[k], up, down, v, at) => Fits(k, client'[k], up, down, v, at)
    BY <1>3, <2>1, FitsEnded
  <2> QED
    BY <1>2, <1>5, <2>2, FitsAlone
<1>6. Launched(client[k]) => Launched(client'[k])
  BY <1>2, <1>3 DEF Launched
<1>7. UNCHANGED <<conn, worker, jobs, listener, ran>> /\ client'[k].pc # "body" /\ client'[k].pc # "idle"
  BY <1>2
<1> QED
  BY <1>2, <1>3, <1>4, <1>5, <1>6, <1>7, AloneTurn

(* A connection that the client closes.                                    *)
LEMMA ClosedTurn ==
    ASSUME ToldInv, HttpInv', UNCHANGED <<worker, jobs, listener, ran>>, SocketsOK',
           NEW k \in Clients, SameCall(k), ClientOK(k)',
           Launched(client[k]) => Launched(client'[k]),
           client'[k].buf = <<>>, client'[k].pc # "body", client'[k].sock = None,
           NEW c \in Conns, client[k].sock = c, ClosedEnd(c, "client"),
           client'[k].pc = "idle" /\ client'[k].err = "Success" /\ client'[k].n > 0 =>
               /\ Given(client'[k].res.id, client'[k].res.kind)
               /\ client'[k].res.id = client'[k].req.id
    PROVE  ToldInv'
<1>0. HttpInv /\ Shape /\ SocketsOK /\ None \notin Conns /\ OnlyClient(k) /\ client'[k].n = client[k].n
  BY HttpLinkAssumption DEF ToldInv, Shape, SameCall
<1>1. /\ \A d \in Conns : d # c => conn'[d] = conn[d]
      /\ ServerAt(c)' = ServerAt(c)
      /\ conn'[c].to["client"] = <<>>
      /\ \E n \in 0 .. Len(conn[c].to["server"]) :
            conn'[c].to["server"] = SubSeq(conn[c].to["server"], 1, n)
  BY DEF ClosedEnd, OthersSame, Other, ServerAt
<1>2. \A l \in Clients \ {k} : client[l].sock # None => client[l].sock # c
  BY <1>0 DEF Shape, OneClient
<1>3. Shape' /\ \A d : Srv(d)' = Srv(d)
  <2>1. \A d \in Conns : ServerAt(d) = "open" => ServerAt(d)' = "open"
    BY <1>1 DEF ServerAt
  <2>2. \A d \in Conns : d # c => conn'[d] = conn[d]
    BY <1>1
  <2> QED
    BY <1>0, <1>2, <2>1, <2>2, ClientShape
<1>4. PICK x, t : x = <<k, client[k].n>> /\ t = client'[k].sock
  OBVIOUS
<1>5. Reaches(c, x)
  <2>1. \E rest : Parts(Up(c), Up(c)', rest)
    <3>1. PICK n \in 0 .. Len(conn[c].to["server"]) :
            conn'[c].to["server"] = SubSeq(conn[c].to["server"], 1, n)
      BY <1>1
    <3>2. PICK old, to, new, up, rest :
            /\ old = Held(Srv(c)) /\ to = conn[c].to["server"] /\ new = Up(c)' /\ up = Up(c)
            /\ rest = SubSeq(to, n + 1, Len(to))
      OBVIOUS
    <3>3. old \in Seq(Tokens) /\ to \in Seq(Tokens)
      BY <1>0, <3>2, ServerTypes
    <3>4. Reads(old, to, n, new, rest, up)
      BY <1>3, <3>1, <3>2 DEF Reads, Up
    <3>5. Parts(up, new, rest)
      BY <3>1, <3>2, <3>3, <3>4, Reading
    <3> QED
      BY <3>2, <3>5
  <2>2. \A id : IsSent(id) => IsSent(id)'
    BY <1>0, SentGrows
  <2>3. \A i \in DOMAIN conn'[c].to["client"] :
            Given(conn'[c].to["client"][i].m.id, conn'[c].to["client"][i].m.kind)
    BY <1>1, NoTokens
  <2> QED
    BY <2>1, <2>2, <2>3, ReachesLess
<1>6. \A i \in DOMAIN client'[k].buf : Given(client'[k].buf[i].m.id, client'[k].buf[i].m.kind)
  BY NoTokens
<1>7. BodyAhead(k)'
  BY DEF BodyAhead
<1>8. FitsThen(k, t)
  BY <1>0, <1>4 DEF FitsThen
<1> QED
  BY <1>0, <1>1, <1>2, <1>3, <1>4, <1>5, <1>6, <1>7, <1>8, ClientTurn

LEMMA SendTold ==
    ASSUME ToldInv, HttpInv', UNCHANGED <<worker, jobs, listener, ran>>,
           NEW k \in Clients, send_(k)
    PROVE  ToldInv'
<1>1. Shape /\ ClientOK(k)
  BY DEF ToldInv, Shape
<1>2. /\ SameCall(k) /\ client[k].pc = "send" /\ client'[k].buf = client[k].buf
      /\ \/ client'[k].pc = "head" /\ client'[k].sock = client[k].sock /\ UNCHANGED conn
         \/ /\ client'[k].pc = "connect" /\ client'[k].sock = None
            /\ SocketsOK' /\ ClosedEnd(client[k].sock, "client")
  BY <1>1, SendDoes
<1>3. OnlyClient(k) /\ client'[k].n = client[k].n /\ client'[k].req = client[k].req
      /\ client[k].buf = <<>> /\ client[k].sock # None
  BY <1>1, <1>2 DEF SameCall, ClientOK
<1>4. ~Launched(client[k])
  BY <1>2, LaunchedNot
<1>5. CASE client'[k].pc = "head" /\ client'[k].sock = client[k].sock /\ UNCHANGED conn
  <2>1. ClientOK(k)'
    BY <1>1, <1>2, <1>3, <1>5 DEF ClientOK
  <2>2. ASSUME NEW c \in Conns, client[k].sock = c PROVE FitsThen(k, c)
    <3>1. ~Asking(client[k]) /\ ~Asking(client'[k])
      BY <1>2, <1>5 DEF Asking
    <3>2. \A up, down, v, at :
              Fits(k, client[k], up, down, v, at) => Fits(k, client'[k], up, down, v, at)
      BY <3>1, FitsQuiet
    <3> QED
      BY <1>2, <1>5, <2>2, <3>2, FitsAlone
  <2>3. UNCHANGED <<conn, worker, jobs, listener, ran>> /\ client'[k].pc # "body" /\ client'[k].pc # "idle"
    BY <1>5
  <2> QED
    BY <1>2, <1>3, <1>4, <1>5, <2>1, <2>2, <2>3, AloneTurn
<1>6. CASE /\ client'[k].pc = "connect" /\ client'[k].sock = None
           /\ SocketsOK' /\ ClosedEnd(client[k].sock, "client")
  <2>1. PICK c \in Conns : c = client[k].sock
    BY <1>1, <1>3, SocksTyped
  <2>2. ClientOK(k)'
    BY <1>1, <1>2, <1>3, <1>6 DEF ClientOK
  <2>3. client'[k].pc # "body" /\ client'[k].pc # "idle" /\ client'[k].buf = <<>>
    BY <1>2, <1>3, <1>6
  <2> QED
    BY <1>2, <1>4, <1>6, <2>1, <2>2, <2>3, ClosedTurn
<1> QED
  BY <1>2, <1>5, <1>6

(* Nothing follows a response that was read in full.                       *)
LEMMA ReturnClears ==
    ASSUME NEW s, NEW up \in Seq(Tokens), NEW down, NEW v, NEW at, InTurn(s, up, down, v, at),
           ServerOK(v), v.pc = "dispatch" => up # <<>>,
           NEW f, NEW to, Parts(down, f, to), Whole(f)
    PROVE  to = <<>> /\ up = <<>> /\ v.pc \notin {"dispatch", "head", "body"}
<1>1. OneMessage(down)
  BY DEF InTurn
<1>2. /\ to = <<>> /\ Begins(down) /\ down[1] = f[1] /\ down[1].m \in Msgs
      /\ Len(down) = 2 + down[1].m.len
  BY <1>1, WholeRequest
<1>3. down # <<>>
  BY <1>2, NoTokens DEF Begins
<1>4. up = <<>> /\ v.pc # "head"
  BY <1>3 DEF InTurn
<1>5. v.pc # "body"
  <2> SUFFICES ASSUME v.pc = "body" PROVE FALSE
    OBVIOUS
  <2>1. Len(down) = 2 /\ down[1].m = v.res /\ v.res.len > 0
    BY DEF InTurn, ServerOK
  <2>2. v.res.len \in Nat
    BY <1>2, <2>1, MsgIs
  <2> QED
    BY <1>2, <2>1, <2>2
<1> QED
  BY <1>2, <1>4, <1>5

(* A new connection, that nobody holds and nobody serves.                  *)
LEMMA ConnectTold ==
    ASSUME ToldInv, HttpInv', UNCHANGED <<worker, jobs, listener, ran>>,
           NEW k \in Clients, NEW listening, create_and_connect_socket(k, listening)
    PROVE  ToldInv'
<1>1. HttpInv /\ Shape /\ SocketsOK /\ ClientOK(k) /\ None \notin Conns
  BY HttpLinkAssumption DEF ToldInv, Shape
<1>2. /\ SameCall(k) /\ client[k].pc = "connect" /\ client'[k].buf = client[k].buf
      /\ \/ \E c \in Slots :
               /\ client'[k].pc = "head" /\ client'[k].sock = c
               /\ Connect(c, Slots)
         \/ /\ client'[k].pc = "return" /\ client'[k].err = "Connection"
            /\ client'[k].sock = client[k].sock /\ UNCHANGED conn
  BY <1>1, ConnectSocketDoes
<1>3. OnlyClient(k) /\ client'[k].n = client[k].n /\ client'[k].req = client[k].req
      /\ client[k].buf = <<>> /\ client[k].sock = None /\ client'[k].buf = <<>>
  BY <1>1, <1>2 DEF SameCall, ClientOK
<1>4. ~Launched(client[k])
  BY <1>2, LaunchedNot
<1>5. CASE /\ client'[k].pc = "return" /\ client'[k].err = "Connection"
           /\ client'[k].sock = client[k].sock /\ UNCHANGED conn
  <2>1. ClientOK(k)'
    BY <1>1, <1>2, <1>3, <1>5 DEF ClientOK
  <2>2. \A c \in Conns : client[k].sock = c => FitsThen(k, c)
    BY <1>1, <1>3
  <2>3. UNCHANGED <<conn, worker, jobs, listener, ran>> /\ client'[k].pc # "body" /\ client'[k].pc # "idle"
    BY <1>5
  <2> QED
    BY <1>2, <1>3, <1>4, <1>5, <2>1, <2>2, <2>3, AloneTurn
<1>6. ASSUME NEW c \in Slots, client'[k].pc = "head", client'[k].sock = c, Connect(c, Slots)
      PROVE  ToldInv'
  <2>1. Slots \in SUBSET Conns /\ c \in Conns
    BY HttpClientAssumption
  <2>2. /\ SocketsOK' /\ OthersSame(c)
        /\ conn[c].at["client"] = "closed" /\ conn[c].at["server"] = "closed"
        /\ conn'[c].at["client"] = "open" /\ conn'[c].at["server"] = "backlog"
        /\ conn'[c].to["client"] = <<>> /\ conn'[c].to["server"] = <<>>
    BY <1>1, <1>6, <2>1, ConnectDoes
  <2>3. \A d \in Conns : d # c => conn'[d] = conn[d]
    BY <2>2 DEF OthersSame
  <2>4. \A l \in Clients \ {k} : client[l].sock # None => client[l].sock # c
    <3>1. \A l \in Clients : client[l].sock # None => conn[client[l].sock].at["client"] = "open"
      BY <1>1 DEF Shape, ClientOK
    <3> QED
      BY <2>2, <3>1
  <2>5. ClientOK(k)'
    BY <1>1, <1>2, <1>3, <1>6, <2>1, <2>2 DEF ClientOK
  <2>6. Shape' /\ \A d : Srv(d)' = Srv(d)
    <3>1. \A d \in Conns : ServerAt(d) = "open" => ServerAt(d)' = "open"
      BY <2>2, <2>3 DEF ServerAt
    <3>2. client'[k].sock \in {None, client[k].sock, c}
      BY <1>6
    <3> QED
      BY <1>1, <1>3, <2>2, <2>3, <2>4, <2>5, <3>1, <3>2, ClientShape
  <2>7. Srv(c) = NoWork
    BY <1>1, <2>2, NotServed DEF ServerAt
  <2>8. Up(c)' = <<>> /\ Up(c) = <<>>
    <3>1. conn[c].to["server"] = <<>>
      BY <1>1, <2>1, <2>2, ConnFields DEF Ends
    <3>2. Up(c)' = <<>> \o <<>> /\ Up(c) = <<>> \o <<>>
      BY <2>2, <2>6, <2>7, <3>1, IdleServer DEF Up
    <3> QED
      BY <3>2, NoTokens, JoinedNone
  <2>9. PICK x, t : x = <<k, client[k].n>> /\ t = client'[k].sock
    OBVIOUS
  <2>10. Reaches(c, x)
    <3>1. \A id : IsSent(id) => IsSent(id)'
      BY <1>1, <1>3, <1>4, SentGrows
    <3>2. \A i \in DOMAIN conn'[c].to["client"] :
              Given(conn'[c].to["client"][i].m.id, conn'[c].to["client"][i].m.kind)
      BY <2>2, NoTokens
    <3> QED
      BY <2>8, <3>1, <3>2, ReachesLess
  <2>11. \A i \in DOMAIN client'[k].buf : Given(client'[k].buf[i].m.id, client'[k].buf[i].m.kind)
    BY <1>3, NoTokens
  <2>12. BodyAhead(k)' /\ client'[k].pc # "idle"
    BY <1>6 DEF BodyAhead
  <2>13. FitsThen(k, t)
    <3>1. client'[k].buf \o conn'[c].to["client"] = <<>>
      BY <1>3, <2>2, NoTokens, JoinedNone
    <3>2. ~Asking(client'[k]) /\ NoWork.pc = "check"
      BY <1>6 DEF Asking, NoWork
    <3>3. Fits(k, client'[k], <<>>, <<>>, NoWork, ServerAt(c)')
      BY <3>2 DEF Fits
    <3> QED
      BY <1>6, <2>7, <2>8, <2>9, <3>1, <3>3 DEF FitsThen
  <2> QED
    BY <1>3, <1>4, <2>3, <2>4, <2>6, <2>9, <2>10, <2>11, <2>12, <2>13, ClientTurn
<1> QED
  BY <1>2, <1>5, <1>6

LEMMA DispatchedHeld ==
    ASSUME Shape, NEW c \in Conns, Srv(c).pc = "dispatch"
    PROVE  Up(c) # <<>>
<1>1. PICK f, to, up : f = Held(Srv(c)) /\ to = conn[c].to["server"] /\ up = Up(c)
  OBVIOUS
<1>2. f \in Seq(Tokens) /\ to \in Seq(Tokens) /\ ServerOK(Srv(c))
  BY <1>1, ServerTypes
<1>3. Parts(up, f, to)
  BY <1>1, <1>2 DEF Parts, Up
<1>4. f # <<>>
  BY <1>1, <1>2, NoTokens DEF ServerOK, Held, Whole, Begins
<1> QED
  BY <1>1, <1>3, <1>4, PartsOf

(* The end of a call.                                                      *)
LEMMA ReturnTold ==
    ASSUME ToldInv, HttpInv', UNCHANGED <<worker, jobs, listener, ran>>,
           NEW k \in Clients, return(k)
    PROVE  ToldInv'
<1>1. Shape /\ ClientOK(k)
  BY DEF ToldInv, Shape
<1>2. /\ SameCall(k) /\ client[k].pc = "return" /\ client'[k].pc = "idle"
      /\ client'[k].buf = <<>>
      /\ client'[k].res = client[k].res /\ client'[k].err = client[k].err
      /\ \/ /\ client[k].sock # None /\ client'[k].sock = None
            /\ SocketsOK' /\ ClosedEnd(client[k].sock, "client")
         \/ /\ client'[k].sock = client[k].sock /\ UNCHANGED conn
            /\ client[k].sock # None =>
                  client[k].err = "Success" /\ ~client[k].req.close
  BY <1>1, ReturnDoes
<1>3. OnlyClient(k) /\ client'[k].n = client[k].n /\ client'[k].req = client[k].req
      /\ client[k].n > 0 /\ client[k].req.close = (k \notin KeepAlive)
  BY <1>1, <1>2 DEF SameCall, ClientOK
<1>4. Launched(client[k]) => Launched(client'[k])
  BY <1>2, <1>3 DEF Launched
<1>5. ASSUME client[k].err = "Success"
      PROVE  /\ client[k].sock \in Conns
             /\ Whole(client[k].buf) /\ client[k].res = client[k].buf[1].m
             /\ Given(client[k].res.id, client[k].res.kind)
             /\ client[k].res.id = client[k].req.id
  <2>1. /\ client[k].sock # None
        /\ Whole(client[k].buf) /\ client[k].res = client[k].buf[1].m
    BY <1>1, <1>2, <1>5 DEF ClientOK
  <2>2. PICK c \in Conns : client[k].sock = c
    BY <1>1, <2>1, SocksTyped
  <2>3. 1 \in DOMAIN client[k].buf
    BY <2>1 DEF Whole, Begins
  <2>4. Given(client[k].res.id, client[k].res.kind)
    BY <2>1, <2>3, GivenBuf
  <2>5. client[k].res.id = client[k].req.id
    <3>1. PICK f, to, down, up, v, at :
            /\ f = client[k].buf /\ to = conn[c].to["client"] /\ down = f \o to /\ up = Up(c)
            /\ v = Srv(c) /\ at = ServerAt(c)
      OBVIOUS
    <3>2. f \in Seq(Tokens) /\ to \in Seq(Tokens) /\ Fits(k, client[k], up, down, v, at)
      BY <1>1, <2>2, <3>1, OwnerIs, ServerTypes
    <3>3. 1 \in DOMAIN down /\ down[1] = f[1]
      <4>1. down = f \o to /\ 1 \in DOMAIN f
        BY <2>3, <3>1
      <4>2. \A i \in DOMAIN f : i \in DOMAIN down /\ down[i] = f[i]
        BY <3>2, <4>1, Joined
      <4> QED
        BY <4>1, <4>2
    <3>4. \A i \in DOMAIN down : down[i].m.id = client[k].req.id
      BY <1>2, <3>2 DEF Fits, Asking, Speaks
    <3> QED
      BY <2>1, <3>1, <3>3, <3>4
  <2> QED
    BY <2>1, <2>2, <2>4, <2>5
<1>6. client'[k].pc = "idle" /\ client'[k].err = "Success" /\ client'[k].n > 0 =>
          /\ Given(client'[k].res.id, client'[k].res.kind)
          /\ client'[k].res.id = client'[k].req.id
  BY <1>2, <1>3, <1>5
<1>7. CASE /\ client[k].sock # None /\ client'[k].sock = None
           /\ SocketsOK' /\ ClosedEnd(client[k].sock, "client")
  <2>1. PICK c \in Conns : c = client[k].sock
    BY <1>1, <1>7, SocksTyped
  <2>2. ClientOK(k)'
    BY <1>1, <1>2, <1>3, <1>7 DEF ClientOK
  <2>3. client'[k].pc # "body"
    BY <1>2
  <2> QED
    BY <1>2, <1>4, <1>6, <1>7, <2>1, <2>2, <2>3, ClosedTurn
<1>8. CASE /\ client'[k].sock = client[k].sock /\ UNCHANGED conn
           /\ client[k].sock # None => client[k].err = "Success" /\ ~client[k].req.close
  <2>1. client[k].sock # None => k \in KeepAlive
    BY <1>3, <1>8
  <2>2. ClientOK(k)'
    BY <1>1, <1>2, <1>3, <1>8, <2>1 DEF ClientOK
  <2>3. ASSUME NEW c \in Conns, client[k].sock = c PROVE FitsThen(k, c)
    <3>1. PICK f, to, down, up, v, at :
            /\ f = client[k].buf /\ to = conn[c].to["client"] /\ down = f \o to /\ up = Up(c)
            /\ v = Srv(c) /\ at = ServerAt(c)
      OBVIOUS
    <3>2. /\ f \in Seq(Tokens) /\ to \in Seq(Tokens) /\ Fits(k, client[k], up, down, v, at)
          /\ ServerOK(v) /\ up \in Seq(Tokens)
      BY <1>1, <2>3, <3>1, OwnerIs, ServerTypes
    <3>3. k \in KeepAlive /\ Whole(f)
      <4>1. client[k].sock # None
        BY <2>3, HttpLinkAssumption
      <4> QED
        BY <1>5, <1>8, <2>1, <3>1, <4>1
    <3>4. InTurn(client[k], up, down, v, at)
      BY <1>2, <3>2, <3>3 DEF Fits, Asking
    <3>5. Parts(down, f, to)
      BY <3>1, <3>2 DEF Parts
    <3>6. to = <<>> /\ up = <<>> /\ v.pc \notin {"dispatch", "head", "body"}
      <4>1. v.pc = "dispatch" => up # <<>>
        BY <1>1, <3>1, <3>2, DispatchedHeld
      <4> QED
        BY <3>2, <3>3, <3>4, <3>5, <4>1, ReturnClears
    <3>7. client'[k].buf \o conn'[c].to["client"] = <<>>
      BY <1>2, <1>8, <3>1, <3>6, NoTokens, JoinedNone
    <3>8. ~Asking(client'[k])
      BY <1>2 DEF Asking
    <3>9. Up(c)' = up /\ ServerAt(c)' = at
      BY <1>8, <3>1 DEF Up, Srv, ServerAt
    <3>10. Fits(k, client'[k], up, <<>>, v, at)
      BY <3>6, <3>8 DEF Fits
    <3> QED
      BY <3>1, <3>7, <3>9, <3>10 DEF FitsThen
  <2>4. UNCHANGED <<conn, worker, jobs, listener, ran>> /\ client'[k].pc # "body"
    BY <1>2, <1>8
  <2> QED
    BY <1>2, <1>3, <1>4, <1>6, <1>8, <2>2, <2>3, <2>4, AloneTurn
<1> QED
  BY <1>2, <1>7, <1>8

(* What a client writes, the server has to read.                           *)
LEMMA UpMore ==
    ASSUME Shape, NEW c \in Conns, Srv(c)' = Srv(c), NEW data \in Seq(Tokens),
           Wrote(c, "client", data)
    PROVE  Up(c)' = IF Gone(c, "server") THEN Up(c) ELSE Up(c) \o data
<1>1. PICK f, to, new : f = Held(Srv(c)) /\ to = conn[c].to["server"] /\ new = conn'[c].to["server"]
  OBVIOUS
<1>2. f \in Seq(Tokens) /\ to \in Seq(Tokens)
  BY <1>1, ServerTypes
<1>3. new = IF Gone(c, "server") THEN to ELSE to \o data
  BY <1>1 DEF Wrote, Other
<1>4. Up(c) = f \o to /\ Up(c)' = f \o new
  BY <1>1 DEF Up
<1>5. f \o (to \o data) = (f \o to) \o data
  BY <1>2, JoinedThree
<1> QED
  BY <1>3, <1>4, <1>5

LEMMA Fresh ==
    ASSUME ToldInv, NEW k \in Clients, client[k].pc = "head", NEW x, x = <<k, client[k].n>>
    PROVE  ~IsSent(x) /\ ran[x] = 0 /\ \A d \in Conns : x \notin IdsIn(Up(d))
<1>1. Shape /\ RunsOnce /\ ClientOK(k) /\ client[k].n \in Nat /\ MaxCalls[k] \in Nat
  BY HttpClientAssumption DEF ToldInv, Shape, ClientRec
<1>2. client[k].n \in 1 .. MaxCalls[k]
  BY <1>1 DEF ClientOK
<1>3. x \in ServerCalls
  BY <1>2, HttpLinkAssumption
<1>4. ~IsSent(x)
  <2> SUFFICES ASSUME NEW l \in Clients, NEW j \in 1 .. client[l].n, x = <<l, j>>,
                      j < client[l].n \/ Launched(client[l])
               PROVE  FALSE
    BY DEF IsSent
  <2>1. l = k /\ j = client[k].n
    OBVIOUS
  <2>2. Launched(client[k])
    BY <1>1, <2>1
  <2> QED
    BY <2>2, LaunchedNot
<1> QED
  BY <1>1, <1>3, <1>4 DEF RunsOnce

LEMMA NowSent ==
    ASSUME NEW k \in Clients, client[k].n \in Nat, client[k].n > 0, client'[k].n = client[k].n,
           Launched(client'[k]), NEW x, x = <<k, client[k].n>>
    PROVE  IsSent(x)'
<1>1. client'[k].n \in 1 .. client'[k].n /\ x = <<k, client'[k].n>>
  OBVIOUS
<1> QED
  BY <1>1 DEF IsSent

LEMMA WroteShape ==
    ASSUME HttpInv, Shape, UNCHANGED <<worker, jobs, listener>>, SocketsOK',
           NEW k \in Clients, OnlyClient(k), ClientOK(k)', client'[k].sock = client[k].sock,
           NEW c \in Conns, client[k].sock = c, NEW data, Wrote(c, "client", data)
    PROVE  Shape' /\ \A d : Srv(d)' = Srv(d)
<1>1. \A l \in Clients \ {k} : client[l].sock # None => client[l].sock # c
  BY DEF Shape, OneClient
<1>2. \A d \in Conns : ServerAt(d) = "open" => ServerAt(d)' = "open"
  BY DEF Wrote, OthersSame, SameAt, ServerAt
<1>3. \A d \in Conns : d # c => conn'[d] = conn[d]
  BY DEF Wrote, OthersSame
<1>4. client'[k].sock \in {None, client[k].sock, c}
  OBVIOUS
<1> QED
  BY <1>1, <1>2, <1>3, <1>4, ClientShape

(* A write of a client.                                                    *)
LEMMA ClientWrites ==
    ASSUME ToldInv, HttpInv', UNCHANGED <<worker, jobs, listener, ran>>, SocketsOK',
           NEW k \in Clients, SameCall(k), ClientOK(k)', client[k].n > 0,
           client'[k].sock = client[k].sock, client'[k].buf = client[k].buf,
           client'[k].pc \in {"body", "read", "return"},
           client'[k].pc = "return" => client'[k].err # "Connection",
           NEW c \in Conns, client[k].sock = c,
           NEW data \in Seq(Tokens), Wrote(c, "client", data),
           NEW x, x = <<k, client[k].n>>,
           NEW up, up = Up(c), NEW new, new = (IF Gone(c, "server") THEN up ELSE up \o data),
           ran[x] = 0, \A d \in Conns : d # c => x \notin IdsIn(Up(d)),
           OneMessage(new), \A i \in DOMAIN new : new[i].m.id = x,
           Begins(new) => (Begins(up) /\ new[1] = up[1]) \/ ~IsSent(x),
           NEW down, down = client[k].buf \o conn[c].to["client"],
           NEW v, v = Srv(c), NEW at, at = ServerAt(c), Fits(k, client'[k], new, down, v, at)
    PROVE  ToldInv'
<1>1. HttpInv /\ Shape /\ OnlyClient(k) /\ client'[k].n = client[k].n /\ client[k].n \in Nat
  BY DEF ToldInv, Shape, ClientRec, SameCall
<1>2. /\ \A d \in Conns : d # c => conn'[d] = conn[d]
      /\ \A d \in Conns : ServerAt(d)' = ServerAt(d)
      /\ conn'[c].to["client"] = conn[c].to["client"]
  BY DEF Wrote, OthersSame, SameAt, ServerAt
<1>3. \A l \in Clients \ {k} : client[l].sock # None => client[l].sock # c
  BY <1>1 DEF Shape, OneClient
<1>4. Shape' /\ \A d : Srv(d)' = Srv(d)
  BY <1>1, WroteShape
<1>5. Up(c)' = new
  <2>1. Up(c)' = IF Gone(c, "server") THEN Up(c) ELSE Up(c) \o data
    BY <1>1, <1>4, UpMore
  <2> QED
    BY <2>1
<1>6. Launched(client'[k])
  BY <1>1 DEF Launched
<1>7. IsSent(x)'
  BY <1>1, <1>6, NowSent
<1>8. Reaches(c, x)
  <2>1. IdsIn(new) \subseteq {x}
    BY DEF IdsIn
  <2>2. Begins(new) => new[1].m.id = x
    BY DEF Begins
  <2>3. \A i \in DOMAIN conn'[c].to["client"] :
            Given(conn'[c].to["client"][i].m.id, conn'[c].to["client"][i].m.kind)
    BY <1>2, GivenDown
  <2> QED
    BY <1>5, <1>7, <2>1, <2>2, <2>3 DEF Reaches
<1>9. \A i \in DOMAIN client'[k].buf : Given(client'[k].buf[i].m.id, client'[k].buf[i].m.kind)
  BY GivenBuf
<1>10. BodyAhead(k)'
  <2>1. \A d \in Conns : d # c => x \notin IdsIn(Up(d))'
    BY <1>2, <1>4, UpElsewhere
  <2>2. client'[k].sock = c /\ <<k, client'[k].n>> = x /\ ran'[x] = 0
    BY <1>1
  <2> QED
    BY <2>1, <2>2 DEF BodyAhead
<1>11. FitsThen(k, c) /\ c = client'[k].sock
  BY <1>2, <1>5 DEF FitsThen
<1>12. client'[k].pc # "idle"
  OBVIOUS
<1> QED
  BY <1>1, <1>2, <1>3, <1>4, <1>6, <1>8, <1>9, <1>10, <1>11, <1>12, ClientTurn

LEMMA WriteHeadTold ==
    ASSUME ToldInv, HttpInv', UNCHANGED <<worker, jobs, listener, ran>>,
           NEW k \in Clients, write_head(k)
    PROVE  ToldInv'
<1>1. Shape /\ ClientOK(k)
  BY DEF ToldInv, Shape
<1>2. /\ SameCall(k) /\ client[k].pc = "head" /\ client'[k].buf = client[k].buf
      /\ client'[k].sock = client[k].sock
      /\ \/ client'[k].pc = IF client[k].req.len > 0 THEN "body" ELSE "read"
         \/ /\ client'[k].pc = "return" /\ client'[k].err = "Write"
            /\ Gone(client[k].sock, "server")
      /\ client[k].req \in Msgs
      /\ SocketsOK' /\ Wrote(client[k].sock, "client", HeadOf(client[k].req))
  BY <1>1, WriteHeadDoes
<1>3. /\ OnlyClient(k) /\ client'[k].n = client[k].n /\ client'[k].req = client[k].req
      /\ client[k].n > 0 /\ client[k].sock # None /\ client[k].buf = <<>>
      /\ client[k].req.id = <<k, client[k].n>>
  BY <1>1, <1>2 DEF SameCall, ClientOK
<1>4. PICK c \in Conns : c = client[k].sock
  BY <1>1, <1>3, SocksTyped
<1>5. PICK x, h, up, new, down, v, at :
        /\ x = <<k, client[k].n>> /\ h = HeadOf(client[k].req) /\ up = Up(c)
        /\ new = (IF Gone(c, "server") THEN up ELSE up \o h)
        /\ down = client[k].buf \o conn[c].to["client"] /\ v = Srv(c) /\ at = ServerAt(c)
  OBVIOUS
<1>6. ~IsSent(x) /\ ran[x] = 0 /\ \A d \in Conns : x \notin IdsIn(Up(d))
  BY <1>2, <1>5, Fresh
<1>7. up = <<>> /\ down = <<>> /\ v.pc \notin {"dispatch", "head", "body"}
  <2>1. Fits(k, client[k], up, down, v, at)
    BY <1>4, <1>5, OwnerIs
  <2>2. ~Asking(client[k])
    BY <1>2 DEF Asking
  <2> QED
    BY <2>1, <2>2 DEF Fits
<1>8. /\ h \in Seq(Tokens) /\ Len(h) = 2 /\ Begins(h) /\ OneMessage(h)
      /\ \A i \in DOMAIN h : h[i].m = client[k].req
  BY <1>2, <1>5, HeadIs
<1>9. new = IF Gone(c, "server") THEN <<>> ELSE h
  BY <1>5, <1>7, <1>8, JoinedNone
<1>10. OneMessage(new) /\ \A i \in DOMAIN new : new[i].m = client[k].req
  BY <1>8, <1>9, EmptyMessage, NoTokens
<1>11. \A i \in DOMAIN new : new[i].m.id = x
  BY <1>3, <1>5, <1>10
<1>12. ClientOK(k)'
  <2>1. conn'[c].at["client"] = conn[c].at["client"]
    BY <1>2, <1>4 DEF Wrote, SameAt
  <2>2. client'[k].sock = c /\ conn'[c].at["client"] = "open"
    BY <1>1, <1>2, <1>3, <1>4, <2>1 DEF ClientOK
  <2> QED
    BY <1>1, <1>2, <1>3, <2>2 DEF ClientOK
<1>13. Fits(k, client'[k], new, down, v, at)
  <2>1. Asking(client'[k])
    BY <1>2 DEF Asking
  <2>2. Len(new) <= 2
    <3>1. Len(<<>>) = 0 /\ Len(h) = 2
      BY <1>8, NoTokens
    <3>2. new = <<>> \/ new = h
      BY <1>9
    <3>3. Len(new) = 0 \/ Len(new) = 2
      BY <3>1, <3>2
    <3> QED
      BY <3>3
  <2>3. client'[k].pc = "body" => client[k].req.len > 0
    BY <1>2
  <2>4. Speaks(client'[k], new, down, v)
    BY <1>3, <1>7, <1>10, <2>2, <2>3, NoTokens DEF Speaks
  <2>5. new # <<>> => Begins(new)
    BY <1>8, <1>9
  <2>6. at # "closed" => new # <<>>
    BY <1>5, <1>8, <1>9, NoTokens DEF Gone, ServerAt
  <2>7. InTurn(client'[k], new, down, v, at)
    BY <1>7, <2>5, <2>6, EmptyMessage DEF InTurn
  <2> QED
    BY <2>1, <2>4, <2>7 DEF Fits
<1>14. client'[k].pc \in {"body", "read", "return"} /\ (client'[k].pc = "return" => client'[k].err # "Connection")
  BY <1>2
<1> QED
  BY <1>2, <1>3, <1>4, <1>5, <1>6, <1>8, <1>10, <1>11, <1>12, <1>13, <1>14, ClientWrites

LEMMA WriteBodyTold ==
    ASSUME ToldInv, HttpInv', UNCHANGED <<worker, jobs, listener, ran>>,
           NEW k \in Clients, write_body(k)
    PROVE  ToldInv'
<1>1. Shape /\ ClientOK(k) /\ BodyAhead(k)
  BY DEF ToldInv, Shape, RunsOnce
<1>2. /\ SameCall(k) /\ client[k].pc = "body" /\ client'[k].buf = client[k].buf
      /\ client'[k].sock = client[k].sock
      /\ \/ client'[k].pc = "read"
         \/ client'[k].pc = "return" /\ client'[k].err = "Write"
      /\ client[k].req \in Msgs
      /\ SocketsOK' /\ Wrote(client[k].sock, "client", BodyOf(client[k].req))
  BY <1>1, WriteBodyDoes
<1>3. /\ OnlyClient(k) /\ client'[k].n = client[k].n /\ client'[k].req = client[k].req
      /\ client[k].n > 0 /\ client[k].sock # None /\ client[k].buf = <<>>
      /\ client[k].req.id = <<k, client[k].n>>
  BY <1>1, <1>2 DEF SameCall, ClientOK
<1>4. PICK c \in Conns : c = client[k].sock
  BY <1>1, <1>3, SocksTyped
<1>5. PICK x, h, up, new, down, v, at :
        /\ x = <<k, client[k].n>> /\ h = BodyOf(client[k].req) /\ up = Up(c)
        /\ new = (IF Gone(c, "server") THEN up ELSE up \o h)
        /\ down = client[k].buf \o conn[c].to["client"] /\ v = Srv(c) /\ at = ServerAt(c)
  OBVIOUS
<1>6. ran[x] = 0 /\ \A d \in Conns : d # c => x \notin IdsIn(Up(d))
  BY <1>1, <1>2, <1>4, <1>5 DEF BodyAhead
<1>7. /\ Speaks(client[k], up, down, v)
      /\ k \in KeepAlive => InTurn(client[k], up, down, v, at)
  <2>1. Fits(k, client[k], up, down, v, at)
    BY <1>4, <1>5, OwnerIs
  <2>2. Asking(client[k])
    BY <1>2 DEF Asking
  <2> QED
    BY <2>1, <2>2 DEF Fits
<1>8. up \in Seq(Tokens) /\ OneMessage(up) /\ Len(up) <= 2 /\ \A i \in DOMAIN up : up[i].m = client[k].req
  BY <1>1, <1>2, <1>5, <1>7, ServerTypes DEF ToldInv, Speaks
<1>9. /\ OneMessage(new) /\ \A i \in DOMAIN new : new[i].m = client[k].req
      /\ Begins(new) <=> Begins(up)
      /\ up # <<>> => new[1] = up[1]
      /\ Gone(c, "server") => new = up
  <2>1. CASE Gone(c, "server")
    BY <1>5, <1>8, <2>1
  <2>2. CASE ~Gone(c, "server")
    <3>1. WithBody(up, client[k].req, new)
      BY <1>5, <2>2 DEF WithBody
    <3> QED
      BY <1>2, <1>8, <2>2, <3>1, BodyFollows
  <2> QED
    BY <2>1, <2>2
<1>10. Begins(up) => up # <<>>
  BY NoTokens DEF Begins
<1>11. \A i \in DOMAIN new : new[i].m.id = x
  BY <1>3, <1>5, <1>9
<1>12. ClientOK(k)'
  <2>1. conn'[c].at["client"] = conn[c].at["client"]
    BY <1>2, <1>4 DEF Wrote, SameAt
  <2>2. client'[k].sock = c /\ conn'[c].at["client"] = "open"
    BY <1>1, <1>2, <1>3, <1>4, <2>1 DEF ClientOK
  <2> QED
    BY <1>1, <1>2, <1>3, <2>2 DEF ClientOK
<1>13. Fits(k, client'[k], new, down, v, at)
  <2>1. Asking(client'[k]) /\ client'[k].pc # "body"
    BY <1>2 DEF Asking
  <2>2. Speaks(client'[k], new, down, v)
    BY <1>3, <1>7, <1>9, <2>1 DEF Speaks
  <2>3. ASSUME k \in KeepAlive PROVE InTurn(client'[k], new, down, v, at)
    <3>1. InTurn(client[k], up, down, v, at)
      BY <1>7, <2>3
    <3>2. at # "closed" <=> ~Gone(c, "server")
      BY <1>5 DEF Gone, ServerAt
    <3>3. up # <<>> => Begins(up) /\ down = <<>> /\ v.pc \notin {"head", "body"}
      BY <3>1 DEF InTurn
    <3>4. at # "closed" => up # <<>>
      BY <1>2, <3>1 DEF InTurn
    <3>5. new # <<>> => Begins(new) /\ down = <<>> /\ v.pc \notin {"head", "body"}
      BY <1>9, <3>2, <3>3, <3>4
    <3> QED
      BY <2>1, <3>1, <3>5 DEF InTurn
  <2> QED
    BY <2>1, <2>2, <2>3 DEF Fits
<1>14. client'[k].pc \in {"body", "read", "return"} /\ (client'[k].pc = "return" => client'[k].err # "Connection")
  BY <1>2
<1>15. Begins(new) => (Begins(up) /\ new[1] = up[1]) \/ ~IsSent(x)
  BY <1>9, <1>10
<1>16. h \in Seq(Tokens) /\ Wrote(c, "client", h)
  BY <1>2, <1>4, <1>5, BodyIs
<1> QED
  BY <1>2, <1>3, <1>4, <1>5, <1>6, <1>9, <1>11, <1>12, <1>13, <1>14, <1>15, <1>16, ClientWrites

LEMMA TookShape ==
    ASSUME HttpInv, Shape, UNCHANGED <<worker, jobs, listener>>, SocketsOK',
           NEW k \in Clients, OnlyClient(k), ClientOK(k)', client'[k].sock = client[k].sock,
           NEW c \in Conns, client[k].sock = c, NEW n, Took(c, "client", n)
    PROVE  Shape' /\ \A d : Srv(d)' = Srv(d)
<1>1. \A l \in Clients \ {k} : client[l].sock # None => client[l].sock # c
  BY DEF Shape, OneClient
<1>2. \A d \in Conns : ServerAt(d) = "open" => ServerAt(d)' = "open"
  BY DEF Took, OthersSame, SameAt, ServerAt
<1>3. \A d \in Conns : d # c => conn'[d] = conn[d]
  BY DEF Took, OthersSame
<1>4. client'[k].sock \in {None, client[k].sock, c}
  OBVIOUS
<1> QED
  BY <1>1, <1>2, <1>3, <1>4, ClientShape

LEMMA ReadResponseTold ==
    ASSUME ToldInv, HttpInv', UNCHANGED <<worker, jobs, listener, ran>>,
           NEW k \in Clients, read_response(k)
    PROVE  ToldInv'
<1>1. HttpInv /\ Shape /\ ClientOK(k)
  BY DEF ToldInv, Shape
<1>2. PICK c : c = client[k].sock
  OBVIOUS
<1>3. /\ SameCall(k) /\ client[k].pc = "read" /\ client'[k].sock = c /\ c \in Conns
      /\ client'[k].pc \in {"read", "return"}
      /\ \E n \in 1 .. Len(conn[c].to["client"]) :
            /\ SocketsOK' /\ Took(c, "client", n)
            /\ client'[k].buf = client[k].buf \o Received(c, "client", n)
      /\ client'[k].pc = "return" => client'[k].err \in {"Success", "Read"}
      /\ client'[k].pc = "return" /\ client'[k].err = "Success" =>
            Whole(client'[k].buf) /\ client'[k].res = client'[k].buf[1].m
  BY <1>1, <1>2, ReadResponseDoes
<1>4. OnlyClient(k) /\ client'[k].n = client[k].n /\ client'[k].req = client[k].req
  BY <1>3 DEF SameCall
<1>5. PICK n \in 1 .. Len(conn[c].to["client"]) :
        /\ SocketsOK' /\ Took(c, "client", n)
        /\ client'[k].buf = client[k].buf \o Received(c, "client", n)
  BY <1>3
<1>6. PICK x, up, v, at : x = <<k, client[k].n>> /\ up = Up(c) /\ v = Srv(c) /\ at = ServerAt(c)
  OBVIOUS
<1>7. PICK old, to, f, rest, down :
        /\ old = client[k].buf /\ to = conn[c].to["client"] /\ f = client'[k].buf
        /\ rest = conn'[c].to["client"] /\ down = old \o to
  OBVIOUS
<1>8. /\ old \in Seq(Tokens) /\ to \in Seq(Tokens) /\ conn[c].at["client"] = "open"
      /\ Fits(k, client[k], up, down, v, at)
  BY <1>1, <1>2, <1>3, <1>6, <1>7, OwnerIs, ServerTypes
<1>9. Parts(down, f, rest)
  <2>1. n \in 0 .. Len(to)
    BY <1>7, <1>8, TokenAt
  <2>2. Reads(old, to, n, f, rest, down)
    BY <1>5, <1>7 DEF Reads, Received, Took
  <2> QED
    BY <1>8, <2>1, <2>2, Reading
<1>10. f \in Seq(Tokens) /\ rest \in Seq(Tokens) /\ down = f \o rest
  BY <1>9 DEF Parts
<1>11. \A i \in DOMAIN down : Given(down[i].m.id, down[i].m.kind)
  <2>1. \A i \in DOMAIN down : \/ i \in DOMAIN old /\ down[i] = old[i]
                               \/ i - Len(old) \in DOMAIN to /\ down[i] = to[i - Len(old)]
    <3>1. down = old \o to
      BY <1>7
    <3> QED
      BY <1>8, <3>1, Joined
  <2>2. \A i \in DOMAIN old : Given(old[i].m.id, old[i].m.kind)
    BY <1>7, GivenBuf
  <2>3. \A i \in DOMAIN to : Given(to[i].m.id, to[i].m.kind)
    BY <1>3, <1>7, GivenDown
  <2> QED
    BY <2>1, <2>2, <2>3
<1>12. /\ \A i \in DOMAIN f : Given(f[i].m.id, f[i].m.kind)
       /\ \A i \in DOMAIN rest : Given(rest[i].m.id, rest[i].m.kind)
  <2>1. /\ \A i \in DOMAIN f : i \in DOMAIN down /\ down[i] = f[i]
        /\ \A i \in DOMAIN rest : Len(f) + i \in DOMAIN down /\ down[Len(f) + i] = rest[i]
    BY <1>10, Joined
  <2> QED
    BY <1>11, <2>1
<1>13. /\ \A d \in Conns : d # c => conn'[d] = conn[d]
       /\ \A d \in Conns : ServerAt(d)' = ServerAt(d)
       /\ conn'[c].to["server"] = conn[c].to["server"] /\ conn'[c].at = conn[c].at
  BY <1>5 DEF Took, OthersSame, SameAt, ServerAt, Other
<1>14. ClientOK(k)'
  <2>1. conn'[c].at["client"] = "open" /\ c # None
    BY <1>3, <1>8, <1>13, HttpLinkAssumption
  <2>2. client[k].n > 0 /\ client'[k].n <= MaxCalls[k]
    BY <1>1, <1>3, <1>4 DEF ClientOK
  <2> QED
    BY <1>1, <1>3, <1>4, <2>1, <2>2 DEF ClientOK
<1>15. \A l \in Clients \ {k} : client[l].sock # None => client[l].sock # c
  BY <1>1, <1>2 DEF Shape, OneClient
<1>16. Shape' /\ \A d : Srv(d)' = Srv(d)
  <2>1. client'[k].sock = client[k].sock /\ client[k].sock = c /\ c \in Conns
    BY <1>2, <1>3
  <2> QED
    BY <1>1, <1>4, <1>5, <1>14, <2>1, TookShape
<1>17. Up(c)' = up
  BY <1>6, <1>13, <1>16 DEF Up
<1>18. Launched(client[k]) => Launched(client'[k])
  BY <1>3, <1>4 DEF Launched
<1>19. Reaches(c, x)
  <2>1. \A id : IsSent(id) => IsSent(id)'
    BY <1>1, <1>4, <1>18, SentGrows
  <2>2. \A i \in DOMAIN conn'[c].to["client"] :
            Given(conn'[c].to["client"][i].m.id, conn'[c].to["client"][i].m.kind)
    BY <1>7, <1>12
  <2> QED
    BY <1>6, <1>17, <2>1, <2>2, ReachesLess
<1>20. \A i \in DOMAIN client'[k].buf : Given(client'[k].buf[i].m.id, client'[k].buf[i].m.kind)
  BY <1>7, <1>12
<1>21. BodyAhead(k)' /\ client'[k].pc # "idle"
  BY <1>3 DEF BodyAhead
<1>22. FitsThen(k, c)
  <2>1. Asking(client[k]) /\ Asking(client'[k]) /\ client'[k].pc # "body"
    BY <1>3 DEF Asking
  <2>2. Fits(k, client'[k], up, down, v, at)
    BY <1>4, <1>8, <2>1, FitsEnded
  <2>3. client'[k].buf \o conn'[c].to["client"] = down
    BY <1>7, <1>10
  <2>4. ServerAt(c)' = at
    BY <1>3, <1>6, <1>13
  <2> QED
    BY <1>6, <1>17, <2>2, <2>3, <2>4 DEF FitsThen
<1>23. c = client'[k].sock /\ \A d \in Conns : d # c => conn'[d] = conn[d]
  BY <1>3, <1>13
<1> QED
  BY <1>4, <1>6, <1>15, <1>16, <1>18, <1>19, <1>20, <1>21, <1>22, <1>23, ClientTurn

LEMMA ClientTold ==
    ASSUME ToldInv, HttpInv', UNCHANGED <<worker, jobs, listener, ran>>, NEW k \in Clients,
           \/ \E r \in Requests[k] : Call(k, r)
           \/ ClientStep(k, Listening)
           \/ read_timeout(k)
    PROVE  ToldInv'
BY CallTold, SendTold, ConnectTold, WriteHeadTold, WriteBodyTold, ReadResponseTold,
   ReadFailsTold, ReturnTold DEF ClientStep

LEMMA StandsShape ==
    ASSUME Shape, UNCHANGED <<conn, client, worker, jobs, listener>>
    PROVE  Shape'
<1>1. SocketsOK' /\ client' \in [Clients -> ClientRec] /\ (\A k \in Clients : ClientOK(k)') /\ OneClient'
  BY ConnStays, ClientsStay DEF Shape
<1>2. OneServer' <=> OneServer
  BY DEF OneServer, Busy, ServerAt
<1> QED
  BY <1>1, <1>2 DEF Shape

LEMMA NextTold ==
    ASSUME ~SlowWriters, ToldInv, [Next]_linkVars
    PROVE  ToldInv'
<1>1. HttpInv'
  BY NextHttp DEF ToldInv
<1>2. ASSUME NEW k \in Clients, UNCHANGED serverVars,
             \/ \E r \in Requests[k] : Call(k, r)
             \/ ClientStep(k, Listening)
             \/ read_timeout(k)
      PROVE  ToldInv'
  BY <1>1, <1>2, ClientTold DEF serverVars, poolVars
<1>3. ASSUME UNCHANGED client,
             \/ ListenerStep
             \/ accept_fails \/ kill
             \/ \E w \in Workers : WorkerStep(w) \/ spurious_wakeup(w)
      PROVE  ToldInv'
  BY <1>1, <1>3, ListenerStepTold, AcceptFailsTold, KillTold, WorkerTold
<1>4. ASSUME UNCHANGED linkVars PROVE ToldInv'
  <2>1. UNCHANGED <<conn, client, worker, jobs, listener, ran>>
    BY <1>4 DEF linkVars, serverVars, poolVars
  <2>2. Shape'
    BY <2>1, StandsShape DEF ToldInv
  <2>3. \A d \in Conns : Srv(d)' = Srv(d)
    BY <2>1 DEF Srv
  <2> QED
    BY <1>1, <2>1, <2>2, <2>3, StillTold
<1> QED
  BY <1>2, <1>3, <1>4 DEF Next

LEMMA InitTold == Init => ToldInv
<1> SUFFICES ASSUME Init PROVE ToldInv
  OBVIOUS
<1>1. HttpInv
  BY InitHttp
<1>2. /\ conn = [c \in Conns |-> NoConn]
      /\ client = [k \in Clients |->
             [pc |-> "idle", n |-> 0, sock |-> None, req |-> None,
              buf |-> <<>>, res |-> None, err |-> "Success"]]
      /\ jobs = <<>> /\ worker = [w \in Workers |-> NoWork] /\ listener.pc # "enqueue"
      /\ ran = [id \in ServerCalls |-> 0]
  BY DEF Init, ClientInit, ServerInit
<1>3. /\ \A k \in Clients : /\ client[k].pc = "idle" /\ client[k].n = 0 /\ client[k].sock = None
                            /\ client[k].buf = <<>> /\ client[k] \in ClientRec
      /\ client \in [Clients -> ClientRec]
  <2>1. [pc |-> "idle", n |-> 0, sock |-> None, req |-> None,
         buf |-> <<>>, res |-> None, err |-> "Success"] \in ClientRec
    BY NoTokens DEF ClientRec
  <2> QED
    BY <1>2, <2>1
<1>4. NoConn = [at |-> [e \in Ends |-> "closed"], to |-> [e \in Ends |-> <<>>]]
  BY DEF NoConn
<1>5. SocketsOK
  <2>1. NoConn \in [at : [Ends -> {"closed", "open", "backlog"}], to : [Ends -> Seq(Tokens)]]
    BY <1>4, NoTokens
  <2> QED
    BY <1>2, <1>4, <2>1 DEF SocketsOK, SocketTypes
<1>6. Shape
  <2>1. \A k \in Clients : ClientOK(k)
    BY <1>3, HttpClientAssumption DEF ClientOK
  <2>2. OneClient
    BY <1>3 DEF OneClient
  <2>3. \A w \in Workers : ServerOK(worker[w]) /\ ~Busy(w)
    BY <1>2, IdleServer DEF Busy, OnDuty
  <2>4. OneServer
    BY <1>2, <2>3, EmptySeq, NoTokens DEF OneServer
  <2> QED
    BY <1>3, <1>5, <2>1, <2>2, <2>3, <2>4 DEF Shape
<1>7. \A c \in Conns : /\ Srv(c) = NoWork /\ conn[c].to["client"] = <<>>
                       /\ conn[c].to["server"] = <<>>
  <2>1. ASSUME NEW c \in Conns PROVE conn[c].to["client"] = <<>> /\ conn[c].to["server"] = <<>>
                                     /\ ServerAt(c) # "open"
    BY <1>2, <1>4 DEF ServerAt, Ends
  <2> QED
    BY <1>6, <2>1, NotServed
<1>8. \A c \in Conns : Up(c) = <<>>
  BY <1>7, IdleServer, NoTokens, JoinedNone DEF Up
<1>9. \A id : ~IsSent(id)
  BY <1>3 DEF IsSent
<1>10. RunsOnce
  <2>1. \A k \in Clients : BodyAhead(k)
    BY <1>3 DEF BodyAhead
  <2>2. DOMAIN ran = ServerCalls /\ \A id \in ServerCalls : ran[id] = 0
    BY <1>2
  <2>3. \A c \in Conns : IdsIn(Up(c)) = {}
    BY <1>8, NoTokens
  <2> QED
    BY <2>1, <2>2, <2>3 DEF RunsOnce
<1>11. AnswersTell
  <2> SUFFICES ASSUME NEW id, NEW kind, Given(id, kind) PROVE FALSE
    BY DEF AnswersTell
  <2>1. NoWork.pc = "check" /\ DOMAIN <<>> = {}
    BY NoTokens DEF NoWork
  <2> QED
    BY <1>3, <1>7, <2>1 DEF Given, Returned
<1>12. ResultsAreOwn
  BY <1>3 DEF ResultsAreOwn, Returned
<1> QED
  BY <1>1, <1>3, <1>6, <1>8, <1>10, <1>11, <1>12, EmptyMessage DEF ToldInv, LinkOK

LEMMA ToldThenResults == ToldInv => ResultsTellWhatRan
<1> SUFFICES ASSUME ToldInv, NEW k \in Clients, Returned(k)
             PROVE  LET s == client[k]
                        times == ran[s.req.id] IN
                    /\ s.err = "Success" =>
                          /\ s.res.id = s.req.id
                          /\ times = IF s.res.kind = 200 THEN 1 ELSE 0
                    /\ s.err = "Connection" => times = 0
                    /\ times \in {0, 1}
  BY DEF ResultsTellWhatRan
<1>1. /\ client[k].pc = "idle" /\ client[k].n > 0 /\ client[k].n \in 1 .. MaxCalls[k]
      /\ client[k].req.id = <<k, client[k].n>>
  <2>1. Shape /\ ClientOK(k) /\ client[k].n \in Nat /\ MaxCalls[k] \in Nat
    BY HttpClientAssumption DEF ToldInv, Shape, ClientRec
  <2> QED
    BY <2>1 DEF Returned, At, ClientOK
<1>2. PICK x : x = client[k].req.id
  OBVIOUS
<1>3. x = <<k, client[k].n>> /\ x \in ServerCalls
  BY <1>1, <1>2, HttpLinkAssumption
<1>4. ran[x] \in {0, 1} /\ (~IsSent(x) => ran[x] = 0)
  BY <1>3 DEF ToldInv, RunsOnce
<1>5. ASSUME client[k].err = "Success"
      PROVE  /\ client[k].res.id = x
             /\ ran[x] = IF client[k].res.kind = 200 THEN 1 ELSE 0
  <2>1. client[k].res.id = x
    BY <1>2, <1>5 DEF ToldInv, ResultsAreOwn
  <2>2. Given(x, client[k].res.kind)
    BY <1>5, <2>1 DEF Given
  <2> QED
    BY <2>1, <2>2 DEF ToldInv, AnswersTell, Answered
<1>6. ASSUME client[k].err = "Connection" PROVE ran[x] = 0
  <2>1. ~IsSent(x)
    <3> SUFFICES ASSUME NEW l \in Clients, NEW j \in 1 .. client[l].n, x = <<l, j>>,
                        j < client[l].n \/ Launched(client[l])
                 PROVE  FALSE
      BY DEF IsSent
    <3>1. l = k /\ j = client[k].n
      BY <1>3
    <3>2. ~Launched(client[k])
      BY <1>1, <1>6 DEF Launched
    <3>3. client[k].n \in Nat
      BY <1>1
    <3> QED
      BY <3>1, <3>2, <3>3
  <2> QED
    BY <1>4, <2>1
<1> QED
  BY <1>2, <1>4, <1>5, <1>6

(* A Result with a response has the answer to that very request, and tells *)
(* whether its handler ran; without one it ran at most once, and not if no *)
(* connection was made: ResultsTellWhatRan, whatever is lost when sockets  *)
(* are closed and processes killed.  No client on a connection it keeps    *)
(* pauses within a request for longer than the server waits for the rest:  *)
(* the server would parse the rest of that request as a new one.           *)
THEOREM ResultsAreTold ==
    ASSUME ~SlowWriters
    PROVE  Spec => []ResultsTellWhatRan
<1>1. ToldInv /\ [Next]_linkVars => ToldInv'
  BY NextTold
<1> QED
  BY <1>1, InitTold, ToldThenResults, PTL DEF Spec
=============================================================================
