----------------------------- MODULE HttpServer -----------------------------
(***************************************************************************)
(* httplib::Server as kvserver runs it: the thread in listen_internal, the *)
(* ThreadPool and, in its workers, process_and_close_socket.               *)
(*                                                                         *)
(* jobs, shutdown_ and asleep (the threads in cond_.wait) are guarded by   *)
(* the pool's mutex, so each of its critical sections is one step.  The    *)
(* listener signals after it has released the mutex.                       *)
(*                                                                         *)
(* worker[w]: sock the connection it serves, left the requests it may      *)
(* still serve on it, buf what the SocketStream of this request holds (it  *)
(* is lost with the stream), req the request once its headers are parsed,  *)
(* res the answer.  ran[id] counts how often a handler ran for a request.  *)
(***************************************************************************)
EXTENDS HttpStream, KVRoutes

CONSTANTS
    Workers,       \* the threads of the pool
    KeepAliveMax,  \* keep_alive_max_count_
    AnswerLen,     \* length of the body of a handler's answer
    SlowWriters,   \* clients on a connection kept alive may pause in a request
    ServerCalls    \* the requests that are counted

ASSUME HttpServerAssumption ==
    /\ Workers # {}
    /\ KeepAliveMax \in Nat \ {0}
    /\ AnswerLen \in Nat
    /\ SlowWriters \in BOOLEAN

VARIABLES listener, jobs, shutdown_, asleep, worker, ran

poolVars == <<jobs, shutdown_, asleep>>
serverVars == <<listener, poolVars, worker, ran>>

NoWork ==
    [pc |-> "check", sock |-> None, left |-> 0, buf |-> <<>>, req |-> None, res |-> None]

ServerInit ==
    /\ listener = [pc |-> "accept", sock |-> None]
    /\ jobs = <<>>
    /\ shutdown_ = FALSE
    /\ asleep = {}
    /\ worker = [w \in Workers |-> NoWork]
    /\ ran = [id \in ServerCalls |-> 0]

-----------------------------------------------------------------------------
(* listen_internal.                                                        *)
Listening == listener.pc \in {"accept", "enqueue", "notify"}

accept(c) ==
    /\ listener.pc = "accept"
    /\ Accept(c)
    /\ listener' = [pc |-> "enqueue", sock |-> c]
    /\ UNCHANGED <<poolVars, worker, ran>>

enqueue ==
    /\ listener.pc = "enqueue"
    /\ jobs' = Append(jobs, listener.sock)
    /\ listener' = [pc |-> "notify", sock |-> None]
    /\ UNCHANGED <<shutdown_, asleep, worker, ran, conn>>

NotifyNobody ==  \* bug: the signal is forgotten
    /\ listener.pc = "notify"
    /\ listener' = [listener EXCEPT !.pc = "accept"]
    /\ UNCHANGED <<poolVars, worker, ran, conn>>

(* cond_.notify_one wakes a thread that waits, if one does.                *)
notify_one ==
    /\ listener.pc = "notify"
    /\ \/ asleep = {} /\ UNCHANGED asleep
       \/ \E w \in asleep : asleep' = asleep \ {w}
    /\ listener' = [listener EXCEPT !.pc = "accept"]
    /\ UNCHANGED <<jobs, shutdown_, worker, ran, conn>>

(* accept fails for another reason than EMFILE, EINTR or EAGAIN: the       *)
(* server closes its socket, and what no accept has taken is reset.        *)
accept_fails ==
    /\ listener.pc = "accept"
    /\ CloseAll({c \in Conns : conn[c].at["server"] = "backlog"}, "server")
    /\ listener' = [listener EXCEPT !.pc = "shutdown"]
    /\ UNCHANGED <<poolVars, worker, ran>>

(* ThreadPool::shutdown: the flag, notify_all and the joins.               *)
set_shutdown ==
    /\ listener.pc = "shutdown"
    /\ shutdown_' = TRUE
    /\ listener' = [listener EXCEPT !.pc = "notify_all"]
    /\ UNCHANGED <<jobs, asleep, worker, ran, conn>>

notify_all ==
    /\ listener.pc = "notify_all"
    /\ asleep' = {}
    /\ listener' = [listener EXCEPT !.pc = "join"]
    /\ UNCHANGED <<jobs, shutdown_, worker, ran, conn>>

join ==
    /\ listener.pc = "join"
    /\ \A w \in Workers : worker[w].pc = "gone"
    /\ listener' = [listener EXCEPT !.pc = "ended"]
    /\ UNCHANGED <<poolVars, worker, ran, conn>>

ListenerStep ==
    \/ \E c \in Conns : accept(c)
    \/ enqueue \/ notify_one
    \/ set_shutdown \/ notify_all \/ join

-----------------------------------------------------------------------------
(* The loop of a worker.                                                   *)
WorkerAt(w, pc) == worker[w].pc = pc

Step(w, pc) == worker' = [worker EXCEPT ![w].pc = pc]

LeaveOnShutdown(w) ==  \* bug: shutdown_ without a look at the queue
    /\ WorkerAt(w, "check") /\ w \notin asleep
    /\ \/ shutdown_ /\ Step(w, "gone") /\ UNCHANGED <<jobs, asleep>>
       \/ /\ ~shutdown_ /\ jobs # <<>>
          /\ worker' = [worker EXCEPT ![w] = [NoWork EXCEPT
                 !.pc = "keep_alive", !.sock = Head(jobs), !.left = KeepAliveMax]]
          /\ jobs' = Tail(jobs)
          /\ UNCHANGED asleep
       \/ ~shutdown_ /\ jobs = <<>> /\ asleep' = asleep \union {w} /\ UNCHANGED <<jobs, worker>>
    /\ UNCHANGED <<listener, shutdown_, ran, conn>>

(* cond_.wait with its condition, and what follows under the same lock.    *)
next_job(w) ==
    /\ WorkerAt(w, "check") /\ w \notin asleep
    /\ \/ /\ jobs # <<>>
          /\ worker' = [worker EXCEPT ![w] = [NoWork EXCEPT
                 !.pc = "keep_alive", !.sock = Head(jobs), !.left = KeepAliveMax]]
          /\ jobs' = Tail(jobs)
          /\ UNCHANGED asleep
       \/ jobs = <<>> /\ shutdown_ /\ Step(w, "gone") /\ UNCHANGED <<jobs, asleep>>
       \/ jobs = <<>> /\ ~shutdown_ /\ asleep' = asleep \union {w} /\ UNCHANGED <<jobs, worker>>
    /\ UNCHANGED <<listener, shutdown_, ran, conn>>

(* A condition variable may wake a thread for no reason.                   *)
spurious_wakeup(w) ==
    /\ w \in asleep
    /\ asleep' = asleep \ {w}
    /\ UNCHANGED <<listener, jobs, shutdown_, worker, ran, conn>>

-----------------------------------------------------------------------------
(* process_and_close_socket.                                               *)
WaitForever(w) ==  \* bug: a connection that is kept alive has no timeout
    /\ WorkerAt(w, "keep_alive")
    /\ \/ Readable(worker[w].sock, "server") /\ Step(w, "read")
       \/ worker[w].left = 0 /\ Step(w, "close")
    /\ UNCHANGED <<listener, poolVars, ran, conn>>

(* process_server_socket_core and keep_alive: wait for the next request    *)
(* until the timeout, and serve at most KeepAliveMax of them.              *)
keep_alive(w) ==
    LET readable == Readable(worker[w].sock, "server") IN
    /\ WorkerAt(w, "keep_alive")
    /\ \/ readable /\ worker[w].left > 0 /\ Step(w, "read")
       \/ (~readable \/ worker[w].left = 0) /\ Step(w, "close")
    /\ UNCHANGED <<listener, poolVars, ran, conn>>

(* 200 stands for whatever status the handler chose.                       *)
Answer(m, code) ==
    LET len == IF code = 200 THEN AnswerLen ELSE 0 IN
    [id |-> m.id, kind |-> code,
     close |-> m.close \/ (code = 200 /\ SetsClose(m.ask)), len |-> len, size |-> len]

(* Reading ends: bytes that are no request, or a part of one is missing.   *)
(* Once the headers are parsed the request has its say on the connection.  *)
Rejected(s, buf) ==
    LET m == buf[getline(buf)].m
        parsed == Progress(buf) = "content" IN
    [s EXCEPT !.pc = "head", !.buf = buf, !.req = IF parsed THEN m ELSE None,
              !.res = Answer([m EXCEPT !.close = @ /\ parsed], 400)]

(* getline, parse_request_line, read_headers and the read_content that     *)
(* routing makes of a request with a body.                                 *)
Parsed(s, buf) ==
    CASE Progress(buf) = "malformed" -> Rejected(s, buf)
      [] Progress(buf) = "complete"  -> [s EXCEPT !.pc = "dispatch", !.buf = buf, !.req = buf[1].m]
      [] OTHER -> [s EXCEPT !.buf = buf]

read_request(w) ==
    LET c == worker[w].sock IN
    /\ WorkerAt(w, "read")
    /\ \E n \in Arrived(c, "server") :
          /\ Recv(c, "server", n)
          /\ worker' = [worker EXCEPT ![w] = Parsed(@, @.buf \o Received(c, "server", n))]
    /\ UNCHANGED <<listener, poolVars, ran>>

(* The end of the connection, or the read timeout of 5 s.                  *)
MayPause(w) ==
    SlowWriters \/ \A i \in DOMAIN worker[w].buf : worker[w].buf[i].m.close

read_ends(w) ==
    LET c == worker[w].sock
        buf == worker[w].buf IN
    /\ WorkerAt(w, "read") /\ ~HasData(c, "server")
    /\ AtEof(c, "server") \/ MayPause(w)
    /\ \/ Progress(buf) = "line" /\ Step(w, "close")
       \/ /\ Progress(buf) # "line"
          /\ worker' = [worker EXCEPT ![w] = Rejected(@, buf)]
    /\ UNCHANGED <<listener, poolVars, ran, conn>>

(* routing and dispatch_request: the handler runs, or there is none.       *)
dispatch_request(w) ==
    LET m == worker[w].req IN
    /\ WorkerAt(w, "dispatch")
    /\ \/ /\ Routed(m.ask)
          /\ ran' = [ran EXCEPT ![m.id] = @ + 1]
          /\ worker' = [worker EXCEPT ![w].pc = "head", ![w].res = Answer(m, 200)]
       \/ /\ ~Routed(m.ask)
          /\ worker' = [worker EXCEPT ![w].pc = "head", ![w].res = Answer(m, 404)]
          /\ UNCHANGED ran
    /\ UNCHANGED <<listener, poolVars, conn>>

(* write_response_core: the outcome of the first write is not looked at.   *)
LastOne(w) == worker[w].left = 1

(* The request is answered: connection_closed, or the next round.          *)
NextRound(w) ==
    LET s == worker[w] IN
    worker' = [worker EXCEPT ![w] = [NoWork EXCEPT !.sock = s.sock, !.left = s.left - 1,
        !.pc = IF s.req # None /\ s.req.close THEN "close" ELSE "keep_alive"]]

write_response_head(w) ==
    LET m == [worker[w].res EXCEPT !.close = @ \/ LastOne(w)] IN
    /\ WorkerAt(w, "head")
    /\ \E ok \in BOOLEAN : Write(worker[w].sock, "server", HeadOf(m), ok)
    /\ IF m.len = 0 THEN NextRound(w)
       ELSE worker' = [worker EXCEPT ![w].res = m, ![w].pc = "body"]
    /\ UNCHANGED <<listener, poolVars, ran>>

write_response_body(w) ==
    /\ WorkerAt(w, "body")
    /\ \E ok \in BOOLEAN :
          /\ Write(worker[w].sock, "server", BodyOf(worker[w].res), ok)
          /\ IF ok THEN NextRound(w) ELSE Step(w, "close")
    /\ UNCHANGED <<listener, poolVars, ran>>

close_socket(w) ==
    /\ WorkerAt(w, "close")
    /\ Close(worker[w].sock, "server")
    /\ worker' = [worker EXCEPT ![w] = NoWork]
    /\ UNCHANGED <<listener, poolVars, ran>>

(* The process is killed, at whatever it is.                               *)
kill ==
    /\ Listening
    /\ CloseAll({c \in Conns : ~Gone(c, "server")}, "server")
    /\ listener' = [pc |-> "killed", sock |-> None]
    /\ jobs' = <<>>
    /\ asleep' = {}
    /\ worker' = [w \in Workers |-> [NoWork EXCEPT !.pc = "gone"]]
    /\ UNCHANGED <<shutdown_, ran>>

WorkerStep(w) ==
    \/ next_job(w)
    \/ keep_alive(w)
    \/ read_request(w)
    \/ read_ends(w)
    \/ dispatch_request(w)
    \/ write_response_head(w)
    \/ write_response_body(w)
    \/ close_socket(w)
=============================================================================
