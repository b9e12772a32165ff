-------------------------------- MODULE Wire --------------------------------
(***************************************************************************)
(* The load balancer between its clients and the backends, in the parts in *)
(* which TCP delivers what they send: LoadBalancer::acceptClients, one     *)
(* ProxySession per connection and the parsers of HttpHelper.cpp.          *)
(*                                                                         *)
(* session[c] is the thread that serves the client connection c: buf is    *)
(* clientBuffer, req the request it works on, todo the candidates left,    *)
(* sock backendSocket_, rbuf responseBuffer, out primaryResponse.  What    *)
(* the Router returns is here any list of candidates, for its states may   *)
(* change at any time; the module ProxySession has the real ones.          *)
(*                                                                         *)
(* Clients are those of HttpClient, or else one that does not wait for the *)
(* answer to a request before it sends the next (raw).                     *)
(***************************************************************************)
EXTENDS HttpClient

CONSTANTS
    Nodes,
    BackendSlots,    \* connections to the backends
    CandidateLists,  \* CandidateLists[k]: what Router may return for key k
    Codes,           \* the statuses of a backend's answers
    RawAsks,         \* bound: the requests of the client that does not wait
    ReplyLen         \* length of the body of an answer

(* What any client may ask.                                                *)
Asks == (UNION {Requests[k] : k \in Clients}) \union {RawAsks[i] : i \in DOMAIN RawAsks}

ASSUME WireAssumption ==
    /\ None \notin Conns \union Nodes
    /\ Slots # {} /\ BackendSlots \subseteq Conns /\ BackendSlots \intersect Slots = {}
    /\ \A r \in Asks : getKey(r) \in DOMAIN CandidateLists
    /\ \A k \in DOMAIN CandidateLists : \A list \in CandidateLists[k] :
          /\ list \in Seq(Nodes)
          /\ \A i, j \in DOMAIN list : list[i] = list[j] => i = j
    /\ RawAsks \in Seq(Asks)
    /\ ReplyLen \in Nat

VARIABLES
    session,
    backend,   \* backend[b]: the kvserver at the other end of b
    done,      \* done[n]: the requests n has worked on, in order (history)
    raw

wireVars == <<conn, client, session, backend, done, raw>>
lbVars == <<conn, session>>

NoSession ==
    [pc |-> "none", buf |-> <<>>, req |-> None, todo |-> <<>>, sock |-> None,
     rbuf |-> <<>>, out |-> None]

NoBackend == [node |-> None, pc |-> "read", req |-> None, res |-> None]

-----------------------------------------------------------------------------
(* HttpHelper.cpp.                                                         *)
IsWrite(m) == m.ask.method # "GET"

(* "\r\n\r\n" ends the headers; a request needs one line before it.        *)
parseHTTPRequest(buf) ==
    CASE Progress(buf) = "complete"  -> "COMPLETE"
      [] Progress(buf) = "malformed" -> "ERROR"
      [] OTHER -> "INCOMPLETE"

Consumed(buf) == 2 + buf[1].m.len

(* A response is never an error; one without Content-Length, which the     *)
(* servers here do not send, would end with what has arrived.              *)
parseHTTPResponse(buf) ==
    IF Progress(buf) = "complete" THEN "COMPLETE" ELSE "INCOMPLETE"

(* A PUT gets the header X-Internal-Replication.                           *)
Payload(m) ==
    IF m.ask.method = "PUT" THEN [m EXCEPT !.kind = "replicated request"] ELSE m

(* The literal announces 21 bytes and has 23.                              *)
ServiceUnavailable(m) ==
    [id |-> m.id, kind |-> 503, close |-> FALSE, len |-> 1, size |-> 2]

-----------------------------------------------------------------------------
(* acceptClients and forwardTraffic.                                       *)
SessionAt(c, pc) == session[c].pc = pc

SessionTo(c, pc) == session' = [session EXCEPT ![c].pc = pc]

acceptClients(c) ==
    /\ SessionAt(c, "none")
    /\ Accept(c)
    /\ session' = [session EXCEPT ![c].pc = "recv"]

(* The inner loop goes on with the buffer until no request is complete.    *)
Inner(s, buf) ==
    [NoSession EXCEPT !.buf = buf,
       !.req = IF parseHTTPRequest(buf) = "COMPLETE" THEN buf[1].m ELSE None,
       !.pc = CASE parseHTTPRequest(buf) = "COMPLETE" -> "route"
                [] parseHTTPRequest(buf) = "ERROR" -> "close"
                [] OTHER -> "recv"]

recv_client(c) ==
    /\ SessionAt(c, "recv")
    /\ \E n \in Arrived(c, "server") :
          /\ Recv(c, "server", n)
          /\ session' = [session EXCEPT ![c] = Inner(@, @.buf \o Received(c, "server", n))]

client_left(c) ==
    /\ SessionAt(c, "recv") /\ AtEof(c, "server")
    /\ SessionTo(c, "close")
    /\ UNCHANGED conn

Reply(c, m) == \E ok \in BOOLEAN : Write(c, "server", HeadOf(m) \o BodyOf(m), ok)

(* clientBuffer.erase(0, result.consumed).                                 *)
Erased(s) == Inner(s, SubSeq(s.buf, Consumed(s.buf) + 1, Len(s.buf)))

get_candidates(c) ==
    /\ SessionAt(c, "route")
    /\ \E list \in CandidateLists[getKey(session[c].req.ask)] :
          \/ /\ list = <<>>
             /\ Reply(c, ServiceUnavailable(session[c].req))
             /\ SessionTo(c, "close")
          \/ /\ list # <<>>
             /\ session' = [session EXCEPT ![c].pc = "connect", ![c].todo = list]
             /\ UNCHANGED conn

(* connectToBackend: a socket still open would be used as it is.  When it  *)
(* fails the backend is marked DOWN and the next one tried.                *)
connectToBackend(c) ==
    LET s == session[c] IN
    /\ SessionAt(c, "connect") /\ s.todo # <<>>
    /\ IF s.sock # None
       THEN SessionTo(c, "send") /\ UNCHANGED <<conn, backend>>
       ELSE \/ \E b \in BackendSlots :
                  /\ Connect(b, BackendSlots)
                  /\ backend' = [backend EXCEPT ![b] = [NoBackend EXCEPT !.node = Head(s.todo)]]
                  /\ session' = [session EXCEPT ![c].pc = "send", ![c].sock = b]
            \/ /\ session' = [session EXCEPT ![c].todo = Tail(@)]
               /\ UNCHANGED <<conn, backend>>

(* sendAll to the backend, whose outcome is not looked at.                 *)
send_request(c) ==
    LET m == Payload(session[c].req) IN
    /\ SessionAt(c, "send")
    /\ \E ok \in BOOLEAN : Write(session[c].sock, "client", HeadOf(m) \o BodyOf(m), ok)
    /\ session' = [session EXCEPT ![c].pc = "wait", ![c].rbuf = <<>>]

(* readBackendResponse, one recv at a time.                                *)
recv_backend(c) ==
    LET b == session[c].sock IN
    /\ SessionAt(c, "wait")
    /\ \E n \in Arrived(b, "client") :
          LET buf == session[c].rbuf \o Received(b, "client", n) IN
          /\ Recv(b, "client", n)
          /\ session' = [session EXCEPT ![c].rbuf = buf,
                 ![c].pc = IF parseHTTPResponse(buf) = "COMPLETE" THEN "answered" ELSE "wait"]

backend_left(c) ==
    /\ SessionAt(c, "wait") /\ AtEof(session[c].sock, "client")
    /\ SessionTo(c, "failed")
    /\ UNCHANGED conn

KeepBackend(c) ==  \* bug: the socket stays open for the next candidate
    LET s == session[c] IN
    /\ SessionAt(c, "answered")
    /\ session' = [session EXCEPT ![c].todo = Tail(@), ![c].out = s.rbuf[1].m,
           ![c].pc = IF IsWrite(s.req) THEN "connect" ELSE "reply"]
    /\ UNCHANGED conn

(* A write keeps the first response, or a later one that succeeds, and     *)
(* goes on to the next candidate; a read is answered.                      *)
take_response(c) ==
    LET s == session[c]
        m == s.rbuf[1].m IN
    /\ SessionAt(c, "answered")
    /\ Close(s.sock, "client")
    /\ session' = [session EXCEPT ![c].sock = None, ![c].todo = Tail(@),
           ![c].out = IF s.out = None \/ m.kind \in {200, 201} THEN m ELSE s.out,
           ![c].pc = IF IsWrite(s.req) THEN "connect" ELSE "reply"]

(* closeBackend; a read marks the backend DOWN.                            *)
next_candidate(c) ==
    /\ SessionAt(c, "failed")
    /\ Close(session[c].sock, "client")
    /\ session' = [session EXCEPT ![c].pc = "connect", ![c].sock = None, ![c].todo = Tail(@)]

no_candidate_left(c) ==
    /\ SessionAt(c, "connect") /\ session[c].todo = <<>>
    /\ SessionTo(c, "reply")
    /\ UNCHANGED conn

HeadersOnly(c) ==  \* bug: the body of an answer is not relayed
    LET s == session[c] IN
    /\ SessionAt(c, "reply") /\ s.out # None
    /\ \E ok \in BOOLEAN : Write(c, "server", HeadOf(s.out), ok)
    /\ session' = [session EXCEPT ![c] = Erased(s)]

NoBreak(c) ==  \* bug: a read that was answered tries the next candidate
    LET s == session[c] IN
    /\ SessionAt(c, "reply") /\ s.out # None
    /\ Reply(c, s.out)
    /\ session' = [session EXCEPT ![c] =
           IF s.todo # <<>> THEN [s EXCEPT !.pc = "connect", !.out = None] ELSE Erased(s)]

EraseNothing(c) ==  \* bug: a request that was answered stays in the buffer
    LET s == session[c] IN
    /\ SessionAt(c, "reply") /\ s.out # None
    /\ Reply(c, s.out)
    /\ session' = [session EXCEPT ![c] = Inner(s, s.buf)]

(* sendAll to the client, and on to the next request.                      *)
relay(c) ==
    LET s == session[c] IN
    /\ SessionAt(c, "reply") /\ s.out # None
    /\ Reply(c, s.out)
    /\ session' = [session EXCEPT ![c] = Erased(s)]

(* No backend answered: the connection ends, unless it was a write.        *)
relay_503(c) ==
    LET s == session[c] IN
    /\ SessionAt(c, "reply") /\ s.out = None
    /\ Reply(c, ServiceUnavailable(s.req))
    /\ session' = [session EXCEPT ![c] =
           IF IsWrite(s.req) THEN Erased(s) ELSE [NoSession EXCEPT !.pc = "close"]]

(* start() returns and acceptClients' thread closes the socket.            *)
close_client(c) ==
    /\ SessionAt(c, "close")
    /\ Close(c, "server")
    /\ session' = [session EXCEPT ![c] = NoSession]

SessionStep(c) ==
    \/ connectToBackend(c)
    \/ /\ \/ acceptClients(c) \/ recv_client(c) \/ client_left(c) \/ get_candidates(c)
          \/ send_request(c) \/ recv_backend(c) \/ backend_left(c)
          \/ take_response(c) \/ next_candidate(c) \/ no_candidate_left(c)
          \/ relay(c) \/ relay_503(c) \/ close_client(c)
       /\ UNCHANGED backend

-----------------------------------------------------------------------------
(* A kvserver on one connection, as HttpServer has it in detail.           *)
BackendAt(b, pc) == backend[b].node # None /\ backend[b].pc = pc

serve_read(b) ==
    LET buf == conn[b].to["server"] IN
    /\ BackendAt(b, "read") /\ Progress(buf) = "complete"
    /\ conn' = [conn EXCEPT ![b].to["server"] = <<>>, ![b].at["server"] = "open"]
    /\ backend' = [backend EXCEPT ![b].pc = "run", ![b].req = buf[1].m]
    /\ UNCHANGED done

serve_run(b) ==
    LET m == backend[b].req
        n == backend[b].node IN
    /\ BackendAt(b, "run")
    /\ \E code \in Codes :
          /\ backend' = [backend EXCEPT ![b].pc = "write", ![b].req = None, ![b].res =
                 [id |-> m.id, kind |-> code, close |-> TRUE,
                  len |-> ReplyLen, size |-> ReplyLen]]
          /\ done' = [done EXCEPT ![n] = Append(@, [id |-> m.id, kind |-> code])]
    /\ UNCHANGED conn

serve_write(b) ==
    LET m == backend[b].res IN
    /\ BackendAt(b, "write")
    /\ \E ok \in BOOLEAN : Write(b, "server", HeadOf(m) \o BodyOf(m), ok)
    /\ backend' = [backend EXCEPT ![b].pc = "read", ![b].res = None]
    /\ UNCHANGED done

(* The peer has closed, or its request is not complete.                    *)
serve_end(b) ==
    /\ BackendAt(b, "read")
    /\ Gone(b, "client") /\ Progress(conn[b].to["server"]) # "complete"
    /\ Close(b, "server")
    /\ backend' = [backend EXCEPT ![b] = NoBackend]
    /\ UNCHANGED done

(* The process is killed, or the connection lost.                          *)
backend_dies(b) ==
    /\ backend[b].node # None
    /\ Close(b, "server")
    /\ backend' = [backend EXCEPT ![b] = NoBackend]
    /\ UNCHANGED done

BackendStep(b) == serve_read(b) \/ serve_run(b) \/ serve_write(b) \/ serve_end(b)

-----------------------------------------------------------------------------
(* A client that sends its requests one after the other.                   *)
RawConn == CHOOSE c \in Slots : TRUE

RawRequest(i) ==
    LET r == RawAsks[i] IN
    [id |-> <<"raw", i>>, kind |-> "request", ask |-> r,
     close |-> FALSE, len |-> BodyLen(r), size |-> BodyLen(r)]

raw_connect ==
    /\ raw.pc = "new" /\ Connect(RawConn, {RawConn})
    /\ raw' = [raw EXCEPT !.pc = "open"]

raw_send ==
    LET m == RawRequest(raw.sent + 1) IN
    /\ raw.pc = "open" /\ raw.sent < Len(RawAsks)
    /\ \E ok \in BOOLEAN : Write(RawConn, "client", HeadOf(m) \o BodyOf(m), ok)
    /\ raw' = [raw EXCEPT !.sent = @ + 1]

raw_recv ==
    /\ raw.pc = "open"
    /\ \E n \in Arrived(RawConn, "client") :
          /\ Recv(RawConn, "client", n)
          /\ raw' = [raw EXCEPT !.buf = @ \o Received(RawConn, "client", n)]

raw_close ==
    /\ raw.pc = "open" /\ AtEof(RawConn, "client")
    /\ Close(RawConn, "client")
    /\ raw' = [raw EXCEPT !.pc = "closed"]

RawStep == raw_connect \/ raw_send \/ raw_recv \/ raw_close

-----------------------------------------------------------------------------
Init ==
    /\ conn = [c \in Conns |-> NoConn]
    /\ ClientInit
    /\ session = [c \in Slots |-> NoSession]
    /\ backend = [b \in BackendSlots |-> NoBackend]
    /\ done = [n \in Nodes |-> <<>>]
    /\ raw \in [pc : {"absent", "new"}, sent : {0}, buf : {<<>>}]

CallerStep(k) == ClientStep(k, TRUE) /\ UNCHANGED <<session, backend, done, raw>>

LbStep(c) == SessionStep(c) /\ UNCHANGED <<client, done, raw>>

ServeStep(b) == BackendStep(b) /\ UNCHANGED <<client, session, raw>>

Next ==
    \/ /\ \E k \in Clients :
             \/ raw.pc = "absent" /\ \E r \in Requests[k] : Call(k, r)
             \/ read_timeout(k)
       /\ UNCHANGED <<session, backend, done, raw>>
    \/ \E k \in Clients : CallerStep(k)
    \/ \E c \in Slots : LbStep(c)
    \/ \E b \in BackendSlots : ServeStep(b)
    \/ \E b \in BackendSlots : backend_dies(b) /\ UNCHANGED <<client, session, raw>>
    \/ RawStep /\ UNCHANGED <<client, session, backend, done>>

Spec == Init /\ [][Next]_wireVars

(* The load balancer, the backends and a client in a call run on; a        *)
(* client's read timeout is not relied upon.                               *)
FairSpec ==
    /\ Spec
    /\ \A k \in Clients : WF_wireVars(CallerStep(k))
    /\ \A c \in Slots : WF_wireVars(LbStep(c))
    /\ \A b \in BackendSlots : WF_wireVars(ServeStep(b))

-----------------------------------------------------------------------------
(* However the bytes are cut, a call that returns a response has the one   *)
(* to its own request, from a backend that has worked on it unless it is   *)
(* the 503; and no backend works twice on one request.                     *)
ResultsAreAnswers ==
    /\ \A k \in Clients : Returned(k) /\ client[k].err = "Success" =>
          LET m == client[k].res IN
          /\ m.id = client[k].req.id
          /\ m.kind # 503 =>
                \E n \in Nodes : \E i \in DOMAIN done[n] :
                    done[n][i] = [id |-> m.id, kind |-> m.kind]
    /\ \A n \in Nodes : \A i, j \in DOMAIN done[n] :
          done[n][i].id = done[n][j].id => i = j

(* The requests that a client sends without waiting are answered in their  *)
(* order, each once: erase() removes what was consumed and nothing else.   *)
AnswersInOrder ==
    LET lines == {i \in DOMAIN raw.buf : raw.buf[i].t = "line"} IN
    \A i \in lines : raw.buf[i].m.id = <<"raw", Cardinality({j \in lines : j <= i})>>

(* The key by which the load balancer chooses the backends is the key that *)
(* the handler there works on, and only requests whose key is not one word *)
(* find no handler.                                                        *)
OneWord(r) == Len(r.path) = 4 /\ IsWord(r.path[4])

RoutedByItsKey ==
    \A c \in Slots : session[c].req # None =>
        LET r == session[c].req.ask IN
        IF Routed(r) THEN getKey(r) = HandlerKey(r) ELSE ~OneWord(r)

(* What is created under a key can be read under it by GET /kvstore/<key>  *)
(* (README, KV Server).  The code does not keep this.                      *)
CreatedIsReadable ==
    \A c \in Slots : session[c].req # None =>
        LET r == session[c].req.ask IN
        Routed(r) /\ Handler(r) = "handle_create" =>
            LET get == CommandRequest(Line("read", HandlerKey(r), <<>>)) IN
            Routed(get) /\ Handler(get) = "handle_read" /\ HandlerKey(get) = HandlerKey(r)

(* The answer to a request is its end: no backend starts to work on it     *)
(* afterwards.  (A request that the client has given up may still run.)    *)
AnsweredIsOver ==
    [][\A n \in Nodes : done'[n] # done[n] =>
          LET id == done'[n][Len(done'[n])].id IN
          \A k \in Clients :
              id = <<k, client[k].n>> /\ Returned(k) => client[k].err # "Success"]_wireVars

(* Every call returns: no thread waits for bytes that nobody sends.        *)
CallsReturn == \A k \in Clients : ~At(k, "idle") ~> At(k, "idle")
=============================================================================
