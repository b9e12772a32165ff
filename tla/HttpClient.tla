----------------------------- MODULE HttpClient -----------------------------
(***************************************************************************)
(* httplib::Client: one call is ClientImpl::Get, Post, Put or Delete down  *)
(* to the Result it returns.  The health checker, the recovery manager,    *)
(* the command-line client and the load generator all call it, each client *)
(* from one thread, so that its mutexes and the flags that another thread  *)
(* could set play no part.                                                 *)
(*                                                                         *)
(* client[k].pc is the call in progress: send (send_ looks at a socket     *)
(* it still has), connect, head, body (write_request), read (the response), *)
(* return (the scope_exit of send_), idle.  buf is what SocketStream and   *)
(* the readers on it hold of the response; what is left in it when the     *)
(* call ends is lost with the stream.  res and err are the Result of the   *)
(* last call, with id <<k, n>>.                                            *)
(***************************************************************************)
EXTENDS HttpStream, KVRoutes

CONSTANTS
    Clients,
    KeepAlive,    \* the clients that call set_keep_alive(true)
    Slots,        \* connections the clients may have
    Requests,     \* Requests[k]: what k may ask
    MaxCalls      \* bound: MaxCalls[k] is the number of calls of k

ASSUME HttpClientAssumption ==
    /\ KeepAlive \subseteq Clients
    /\ Slots \subseteq Conns
    /\ MaxCalls \in [Clients -> Nat]

VARIABLE client

ClientInit ==
    client = [k \in Clients |->
        [pc |-> "idle", n |-> 0, sock |-> None, req |-> None,
         buf |-> <<>>, res |-> None, err |-> "Success"]]

At(k, pc) == client[k].pc = pc

BodyLen(r) == IF r.body = <<>> THEN 0 ELSE 1

Request(k, n, r) ==
    [id |-> <<k, n>>, kind |-> "request", ask |-> r,
     close |-> k \notin KeepAlive, len |-> BodyLen(r), size |-> BodyLen(r)]

-----------------------------------------------------------------------------
(* Get, Post, Put, Delete and the send that makes their Result.            *)
Call(k, r) ==
    /\ At(k, "idle") /\ client[k].n < MaxCalls[k]
    /\ client' = [client EXCEPT ![k] =
           [pc |-> IF @.sock = None THEN "connect" ELSE "send", n |-> @.n + 1, sock |-> @.sock,
            req |-> Request(k, @.n + 1, r), buf |-> <<>>, res |-> None, err |-> "Success"]]
    /\ UNCHANGED conn

Goto(k, pc) == client' = [client EXCEPT ![k].pc = pc]

Fail(k, err) == client' = [client EXCEPT ![k].pc = "return", ![k].err = err]

(* A socket left open by the last call is used again if it looks alive.    *)
send_(k) ==
    LET c == client[k].sock IN
    /\ At(k, "send")
    /\ \/ MayLookAlive(c, "client") /\ Goto(k, "head") /\ UNCHANGED conn
       \/ /\ MayLookDead(c, "client")
          /\ client' = [client EXCEPT ![k].pc = "connect", ![k].sock = None]
          /\ Close(c, "client")

(* It is refused, or not answered within the connection timeout.           *)
create_and_connect_socket(k, listening) ==
    /\ At(k, "connect")
    /\ \/ /\ listening
          /\ \E c \in Slots :
                /\ Connect(c, Slots)
                /\ client' = [client EXCEPT ![k].pc = "head", ![k].sock = c]
       \/ Fail(k, "Connection") /\ UNCHANGED conn

(* write_request: the head is one write, a body another.                   *)
write_head(k) ==
    LET m == client[k].req IN
    /\ At(k, "head")
    /\ \E ok \in BOOLEAN :
          /\ Write(client[k].sock, "client", HeadOf(m), ok)
          /\ IF ok THEN Goto(k, IF m.len > 0 THEN "body" ELSE "read") ELSE Fail(k, "Write")

write_body(k) ==
    /\ At(k, "body")
    /\ \E ok \in BOOLEAN :
          /\ Write(client[k].sock, "client", BodyOf(client[k].req), ok)
          /\ IF ok THEN Goto(k, "read") ELSE Fail(k, "Write")

(* read_response_line, read_headers and read_content.                      *)
read_response(k) ==
    LET c == client[k].sock IN
    /\ At(k, "read")
    /\ \E n \in Arrived(c, "client") :
          LET buf == client[k].buf \o Received(c, "client", n)
              state == Progress(buf) IN
          /\ Recv(c, "client", n)
          /\ client' = [client EXCEPT ![k].buf = buf,
                 ![k].pc  = IF state \in {"complete", "malformed"} THEN "return" ELSE "read",
                 ![k].err = IF state = "malformed" THEN "Read" ELSE "Success",
                 ![k].res = IF state = "complete" THEN buf[1].m ELSE None]

ResendOnEnd(k) ==  \* bug: a call whose connection ends is made again
    /\ At(k, "read") /\ AtEof(client[k].sock, "client")
    /\ Close(client[k].sock, "client")
    /\ client' = [client EXCEPT ![k].pc = "connect", ![k].sock = None, ![k].buf = <<>>]

read_end(k) ==
    /\ At(k, "read") /\ AtEof(client[k].sock, "client")
    /\ Fail(k, "Read")
    /\ UNCHANGED conn

(* The read timeout, 300 s unless a client sets another.                   *)
read_timeout(k) ==
    /\ At(k, "read") /\ ~HasData(client[k].sock, "client")
    /\ Fail(k, "Read")
    /\ UNCHANGED conn

Closes(k) ==
    LET s == client[k] IN s.err # "Success" \/ s.req.close \/ s.res.close

(* The scope_exit of send_, and the close for Connection: close in         *)
(* handle_request: no call is repeated.                                    *)
return(k) ==
    LET c == client[k].sock IN
    /\ At(k, "return")
    /\ IF c # None /\ Closes(k)
       THEN /\ Close(c, "client")
            /\ client' = [client EXCEPT ![k].pc = "idle", ![k].sock = None, ![k].buf = <<>>]
       ELSE /\ client' = [client EXCEPT ![k].pc = "idle", ![k].buf = <<>>]
            /\ UNCHANGED conn

ClientStep(k, listening) ==
    \/ send_(k)
    \/ create_and_connect_socket(k, listening)
    \/ write_head(k)
    \/ write_body(k)
    \/ read_response(k)
    \/ read_end(k)
    \/ return(k)

Returned(k) == client[k].n > 0 /\ At(k, "idle")
=============================================================================
