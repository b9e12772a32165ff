----------------------------- MODULE HttpStream -----------------------------
(***************************************************************************)
(* TCP connections and the HTTP/1.1 messages on them, as httplib.h and     *)
(* the load balancer use them.                                             *)
(*                                                                         *)
(* A message m is a record with its header Connection: close (close), the  *)
(* length of the body that its Content-Length announces (len) and that of  *)
(* the body which follows (size).  On the wire it is a start line, the     *)
(* headers with the blank line, and the chunks of the body; where a token  *)
(* is cut in two makes no difference to any reader.                        *)
(*                                                                         *)
(* conn[c] has two ends, the one that connects ("client") and the one that *)
(* accepts ("server"): at[e] is the state of the socket of e, to[e] what   *)
(* has been sent to e and e has not received.  Buffers have no bound, and  *)
(* a set of connections stands for the kernel's: one is used again once    *)
(* both of its ends are closed.                                            *)
(***************************************************************************)
EXTENDS Naturals, FiniteSets, Sequences

CONSTANTS
    None,
    Conns,    \* connections that exist at the same time
    Split     \* what has been sent may arrive in parts

VARIABLE conn

Ends == {"client", "server"}

Other(e) == IF e = "client" THEN "server" ELSE "client"

NoConn == [at |-> [e \in Ends |-> "closed"], to |-> [e \in Ends |-> <<>>]]

-----------------------------------------------------------------------------
(* Messages.                                                               *)
Token(t, m) == [t |-> t, m |-> m]

(* write_request_line or write_response_line, and write_headers.           *)
HeadOf(m) == <<Token("line", m), Token("headers", m)>>

BodyOf(m) == [i \in 1 .. m.size |-> Token("byte", m)]

(* stream_line_reader::getline: the place of the first line end, or 0.     *)
getline(buf) ==
    IF \A i \in DOMAIN buf : buf[i].t = "byte" THEN 0
    ELSE CHOOSE i \in DOMAIN buf :
        buf[i].t # "byte" /\ \A j \in 1 .. i - 1 : buf[j].t = "byte"

(* parse_request_line and read_response_line accept a line that starts     *)
(* where a message does.                                                   *)
IsStartLine(buf) == getline(buf) = 1 /\ buf[1].t = "line"

read_headers(buf) == Len(buf) >= 2 /\ buf[2].t = "headers"

read_content(buf) == Len(buf) >= 2 + buf[1].m.len

(* How far a reader has come that has received buf: the part it waits for, *)
(* or how it ends.                                                         *)
Progress(buf) ==
    CASE getline(buf) = 0        -> "line"
      [] getline(buf) # 0 /\ ~IsStartLine(buf) -> "malformed"
      [] IsStartLine(buf) /\ ~read_headers(buf) -> "headers"
      [] IsStartLine(buf) /\ read_headers(buf) /\ ~read_content(buf) -> "content"
      [] OTHER -> "complete"

-----------------------------------------------------------------------------
(* Sockets.                                                                *)
Gone(c, e) == conn[c].at[e] = "closed"

HasData(c, e) == conn[c].to[e] # <<>>

AtEof(c, e) == ~HasData(c, e) /\ Gone(c, Other(e))

(* select_read > 0: data, an orderly end or an error.                      *)
Readable(c, e) == HasData(c, e) \/ AtEof(c, e)

(* is_socket_alive: an end may be on its way.                              *)
MayLookAlive(c, e) == TRUE

MayLookDead(c, e) == AtEof(c, e)

Connected(c) == [NoConn EXCEPT !.at = [client |-> "open", server |-> "backlog"]]

(* Connections that are not in use are alike.                              *)
Unused(slots) == {c \in slots : conn[c] = NoConn}

Connect(c, slots) ==
    /\ Unused(slots) # {} /\ c = CHOOSE d \in Unused(slots) : TRUE
    /\ conn' = [conn EXCEPT ![c] = Connected(c)]

Accept(c) ==
    /\ conn[c].at["server"] = "backlog"
    /\ conn' = [conn EXCEPT ![c].at["server"] = "open"]

(* SocketStream::read: what has arrived of what was sent.                  *)
Arrived(c, e) ==
    LET sent == Len(conn[c].to[e]) IN IF Split THEN 1 .. sent ELSE {sent} \ {0}

Recv(c, e, n) == conn' = [conn EXCEPT ![c].to[e] = SubSeq(@, n + 1, Len(@))]

Received(c, e, n) == SubSeq(conn[c].to[e], 1, n)

(* write_data: what is sent to a socket that is closed is lost, and the    *)
(* sender may be told so.                                                  *)
Write(c, e, data, ok) ==
    /\ ok \/ Gone(c, Other(e))
    /\ conn' = IF Gone(c, Other(e)) THEN conn
               ELSE [conn EXCEPT ![c].to[Other(e)] = @ \o data]

(* shutdown_socket and close_socket.  A socket that is closed with data    *)
(* unread resets the connection, which may overtake what was sent.         *)
ClosedAt(c, e, kept) ==
    [at |-> [conn[c].at EXCEPT ![e] = "closed"],
     to |-> [conn[c].to EXCEPT ![e] = <<>>, ![Other(e)] = SubSeq(@, 1, kept)]]

MayKeep(c, e) ==
    LET sent == Len(conn[c].to[Other(e)]) IN IF HasData(c, e) THEN 0 .. sent ELSE {sent}

(* Several sockets at once, by a process that ends.                        *)
CloseAll(cs, e) ==
    \E lost \in BOOLEAN :
        conn' = [c \in Conns |-> IF c \notin cs THEN conn[c]
            ELSE ClosedAt(c, e, IF lost /\ HasData(c, e) THEN 0
                                ELSE Len(conn[c].to[Other(e)]))]

Close(c, e) ==
    \E kept \in MayKeep(c, e) : conn' = [conn EXCEPT ![c] = ClosedAt(c, e, kept)]
=============================================================================
