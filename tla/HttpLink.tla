------------------------------ MODULE HttpLink ------------------------------
(***************************************************************************)
(* Clients and one kvserver: the health checker and the recovery manager   *)
(* on its HTTP server, beside the connections that the load balancer opens *)
(* for its own clients.                                                    *)
(***************************************************************************)
EXTENDS HttpClient, HttpServer

(* Every request has its counter, and None is no connection.               *)
ASSUME HttpLinkAssumption ==
    /\ None \notin Conns
    /\ \A k \in Clients : \A n \in 1 .. MaxCalls[k] : <<k, n>> \in ServerCalls

linkVars == <<conn, client, serverVars>>

Init ==
    /\ conn = [c \in Conns |-> NoConn]
    /\ ClientInit
    /\ ServerInit

Next ==
    \/ /\ \E k \in Clients :
             \/ \E r \in Requests[k] : Call(k, r)
             \/ ClientStep(k, Listening)
             \/ read_timeout(k)
       /\ UNCHANGED serverVars
    \/ /\ \/ ListenerStep
          \/ accept_fails \/ kill
          \/ \E w \in Workers : WorkerStep(w) \/ spurious_wakeup(w)
       /\ UNCHANGED client

Spec == Init /\ [][Next]_linkVars

(* Every thread that can run runs on, and a timeout of the server expires. *)
(* Nothing relies on the read timeout of a client, on a spurious wakeup or *)
(* on a call being made.                                                   *)
FairSpec ==
    /\ Spec
    /\ \A k \in Clients : WF_linkVars(ClientStep(k, Listening) /\ UNCHANGED serverVars)
    /\ WF_linkVars(ListenerStep /\ UNCHANGED client)
    /\ \A w \in Workers : WF_linkVars(WorkerStep(w) /\ UNCHANGED client)

-----------------------------------------------------------------------------
(* A Result with a response has the answer to that very request, and tells *)
(* whether its handler ran; without one the handler ran once or not at     *)
(* all, and not if no connection was made.  No request runs twice.         *)
ResultsTellWhatRan ==
    \A k \in Clients : Returned(k) =>
        LET s == client[k]
            times == ran[s.req.id] IN
        /\ s.err = "Success" =>
              /\ s.res.id = s.req.id
              /\ times = IF s.res.kind = 200 THEN 1 ELSE 0
        /\ s.err = "Connection" => times = 0
        /\ times \in {0, 1}

(* A connection that waits in the queue is not left to threads that sleep, *)
(* and none sleeps on when the pool shuts down.                            *)
NobodySleepsOnWork ==
    /\ jobs # <<>> /\ asleep = Workers => listener.pc \in {"notify", "notify_all"}
    /\ shutdown_ /\ listener.pc # "notify_all" => asleep = {}

(* When listen returns, every connection it has accepted was served to its *)
(* end, and those it has not are closed.                                   *)
ListenEndsClean ==
    listener.pc = "ended" => jobs = <<>> /\ \A c \in Conns : Gone(c, "server")

(* Every call returns, however many clients keep their connection to a     *)
(* pool with fewer threads, and also when the server ends or is killed.    *)
CallsReturn == \A k \in Clients : ~At(k, "idle") ~> At(k, "idle")
=============================================================================
