------------------------------- MODULE MCHttp -------------------------------
(***************************************************************************)
(* A small instance of HttpLink.                                           *)
(***************************************************************************)
EXTENDS HttpLink, TLC

CONSTANTS k1, k2

Unrouted == Ask("GET", KeyPath(<<"foo", "-", "bar">>), <<>>)

(* k1 is a client of the health checker or the recovery manager, k2 keeps  *)
(* its connection and uses it twice.                                       *)
LinkRequests == (k1 :> {SyncRequest(<<"a">>, << <<"v">> >>), Unrouted}) @@ (k2 :> {HealthRequest})

LinkCalls == (k1 :> 1) @@ (k2 :> 2)

MCServerCalls == Clients \X (1 .. 2)
=============================================================================
