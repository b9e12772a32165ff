------------------------------ MODULE Cluster ------------------------------
(***************************************************************************)
(* The whole deployment: clients, the load balancer's session threads and  *)
(* health thread over one Router, and the backends, which crash and        *)
(* restart.  Every step of every thread interleaves with every other.      *)
(*                                                                         *)
(* The environment is named, so that a run says under which conditions a   *)
(* property holds: Writers, Readers and OpsAllowed bound what clients do,  *)
(* MaxCrashes and Adversity what may go wrong.  An element left out of     *)
(* Adversity is an assumption on the environment, never on the code:       *)
(*   "cut write"         a backend crashes while a write is connected to it *)
(*   "late fill"         a backend commits a change of a row that another  *)
(*                       handler has read and not yet put into the cache   *)
(*   "late mark"         a session is marking a backend DOWN while the     *)
(*                       health thread is bringing one back                *)
(*   "write in recovery" a write is under way during a recovery            *)
(*   "create in outage", "delete in outage"                                *)
(*                       one is under way while some backend is not UP     *)
(*   "second outage"     a backend crashes while another is not UP         *)
(*   "lb restart"        the load balancer is restarted                    *)
(*                                                                         *)
(* Two variables are history: legal[k] is the set of values a client may   *)
(* now be given for k by what the clients were told, and seen[p] that set  *)
(* over the whole time of the request of p.                                *)
(***************************************************************************)
EXTENDS ProxySession, HealthChecker

CONSTANTS
    Writers,     \* the clients that send anything but GET
    Readers,     \* the clients that send GET
    OpsAllowed,  \* the operations clients send
    MaxCrashes,  \* bound: crashes of backends and restarts of the load balancer
    Adversity

Adversities ==
    {"cut write", "late fill", "late mark", "write in recovery", "create in outage",
     "delete in outage", "second outage", "lb restart"}

ASSUME ClusterAssumption ==
    /\ Writers \subseteq Proxies /\ Readers \subseteq Proxies
    /\ OpsAllowed \subseteq Ops
    /\ MaxCrashes \in Nat
    /\ Adversity \subseteq Adversities

VARIABLES
    unsent,   \* bound: each value is sent by at most one write
    crashes,  \* how many of both there have been
    legal,
    seen

envVars == <<unsent, crashes, legal, seen>>

vars == <<routerVars, backendVars, sess, healthVars, envVars>>

TypeOK ==
    /\ RouterTypeOK /\ BackendsTypeOK /\ SessionTypeOK /\ HealthTypeOK
    /\ unsent \subseteq Values
    /\ crashes \in 0 .. MaxCrashes
    /\ legal \in [Keys -> SUBSET Rows]
    /\ seen \in [Proxies -> SUBSET Rows]

Init ==
    /\ RouterInit /\ BackendsInit /\ SessionInit /\ HealthInit
    /\ unsent = Values
    /\ crashes = 0
    /\ legal = [k \in Keys |-> {None}]
    /\ seen = [p \in Proxies |-> {}]

-----------------------------------------------------------------------------
(* History.                                                                *)
Busy(p) == sess[p].pc # "recv"

Writing(p) == Busy(p) /\ IsWrite(sess[p].op)

Written(s) == IF s.op = "delete" THEN None ELSE s.val

(* The legal values of its key after a step of p.  A write takes effect at *)
(* some time between Route and Respond, and the client that is told that   *)
(* it succeeded knows that it was the last one to take effect.             *)
LegalAfter(p) ==
    LET s == sess[p] IN
    IF s.pc = "route" /\ Writing(p) /\ Busy(p)' THEN legal[s.key] \union {Written(s)}
    ELSE IF s.pc = "connect" /\ ~Busy(p)' /\ s.best \in Success THEN {Written(s)}
    ELSE legal[s.key]

(* Requests in progress may be answered with what was legal before, too.   *)
History(p) ==
    LET k == sess[p].key IN
    /\ legal' = [legal EXCEPT ![k] = LegalAfter(p)]
    /\ seen' = [q \in Proxies |->
                   IF sess'[q].pc = "recv" THEN {}
                   ELSE IF sess[q].key = k THEN seen[q] \union LegalAfter(p)
                   ELSE seen[q]]

-----------------------------------------------------------------------------
Recovering == hc.pc \in {"recovering", "rejoin", "recover", "readd"}

Marking(p) == sess[p].pc \in {"broken", "mark", "unring"}

(* No outage is going on, and no thread still acts on one that is over.    *)
Settled ==
    /\ \A n \in Nodes : alive[n] /\ status[n] = "UP" /\ n \in onRing
    /\ hc.pc = "loop" /\ \A n \in DOMAIN hc.pend : hc.pend[n] = "UP"
    /\ \A p \in Proxies : ~Marking(p)
    /\ \A p \in Proxies : Busy(p) => sess[p].todo \subseteq GetNodes(sess[p].key)

Calm ==
    /\ "late mark" \in Adversity \/ ~Recovering \/ \A p \in Proxies : ~Marking(p)
    /\ "write in recovery" \in Adversity \/ ~Recovering \/ \A p \in Proxies : ~Writing(p)

(* The row changes only while nobody is about to cache what it was.        *)
FillsAreOver ==
    "late fill" \in Adversity
    \/ \A n \in Nodes, k \in Keys : db'[n][k] # db[n][k] =>
          ~FillingPeer(n, k) /\ \A p \in Proxies : ~Filling(p, n, k)

MayMeetOutage(op) ==
    /\ op = "create" => "create in outage" \in Adversity
    /\ op = "delete" => "delete in outage" \in Adversity

(* A client sends a request.                                               *)
Request(p) ==
    /\ \E op \in OpsAllowed, k \in Keys, v \in unsent \union {None} :
          /\ p \in IF IsWrite(op) THEN Writers ELSE Readers
          /\ (v = None) <=> (op \in {"get", "delete"})
          /\ MayMeetOutage(op) \/ Settled
          /\ Receive(p, op, k, v)
          /\ unsent' = unsent \ {v}
          /\ seen' = [seen EXCEPT ![p] = IF Busy(p)' THEN legal[k] ELSE {}]
    /\ UNCHANGED <<healthVars, crashes, legal>>
    /\ Calm'

Proxy(p) ==
    /\ ProxyStep(p)
    /\ History(p)
    /\ UNCHANGED <<healthVars, unsent, crashes>>
    /\ FillsAreOver
    /\ Calm'

Health ==
    /\ HealthStep
    /\ UNCHANGED <<sess, envVars>>
    /\ FillsAreOver
    /\ Calm'

(* The process of backend n stops; in a recovery that involves n its next  *)
(* requests fail.                                                          *)
Crash(n) ==
    /\ crashes < MaxCrashes
    /\ "cut write" \in Adversity
       \/ \A p \in Proxies : ~(Writing(p) /\ sess[p].cur = n)
    /\ \A p \in Proxies : ~Busy(p) \/ MayMeetOutage(sess[p].op)
    /\ "second outage" \in Adversity \/ Settled
    /\ Stop(n)
    /\ ResetConnections(n)
    /\ ResetRecovery(n)
    /\ crashes' = crashes + 1
    /\ UNCHANGED <<routerVars, hc, unsent, legal, seen>>
    /\ Calm'

Restart(n) ==
    /\ Start(n)
    /\ UNCHANGED <<routerVars, sess, healthVars, envVars>>

(* main() runs again, after the process has ended or was ended: the table  *)
(* is built anew with every backend UP, and the client connections and the *)
(* requests the handlers had not run yet are gone.  The handlers that have *)
(* changed a row delete its entry; those that were to create one are taken *)
(* not to.                                                                 *)
Deleting(n, k) ==
    \/ rm.pc = "forget" /\ rm.node = n /\ rm.key = k
    \/ \E p \in Proxies : LET s == sess[p] IN
          s.pc = "forget" /\ s.op # "create" /\ s.cur = n /\ s.key = k

RestartLb ==
    /\ "lb restart" \in Adversity
    /\ crashes < MaxCrashes /\ crashes' = crashes + 1
    /\ status' = [n \in Nodes |-> "UP"] /\ onRing' = Nodes /\ lbUp' = TRUE
    /\ sess' = [p \in Proxies |-> Fresh]
    /\ hc' = NoVisit /\ rm' = NoRecovery
    /\ seen' = [p \in Proxies |-> {}]
    /\ cached' = [n \in Nodes |-> [k \in Keys |->
                     IF Deleting(n, k) THEN None ELSE cached[n][k]]]
    /\ UNCHANGED <<alive, db, faults, unsent, legal>>

PushOut(n, k) == Evict(n, k) /\ UNCHANGED <<routerVars, sess, healthVars, envVars>>

Next ==
    \/ \E p \in Proxies : Request(p) \/ Proxy(p)
    \/ Health
    \/ \E n \in Nodes : Crash(n) \/ Restart(n)
    \/ \E n \in Nodes, k \in Keys : PushOut(n, k)
    \/ RestartLb

Spec == Init /\ [][Next]_vars

(* The threads of the load balancer and the handlers of a running backend  *)
(* get to run: they are threads under a preemptive scheduler, and every    *)
(* call they block in ends with an answer, a refused connection or a reset *)
(* one.  Clients, crashes and restarts are not fair.                       *)
FairSpec ==
    /\ Spec
    /\ \A p \in Proxies : WF_vars(Proxy(p))
    /\ WF_vars(Health)

-----------------------------------------------------------------------------
(* What a GET answers with 200 or 404 is the value that the last write     *)
(* acknowledged before it left, or that a write concurrent with it or not  *)
(* acknowledged would leave.  This is why getReadBackendsForKey gives UP   *)
(* replicas only, and why a backend is recovered before it is UP again.    *)
ReadsCurrent ==
    \A p \in Proxies :
        sess[p].pc = "reply" /\ sess[p].op = "get" /\ sess[p].code # 500
            => sess[p].val \in seen[p]

(* No late replica of a write and no recovery ever destroys the last copy  *)
(* of what the client was told is stored.                                  *)
NotLost == \A k \in Keys : \E n \in Nodes : db[n][k] \in legal[k]

(* A create is answered with 201 only if at some moment of the request the *)
(* key was absent, whatever the replicas said one by one: forwardTraffic   *)
(* prefers any 201 to the 409 of another replica.                          *)
CreateRefusesExisting ==
    [][\A p \in Proxies :
          sess[p].op = "create" /\ sess[p].best = 201 /\ ~Busy(p)' => None \in seen[p]]_vars

(* When no outage and no write is going on, the replicas that reads are    *)
(* served from hold the same value: sequential replication and recovery    *)
(* leave no disagreement behind, there being no versions to settle it, and *)
(* no cache still answers what was there before.                           *)
QuietReplicasAgree ==
    Settled /\ (\A p \in Proxies : ~Writing(p)) =>
        \A k \in Keys : \A m, n \in GetNodes(k) : Shown(m, k) = db[n][k]

(* RECOVERING is a passing state: the health thread is recovering every    *)
(* backend that has it, so that none is left out of reads for good.        *)
RecoveringOwned ==
    \A n \in Nodes : status[n] = "RECOVERING" =>
        hc.node = n /\ hc.pc \in {"rejoin", "recover"}

-----------------------------------------------------------------------------
(* forwardTraffic answers every request, if the process does not end: the  *)
(* failover loop and the marking of dead backends come to an end.          *)
Answered == \A p \in Proxies : Busy(p) ~> (~Busy(p) \/ ~lbUp)

(* The status of a backend comes to be what its process is: in the end it  *)
(* is UP when the process is back for good and DOWN when it is gone for    *)
(* good, whatever sessions mark, however late, and whatever the health     *)
(* thread does on an old copy of the table or after its recovery.          *)
StatusTold ==
    \A n \in Nodes :
        /\ <>[](alive[n] /\ lbUp) => <>[](status[n] = "UP")
        /\ <>[](~alive[n] /\ lbUp) => <>[](status[n] = "DOWN")

(* A mark is overrun when another thread sets the status between its two   *)
(* halves: that of a session, and the one that ends a recovery.            *)
SessionOverrun ==
    \E p \in Proxies : sess[p].pc = "unring" /\ status[sess[p].cur] # "DOWN"

PromotionOverrun == hc.pc = "readd" /\ status[hc.node] # "UP"

(* The ring follows as long as no mark is overrun: a backend that is back  *)
(* for good ends on the ring, where reads find it, even when a session     *)
(* marks it DOWN in the middle of its recovery ...                         *)
BackInService ==
    <>SessionOverrun
    \/ \A n \in Nodes : <>[](alive[n] /\ lbUp) => <>[](n \in onRing)

(* ... and a backend that is dead for good ends off the ring, even when it *)
(* dies in its own recovery, after which it is marked UP.                  *)
DeadIsEvicted ==
    <>PromotionOverrun
    \/ \A n \in Nodes : <>[](~alive[n] /\ lbUp) => <>[](n \notin onRing)

-----------------------------------------------------------------------------
(* Statements of the documentation and the comments that the code does not *)
(* keep; ReadsCurrent, NotLost, CreateRefusesExisting and                  *)
(* QuietReplicasAgree are the others, each when an adversity is let in.    *)

(* The sync route never overwrites a newer value (README, Recovery         *)
(* Manager): handle_sync does not replace a value that is legal for the    *)
(* key by one that is legal no more.                                       *)
SyncKeepsNewer ==
    [][\A n \in Nodes, k \in Keys :
          rm.pc = "sync" /\ rm'.pc # "sync" /\ db[n][k] \in legal[k]
              => db'[n][k] \in legal[k]]_vars

(* A backend that is back for good is in the end on the ring, open for     *)
(* reads, and one that is dead for good off it, so that keys route to its  *)
(* successors (README, Fault Tolerance Walkthrough): BackInService and     *)
(* DeadIsEvicted without their exceptions.                                 *)
RingTold ==
    \A n \in Nodes :
        /\ <>[](alive[n] /\ lbUp) => <>[](n \in onRing)
        /\ <>[](~alive[n] /\ lbUp) => <>[](n \notin onRing)

(* When all the replicas of a key are down the client gets a 503 (README,  *)
(* Fault Tolerance Walkthrough): the load balancer itself goes on.         *)
BalancerSurvives == lbUp

-----------------------------------------------------------------------------
(* As long as no backend fails and no fill is late, clients that use GET   *)
(* and PUT, any number of them at once, cannot tell the replicas from one  *)
(* RegularStore, though a PUT writes one replica after the other without a *)
(* lock: it is that of the replica that comes first on the ring.           *)
Primary(k) == CHOOSE n \in Nodes : IsFirst(k, n, Nodes)

CallOf(p) ==
    LET s == sess[p] IN
    [pc  |-> IF ~Busy(p) THEN "idle"
             ELSE IF s.best # None \/ s.pc \in {"fill", "reply"} THEN "done"
             ELSE IF s.pc = "forget" THEN "stored"
             ELSE "called",
     op  |-> s.op,
     key |-> s.key,
     val |-> s.val]

Regular == INSTANCE RegularStore WITH
    Clients <- Proxies,
    store   <- [k \in Keys |-> db[Primary(k)][k]],
    shown   <- [k \in Keys |-> Shown(Primary(k), k)],
    call    <- [p \in Proxies |-> CallOf(p)]

ImplementsRegularStore == Regular!Spec
=============================================================================
