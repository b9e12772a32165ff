---------------------------- MODULE RegularStore ----------------------------
(***************************************************************************)
(* What clients are promised while no backend fails: one table, on which   *)
(* the PUTs take effect one after the other, each between its call and its *)
(* answer.  A GET answers what the table holds, or what it was last seen   *)
(* to hold.  A PUT is answered only after it has been seen, so no GET that *)
(* is sent later can be given what was there before the PUT.               *)
(*                                                                         *)
(* This is a regular register for each key and not an atomic one: of two   *)
(* GETs during a PUT the first may answer the new value and the second the *)
(* old one.                                                                *)
(***************************************************************************)
CONSTANTS Clients, Keys, Values, None

VARIABLES
    store,  \* store[k]: the value of k, or None
    shown,  \* shown[k]: the value of k when it was last seen
    call    \* call[c]: the request of c; for a GET val ends as the answer

vars == <<store, shown, call>>

Idle == [pc |-> "idle", op |-> None, key |-> None, val |-> None]

Init ==
    /\ store = [k \in Keys |-> None]
    /\ shown = store
    /\ call = [c \in Clients |-> Idle]

Call(c) ==
    /\ call[c] = Idle
    /\ \E k \in Keys, v \in Values \union {None} :
          call' = [call EXCEPT ![c] =
              [pc |-> "called", op |-> IF v = None THEN "get" ELSE "put",
               key |-> k, val |-> v]]
    /\ UNCHANGED <<store, shown>>

Get(c) ==
    /\ call[c].pc = "called" /\ call[c].op = "get"
    /\ \E v \in {store[call[c].key], shown[call[c].key]} :
          call' = [call EXCEPT ![c].pc = "done", ![c].val = v]
    /\ UNCHANGED <<store, shown>>

(* A PUT takes effect, and is seen at once or not.                         *)
Put(c) ==
    /\ call[c].pc = "called" /\ call[c].op = "put"
    /\ call' = [call EXCEPT ![c].pc = "stored"]
    /\ store' = [store EXCEPT ![call[c].key] = call[c].val]
    /\ \E v \in {shown[call[c].key], call[c].val} :
          shown' = [shown EXCEPT ![call[c].key] = v]

See(k) == shown' = [shown EXCEPT ![k] = store[k]]

Show(k) == See(k) /\ UNCHANGED <<store, call>>

PutSeen(c) ==
    /\ call[c].pc = "stored"
    /\ See(call[c].key)
    /\ call' = [call EXCEPT ![c].pc = "done"]
    /\ UNCHANGED store

Return(c) ==
    /\ call[c].pc = "done"
    /\ call' = [call EXCEPT ![c] = Idle]
    /\ UNCHANGED <<store, shown>>

Next ==
    \/ \E c \in Clients : Call(c) \/ Get(c) \/ Put(c) \/ PutSeen(c) \/ Return(c)
    \/ \E k \in Keys : Show(k)

Spec == Init /\ [][Next]_vars
=============================================================================
