------------------------------ MODULE LoadGen ------------------------------
(***************************************************************************)
(* load_gen: main and its worker threads, which share the atomic           *)
(* global_key_counter and nothing else.                                    *)
(*                                                                         *)
(* A call is one step here and may come to any answer; a key is popular,   *)
(* with its index, or numbered.  The end of the measured time is an        *)
(* action.                                                                 *)
(***************************************************************************)
EXTENDS Naturals, FiniteSets, FiniteSetsExt

CONSTANTS
    None,
    Threads,
    Populars,    \* the number of popular keys, 15
    MaxRequests  \* bound: requests of one thread

ASSUME LoadGenAssumption ==
    /\ IsFiniteSet(Threads) /\ Threads # {}
    /\ Populars \in Nat \ {0}
    /\ MaxRequests \in Nat

Workloads == {"put_all", "get_all", "get_popular", "get_put"}

VARIABLES
    workload,
    main,                \* [pc, next]: next popular key to add
    time,                \* "running" or "over"
    global_key_counter,
    worker,
    stats,
    used,                \* history: the keys of the calls that took a number
    report

vars == <<workload, main, time, global_key_counter, worker, stats, used, report>>

Popular(i) == <<"popular", i>>
Numbered(n) == <<"k", n>>

NoStats == [total |-> 0, success |-> 0, fail |-> 0]

Init ==
    /\ workload \in Workloads
    /\ main = [pc |-> IF workload = "get_popular" THEN "add" ELSE "start", next |-> 0]
    /\ time = "running"
    /\ global_key_counter = 0
    /\ worker = [t \in Threads |-> [pc |-> "none", counter |-> 0, seen |-> None, key |-> None]]
    /\ stats = [t \in Threads |-> NoStats]
    /\ used = {}
    /\ report = None

-----------------------------------------------------------------------------
(* main.  What becomes of a popular key's create is only printed.          *)
AddPopular ==
    /\ main.pc = "add"
    /\ main' = IF main.next + 1 < Populars THEN [main EXCEPT !.next = @ + 1]
               ELSE [main EXCEPT !.pc = "start"]
    /\ UNCHANGED <<workload, time, global_key_counter, worker, stats, used, report>>

StartWorkers ==
    /\ main.pc = "start"
    /\ main' = [main EXCEPT !.pc = "join"]
    /\ worker' = [t \in Threads |-> [worker[t] EXCEPT !.pc = "loop"]]
    /\ UNCHANGED <<workload, time, global_key_counter, stats, used, report>>

TimeIsOver ==
    /\ main.pc = "join" /\ time = "running"
    /\ time' = "over"
    /\ UNCHANGED <<workload, main, global_key_counter, worker, stats, used, report>>

Total(field) == MapThenSumSet(LAMBDA t : stats[t][field], Threads)

Report ==
    /\ main.pc = "join" /\ \A t \in Threads : worker[t].pc = "gone"
    /\ main' = [main EXCEPT !.pc = "done"]
    /\ report' = [total |-> Total("total"), success |-> Total("success"),
                  failed |-> Total("total") - Total("success")]
    /\ UNCHANGED <<workload, time, global_key_counter, worker, stats, used>>

-----------------------------------------------------------------------------
(* worker.                                                                 *)
At(t, pc) == worker[t].pc = pc

(* The loop's condition, and the first lines of its body.                  *)
NextRequest(t) ==
    /\ At(t, "loop")
    /\ \/ /\ time = "over"
          /\ worker' = [worker EXCEPT ![t].pc = "gone"]
          /\ UNCHANGED stats
       \/ /\ time = "running" /\ stats[t].total < MaxRequests
          /\ worker' = [worker EXCEPT ![t].pc = "choose"]
          /\ stats' = [stats EXCEPT ![t].total = @ + 1]
    /\ UNCHANGED <<workload, main, time, global_key_counter, used, report>>

Creates(t) ==
    \/ workload = "put_all"
    \/ workload = "get_put" /\ worker[t].counter % 2 = 0

TakesNumber(t) == Creates(t) \/ workload = "get_all"

ReadsNewest(t) == workload = "get_put" /\ ~Creates(t)

ReadThenAdd(t) ==  \* bug: the counter is read and written in two steps
    /\ At(t, "choose") /\ TakesNumber(t)
    /\ IF worker[t].seen = None
       THEN /\ worker' = [worker EXCEPT ![t].seen = global_key_counter]
            /\ UNCHANGED global_key_counter
       ELSE /\ worker' = [worker EXCEPT ![t].pc = "call", ![t].seen = None,
                                        ![t].key = Numbered(worker[t].seen)]
            /\ global_key_counter' = worker[t].seen + 1
    /\ UNCHANGED <<workload, main, time, stats, used, report>>

(* key_num = global_key_counter++.                                         *)
TakeNumber(t) ==
    /\ At(t, "choose") /\ TakesNumber(t)
    /\ worker' = [worker EXCEPT ![t].pc = "call", ![t].key = Numbered(global_key_counter)]
    /\ global_key_counter' = global_key_counter + 1
    /\ UNCHANGED <<workload, main, time, stats, used, report>>

PickPopular(t) ==
    /\ At(t, "choose") /\ workload = "get_popular"
    /\ worker' = [worker EXCEPT ![t].pc = "call",
                                ![t].key = Popular(worker[t].counter % Populars)]
    /\ UNCHANGED <<workload, main, time, global_key_counter, stats, used, report>>

(* The newest key: the counter is looked at, and then read again.          *)
LookAtCounter(t) ==
    /\ At(t, "choose") /\ ReadsNewest(t)
    /\ worker' = [worker EXCEPT ![t].pc = "newest", ![t].seen = global_key_counter]
    /\ UNCHANGED <<workload, main, time, global_key_counter, stats, used, report>>

NextInstead(t) ==  \* bug: the number that is not taken yet
    /\ At(t, "newest")
    /\ worker' = [worker EXCEPT ![t].pc = "call", ![t].seen = None,
           ![t].key = Numbered(global_key_counter)]
    /\ UNCHANGED <<workload, main, time, global_key_counter, stats, used, report>>

ReadNewest(t) ==
    /\ At(t, "newest")
    /\ worker' = [worker EXCEPT ![t].pc = "call", ![t].seen = None,
           ![t].key = Numbered(IF worker[t].seen > 0 THEN global_key_counter - 1 ELSE 0)]
    /\ UNCHANGED <<workload, main, time, global_key_counter, stats, used, report>>

ForgetFailures(t) ==  \* bug: a failed request is counted as a success
    /\ At(t, "call")
    /\ \E ok \in BOOLEAN :
          stats' = [stats EXCEPT ![t].success = @ + 1, ![t].fail = @ + IF ok THEN 0 ELSE 1]
    /\ used' = IF TakesNumber(t) THEN used \union {worker[t].key} ELSE used
    /\ worker' = [worker EXCEPT ![t].pc = "loop", ![t].key = None, ![t].counter = @ + 1]
    /\ UNCHANGED <<workload, main, time, global_key_counter, report>>

RetryUntilOk(t) ==  \* bug: a request that fails is made again (seen: an odd attempt)
    /\ At(t, "call")
    /\ \E ok \in BOOLEAN :
          IF ok THEN /\ stats' = [stats EXCEPT ![t].success = @ + 1]
                     /\ worker' = [worker EXCEPT ![t].pc = "loop", ![t].key = None,
                                                 ![t].counter = @ + 1]
                     /\ used' = IF TakesNumber(t) THEN used \union {worker[t].key} ELSE used
          ELSE /\ worker' = [worker EXCEPT ![t].seen = IF @ = None THEN 0 ELSE None]
               /\ UNCHANGED <<stats, used>>
    /\ UNCHANGED <<workload, main, time, global_key_counter, report>>

(* The request, and the end of the loop's body.                            *)
MakeRequest(t) ==
    /\ At(t, "call")
    /\ \E ok \in BOOLEAN :
          stats' = [stats EXCEPT ![t].success = @ + IF ok THEN 1 ELSE 0,
                                 ![t].fail = @ + IF ok THEN 0 ELSE 1]
    /\ used' = IF TakesNumber(t) THEN used \union {worker[t].key} ELSE used
    /\ worker' = [worker EXCEPT ![t].pc = "loop", ![t].key = None, ![t].counter = @ + 1]
    /\ UNCHANGED <<workload, main, time, global_key_counter, report>>

WorkerStep(t) ==
    \/ NextRequest(t) \/ TakeNumber(t) \/ PickPopular(t)
    \/ LookAtCounter(t) \/ ReadNewest(t) \/ MakeRequest(t)

MainStep == AddPopular \/ StartWorkers \/ Report

Next == MainStep \/ TimeIsOver \/ \E t \in Threads : WorkerStep(t)

Spec == Init /\ [][Next]_vars

(* Threads run, a call returns (CallsReturn of HttpLink and Wire), and     *)
(* time passes.                                                            *)
FairSpec ==
    /\ Spec
    /\ WF_vars(MainStep) /\ WF_vars(TimeIsOver)
    /\ \A t \in Threads : WF_vars(WorkerStep(t))

-----------------------------------------------------------------------------
(* Each numbered key is created, or read by get_all, in one request only,  *)
(* so that a 409 tells of keys that were there before; and what get_put    *)
(* reads was taken for a request already, though its create may still be   *)
(* on its way.                                                             *)
NumbersAreTakenOnce ==
    \A t \in Threads : At(t, "call") =>
        /\ TakesNumber(t) =>
              /\ worker[t].key \notin used
              /\ \A u \in Threads \ {t} :
                    At(u, "call") /\ TakesNumber(u) => worker[u].key # worker[t].key
        /\ ReadsNewest(t) =>
              \E n \in 0 .. global_key_counter - 1 : worker[t].key = Numbered(n)

(* The failures that are reported, the difference of two sums, are those   *)
(* the threads counted, and no number is skipped: as many keys were used   *)
(* as were taken, and as requests were reported where each takes one.      *)
ReportAddsUp ==
    report # None =>
        /\ report.failed = Total("fail")
        /\ Cardinality(used) = global_key_counter
        /\ workload \in {"put_all", "get_all"} => report.total = global_key_counter

(* A run comes to its report when the time is over: main joins threads     *)
(* that all leave their loop.                                              *)
RunEnds == <>(report # None)
=============================================================================
