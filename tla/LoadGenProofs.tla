--------------------------- MODULE LoadGenProofs ----------------------------
(***************************************************************************)
(* No key number is taken twice, and the report adds up, for any number of *)
(* threads and requests.                                                   *)
(***************************************************************************)
EXTENDS LoadGen, FiniteSetTheorems, TLAPS

(* The numbers taken so far.                                               *)
Taken == {Numbered(n) : n \in 0 .. global_key_counter - 1}

WorkerState ==
    [pc : {"none", "loop", "choose", "newest", "call", "gone"},
     counter : Nat, seen : Nat \union {None},
     key : {Numbered(n) : n \in Nat} \union {Popular(n) : n \in Nat} \union {None}]

LoadTypeOK ==
    /\ workload \in Workloads
    /\ global_key_counter \in Nat
    /\ worker \in [Threads -> WorkerState]

Holds(t) == At(t, "call") /\ TakesNumber(t)

(* A thread that reads the newest key has created one before.              *)
CreatedBefore(t) ==
    workload = "get_put" /\ (worker[t].counter > 0 \/ At(t, "call"))
        => global_key_counter > 0

NewestIsTaken(t) ==
    /\ At(t, "newest") => ReadsNewest(t) /\ worker[t].seen \in Nat
    /\ At(t, "call") /\ ReadsNewest(t) => worker[t].key \in Taken

NumberInv ==
    /\ LoadTypeOK
    /\ used \subseteq Taken
    /\ \A t \in Threads :
          /\ CreatedBefore(t)
          /\ NewestIsTaken(t)
          /\ Holds(t) => worker[t].key \in Taken \ used
    /\ \A t, u \in Threads : t # u /\ Holds(t) /\ Holds(u) => worker[t].key # worker[u].key

-----------------------------------------------------------------------------
LEMMA KeyTypes ==
    ASSUME NEW s \in WorkerState, NEW pc \in {"call", "loop"}, NEW n \in Nat
    PROVE  /\ [s EXCEPT !.pc = pc, !.key = Numbered(n)] \in WorkerState
           /\ [s EXCEPT !.pc = pc, !.seen = None, !.key = Numbered(n)] \in WorkerState
<1>1. Numbered(n) \in {Numbered(m) : m \in Nat}
  OBVIOUS
<1> HIDE DEF Numbered
<1> QED
  BY <1>1 DEF WorkerState

LEMMA InitNumbers == Init => NumberInv
BY DEF Init, NumberInv, LoadTypeOK, WorkerState, Workloads, Holds, CreatedBefore,
       NewestIsTaken, At

(* A step of t that neither takes a number nor ends a request: the others  *)
(* are as they were, and t has to show its own part.                       *)
LEMMA OwnStep ==
    ASSUME NumberInv, LoadTypeOK', NEW t \in Threads,
           \A u \in Threads \ {t} : worker'[u] = worker[u],
           UNCHANGED <<workload, global_key_counter, used>>,
           CreatedBefore(t)', NewestIsTaken(t)', ~Holds(t)'
    PROVE  NumberInv'
<1>1. Taken' = Taken
  BY DEF Taken
<1>2. ASSUME NEW u \in Threads \ {t}
      PROVE  /\ Holds(u)' <=> Holds(u)
             /\ CreatedBefore(u)'
             /\ NewestIsTaken(u)'
  BY <1>1, <1>2 DEF NumberInv, Holds, At, TakesNumber, Creates, CreatedBefore,
                    NewestIsTaken, ReadsNewest
<1>3. \A u \in Threads : CreatedBefore(u)' /\ NewestIsTaken(u)'
  BY <1>2
<1>4. \A u \in Threads : Holds(u)' => u # t /\ Holds(u) /\ worker'[u].key = worker[u].key
  BY <1>2
<1>5. \A u \in Threads : Holds(u)' => worker'[u].key \in Taken' \ used'
  BY <1>1, <1>4 DEF NumberInv
<1>6. \A u, v \in Threads :
          u # v /\ Holds(u)' /\ Holds(v)' => worker'[u].key # worker'[v].key
  BY <1>4 DEF NumberInv
<1>7. used' \subseteq Taken'
  BY <1>1 DEF NumberInv
<1> QED
  BY <1>3, <1>5, <1>6, <1>7 DEF NumberInv

LEMMA NextRequestNumbers ==
    ASSUME NumberInv, NEW t \in Threads, NextRequest(t) PROVE NumberInv'
<1>1. PICK pc \in {"gone", "choose"} : worker' = [worker EXCEPT ![t].pc = pc]
  BY DEF NextRequest
<1>2. LoadTypeOK'
  BY <1>1 DEF NumberInv, LoadTypeOK, WorkerState, NextRequest
<1>3. /\ worker'[t].pc = pc /\ worker'[t].counter = worker[t].counter
      /\ \A u \in Threads \ {t} : worker'[u] = worker[u]
  BY <1>1 DEF NumberInv, LoadTypeOK, WorkerState
<1>4. CreatedBefore(t)' /\ NewestIsTaken(t)' /\ ~Holds(t)'
  BY <1>3 DEF NumberInv, CreatedBefore, NewestIsTaken, Holds, At, NextRequest
<1> QED
  BY <1>2, <1>3, <1>4, OwnStep DEF NextRequest

LEMMA TakeNumberNumbers ==
    ASSUME NumberInv, NEW t \in Threads, TakeNumber(t) PROVE NumberInv'
<1> DEFINE n == global_key_counter
<1>1. n \in Nat /\ global_key_counter' = n + 1
  BY DEF NumberInv, LoadTypeOK, TakeNumber
<1>2. Numbered(n) \notin Taken /\ Taken' = Taken \union {Numbered(n)}
  BY <1>1 DEF Taken, Numbered
<1>3. /\ worker'[t] = [worker[t] EXCEPT !.pc = "call", !.key = Numbered(n)]
      /\ \A u \in Threads \ {t} : worker'[u] = worker[u]
      /\ UNCHANGED <<workload, used>>
  BY DEF TakeNumber, NumberInv, LoadTypeOK
<1>4. worker'[t].pc = "call" /\ worker'[t].key = Numbered(n)
      /\ worker'[t].counter = worker[t].counter
  BY <1>3 DEF NumberInv, LoadTypeOK, WorkerState
<1>5. LoadTypeOK'
  <2>1. worker[t] \in WorkerState
    BY DEF NumberInv, LoadTypeOK
  <2>2. worker'[t] \in WorkerState
    BY <1>1, <1>3, <2>1, KeyTypes
  <2> QED
    BY <1>1, <1>3, <2>2 DEF NumberInv, LoadTypeOK, TakeNumber
<1>6. ~ReadsNewest(t)'
  BY <1>3, <1>4 DEF ReadsNewest, Creates, TakeNumber, TakesNumber
<1>7. \A u \in Threads : CreatedBefore(u)'
  BY <1>1 DEF CreatedBefore
<1>8. \A u \in Threads \ {t} : (Holds(u)' <=> Holds(u)) /\ NewestIsTaken(u)'
  BY <1>2, <1>3 DEF NumberInv, Holds, At, TakesNumber, Creates, NewestIsTaken, ReadsNewest
<1>9. NewestIsTaken(t)'
  BY <1>4, <1>6 DEF NewestIsTaken, At
<1>10. Numbered(n) \notin used
  BY <1>2 DEF NumberInv
<1>11. \A u \in Threads : Holds(u)' => worker'[u].key \in Taken' \ used'
  BY <1>2, <1>3, <1>4, <1>8, <1>10 DEF NumberInv
<1>12. \A u \in Threads \ {t} : Holds(u)' => worker'[u].key \in Taken
  BY <1>3, <1>8 DEF NumberInv
<1>13. \A u, v \in Threads :
           u # v /\ Holds(u)' /\ Holds(v)' => worker'[u].key # worker'[v].key
  <2> SUFFICES ASSUME NEW u \in Threads, NEW v \in Threads, u # v, Holds(u)', Holds(v)'
               PROVE  worker'[u].key # worker'[v].key
    OBVIOUS
  <2>1. CASE u = t
    BY <2>1, <1>2, <1>4, <1>12
  <2>2. CASE v = t
    BY <2>2, <1>2, <1>4, <1>12
  <2>3. CASE u # t /\ v # t
    BY <2>3, <1>3, <1>8 DEF NumberInv
  <2> QED
    BY <2>1, <2>2, <2>3
<1>14. used' \subseteq Taken'
  BY <1>2, <1>3 DEF NumberInv
<1> QED
  BY <1>5, <1>7, <1>8, <1>9, <1>11, <1>13, <1>14 DEF NumberInv

LEMMA PickPopularNumbers ==
    ASSUME NumberInv, NEW t \in Threads, PickPopular(t) PROVE NumberInv'
<1> DEFINE i == worker[t].counter % Populars
<1>1. i \in Nat
  BY LoadGenAssumption DEF NumberInv, LoadTypeOK, WorkerState
<1>2. LoadTypeOK'
  BY <1>1, ZenonT(60) DEF NumberInv, LoadTypeOK, WorkerState, PickPopular
<1>3. /\ \A u \in Threads \ {t} : worker'[u] = worker[u]
      /\ worker'[t].pc = "call"
      /\ UNCHANGED <<workload, global_key_counter, used>>
      /\ workload = "get_popular"
  BY DEF PickPopular, NumberInv, LoadTypeOK, WorkerState
<1>4. CreatedBefore(t)' /\ NewestIsTaken(t)' /\ ~Holds(t)'
  BY <1>3 DEF CreatedBefore, NewestIsTaken, ReadsNewest, Holds, TakesNumber, Creates, At
<1> QED
  BY <1>2, <1>3, <1>4, OwnStep

LEMMA LookAtCounterNumbers ==
    ASSUME NumberInv, NEW t \in Threads, LookAtCounter(t) PROVE NumberInv'
<1>1. LoadTypeOK'
  BY ZenonT(60) DEF NumberInv, LoadTypeOK, WorkerState, LookAtCounter
<1>2. /\ \A u \in Threads \ {t} : worker'[u] = worker[u]
      /\ worker'[t].pc = "newest" /\ worker'[t].counter = worker[t].counter
      /\ worker'[t].seen = global_key_counter
      /\ UNCHANGED <<workload, global_key_counter, used>>
  BY DEF LookAtCounter, NumberInv, LoadTypeOK, WorkerState
<1>3. ReadsNewest(t)'
  BY <1>2 DEF LookAtCounter, ReadsNewest, Creates
<1>4. CreatedBefore(t)' /\ NewestIsTaken(t)' /\ ~Holds(t)'
  BY <1>2, <1>3 DEF CreatedBefore, NewestIsTaken, Holds, At, NumberInv, LoadTypeOK
<1> QED
  BY <1>1, <1>2, <1>4, OwnStep

LEMMA ReadNewestNumbers ==
    ASSUME NumberInv, NEW t \in Threads, ReadNewest(t) PROVE NumberInv'
<1> DEFINE n == IF worker[t].seen > 0 THEN global_key_counter - 1 ELSE 0
<1>1. ReadsNewest(t) /\ worker[t].seen \in Nat
  BY DEF NumberInv, NewestIsTaken, ReadNewest
<1>2. worker[t].counter # 0 /\ worker[t].counter \in Nat
  BY <1>1 DEF ReadsNewest, Creates, NumberInv, LoadTypeOK, WorkerState
<1>3. global_key_counter > 0 /\ global_key_counter \in Nat
  BY <1>1, <1>2 DEF NumberInv, CreatedBefore, ReadsNewest, LoadTypeOK
<1>4. n \in 0 .. global_key_counter - 1
  BY <1>1, <1>3
<1>5. LoadTypeOK'
  <2>1. worker[t] \in WorkerState /\ n \in Nat
    BY <1>3, <1>4 DEF NumberInv, LoadTypeOK
  <2>2. [worker[t] EXCEPT !.pc = "call", !.seen = None, !.key = Numbered(n)] \in WorkerState
    BY <2>1, KeyTypes
  <2>3. worker' = [worker EXCEPT ![t] =
            [worker[t] EXCEPT !.pc = "call", !.seen = None, !.key = Numbered(n)]]
    BY DEF ReadNewest
  <2> QED
    BY <2>2, <2>3 DEF NumberInv, LoadTypeOK, ReadNewest
<1>6. /\ \A u \in Threads \ {t} : worker'[u] = worker[u]
      /\ worker'[t].pc = "call" /\ worker'[t].counter = worker[t].counter
      /\ worker'[t].key = Numbered(n)
      /\ UNCHANGED <<workload, global_key_counter, used>>
  BY DEF ReadNewest, NumberInv, LoadTypeOK, WorkerState
<1>7. worker'[t].key \in Taken'
  BY <1>4, <1>6 DEF Taken
<1>8. CreatedBefore(t)' /\ NewestIsTaken(t)' /\ ~Holds(t)'
  BY <1>1, <1>3, <1>6, <1>7
  DEF CreatedBefore, NewestIsTaken, Holds, At, TakesNumber, ReadsNewest, Creates
<1> QED
  BY <1>5, <1>6, <1>8, OwnStep

(* The key goes over from the thread that held it to those used.           *)
LEMMA MakeRequestNumbers ==
    ASSUME NumberInv, NEW t \in Threads, MakeRequest(t) PROVE NumberInv'
<1>1. LoadTypeOK'
  BY DEF NumberInv, LoadTypeOK, WorkerState, MakeRequest
<1>2. /\ \A u \in Threads \ {t} : worker'[u] = worker[u]
      /\ worker'[t].pc = "loop"
      /\ UNCHANGED <<workload, global_key_counter>>
  BY DEF MakeRequest, NumberInv, LoadTypeOK, WorkerState
<1>3. Taken' = Taken
  BY <1>2 DEF Taken
<1>4. \A x \in used' : x \in used \/ (Holds(t) /\ x = worker[t].key)
  <2>1. used' = (IF TakesNumber(t) THEN used \union {worker[t].key} ELSE used) /\ At(t, "call")
    BY Zenon DEF MakeRequest
  <2> QED
    BY <2>1 DEF Holds
<1>5. CreatedBefore(t)'
  BY <1>2 DEF CreatedBefore, NumberInv, MakeRequest
<1>6. NewestIsTaken(t)' /\ ~Holds(t)'
  BY <1>2 DEF NewestIsTaken, Holds, At
<1>7. \A u \in Threads \ {t} :
          (Holds(u)' <=> Holds(u)) /\ NewestIsTaken(u)' /\ CreatedBefore(u)'
  BY <1>2, <1>3 DEF NumberInv, Holds, At, TakesNumber, Creates, NewestIsTaken,
                    ReadsNewest, CreatedBefore
<1>8. \A u \in Threads : Holds(u)' =>
          u # t /\ Holds(u) /\ worker'[u].key = worker[u].key
  BY <1>2, <1>6, <1>7
<1>9. \A u \in Threads : Holds(u)' => worker'[u].key \in Taken' \ used'
  BY <1>3, <1>4, <1>8 DEF NumberInv
<1>10. \A u, v \in Threads :
           u # v /\ Holds(u)' /\ Holds(v)' => worker'[u].key # worker'[v].key
  BY <1>8 DEF NumberInv
<1>11. used' \subseteq Taken'
  BY <1>3, <1>4 DEF NumberInv
<1>12. \A u \in Threads : CreatedBefore(u)' /\ NewestIsTaken(u)'
  BY <1>5, <1>6, <1>7
<1> QED
  BY <1>1, <1>9, <1>10, <1>11, <1>12 DEF NumberInv

(* main starts the threads and otherwise leaves them alone.                *)
LEMMA StartNumbers ==
    ASSUME NumberInv, StartWorkers PROVE NumberInv'
<1>1. LoadTypeOK'
  BY DEF NumberInv, LoadTypeOK, WorkerState, StartWorkers
<1>2. /\ UNCHANGED <<workload, global_key_counter, used>>
      /\ \A t \in Threads : worker'[t].pc = "loop" /\ worker'[t].counter = worker[t].counter
  BY DEF StartWorkers, NumberInv, LoadTypeOK, WorkerState
<1>3. \A t \in Threads : CreatedBefore(t)' /\ NewestIsTaken(t)' /\ ~Holds(t)'
  BY <1>2 DEF NumberInv, CreatedBefore, NewestIsTaken, Holds, At
<1>4. used' \subseteq Taken'
  BY <1>2 DEF NumberInv, Taken
<1> QED
  BY <1>1, <1>3, <1>4 DEF NumberInv

LEMMA FrameNumbers ==
    ASSUME NumberInv, UNCHANGED <<workload, global_key_counter, worker, used>>
    PROVE  NumberInv'
BY DEF NumberInv, LoadTypeOK, Taken, Holds, At, TakesNumber, Creates, CreatedBefore,
       NewestIsTaken, ReadsNewest

LEMMA NextNumbers == NumberInv /\ [Next]_vars => NumberInv'
<1> SUFFICES ASSUME NumberInv, [Next]_vars PROVE NumberInv'
  OBVIOUS
<1>1. CASE AddPopular \/ Report \/ TimeIsOver \/ UNCHANGED vars
  BY <1>1, FrameNumbers DEF AddPopular, Report, TimeIsOver, vars
<1>2. CASE StartWorkers
  BY <1>2, StartNumbers
<1>3. ASSUME NEW t \in Threads, WorkerStep(t) PROVE NumberInv'
  BY <1>3, NextRequestNumbers, TakeNumberNumbers, PickPopularNumbers,
     LookAtCounterNumbers, ReadNewestNumbers, MakeRequestNumbers DEF WorkerStep
<1> QED
  BY <1>1, <1>2, <1>3 DEF Next, MainStep

(* No two requests take one number, none takes a number that was used, and *)
(* what get_put reads was taken, though the counter is read twice for it:  *)
(* NumbersAreTakenOnce, whatever the threads do between the two looks.     *)
THEOREM NumbersOnce == Spec => []NumbersAreTakenOnce
<1>1. NumberInv => NumbersAreTakenOnce
  BY DEF NumberInv, NumbersAreTakenOnce, Holds, NewestIsTaken, Taken
<1> QED
  BY <1>1, InitNumbers, NextNumbers, PTL DEF Spec

-----------------------------------------------------------------------------
(* Sums over a finite set of threads.  There is no induction over a        *)
(* predicate here (see the README); a set of sets that has no smallest     *)
(* element is empty.                                                       *)
LEMMA SmallestSet ==
    ASSUME NEW T, IsFiniteSet(T), NEW X \in SUBSET (SUBSET T), X # {}
    PROVE  \E s \in X : \A u \in X : u \subseteq s => u = s
<1> DEFINE Less == StrictSubsetOrdering(T)
<1>1. IsWellFoundedOn(Less, FiniteSubsetsOf(T))
  BY FS_StrictSubsetOrderingWellFounded
<1>2. FiniteSubsetsOf(T) = SUBSET T
  BY FS_FiniteSubsetsOfFinite
<1>3. PICK s \in X : \A u \in X : ~ (<<u, s>> \in Less)
  <2> HIDE DEF Less
  <2> QED BY <1>1, <1>2, WFMin
<1>4. ASSUME NEW u \in X, u \subseteq s PROVE u = s
  BY <1>3, <1>4 DEF StrictSubsetOrdering
<1> QED BY <1>4

Pick(s) == CHOOSE x \in s : TRUE

LEMMA PickIn ==
    ASSUME NEW s, s # {}
    PROVE  Pick(s) \in s
BY DEF Pick

(* w has the sum of f over every subset of S.                              *)
SumsOf(f, S, w) ==
    w = [s \in SUBSET S |-> IF s = {} THEN 0 ELSE f[Pick(s)] + w[s \ {Pick(s)}]]

Sum(f, S) == (CHOOSE w : SumsOf(f, S, w))[S]

LEMMA SumsAgree ==
    ASSUME NEW f, NEW S, NEW T, NEW v, NEW w, SumsOf(f, S, v), SumsOf(f, T, w),
           NEW u, u \subseteq S, u \subseteq T, IsFiniteSet(u)
    PROVE  v[u] = w[u]
<1> DEFINE X == {s \in SUBSET u : v[s] # w[s]}
<1>1. SUFFICES ASSUME X # {} PROVE FALSE
  OBVIOUS
<1>2. PICK s \in X : \A r \in X : r \subseteq s => r = s
  <2>1. X \in SUBSET (SUBSET u)
    OBVIOUS
  <2> HIDE DEF X
  <2> QED BY <1>1, <2>1, SmallestSet
<1>3. s \in SUBSET S /\ s \in SUBSET T /\ v[s] # w[s]
  BY <1>2
<1>4. /\ v[s] = IF s = {} THEN 0 ELSE f[Pick(s)] + v[s \ {Pick(s)}]
      /\ w[s] = IF s = {} THEN 0 ELSE f[Pick(s)] + w[s \ {Pick(s)}]
  BY <1>3, Zenon DEF SumsOf
<1>5. s # {}
  BY <1>3, <1>4
<1>6. v[s \ {Pick(s)}] = w[s \ {Pick(s)}]
  <2>1. Pick(s) \in s
    BY <1>5, PickIn
  <2>2. s \ {Pick(s)} \in SUBSET u /\ s \ {Pick(s)} # s /\ s \ {Pick(s)} \subseteq s
    BY <1>2, <2>1
  <2> QED BY <1>2, <2>2
<1> QED BY <1>3, <1>4, <1>5, <1>6

LEMMA SumsExist ==
    ASSUME NEW f, NEW S, IsFiniteSet(S)
    PROVE  \E w : SumsOf(f, S, w)
<1> DEFINE X == {s \in SUBSET S : ~ \E w : SumsOf(f, s, w)}
<1>1. SUFFICES ASSUME X # {} PROVE FALSE
  OBVIOUS
<1>2. PICK t \in X : \A r \in X : r \subseteq t => r = t
  <2>1. X \in SUBSET (SUBSET S)
    OBVIOUS
  <2> HIDE DEF X
  <2> QED BY <1>1, <2>1, SmallestSet
<1> DEFINE of(s) == CHOOSE w : SumsOf(f, s, w)
           rest(s) == s \ {Pick(s)}
           value(s) == IF s = {} THEN 0 ELSE f[Pick(s)] + of(rest(s))[rest(s)]
           v == [s \in SUBSET t |-> value(s)]
<1>3. ASSUME NEW s, s \subseteq t, s # t PROVE SumsOf(f, s, of(s)) /\ IsFiniteSet(s)
  <2>1. s \in SUBSET S /\ s \notin X
    BY <1>2, <1>3
  <2>2. \E w : SumsOf(f, s, w)
    BY <2>1
  <2> QED BY <2>1, <2>2, FS_Subset
<1>4. ASSUME NEW s \in SUBSET t, s # {}
      PROVE  rest(s) \in SUBSET t /\ rest(s) # t /\ v[rest(s)] = of(rest(s))[rest(s)]
  <2> DEFINE r == rest(s)
  <2>1. Pick(s) \in s
    BY <1>4, PickIn
  <2>2. r \in SUBSET t /\ r # t
    BY <2>1
  <2>3. SumsOf(f, r, of(r)) /\ IsFiniteSet(r)
    BY <1>3, <2>2
  <2>4. v[r] = value(r)
    BY <2>2
  <2> HIDE DEF r, of, rest, v
  <2>5. of(r)[r] = IF r = {} THEN 0 ELSE f[Pick(r)] + of(r)[rest(r)]
    BY <2>3, Zenon DEF SumsOf, rest
  <2>6. CASE r = {}
    BY <2>2, <2>4, <2>5, <2>6 DEF r
  <2>7. CASE r # {}
    <3>1. Pick(r) \in r
      BY <2>7, PickIn
    <3>2. rest(r) \subseteq r /\ rest(r) \subseteq t /\ rest(r) # t
      BY <2>2, <3>1 DEF rest
    <3>3. SumsOf(f, rest(r), of(rest(r))) /\ IsFiniteSet(rest(r))
      BY <1>3, <3>2
    <3>4. of(r)[rest(r)] = of(rest(r))[rest(r)]
      BY <2>3, <3>2, <3>3, SumsAgree
    <3> QED BY <2>2, <2>4, <2>5, <2>7, <3>4 DEF r
  <2> QED BY <2>6, <2>7
<1> HIDE DEF of
<1>5. SumsOf(f, t, v)
  <2>1. ASSUME NEW s \in SUBSET t
        PROVE  v[s] = IF s = {} THEN 0 ELSE f[Pick(s)] + v[s \ {Pick(s)}]
    <3>1. v[s] = value(s)
      OBVIOUS
    <3> HIDE DEF v
    <3> QED BY <1>4, <3>1
  <2>2. v = [s \in SUBSET t |-> v[s]]
    OBVIOUS
  <2> HIDE DEF v
  <2>3. v = [s \in SUBSET t |-> IF s = {} THEN 0 ELSE f[Pick(s)] + v[s \ {Pick(s)}]]
    BY <2>1, <2>2, Zenon
  <2> QED BY <2>3 DEF SumsOf
<1> QED BY <1>2, <1>5

LEMMA SumIs ==
    ASSUME NEW f, NEW S, IsFiniteSet(S), NEW w, SumsOf(f, S, w)
    PROVE  /\ Sum(f, S) = w[S]
           /\ \A s \in SUBSET S : Sum(f, s) = w[s]
<1>1. ASSUME NEW s \in SUBSET S PROVE Sum(f, s) = w[s]
  <2>1. IsFiniteSet(s)
    BY FS_Subset
  <2> DEFINE v == CHOOSE v : SumsOf(f, s, v)
  <2>2. SumsOf(f, s, v)
    BY <2>1, SumsExist
  <2>3. Sum(f, s) = v[s]
    BY DEF Sum
  <2> HIDE DEF v
  <2>4. v[s] = w[s]
    BY <2>1, <2>2, SumsAgree
  <2> QED BY <2>3, <2>4
<1> QED BY <1>1

LEMMA SumUnfold ==
    ASSUME NEW f, NEW S, IsFiniteSet(S)
    PROVE  Sum(f, S) = IF S = {} THEN 0 ELSE f[Pick(S)] + Sum(f, S \ {Pick(S)})
<1>1. PICK w : SumsOf(f, S, w)
  BY SumsExist
<1>2. w[S] = IF S = {} THEN 0 ELSE f[Pick(S)] + w[S \ {Pick(S)}]
  BY <1>1, Zenon DEF SumsOf
<1>3. Sum(f, S) = w[S] /\ Sum(f, S \ {Pick(S)}) = w[S \ {Pick(S)}]
  BY <1>1, SumIs
<1> QED BY <1>2, <1>3

(* A sum of numbers is a number, and its terms may be taken in any order.  *)
LEMMA SumType ==
    ASSUME NEW T, IsFiniteSet(T), NEW f \in [T -> Nat], NEW S \in SUBSET T
    PROVE  Sum(f, S) \in Nat
<1> DEFINE X == {s \in SUBSET T : Sum(f, s) \notin Nat}
<1>1. SUFFICES ASSUME X # {} PROVE FALSE
  OBVIOUS
<1>2. PICK s \in X : \A r \in X : r \subseteq s => r = s
  <2>1. X \in SUBSET (SUBSET T)
    OBVIOUS
  <2> HIDE DEF X
  <2> QED BY <1>1, <2>1, SmallestSet
<1>3. Sum(f, s) = IF s = {} THEN 0 ELSE f[Pick(s)] + Sum(f, s \ {Pick(s)})
  <2>1. IsFiniteSet(s)
    BY <1>2, FS_Subset
  <2> QED BY <2>1, SumUnfold
<1>4. s # {}
  BY <1>2, <1>3
<1>5. Pick(s) \in s /\ s \ {Pick(s)} \notin X
  BY <1>2, <1>4, PickIn
<1>6. f[Pick(s)] \in Nat /\ Sum(f, s \ {Pick(s)}) \in Nat
  BY <1>2, <1>5
<1> QED BY <1>2, <1>3, <1>4, <1>6

LEMMA SumWithout ==
    ASSUME NEW T, IsFiniteSet(T), NEW f \in [T -> Nat], NEW S \in SUBSET T, NEW x \in S
    PROVE  Sum(f, S) = f[x] + Sum(f, S \ {x})
<1> DEFINE X == {s \in SUBSET T : \E y \in s : Sum(f, s) # f[y] + Sum(f, s \ {y})}
<1>1. SUFFICES ASSUME X # {} PROVE FALSE
  OBVIOUS
<1>2. PICK s \in X : \A r \in X : r \subseteq s => r = s
  <2>1. X \in SUBSET (SUBSET T)
    OBVIOUS
  <2> HIDE DEF X
  <2> QED BY <1>1, <2>1, SmallestSet
<1>3. PICK y \in s : Sum(f, s) # f[y] + Sum(f, s \ {y})
  BY <1>2
<1> DEFINE p == Pick(s)
<1>4. p \in s /\ s \subseteq T
  BY <1>2, <1>3, PickIn
<1>5. Sum(f, s) = f[p] + Sum(f, s \ {p})
  <2>1. IsFiniteSet(s)
    BY <1>4, FS_Subset
  <2> QED BY <1>3, <2>1, SumUnfold
<1> HIDE DEF p
<1>6. y # p
  BY <1>3, <1>5
<1> DEFINE u == s \ {p}
           v == s \ {y}
           r == s \ {p, y}
<1>7. Sum(f, u) = f[y] + Sum(f, r)
  <2>1. u \notin X /\ u \in SUBSET T /\ y \in u
    BY <1>2, <1>3, <1>4, <1>6
  <2>2. u \ {y} = r
    OBVIOUS
  <2> HIDE DEF u, r
  <2> QED BY <2>1, <2>2
<1>8. Sum(f, v) = f[p] + Sum(f, r)
  <2>1. v \notin X /\ v \in SUBSET T /\ p \in v
    BY <1>2, <1>3, <1>4, <1>6
  <2>2. v \ {p} = r
    OBVIOUS
  <2> HIDE DEF v, r
  <2> QED BY <2>1, <2>2
<1>9. f[p] \in Nat /\ f[y] \in Nat /\ Sum(f, r) \in Nat
  <2>1. r \in SUBSET T
    BY <1>4
  <2> HIDE DEF r
  <2> QED BY <1>3, <1>4, <2>1, SumType
<1> HIDE DEF r
<1> QED BY <1>3, <1>5, <1>7, <1>8, <1>9

(* Sums term by term.                                                      *)
LEMMA SumOfSums ==
    ASSUME NEW T, IsFiniteSet(T),
           NEW f \in [T -> Nat], NEW g \in [T -> Nat], NEW h \in [T -> Nat],
           \A t \in T : f[t] = g[t] + h[t]
    PROVE  Sum(f, T) = Sum(g, T) + Sum(h, T)
<1> DEFINE X == {s \in SUBSET T : Sum(f, s) # Sum(g, s) + Sum(h, s)}
<1>1. SUFFICES ASSUME X # {} PROVE FALSE
  OBVIOUS
<1>2. PICK s \in X : \A r \in X : r \subseteq s => r = s
  <2>1. X \in SUBSET (SUBSET T)
    OBVIOUS
  <2> HIDE DEF X
  <2> QED BY <1>1, <2>1, SmallestSet
<1> DEFINE p == Pick(s)
           r == s \ {p}
<1>3. s \subseteq T /\ IsFiniteSet(s) /\ Sum(f, s) # Sum(g, s) + Sum(h, s)
  BY <1>2, FS_Subset
<1>4. s # {}
  <2>1. Sum(f, {}) = 0 /\ Sum(g, {}) = 0 /\ Sum(h, {}) = 0
    BY FS_EmptySet, SumUnfold
  <2>2. SUFFICES ASSUME s = {} PROVE FALSE
    OBVIOUS
  <2>3. Sum(f, s) = 0 /\ Sum(g, s) = 0 /\ Sum(h, s) = 0
    BY <2>1, <2>2
  <2>4. 0 = 0 + 0
    OBVIOUS
  <2> QED BY <1>3, <2>3, <2>4
<1>5. /\ Sum(f, s) = f[p] + Sum(f, r)
      /\ Sum(g, s) = g[p] + Sum(g, r)
      /\ Sum(h, s) = h[p] + Sum(h, r)
  BY <1>3, <1>4, SumUnfold
<1>6. p \in T /\ r \in SUBSET T /\ r \notin X
  <2>1. p \in s
    BY <1>4, PickIn
  <2> QED BY <1>2, <1>3, <2>1
<1> HIDE DEF p, r
<1>7. Sum(f, r) = Sum(g, r) + Sum(h, r)
  BY <1>6
<1>8. /\ Sum(g, r) \in Nat /\ Sum(h, r) \in Nat /\ g[p] \in Nat /\ h[p] \in Nat
      /\ f[p] = g[p] + h[p]
  BY <1>6, SumType
<1> QED BY <1>3, <1>5, <1>7, <1>8

LEMMA SumWithOneMore ==
    ASSUME NEW T, IsFiniteSet(T), NEW f \in [T -> Nat], NEW g \in [T -> Nat], NEW x \in T,
           f[x] = g[x] + 1, \A t \in T \ {x} : f[t] = g[t]
    PROVE  Sum(f, T) = Sum(g, T) + 1
<1> DEFINE h == [t \in T |-> IF t = x THEN 1 ELSE 0]
<1>1. h \in [T -> Nat] /\ \A t \in T : f[t] = g[t] + h[t]
  OBVIOUS
<1>2. Sum(h, T) = 1
  <2>1. \A t \in T \ {x} : h[t] = 0
    OBVIOUS
  <2>2. h[x] = 1
    OBVIOUS
  <2> HIDE DEF h
  <2>3. Sum(h, T) = h[x] + Sum(h, T \ {x})
    BY <1>1, SumWithout
  <2> DEFINE X == {s \in SUBSET (T \ {x}) : Sum(h, s) # 0}
  <2>4. X = {}
    <3>1. SUFFICES ASSUME X # {} PROVE FALSE
      OBVIOUS
    <3>2. PICK s \in X : \A r \in X : r \subseteq s => r = s
      <4>1. X \in SUBSET (SUBSET T)
        OBVIOUS
      <4> HIDE DEF X
      <4> QED BY <3>1, <4>1, SmallestSet
    <3>3. s \subseteq T \ {x} /\ IsFiniteSet(s) /\ Sum(h, s) # 0
      BY <3>2, FS_Subset
    <3>4. s # {} /\ Sum(h, s) = h[Pick(s)] + Sum(h, s \ {Pick(s)})
      BY <3>3, SumUnfold
    <3>5. Pick(s) \in s /\ s \ {Pick(s)} \notin X
      BY <3>2, <3>4, PickIn
    <3>6. Sum(h, s \ {Pick(s)}) = 0 /\ h[Pick(s)] = 0
      BY <2>1, <3>3, <3>5
    <3> QED BY <3>3, <3>4, <3>6
  <2>5. Sum(h, T \ {x}) = 0
    BY <2>4
  <2> QED BY <2>2, <2>3, <2>5
<1> HIDE DEF h
<1> QED BY <1>1, <1>2, SumOfSums

-----------------------------------------------------------------------------
Field(field) == [t \in Threads |-> stats[t][field]]

(* The sum in the report is this one.                                      *)
LEMMA TotalIsSum ==
    ASSUME NEW field
    PROVE  Total(field) = Sum(Field(field), Threads)
<1> DEFINE f == Field(field)
           IsTotal(w) == w = [s \in SUBSET Threads |->
               IF s = {} THEN 0
               ELSE stats[CHOOSE x \in s : TRUE][field] + w[s \ {CHOOSE x \in s : TRUE}]]
           v == CHOOSE w : IsTotal(w)
<1>1. PICK w : SumsOf(f, Threads, w)
  BY LoadGenAssumption, SumsExist
<1>2. \A u : IsTotal(u) <=> SumsOf(f, Threads, u)
  <2>1. \A s \in SUBSET Threads : s # {} => f[Pick(s)] = stats[CHOOSE x \in s : TRUE][field]
    <3>1. SUFFICES ASSUME NEW s \in SUBSET Threads, s # {}
                   PROVE  f[Pick(s)] = stats[CHOOSE x \in s : TRUE][field]
      OBVIOUS
    <3>2. Pick(s) \in Threads
      BY <3>1, PickIn
    <3> QED BY <3>2 DEF Field, Pick
  <2> SUFFICES ASSUME NEW u PROVE IsTotal(u) <=> SumsOf(f, Threads, u)
    OBVIOUS
  <2> HIDE DEF f
  <2>2. [s \in SUBSET Threads |->
             IF s = {} THEN 0
             ELSE stats[CHOOSE x \in s : TRUE][field] + u[s \ {CHOOSE x \in s : TRUE}]]
      = [s \in SUBSET Threads |-> IF s = {} THEN 0 ELSE f[Pick(s)] + u[s \ {Pick(s)}]]
    <3>1. SUFFICES ASSUME NEW s \in SUBSET Threads
                   PROVE  (IF s = {} THEN 0
                           ELSE stats[CHOOSE x \in s : TRUE][field]
                                    + u[s \ {CHOOSE x \in s : TRUE}])
                          = IF s = {} THEN 0 ELSE f[Pick(s)] + u[s \ {Pick(s)}]
      OBVIOUS
    <3>2. CASE s = {}
      BY <3>2
    <3>3. CASE s # {}
      <4> DEFINE p == CHOOSE x \in s : TRUE
      <4>1. p = Pick(s)
        BY DEF Pick
      <4>2. f[Pick(s)] = stats[p][field]
        BY <2>1, <3>3
      <4> HIDE DEF p
      <4>3. stats[p][field] + u[s \ {p}] = f[Pick(s)] + u[s \ {Pick(s)}]
        BY <4>1, <4>2, Zenon
      <4> QED BY <3>3, <4>3 DEF p
    <3> QED BY <3>2, <3>3
  <2> QED BY <2>2 DEF SumsOf
<1>3. Total(field) = v[Threads]
  BY DEF Total, MapThenSumSet, MapThenFoldSet
<1>4. SumsOf(f, Threads, v)
  <2> HIDE DEF f, IsTotal
  <2>1. IsTotal(w)
    BY <1>1, <1>2
  <2>2. IsTotal(v)
    BY <2>1
  <2> HIDE DEF v
  <2> QED BY <1>2, <2>2
<1> HIDE DEF v
<1>5. Sum(f, Threads) = v[Threads]
  BY <1>4, LoadGenAssumption, SumIs
<1> QED BY <1>3, <1>5

-----------------------------------------------------------------------------
Stats == [total : Nat, success : Nat, fail : Nat]

InRequest(t) == worker[t].pc \in {"choose", "newest", "call"}

(* A thread that is not in a request has counted each as one or the other. *)
Counted(t) ==
    stats[t].total = stats[t].success + stats[t].fail + (IF InRequest(t) THEN 1 ELSE 0)

(* The numbers that t has taken where each request takes one.              *)
Numbers == [t \in Threads |-> stats[t].total - (IF At(t, "choose") THEN 1 ELSE 0)]

OneEach ==
    workload \in {"put_all", "get_all"} =>
        /\ \A t \in Threads : ~At(t, "newest")
        /\ Sum(Numbers, Threads) = global_key_counter

(* Nobody takes a number and lets it go.                                   *)
NoneSkipped ==
    \A n \in 0 .. global_key_counter - 1 :
        Numbered(n) \in used \/ \E t \in Threads : Holds(t) /\ worker[t].key = Numbered(n)

Reported ==
    /\ report # None => main.pc = "done"
    /\ main.pc \in {"add", "start"} => \A t \in Threads : At(t, "none")
    /\ main = [pc |-> main.pc, next |-> main.next]
    /\ main.pc = "done" =>
          /\ \A t \in Threads : At(t, "gone")
          /\ report.total = Sum(Field("total"), Threads)
          /\ report.failed = report.total - Sum(Field("success"), Threads)

CountInv ==
    /\ NumberInv
    /\ stats \in [Threads -> Stats]
    /\ \A t \in Threads : Counted(t)
    /\ OneEach
    /\ NoneSkipped
    /\ Reported

LEMMA FieldTypes ==
    ASSUME stats \in [Threads -> Stats]
    PROVE  /\ Field("total") \in [Threads -> Nat]
           /\ Field("success") \in [Threads -> Nat]
           /\ Field("fail") \in [Threads -> Nat]
BY DEF Field, Stats

LEMMA NumbersType ==
    ASSUME CountInv
    PROVE  Numbers \in [Threads -> Nat]
<1>1. SUFFICES ASSUME NEW t \in Threads
               PROVE  stats[t].total - (IF At(t, "choose") THEN 1 ELSE 0) \in Nat
  BY DEF Numbers
<1>2. /\ stats[t].total \in Nat /\ stats[t].success \in Nat /\ stats[t].fail \in Nat
      /\ Counted(t)
  BY DEF CountInv, Stats
<1> QED BY <1>2 DEF Counted, InRequest, At

LEMMA TwiceItself ==
    ASSUME NEW x \in Nat, x = x + x PROVE x = 0
OBVIOUS

LEMMA InitCount == Init => CountInv
<1> SUFFICES ASSUME Init PROVE CountInv
  OBVIOUS
<1>1. NumberInv
  BY InitNumbers
<1>2. /\ stats = [t \in Threads |-> [total |-> 0, success |-> 0, fail |-> 0]]
      /\ \A t \in Threads : worker[t].pc = "none"
      /\ global_key_counter = 0 /\ report = None /\ main.pc # "done"
      /\ main = [pc |-> main.pc, next |-> main.next]
  BY DEF Init, NoStats
<1>3. stats \in [Threads -> Stats] /\ \A t \in Threads : Counted(t)
  BY <1>2 DEF Stats, Counted, InRequest
<1>4. Sum(Numbers, Threads) = 0
  <2>1. Numbers \in [Threads -> Nat] /\ \A t \in Threads : Numbers[t] = Numbers[t] + Numbers[t]
    BY <1>2 DEF Numbers, At
  <2>2. Sum(Numbers, Threads) = Sum(Numbers, Threads) + Sum(Numbers, Threads)
    BY <2>1, LoadGenAssumption, SumOfSums
  <2>3. Sum(Numbers, Threads) \in Nat
    BY <2>1, LoadGenAssumption, SumType
  <2> QED BY <2>2, <2>3, TwiceItself, Zenon
<1>5. OneEach /\ NoneSkipped /\ Reported
  BY <1>2, <1>4 DEF OneEach, NoneSkipped, Reported, At
<1> QED BY <1>1, <1>3, <1>5 DEF CountInv

-----------------------------------------------------------------------------
(* A step of t keeps CountInv if t's own counts, and what is said of all   *)
(* threads together, are in order after it.                                *)
LEMMA OwnCount ==
    ASSUME CountInv, [Next]_vars, NEW t \in Threads,
           ~At(t, "gone"), ~At(t, "none"), UNCHANGED <<main, report>>,
           \A u \in Threads \ {t} : worker'[u] = worker[u] /\ stats'[u] = stats[u],
           stats' \in [Threads -> Stats], Counted(t)', OneEach', NoneSkipped'
    PROVE  CountInv'
<1>1. NumberInv'
  BY NextNumbers DEF CountInv
<1>2. \A u \in Threads : Counted(u)'
  BY DEF CountInv, Counted, InRequest
<1>3. main.pc \notin {"add", "start", "done"}
  BY DEF CountInv, Reported
<1>4. Reported'
  BY <1>3 DEF CountInv, Reported
<1> QED BY <1>1, <1>2, <1>4 DEF CountInv

LEMMA KeepNumbers ==
    ASSUME CountInv, UNCHANGED <<workload, global_key_counter>>, used \subseteq used',
           NEW t \in Threads, \A u \in Threads \ {t} : worker'[u] = worker[u],
           Holds(t) => worker[t].key \in used'
    PROVE  NoneSkipped'
<1>1. \A u \in Threads \ {t} : (Holds(u)' <=> Holds(u)) /\ worker'[u].key = worker[u].key
  BY DEF Holds, At, TakesNumber, Creates
<1>2. ASSUME NEW n \in 0 .. global_key_counter - 1
      PROVE  Numbered(n) \in used' \/ \E u \in Threads : Holds(u)' /\ worker'[u].key = Numbered(n)
  <2>1. Numbered(n) \in used \/ \E u \in Threads : Holds(u) /\ worker[u].key = Numbered(n)
    BY DEF CountInv, NoneSkipped
  <2> QED BY <1>1, <2>1
<1> QED BY <1>2 DEF NoneSkipped

(* Where t counts and takes no number, or has left the choice before.      *)
LEMMA KeepOneEach ==
    ASSUME CountInv, UNCHANGED <<workload, global_key_counter>>,
           NEW t \in Threads,
           \A u \in Threads \ {t} : worker'[u] = worker[u] /\ stats'[u] = stats[u],
           workload \in {"put_all", "get_all"} =>
               /\ worker'[t].pc # "newest"
               /\ stats'[t].total - (IF worker'[t].pc = "choose" THEN 1 ELSE 0)
                      = stats[t].total - (IF worker[t].pc = "choose" THEN 1 ELSE 0)
    PROVE  OneEach'
<1>1. SUFFICES ASSUME workload \in {"put_all", "get_all"} PROVE OneEach'
  BY DEF OneEach
<1>2. \A u \in Threads : ~At(u, "newest")'
  BY <1>1 DEF CountInv, OneEach, At
<1>3. Numbers' = Numbers
  BY <1>1 DEF Numbers, At
<1>4. Sum(Numbers, Threads)' = Sum(Numbers', Threads)
  BY DEF Sum, SumsOf
<1> QED BY <1>1, <1>2, <1>3, <1>4 DEF CountInv, OneEach

LEMMA WorkerFields ==
    ASSUME CountInv, NEW t \in Threads
    PROVE  /\ worker \in [Threads -> WorkerState] /\ worker[t] \in WorkerState
           /\ stats \in [Threads -> Stats] /\ stats[t] \in Stats
           /\ stats[t].total \in Nat /\ stats[t].success \in Nat /\ stats[t].fail \in Nat
           /\ DOMAIN worker = Threads
BY DEF CountInv, NumberInv, LoadTypeOK, Stats

LEMMA NextRequestCount ==
    ASSUME CountInv, [Next]_vars, NEW t \in Threads, NextRequest(t) PROVE CountInv'
<1> USE WorkerFields
<1>1. /\ worker[t].pc = "loop"
      /\ UNCHANGED <<workload, main, global_key_counter, used, report>>
      /\ \A u \in Threads \ {t} : worker'[u] = worker[u] /\ stats'[u] = stats[u]
  BY DEF NextRequest, At
<1>2. \/ worker'[t].pc = "gone" /\ stats' = stats
      \/ /\ worker'[t].pc = "choose"
         /\ stats' = [stats EXCEPT ![t] = [stats[t] EXCEPT !.total = @ + 1]]
  BY DEF NextRequest, WorkerState
<1>3. /\ stats' \in [Threads -> Stats]
      /\ stats'[t].success = stats[t].success /\ stats'[t].fail = stats[t].fail
      /\ \/ worker'[t].pc = "gone" /\ stats'[t].total = stats[t].total
         \/ worker'[t].pc = "choose" /\ stats'[t].total = stats[t].total + 1
  BY <1>2 DEF Stats
<1>4. Counted(t)'
  BY <1>1, <1>3 DEF CountInv, Counted, InRequest
<1>5. OneEach'
  BY <1>1, <1>3, KeepOneEach
<1>6. NoneSkipped'
  BY <1>1, KeepNumbers DEF Holds, At
<1> QED BY <1>1, <1>3, <1>4, <1>5, <1>6, OwnCount DEF At

LEMMA TakeNumberCount ==
    ASSUME CountInv, [Next]_vars, NEW t \in Threads, TakeNumber(t) PROVE CountInv'
<1> USE WorkerFields
<1> DEFINE n == global_key_counter
<1>1. /\ worker[t].pc = "choose" /\ TakesNumber(t)
      /\ UNCHANGED <<workload, main, stats, used, report>>
      /\ global_key_counter' = n + 1 /\ n \in Nat
      /\ \A u \in Threads \ {t} : worker'[u] = worker[u]
  BY DEF TakeNumber, At, CountInv, NumberInv, LoadTypeOK
<1>2. /\ worker'[t].pc = "call" /\ worker'[t].key = Numbered(n)
      /\ worker'[t].counter = worker[t].counter
  BY DEF TakeNumber, WorkerState
<1>3. Holds(t)'
  BY <1>1, <1>2 DEF Holds, At, TakesNumber, Creates
<1>4. NoneSkipped'
  <2>1. \A u \in Threads \ {t} : (Holds(u)' <=> Holds(u)) /\ worker'[u].key = worker[u].key
    BY <1>1 DEF Holds, At, TakesNumber, Creates
  <2>2. ~Holds(t)
    BY <1>1 DEF Holds, At
  <2>3. ASSUME NEW m \in 0 .. n
        PROVE  Numbered(m) \in used' \/ \E u \in Threads : Holds(u)' /\ worker'[u].key = Numbered(m)
    <3>1. CASE m = n
      BY <1>2, <1>3, <3>1
    <3>2. CASE m # n
      <4>1. m \in 0 .. n - 1
        BY <1>1, <3>2
      <4>2. Numbered(m) \in used \/ \E u \in Threads : Holds(u) /\ worker[u].key = Numbered(m)
        BY <4>1 DEF CountInv, NoneSkipped
      <4> QED BY <1>1, <2>1, <2>2, <4>2
    <3> QED BY <3>1, <3>2
  <2>4. 0 .. global_key_counter' - 1 = 0 .. n
    BY <1>1
  <2> QED BY <2>3, <2>4 DEF NoneSkipped
<1>5. OneEach'
  <2>1. SUFFICES ASSUME workload \in {"put_all", "get_all"} PROVE OneEach'
    BY <1>1 DEF OneEach
  <2>2. \A u \in Threads : ~At(u, "newest")'
    BY <1>1, <1>2, <2>1 DEF CountInv, OneEach, At
  <2> DEFINE new == Numbers'
  <2>3. Numbers[t] = stats[t].total - 1 /\ new[t] = stats[t].total - 0
    BY <1>1, <1>2 DEF Numbers, At
  <2>4. /\ Numbers \in [Threads -> Nat]
        /\ \A u \in Threads \ {t} : new[u] = Numbers[u]
        /\ new = [u \in Threads |-> new[u]]
    BY <1>1, NumbersType DEF Numbers, At
  <2>5. new[t] = Numbers[t] + 1
    BY <2>3
  <2> HIDE DEF new
  <2>6. new \in [Threads -> Nat]
    BY <2>4, <2>5
  <2>7. Sum(new, Threads) = Sum(Numbers, Threads) + 1
    BY <2>4, <2>5, <2>6, LoadGenAssumption, SumWithOneMore
  <2>8. Sum(Numbers, Threads)' = Sum(new, Threads)
    BY DEF Sum, SumsOf, new
  <2> QED BY <1>1, <2>1, <2>2, <2>7, <2>8 DEF CountInv, OneEach
<1>6. Counted(t)'
  BY <1>1, <1>2 DEF CountInv, Counted, InRequest
<1>7. stats' \in [Threads -> Stats] /\ \A u \in Threads \ {t} : stats'[u] = stats[u]
  BY <1>1
<1> QED BY <1>1, <1>4, <1>5, <1>6, <1>7, OwnCount DEF At

LEMMA PickPopularCount ==
    ASSUME CountInv, [Next]_vars, NEW t \in Threads, PickPopular(t) PROVE CountInv'
<1> USE WorkerFields
<1>1. /\ worker[t].pc = "choose" /\ worker'[t].pc = "call" /\ workload = "get_popular"
      /\ UNCHANGED <<workload, main, global_key_counter, stats, used, report>>
      /\ \A u \in Threads \ {t} : worker'[u] = worker[u]
  BY DEF PickPopular, At, WorkerState
<1>2. Counted(t)'
  BY <1>1 DEF CountInv, Counted, InRequest
<1>3. OneEach'
  BY <1>1, KeepOneEach
<1>4. NoneSkipped'
  BY <1>1, KeepNumbers DEF Holds, At
<1> QED BY <1>1, <1>2, <1>3, <1>4, OwnCount DEF At

LEMMA NewestCount ==
    ASSUME CountInv, [Next]_vars, NEW t \in Threads, LookAtCounter(t) \/ ReadNewest(t)
    PROVE  CountInv'
<1> USE WorkerFields
<1>1. /\ worker[t].pc \in {"choose", "newest"} /\ worker'[t].pc \in {"newest", "call"}
      /\ UNCHANGED <<workload, main, global_key_counter, stats, used, report>>
      /\ \A u \in Threads \ {t} : worker'[u] = worker[u]
  BY DEF LookAtCounter, ReadNewest, At, WorkerState
<1>2. workload = "get_put"
  BY DEF LookAtCounter, ReadNewest, CountInv, NumberInv, NewestIsTaken, ReadsNewest, At
<1>3. Counted(t)'
  BY <1>1 DEF CountInv, Counted, InRequest
<1>4. OneEach'
  BY <1>1, <1>2, KeepOneEach
<1>5. NoneSkipped'
  BY <1>1, KeepNumbers DEF Holds, At
<1> QED BY <1>1, <1>3, <1>4, <1>5, OwnCount DEF At

LEMMA MakeRequestCount ==
    ASSUME CountInv, [Next]_vars, NEW t \in Threads, MakeRequest(t) PROVE CountInv'
<1> USE WorkerFields
<1>1. /\ worker[t].pc = "call" /\ worker'[t].pc = "loop"
      /\ UNCHANGED <<workload, main, global_key_counter, report>>
      /\ \A u \in Threads \ {t} : worker'[u] = worker[u]
      /\ used' = IF TakesNumber(t) THEN used \union {worker[t].key} ELSE used
  BY DEF MakeRequest, At, WorkerState
<1>2. PICK ok \in BOOLEAN :
          stats' = [stats EXCEPT ![t] = [stats[t] EXCEPT !.success = @ + IF ok THEN 1 ELSE 0,
                                                         !.fail = @ + IF ok THEN 0 ELSE 1]]
  BY DEF MakeRequest
<1> DEFINE i == IF ok THEN 1 ELSE 0
           j == IF ok THEN 0 ELSE 1
           s == [stats[t] EXCEPT !.success = @ + i, !.fail = @ + j]
<1>3. i \in Nat /\ j \in Nat /\ i + j = 1
  OBVIOUS
<1>4. stats' = [stats EXCEPT ![t] = s]
  BY <1>2
<1> HIDE DEF i, j
<1>5. /\ s \in Stats /\ s.total = stats[t].total
      /\ s.success + s.fail = stats[t].success + stats[t].fail + 1
  <2>1. /\ s \in Stats /\ s.total = stats[t].total
        /\ s.success = stats[t].success + i /\ s.fail = stats[t].fail + j
    <3> DEFINE n == stats[t].success + i
               m == stats[t].fail + j
    <3>1. n \in Nat /\ m \in Nat
      BY <1>3
    <3>2. stats[t] \in Stats
      OBVIOUS
    <3> DEFINE a == [stats[t] EXCEPT !.success = n]
    <3>3. s = [a EXCEPT !.fail = m]
      OBVIOUS
    <3> HIDE DEF s, n, m
    <3>4. a \in Stats /\ a.total = stats[t].total /\ a.success = n
      BY <3>1, <3>2 DEF Stats
    <3> HIDE DEF a
    <3>5. s \in Stats /\ s.total = stats[t].total /\ s.success = n /\ s.fail = m
      BY <3>1, <3>3, <3>4 DEF Stats
    <3> QED BY <3>5 DEF n, m
  <2> HIDE DEF s
  <2> QED BY <1>3, <2>1
<1> HIDE DEF s
<1>6. /\ stats' \in [Threads -> Stats] /\ stats'[t] = s
      /\ \A u \in Threads \ {t} : stats'[u] = stats[u]
  BY <1>4, <1>5
<1>7. Counted(t)'
  BY <1>1, <1>5, <1>6 DEF CountInv, Counted, InRequest
<1>8. OneEach'
  BY <1>1, <1>5, <1>6, KeepOneEach
<1>9. NoneSkipped'
  <2>1. used \subseteq used' /\ (Holds(t) => worker[t].key \in used')
    BY <1>1 DEF Holds
  <2> QED BY <1>1, <2>1, KeepNumbers
<1> QED BY <1>1, <1>6, <1>7, <1>8, <1>9, OwnCount DEF At

(* main, and the end of the measured time.                                 *)
LEMMA MainCount ==
    ASSUME CountInv, [Next]_vars, UNCHANGED <<workload, global_key_counter, stats, used>>,
           \A t \in Threads : /\ worker'[t].counter = worker[t].counter
                              /\ worker'[t].key = worker[t].key
                              /\ \/ worker'[t].pc = worker[t].pc
                                 \/ worker[t].pc = "none" /\ worker'[t].pc = "loop",
           Reported'
    PROVE  CountInv'
<1>1. NumberInv'
  BY NextNumbers DEF CountInv
<1>2. \A t \in Threads : Counted(t)'
  BY DEF CountInv, Counted, InRequest
<1>3. \A t \in Threads : \A pc \in {"choose", "newest", "call"} : At(t, pc)' <=> At(t, pc)
  BY DEF At
<1>4. Numbers' = Numbers
  BY <1>3 DEF Numbers
<1>5. Sum(Numbers, Threads)' = Sum(Numbers', Threads)
  BY DEF Sum, SumsOf
<1>6. OneEach'
  BY <1>3, <1>4, <1>5 DEF CountInv, OneEach
<1>7. \A t \in Threads : Holds(t)' <=> Holds(t)
  BY <1>3 DEF Holds, TakesNumber, Creates
<1>8. NoneSkipped'
  BY <1>7 DEF CountInv, NoneSkipped
<1> QED BY <1>1, <1>2, <1>6, <1>8 DEF CountInv

LEMMA StatsFrame ==
    ASSUME UNCHANGED stats, NEW field
    PROVE  Sum(Field(field), Threads)' = Sum(Field(field), Threads)
BY DEF Sum, SumsOf, Field

LEMMA NextCount == CountInv /\ [Next]_vars => CountInv'
<1> SUFFICES ASSUME CountInv, [Next]_vars PROVE CountInv'
  OBVIOUS
<1>1. CASE TimeIsOver \/ UNCHANGED vars
  <2>1. UNCHANGED <<workload, main, global_key_counter, worker, stats, used, report>>
    BY <1>1 DEF TimeIsOver, vars
  <2>2. Reported'
    BY <2>1, StatsFrame DEF CountInv, Reported, At
  <2> QED BY <2>1, <2>2, MainCount
<1>2. CASE AddPopular
  <2>1. /\ UNCHANGED <<workload, global_key_counter, worker, stats, used, report>>
        /\ main'.pc # "done" /\ main.pc # "done" /\ main' = [pc |-> main'.pc, next |-> main'.next]
    BY <1>2 DEF AddPopular, CountInv, Reported
  <2>2. Reported'
    BY <1>2, <2>1 DEF CountInv, Reported, At, AddPopular
  <2> QED BY <2>1, <2>2, MainCount
<1>3. CASE StartWorkers
  <2>1. /\ UNCHANGED <<workload, global_key_counter, stats, used, report>>
        /\ main.pc = "start" /\ main'.pc = "join" /\ main' = [pc |-> main'.pc, next |-> main'.next]
        /\ worker' = [t \in Threads |-> [worker[t] EXCEPT !.pc = "loop"]]
    BY <1>3 DEF StartWorkers, CountInv, Reported
  <2>2. Reported'
    BY <2>1 DEF CountInv, Reported
  <2>3. ASSUME NEW t \in Threads
        PROVE  /\ worker'[t].counter = worker[t].counter /\ worker'[t].key = worker[t].key
               /\ worker[t].pc = "none" /\ worker'[t].pc = "loop"
    <3>1. worker[t] \in WorkerState /\ worker'[t] = [worker[t] EXCEPT !.pc = "loop"]
      BY <2>1, WorkerFields
    <3> QED BY <2>1, <3>1 DEF WorkerState, CountInv, Reported, At
  <2> QED BY <2>1, <2>2, <2>3, MainCount
<1>4. CASE Report
  <2>1. /\ UNCHANGED <<workload, global_key_counter, worker, stats, used>>
        /\ main'.pc = "done" /\ main' = [pc |-> main'.pc, next |-> main'.next]
        /\ \A t \in Threads : At(t, "gone")
    BY <1>4 DEF Report, CountInv, Reported, At
  <2>2. /\ report'.total = Sum(Field("total"), Threads)
        /\ report'.failed = report'.total - Sum(Field("success"), Threads)
    BY <1>4, TotalIsSum DEF Report
  <2>3. /\ Sum(Field("total"), Threads)' = Sum(Field("total"), Threads)
        /\ Sum(Field("success"), Threads)' = Sum(Field("success"), Threads)
    BY <2>1, StatsFrame
  <2>4. Reported'
    BY <2>1, <2>2, <2>3 DEF Reported, At
  <2> QED BY <2>1, <2>4, MainCount
<1>5. ASSUME NEW t \in Threads, WorkerStep(t) PROVE CountInv'
  BY <1>5, NextRequestCount, TakeNumberCount, PickPopularCount, NewestCount,
     MakeRequestCount DEF WorkerStep
<1> QED
  BY <1>1, <1>2, <1>3, <1>4, <1>5 DEF Next, MainStep

-----------------------------------------------------------------------------
LEMMA TakenCount ==
    ASSUME global_key_counter \in Nat
    PROVE  Cardinality(Taken) = global_key_counter
<1> DEFINE n == global_key_counter
           S == 0 .. n - 1
           f == [i \in S |-> Numbered(i)]
<1>1. IsFiniteSet(S) /\ Cardinality(S) = n
  BY FS_Interval
<1>2. f \in [S -> Taken]
  BY DEF Taken
<1>3. \A i, j \in S : f[i] = f[j] => i = j
  BY DEF Numbered
<1>4. \A k \in Taken : \E i \in S : f[i] = k
  BY DEF Taken
<1> HIDE DEF f, S
<1>5. f \in Bijection(S, Taken)
  BY <1>2, <1>3, <1>4 DEF Bijection, Injection, Surjection, IsInjective
<1>6. ExistsBijection(S, Taken)
  BY <1>5 DEF ExistsBijection
<1>7. Cardinality(Taken) = Cardinality(S)
  BY <1>1, <1>6, FS_Bijection
<1> QED BY <1>1, <1>7

LEMMA CountsAddUp ==
    ASSUME CountInv PROVE ReportAddsUp
<1> SUFFICES ASSUME report # None
             PROVE  /\ report.failed = Total("fail")
                    /\ Cardinality(used) = global_key_counter
                    /\ workload \in {"put_all", "get_all"} => report.total = global_key_counter
  BY DEF ReportAddsUp
<1>1. /\ \A t \in Threads : At(t, "gone")
      /\ report.total = Sum(Field("total"), Threads)
      /\ report.failed = report.total - Sum(Field("success"), Threads)
  BY DEF CountInv, Reported
<1>2. report.failed = Total("fail")
  <2>1. /\ Field("total") \in [Threads -> Nat]
        /\ Field("success") \in [Threads -> Nat]
        /\ Field("fail") \in [Threads -> Nat]
    BY FieldTypes DEF CountInv
  <2>2. ASSUME NEW t \in Threads
        PROVE  Field("total")[t] = Field("success")[t] + Field("fail")[t]
    <3>1. stats[t].total \in Nat /\ stats[t].success \in Nat /\ stats[t].fail \in Nat
      BY WorkerFields
    <3> QED BY <1>1, <3>1 DEF CountInv, Counted, InRequest, At, Field
  <2>3. Sum(Field("total"), Threads) = Sum(Field("success"), Threads) + Sum(Field("fail"), Threads)
    BY <2>1, <2>2, LoadGenAssumption, SumOfSums
  <2>4. Sum(Field("success"), Threads) \in Nat /\ Sum(Field("fail"), Threads) \in Nat
    BY <2>1, LoadGenAssumption, SumType
  <2>5. Total("fail") = Sum(Field("fail"), Threads)
    BY TotalIsSum
  <2> QED BY <1>1, <2>3, <2>4, <2>5
<1>3. Cardinality(used) = global_key_counter
  <2>1. used = Taken
    BY <1>1 DEF CountInv, NumberInv, NoneSkipped, Taken, Holds, At
  <2> QED BY <2>1, TakenCount DEF CountInv, NumberInv, LoadTypeOK
<1>4. ASSUME workload \in {"put_all", "get_all"} PROVE report.total = global_key_counter
  <2>1. Numbers = Field("total")
    <3>1. SUFFICES ASSUME NEW t \in Threads
                   PROVE  stats[t].total - (IF At(t, "choose") THEN 1 ELSE 0) = stats[t]["total"]
      BY DEF Numbers, Field
    <3> QED BY <1>1, WorkerFields DEF At
  <2> QED BY <1>1, <1>4, <2>1 DEF CountInv, OneEach
<1> QED BY <1>2, <1>3, <1>4

(* What main reports is what the threads did: the failures it works out by *)
(* subtraction are those that were counted, and each number that was taken *)
(* was used in one request: ReportAddsUp, for any number of threads.       *)
THEOREM ReportIsRight == Spec => []ReportAddsUp
BY InitCount, NextCount, CountsAddUp, PTL DEF Spec
=============================================================================
