-------------------------- MODULE HashRingProofs ---------------------------
(***************************************************************************)
(* Theorems about HashRing, for any number of backends and virtual nodes,  *)
(* any replication factor and any placement without collisions.            *)
(***************************************************************************)
EXTENDS HashRing, FiniteSetTheorems, TLAPS

RingInv == place \in Placements /\ NoCollision /\ RingHoldsMembers

(* Before, and the replicas it gives, in terms of places alone.            *)
Near(h, m, n) ==
    \E x \in PlacesOf(m) : \A y \in PlacesOf(n) : Distance(h, x) < Distance(h, y)

NearerIn(h, S, n) == {m \in S : Near(h, m, n)}

Nearest(h, S) == {n \in S : Cardinality(NearerIn(h, S, n)) < ReplicationFactor}

-----------------------------------------------------------------------------
(* Every backend has a place, and all its places are hashes.               *)
LEMMA PlacesAreHashes ==
    ASSUME place \in Placements, NEW n \in Nodes
    PROVE  PlacesOf(n) \subseteq Hashes /\ PlacesOf(n) # {}
<1>1. 0 \in Indices
  BY HashRingAssumption DEF Indices
<1>2. \A i \in Indices : place[n][i] \in Hashes
  BY DEF Placements
<1> QED
  BY <1>1, <1>2 DEF PlacesOf

(* Without collisions no hash is a place of two backends.                  *)
LEMMA PlacesDisjoint ==
    ASSUME NoCollision, NEW m \in Nodes, NEW n \in Nodes, m # n
    PROVE  PlacesOf(m) \intersect PlacesOf(n) = {}
BY DEF NoCollision, PlacesOf

LEMMA DistanceType ==
    ASSUME NEW h \in Hashes, NEW x \in Hashes
    PROVE  Distance(h, x) \in Int
<1>1. x - h \in Int /\ HashSpace \in Nat \ {0}
  BY HashRingAssumption DEF Hashes
<1> QED
  BY <1>1 DEF Distance

LEMMA NearIrreflexive ==
    ASSUME place \in Placements, NEW h \in Hashes, NEW n \in Nodes
    PROVE  ~Near(h, n, n)
BY PlacesAreHashes, DistanceType DEF Near

LEMMA NearTransitive ==
    ASSUME place \in Placements, NEW h \in Hashes,
           NEW l \in Nodes, NEW m \in Nodes, NEW n \in Nodes,
           Near(h, l, m), Near(h, m, n)
    PROVE  Near(h, l, n)
<1>1. PICK x \in PlacesOf(l) : \A y \in PlacesOf(m) : Distance(h, x) < Distance(h, y)
  BY DEF Near
<1>2. PICK y \in PlacesOf(m) : \A z \in PlacesOf(n) : Distance(h, y) < Distance(h, z)
  BY DEF Near
<1>3. ASSUME NEW z \in PlacesOf(n) PROVE Distance(h, x) < Distance(h, z)
  <2>1. Distance(h, x) < Distance(h, y) /\ Distance(h, y) < Distance(h, z)
    BY <1>1, <1>2
  <2>2. Distance(h, x) \in Int /\ Distance(h, y) \in Int /\ Distance(h, z) \in Int
    BY PlacesAreHashes, DistanceType
  <2> QED
    BY <2>1, <2>2
<1> QED
  BY <1>3 DEF Near

-----------------------------------------------------------------------------
LEMMA FewerNearer ==
    ASSUME NEW S \in SUBSET Nodes, NEW T \in SUBSET Nodes, NEW h, NEW m, NEW n,
           NearerIn(h, S, m) \subseteq NearerIn(h, T, n)
    PROVE  Cardinality(NearerIn(h, T, n)) < ReplicationFactor
             => Cardinality(NearerIn(h, S, m)) < ReplicationFactor
<1>1. IsFiniteSet(NearerIn(h, T, n))
  BY DeploymentAssumption, FS_Subset DEF NearerIn
<1>2. /\ IsFiniteSet(NearerIn(h, S, m))
      /\ Cardinality(NearerIn(h, S, m)) <= Cardinality(NearerIn(h, T, n))
  BY <1>1, FS_Subset
<1>3. Cardinality(NearerIn(h, S, m)) \in Nat /\ Cardinality(NearerIn(h, T, n)) \in Nat
  BY <1>1, <1>2, FS_CardinalityType
<1> QED
  BY <1>2, <1>3, HashRingAssumption

(* The heart of it: with one backend more, every other replica was one     *)
(* before, and if the new one is no replica nothing changes.               *)
LEMMA OneMore ==
    ASSUME place \in Placements, NEW h \in Hashes,
           NEW S \in SUBSET Nodes, NEW a \in Nodes \ S
    PROVE  /\ Nearest(h, S \union {a}) \ {a} \subseteq Nearest(h, S)
           /\ a \notin Nearest(h, S \union {a}) =>
                  Nearest(h, S \union {a}) = Nearest(h, S)
<1> DEFINE T == S \union {a}
<1>1. T \in SUBSET Nodes
  OBVIOUS
<1>2. Nearest(h, T) \ {a} \subseteq Nearest(h, S)
  <2>1. ASSUME NEW n \in Nearest(h, T) \ {a} PROVE n \in Nearest(h, S)
    <3>1. NearerIn(h, S, n) \subseteq NearerIn(h, T, n)
      BY DEF NearerIn
    <3>2. n \in S /\ Cardinality(NearerIn(h, T, n)) < ReplicationFactor
      BY DEF Nearest
    <3>3. Cardinality(NearerIn(h, S, n)) < ReplicationFactor
      BY <1>1, <3>1, <3>2, FewerNearer
    <3> QED
      BY <3>2, <3>3 DEF Nearest
  <2> QED
    BY <2>1
<1>3. ASSUME a \notin Nearest(h, T) PROVE Nearest(h, T) = Nearest(h, S)
  <2>1. ~(Cardinality(NearerIn(h, T, a)) < ReplicationFactor)
    BY <1>3 DEF Nearest
  <2>2. ASSUME NEW n \in Nearest(h, S) PROVE n \in Nearest(h, T)
    <3>1. n \in S /\ n \in Nodes /\ Cardinality(NearerIn(h, S, n)) < ReplicationFactor
      BY DEF Nearest
    <3>2. ~Near(h, a, n)
      <4>1. SUFFICES ASSUME Near(h, a, n) PROVE FALSE
        OBVIOUS
      <4>2. NearerIn(h, T, a) \subseteq NearerIn(h, S, n)
        <5>1. ASSUME NEW m \in T, Near(h, m, a) PROVE m \in S /\ Near(h, m, n)
          <6>1. m \in S
            BY <5>1, NearIrreflexive
          <6>2. Near(h, m, n)
            BY <6>1, <5>1, <4>1, <3>1, NearTransitive
          <6> QED
            BY <6>1, <6>2
        <5> QED
          BY <5>1 DEF NearerIn
      <4> QED
        BY <1>1, <4>2, <3>1, <2>1, FewerNearer
    <3>3. NearerIn(h, T, n) = NearerIn(h, S, n)
      BY <3>2 DEF NearerIn
    <3> QED
      BY <3>1, <3>3 DEF Nearest
  <2>3. Nearest(h, T) \subseteq Nearest(h, S)
    <3>1. Nearest(h, T) \ {a} \subseteq Nearest(h, S)
      BY <1>2
    <3> QED
      BY <1>3, <3>1
  <2> QED
    BY <2>2, <2>3
<1> QED
  BY <1>2, <1>3

-----------------------------------------------------------------------------
(* The ring under RingInv: its hashes are the places of the members.       *)
LEMMA RingBackends ==
    ASSUME RingInv
    PROVE  OnRing = members
<1>1. OnRing \subseteq members
  BY DEF OnRing, Occupied, RingInv, RingHoldsMembers
<1>2. ASSUME NEW n \in members PROVE n \in OnRing
  <2>1. n \in Nodes /\ n # None
    BY DeploymentAssumption DEF RingInv, RingHoldsMembers
  <2>2. PICK x \in PlacesOf(n) : x \in Hashes
    BY <2>1, PlacesAreHashes DEF RingInv
  <2>3. ring[x] = n
    BY <2>2 DEF RingInv, RingHoldsMembers
  <2> QED
    BY <2>1, <2>2, <2>3 DEF OnRing, Occupied
<1> QED
  BY <1>1, <1>2

LEMMA BeforeIsNear ==
    ASSUME RingInv, NEW h \in Hashes, NEW m \in members, NEW n \in members
    PROVE  Before(h, m, n) <=> Near(h, m, n)
<1>1. m \in Nodes /\ n \in Nodes
  BY DEF RingInv, RingHoldsMembers
<1>2. PlacesOf(m) \subseteq Hashes /\ PlacesOf(n) \subseteq Hashes
  BY <1>1, PlacesAreHashes DEF RingInv
<1>3. \A x \in Hashes : (ring[x] = m <=> x \in PlacesOf(m)) /\ (ring[x] = n <=> x \in PlacesOf(n))
  BY DEF RingInv, RingHoldsMembers
<1> QED
  BY <1>2, <1>3 DEF Before, Near

LEMMA ReplicasAreNearest ==
    ASSUME RingInv, NEW h \in Hashes
    PROVE  Replicas(h) = Nearest(h, members)
<1>1. \A n \in members : {m \in members : Before(h, m, n)} = NearerIn(h, members, n)
  BY BeforeIsNear DEF NearerIn
<1> QED
  BY <1>1, RingBackends DEF Replicas, Nearest

-----------------------------------------------------------------------------
LEMMA AddKeepsInv ==
    ASSUME RingInv, NEW a \in Nodes, AddNode(a)
    PROVE  RingInv'
<1> USE DEF AddNode
<1>1. place' \in Placements /\ NoCollision'
  BY DEF RingInv, NoCollision
<1>2. \A n : PlacesOf(n)' = PlacesOf(n)
  BY DEF PlacesOf
<1>3. members' \subseteq Nodes /\ \A x \in Hashes : ring'[x] \in members' \union {None}
  BY DEF RingInv, RingHoldsMembers
<1>4. ASSUME NEW n \in members', NEW x \in Hashes PROVE ring'[x] = n <=> x \in PlacesOf(n)
  <2>1. CASE n = a
    <3>1. CASE a \in members
      BY <2>1, <3>1 DEF RingInv, RingHoldsMembers
    <3>2. CASE a \notin members
      <4>1. ring[x] # a
        BY <3>2, DeploymentAssumption DEF RingInv, RingHoldsMembers
      <4> QED
        BY <4>1, <2>1
    <3> QED
      BY <3>1, <3>2
  <2>2. CASE n # a
    <3>1. n \in members /\ n \in Nodes
      BY <2>2 DEF RingInv, RingHoldsMembers
    <3>2. PlacesOf(n) \intersect PlacesOf(a) = {}
      BY <2>2, <3>1, PlacesDisjoint DEF RingInv
    <3>3. ring[x] = n <=> x \in PlacesOf(n)
      BY <3>1 DEF RingInv, RingHoldsMembers
    <3> QED
      BY <2>2, <3>2, <3>3
  <2> QED
    BY <2>1, <2>2
<1>5. RingHoldsMembers'
  BY <1>2, <1>3, <1>4 DEF RingHoldsMembers
<1> QED
  BY <1>1, <1>5 DEF RingInv

LEMMA RemoveKeepsInv ==
    ASSUME RingInv, NEW a \in Nodes, RemoveNode(a)
    PROVE  RingInv'
<1> USE DEF RemoveNode
<1>1. place' \in Placements /\ NoCollision'
  BY DEF RingInv, NoCollision
<1>2. \A n : PlacesOf(n)' = PlacesOf(n)
  BY DEF PlacesOf
<1>3. ASSUME NEW x \in Hashes PROVE ring'[x] \in members' \union {None}
  <2>1. ring[x] \in members \union {None}
    BY DEF RingInv, RingHoldsMembers
  <2>2. ring[x] = a /\ a \in members => x \in PlacesOf(a)
    BY DEF RingInv, RingHoldsMembers
  <2> QED
    BY <2>1, <2>2
<1>4. ASSUME NEW n \in members', NEW x \in Hashes PROVE ring'[x] = n <=> x \in PlacesOf(n)
  <2>1. n \in members /\ n # a /\ n \in Nodes /\ n # None
    BY DeploymentAssumption DEF RingInv, RingHoldsMembers
  <2>2. PlacesOf(n) \intersect PlacesOf(a) = {}
    BY <2>1, PlacesDisjoint DEF RingInv
  <2>3. ring[x] = n <=> x \in PlacesOf(n)
    BY <2>1 DEF RingInv, RingHoldsMembers
  <2> QED
    BY <2>1, <2>2, <2>3
<1>5. members' \subseteq Nodes
  BY DEF RingInv, RingHoldsMembers
<1>6. RingHoldsMembers'
  BY <1>2, <1>3, <1>4, <1>5 DEF RingHoldsMembers
<1> QED
  BY <1>1, <1>6 DEF RingInv

LEMMA InitInv ==
    ASSUME ~Collisions, Init
    PROVE  RingInv
BY DEF Init, RingInv, RingHoldsMembers

LEMMA StepInv ==
    ASSUME RingInv, [Next]_vars
    PROVE  RingInv'
<1>1. CASE Next
  BY <1>1, AddKeepsInv, RemoveKeepsInv DEF Next
<1>2. CASE UNCHANGED vars
  BY <1>2 DEF vars, RingInv, NoCollision, RingHoldsMembers, PlacesOf
<1> QED
  BY <1>1, <1>2

(* The ring always holds exactly the virtual nodes of its members, however *)
(* add_node and remove_node are repeated: the marks of sessions and of the *)
(* health thread need not know what is on it.                              *)
THEOREM RingIsExact ==
    ASSUME ~Collisions
    PROVE  Spec => []RingHoldsMembers
<1>1. Init => RingInv
  BY InitInv
<1>2. RingInv /\ [Next]_vars => RingInv'
  BY StepInv
<1>3. RingInv => RingHoldsMembers
  BY DEF RingInv
<1> QED
  BY <1>1, <1>2, <1>3, PTL DEF Spec

-----------------------------------------------------------------------------
ReplicasNearest == \A h \in Hashes : Replicas(h) = Nearest(h, members)

LEMMA AfterStep ==
    ASSUME ReplicasNearest, ReplicasNearest', UNCHANGED place, NEW h \in Hashes
    PROVE  Replicas(h) = Nearest(h, members) /\ Replicas(h)' = Nearest(h, members')
<1>1. Replicas(h)' = Nearest(h, members)'
  BY DEF ReplicasNearest
<1>2. Nearest(h, members)' = Nearest(h, members')
  BY DEF Nearest, NearerIn, Near, PlacesOf
<1> QED
  BY <1>1, <1>2 DEF ReplicasNearest

LEMMA NearestAreMembers ==
    ASSUME NEW h, NEW S
    PROVE  Nearest(h, S) \subseteq S
BY DEF Nearest

LEMMA AddMoves ==
    ASSUME RingInv, ReplicasNearest, ReplicasNearest',
           NEW a \in Nodes, AddNode(a), NEW h \in Hashes
    PROVE  Moves(h, members \ members', members' \ members)
<1>1. members' = members \union {a} /\ members \subseteq Nodes /\ UNCHANGED place
  BY DEF AddNode, RingInv, RingHoldsMembers
<1>2. Replicas(h) = Nearest(h, members) /\ Replicas(h)' = Nearest(h, members')
  BY <1>1, AfterStep
<1>3. CASE a \in members
  BY <1>1, <1>2, <1>3, NearestAreMembers DEF Moves
<1>4. CASE a \notin members
  <2>1. /\ Nearest(h, members') \ {a} \subseteq Nearest(h, members)
        /\ a \notin Nearest(h, members') => Nearest(h, members') = Nearest(h, members)
    BY <1>1, <1>4, OneMore DEF RingInv
  <2>2. members \ members' = {} /\ members' \ members = {a}
    BY <1>1, <1>4
  <2> QED
    BY <1>2, <2>1, <2>2 DEF Moves
<1> QED
  BY <1>3, <1>4

LEMMA RemoveMoves ==
    ASSUME RingInv, ReplicasNearest, ReplicasNearest',
           NEW a \in Nodes, RemoveNode(a), NEW h \in Hashes
    PROVE  Moves(h, members \ members', members' \ members)
<1>1. members' = members \ {a} /\ members \subseteq Nodes /\ UNCHANGED place
  BY DEF RemoveNode, RingInv, RingHoldsMembers
<1>2. Replicas(h) = Nearest(h, members) /\ Replicas(h)' = Nearest(h, members')
  BY <1>1, AfterStep
<1>3. CASE a \notin members
  <2>1. members' = members
    BY <1>1, <1>3
  <2> QED
    BY <1>2, <2>1 DEF Moves
<1>4. CASE a \in members
  <2>1. members = members' \union {a} /\ a \notin members' /\ members' \subseteq Nodes
    BY <1>1, <1>4
  <2>2. /\ Nearest(h, members) \ {a} \subseteq Nearest(h, members')
        /\ a \notin Nearest(h, members) => Nearest(h, members) = Nearest(h, members')
    BY <2>1, OneMore DEF RingInv
  <2>3. members \ members' = {a} /\ members' \ members = {}
    BY <2>1
  <2>4. a \notin Nearest(h, members')
    BY <2>1, NearestAreMembers
  <2> QED
    BY <1>2, <2>2, <2>3, <2>4 DEF Moves
<1> QED
  BY <1>3, <1>4

LEMMA StutterMoves ==
    ASSUME ReplicasNearest, ReplicasNearest', UNCHANGED vars, NEW h \in Hashes
    PROVE  Moves(h, members \ members', members' \ members)
<1>1. Replicas(h)' = Replicas(h)
  BY AfterStep DEF vars
<1> QED
  BY <1>1 DEF Moves, vars

(* Consistent hashing does what it is for: a mark moves only the keys of   *)
(* the backend it marks.  A recovery, and a write during an outage, may    *)
(* count on every other key staying where it is.                           *)
THEOREM KeysMoveMinimally ==
    ASSUME ~Collisions
    PROVE  Spec => OnlyItsKeysMove
<1>1. Init => RingInv
  BY InitInv
<1>2. RingInv /\ [Next]_vars => RingInv'
  BY StepInv
<1>3. RingInv => ReplicasNearest
  BY ReplicasAreNearest DEF ReplicasNearest
<1>4. ASSUME RingInv, ReplicasNearest, ReplicasNearest', [Next]_vars, NEW h \in Hashes
      PROVE  Moves(h, members \ members', members' \ members)
  BY <1>4, AddMoves, RemoveMoves, StutterMoves DEF Next
<1>5. RingInv /\ ReplicasNearest /\ ReplicasNearest' /\ [Next]_vars
        => [\A h \in Hashes : Moves(h, members \ members', members' \ members)]_vars
  BY <1>4
<1> QED
  BY <1>1, <1>2, <1>3, <1>5, PTL DEF Spec, OnlyItsKeysMove

-----------------------------------------------------------------------------
(* There is no induction over a predicate here (see the README); that a    *)
(* set of numbers has a least one follows from the well-foundedness of     *)
(* inclusion among finite sets.                                            *)
LEMMA LeastNatural ==
    ASSUME NEW S \in SUBSET Nat, S # {}
    PROVE  \E x \in S : \A y \in S : x <= y
<1> DEFINE Below(i) == 0 .. i - 1
           T == {Below(i) : i \in S}
           Less == StrictSubsetOrdering(Nat)
<1>1. T \subseteq FiniteSubsetsOf(Nat) /\ T # {}
  <2>1. \A i \in S : Below(i) \in SUBSET Nat /\ IsFiniteSet(Below(i))
    BY FS_Interval
  <2> QED BY <2>1 DEF FiniteSubsetsOf
<1>2. PICK t \in T : \A u \in T : ~ (<<u, t>> \in Less)
  <2>1. IsWellFoundedOn(Less, FiniteSubsetsOf(Nat))
    BY FS_StrictSubsetOrderingWellFounded
  <2> HIDE DEF T, Less
  <2> QED BY <1>1, <2>1, WFMin
<1>3. PICK x \in S : t = Below(x)
  BY <1>2
<1>4. ASSUME NEW y \in S, y < x PROVE FALSE
  <2>1. Below(y) \subseteq Below(x) /\ y \in Below(x) /\ y \notin Below(y)
    BY <1>4
  <2>2. Below(y) \in SUBSET Nat /\ Below(x) \in SUBSET Nat
    OBVIOUS
  <2> HIDE DEF Below
  <2>3. <<Below(y), Below(x)>> \in Less
    BY <2>1, <2>2 DEF StrictSubsetOrdering
  <2> QED BY <1>2, <1>3, <2>3
<1> QED BY <1>4

LEMMA MinIsLeast ==
    ASSUME NEW S \in SUBSET Nat, S # {}
    PROVE  Min(S) \in S /\ \A y \in S : Min(S) <= y
BY LeastNatural DEF Min

-----------------------------------------------------------------------------
(* How far it is from h to x, clockwise.                                   *)
LEMMA DistanceIs ==
    ASSUME NEW h \in Hashes, NEW x \in Hashes
    PROVE  Distance(h, x) = IF x >= h THEN x - h ELSE x - h + HashSpace
<1>1. /\ HashSpace \in Nat \ {0}
      /\ h \in 0 .. HashSpace - 1 /\ x \in 0 .. HashSpace - 1
  BY HashRingAssumption DEF Hashes
<1> QED
  BY <1>1 DEF Distance

LEMMA DistanceInjective ==
    ASSUME NEW h \in Hashes, NEW x \in Hashes, NEW y \in Hashes,
           Distance(h, x) = Distance(h, y)
    PROVE  x = y
<1>1. HashSpace \in Nat /\ h \in 0 .. HashSpace - 1 /\ x \in 0 .. HashSpace - 1
      /\ y \in 0 .. HashSpace - 1
  BY HashRingAssumption DEF Hashes
<1> QED
  BY <1>1, DistanceIs

(* lower_bound(h), and the step back to the beginning.                     *)
LEMMA FirstOccupied ==
    ASSUME NEW h \in Hashes, Occupied # {}
    PROVE  /\ AtOrAfter(h) \in Occupied
           /\ \A y \in Occupied : Distance(h, AtOrAfter(h)) <= Distance(h, y)
<1> DEFINE ahead == {x \in Occupied : x >= h}
           S == IF ahead # {} THEN ahead ELSE Occupied
           a == AtOrAfter(h)
<1>1. HashSpace \in Nat /\ Hashes = 0 .. HashSpace - 1
  BY HashRingAssumption DEF Hashes
<1>2. Occupied \subseteq Hashes
  BY DEF Occupied
<1>3. a \in S /\ \A y \in S : a <= y
  <2>1. a = Min(S)
    BY DEF AtOrAfter
  <2>2. S \in SUBSET Nat /\ S # {}
    <3>1. Occupied \in SUBSET Nat /\ Occupied # {}
      <4>1. Hashes \subseteq Nat
        BY <1>1
      <4> QED BY <1>2, <4>1
    <3>2. ahead \in SUBSET Nat
      BY <3>1
    <3> HIDE DEF ahead
    <3> QED BY <3>1, <3>2
  <2> HIDE DEF S, a
  <2> QED BY <2>1, <2>2, MinIsLeast
<1> HIDE DEF a
<1>4. a \in Occupied
  BY <1>3
<1>5. ASSUME NEW y \in Occupied PROVE Distance(h, a) <= Distance(h, y)
  <2>1. /\ Distance(h, a) = IF a >= h THEN a - h ELSE a - h + HashSpace
        /\ Distance(h, y) = IF y >= h THEN y - h ELSE y - h + HashSpace
    BY <1>2, <1>4, DistanceIs
  <2>2. \/ a >= h /\ (y >= h => a <= y)
        \/ a < h /\ y < h /\ a <= y
    BY <1>1, <1>2, <1>3
  <2> QED BY <1>1, <1>2, <1>4, <2>1, <2>2
<1> QED BY <1>4, <1>5 DEF a

(* The iterator goes to the next of the hashes that are farther than the   *)
(* one it is at, if there is any.                                          *)
LEMMA NextOccupied ==
    ASSUME NEW h \in Hashes, NEW x \in Occupied,
           NEW z \in Occupied, Distance(h, x) < Distance(h, z)
    PROVE  LET a == AtOrAfter(x + 1) IN
           /\ a \in Occupied
           /\ Distance(h, x) < Distance(h, a)
           /\ \A y \in Occupied : Distance(h, x) < Distance(h, y)
                  => Distance(h, a) <= Distance(h, y)
<1> DEFINE ahead == {y \in Occupied : y >= x + 1}
           S == IF ahead # {} THEN ahead ELSE Occupied
           a == AtOrAfter(x + 1)
<1>1. HashSpace \in Nat /\ Hashes = 0 .. HashSpace - 1
  BY HashRingAssumption DEF Hashes
<1>2. Occupied \subseteq Hashes
  BY DEF Occupied
<1>3. a \in S /\ \A y \in S : a <= y
  <2>1. a = Min(S)
    BY DEF AtOrAfter
  <2>2. S \in SUBSET Nat /\ S # {}
    <3>1. Occupied \in SUBSET Nat /\ Occupied # {}
      <4>1. Hashes \subseteq Nat
        BY <1>1
      <4> QED BY <1>2, <4>1
    <3>2. ahead \in SUBSET Nat
      BY <3>1
    <3> HIDE DEF ahead
    <3> QED BY <3>1, <3>2
  <2> HIDE DEF S, a
  <2> QED BY <2>1, <2>2, MinIsLeast
<1> HIDE DEF a
<1>4. a \in Occupied
  BY <1>3
<1>5. \A y \in Occupied :
          Distance(h, y) = IF y >= h THEN y - h ELSE y - h + HashSpace
  BY <1>2, DistanceIs
<1>6. ASSUME NEW y \in Occupied
      PROVE  \/ a > x /\ (y > x => a <= y)
             \/ a <= x /\ y <= x /\ a <= y
  BY <1>1, <1>2, <1>3
<1>7. Distance(h, x) < Distance(h, a)
  <2>1. /\ Distance(h, a) = IF a >= h THEN a - h ELSE a - h + HashSpace
        /\ Distance(h, x) = IF x >= h THEN x - h ELSE x - h + HashSpace
        /\ Distance(h, z) = IF z >= h THEN z - h ELSE z - h + HashSpace
    BY <1>4, <1>5
  <2> QED BY <1>1, <1>2, <1>4, <1>6, <2>1
<1>8. ASSUME NEW y \in Occupied, Distance(h, x) < Distance(h, y)
      PROVE  Distance(h, a) <= Distance(h, y)
  <2>1. /\ Distance(h, a) = IF a >= h THEN a - h ELSE a - h + HashSpace
        /\ Distance(h, x) = IF x >= h THEN x - h ELSE x - h + HashSpace
        /\ Distance(h, y) = IF y >= h THEN y - h ELSE y - h + HashSpace
    BY <1>4, <1>5
  <2> QED BY <1>1, <1>2, <1>4, <1>6, <1>7, <1>8, <2>1
<1> QED BY <1>4, <1>7, <1>8 DEF a

-----------------------------------------------------------------------------
(* The loop: where it starts, and one round.                               *)
WalkFrom(h) == [it |-> AtOrAfter(h), found |-> <<>>]

WalkOn(s) ==
    [it    |-> AtOrAfter(s.it + 1),
     found |-> IF ring[s.it] \in ToSet(s.found) THEN s.found
               ELSE Append(s.found, ring[s.it])]

(* g is the loop from h, up to round n.                                    *)
WalksTo(h, g, n) ==
    /\ DOMAIN g = 0 .. n
    /\ g[0] = WalkFrom(h)
    /\ \A m \in 1 .. n : g[m] = WalkOn(g[m - 1])

LEMMA WalkExists ==
    ASSUME NEW h, NEW n \in Nat
    PROVE  \E g : WalksTo(h, g, n)
<1> DEFINE S == {m \in Nat : ~ \E g : WalksTo(h, g, m)}
<1>1. SUFFICES ASSUME S # {} PROVE FALSE
  OBVIOUS
<1>2. PICK m \in S : \A l \in S : m <= l
  <2>1. S \in SUBSET Nat
    OBVIOUS
  <2> HIDE DEF S
  <2> QED BY <1>1, <2>1, LeastNatural
<1>3. CASE m = 0
  <2> DEFINE g == [l \in 0 .. 0 |-> WalkFrom(h)]
  <2>1. DOMAIN g = 0 .. 0 /\ g[0] = WalkFrom(h) /\ 1 .. 0 = {}
    OBVIOUS
  <2>2. WalksTo(h, g, 0)
    BY <2>1 DEF WalksTo
  <2> QED BY <1>3, <2>2
<1>4. CASE m # 0
  <2>1. m \in Nat /\ m - 1 \in Nat /\ m - 1 \notin S
    BY <1>2, <1>4
  <2>2. PICK f : WalksTo(h, f, m - 1)
    BY <2>1
  <2> DEFINE g == [l \in 0 .. m |-> IF l = m THEN WalkOn(f[m - 1]) ELSE f[l]]
  <2>3. /\ DOMAIN g = 0 .. m /\ g[m] = WalkOn(f[m - 1])
        /\ \A l \in 0 .. m - 1 : g[l] = f[l]
    BY <2>1
  <2> HIDE DEF g
  <2>4. g[0] = WalkFrom(h)
    BY <1>4, <2>1, <2>2, <2>3 DEF WalksTo
  <2>5. ASSUME NEW l \in 1 .. m PROVE g[l] = WalkOn(g[l - 1])
    <3>1. l - 1 \in 0 .. m - 1 /\ g[l - 1] = f[l - 1]
      BY <2>1, <2>3
    <3>2. CASE l = m
      BY <2>3, <3>1, <3>2
    <3>3. CASE l # m
      <4>1. l \in 1 .. m - 1 /\ l \in 0 .. m - 1
        BY <2>1, <3>3
      <4>2. f[l] = WalkOn(f[l - 1])
        BY <2>2, <4>1 DEF WalksTo
      <4> QED BY <2>3, <3>1, <4>1, <4>2
    <3> QED BY <3>2, <3>3
  <2>6. WalksTo(h, g, m)
    BY <2>3, <2>4, <2>5 DEF WalksTo
  <2> QED BY <2>6
<1> QED BY <1>3, <1>4

LEMMA WalkUnique ==
    ASSUME NEW h, NEW f, NEW g, NEW m \in Nat, NEW n \in Nat,
           WalksTo(h, f, m), WalksTo(h, g, n), NEW l \in Nat, l <= m, l <= n
    PROVE  f[l] = g[l]
<1> DEFINE S == {i \in Nat : i <= l /\ f[i] # g[i]}
<1>1. SUFFICES ASSUME S # {} PROVE FALSE
  OBVIOUS
<1>2. PICK i \in S : \A j \in S : i <= j
  <2>1. S \in SUBSET Nat
    OBVIOUS
  <2> HIDE DEF S
  <2> QED BY <1>1, <2>1, LeastNatural
<1>3. i # 0
  BY <1>2 DEF WalksTo
<1>4. i - 1 \in Nat /\ i - 1 \notin S /\ i \in 1 .. m /\ i \in 1 .. n
  BY <1>2, <1>3
<1>5. f[i - 1] = g[i - 1]
  BY <1>2, <1>4
<1>6. f[i] = WalkOn(f[i - 1]) /\ g[i] = WalkOn(g[i - 1])
  BY <1>4 DEF WalksTo
<1> QED BY <1>2, <1>5, <1>6

(* So the recursive definition of Walk defines a function.                 *)
LEMMA WalkIsLoop ==
    ASSUME NEW h
    PROVE  /\ Walk(h)[0] = WalkFrom(h)
           /\ \A n \in Nat \ {0} : Walk(h)[n] = WalkOn(Walk(h)[n - 1])
<1> DEFINE upTo(n) == CHOOSE g : WalksTo(h, g, n)
           f == [n \in Nat |-> upTo(n)[n]]
           Body(w) == [n \in Nat |-> IF n = 0 THEN WalkFrom(h) ELSE WalkOn(w[n - 1])]
<1>1. \A n \in Nat : WalksTo(h, upTo(n), n)
  BY WalkExists
<1> HIDE DEF upTo
<1>2. f = Body(f)
  <2>1. ASSUME NEW n \in Nat
        PROVE  f[n] = IF n = 0 THEN WalkFrom(h) ELSE WalkOn(f[n - 1])
    <3>1. f[n] = upTo(n)[n]
      OBVIOUS
    <3>2. CASE n = 0
      BY <1>1, <3>1, <3>2 DEF WalksTo
    <3>3. CASE n # 0
      <4>1. n - 1 \in Nat /\ n \in 1 .. n /\ n - 1 <= n
        BY <3>3
      <4>2. upTo(n)[n] = WalkOn(upTo(n)[n - 1])
        BY <1>1, <4>1 DEF WalksTo
      <4>3. upTo(n)[n - 1] = upTo(n - 1)[n - 1]
        BY <1>1, <4>1, WalkUnique
      <4>4. f[n - 1] = upTo(n - 1)[n - 1]
        BY <4>1
      <4> QED BY <3>1, <3>3, <4>2, <4>3, <4>4
    <3> QED BY <3>2, <3>3
  <2> QED BY <2>1
<1> HIDE DEF f
<1>3. Walk(h) = CHOOSE w : w = Body(w)
  BY DEF Walk, WalkFrom, WalkOn
<1>4. Walk(h) = Body(Walk(h))
  BY <1>2, <1>3
<1> QED BY <1>4

-----------------------------------------------------------------------------
Once(s) == \A i, j \in DOMAIN s : s[i] = s[j] => i = j

LEMMA AppendElements ==
    ASSUME NEW T, NEW s \in Seq(T), NEW e \in T
    PROVE  /\ Append(s, e) \in Seq(T)
           /\ Len(Append(s, e)) = Len(s) + 1
           /\ \A i \in 1 .. Len(s) : Append(s, e)[i] = s[i]
           /\ Append(s, e)[Len(s) + 1] = e
           /\ ToSet(Append(s, e)) = ToSet(s) \union {e}
<1> DEFINE r == Append(s, e)
<1>1. /\ r \in Seq(T) /\ Len(r) = Len(s) + 1 /\ Len(s) \in Nat
      /\ DOMAIN r = 1 .. Len(s) + 1 /\ DOMAIN s = 1 .. Len(s)
      /\ \A i \in 1 .. Len(s) : r[i] = s[i]
      /\ r[Len(s) + 1] = e
  OBVIOUS
<1> HIDE DEF r
<1>2. ToSet(r) \subseteq ToSet(s) \union {e}
  <2>1. ASSUME NEW i \in DOMAIN r PROVE r[i] \in ToSet(s) \union {e}
    <3>1. i = Len(s) + 1 \/ i \in 1 .. Len(s)
      BY <1>1
    <3> QED BY <1>1, <3>1 DEF ToSet
  <2> QED BY <2>1 DEF ToSet
<1>3. ToSet(s) \union {e} \subseteq ToSet(r)
  <2>1. 1 .. Len(s) \subseteq DOMAIN r /\ Len(s) + 1 \in DOMAIN r
    BY <1>1
  <2> QED BY <1>1, <2>1 DEF ToSet
<1> QED BY <1>1, <1>2, <1>3 DEF r

(* A list without repetitions is as long as its set is big.                *)
LEMMA OnceLength ==
    ASSUME NEW T, NEW s \in Seq(T), Once(s)
    PROVE  IsFiniteSet(ToSet(s)) /\ Cardinality(ToSet(s)) = Len(s)
<1>1. Len(s) \in Nat /\ DOMAIN s = 1 .. Len(s)
  OBVIOUS
<1>2. s \in Bijection(1 .. Len(s), ToSet(s))
  <2>1. ToSet(s) = {s[i] : i \in 1 .. Len(s)}
    BY <1>1 DEF ToSet
  <2>2. s \in [1 .. Len(s) -> ToSet(s)]
    BY <1>1, <2>1
  <2> QED BY <1>1, <2>1, <2>2 DEF Once, Bijection, Injection, Surjection, IsInjective
<1>3. ExistsBijection(1 .. Len(s), ToSet(s))
  BY <1>2 DEF ExistsBijection
<1>4. Cardinality(ToSet(s)) = Len(s)
  BY <1>1, <1>3, FS_CountingElements
<1>5. IsFiniteSet(ToSet(s))
  BY <1>1, <1>3, FS_NatBijection
<1> QED BY <1>4, <1>5

-----------------------------------------------------------------------------
(* After n rounds from h the loop has passed the n nearest of the virtual  *)
(* nodes, the iterator is at the next, and the result so far lists the     *)
(* backends that were met, each after all that are nearer.                 *)
Passed(h, s, V) ==
    /\ V \subseteq Occupied
    /\ \A x \in V : \A y \in Occupied \ V : Distance(h, x) < Distance(h, y)
    /\ V # Occupied =>
          /\ s.it \in Occupied \ V
          /\ \A y \in Occupied \ V : Distance(h, s.it) <= Distance(h, y)
    /\ s.found \in Seq(members) /\ Once(s.found)
    /\ ToSet(s.found) = {ring[x] : x \in V}
    /\ \A i, j \in DOMAIN s.found : i < j => Near(h, s.found[i], s.found[j])

LEMMA OccupiedPlaces ==
    ASSUME RingInv
    PROVE  /\ Occupied \subseteq Hashes /\ IsFiniteSet(Occupied)
           /\ \A x \in Occupied : ring[x] \in members
           /\ \A n \in members : \A x : x \in PlacesOf(n) <=> x \in Occupied /\ ring[x] = n
<1>1. Occupied \subseteq Hashes /\ \A x \in Occupied : ring[x] \in members
  BY DEF Occupied, RingInv, RingHoldsMembers
<1>2. IsFiniteSet(Occupied)
  <2>1. IsFiniteSet(Hashes)
    BY HashRingAssumption, FS_Interval DEF Hashes
  <2> QED BY <1>1, <2>1, FS_Subset
<1>3. ASSUME NEW n \in members, NEW x
      PROVE  x \in PlacesOf(n) <=> x \in Occupied /\ ring[x] = n
  <2>1. n \in Nodes /\ n # None
    BY DeploymentAssumption DEF RingInv, RingHoldsMembers
  <2>2. PlacesOf(n) \subseteq Hashes
    BY <2>1, PlacesAreHashes DEF RingInv
  <2>3. \A y \in Hashes : ring[y] = n <=> y \in PlacesOf(n)
    BY DEF RingInv, RingHoldsMembers
  <2> QED BY <1>1, <2>1, <2>2, <2>3 DEF Occupied
<1> QED BY <1>1, <1>2, <1>3

(* The backends that were met are nearer than the others.                  *)
LEMMA MetAreNearer ==
    ASSUME RingInv, NEW h \in Hashes, NEW s, NEW V, Passed(h, s, V),
           NEW m \in ToSet(s.found), NEW n \in members \ ToSet(s.found)
    PROVE  Near(h, m, n)
<1>1. PICK x \in V : m = ring[x]
  BY DEF Passed
<1>2. x \in Occupied /\ m \in members
  BY <1>1, OccupiedPlaces DEF Passed
<1>3. x \in PlacesOf(m)
  BY <1>1, <1>2, OccupiedPlaces
<1>4. \A y \in PlacesOf(n) : y \in Occupied \ V
  BY OccupiedPlaces DEF Passed
<1> QED BY <1>1, <1>3, <1>4 DEF Passed, Near

LEMMA WalkStarts ==
    ASSUME RingInv, NEW h \in Hashes, Occupied # {}
    PROVE  Passed(h, WalkFrom(h), {})
<1>1. /\ WalkFrom(h).it = AtOrAfter(h) /\ WalkFrom(h).found = <<>>
  BY DEF WalkFrom
<1>2. ToSet(<<>>) = {} /\ <<>> \in Seq(members) /\ Once(<<>>) /\ DOMAIN <<>> = {}
  BY DEF ToSet, Once
<1> QED BY <1>1, <1>2, FirstOccupied DEF Passed

LEMMA WalkGoesOn ==
    ASSUME RingInv, NEW h \in Hashes, NEW s, NEW V, Passed(h, s, V), V # Occupied
    PROVE  /\ s.it \notin V
           /\ Passed(h, WalkOn(s), V \union {s.it})
           /\ Len(WalkOn(s).found) <= Len(s.found) + 1
<1> DEFINE x == s.it
           U == V \union {x}
           t == WalkOn(s)
<1>1. /\ V \subseteq Occupied /\ x \in Occupied \ V
      /\ \A y \in Occupied \ V : Distance(h, x) <= Distance(h, y)
      /\ \A z \in V : \A y \in Occupied \ V : Distance(h, z) < Distance(h, y)
      /\ s.found \in Seq(members) /\ Once(s.found)
      /\ ToSet(s.found) = {ring[y] : y \in V}
      /\ \A i, j \in DOMAIN s.found : i < j => Near(h, s.found[i], s.found[j])
  BY DEF Passed
<1>2. /\ t.it = AtOrAfter(x + 1)
      /\ t.found = IF ring[x] \in ToSet(s.found) THEN s.found ELSE Append(s.found, ring[x])
  BY DEF WalkOn
<1>3. Occupied \subseteq Hashes /\ ring[x] \in members
  BY <1>1, OccupiedPlaces
<1> HIDE DEF t, x
<1>4. \A y \in Occupied : Distance(h, y) \in Int
  BY <1>3, DistanceType
<1>5. \A y \in Occupied \ U : Distance(h, x) < Distance(h, y)
  <2>1. SUFFICES ASSUME NEW y \in Occupied \ U PROVE Distance(h, x) < Distance(h, y)
    OBVIOUS
  <2>2. Distance(h, x) <= Distance(h, y) /\ x # y
    BY <1>1, <2>1
  <2>3. Distance(h, x) # Distance(h, y)
    BY <1>1, <1>3, <2>1, <2>2, DistanceInjective
  <2>4. Distance(h, x) \in Int /\ Distance(h, y) \in Int
    BY <1>1, <1>4, <2>1
  <2> QED BY <2>2, <2>3, <2>4
<1>6. \A z \in U : \A y \in Occupied \ U : Distance(h, z) < Distance(h, y)
  BY <1>1, <1>5
<1>7. ASSUME U # Occupied
      PROVE  /\ t.it \in Occupied \ U
             /\ \A y \in Occupied \ U : Distance(h, t.it) <= Distance(h, y)
  <2>1. PICK z \in Occupied : z \notin U
    BY <1>1, <1>7
  <2>2. /\ t.it \in Occupied
        /\ Distance(h, x) < Distance(h, t.it)
        /\ \A y \in Occupied : Distance(h, x) < Distance(h, y)
               => Distance(h, t.it) <= Distance(h, y)
    BY <1>1, <1>2, <1>5, <2>1, NextOccupied
  <2>3. t.it \notin V
    <3>1. SUFFICES ASSUME t.it \in V PROVE FALSE
      OBVIOUS
    <3>2. Distance(h, t.it) < Distance(h, x)
      BY <1>1, <3>1
    <3> QED BY <1>1, <1>4, <2>2, <3>2
  <2>4. t.it # x
    BY <1>1, <1>4, <2>2
  <2> QED BY <1>5, <2>2, <2>3, <2>4
<1>8. ToSet(s.found) \union {ring[x]} = {ring[y] : y \in U}
  BY <1>1
<1>9. CASE ring[x] \in ToSet(s.found)
  <2>1. t.found = s.found /\ ToSet(t.found) = {ring[y] : y \in U}
    BY <1>2, <1>8, <1>9
  <2>2. Passed(h, t, U)
    BY <1>1, <1>6, <1>7, <2>1 DEF Passed
  <2>3. Len(s.found) \in Nat
    BY <1>1
  <2> QED BY <1>1, <2>1, <2>2, <2>3 DEF t, x
<1>10. CASE ring[x] \notin ToSet(s.found)
  <2>1. t.found = Append(s.found, ring[x])
    BY <1>2, <1>10
  <2>2. /\ t.found \in Seq(members)
        /\ Len(t.found) = Len(s.found) + 1
        /\ \A i \in 1 .. Len(s.found) : t.found[i] = s.found[i]
        /\ t.found[Len(s.found) + 1] = ring[x]
        /\ ToSet(t.found) = ToSet(s.found) \union {ring[x]}
    BY <1>1, <1>3, <2>1, AppendElements
  <2>3. /\ Len(s.found) \in Nat /\ DOMAIN s.found = 1 .. Len(s.found)
        /\ DOMAIN t.found = 1 .. Len(s.found) + 1
    BY <1>1, <2>2
  <2>4. \A i \in DOMAIN s.found : s.found[i] \in ToSet(s.found)
    BY DEF ToSet
  <2>5. \A i \in DOMAIN t.found :
            \/ i \in DOMAIN s.found /\ t.found[i] = s.found[i]
            \/ i = Len(s.found) + 1 /\ t.found[i] = ring[x]
    BY <2>2, <2>3
  <2>6. Once(t.found)
    BY <1>1, <1>10, <2>4, <2>5 DEF Once
  <2>7. ASSUME NEW i \in DOMAIN t.found, NEW j \in DOMAIN t.found, i < j
        PROVE  Near(h, t.found[i], t.found[j])
    <3>1. i \in DOMAIN s.found /\ t.found[i] = s.found[i]
      BY <2>2, <2>3, <2>7
    <3>2. CASE j \in DOMAIN s.found
      <4>1. t.found[j] = s.found[j]
        BY <2>2, <2>3, <3>2
      <4> QED BY <1>1, <2>7, <3>1, <3>2, <4>1
    <3>3. CASE j \notin DOMAIN s.found
      <4>1. t.found[j] = ring[x]
        BY <2>5, <3>3
      <4>2. Near(h, s.found[i], ring[x])
        BY <1>3, <1>10, <2>4, <3>1, MetAreNearer
      <4> QED BY <3>1, <4>1, <4>2
    <3> QED BY <3>2, <3>3
  <2>8. ToSet(t.found) = {ring[y] : y \in U}
    BY <1>8, <2>2
  <2>9. Passed(h, t, U)
    BY <1>1, <1>6, <1>7, <2>2, <2>6, <2>7, <2>8 DEF Passed
  <2> QED BY <1>1, <2>2, <2>3, <2>9 DEF t, x
<1> QED BY <1>9, <1>10

-----------------------------------------------------------------------------
LEMMA WalkPasses ==
    ASSUME RingInv, NEW h \in Hashes, Occupied # {}, NEW n \in 0 .. Cardinality(Occupied)
    PROVE  \E V : Cardinality(V) = n /\ Passed(h, Walk(h)[n], V)
<1> DEFINE Fine(m) == \E V : Cardinality(V) = m /\ Passed(h, Walk(h)[m], V)
           S == {m \in 0 .. Cardinality(Occupied) : ~Fine(m)}
<1>1. SUFFICES ASSUME S # {} PROVE FALSE
  OBVIOUS
<1>2. IsFiniteSet(Occupied) /\ Cardinality(Occupied) \in Nat
  BY OccupiedPlaces, FS_CardinalityType
<1>3. PICK m \in S : \A l \in S : m <= l
  <2>1. S \in SUBSET Nat
    BY <1>2
  <2> HIDE DEF S
  <2> QED BY <1>1, <2>1, LeastNatural
<1>4. m # 0
  <2>1. Cardinality({}) = 0
    BY FS_EmptySet
  <2>2. Fine(0)
    BY <2>1, WalkStarts, WalkIsLoop
  <2> QED BY <1>3, <2>2
<1>5. /\ m - 1 \in 0 .. Cardinality(Occupied) /\ m - 1 < Cardinality(Occupied)
      /\ m \in Nat \ {0}
  BY <1>2, <1>3, <1>4
<1>6. Fine(m - 1)
  <2>1. m - 1 \notin S
    BY <1>3, <1>5
  <2> QED BY <1>5, <2>1
<1>7. PICK V : Cardinality(V) = m - 1 /\ Passed(h, Walk(h)[m - 1], V)
  BY <1>6
<1>8. V # Occupied /\ V \subseteq Occupied
  BY <1>5, <1>7 DEF Passed
<1> DEFINE x == Walk(h)[m - 1].it
<1>9. x \notin V /\ Passed(h, Walk(h)[m], V \union {x})
  <2>1. Walk(h)[m] = WalkOn(Walk(h)[m - 1])
    BY <1>5, WalkIsLoop
  <2> QED BY <1>7, <1>8, <2>1, WalkGoesOn, ZenonT(60)
<1>10. Cardinality(V \union {x}) = m
  <2>1. IsFiniteSet(V)
    BY <1>2, <1>8, FS_Subset
  <2> HIDE DEF x
  <2>2. Cardinality(V \union {x}) = Cardinality(V) + 1
    BY <1>9, <2>1, FS_AddElement
  <2> QED BY <1>5, <1>7, <2>2
<1>11. Fine(m)
  BY <1>9, <1>10
<1> QED BY <1>3, <1>11

(* The loop ends, with no more backends than it was to find.               *)
LEMMA WalkEnds ==
    ASSUME RingInv, NEW h \in Hashes, Occupied # {}
    PROVE  LET s == Walk(h)[Rounds(h)] IN
           /\ Ends(s) /\ Len(s.found) <= ReplicationFactor
           /\ \E V : Passed(h, s, V)
<1> DEFINE C == Cardinality(Occupied)
           E == {m \in 0 .. C : Ends(Walk(h)[m])}
           n == Rounds(h)
<1>1. IsFiniteSet(Occupied) /\ C \in Nat
  BY OccupiedPlaces, FS_CardinalityType
<1>2. C \in E
  <2>1. C \in 0 .. C
    BY <1>1
  <2>2. PICK V : Cardinality(V) = C /\ Passed(h, Walk(h)[C], V)
    BY <2>1, WalkPasses
  <2>3. V = Occupied
    BY <1>1, <2>2, FS_Subset DEF Passed
  <2> DEFINE found == Walk(h)[C].found
  <2>4. ToSet(found) = OnRing /\ found \in Seq(members) /\ Once(found)
    BY <2>2, <2>3 DEF Passed, OnRing
  <2> HIDE DEF found
  <2>5. Len(found) = Cardinality(OnRing) /\ Len(found) \in Nat
    BY <2>4, OnceLength
  <2> QED BY <2>1, <2>5 DEF Ends, found
<1>3. PICK l \in E : \A m \in E : l <= m
  <2>1. E \in SUBSET Nat /\ E # {}
    BY <1>1, <1>2
  <2> HIDE DEF E
  <2> QED BY <2>1, LeastNatural
<1>4. l \in 0 .. C /\ Ends(Walk(h)[l]) /\ \A m \in 0 .. l - 1 : ~Ends(Walk(h)[m])
  <2>1. \A m \in 0 .. l - 1 : m \in 0 .. C /\ ~(l <= m)
    BY <1>1, <1>3
  <2> QED BY <1>3, <2>1
<1>5. n \in 0 .. C /\ Ends(Walk(h)[n]) /\ \A m \in 0 .. n - 1 : ~Ends(Walk(h)[m])
  <2>1. n = CHOOSE i \in 0 .. C : Ends(Walk(h)[i]) /\ \A m \in 0 .. i - 1 : ~Ends(Walk(h)[m])
    BY DEF Rounds
  <2> HIDE DEF n, C
  <2> QED BY <1>4, <2>1
<1> HIDE DEF n
<1>6. n # 0
  <2>1. SUFFICES ASSUME n = 0 PROVE FALSE
    OBVIOUS
  <2>2. Walk(h)[0].found = <<>>
    <3>1. Walk(h)[0] = WalkFrom(h)
      BY WalkIsLoop
    <3>2. WalkFrom(h).found = <<>>
      BY DEF WalkFrom
    <3> QED BY <3>1, <3>2
  <2>3. Cardinality(OnRing) \in Nat /\ Cardinality(OnRing) # 0
    <3>1. OnRing # {}
      BY DEF OnRing
    <3>2. IsFiniteSet(OnRing)
      BY DeploymentAssumption, RingBackends, FS_Subset DEF RingInv, RingHoldsMembers
    <3> QED BY <3>1, <3>2, FS_CardinalityType, FS_EmptySet
  <2>4. Len(<<>>) = 0
    OBVIOUS
  <2> QED BY <1>5, <2>1, <2>2, <2>3, <2>4, HashRingAssumption DEF Ends
<1>7. /\ n \in Nat \ {0} /\ n - 1 \in 0 .. C /\ n - 1 \in 0 .. n - 1
      /\ Walk(h)[n] = WalkOn(Walk(h)[n - 1])
  <2>1. n \in Nat \ {0} /\ n - 1 \in 0 .. C /\ n - 1 \in 0 .. n - 1
    BY <1>1, <1>5, <1>6
  <2> QED BY <2>1, WalkIsLoop
<1>8. PICK V : Cardinality(V) = n - 1 /\ Passed(h, Walk(h)[n - 1], V)
  BY <1>7, WalkPasses
<1>9. V # Occupied
  BY <1>1, <1>5, <1>7, <1>8
<1>10. /\ Passed(h, Walk(h)[n], V \union {Walk(h)[n - 1].it})
       /\ Len(Walk(h)[n].found) <= Len(Walk(h)[n - 1].found) + 1
  <2> DEFINE s == Walk(h)[n - 1]
  <2>1. Passed(h, s, V)
    BY <1>8
  <2> HIDE DEF s
  <2>2. Passed(h, WalkOn(s), V \union {s.it}) /\ Len(WalkOn(s).found) <= Len(s.found) + 1
    BY <1>9, <2>1, WalkGoesOn
  <2> QED BY <1>7, <2>2 DEF s
<1>11. Len(Walk(h)[n].found) <= ReplicationFactor
  <2> DEFINE a == Len(Walk(h)[n - 1].found)
             b == Len(Walk(h)[n].found)
  <2>1. a \in Nat /\ b \in Nat
    BY <1>8, <1>10 DEF Passed
  <2>2. ~(a >= ReplicationFactor)
    BY <1>5, <1>7 DEF Ends
  <2>3. b <= a + 1
    BY <1>10
  <2> HIDE DEF a, b
  <2>4. b <= ReplicationFactor
    BY <2>1, <2>2, <2>3, HashRingAssumption
  <2> QED BY <2>4 DEF b
<1> QED BY <1>5, <1>10, <1>11 DEF n

-----------------------------------------------------------------------------
(* Of two backends the one whose nearest virtual node is nearer comes      *)
(* first: there is no third case.                                          *)
LEMMA NearestPlace ==
    ASSUME place \in Placements, NEW h \in Hashes, NEW n \in Nodes
    PROVE  \E x \in PlacesOf(n) : \A y \in PlacesOf(n) : Distance(h, x) <= Distance(h, y)
<1> DEFINE S == {Distance(h, x) : x \in PlacesOf(n)}
<1>1. PlacesOf(n) \subseteq Hashes /\ PlacesOf(n) # {}
  BY PlacesAreHashes
<1>2. \A x \in Hashes : Distance(h, x) \in Nat
  <2>1. /\ HashSpace \in Nat /\ h \in 0 .. HashSpace - 1
        /\ \A x \in Hashes : x \in 0 .. HashSpace - 1
    BY HashRingAssumption DEF Hashes
  <2> QED BY <2>1, DistanceIs
<1>3. S \in SUBSET Nat /\ S # {}
  BY <1>1, <1>2
<1>4. PICK d \in S : \A e \in S : d <= e
  <2> HIDE DEF S
  <2> QED BY <1>3, LeastNatural
<1> QED BY <1>4

LEMMA NearTotal ==
    ASSUME place \in Placements, NoCollision, NEW h \in Hashes,
           NEW m \in Nodes, NEW n \in Nodes, m # n
    PROVE  Near(h, m, n) \/ Near(h, n, m)
<1>1. PICK x \in PlacesOf(m) : \A y \in PlacesOf(m) : Distance(h, x) <= Distance(h, y)
  BY NearestPlace
<1>2. PICK z \in PlacesOf(n) : \A y \in PlacesOf(n) : Distance(h, z) <= Distance(h, y)
  BY NearestPlace
<1>3. x \in Hashes /\ z \in Hashes /\ x # z
  BY PlacesAreHashes, PlacesDisjoint
<1>4. /\ \A y \in PlacesOf(m) : Distance(h, y) \in Int
      /\ \A y \in PlacesOf(n) : Distance(h, y) \in Int
  BY PlacesAreHashes, DistanceType
<1>5. Distance(h, x) # Distance(h, z)
  BY <1>3, DistanceInjective
<1>6. CASE Distance(h, x) < Distance(h, z)
  <2>1. \A y \in PlacesOf(n) : Distance(h, x) < Distance(h, y)
    BY <1>2, <1>4, <1>6
  <2> QED BY <2>1 DEF Near
<1>7. CASE Distance(h, z) < Distance(h, x)
  <2>1. \A y \in PlacesOf(m) : Distance(h, z) < Distance(h, y)
    BY <1>1, <1>4, <1>7
  <2> QED BY <2>1 DEF Near
<1> QED BY <1>4, <1>5, <1>6, <1>7

(* The order of Router is this one.                                        *)
LEMMA RankIsNear ==
    ASSUME place \in Placements, NoCollision, NEW h \in Hashes,
           NEW m \in Nodes, NEW n \in Nodes
    PROVE  R!Before(<<h, place>>, m, n) <=> Near(h, m, n)
<1> DEFINE Rank(l) == Cardinality(NearerIn(h, Nodes, l))
<1>1. R!Before(<<h, place>>, m, n) <=> Rank(m) < Rank(n)
  <2>1. \A a, b \in Nodes : Near(h, a, b) <=>
            \E i \in Indices : \A j \in Indices :
                Distance(h, place[a][i]) < Distance(h, place[b][j])
    BY DEF Near, PlacesOf
  <2>2. \A l \in Nodes : RankUnder(place, h)[l] = Rank(l)
    <3>1. SUFFICES ASSUME NEW l \in Nodes PROVE RankUnder(place, h)[l] = Rank(l)
      OBVIOUS
    <3>2. RankUnder(place, h)[l] = Cardinality({a \in Nodes :
              \E i \in Indices : \A j \in Indices :
                  Distance(h, place[a][i]) < Distance(h, place[l][j])})
      BY DEF RankUnder
    <3>3. NearerIn(h, Nodes, l) = {a \in Nodes :
              \E i \in Indices : \A j \in Indices :
                  Distance(h, place[a][i]) < Distance(h, place[l][j])}
      BY <2>1 DEF NearerIn
    <3> QED BY <3>2, <3>3
  <2>3. <<h, place>> \in Hashes \X Placements
    OBVIOUS
  <2>4. [k \in Hashes \X Placements |-> RankUnder(k[2], k[1])][<<h, place>>]
            = RankUnder(place, h)
    BY <2>3
  <2> HIDE DEF Rank
  <2> QED BY <2>2, <2>4 DEF R!Before
<1>2. ASSUME NEW a \in Nodes, NEW b \in Nodes, Near(h, a, b)
      PROVE  Rank(a) < Rank(b)
  <2> DEFINE A == NearerIn(h, Nodes, a)
             B == NearerIn(h, Nodes, b)
  <2>1. A \subseteq B /\ a \in B /\ a \notin A
    BY <1>2, NearTransitive, NearIrreflexive DEF NearerIn
  <2>2. IsFiniteSet(A) /\ IsFiniteSet(B)
    BY DeploymentAssumption, FS_Subset DEF NearerIn
  <2> HIDE DEF A, B
  <2>3. Cardinality(A) \in Nat /\ Cardinality(B) \in Nat
    BY <2>2, FS_CardinalityType
  <2>4. Cardinality(A) <= Cardinality(B) /\ Cardinality(A) # Cardinality(B)
    BY <2>1, <2>2, FS_Subset
  <2>5. Cardinality(A) < Cardinality(B)
    BY <2>3, <2>4
  <2> QED BY <2>5 DEF A, B
<1>3. Rank(m) \in Nat /\ Rank(n) \in Nat
  <2>1. \A l : IsFiniteSet(NearerIn(h, Nodes, l))
    BY DeploymentAssumption, FS_Subset DEF NearerIn
  <2> QED BY <2>1, FS_CardinalityType
<1>4. ASSUME Rank(m) < Rank(n) PROVE Near(h, m, n)
  <2> HIDE DEF Rank
  <2>1. m # n /\ ~(Rank(n) < Rank(m))
    BY <1>3, <1>4
  <2>2. ~Near(h, n, m)
    BY <1>2, <2>1
  <2> QED BY <2>1, <2>2, NearTotal
<1> QED BY <1>1, <1>2, <1>4

-----------------------------------------------------------------------------
(* What the loop has found when it ends is what the order says.            *)
LEMMA FoundAreNearest ==
    ASSUME RingInv, NEW h \in Hashes, NEW s, NEW V, Passed(h, s, V),
           Ends(s), Len(s.found) <= ReplicationFactor
    PROVE  /\ ToSet(s.found) = Nearest(h, members)
           /\ Len(s.found) = Min({ReplicationFactor, Cardinality(members)})
<1> DEFINE found == s.found
           L == Len(found)
<1>1. /\ found \in Seq(members) /\ Once(found)
      /\ \A i, j \in DOMAIN found : i < j => Near(h, found[i], found[j])
  BY DEF Passed
<1>2. /\ IsFiniteSet(ToSet(found)) /\ Cardinality(ToSet(found)) = L
      /\ L \in Nat /\ DOMAIN found = 1 .. L /\ ToSet(found) \subseteq members
  BY <1>1, OnceLength DEF ToSet
<1>3. members \subseteq Nodes /\ place \in Placements /\ NoCollision
  BY DEF RingInv, RingHoldsMembers
<1>4. IsFiniteSet(members) /\ Cardinality(members) \in Nat
  BY <1>3, DeploymentAssumption, FS_Subset, FS_CardinalityType
<1>5. L <= Cardinality(members)
  BY <1>2, <1>4, FS_Subset
<1>6. L >= ReplicationFactor \/ L >= Cardinality(members)
  BY RingBackends DEF Ends
<1>7. \A m \in ToSet(found) : \A n \in members \ ToSet(found) : Near(h, m, n)
  BY MetAreNearer
<1>8. L <= ReplicationFactor
  OBVIOUS
<1> HIDE DEF found, L
<1>9. ASSUME NEW i \in DOMAIN found PROVE found[i] \in Nearest(h, members)
  <2> DEFINE N == NearerIn(h, members, found[i])
  <2>1. \A j \in DOMAIN found : found[j] \in ToSet(found) /\ found[j] \in Nodes
    BY <1>2, <1>3 DEF ToSet
  <2>2. ASSUME NEW m \in N PROVE \E j \in 1 .. i - 1 : m = found[j]
    <3>1. m \in members /\ m \in Nodes /\ Near(h, m, found[i])
      BY <1>3 DEF NearerIn
    <3>2. ~Near(h, found[i], m)
      BY <1>3, <2>1, <3>1, NearTransitive, NearIrreflexive
    <3>3. m \in ToSet(found)
      BY <1>7, <2>1, <3>1, <3>2
    <3>4. PICK j \in DOMAIN found : m = found[j]
      BY <3>3 DEF ToSet
    <3>5. j # i
      BY <1>3, <3>1, <3>4, NearIrreflexive
    <3>6. ~(i < j)
      BY <1>1, <3>2, <3>4
    <3> QED BY <1>2, <3>4, <3>5, <3>6
  <2> DEFINE P == {found[j] : j \in 1 .. i - 1}
  <2>3. i - 1 \in Nat /\ i <= L
    BY <1>2
  <2>4. IsFiniteSet(P) /\ Cardinality(P) <= i - 1
    <3>1. IsFiniteSet(1 .. i - 1) /\ Cardinality(1 .. i - 1) = i - 1
      BY <2>3, FS_Interval
    <3> DEFINE f == [j \in 1 .. i - 1 |-> found[j]]
    <3>2. f \in Surjection(1 .. i - 1, P)
      BY DEF Surjection
    <3>3. ExistsSurjection(1 .. i - 1, P)
      BY <3>2 DEF ExistsSurjection
    <3> HIDE DEF P
    <3> QED BY <2>3, <3>3, FS_SurjCardinalityBound, FS_NatSurjection
  <2>5. Cardinality(N) < ReplicationFactor
    <3>1. N \subseteq P
      BY <2>2
    <3> HIDE DEF N, P
    <3>2. IsFiniteSet(N) /\ Cardinality(N) <= Cardinality(P)
      BY <2>4, <3>1, FS_Subset
    <3>3. Cardinality(N) \in Nat /\ Cardinality(P) \in Nat
      BY <2>4, <3>2, FS_CardinalityType
    <3> QED BY <1>2, <1>8, <2>3, <2>4, <3>2, <3>3, HashRingAssumption
  <2>6. found[i] \in members
    BY <1>2, <2>1
  <2> QED BY <2>5, <2>6 DEF Nearest
<1>10. ASSUME NEW n \in Nearest(h, members) PROVE n \in ToSet(found)
  <2>1. SUFFICES ASSUME n \notin ToSet(found) PROVE FALSE
    OBVIOUS
  <2> DEFINE N == NearerIn(h, members, n)
  <2>2. n \in members /\ Cardinality(N) < ReplicationFactor
    BY DEF Nearest
  <2>3. L # Cardinality(members)
    BY <1>2, <1>4, <2>1, <2>2, FS_Subset
  <2>4. ToSet(found) \subseteq N
    BY <1>2, <1>7, <2>1, <2>2 DEF NearerIn
  <2>5. IsFiniteSet(N)
    BY <1>4, FS_Subset DEF NearerIn
  <2> HIDE DEF N
  <2>6. L <= Cardinality(N) /\ Cardinality(N) \in Nat
    BY <1>2, <2>4, <2>5, FS_Subset, FS_CardinalityType
  <2> QED BY <1>2, <1>4, <1>5, <1>6, <2>2, <2>3, <2>6, HashRingAssumption
<1>11. ToSet(found) = Nearest(h, members)
  BY <1>9, <1>10 DEF ToSet
<1>12. L = Min({ReplicationFactor, Cardinality(members)})
  <2> DEFINE S == {ReplicationFactor, Cardinality(members)}
  <2>1. S \in SUBSET Nat /\ S # {}
    BY <1>4, HashRingAssumption
  <2>2. Min(S) \in S /\ \A y \in S : Min(S) <= y
    BY <2>1, MinIsLeast
  <2> QED BY <1>2, <1>4, <1>5, <1>6, <1>8, <2>2, HashRingAssumption
<1> QED BY <1>11, <1>12 DEF found, L

LEMMA WalkFollowsRouter ==
    ASSUME RingInv, NEW h \in Hashes
    PROVE  LET found == GetNodes(h) IN
           /\ ToSet(found) = R!GetNodes(<<h, place>>)
           /\ Len(found) = Min({ReplicationFactor, Cardinality(members)})
           /\ \A i, j \in DOMAIN found :
                  i < j => R!Before(<<h, place>>, found[i], found[j])
<1> DEFINE found == GetNodes(h)
<1>1. members \subseteq Nodes /\ place \in Placements /\ NoCollision
  BY DEF RingInv, RingHoldsMembers
<1>2. R!GetNodes(<<h, place>>) = Nearest(h, members)
  <2>1. \A n \in members : {m \in members : R!Before(<<h, place>>, m, n)} = NearerIn(h, members, n)
    BY <1>1, RankIsNear DEF NearerIn
  <2>2. R!GetNodes(<<h, place>>) = {n \in members :
            Cardinality({m \in members : R!Before(<<h, place>>, m, n)}) < ReplicationFactor}
    <3>1. \A S : R!Cardinality(S) = Cardinality(S)
      BY DEF R!Cardinality, Cardinality
    <3> QED BY <3>1 DEF R!GetNodes
  <2> QED BY <2>1, <2>2 DEF Nearest
<1>3. CASE Occupied = {}
  <2>1. found = <<>> /\ members = {}
    BY <1>3, RingBackends DEF GetNodes, OnRing
  <2>2. ToSet(<<>>) = {} /\ Len(<<>>) = 0 /\ DOMAIN <<>> = {}
    BY DEF ToSet
  <2>3. Min({ReplicationFactor, 0}) = 0
    <3>1. {ReplicationFactor, 0} \in SUBSET Nat
      BY HashRingAssumption
    <3>2. Min({ReplicationFactor, 0}) \in {ReplicationFactor, 0} /\ Min({ReplicationFactor, 0}) <= 0
      BY <3>1, MinIsLeast
    <3> QED BY <3>2, HashRingAssumption
  <2>4. Nearest(h, members) = {} /\ Cardinality(members) = 0
    BY <2>1, FS_EmptySet DEF Nearest
  <2> QED BY <1>2, <2>1, <2>2, <2>3, <2>4
<1>4. CASE Occupied # {}
  <2> DEFINE s == Walk(h)[Rounds(h)]
  <2>1. found = s.found
    BY <1>4 DEF GetNodes
  <2>2. Ends(s) /\ Len(s.found) <= ReplicationFactor /\ \E V : Passed(h, s, V)
    BY <1>4, WalkEnds
  <2> HIDE DEF s, found
  <2>3. PICK V : Passed(h, s, V)
    BY <2>2
  <2>4. /\ ToSet(found) = Nearest(h, members)
        /\ Len(found) = Min({ReplicationFactor, Cardinality(members)})
    BY <2>1, <2>2, <2>3, FoundAreNearest
  <2>5. ASSUME NEW i \in DOMAIN found, NEW j \in DOMAIN found, i < j
        PROVE  R!Before(<<h, place>>, found[i], found[j])
    <3>1. Near(h, found[i], found[j])
      BY <2>1, <2>3, <2>5 DEF Passed
    <3>2. found[i] \in Nodes /\ found[j] \in Nodes
      BY <1>1, <2>1, <2>3 DEF Passed
    <3> QED BY <1>1, <3>1, <3>2, RankIsNear
  <2> QED BY <1>2, <2>4, <2>5 DEF found
<1> QED BY <1>3, <1>4

(* getNodes finds what Router counts on, from any hash and on any ring: it *)
(* ends within one turn, and returns as many distinct backends as are      *)
(* asked for or there are, in the clockwise order that no membership       *)
(* changes.                                                                *)
THEOREM WalkIsRight ==
    ASSUME ~Collisions
    PROVE  Spec => []WalkIsRouterOrder
<1>1. Init => RingInv
  BY InitInv
<1>2. RingInv /\ [Next]_vars => RingInv'
  BY StepInv
<1>3. RingInv => WalkIsRouterOrder
  BY WalkFollowsRouter DEF WalkIsRouterOrder
<1> QED BY <1>1, <1>2, <1>3, PTL DEF Spec
=============================================================================
