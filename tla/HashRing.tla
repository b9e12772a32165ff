------------------------------ MODULE HashRing ------------------------------
(***************************************************************************)
(* Consistent hashing with virtual nodes: class HashRing.                  *)
(*                                                                         *)
(* ring is the std::map ring_ from a hash to a backend.  A hash is the low *)
(* 32 bits of std::hash, of which nothing is promised: place[n][i] is that *)
(* of the string "n#vnode_i", any number at all, fixed when the process is *)
(* compiled.  The hash of a key is any number h as well; the lookups are   *)
(* stated for every h.                                                     *)
(*                                                                         *)
(* Every method holds ring_mutex_ from its first line to its last, so each *)
(* is one step.  members is a history variable: the backends added and not *)
(* removed since, which is what Router takes for the state of the ring.    *)
(***************************************************************************)
EXTENDS Deployment, Integers, SequencesExt

CONSTANTS
    HashSpace,          \* 2^32
    VirtualNodes,       \* 50 in LoadBalancer
    ReplicationFactor,  \* 2 in every call of the source
    Collisions          \* two virtual nodes may have the same hash

Hashes == 0 .. HashSpace - 1

Indices == 0 .. VirtualNodes - 1

ASSUME HashRingAssumption ==
    /\ HashSpace \in Nat \ {0}
    /\ VirtualNodes \in Nat \ {0}
    /\ ReplicationFactor \in Nat \ {0}
    /\ Collisions \in BOOLEAN

(* Where the virtual nodes of each backend may be.                         *)
Placements == [Nodes -> [Indices -> Hashes]]

VARIABLES place, ring, members

vars == <<place, ring, members>>

NoCollision ==
    \A m, n \in Nodes : \A i, j \in Indices :
        place[m][i] = place[n][j] => m = n /\ i = j

(* Router adds every backend when it is constructed.                       *)
Init ==
    /\ place \in Placements
    /\ Collisions \/ NoCollision
    /\ ring = [x \in Hashes |-> None]
    /\ members = {}

-----------------------------------------------------------------------------
PlacesOf(n) == {place[n][i] : i \in Indices}

SkipLastVnode(n) ==  \* bug: one virtual node too few is added
    /\ ring' = [x \in Hashes |->
                  IF \E i \in Indices \ {VirtualNodes - 1} : x = place[n][i]
                  THEN n ELSE ring[x]]
    /\ members' = members \union {n}
    /\ UNCHANGED place

(* add_node: ring_[hash] = node, over whatever is there.                   *)
AddNode(n) ==
    /\ ring' = [x \in Hashes |-> IF x \in PlacesOf(n) THEN n ELSE ring[x]]
    /\ members' = members \union {n}
    /\ UNCHANGED place

KeepLastVnode(n) ==  \* bug: one virtual node too few is erased
    /\ ring' = [x \in Hashes |->
                  IF \E i \in Indices \ {VirtualNodes - 1} : x = place[n][i]
                  THEN None ELSE ring[x]]
    /\ members' = members \ {n}
    /\ UNCHANGED place

(* remove_node: erase by hash, whoever's virtual node is there.            *)
RemoveNode(n) ==
    /\ ring' = [x \in Hashes |-> IF x \in PlacesOf(n) THEN None ELSE ring[x]]
    /\ members' = members \ {n}
    /\ UNCHANGED place

Next == \E n \in Nodes : AddNode(n) \/ RemoveNode(n)

Spec == Init /\ [][Next]_vars

-----------------------------------------------------------------------------
(* getNodes.                                                               *)
Occupied == {x \in Hashes : ring[x] # None}

OnRing == {ring[x] : x \in Occupied}

(* lower_bound, ++it and the step from end() back to begin().              *)
AtOrAfter(h) ==
    LET ahead == {x \in Occupied : x >= h} IN
    Min(IF ahead # {} THEN ahead ELSE Occupied)

(* The loop after n rounds: it is the iterator, found the result so far,   *)
(* which lists each of seen_nodes once.                                    *)
Walk(h) ==
    LET after[n \in Nat] ==
        IF n = 0 THEN [it |-> AtOrAfter(h), found |-> <<>>]
        ELSE LET s == after[n - 1] IN
             [it    |-> AtOrAfter(s.it + 1),
              found |-> IF ring[s.it] \in ToSet(s.found) THEN s.found
                        ELSE Append(s.found, ring[s.it])]
    IN  after

OneTooMany(s) ==  \* bug: <= for < in the first condition of the loop
    Len(s.found) > ReplicationFactor \/ Len(s.found) >= Cardinality(OnRing)

Ends(s) ==
    Len(s.found) >= ReplicationFactor \/ Len(s.found) >= Cardinality(OnRing)

(* The number of rounds: it never takes more than one turn of the ring.    *)
Rounds(h) == CHOOSE n \in 0 .. Cardinality(Occupied) :
    Ends(Walk(h)[n]) /\ \A m \in 0 .. n - 1 : ~Ends(Walk(h)[m])

GetNodes(h) == IF Occupied = {} THEN <<>> ELSE Walk(h)[Rounds(h)].found

-----------------------------------------------------------------------------
(* What the loop amounts to: the backends nearest to h clockwise.          *)
Distance(h, x) == (x - h) % HashSpace

Before(h, m, n) ==
    \E x \in Hashes : ring[x] = m
        /\ \A y \in Hashes : ring[y] = n => Distance(h, x) < Distance(h, y)

Replicas(h) ==
    {n \in OnRing : Cardinality({m \in OnRing : Before(h, m, n)}) < ReplicationFactor}

(* The order Router assumes: fixed by the hashes, whoever is on the ring.  *)
(* A key of Router is here a hash under one placement of the backends.     *)
RankUnder(p, h) ==
    LET FixedBefore(m, n) == \E i \in Indices : \A j \in Indices :
            Distance(h, p[m][i]) < Distance(h, p[n][j])
    IN  [n \in Nodes |-> Cardinality({m \in Nodes : FixedBefore(m, n)})]

R == INSTANCE Router WITH
    Keys <- Hashes \X Placements,
    RingRank <- [k \in Hashes \X Placements |-> RankUnder(k[2], k[1])],
    onRing <- members,
    status <- [n \in Nodes |-> "UP"],
    lbUp <- TRUE

-----------------------------------------------------------------------------
(* The ring holds the virtual nodes of its members, all of them and no     *)
(* others, after any sequence of add_node and remove_node, repeated ones   *)
(* included: markBackendUp adds a backend that markBackendRecovering has   *)
(* added before.                                                           *)
RingHoldsMembers ==
    /\ members \subseteq Nodes
    /\ \A x \in Hashes : ring[x] \in members \union {None}
    /\ \A n \in members : \A x \in Hashes : ring[x] = n <=> x \in PlacesOf(n)

(* getNodes ends, and returns distinct backends, as many as there are up   *)
(* to the replication factor, in the order and with the members that the   *)
(* module Router gives them.                                               *)
WalkIsRouterOrder ==
    \A h \in Hashes : LET found == GetNodes(h) IN
        /\ ToSet(found) = R!GetNodes(<<h, place>>)
        /\ Len(found) = Min({ReplicationFactor, Cardinality(members)})
        /\ \A i, j \in DOMAIN found :
               i < j => R!Before(<<h, place>>, found[i], found[j])

Moves(h, left, joined) ==
    /\ joined = {} => Replicas(h) \ Replicas(h)' \subseteq left
    /\ left = {} => Replicas(h)' \ Replicas(h) \subseteq joined
    /\ Replicas(h)' \intersect left = {}
    /\ Replicas(h)' # Replicas(h) =>
           (Replicas(h) \union Replicas(h)') \intersect (left \union joined) # {}

(* A backend that joins or leaves moves its own keys and no others: no key *)
(* loses another replica to one that leaves or wins another by one that    *)
(* joins, the keys it is no replica of stay where they are, one that is    *)
(* removed keeps no key, and adding a member again moves nothing.          *)
OnlyItsKeysMove ==
    [][\A h \in Hashes : Moves(h, members \ members', members' \ members)]_vars
=============================================================================
