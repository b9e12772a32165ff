------------------------------ MODULE LruCache ------------------------------
(***************************************************************************)
(* The cache in a kvserver process: class LRUCache.                        *)
(*                                                                         *)
(* cache_list is the std::list, most recently used entry first, as the     *)
(* memory cells its nodes are in; cell is what a cell holds; cache_map is  *)
(* the unordered_map from a key to an iterator, that is, to the cell of a  *)
(* node.  A freed cell is used again by a later insertion, so that an      *)
(* iterator left behind would come to denote another key's entry.          *)
(*                                                                         *)
(* Every method holds the one mutex from its first line to its last, so    *)
(* each is one step.                                                       *)
(***************************************************************************)
EXTENDS Deployment, SequencesExt

CONSTANTS
    Cells,    \* memory for list nodes
    Capacity  \* 1000 in kvserver.cpp

ASSUME LruCacheAssumption ==
    /\ Capacity \in Nat \ {0}
    /\ IsFiniteSet(Cells)
    /\ Cardinality(Cells) >= Capacity
    /\ None \notin Cells \union [key : Keys, value : Values]

VARIABLES cache_list, cache_map, cell

cacheVars == <<cache_list, cache_map, cell>>

Entry == [key : Keys, value : Values]

CacheTypeOK ==
    /\ cache_list \in Seq(Cells)
    /\ cache_map \in [Keys -> Cells \union {None}]
    /\ cell \in [Cells -> Entry \union {None}]

EmptyCache ==
    /\ cache_list = <<>>
    /\ cache_map = [k \in Keys |-> None]
    /\ cell = [c \in Cells |-> None]

-----------------------------------------------------------------------------
Cached(k) == cache_map[k] # None

ValueOf(k) == cell[cache_map[k]].value

Unlinked(c) ==
    RemoveAt(cache_list, CHOOSE i \in DOMAIN cache_list : cache_list[i] = c)

MovedToFront(c) == <<c>> \o Unlinked(c)

(* read_key; the caller cannot tell a miss from the empty value.           *)
Lookup(k) == IF Cached(k) THEN ValueOf(k) ELSE EmptyValue

PeekKey(k) == UNCHANGED cacheVars  \* bug: a hit does not count as a use

ReadKey(k) ==
    /\ cache_list' = IF Cached(k) THEN MovedToFront(cache_map[k]) ELSE cache_list
    /\ UNCHANGED <<cache_map, cell>>

(* The entry goes into a new node at the front, once the last one has made *)
(* room for it.                                                            *)
LeaveIterator(k, v) ==  \* bug: the map keeps the iterator of the evicted entry
    LET full == Len(cache_list) >= Capacity
        kept == IF full THEN Front(cache_list) ELSE cache_list
    IN  \E c \in Cells \ ToSet(kept) :
            /\ cache_list' = <<c>> \o kept
            /\ cache_map' = [cache_map EXCEPT ![k] = c]
            /\ cell' = [cell EXCEPT ![c] = [key |-> k, value |-> v]]

Insert(k, v) ==
    LET full == Len(cache_list) >= Capacity
        kept == IF full THEN Front(cache_list) ELSE cache_list
        evicted == IF full THEN {Last(cache_list)} ELSE {}
    IN  \E c \in Cells \ ToSet(kept) :
            /\ cache_list' = <<c>> \o kept
            /\ cache_map' = [x \in Keys |->
                   IF x = k THEN c
                   ELSE IF \E d \in evicted : x = cell[d].key THEN None
                   ELSE cache_map[x]]
            /\ cell' = [d \in Cells |->
                   IF d = c THEN [key |-> k, value |-> v]
                   ELSE IF d \in evicted THEN None
                   ELSE cell[d]]

(* create_key leaves a key alone that is cached already.                   *)
CreateKey(k, v) ==
    \/ Cached(k) /\ UNCHANGED cacheVars
    \/ ~Cached(k) /\ Insert(k, v)

(* update_key, which nothing in the program calls.                         *)
UpdateKey(k, v) ==
    \/ ~Cached(k) /\ UNCHANGED cacheVars
    \/ /\ Cached(k)
       /\ cell' = [cell EXCEPT ![cache_map[k]].value = v]
       /\ cache_list' = MovedToFront(cache_map[k])
       /\ UNCHANGED cache_map

DeleteKey(k) ==
    \/ ~Cached(k) /\ UNCHANGED cacheVars
    \/ /\ Cached(k)
       /\ cache_list' = Unlinked(cache_map[k])
       /\ cache_map' = [cache_map EXCEPT ![k] = None]
       /\ cell' = [cell EXCEPT ![cache_map[k]] = None]

LruNext ==
    \E k \in Keys :
        \/ ReadKey(k)
        \/ DeleteKey(k)
        \/ \E v \in Values : CreateKey(k, v) \/ UpdateKey(k, v)

LruSpec == EmptyCache /\ [][LruNext]_cacheVars

-----------------------------------------------------------------------------
(* The list and the map are two views of the same entries: an iterator in  *)
(* the map denotes a node that is in the list and holds the key it is      *)
(* stored under, every node is found through the map, no node is linked    *)
(* twice and the list never outgrows the capacity.  A dangling iterator    *)
(* would make read_key splice, or delete_key erase, freed memory.          *)
ListAndMapAgree ==
    /\ Len(cache_list) <= Capacity
    /\ \A i, j \in DOMAIN cache_list : cache_list[i] = cache_list[j] => i = j
    /\ \A k \in Keys : Cached(k) =>
           cache_map[k] \in ToSet(cache_list) /\ cell[cache_map[k]].key = k
    /\ \A c \in ToSet(cache_list) : cell[c] # None /\ cache_map[cell[c].key] = c
=============================================================================
