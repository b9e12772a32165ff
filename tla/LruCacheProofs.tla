--------------------------- MODULE LruCacheProofs ---------------------------
(***************************************************************************)
(* The list and the map of the cache agree, and what is evicted was used   *)
(* longest ago, for every capacity, whatever sequence of methods is called.*)
(***************************************************************************)
EXTENDS MCCache, TLAPS, SequenceTheorems

Distinct(s) == \A i, j \in DOMAIN s : s[i] = s[j] => i = j

(* erase and splice: what is left when the element at i is taken out.      *)
LEMMA RemoveAtElements ==
    ASSUME NEW S, NEW s \in Seq(S), NEW i \in DOMAIN s
    PROVE  /\ RemoveAt(s, i) \in Seq(S)
           /\ Len(RemoveAt(s, i)) = Len(s) - 1
           /\ \A j \in 1 .. Len(s) - 1 : RemoveAt(s, i)[j] = IF j < i THEN s[j] ELSE s[j + 1]
<1> DEFINE front == SubSeq(s, 1, i - 1)
           back == SubSeq(s, i + 1, Len(s))
<1>1. i \in 1 .. Len(s) /\ Len(s) \in Nat
  BY LenProperties
<1>2. front \in Seq(S) /\ Len(front) = i - 1 /\ \A j \in 1 .. i - 1 : front[j] = s[j]
  BY <1>1, SubSeqProperties
<1>3. back \in Seq(S) /\ Len(back) = Len(s) - i /\ \A j \in 1 .. Len(s) - i : back[j] = s[i + j]
  BY <1>1, SubSeqProperties
<1>4. RemoveAt(s, i) = front \o back
  BY DEF RemoveAt
<1> HIDE DEF front, back
<1>5. /\ front \o back \in Seq(S)
      /\ Len(front \o back) = Len(front) + Len(back)
      /\ \A j \in 1 .. Len(front) + Len(back) :
             (front \o back)[j] = IF j <= Len(front) THEN front[j] ELSE back[j - Len(front)]
  BY <1>2, <1>3, ConcatProperties
<1>6. ASSUME NEW j \in 1 .. Len(s) - 1
      PROVE  (front \o back)[j] = IF j < i THEN s[j] ELSE s[j + 1]
  <2>1. CASE j < i
    BY <2>1, <1>1, <1>2, <1>3, <1>5, SMTT(60)
  <2>2. CASE ~(j < i)
    <3>1. j - (i - 1) \in 1 .. Len(s) - i
      BY <2>2, <1>1
    <3>2. back[j - (i - 1)] = s[i + (j - (i - 1))]
      BY <3>1, <1>3
    <3>3. i + (j - (i - 1)) = j + 1
      BY <1>1
    <3>4. j \in 1 .. Len(front) + Len(back) /\ ~(j <= Len(front))
      BY <2>2, <1>1, <1>2, <1>3
    <3>5. (front \o back)[j] = back[j - Len(front)]
      BY <3>4, <1>5, Zenon
    <3>6. (front \o back)[j] = back[j - (i - 1)]
      BY <3>5, <1>2, Zenon
    <3> QED BY <2>2, <3>2, <3>3, <3>6
  <2> QED BY <2>1, <2>2
<1>7. RemoveAt(s, i) \in Seq(S) /\ Len(RemoveAt(s, i)) = Len(s) - 1
  BY <1>1, <1>2, <1>3, <1>4, <1>5
<1> QED BY <1>4, <1>6, <1>7

(* A sequence without repetitions loses just the element taken out of it.  *)
LEMMA WithoutOne ==
    ASSUME NEW S, NEW s \in Seq(S), NEW r \in Seq(S), NEW i \in DOMAIN s,
           Distinct(s),
           Len(r) = Len(s) - 1,
           \A j \in 1 .. Len(s) - 1 : r[j] = IF j < i THEN s[j] ELSE s[j + 1]
    PROVE  Distinct(r) /\ ToSet(r) = ToSet(s) \ {s[i]}
<1>1. /\ DOMAIN s = 1 .. Len(s) /\ Len(s) \in Nat
      /\ DOMAIN r = 1 .. Len(s) - 1
  BY LenProperties
<1> DEFINE at(j) == IF j < i THEN j ELSE j + 1
<1>2. \A j \in DOMAIN r : at(j) \in DOMAIN s /\ at(j) # i /\ r[j] = s[at(j)]
  BY <1>1
<1>3. \A j, k \in DOMAIN r : at(j) = at(k) => j = k
  BY <1>1
<1>4. \A m \in DOMAIN s \ {i} : \E j \in DOMAIN r : m = at(j)
  <2>1. SUFFICES ASSUME NEW m \in DOMAIN s \ {i}
                 PROVE  \E j \in DOMAIN r : m = at(j)
    OBVIOUS
  <2>2. CASE m < i
    <3>1. m \in DOMAIN r /\ m = at(m)
      BY <1>1, <2>2
    <3> QED BY <3>1
  <2>3. CASE m > i
    <3>1. m - 1 \in DOMAIN r /\ m = at(m - 1)
      BY <1>1, <2>3
    <3> QED BY <3>1
  <2> QED BY <1>1, <2>2, <2>3
<1> HIDE DEF at
<1>5. Distinct(r)
  BY <1>2, <1>3, ZenonT(60) DEF Distinct
<1>6. ToSet(r) = ToSet(s) \ {s[i]}
  <2>1. ASSUME NEW x \in ToSet(r) PROVE x \in ToSet(s) \ {s[i]}
    <3>1. PICK j \in DOMAIN r : x = r[j]
      BY <2>1, Zenon DEF ToSet
    <3>2. x = s[at(j)] /\ at(j) \in DOMAIN s /\ at(j) # i
      BY <1>2, <3>1, Zenon
    <3> QED BY <3>2, Zenon DEF Distinct, ToSet
  <2>2. ASSUME NEW x \in ToSet(s) \ {s[i]} PROVE x \in ToSet(r)
    <3>1. PICK m \in DOMAIN s : x = s[m]
      BY <2>2, Zenon DEF ToSet
    <3>2. PICK j \in DOMAIN r : m = at(j)
      BY <1>4, <2>2, <3>1, Zenon
    <3> QED BY <1>2, <3>1, <3>2, Zenon DEF ToSet
  <2> QED BY <2>1, <2>2, Zenon
<1> QED BY <1>5, <1>6

LEMMA UnlinkedElements ==
    ASSUME NEW c \in ToSet(cache_list), cache_list \in Seq(Cells), Distinct(cache_list)
    PROVE  /\ Unlinked(c) \in Seq(Cells)
           /\ Len(Unlinked(c)) = Len(cache_list) - 1
           /\ Distinct(Unlinked(c))
           /\ ToSet(Unlinked(c)) = ToSet(cache_list) \ {c}
<1> DEFINE i == CHOOSE i \in DOMAIN cache_list : cache_list[i] = c
<1>1. i \in DOMAIN cache_list /\ cache_list[i] = c
  BY Zenon DEF ToSet
<1>2. Unlinked(c) = RemoveAt(cache_list, i)
  BY DEF Unlinked
<1> HIDE DEF i
<1> DEFINE r == RemoveAt(cache_list, i)
<1>3. /\ r \in Seq(Cells)
      /\ Len(r) = Len(cache_list) - 1
      /\ \A j \in 1 .. Len(cache_list) - 1 :
             r[j] = IF j < i THEN cache_list[j] ELSE cache_list[j + 1]
  BY <1>1, RemoveAtElements, Zenon
<1> HIDE DEF r
<1>4. Distinct(r) /\ ToSet(r) = ToSet(cache_list) \ {cache_list[i]}
  BY <1>1, <1>3, WithoutOne, ZenonT(60)
<1> QED BY <1>1, <1>2, <1>3, <1>4 DEF r

(* pop_back.                                                               *)
LEMMA FrontElements ==
    ASSUME NEW S, NEW s \in Seq(S), Len(s) > 0, Distinct(s)
    PROVE  /\ Last(s) \in ToSet(s)
           /\ Front(s) \in Seq(S)
           /\ Len(Front(s)) = Len(s) - 1
           /\ Distinct(Front(s))
           /\ ToSet(Front(s)) = ToSet(s) \ {Last(s)}
<1>1. Len(s) \in Nat /\ Len(s) \in DOMAIN s /\ DOMAIN s = 1 .. Len(s)
  BY LenProperties
<1>2. /\ Front(s) \in Seq(S)
      /\ Len(Front(s)) = Len(s) - 1
      /\ \A j \in 1 .. Len(s) - 1 : Front(s)[j] = s[j]
  BY <1>1, SubSeqProperties DEF Front
<1>3. \A j \in 1 .. Len(s) - 1 : Front(s)[j] = IF j < Len(s) THEN s[j] ELSE s[j + 1]
  BY <1>1, <1>2
<1> DEFINE last == Len(s)
<1>4. /\ last \in DOMAIN s
      /\ Len(Front(s)) = Len(s) - 1
      /\ \A j \in 1 .. Len(s) - 1 : Front(s)[j] = IF j < last THEN s[j] ELSE s[j + 1]
  BY <1>1, <1>2, <1>3
<1> HIDE DEF last
<1>5. Distinct(Front(s)) /\ ToSet(Front(s)) = ToSet(s) \ {s[last]}
  BY <1>2, <1>4, WithoutOne, Zenon
<1> QED BY <1>1, <1>2, <1>5, Zenon DEF Last, ToSet, last

(* emplace_front.                                                          *)
LEMMA PrependElements ==
    ASSUME NEW S, NEW s \in Seq(S), NEW c \in S \ ToSet(s), Distinct(s)
    PROVE  /\ <<c>> \o s \in Seq(S)
           /\ Len(<<c>> \o s) = Len(s) + 1
           /\ Distinct(<<c>> \o s)
           /\ ToSet(<<c>> \o s) = ToSet(s) \union {c}
<1> DEFINE r == <<c>> \o s
<1>1. Len(s) \in Nat /\ DOMAIN s = 1 .. Len(s)
  BY LenProperties
<1>2. r \in Seq(S) /\ Len(r) = Len(s) + 1 /\ r[1] = c /\ \A j \in 1 .. Len(s) : r[j + 1] = s[j]
  BY <1>1
<1> HIDE DEF r
<1>3. DOMAIN r = 1 .. Len(s) + 1
  BY <1>1, <1>2, LenProperties
<1>4. \A j \in DOMAIN r : j = 1 \/ \E m \in DOMAIN s : j = m + 1 /\ r[j] = s[m]
  <2>1. SUFFICES ASSUME NEW j \in DOMAIN r, j # 1
                 PROVE  \E m \in DOMAIN s : j = m + 1 /\ r[j] = s[m]
    OBVIOUS
  <2>2. j - 1 \in DOMAIN s /\ j = (j - 1) + 1
    BY <1>1, <1>3, <2>1
  <2> QED BY <1>1, <1>2, <2>2
<1>5. \A m \in DOMAIN s : s[m] # c
  BY Zenon DEF ToSet
<1>6. Distinct(r)
  BY <1>2, <1>4, <1>5 DEF Distinct
<1>7. 1 \in DOMAIN r /\ \A m \in DOMAIN s : m + 1 \in DOMAIN r
  BY <1>1, <1>3
<1>8. ToSet(r) = ToSet(s) \union {c}
  <2>1. \A j \in DOMAIN r : r[j] \in ToSet(s) \union {c}
    BY <1>2, <1>4, Zenon DEF ToSet
  <2>2. c \in ToSet(r)
    BY <1>2, <1>7, Zenon DEF ToSet
  <2>3. \A m \in DOMAIN s : s[m] \in ToSet(r)
    BY <1>1, <1>2, <1>7, Zenon DEF ToSet
  <2> QED BY <2>1, <2>2, <2>3, Zenon DEF ToSet
<1> QED BY <1>2, <1>6, <1>8 DEF r

-----------------------------------------------------------------------------
CacheInv == CacheTypeOK /\ ListAndMapAgree

LEMMA EmptyCacheInv == EmptyCache => CacheInv
  BY LruCacheAssumption DEF EmptyCache, CacheInv, CacheTypeOK, ListAndMapAgree, Cached, ToSet

(* What the invariant says of a cached key.                                *)
LEMMA CachedCell ==
    ASSUME CacheInv, NEW k \in Keys, Cached(k)
    PROVE  /\ cache_map[k] \in ToSet(cache_list) \intersect Cells
           /\ cell[cache_map[k]] \in Entry
           /\ cell[cache_map[k]].key = k
<1>1. cache_map[k] \in ToSet(cache_list) /\ cell[cache_map[k]].key = k
  BY DEF CacheInv, ListAndMapAgree
<1>2. cache_map[k] \in Cells
  BY DEF CacheInv, CacheTypeOK, Cached
<1>3. cell[cache_map[k]] # None
  BY <1>1 DEF CacheInv, ListAndMapAgree
<1> QED BY <1>1, <1>2, <1>3 DEF CacheInv, CacheTypeOK

LEMMA ListDistinct ==
    ASSUME CacheInv
    PROVE  cache_list \in Seq(Cells) /\ Distinct(cache_list) /\ ToSet(cache_list) \subseteq Cells
<1>1. cache_list \in Seq(Cells) /\ Distinct(cache_list)
  BY DEF CacheInv, CacheTypeOK, ListAndMapAgree, Distinct
<1> QED BY <1>1, LenProperties DEF ToSet

(* splice to the front only reorders the list.                             *)
LEMMA MovedToFrontElements ==
    ASSUME CacheInv, NEW c \in ToSet(cache_list)
    PROVE  /\ MovedToFront(c) \in Seq(Cells)
           /\ Len(MovedToFront(c)) = Len(cache_list)
           /\ Distinct(MovedToFront(c))
           /\ ToSet(MovedToFront(c)) = ToSet(cache_list)
<1>1. cache_list \in Seq(Cells) /\ Distinct(cache_list) /\ c \in Cells
  BY ListDistinct
<1>2. /\ Unlinked(c) \in Seq(Cells)
      /\ Len(Unlinked(c)) = Len(cache_list) - 1
      /\ Distinct(Unlinked(c))
      /\ ToSet(Unlinked(c)) = ToSet(cache_list) \ {c}
  BY <1>1, UnlinkedElements
<1>3. /\ <<c>> \o Unlinked(c) \in Seq(Cells)
      /\ Len(<<c>> \o Unlinked(c)) = Len(Unlinked(c)) + 1
      /\ Distinct(<<c>> \o Unlinked(c))
      /\ ToSet(<<c>> \o Unlinked(c)) = ToSet(Unlinked(c)) \union {c}
  BY <1>1, <1>2, PrependElements
<1>4. Len(cache_list) \in Nat
  BY <1>1
<1>5. Len(<<c>> \o Unlinked(c)) = Len(cache_list)
  BY <1>2, <1>3, <1>4
<1>6. ToSet(<<c>> \o Unlinked(c)) = ToSet(cache_list)
  BY <1>2, <1>3
<1> QED BY <1>3, <1>5, <1>6 DEF MovedToFront

LEMMA ReadKeyInv ==
    ASSUME CacheInv, NEW k \in Keys, ReadKey(k)
    PROVE  CacheInv'
<1>1. UNCHANGED <<cache_map, cell>>
  BY DEF ReadKey
<1>2. CASE ~Cached(k)
  <2>1. UNCHANGED cacheVars
    BY <1>1, <1>2 DEF ReadKey, cacheVars
  <2> QED BY <2>1 DEF CacheInv, CacheTypeOK, ListAndMapAgree, Cached, cacheVars
<1>3. CASE Cached(k)
  <2>1. /\ cache_list' \in Seq(Cells)
        /\ Len(cache_list') = Len(cache_list)
        /\ Distinct(cache_list')
        /\ ToSet(cache_list') = ToSet(cache_list)
    BY <1>3, CachedCell, MovedToFrontElements DEF ReadKey
  <2> QED BY <1>1, <2>1 DEF CacheInv, CacheTypeOK, ListAndMapAgree, Cached, Distinct
<1> QED BY <1>2, <1>3

LEMMA UpdateKeyInv ==
    ASSUME CacheInv, NEW k \in Keys, NEW v \in Values, UpdateKey(k, v)
    PROVE  CacheInv'
<1>1. CASE UNCHANGED cacheVars
  BY <1>1 DEF CacheInv, CacheTypeOK, ListAndMapAgree, Cached, cacheVars
<1>2. CASE /\ Cached(k)
           /\ cell' = [cell EXCEPT ![cache_map[k]].value = v]
           /\ cache_list' = MovedToFront(cache_map[k])
           /\ UNCHANGED cache_map
  <2>1. /\ cache_list' \in Seq(Cells)
        /\ Len(cache_list') = Len(cache_list)
        /\ Distinct(cache_list')
        /\ ToSet(cache_list') = ToSet(cache_list)
    BY <1>2, CachedCell, MovedToFrontElements
  <2>2. cell \in [Cells -> Entry \union {None}] /\ ToSet(cache_list) \subseteq Cells
    BY ListDistinct DEF CacheInv, CacheTypeOK
  <2>3. /\ cell' \in [Cells -> Entry \union {None}]
        /\ \A c \in Cells : cell[c] # None /\ cell[c] \in Entry => cell'[c] # None /\ cell'[c].key = cell[c].key
    BY <1>2, <2>2, CachedCell, LruCacheAssumption DEF Entry
  <2>4. ListAndMapAgree'
    BY <1>2, <2>1, <2>2, <2>3 DEF CacheInv, CacheTypeOK, ListAndMapAgree, Cached, Distinct
  <2> QED BY <1>2, <2>1, <2>3, <2>4 DEF CacheInv, CacheTypeOK
<1> QED BY <1>1, <1>2 DEF UpdateKey

LEMMA DeleteKeyInv ==
    ASSUME CacheInv, NEW k \in Keys, DeleteKey(k)
    PROVE  CacheInv'
<1>1. CASE UNCHANGED cacheVars
  BY <1>1 DEF CacheInv, CacheTypeOK, ListAndMapAgree, Cached, cacheVars
<1>2. CASE /\ Cached(k)
           /\ cache_list' = Unlinked(cache_map[k])
           /\ cache_map' = [cache_map EXCEPT ![k] = None]
           /\ cell' = [cell EXCEPT ![cache_map[k]] = None]
  <2>1. /\ cache_list' \in Seq(Cells)
        /\ Len(cache_list') = Len(cache_list) - 1
        /\ Distinct(cache_list')
        /\ ToSet(cache_list') = ToSet(cache_list) \ {cache_map[k]}
    BY <1>2, CachedCell, ListDistinct, UnlinkedElements
  <2>2. CacheTypeOK'
    BY <1>2, <2>1 DEF CacheInv, CacheTypeOK
  <2>3. Len(cache_list') <= Capacity
    BY <2>1, LruCacheAssumption, ListDistinct DEF CacheInv, ListAndMapAgree
  <2>4. \A x \in Keys : Cached(x)' =>
            cache_map'[x] \in ToSet(cache_list') /\ cell'[cache_map'[x]].key = x
    BY <1>2, <2>1, CachedCell DEF CacheInv, CacheTypeOK, ListAndMapAgree, Cached
  <2>5. \A c \in ToSet(cache_list') : cell'[c] # None /\ cache_map'[cell'[c].key] = c
    BY <1>2, <2>1, CachedCell, ListDistinct DEF CacheInv, CacheTypeOK, ListAndMapAgree, Cached
  <2> QED BY <2>1, <2>2, <2>3, <2>4, <2>5 DEF CacheInv, ListAndMapAgree, Distinct
<1> QED BY <1>1, <1>2 DEF DeleteKey

(* The new entry of create_key takes the place of the last one when the    *)
(* cache is full.                                                          *)
LEMMA InsertInv ==
    ASSUME CacheInv, NEW k \in Keys, NEW v \in Values, ~Cached(k), Insert(k, v)
    PROVE  CacheInv'
<1> DEFINE full == Len(cache_list) >= Capacity
           kept == IF full THEN Front(cache_list) ELSE cache_list
           evicted == IF full THEN {Last(cache_list)} ELSE {}
<1>1. /\ cache_list \in Seq(Cells) /\ Distinct(cache_list)
      /\ Len(cache_list) \in Nat /\ Len(cache_list) <= Capacity
      /\ ToSet(cache_list) \subseteq Cells
  BY ListDistinct DEF CacheInv, ListAndMapAgree
<1>2. /\ kept \in Seq(Cells)
      /\ Distinct(kept)
      /\ Len(kept) + 1 <= Capacity
      /\ ToSet(kept) = ToSet(cache_list) \ evicted
      /\ evicted \subseteq ToSet(cache_list)
  <2>1. CASE full
    <3>1. Len(cache_list) = Capacity /\ Len(cache_list) > 0
      BY <1>1, <2>1, LruCacheAssumption
    <3>2. /\ Last(cache_list) \in ToSet(cache_list)
          /\ Front(cache_list) \in Seq(Cells)
          /\ Len(Front(cache_list)) = Len(cache_list) - 1
          /\ Distinct(Front(cache_list))
          /\ ToSet(Front(cache_list)) = ToSet(cache_list) \ {Last(cache_list)}
      BY <1>1, <3>1, FrontElements
    <3>3. Len(Front(cache_list)) + 1 <= Capacity
      BY <3>1, <3>2, LruCacheAssumption
    <3> QED BY <2>1, <3>2, <3>3
  <2>2. CASE ~full
    <3>1. Len(cache_list) + 1 <= Capacity
      BY <1>1, <2>2, LruCacheAssumption
    <3> QED BY <1>1, <2>2, <3>1
  <2> QED BY <2>1, <2>2
<1>3. PICK c \in Cells \ ToSet(kept) :
         /\ cache_list' = <<c>> \o kept
         /\ cache_map' = [x \in Keys |->
                IF x = k THEN c
                ELSE IF \E d \in evicted : x = cell[d].key THEN None
                ELSE cache_map[x]]
         /\ cell' = [d \in Cells |->
                IF d = c THEN [key |-> k, value |-> v]
                ELSE IF d \in evicted THEN None
                ELSE cell[d]]
  BY DEF Insert
<1> HIDE DEF full, kept, evicted
<1>4. /\ cache_list' \in Seq(Cells)
      /\ Len(cache_list') = Len(kept) + 1
      /\ Distinct(cache_list')
      /\ ToSet(cache_list') = ToSet(kept) \union {c}
  BY <1>2, <1>3, PrependElements
<1>5. CacheTypeOK'
  BY <1>3, <1>4 DEF CacheInv, CacheTypeOK, Entry
<1>6. \A d \in ToSet(cache_list) :
         /\ d \in Cells /\ cell[d] \in Entry /\ cell[d] # None
         /\ cell[d].key # k
         /\ cache_map[cell[d].key] = d
  BY <1>1, LruCacheAssumption DEF CacheInv, CacheTypeOK, ListAndMapAgree, Cached
<1>7. ASSUME NEW x \in Keys, Cached(x)'
      PROVE  cache_map'[x] \in ToSet(cache_list') /\ cell'[cache_map'[x]].key = x
  <2>1. CASE x = k
    <3>1. cache_map'[x] = c /\ cell'[c] = [key |-> k, value |-> v]
      BY <1>3, <2>1
    <3> QED BY <1>4, <2>1, <3>1
  <2>2. CASE x # k
    <3>1. cache_map'[x] = cache_map[x] /\ Cached(x) /\ ~ \E d \in evicted : x = cell[d].key
      BY <1>3, <1>7, <2>2 DEF Cached
    <3>2. /\ cache_map[x] \in ToSet(cache_list) \intersect Cells
          /\ cell[cache_map[x]].key = x
      BY <3>1, CachedCell
    <3>3. cache_map[x] \in ToSet(kept)
      BY <1>2, <3>1, <3>2
    <3>4. cell'[cache_map[x]] = cell[cache_map[x]]
      BY <1>2, <1>3, <3>2, <3>3
    <3> QED BY <1>4, <3>1, <3>2, <3>3, <3>4
  <2> QED BY <2>1, <2>2
<1>8. ASSUME NEW e \in ToSet(cache_list')
      PROVE  cell'[e] # None /\ cache_map'[cell'[e].key] = e
  <2>1. CASE e = c
    <3>1. cell'[c] = [key |-> k, value |-> v] /\ [key |-> k, value |-> v] \in Entry
      BY <1>3 DEF Entry
    <3> QED BY <1>3, <2>1, <3>1, LruCacheAssumption DEF Entry
  <2>2. CASE e \in ToSet(kept)
    <3>1. e \in ToSet(cache_list) /\ e \notin evicted /\ e # c
      BY <1>2, <1>3, <2>2
    <3>2. cell'[e] = cell[e]
      BY <1>3, <1>6, <3>1
    <3>3. cell[e].key \in Keys /\ ~ \E d \in evicted : cell[e].key = cell[d].key
      BY <1>2, <1>6, <3>1 DEF Entry
    <3>4. cache_map'[cell[e].key] = e
      BY <1>3, <1>6, <3>1, <3>3
    <3> QED BY <1>6, <3>1, <3>2, <3>4
  <2> QED BY <1>4, <1>8, <2>1, <2>2
<1>9. Len(cache_list') <= Capacity
  BY <1>2, <1>4
<1> QED BY <1>4, <1>5, <1>7, <1>8, <1>9 DEF CacheInv, ListAndMapAgree, Distinct

LEMMA CreateKeyInv ==
    ASSUME CacheInv, NEW k \in Keys, NEW v \in Values, CreateKey(k, v)
    PROVE  CacheInv'
<1>1. CASE UNCHANGED cacheVars
  BY <1>1 DEF CacheInv, CacheTypeOK, ListAndMapAgree, Cached, cacheVars
<1> QED BY <1>1, InsertInv DEF CreateKey

-----------------------------------------------------------------------------
(* What the methods do to the values that read_key finds.                  *)
LEMMA CreateKeyValues ==
    ASSUME CacheInv, NEW k \in Keys, NEW v \in Values, CreateKey(k, v),
           NEW x \in Keys, Cached(x)'
    PROVE  \/ Cached(x) /\ ValueOf(x)' = ValueOf(x)
           \/ x = k /\ ValueOf(x)' = v
<1>1. CASE UNCHANGED cacheVars
  BY <1>1 DEF Cached, ValueOf, cacheVars
<1>2. CASE ~Cached(k) /\ Insert(k, v)
  <2> DEFINE full == Len(cache_list) >= Capacity
             kept == IF full THEN Front(cache_list) ELSE cache_list
             evicted == IF full THEN {Last(cache_list)} ELSE {}
  <2>1. ToSet(cache_list) \ evicted \subseteq ToSet(kept)
    <3>1. cache_list \in Seq(Cells) /\ Distinct(cache_list) /\ Len(cache_list) \in Nat
      BY ListDistinct
    <3>2. CASE full
      <4>1. Len(cache_list) > 0
        BY <3>1, <3>2, LruCacheAssumption
      <4> QED BY <3>1, <3>2, <4>1, FrontElements
    <3> QED BY <3>2
  <2>2. PICK c \in Cells \ ToSet(kept) :
           /\ cache_map' = [y \in Keys |->
                  IF y = k THEN c
                  ELSE IF \E d \in evicted : y = cell[d].key THEN None
                  ELSE cache_map[y]]
           /\ cell' = [d \in Cells |->
                  IF d = c THEN [key |-> k, value |-> v]
                  ELSE IF d \in evicted THEN None
                  ELSE cell[d]]
    BY <1>2 DEF Insert
  <2> HIDE DEF full, kept, evicted
  <2>3. CASE x = k
    <3>1. cache_map'[x] = c /\ cell'[c] = [key |-> k, value |-> v]
      BY <2>2, <2>3
    <3> QED BY <2>3, <3>1 DEF ValueOf
  <2>4. CASE x # k
    <3>1. Cached(x) /\ cache_map'[x] = cache_map[x] /\ ~ \E d \in evicted : x = cell[d].key
      BY <2>2, <2>4 DEF Cached
    <3>2. cache_map[x] \in ToSet(cache_list) \intersect Cells /\ cell[cache_map[x]].key = x
      BY <3>1, CachedCell
    <3>3. cache_map[x] \in ToSet(kept) /\ cache_map[x] \notin evicted
      BY <2>1, <3>1, <3>2
    <3>4. cell'[cache_map[x]] = cell[cache_map[x]]
      BY <2>2, <3>2, <3>3
    <3> QED BY <3>1, <3>4 DEF ValueOf
  <2> QED BY <2>3, <2>4
<1> QED BY <1>1, <1>2 DEF CreateKey

LEMMA DeleteKeyValues ==
    ASSUME CacheInv, NEW k \in Keys, DeleteKey(k), NEW x \in Keys, Cached(x)'
    PROVE  x # k /\ Cached(x) /\ ValueOf(x)' = ValueOf(x)
<1>1. CASE ~Cached(k) /\ UNCHANGED cacheVars
  BY <1>1 DEF Cached, ValueOf, cacheVars
<1>2. CASE /\ Cached(k)
           /\ cache_map' = [cache_map EXCEPT ![k] = None]
           /\ cell' = [cell EXCEPT ![cache_map[k]] = None]
  <2>1. x # k /\ Cached(x) /\ cache_map'[x] = cache_map[x]
    BY <1>2 DEF Cached, CacheInv, CacheTypeOK
  <2>2. cache_map[x] # cache_map[k] /\ cache_map[x] \in Cells
    BY <1>2, <2>1, CachedCell
  <2>3. cell'[cache_map[x]] = cell[cache_map[x]]
    BY <1>2, <2>2 DEF CacheInv, CacheTypeOK
  <2> QED BY <2>1, <2>3 DEF ValueOf
<1> QED BY <1>1, <1>2 DEF DeleteKey

(* Whatever methods of LRUCache are called in whatever order, and whatever *)
(* freed node's memory the next insertion gets, no iterator in cache_map   *)
(* is left dangling, no entry is lost and the capacity is kept.            *)
THEOREM LruCacheSafe == LruSpec => []ListAndMapAgree
<1>1. EmptyCache => CacheInv
  BY EmptyCacheInv
<1>2. CacheInv /\ [LruNext]_cacheVars => CacheInv'
  <2>1. SUFFICES ASSUME CacheInv, [LruNext]_cacheVars PROVE CacheInv'
    OBVIOUS
  <2>2. CASE UNCHANGED cacheVars
    BY <2>1, <2>2 DEF CacheInv, CacheTypeOK, ListAndMapAgree, Cached, cacheVars
  <2>3. CASE LruNext
    BY <2>1, <2>3, ReadKeyInv, DeleteKeyInv, CreateKeyInv, UpdateKeyInv DEF LruNext
  <2> QED BY <2>1, <2>2, <2>3
<1>3. CacheInv => ListAndMapAgree
  BY DEF CacheInv
<1> QED BY <1>1, <1>2, <1>3, PTL DEF LruSpec

-----------------------------------------------------------------------------
(* The i-th entry of the list is that of the i-th key in the order of use. *)
InStep(list, at, order) ==
    /\ Len(list) <= Len(order)
    /\ \A i \in 1 .. Len(list) : at[list[i]].key = order[i]

UseInv ==
    /\ CacheInv
    /\ recent \in Seq(Keys) /\ Distinct(recent)
    /\ InStep(cache_list, cell, recent)

LEMMA DistinctPlace ==
    ASSUME NEW s, Distinct(s), NEW i \in DOMAIN s
    PROVE  (CHOOSE j \in DOMAIN s : s[j] = s[i]) = i
BY DEF Distinct

LEMMA UnlinkedAt ==
    ASSUME cache_list \in Seq(Cells), Distinct(cache_list), NEW i \in DOMAIN cache_list
    PROVE  /\ Unlinked(cache_list[i]) \in Seq(Cells)
           /\ Len(Unlinked(cache_list[i])) = Len(cache_list) - 1
           /\ \A j \in 1 .. Len(cache_list) - 1 :
                  Unlinked(cache_list[i])[j] = IF j < i THEN cache_list[j] ELSE cache_list[j + 1]
<1>1. Unlinked(cache_list[i]) = RemoveAt(cache_list, i)
  BY DistinctPlace, Zenon DEF Unlinked
<1> QED BY <1>1, RemoveAtElements, Zenon

LEMMA WithoutAt ==
    ASSUME recent \in Seq(Keys), Distinct(recent), NEW i \in DOMAIN recent
    PROVE  /\ Without(recent[i]) \in Seq(Keys)
           /\ Len(Without(recent[i])) = Len(recent) - 1
           /\ Distinct(Without(recent[i]))
           /\ ToSet(Without(recent[i])) = ToSet(recent) \ {recent[i]}
           /\ \A j \in 1 .. Len(recent) - 1 :
                  Without(recent[i])[j] = IF j < i THEN recent[j] ELSE recent[j + 1]
<1>1. recent[i] \in ToSet(recent)
  BY Zenon DEF ToSet
<1>2. Without(recent[i]) = RemoveAt(recent, i)
  BY <1>1, DistinctPlace, Zenon DEF Without
<1> DEFINE r == RemoveAt(recent, i)
<1>3. /\ r \in Seq(Keys)
      /\ Len(r) = Len(recent) - 1
      /\ \A j \in 1 .. Len(recent) - 1 : r[j] = IF j < i THEN recent[j] ELSE recent[j + 1]
  BY RemoveAtElements, Zenon
<1> HIDE DEF r
<1>4. Distinct(r) /\ ToSet(r) = ToSet(recent) \ {recent[i]}
  BY <1>3, WithoutOne, ZenonT(60)
<1> QED BY <1>2, <1>3, <1>4, Zenon DEF r

LEMMA WithoutType ==
    ASSUME recent \in Seq(Keys), Distinct(recent), NEW k \in Keys
    PROVE  /\ Without(k) \in Seq(Keys)
           /\ Distinct(Without(k))
           /\ k \notin ToSet(Without(k))
<1>1. CASE k \notin ToSet(recent)
  BY <1>1 DEF Without
<1>2. CASE k \in ToSet(recent)
  <2>1. PICK i \in DOMAIN recent : recent[i] = k
    BY <1>2, Zenon DEF ToSet
  <2> QED BY <2>1, WithoutAt
<1> QED BY <1>1, <1>2

LEMMA UsedType ==
    ASSUME recent \in Seq(Keys), Distinct(recent), NEW k \in Keys
    PROVE  Used(k) \in Seq(Keys) /\ Distinct(Used(k))
<1>1. Without(k) \in Seq(Keys) /\ Distinct(Without(k)) /\ k \in Keys \ ToSet(Without(k))
  BY WithoutType
<1> QED BY <1>1, PrependElements DEF Used

LEMMA FirstOfBoth ==
    ASSUME NEW S, NEW list \in Seq(S), NEW T, NEW order \in Seq(T), NEW at,
           InStep(list, at, order), NEW c \in S, NEW k \in T, at[c].key = k
    PROVE  InStep(<<c>> \o list, at, <<k>> \o order)
<1> DEFINE l == <<c>> \o list
           o == <<k>> \o order
<1>1. Len(list) \in Nat /\ Len(order) \in Nat /\ Len(list) <= Len(order)
  BY DEF InStep
<1>2. Len(l) = Len(list) + 1 /\ l[1] = c /\ \A j \in 1 .. Len(list) : l[j + 1] = list[j]
  OBVIOUS
<1>3. Len(o) = Len(order) + 1 /\ o[1] = k /\ \A j \in 1 .. Len(order) : o[j + 1] = order[j]
  OBVIOUS
<1> HIDE DEF l, o
<1>4. ASSUME NEW i \in 1 .. Len(l) PROVE at[l[i]].key = o[i]
  <2>1. CASE i = 1
    BY <2>1, <1>2, <1>3
  <2>2. CASE i # 1
    <3> DEFINE j == i - 1
    <3>1. j \in 1 .. Len(list) /\ j \in 1 .. Len(order) /\ i = j + 1
      BY <1>1, <1>2, <2>2
    <3> HIDE DEF j
    <3>2. at[list[j]].key = order[j]
      BY <3>1 DEF InStep
    <3> QED BY <3>1, <3>2, <1>2, <1>3
  <2> QED BY <2>1, <2>2
<1>5. Len(l) <= Len(o)
  BY <1>1, <1>2, <1>3
<1> QED BY <1>4, <1>5 DEF InStep, l, o

(* A cached key is as far from the front in the list as in the order.      *)
LEMMA CachedPlace ==
    ASSUME UseInv, NEW k \in Keys, Cached(k)
    PROVE  \E i \in DOMAIN cache_list :
               /\ i \in DOMAIN recent /\ cache_list[i] = cache_map[k] /\ recent[i] = k
               /\ DOMAIN cache_list = 1 .. Len(cache_list) /\ DOMAIN recent = 1 .. Len(recent)
               /\ Len(cache_list) \in Nat /\ Len(recent) \in Nat
<1>1. cache_map[k] \in ToSet(cache_list) /\ cell[cache_map[k]].key = k
  BY CachedCell DEF UseInv
<1>2. PICK i \in DOMAIN cache_list : cache_list[i] = cache_map[k]
  BY <1>1, Zenon DEF ToSet
<1>3. /\ DOMAIN cache_list = 1 .. Len(cache_list) /\ DOMAIN recent = 1 .. Len(recent)
      /\ Len(cache_list) \in Nat /\ Len(recent) \in Nat
  BY ListDistinct DEF UseInv
<1> QED BY <1>1, <1>2, <1>3 DEF UseInv, InStep

LEMMA TakenFromBoth ==
    ASSUME UseInv, NEW k \in Keys, Cached(k)
    PROVE  InStep(Unlinked(cache_map[k]), cell, Without(k))
<1>1. PICK i \in DOMAIN cache_list :
          /\ i \in DOMAIN recent /\ cache_list[i] = cache_map[k] /\ recent[i] = k
          /\ DOMAIN cache_list = 1 .. Len(cache_list) /\ DOMAIN recent = 1 .. Len(recent)
          /\ Len(cache_list) \in Nat /\ Len(recent) \in Nat
  BY CachedPlace
<1>2. /\ Len(Unlinked(cache_map[k])) = Len(cache_list) - 1
      /\ \A j \in 1 .. Len(cache_list) - 1 :
             Unlinked(cache_map[k])[j] = IF j < i THEN cache_list[j] ELSE cache_list[j + 1]
  BY <1>1, UnlinkedAt, ListDistinct DEF UseInv
<1>3. /\ Len(Without(k)) = Len(recent) - 1
      /\ \A j \in 1 .. Len(recent) - 1 :
             Without(k)[j] = IF j < i THEN recent[j] ELSE recent[j + 1]
  BY <1>1, WithoutAt DEF UseInv
<1>4. /\ Len(cache_list) <= Len(recent)
      /\ \A j \in 1 .. Len(cache_list) : cell[cache_list[j]].key = recent[j]
  BY DEF UseInv, InStep
<1>5. ASSUME NEW j \in 1 .. Len(cache_list) - 1
      PROVE  cell[Unlinked(cache_map[k])[j]].key = Without(k)[j]
  <2>1. j \in 1 .. Len(cache_list) /\ j + 1 \in 1 .. Len(cache_list) /\ j \in 1 .. Len(recent) - 1
    BY <1>1, <1>4
  <2>2. CASE j < i
    BY <2>1, <2>2, <1>2, <1>3, <1>4
  <2>3. CASE ~(j < i)
    BY <2>1, <2>3, <1>2, <1>3, <1>4
  <2> QED BY <2>2, <2>3
<1> QED BY <1>1, <1>2, <1>3, <1>4, <1>5 DEF InStep

(* A key that is not cached was used before all that are.                  *)
LEMMA TakenFromOrder ==
    ASSUME UseInv, NEW k \in Keys, ~Cached(k)
    PROVE  InStep(cache_list, cell, Without(k))
<1>1. CASE k \notin ToSet(recent)
  BY <1>1 DEF Without, UseInv
<1>2. CASE k \in ToSet(recent)
  <2>1. PICK p \in DOMAIN recent : recent[p] = k
    BY <1>2, Zenon DEF ToSet
  <2>2. /\ DOMAIN cache_list = 1 .. Len(cache_list) /\ DOMAIN recent = 1 .. Len(recent)
        /\ Len(cache_list) \in Nat /\ Len(recent) \in Nat
    BY ListDistinct DEF UseInv
  <2>3. /\ Len(cache_list) <= Len(recent)
        /\ \A j \in 1 .. Len(cache_list) : cell[cache_list[j]].key = recent[j]
    BY DEF UseInv, InStep
  <2>4. \A j \in 1 .. Len(cache_list) : recent[j] # k
    <3>1. SUFFICES ASSUME NEW j \in 1 .. Len(cache_list), recent[j] = k PROVE FALSE
      OBVIOUS
    <3>2. cache_list[j] \in ToSet(cache_list) /\ cell[cache_list[j]].key = k
      BY <2>2, <2>3, <3>1, Zenon DEF ToSet
    <3>3. cache_map[k] = cache_list[j] /\ cache_list[j] \in Cells
      BY <3>2, ListDistinct DEF UseInv, CacheInv, ListAndMapAgree
    <3> QED BY <3>3, LruCacheAssumption DEF Cached
  <2>5. p > Len(cache_list)
    BY <2>1, <2>2, <2>4
  <2>6. /\ Len(Without(k)) = Len(recent) - 1
        /\ \A j \in 1 .. Len(recent) - 1 :
               Without(k)[j] = IF j < p THEN recent[j] ELSE recent[j + 1]
    BY <2>1, WithoutAt DEF UseInv
  <2>7. ASSUME NEW j \in 1 .. Len(cache_list) PROVE cell[cache_list[j]].key = Without(k)[j]
    <3>1. j \in 1 .. Len(recent) - 1 /\ j < p
      BY <2>1, <2>2, <2>5
    <3> QED BY <2>3, <2>6, <3>1
  <2> QED BY <2>1, <2>2, <2>5, <2>6, <2>7 DEF InStep
<1> QED BY <1>1, <1>2

-----------------------------------------------------------------------------
LEMMA UseInvInit == UseInit => UseInv
<1> SUFFICES ASSUME UseInit PROVE UseInv
  OBVIOUS
<1>1. CacheInv
  BY EmptyCacheInv DEF UseInit
<1>2. cache_list = <<>> /\ recent = <<>>
  BY DEF UseInit, EmptyCache
<1> QED BY <1>1, <1>2 DEF UseInv, InStep, Distinct

(* What all uses of a cached key do.                                       *)
LEMMA UseOfCached ==
    ASSUME UseInv, CacheInv', NEW k \in Keys, Cached(k),
           cache_list' = MovedToFront(cache_map[k]), recent' = Used(k),
           \A d \in ToSet(cache_list) : cell'[d].key = cell[d].key
    PROVE  UseInv'
<1> DEFINE c == cache_map[k]
           rest == Unlinked(c)
<1>1. /\ c \in ToSet(cache_list) \intersect Cells /\ cell[c].key = k
  BY CachedCell DEF UseInv
<1>2. rest \in Seq(Cells) /\ ToSet(rest) = ToSet(cache_list) \ {c}
  BY <1>1, UnlinkedElements, ListDistinct DEF UseInv
<1>3. /\ recent \in Seq(Keys) /\ Distinct(recent)
      /\ Without(k) \in Seq(Keys) /\ Used(k) \in Seq(Keys) /\ Distinct(Used(k))
  BY WithoutType, UsedType DEF UseInv
<1>4. InStep(rest, cell, Without(k))
  BY TakenFromBoth
<1>5. cache_list' = <<c>> \o rest /\ recent' = <<k>> \o Without(k)
  BY DEF MovedToFront, Used
<1> HIDE DEF rest, c
<1>6. InStep(rest, cell', Without(k))
  <2>1. \A i \in 1 .. Len(rest) : rest[i] \in ToSet(rest)
    BY <1>2, LenProperties, Zenon DEF ToSet
  <2> QED BY <1>2, <1>4, <2>1 DEF InStep
<1>7. cell'[c].key = k
  BY <1>1
<1>8. InStep(<<c>> \o rest, cell', <<k>> \o Without(k))
  BY <1>1, <1>2, <1>3, <1>6, <1>7, FirstOfBoth
<1> QED BY <1>3, <1>5, <1>8 DEF UseInv

LEMMA UseFrame ==
    ASSUME UseInv, UNCHANGED useVars PROVE UseInv'
BY DEF UseInv, InStep, useVars, cacheVars, CacheInv, CacheTypeOK, ListAndMapAgree, Cached

LEMMA UseReadInv ==
    ASSUME UseInv, NEW k \in Keys, UseRead(k) PROVE UseInv'
<1>1. CASE Cached(k)
  <2>1. CacheInv'
    BY ReadKeyInv DEF UseRead, UseInv
  <2>2. cache_list' = MovedToFront(cache_map[k]) /\ recent' = Used(k) /\ cell' = cell
    BY <1>1 DEF UseRead, ReadKey
  <2> QED BY <1>1, <2>1, <2>2, UseOfCached
<1>2. CASE ~Cached(k)
  BY <1>2, UseFrame DEF UseRead, ReadKey, useVars, cacheVars
<1> QED BY <1>1, <1>2

LEMMA UseUpdateInv ==
    ASSUME UseInv, NEW k \in Keys, NEW v \in Values, UseUpdate(k, v) PROVE UseInv'
<1>1. CASE Cached(k)
  <2>1. CacheInv'
    BY UpdateKeyInv DEF UseUpdate, UseInv
  <2>2. /\ cache_list' = MovedToFront(cache_map[k]) /\ recent' = Used(k)
        /\ cell' = [cell EXCEPT ![cache_map[k]].value = v]
    BY <1>1 DEF UseUpdate, UpdateKey
  <2>3. \A d \in ToSet(cache_list) : d \in Cells /\ cell[d] # None
    BY ListDistinct DEF UseInv, CacheInv, ListAndMapAgree
  <2>4. \A d \in ToSet(cache_list) : cell[d] \in Entry
    BY <2>3 DEF UseInv, CacheInv, CacheTypeOK
  <2>5. \A d \in ToSet(cache_list) : cell'[d].key = cell[d].key
    BY <2>2, <2>3, <2>4 DEF UseInv, CacheInv, CacheTypeOK, Entry
  <2> QED BY <1>1, <2>1, <2>2, <2>5, UseOfCached
<1>2. CASE ~Cached(k)
  BY <1>2, UseFrame DEF UseUpdate, UpdateKey, useVars
<1> QED BY <1>1, <1>2

LEMMA UseDeleteInv ==
    ASSUME UseInv, NEW k \in Keys, UseDelete(k) PROVE UseInv'
<1>1. CacheInv'
  BY DeleteKeyInv DEF UseDelete, UseInv
<1>2. Without(k) \in Seq(Keys) /\ Distinct(Without(k)) /\ recent' = Without(k)
  BY WithoutType DEF UseInv, UseDelete
<1>3. CASE Cached(k)
  <2> DEFINE rest == Unlinked(cache_map[k])
  <2>1. cache_list' = rest /\ cell' = [cell EXCEPT ![cache_map[k]] = None]
    BY <1>3 DEF UseDelete, DeleteKey
  <2>2. rest \in Seq(Cells) /\ ToSet(rest) = ToSet(cache_list) \ {cache_map[k]}
    BY <1>3, CachedCell, UnlinkedElements, ListDistinct DEF UseInv
  <2>3. InStep(rest, cell, Without(k))
    BY <1>3, TakenFromBoth
  <2> HIDE DEF rest
  <2>4. \A i \in 1 .. Len(rest) : rest[i] \in ToSet(rest)
    BY <2>2, LenProperties, Zenon DEF ToSet
  <2>5. \A d \in ToSet(rest) : cell'[d] = cell[d]
    BY <2>1, <2>2, ListDistinct DEF UseInv, CacheInv, CacheTypeOK
  <2>6. InStep(rest, cell', Without(k))
    BY <2>3, <2>4, <2>5 DEF InStep
  <2> QED BY <1>1, <1>2, <2>1, <2>6 DEF UseInv
<1>4. CASE ~Cached(k)
  <2>1. UNCHANGED cacheVars
    BY <1>4 DEF UseDelete, DeleteKey
  <2>2. InStep(cache_list, cell, Without(k))
    BY <1>4, TakenFromOrder
  <2> QED BY <1>1, <1>2, <2>1, <2>2 DEF UseInv, cacheVars
<1> QED BY <1>3, <1>4

LEMMA UseCreateInv ==
    ASSUME UseInv, NEW k \in Keys, NEW v \in Values, UseCreate(k, v) PROVE UseInv'
<1>1. CASE Cached(k)
  BY <1>1, UseFrame DEF UseCreate, CreateKey, useVars
<1>2. CASE ~Cached(k)
  <2> DEFINE full == Len(cache_list) >= Capacity
             kept == IF full THEN Front(cache_list) ELSE cache_list
             evicted == IF full THEN {Last(cache_list)} ELSE {}
  <2>1. CacheInv'
    BY CreateKeyInv DEF UseCreate, UseInv
  <2>2. /\ recent' = <<k>> \o Without(k) /\ Without(k) \in Seq(Keys)
        /\ recent' \in Seq(Keys) /\ Distinct(recent')
    BY <1>2, WithoutType, UsedType DEF UseCreate, Used, UseInv
  <2>3. PICK c \in Cells \ ToSet(kept) :
           /\ cache_list' = <<c>> \o kept
           /\ cell' = [d \in Cells |->
                  IF d = c THEN [key |-> k, value |-> v]
                  ELSE IF d \in evicted THEN None
                  ELSE cell[d]]
    BY <1>2 DEF UseCreate, CreateKey, Insert
  <2>4. cache_list \in Seq(Cells) /\ Distinct(cache_list) /\ Len(cache_list) \in Nat
    BY ListDistinct DEF UseInv
  <2>5. /\ kept \in Seq(Cells) /\ Len(kept) <= Len(cache_list)
        /\ \A i \in 1 .. Len(kept) : kept[i] = cache_list[i]
        /\ ToSet(kept) \intersect evicted = {}
    <3>1. CASE full
      <4>1. Len(cache_list) > 0
        BY <2>4, <3>1, LruCacheAssumption
      <4>2. /\ Front(cache_list) \in Seq(Cells)
            /\ Len(Front(cache_list)) = Len(cache_list) - 1
            /\ ToSet(Front(cache_list)) = ToSet(cache_list) \ {Last(cache_list)}
        BY <2>4, <4>1, FrontElements
      <4>3. \A i \in 1 .. Len(cache_list) - 1 : Front(cache_list)[i] = cache_list[i]
        BY <2>4, <4>1, SubSeqProperties DEF Front
      <4> QED BY <2>4, <3>1, <4>2, <4>3
    <3>2. CASE ~full
      BY <2>4, <3>2
    <3> QED BY <3>1, <3>2
  <2> HIDE DEF full, kept, evicted
  <2>6. \A i \in 1 .. Len(kept) : kept[i] \in ToSet(kept) /\ kept[i] \in Cells
    BY <2>5, LenProperties, Zenon DEF ToSet
  <2>7. \A i \in 1 .. Len(kept) : cell'[kept[i]] = cell[cache_list[i]]
    BY <2>3, <2>5, <2>6
  <2>8. InStep(cache_list, cell, Without(k))
    BY <1>2, TakenFromOrder
  <2>9. Len(kept) \in Nat /\ Len(Without(k)) \in Nat
    BY <2>2, <2>5
  <2>10. InStep(kept, cell', Without(k))
    BY <2>4, <2>5, <2>7, <2>8, <2>9 DEF InStep
  <2>11. c \in Cells /\ cell'[c].key = k
    BY <2>3
  <2>12. InStep(<<c>> \o kept, cell', <<k>> \o Without(k))
    BY <2>2, <2>5, <2>10, <2>11, FirstOfBoth
  <2> QED BY <2>1, <2>2, <2>3, <2>12 DEF UseInv
<1> QED BY <1>1, <1>2

(* Whatever the methods that are called, and however many keys there are,  *)
(* the entry that create_key evicts is the one used longest ago:           *)
(* EvictsLeastRecent, for every capacity.                                  *)
THEOREM OldestIsEvicted == UseSpec => []EvictsLeastRecent
<1>1. UseInv /\ [UseNext]_useVars => UseInv'
  BY UseReadInv, UseDeleteInv, UseCreateInv, UseUpdateInv, UseFrame DEF UseNext
<1>2. UseInv => EvictsLeastRecent
  <2> SUFFICES ASSUME UseInv PROVE EvictsLeastRecent
    OBVIOUS
  <2> DEFINE n == Len(cache_list)
             keys == [i \in DOMAIN cache_list |-> cell[cache_list[i]].key]
  <2>1. /\ DOMAIN cache_list = 1 .. n /\ n \in Nat
        /\ n <= Len(recent) /\ \A i \in 1 .. n : cell[cache_list[i]].key = recent[i]
        /\ recent \in Seq(Keys) /\ Len(recent) \in Nat
    BY ListDistinct, LenProperties DEF UseInv, InStep
  <2>2. \A i \in 1 .. n : i \in 1 .. Len(recent)
    BY <2>1
  <2>3. keys = [i \in 1 .. n |-> recent[i]]
    BY <2>1
  <2>4. keys \in Seq(Keys) /\ Len(keys) = n
    BY <2>1, <2>2, <2>3
  <2>5. SubSeq(keys, 1, n) = keys
    BY <2>1, <2>4
  <2>6. SubSeq(recent, 1, n) = [i \in 1 .. n |-> recent[i]]
    BY <2>1, <2>2
  <2> QED BY <2>1, <2>3, <2>4, <2>5, <2>6 DEF EvictsLeastRecent, IsPrefix
<1> QED BY <1>1, <1>2, UseInvInit, PTL DEF UseSpec
=============================================================================
