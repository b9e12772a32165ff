------------------------------ MODULE MCCache -------------------------------
(***************************************************************************)
(* LruCache on its own, with all its methods, and the order of last use as *)
(* a history variable: recent lists the keys, the one used last first.     *)
(***************************************************************************)
EXTENDS LruCache

VARIABLE recent

useVars == <<cacheVars, recent>>

Without(k) ==
    IF k \in ToSet(recent)
    THEN RemoveAt(recent, CHOOSE i \in DOMAIN recent : recent[i] = k)
    ELSE recent

Used(k) == <<k>> \o Without(k)

UseInit == EmptyCache /\ recent = <<>>

UseRead(k) == ReadKey(k) /\ recent' = IF Cached(k) THEN Used(k) ELSE recent

UseCreate(k, v) == CreateKey(k, v) /\ recent' = IF Cached(k) THEN recent ELSE Used(k)

UseUpdate(k, v) == UpdateKey(k, v) /\ recent' = IF Cached(k) THEN Used(k) ELSE recent

UseDelete(k) == DeleteKey(k) /\ recent' = Without(k)

UseNext ==
    \E k \in Keys :
        \/ UseRead(k)
        \/ UseDelete(k)
        \/ \E v \in Values : UseCreate(k, v) \/ UseUpdate(k, v)

UseSpec == UseInit /\ [][UseNext]_useVars

-----------------------------------------------------------------------------
(* The cache holds the keys used last, in this order: create_key never     *)
(* evicts an entry while one that was used before it stays, and a          *)
(* create_key that finds its key cached is no use of it.                   *)
EvictsLeastRecent ==
    IsPrefix([i \in DOMAIN cache_list |-> cell[cache_list[i]].key], recent)
=============================================================================
