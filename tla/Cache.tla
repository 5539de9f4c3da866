-------------------------------- MODULE Cache --------------------------------
(***************************************************************************)
(* What a shared cache handler promises Next.js (CacheHandlerV2 in         *)
(* src/types.ts), with no memcached, no connections and no tag records:    *)
(* a cell per key that may lose its entry at any time, the time of the     *)
(* latest invalidation of each tag, and lookups that read one cell at one  *)
(* instant and are told "fresh" only of entries no older than every        *)
(* invalidation of one of their tags that stood when they began.           *)
(***************************************************************************)
EXTENDS Integers

CONSTANTS Key, Tag, Caller,
          Entry, \* what a cell may hold; an entry has tags and a timestamp
          None   \* nothing

VARIABLES
    held,     \* key -> the entry the cache holds, or None
    standing, \* tag -> when it was invalidated
    lookup    \* caller -> its lookup

cacheVars == <<held, standing, lookup>>

Never == [t \in Tag |-> 0]

NoLookup == [phase |-> "idle", key |-> None, soft |-> {}, since |-> Never,
             entry |-> None, result |-> None]

Init ==
    /\ held = [k \in Key |-> None]
    /\ standing = Never
    /\ lookup = [c \in Caller |-> NoLookup]

-----------------------------------------------------------------------------
(* What becomes of the cells and of the invalidations.                     *)

\* An entry is written, over whatever the cell held.
Write(k) ==
    /\ held'[k] \in Entry
    /\ held' = [held EXCEPT ![k] = held'[k]]
    /\ UNCHANGED <<standing, lookup>>

\* Entries are lost: evicted, illegible, gone with a restart.
Lose(keys) ==
    /\ held' = [k \in Key |-> IF k \in keys THEN None ELSE held[k]]
    /\ UNCHANGED <<standing, lookup>>

\* Tag t is invalidated; the lookups under way need not respect it.
Invalidate(t) ==
    /\ standing'[t] > standing[t]
    /\ standing' = [standing EXCEPT ![t] = standing'[t]]
    /\ UNCHANGED <<held, lookup>>

\* The invalidation of tag t is lost, to the lookups under way as well.
Forget(t) ==
    /\ standing' = [standing EXCEPT ![t] = 0]
    /\ lookup' = [c \in Caller |-> [lookup[c] EXCEPT !.since[t] = 0]]
    /\ UNCHANGED held

-----------------------------------------------------------------------------
(* A lookup: asked, fetched, answered, taken.                              *)

Ask(c, k, soft) ==
    /\ lookup[c].phase = "idle"
    /\ lookup' = [lookup EXCEPT ![c] =
                     [phase |-> "asked", key |-> k, soft |-> soft,
                      since |-> standing, entry |-> None, result |-> None]]
    /\ UNCHANGED <<held, standing>>

\* The cell is read, once.
Fetch(c) ==
    /\ lookup[c].phase = "asked"
    /\ lookup' = [lookup EXCEPT ![c] =
                     [phase |-> "fetched", key |-> lookup[c].key,
                      soft |-> lookup[c].soft, since |-> lookup[c].since,
                      entry |-> held[lookup[c].key], result |-> lookup[c].result]]
    /\ UNCHANGED <<held, standing>>

\* The answer is the entry fetched; fresh, it respects what it has to.  A
\* cache may always answer "stale", and "miss" without having fetched.
Allowed(local, result) ==
    \/ result = "miss"
    \/ /\ result \in {"fresh", "stale"}
       /\ local.phase = "fetched" /\ local.entry \in Entry
       /\ result = "fresh" =>
             \A t \in local.entry.tags \cup local.soft :
                 local.entry.timestamp >= local.since[t]

Answer(c, result) ==
    /\ lookup[c].phase \in {"asked", "fetched"}
    /\ Allowed(lookup[c], result)
    /\ lookup' = [lookup EXCEPT ![c] =
                     [phase |-> "answered", key |-> None,
                      soft |-> lookup[c].soft, since |-> lookup[c].since,
                      entry |-> IF result = "miss" THEN None ELSE lookup[c].entry,
                      result |-> result]]
    /\ UNCHANGED <<held, standing>>

Take(c) ==
    /\ lookup[c].phase = "answered"
    /\ lookup' = [lookup EXCEPT ![c] = NoLookup]
    /\ UNCHANGED <<held, standing>>

-----------------------------------------------------------------------------

Next ==
    \/ \E k \in Key : Write(k)
    \/ \E keys \in SUBSET Key : Lose(keys)
    \/ \E t \in Tag : Invalidate(t) \/ Forget(t)
    \/ \E c \in Caller :
          \/ \E k \in Key, soft \in SUBSET Tag : Ask(c, k, soft)
          \/ Fetch(c)
          \/ \E result \in {"miss", "fresh", "stale"} : Answer(c, result)
          \/ Take(c)

Spec == Init /\ [][Next]_cacheVars

=============================================================================
