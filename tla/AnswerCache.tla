----------------------------- MODULE AnswerCache -----------------------------
(***************************************************************************)
(* The in-memory answer cache of backend/answer_cache.py: an OrderedDict   *)
(* under a lock, least recently used first, whose entries expire           *)
(* ANSWER_CACHE_TTL_S after they were put.  Each of _mem_get and _mem_put  *)
(* holds the lock from start to end and is one action.  The Redis store    *)
(* and swallowed errors are in AskPipeline.                                *)
(*                                                                         *)
(* Time is the set of the keys that are past their TTL; a key gets there   *)
(* at any moment.  What is cached for a key is left out.                   *)
(***************************************************************************)
EXTENDS Naturals, SequencesExt

CONSTANTS
    Keys,       \* what _key makes of an (image, question) pair
    MaxEntries  \* ANSWER_CACHE_MAX

ASSUME CacheAssumption == MaxEntries \in Nat

VARIABLES
    store,   \* _store: the keys in their order
    stale,   \* the keys whose last put is longer ago than the TTL
    touched  \* history: the keys by their last put or hit

cacheVars == <<store, stale, touched>>

CacheInit == store = <<>> /\ stale = {} /\ touched = <<>>

Newest(s, n) == SubSeq(s, IF Len(s) > n THEN Len(s) - n + 1 ELSE 1, Len(s))

(* A key is there once at most.                                            *)
Without(s, k) ==
    LET place == CHOOSE i \in DOMAIN s : s[i] = k
    IN  IF Contains(s, k) THEN RemoveAt(s, place) ELSE s

MoveToEnd(s, k) == Append(Without(s, k), k)

Hit(k) == Contains(store, k) /\ k \notin stale

MemGetHitInPlace(k) ==
    /\ Hit(k)
    /\ touched' = MoveToEnd(touched, k)
    /\ UNCHANGED <<store, stale>>

MemGetHit(k) ==
    /\ Hit(k)
    /\ store' = MoveToEnd(store, k)
    /\ touched' = MoveToEnd(touched, k)
    /\ UNCHANGED stale

(* An expired entry is popped.                                             *)
MemGetMiss(k) ==
    /\ ~ Hit(k)
    /\ store' = Without(store, k)
    /\ UNCHANGED <<stale, touched>>

MemPutOneMore(k) ==
    /\ store' = Newest(MoveToEnd(store, k), MaxEntries + 1)
    /\ stale' = stale \ {k}
    /\ touched' = MoveToEnd(touched, k)

MemPut(k) ==
    /\ store' = Newest(MoveToEnd(store, k), MaxEntries)
    /\ stale' = stale \ {k}
    /\ touched' = MoveToEnd(touched, k)

Expire(k) ==
    /\ Contains(touched, k) /\ k \notin stale
    /\ stale' = stale \cup {k}
    /\ UNCHANGED <<store, touched>>

CacheNext ==
    \E k \in Keys : MemGetHit(k) \/ MemGetMiss(k) \/ MemPut(k) \/ Expire(k)

CacheSpec == CacheInit /\ [][CacheNext]_cacheVars

(* _store never outgrows ANSWER_CACHE_MAX and names no key twice.          *)
CacheTypeOK ==
    /\ store \in Seq(Keys) /\ Len(store) <= MaxEntries /\ IsInjective(store)
    /\ stale \subseteq Keys
    /\ touched \in Seq(Keys) /\ IsInjective(touched)

(* An answer that has not expired is still there unless ANSWER_CACHE_MAX   *)
(* other keys have been put or hit since it was last used: what _mem_get's *)
(* move_to_end and _mem_put's popitem(last=False) add up to.               *)
KeepsRecent ==
    \A k \in ToSet(Newest(touched, MaxEntries)) \ stale : Contains(store, k)

=============================================================================
