-------------------------- MODULE MCMemoryCacheLRU --------------------------
(***************************************************************************)
(* The in-memory tier with the LRU policy, MemoryCache::new.               *)
(***************************************************************************)
EXTENDS MemoryCacheProperties, TLC

LOCAL INSTANCE LRU

MCNew == LruNew
MCOnAccess(p, k) == LruOnAccess(p, k)
MCOnInsert(p, k) == LruOnInsert(p, k)
MCEvict(p) == LruEvict(p)
MCReset(p) == LruReset(p)
MCTracked(p) == LruTracked(p)

\* Keys, values and threads are interchangeable.
Symmetry == Permutations(Keys) \cup Permutations(Values) \cup Permutations(Threads)
=============================================================================
