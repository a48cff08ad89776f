-------------------------- MODULE MCMemoryCacheLFU --------------------------
(***************************************************************************)
(* The in-memory tier with the LFU policy, MemoryCache::with_policy.       *)
(***************************************************************************)
EXTENDS Freshness, TLC

LOCAL INSTANCE LFU

MCNew == LfuNew
MCOnAccess(p, k) == LfuOnAccess(p, k)
MCOnInsert(p, k) == LfuOnInsert(p, k)
MCEvict(p) == LfuEvict(p)
MCReset(p) == LfuReset(p)
MCTracked(p) == LfuTracked(p)

\* Keys, values and threads are interchangeable.
Symmetry == Permutations(Keys) \cup Permutations(Values) \cup Permutations(Threads)
=============================================================================
