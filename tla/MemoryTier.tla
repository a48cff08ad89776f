----------------------------- MODULE MemoryTier -----------------------------
(***************************************************************************)
(* The calls of one MemoryCache with its default policy, LRU, each as a    *)
(* whole: what a call returns and the tier it leaves behind when no other  *)
(* call overlaps it.  MemoryCache has the same calls step by step, and     *)
(* WholeCalls compares the two.                                            *)
(***************************************************************************)
EXTENDS LRU, FiniteSets

CONSTANTS Keys, EntrySize

TierNew(capacity) ==
    [entries |-> [k \in Keys |-> None], policy |-> LruNew,
     capacity |-> capacity, size |-> 0,
     stats |-> [hits |-> 0, misses |-> 0, evictions |-> 0,
                size_bytes |-> 0, entries |-> 0]]

TierHolds(m, k) == m.entries[k] # None

\* Mutant: the expiry time is never looked at.
TierNeverExpired(m, k) == FALSE

TierExpired(m, k) == TierHolds(m, k) /\ m.entries[k].life = "expired"

TierFits(m, size) == size + EntrySize <= m.capacity

\* The size once n entries have been taken off it, never below zero.
SizeWithout(m, n) ==
    IF m.size >= EntrySize * n THEN m.size - EntrySize * n ELSE 0

\* The tier without the entries of the keys gone, and with their size given
\* back.
TierTake(m, gone) ==
    [m EXCEPT !.entries = [k \in Keys |-> IF k \in gone THEN None ELSE @[k]],
              !.size = SizeWithout(m, Cardinality(gone))]

\* stats.entries -= n and stats.size_bytes = *size_guard, if there is cause.
TierUncount(m, n) ==
    IF n = 0 THEN m
    ELSE [m EXCEPT !.stats.entries = @ - n, !.stats.size_bytes = m.size]

\* The stored entries among the n that the policy gives up first.
Victims(m, n) ==
    {k \in Keys : TierHolds(m, k) /\ \E i \in 1 .. n : m.policy.access_order[i] = k}

\* The policy after n evictions.
EvictedFrom(p, n) ==
    [access_order |-> SubSeq(p.access_order, n + 1, Len(p.access_order)),
     key_index    |-> [k \in {x \in DOMAIN p.key_index :
                                 \A i \in 1 .. n : p.access_order[i] # x} |->
                          p.key_index[k]]]

\* evict_for_space takes keys from the policy until the entry fits or there
\* are no more, and removes those that are stored.
EvictForSpace(m) ==
    LET all == Len(m.policy.access_order)
        size(n) == SizeWithout(m, Cardinality(Victims(m, n)))
        n == CHOOSE n \in 0 .. all :
                /\ n = all \/ TierFits(m, size(n))
                /\ \A j \in 0 .. n - 1 : ~ TierFits(m, size(j))
        gone == Victims(m, n)
    IN  [TierUncount(TierTake(m, gone), Cardinality(gone)) EXCEPT
            !.stats.evictions = @ + Cardinality(gone),
            !.policy = EvictedFrom(@, n)]

\* A set that is refused has removed the old entry, and does not count it down.
TierSet(m, k, value, life) ==
    LET old == TierHolds(m, k)
        room == EvictForSpace(IF old THEN TierTake(m, {k}) ELSE m)
        size == room.size + EntrySize
    IN  IF ~ TierFits(room, room.size)
        THEN [result |-> "full", tier |-> room]
        ELSE [result |-> "ok",
              tier |-> [room EXCEPT
                           !.entries[k] = [value |-> value, life |-> life],
                           !.size = size,
                           !.stats.entries = IF old THEN @ ELSE @ + 1,
                           !.stats.size_bytes = size,
                           !.policy = LruOnInsert(@, k)]]

\* An expired entry leaves the map, and nothing else learns of it.
TierGet(m, k) ==
    IF TierHolds(m, k) /\ ~ TierExpired(m, k)
    THEN [result |-> m.entries[k].value,
          tier |-> [m EXCEPT !.policy = LruOnAccess(@, k), !.stats.hits = @ + 1]]
    ELSE [result |-> None,
          tier |-> [m EXCEPT !.entries[k] = None, !.stats.misses = @ + 1]]

\* Mutant: the counters go down whether or not the key was there.
TierDeleteUnchecked(m, k) ==
    [result |-> "ok", tier |-> TierUncount(TierTake(m, {k}), 1)]

TierDelete(m, k) ==
    [result |-> "ok",
     tier |-> IF TierHolds(m, k) THEN TierUncount(TierTake(m, {k}), 1) ELSE m]

TierExists(m, k) ==
    [result |-> IF TierHolds(m, k) /\ ~ TierExpired(m, k) THEN "present" ELSE "absent",
     tier |-> m]

TierClear(m) ==
    [result |-> "ok",
     tier |-> [TierNew(m.capacity) EXCEPT
                  !.stats = [m.stats EXCEPT !.entries = 0, !.size_bytes = 0],
                  !.policy = LruReset(m.policy)]]
=============================================================================
