------------------------- MODULE TieredMemoryProofs -------------------------
(***************************************************************************)
(* Real tiers implement the tiers of MultiTierCache, so that what          *)
(* MultiTierProofs shows holds of them; their counters err upward, and     *)
(* they refuse an entry only where it cannot fit or room was lost, for any *)
(* number of tiers, keys and clients and any capacities.                   *)
(***************************************************************************)
EXTENDS TieredMemory, FiniteSetTheorems, WellFoundedInduction, TLAPS

\* What MultiTierProofs shows, about the tiers as MultiTierCache sees them.
Proofs == INSTANCE MultiTierProofs WITH
             MemoryTiers <- Tiers, tiers <- [i \in Tiers |-> mem[i].entries]

\* The keys a tier holds.
HeldIn(m) == {k \in Keys : TierHolds(m, k)}

\* A tier is a record of a map over all keys and of its counters.
IsTier(m) ==
    /\ m = [entries |-> m.entries, policy |-> m.policy, capacity |-> m.capacity,
            size |-> m.size, stats |-> m.stats]
    /\ m.stats = [hits |-> m.stats.hits, misses |-> m.stats.misses,
                  evictions |-> m.stats.evictions,
                  size_bytes |-> m.stats.size_bytes, entries |-> m.stats.entries]
    /\ m.entries = [k \in Keys |-> m.entries[k]]
    /\ m.size \in Nat /\ m.capacity \in Nat /\ m.stats.entries \in Nat

\* Its counters err upward.
Counted(m) ==
    /\ EntrySize * Cardinality(HeldIn(m)) <= m.size
    /\ m.size <= EntrySize * m.stats.entries
    /\ m.size <= m.capacity

Sound(m) == IsTier(m) /\ Counted(m)

\* By how much the number of entries counts more than the size does.
Slack(m) == EntrySize * m.stats.entries - m.size

\* The tier r is m without the entries of the keys gone.
LeftOf(r, m, gone) ==
    r.entries = [x \in Keys |-> IF x \in gone THEN None ELSE m.entries[x]]

\* What a set with result r writes, and the entries it leaves of old ones.
Written(r, value, life) ==
    IF r.result = "ok" THEN [value |-> value, life |-> life] ELSE None
AfterSet(entries, old, k, entry, gone) ==
    entries = [x \in Keys |->
                 IF x = k THEN entry ELSE IF x \in gone THEN None ELSE old[x]]

-----------------------------------------------------------------------------
(* Counting *)

LEMMA Multiples ==
    ASSUME NEW a \in Nat, NEW b \in Nat
    PROVE  /\ EntrySize * a \in Nat
           /\ b <= a => EntrySize * (a - b) = EntrySize * a - EntrySize * b
           /\ EntrySize * (a + 1) = EntrySize * a + EntrySize
           /\ a <= b => EntrySize * a <= EntrySize * b
           /\ EntrySize * a <= EntrySize * b => a <= b
PROOF BY TieredMemoryAssumption

LEMMA HeldFinite ==
    ASSUME NEW m, NEW gone \in SUBSET HeldIn(m)
    PROVE  /\ IsFiniteSet(HeldIn(m)) /\ Cardinality(HeldIn(m)) \in Nat
           /\ IsFiniteSet(gone) /\ Cardinality(gone) \in Nat
           /\ Cardinality(gone) <= Cardinality(HeldIn(m))
           /\ Cardinality(HeldIn(m) \ gone) = Cardinality(HeldIn(m)) - Cardinality(gone)
<1>1. IsFiniteSet(HeldIn(m))
  BY TieredMemoryAssumption, FS_Subset DEF HeldIn
<1>2. HeldIn(m) \cap gone = gone
  OBVIOUS
<1>3. IsFiniteSet(gone) /\ Cardinality(gone) <= Cardinality(HeldIn(m))
  BY <1>1, FS_Subset
<1>4. Cardinality(HeldIn(m) \ gone) = Cardinality(HeldIn(m)) - Cardinality(gone)
  BY <1>1, <1>2, FS_Difference
<1>5. QED BY <1>1, <1>3, <1>4, FS_CardinalityType

\* A tier that holds less is covered by the same size.
LEMMA FewerHeld ==
    ASSUME NEW m, Sound(m), NEW t, HeldIn(t) \in SUBSET HeldIn(m)
    PROVE  EntrySize * Cardinality(HeldIn(t)) <= m.size
<1>1. /\ Cardinality(HeldIn(t)) \in Nat /\ Cardinality(HeldIn(m)) \in Nat
      /\ Cardinality(HeldIn(t)) <= Cardinality(HeldIn(m))
  BY HeldFinite
<1>2. /\ EntrySize * Cardinality(HeldIn(t)) \in Nat
      /\ EntrySize * Cardinality(HeldIn(t)) <= EntrySize * Cardinality(HeldIn(m))
  BY <1>1, Multiples
<1>3. EntrySize * Cardinality(HeldIn(m)) <= m.size /\ m.size \in Nat
  BY DEF Sound, IsTier, Counted
<1>4. EntrySize * Cardinality(HeldIn(m)) \in Nat
  BY <1>1, Multiples
<1>5. QED BY <1>2, <1>3, <1>4

-----------------------------------------------------------------------------
(* The calls of a tier *)

\* Entries that are held can be taken out: the size covers them.
LEMMA TakeSound ==
    ASSUME NEW m, Sound(m), NEW gone \in SUBSET HeldIn(m)
    PROVE  LET t == TierTake(m, gone) IN
           /\ Sound(t) /\ LeftOf(t, m, gone)
           /\ t.stats = m.stats /\ t.policy = m.policy /\ t.capacity = m.capacity
           /\ t.size = m.size - EntrySize * Cardinality(gone)
           /\ HeldIn(t) = HeldIn(m) \ gone
<1> DEFINE t == TierTake(m, gone)
           n == Cardinality(gone)
<1>1. /\ n \in Nat /\ Cardinality(HeldIn(m)) \in Nat /\ n <= Cardinality(HeldIn(m))
      /\ Cardinality(HeldIn(m) \ gone) = Cardinality(HeldIn(m)) - n
  BY HeldFinite
<1>2. /\ EntrySize * n \in Nat /\ EntrySize * Cardinality(HeldIn(m)) \in Nat
      /\ EntrySize * n <= EntrySize * Cardinality(HeldIn(m))
      /\ EntrySize * Cardinality(HeldIn(m) \ gone)
            = EntrySize * Cardinality(HeldIn(m)) - EntrySize * n
  BY <1>1, Multiples
<1>3. SizeWithout(m, n) = m.size - EntrySize * n
  BY <1>2 DEF SizeWithout, Sound, IsTier, Counted
<1>4. m.size - EntrySize * n \in Nat
  BY <1>2 DEF Sound, IsTier, Counted
<1>5. t = [entries |-> [k \in Keys |-> IF k \in gone THEN None ELSE m.entries[k]],
           policy |-> m.policy, capacity |-> m.capacity,
           size |-> m.size - EntrySize * n, stats |-> m.stats]
  <2>1. m = [entries |-> m.entries, policy |-> m.policy, capacity |-> m.capacity,
             size |-> m.size, stats |-> m.stats]
    BY DEF Sound, IsTier
  <2>2. t = [m EXCEPT
               !.entries = [k \in Keys |-> IF k \in gone THEN None ELSE m.entries[k]],
               !.size = m.size - EntrySize * n]
    BY <1>3 DEF TierTake
  <2> HIDE DEF t, n
  <2>3. QED BY <2>1, <2>2
<1> HIDE DEF t, n
<1>6. /\ t.stats = m.stats /\ t.policy = m.policy /\ t.capacity = m.capacity
       /\ t.size = m.size - EntrySize * n
  BY <1>5
<1>7. HeldIn(t) = HeldIn(m) \ gone
  BY <1>5 DEF HeldIn, TierHolds
<1>8. IsTier(t) /\ LeftOf(t, m, gone)
  BY <1>4, <1>5 DEF Sound, IsTier, LeftOf
<1>9. Counted(t)
  <2>1. EntrySize * Cardinality(HeldIn(t)) <= t.size
    <3>1. EntrySize * Cardinality(HeldIn(t))
            = EntrySize * Cardinality(HeldIn(m)) - EntrySize * n
      BY <1>2, <1>7
    <3>2. EntrySize * Cardinality(HeldIn(m)) <= m.size /\ m.size \in Nat
      BY DEF Sound, IsTier, Counted
    <3>3. QED BY <1>2, <1>6, <3>1, <3>2
  <2>2. t.size <= m.size /\ t.stats = m.stats /\ t.capacity = m.capacity
    BY <1>2, <1>4, <1>5 DEF Sound, IsTier
  <2>3. EntrySize * m.stats.entries \in Nat
    BY Multiples DEF Sound, IsTier
  <2>4. t.size \in Nat /\ m.size \in Nat /\ m.capacity \in Nat
    BY <1>4, <1>5 DEF Sound, IsTier
  <2>5. QED BY <2>1, <2>2, <2>3, <2>4 DEF Sound, Counted
<1>10. QED BY <1>6, <1>7, <1>8, <1>9 DEF Sound, t, n

\* Counting them down afterwards does not pass zero.
LEMMA UncountSound ==
    ASSUME NEW m, Sound(m), NEW gone \in SUBSET HeldIn(m)
    PROVE  LET t == TierUncount(TierTake(m, gone), Cardinality(gone)) IN
           Sound(t) /\ LeftOf(t, m, gone) /\ Slack(t) = Slack(m)
<1> DEFINE s == TierTake(m, gone)
           n == Cardinality(gone)
           t == TierUncount(s, n)
<1>1. /\ Sound(s) /\ LeftOf(s, m, gone) /\ s.stats = m.stats /\ s.capacity = m.capacity
      /\ s.size = m.size - EntrySize * n
  BY TakeSound
<1>2. n \in Nat
  BY HeldFinite
<1> HIDE DEF s, n
<1>3. CASE n = 0
  <2>1. t = s /\ EntrySize * n = 0
    BY <1>3, TieredMemoryAssumption DEF TierUncount, s, n
  <2>2. s.size = m.size
    BY <1>1, <2>1 DEF Sound, IsTier
  <2>3. QED BY <1>1, <2>1, <2>2 DEF Slack, s, n
<1>4. CASE n # 0
  <2>1. /\ EntrySize * n \in Nat /\ EntrySize * m.stats.entries \in Nat
        /\ EntrySize * n <= EntrySize * m.stats.entries
    BY <1>1, <1>2, Multiples DEF Sound, IsTier, Counted
  <2>2. n <= m.stats.entries
    BY <1>2, <2>1, Multiples DEF Sound, IsTier
  <2>3. EntrySize * (m.stats.entries - n) = EntrySize * m.stats.entries - EntrySize * n
    BY <1>2, <2>2, Multiples DEF Sound, IsTier
  <2>4. t = [entries |-> s.entries, policy |-> s.policy, capacity |-> s.capacity,
             size |-> s.size,
             stats |-> [hits |-> m.stats.hits, misses |-> m.stats.misses,
                        evictions |-> m.stats.evictions, size_bytes |-> s.size,
                        entries |-> m.stats.entries - n]]
    BY <1>1, <1>4 DEF TierUncount, Sound, IsTier
  <2> HIDE DEF t
  <2>5. HeldIn(t) = HeldIn(s)
    BY <2>4 DEF HeldIn, TierHolds
  <2>6. IsTier(t)
    BY <1>1, <1>2, <2>2, <2>4 DEF Sound, IsTier
  <2>7. Counted(t)
    BY <1>1, <2>1, <2>3, <2>4, <2>5 DEF Sound, IsTier, Counted
  <2>8. Slack(t) = Slack(m)
    BY <1>1, <2>1, <2>3, <2>4 DEF Slack, Sound, IsTier
  <2>9. QED BY <1>1, <2>4, <2>6, <2>7, <2>8 DEF Sound, LeftOf, t, s, n
<1>5. QED BY <1>3, <1>4

\* Eviction takes out entries that are held, whichever they are.
LEMMA EvictSound ==
    ASSUME NEW m, Sound(m)
    PROVE  /\ Sound(EvictForSpace(m)) /\ Slack(EvictForSpace(m)) = Slack(m)
           /\ \E gone \in SUBSET Keys : LeftOf(EvictForSpace(m), m, gone)
<1>1. PICK n : EvictForSpace(m) =
                [TierUncount(TierTake(m, Victims(m, n)), Cardinality(Victims(m, n))) EXCEPT
                    !.stats.evictions = @ + Cardinality(Victims(m, n)),
                    !.policy = EvictedFrom(@, n)]
  BY DEF EvictForSpace
<1> DEFINE gone == Victims(m, n)
           t == TierUncount(TierTake(m, gone), Cardinality(gone))
           r == EvictForSpace(m)
<1>2. gone \in SUBSET HeldIn(m)
  BY DEF Victims, HeldIn
<1>3. Sound(t) /\ LeftOf(t, m, gone) /\ Slack(t) = Slack(m)
  BY <1>2, UncountSound
<1>4. r = [t EXCEPT !.stats.evictions = @ + Cardinality(gone),
                    !.policy = EvictedFrom(@, n)]
  BY <1>1
<1> HIDE DEF t, gone, r
<1>5. /\ r.entries = t.entries /\ r.capacity = t.capacity /\ r.size = t.size
      /\ r.stats.entries = t.stats.entries /\ IsTier(r)
  BY <1>3, <1>4 DEF Sound, IsTier
<1>6. HeldIn(r) = HeldIn(t)
  BY <1>5 DEF HeldIn, TierHolds
<1>7. Sound(r)
  BY <1>3, <1>5, <1>6 DEF Sound, Counted
<1>8. Slack(r) = Slack(m)
  BY <1>3, <1>5 DEF Slack
<1>9. gone \in SUBSET Keys
  BY <1>2 DEF HeldIn
<1>10. QED BY <1>3, <1>5, <1>7, <1>8, <1>9 DEF LeftOf, r

\* A set gives up entries and then writes its own, or has removed the old one.
LEMMA SetSound ==
    ASSUME NEW m, Sound(m), NEW k \in Keys, NEW value, NEW life
    PROVE  LET r == TierSet(m, k, value, life) IN
           /\ Sound(r.tier)
           /\ r.result \in {"ok", "full"}
           /\ \E gone \in SUBSET (Keys \ {k}) :
                 AfterSet(r.tier.entries, m.entries, k, Written(r, value, life), gone)
<1> DEFINE old == TierHolds(m, k)
           m0 == IF old THEN TierTake(m, {k}) ELSE m
           room == EvictForSpace(m0)
           r == TierSet(m, k, value, life)
<1>1. /\ Sound(m0) /\ m0.entries[k] = None
      /\ \A x \in Keys \ {k} : m0.entries[x] = m.entries[x]
      /\ old => Slack(m0) >= EntrySize
  <2>1. CASE old
    <3>1. {k} \in SUBSET HeldIn(m) /\ Cardinality({k}) = 1
      BY <2>1, FS_Singleton DEF HeldIn
    <3>2. /\ Sound(m0) /\ LeftOf(m0, m, {k}) /\ m0.stats = m.stats
          /\ m0.size = m.size - EntrySize * 1
      BY <2>1, <3>1, TakeSound
    <3>3. EntrySize * m.stats.entries \in Nat
      BY Multiples DEF Sound, IsTier
    <3>4. m0.size + EntrySize = m.size
      BY <3>2, TieredMemoryAssumption DEF Sound, IsTier
    <3>5. Slack(m0) >= EntrySize
      BY <3>2, <3>3, <3>4, TieredMemoryAssumption DEF Slack, Sound, IsTier, Counted
    <3>6. m0.entries[k] = None /\ \A x \in Keys \ {k} : m0.entries[x] = m.entries[x]
      BY <3>2 DEF LeftOf
    <3>7. QED BY <3>2, <3>5, <3>6
  <2>2. CASE ~ old
    BY <2>2 DEF TierHolds
  <2>3. QED BY <2>1, <2>2
<1> HIDE DEF m0
<1>2. Sound(room) /\ Slack(room) = Slack(m0) /\ \E gone \in SUBSET Keys : LeftOf(room, m0, gone)
  BY <1>1, EvictSound
<1>3. PICK given \in SUBSET Keys : LeftOf(room, m0, given)
  BY <1>2
<1>4. /\ room.entries[k] = None
      /\ \A x \in Keys \ {k} : room.entries[x] = IF x \in given THEN None ELSE m.entries[x]
  BY <1>1, <1>3 DEF LeftOf
<1>5. k \notin HeldIn(room) /\ IsFiniteSet(HeldIn(room)) /\ Cardinality(HeldIn(room)) \in Nat
  BY <1>4, HeldFinite DEF HeldIn, TierHolds
<1>6. r = IF ~ TierFits(room, room.size)
          THEN [result |-> "full", tier |-> room]
          ELSE [result |-> "ok",
                tier |-> [room EXCEPT
                             !.entries[k] = [value |-> value, life |-> life],
                             !.size = room.size + EntrySize,
                             !.stats.entries = IF old THEN @ ELSE @ + 1,
                             !.stats.size_bytes = room.size + EntrySize,
                             !.policy = LruOnInsert(@, k)]]
  BY DEF TierSet, m0
<1> HIDE DEF r, room
<1>7. CASE ~ TierFits(room, room.size)
  <2>1. r.result = "full" /\ r.tier = room
    BY <1>6, <1>7
  <2>2. room.entries = [x \in Keys |->
                          IF x = k THEN None
                          ELSE IF x \in given \ {k} THEN None ELSE m.entries[x]]
    BY <1>2, <1>4 DEF Sound, IsTier
  <2>3. QED BY <1>2, <2>1, <2>2 DEF r, AfterSet, Written
<1>8. CASE TierFits(room, room.size)
  <2>1. r.result = "ok"
    BY <1>6, <1>8
  <2>2. r.tier = [entries |-> [room.entries EXCEPT ![k] = [value |-> value, life |-> life]],
                  policy |-> LruOnInsert(room.policy, k), capacity |-> room.capacity,
                  size |-> room.size + EntrySize,
                  stats |-> [hits |-> room.stats.hits, misses |-> room.stats.misses,
                             evictions |-> room.stats.evictions,
                             size_bytes |-> room.size + EntrySize,
                             entries |-> IF old THEN room.stats.entries
                                                ELSE room.stats.entries + 1]]
    BY <1>2, <1>6, <1>8 DEF Sound, IsTier
  <2> DEFINE t == r.tier
  <2> HIDE DEF t
  <2>3. t.entries = [x \in Keys |->
                       IF x = k THEN [value |-> value, life |-> life]
                       ELSE IF x \in given \ {k} THEN None ELSE m.entries[x]]
    <3>1. room.entries = [x \in Keys |-> room.entries[x]]
      BY <1>2 DEF Sound, IsTier
    <3>2. t.entries = [room.entries EXCEPT ![k] = [value |-> value, life |-> life]]
      BY <2>2 DEF t
    <3>3. t.entries = [x \in Keys |->
                         IF x = k THEN [value |-> value, life |-> life] ELSE room.entries[x]]
      BY <3>1, <3>2
    <3>4. QED BY <1>4, <3>3
  <2>4. IsTier(t)
    BY <1>2, <2>2, <2>3, TieredMemoryAssumption DEF Sound, IsTier, t
  <2>5. EntrySize * Cardinality(HeldIn(t)) <= t.size
    <3>1. HeldIn(t) \in SUBSET (HeldIn(room) \cup {k})
      BY <1>4, <2>3 DEF HeldIn, TierHolds
    <3>2. /\ IsFiniteSet(HeldIn(room) \cup {k})
          /\ Cardinality(HeldIn(room) \cup {k}) = Cardinality(HeldIn(room)) + 1
      BY <1>5, FS_AddElement
    <3>3. /\ Cardinality(HeldIn(t)) \in Nat
          /\ Cardinality(HeldIn(t)) <= Cardinality(HeldIn(room)) + 1
      BY <3>1, <3>2, FS_Subset, FS_CardinalityType
    <3>4. EntrySize * Cardinality(HeldIn(t)) <= EntrySize * (Cardinality(HeldIn(room)) + 1)
      BY <1>5, <3>3, Multiples
    <3>5. EntrySize * (Cardinality(HeldIn(room)) + 1)
            = EntrySize * Cardinality(HeldIn(room)) + EntrySize
      BY <1>5, Multiples
    <3>6. /\ EntrySize * Cardinality(HeldIn(room)) \in Nat
          /\ EntrySize * Cardinality(HeldIn(t)) \in Nat
      BY <1>5, <3>3, Multiples
    <3>7. EntrySize * Cardinality(HeldIn(room)) <= room.size /\ room.size \in Nat
      BY <1>2 DEF Sound, IsTier, Counted
    <3>8. t.size = room.size + EntrySize
      BY <2>2 DEF t
    <3>9. QED BY <3>4, <3>5, <3>6, <3>7, <3>8, TieredMemoryAssumption
  <2>6. t.size <= EntrySize * t.stats.entries
    <3>1. /\ t.size = room.size + EntrySize
          /\ t.stats.entries = IF old THEN room.stats.entries ELSE room.stats.entries + 1
      BY <2>2 DEF t
    <3>2. /\ room.size \in Nat /\ room.stats.entries \in Nat
          /\ EntrySize * room.stats.entries \in Nat
          /\ EntrySize * (room.stats.entries + 1) = EntrySize * room.stats.entries + EntrySize
      BY <1>2, Multiples DEF Sound, IsTier
    <3>3. room.size <= EntrySize * room.stats.entries
      BY <1>2 DEF Sound, Counted
    <3>4. old => EntrySize * room.stats.entries - room.size >= EntrySize
      BY <1>1, <1>2 DEF Slack
    <3> HIDE DEF old
    <3>5. QED BY <3>1, <3>2, <3>3, <3>4, TieredMemoryAssumption
  <2>7. t.size <= t.capacity
    BY <1>8, <2>2 DEF TierFits, t
  <2>8. Sound(r.tier)
    BY <2>4, <2>5, <2>6, <2>7 DEF Sound, Counted, t
  <2>9. /\ given \ {k} \in SUBSET (Keys \ {k})
        /\ AfterSet(r.tier.entries, m.entries, k, Written(r, value, life), given \ {k})
    BY <2>1, <2>3 DEF t, AfterSet, Written
  <2>10. QED BY <2>1, <2>8, <2>9 DEF r
<1>9. QED BY <1>7, <1>8

LEMMA GetSound ==
    ASSUME NEW m, Sound(m), NEW k \in Keys
    PROVE  LET r == TierGet(m, k) IN
           /\ Sound(r.tier)
           /\ TierHolds(m, k) /\ m.entries[k].life # "expired" =>
                 r.result = m.entries[k].value /\ r.tier.entries = m.entries
           /\ ~ (TierHolds(m, k) /\ m.entries[k].life # "expired") =>
                 r.result = None /\ r.tier.entries = [m.entries EXCEPT ![k] = None]
<1> DEFINE r == TierGet(m, k)
           fresh == TierHolds(m, k) /\ m.entries[k].life # "expired"
<1>1. CASE fresh
  <2>1. /\ r.result = m.entries[k].value
        /\ r.tier = [m EXCEPT !.policy = LruOnAccess(@, k), !.stats.hits = @ + 1]
    BY <1>1 DEF TierGet, TierExpired
  <2> DEFINE t == r.tier
  <2> HIDE DEF r, t
  <2>2. /\ t.entries = m.entries /\ t.size = m.size /\ t.capacity = m.capacity
        /\ t.stats.entries = m.stats.entries /\ IsTier(t)
    BY <2>1 DEF Sound, IsTier, t
  <2>3. HeldIn(t) = HeldIn(m)
    BY <2>2 DEF HeldIn, TierHolds
  <2>4. Counted(t)
    BY <2>2, <2>3 DEF Sound, Counted
  <2>5. QED BY <1>1, <2>1, <2>2, <2>4 DEF Sound, r, t
<1>2. CASE ~ fresh
  <2>1. /\ r.result = None
        /\ r.tier = [m EXCEPT !.entries[k] = None, !.stats.misses = @ + 1]
    BY <1>2 DEF TierGet, TierExpired
  <2> DEFINE t == r.tier
  <2> HIDE DEF r, t
  <2>2. /\ t.entries = [m.entries EXCEPT ![k] = None] /\ t.size = m.size
        /\ t.capacity = m.capacity /\ t.stats.entries = m.stats.entries /\ IsTier(t)
    BY <2>1 DEF Sound, IsTier, t
  <2>3. HeldIn(t) \in SUBSET HeldIn(m)
    BY <2>2 DEF HeldIn, TierHolds, Sound, IsTier
  <2>4. Counted(t)
    BY <2>2, <2>3, FewerHeld DEF Sound, Counted
  <2>5. QED BY <1>2, <2>1, <2>2, <2>4 DEF Sound, r, t
<1>3. QED BY <1>1, <1>2

LEMMA DeleteSound ==
    ASSUME NEW m, Sound(m), NEW k \in Keys
    PROVE  LET r == TierDelete(m, k) IN
           Sound(r.tier) /\ r.tier.entries = [m.entries EXCEPT ![k] = None]
<1>1. m.entries = [x \in Keys |-> m.entries[x]]
  BY DEF Sound, IsTier
<1>2. CASE TierHolds(m, k)
  <2>1. {k} \in SUBSET HeldIn(m) /\ Cardinality({k}) = 1
    BY <1>2, FS_Singleton DEF HeldIn
  <2>2. TierDelete(m, k).tier = TierUncount(TierTake(m, {k}), Cardinality({k}))
    BY <1>2, <2>1 DEF TierDelete
  <2>3. Sound(TierDelete(m, k).tier) /\ LeftOf(TierDelete(m, k).tier, m, {k})
    BY <2>1, <2>2, UncountSound
  <2>4. QED BY <1>1, <2>3 DEF LeftOf
<1>3. CASE ~ TierHolds(m, k)
  <2>1. TierDelete(m, k).tier = m
    BY <1>3 DEF TierDelete
  <2>2. QED BY <1>1, <1>3, <2>1 DEF TierHolds
<1>4. QED BY <1>2, <1>3

\* An expired entry is still held.
LEMMA ExpireSound ==
    ASSUME NEW m, Sound(m), NEW k \in Keys, TierHolds(m, k)
    PROVE  LET t == [m EXCEPT !.entries[k].life = "expired"] IN
           /\ Sound(t)
           /\ t.entries = [m.entries EXCEPT ![k] = [@ EXCEPT !.life = "expired"]]
<1> DEFINE t == [m EXCEPT !.entries[k].life = "expired"]
<1>1. t = [m EXCEPT !.entries[k].life = "expired"]
  OBVIOUS
<1> HIDE DEF t
<1>2. /\ t.entries = [m.entries EXCEPT ![k].life = "expired"] /\ t.size = m.size
      /\ t.capacity = m.capacity /\ t.stats = m.stats /\ IsTier(t)
  BY <1>1 DEF Sound, IsTier
<1>3. HeldIn(t) \in SUBSET HeldIn(m)
  BY <1>2 DEF HeldIn, TierHolds, Sound, IsTier
<1>4. Counted(t)
  BY <1>2, <1>3, FewerHeld DEF Sound, Counted
<1>5. QED BY <1>2, <1>4 DEF Sound, t

LEMMA NewSound ==
    ASSUME NEW capacity \in Nat
    PROVE  Sound(TierNew(capacity))
<1>1. IsTier(TierNew(capacity))
  <2> DEFINE m == TierNew(capacity)
  <2>1. /\ m.entries = [k \in Keys |-> None] /\ m.policy = LruNew
        /\ m.capacity = capacity /\ m.size = 0
        /\ m.stats = [hits |-> 0, misses |-> 0, evictions |-> 0,
                      size_bytes |-> 0, entries |-> 0]
        /\ m = [entries |-> m.entries, policy |-> m.policy, capacity |-> m.capacity,
                size |-> m.size, stats |-> m.stats]
    BY Zenon DEF TierNew
  <2> HIDE DEF m
  <2>2. m.entries = [k \in Keys |-> m.entries[k]]
    BY <2>1
  <2>3. /\ m.stats = [hits |-> m.stats.hits, misses |-> m.stats.misses,
                      evictions |-> m.stats.evictions,
                      size_bytes |-> m.stats.size_bytes, entries |-> m.stats.entries]
        /\ m.stats.entries = 0
    BY <2>1
  <2>4. QED BY <2>1, <2>2, <2>3 DEF IsTier, m
<1>2. HeldIn(TierNew(capacity)) = {}
  BY DEF HeldIn, TierHolds, TierNew
<1>3. Counted(TierNew(capacity))
  <2>1. /\ TierNew(capacity).size = 0 /\ TierNew(capacity).capacity = capacity
        /\ TierNew(capacity).stats.entries = 0
    BY Zenon DEF TierNew
  <2>2. QED BY <1>2, <2>1, FS_EmptySet, TieredMemoryAssumption DEF Counted
<1>4. QED BY <1>1, <1>3 DEF Sound

-----------------------------------------------------------------------------
(* MultiTierProofs is about the same specification *)

LEMMA SameTypes ==
    (Proofs!TypeOK <=> Cache!TypeOK) /\ (Proofs!TypeOK' <=> Cache!TypeOK')
PROOF BY DEF Cache!TypeOK, Proofs!TypeOK, Cache!Tiers, Proofs!Tiers,
   Cache!Locals, Proofs!Locals, Cache!Stages, Proofs!Stages,
   Cache!Answers, Proofs!Answers, Cache!Entries, Proofs!Entries,
   Cache!Requests, Proofs!Requests, Cache!NoCall, Proofs!NoCall,
   Cache!NoLocal, Proofs!NoLocal

LEMMA SameInit == Proofs!Init <=> Cache!Init
PROOF BY DEF Cache!Init, Proofs!Init, Cache!Tiers, Proofs!Tiers, Cache!NoCall, Proofs!NoCall,
   Cache!NoLocal, Proofs!NoLocal

LEMMA SameVars == (UNCHANGED Proofs!vars) <=> (UNCHANGED Cache!vars)
PROOF BY DEF Cache!vars, Proofs!vars, Cache!history, Proofs!history

LEMMA SameBegin == ASSUME NEW c \in Clients PROVE Proofs!Begin(c) <=> Cache!Begin(c)
PROOF BY DEF Cache!Begin, Proofs!Begin, Cache!Requests, Proofs!Requests,
   Cache!RaceHistory, Proofs!RaceHistory, Cache!Writing, Proofs!Writing, Cache!Others, Proofs!Others

LEMMA SameVisit == ASSUME NEW c \in Clients PROVE Proofs!VisitTier(c) <=> Cache!VisitTier(c)
<1> USE DEF Cache!Put, Proofs!Put, Cache!PutEvicting, Proofs!PutEvicting,
        Cache!FailedPut, Proofs!FailedPut, Cache!Holds, Proofs!Holds, Cache!Fresh, Proofs!Fresh,
        Cache!Return, Proofs!Return, Cache!NextTier, Proofs!NextTier,
        Cache!WriteNext, Proofs!WriteNext, Cache!Outcome, Proofs!Outcome,
        Cache!Failed, Proofs!Failed, Cache!NoCall, Proofs!NoCall,
        Cache!NoLocal, Proofs!NoLocal, Cache!history, Proofs!history
<1>1. Proofs!SetTier(c) <=> Cache!SetTier(c)
  BY DEF Cache!SetTier, Proofs!SetTier
<1>2. Proofs!DeleteTier(c) <=> Cache!DeleteTier(c)
  BY DEF Cache!DeleteTier, Proofs!DeleteTier
<1>3. Proofs!GetHit(c) <=> Cache!GetHit(c)
  BY DEF Cache!GetHit, Proofs!GetHit
<1>4. Proofs!GetMiss(c) <=> Cache!GetMiss(c)
  BY DEF Cache!GetMiss, Proofs!GetMiss
<1>5. Proofs!GetError(c) <=> Cache!GetError(c)
  BY DEF Cache!GetError, Proofs!GetError
<1>6. Proofs!Promote(c) <=> Cache!Promote(c)
  BY DEF Cache!Promote, Proofs!Promote
<1>7. Proofs!ExistsHere(c) <=> Cache!ExistsHere(c)
  BY DEF Cache!ExistsHere, Proofs!ExistsHere
<1>8. Proofs!ExistsNotHere(c) <=> Cache!ExistsNotHere(c)
  BY DEF Cache!ExistsNotHere, Proofs!ExistsNotHere
<1>9. QED
  BY <1>1, <1>2, <1>3, <1>4, <1>5, <1>6, <1>7, <1>8 DEF Cache!VisitTier, Proofs!VisitTier

LEMMA SameNext == [Proofs!Next]_(Proofs!vars) <=> [Cache!Next]_(Cache!vars)
<1>1. ASSUME NEW i \in Tiers, NEW k \in Keys
      PROVE  /\ Proofs!Expire(i, k) <=> Cache!Expire(i, k)
             /\ Proofs!Lose(i, k) <=> Cache!Lose(i, k)
  BY DEF Cache!Expire, Proofs!Expire, Cache!Lose, Proofs!Lose, Cache!history, Proofs!history,
     Cache!Put, Proofs!Put, Cache!Holds, Proofs!Holds
<1>2. Proofs!Finished <=> Cache!Finished
  BY SameVars DEF Cache!Finished, Proofs!Finished
<1>3. Proofs!Next <=> Cache!Next
  BY <1>1, <1>2, SameBegin, SameVisit DEF Cache!Next, Proofs!Next, Cache!Tiers, Proofs!Tiers, Tiers
<1>4. QED BY <1>3, SameVars

LEMMA CacheTypes ==
    /\ Cache!Init => Cache!TypeOK
    /\ Cache!TypeOK /\ [Cache!Next]_(Cache!vars) => Cache!TypeOK'
<1>1. Proofs!MultiTierAssumption
  BY TieredMemoryAssumption
     DEF Cache!MultiTierAssumption, Proofs!MultiTierAssumption, Cache!Tiers, Proofs!Tiers, Tiers
<1>2. Proofs!Init => Proofs!TypeOK
  BY <1>1, Proofs!TypeInit
<1>3. Proofs!TypeOK /\ [Proofs!Next]_(Proofs!vars) => Proofs!TypeOK'
  BY <1>1, Proofs!TypeNext
<1>4. QED BY <1>2, <1>3, SameInit, SameNext, SameTypes

-----------------------------------------------------------------------------
(* Every step is one that MultiTierCache allows *)

\* The inductive invariant: the clients' types and tiers that are sound.
AllSound ==
    /\ mem = [i \in Tiers |-> mem[i]]
    /\ \A i \in Tiers : Sound(mem[i])

Inv == AllSound /\ Cache!TypeOK

\* The tiers as MultiTierCache sees them.
Seen == [i \in Tiers |-> mem[i].entries]

\* A client in a call is at a tier, for a key.
LEMMA AtTier ==
    ASSUME Inv, NEW c \in Clients, pc[c] # "idle"
    PROVE  /\ local[c].at \in Tiers /\ call[c].key \in Keys
           /\ Here(c) = mem[local[c].at] /\ Key(c) = call[c].key
           /\ Sound(Here(c)) /\ Here(c).entries = Seen[local[c].at]
<1>1. local[c].at \in Tiers /\ call[c].key \in Keys
  BY DEF Inv, Cache!TypeOK, Cache!Locals, Cache!Tiers, Cache!Requests, Tiers
<1>2. QED BY <1>1 DEF Inv, AllSound, Here, Key, Seen

LEMMA VisitSeen ==
    ASSUME Inv, NEW i \in Tiers, NEW t, Sound(t), mem' = [mem EXCEPT ![i] = t]
    PROVE  AllSound' /\ Seen' = [Seen EXCEPT ![i] = t.entries]
<1>1. mem = [j \in Tiers |-> mem[j]]
  BY DEF Inv, AllSound
<1>2. mem' = [j \in Tiers |-> IF j = i THEN t ELSE mem[j]]
  BY <1>1
<1>3. Seen' = [j \in Tiers |-> IF j = i THEN t.entries ELSE mem[j].entries]
  BY <1>2 DEF Seen
<1>4. Seen' = [Seen EXCEPT ![i] = t.entries]
  BY <1>3 DEF Seen
<1>5. \A j \in Tiers : mem'[j] = IF j = i THEN t ELSE mem[j]
  BY <1>2
<1>6. \A j \in Tiers : Sound(mem[j])
  BY DEF Inv, AllSound
<1>7. \A j \in Tiers : Sound(mem'[j])
  BY <1>5, <1>6
<1>8. mem' = [j \in Tiers |-> mem'[j]]
  BY <1>2
<1>9. QED BY <1>4, <1>7, <1>8 DEF AllSound, Sound, IsTier, Counted, HeldIn, TierHolds

LEMMA SetTierStep ==
    ASSUME Inv, NEW c \in Clients, SetTier(c)
    PROVE  AllSound' /\ Cache!SetTier(c)
<1>1. PICK i, k, v, r : i = local[c].at /\ k = call[c].key /\ v = call[c].value
                        /\ r = TierSet(mem[i], k, v, "live")
  OBVIOUS
<1>2. pc[c] = "set" /\ UNCHANGED <<calls, latest, raced>> /\ mem' = [mem EXCEPT ![i] = r.tier]
  BY <1>1 DEF SetTier, Visit, Here, Key
<1>3. Cache!WriteNext(c, IF r.result = "ok" THEN local[c] ELSE Cache!Failed(local[c]))
  BY <1>1 DEF SetTier, Here, Key
<1>4. i \in Tiers /\ k \in Keys
  BY <1>1, <1>2, AtTier
<1>5. Sound(mem[i]) /\ mem[i].entries = Seen[i]
  BY <1>4 DEF Inv, AllSound, Seen
<1>6. /\ Sound(r.tier) /\ r.result \in {"ok", "full"}
      /\ \E gone \in SUBSET (Keys \ {k}) :
            AfterSet(r.tier.entries, mem[i].entries, k, Written(r, v, "live"), gone)
  BY <1>1, <1>4, <1>5, SetSound
<1>7. AllSound' /\ Seen' = [Seen EXCEPT ![i] = r.tier.entries]
  BY <1>2, <1>4, <1>6, VisitSeen
<1>8. PICK gone \in SUBSET (Keys \ {k}) :
         AfterSet(r.tier.entries, Seen[i], k, Written(r, v, "live"), gone)
  BY <1>5, <1>6
<1>9. CASE r.result = "ok"
  <2>1. Cache!PutEvicting(local[c].at, call[c].key, [value |-> call[c].value, life |-> "live"])
    <3>1. r.tier.entries = [x \in Keys |->
             IF x = call[c].key THEN [value |-> call[c].value, life |-> "live"]
             ELSE IF x \in gone THEN None ELSE Seen[local[c].at][x]]
      BY <1>1, <1>8, <1>9 DEF AfterSet, Written
    <3>2. Seen' = [Seen EXCEPT ![local[c].at] = [x \in Keys |->
             IF x = call[c].key THEN [value |-> call[c].value, life |-> "live"]
             ELSE IF x \in gone THEN None ELSE Seen[local[c].at][x]]]
      BY <1>1, <1>7, <3>1
    <3>3. gone \in SUBSET (Keys \ {call[c].key})
      BY <1>1
    <3>4. QED BY <3>2, <3>3 DEF Seen, Cache!PutEvicting
  <2>2. Cache!WriteNext(c, local[c])
    BY <1>3, <1>9
  <2>3. QED BY <1>2, <1>7, <2>1, <2>2 DEF Cache!SetTier
<1>10. CASE r.result # "ok"
  <2>1. Cache!FailedPut(local[c].at, call[c].key)
    <3>1. r.tier.entries = [x \in Keys |->
             IF x = call[c].key THEN None
             ELSE IF x \in gone THEN None ELSE Seen[local[c].at][x]]
      BY <1>1, <1>8, <1>10 DEF AfterSet, Written
    <3>2. Seen' = [Seen EXCEPT ![local[c].at] = [x \in Keys |->
             IF x = call[c].key THEN None
             ELSE IF x \in gone THEN None ELSE Seen[local[c].at][x]]]
      BY <1>1, <1>7, <3>1
    <3>3. gone \in SUBSET (Keys \ {call[c].key}) /\ local[c].at \in Tiers
      BY <1>1, <1>4
    <3>4. QED BY <3>2, <3>3 DEF Seen, Cache!FailedPut, Cache!PutEvicting
  <2>2. Cache!WriteNext(c, Cache!Failed(local[c]))
    BY <1>3, <1>10
  <2>3. QED BY <1>2, <1>7, <2>1, <2>2 DEF Cache!SetTier
<1>11. QED BY <1>9, <1>10

LEMMA PromoteStep ==
    ASSUME Inv, NEW c \in Clients, Promote(c)
    PROVE  AllSound' /\ Cache!Promote(c)
<1>1. PICK i, k, v, r : i = local[c].at /\ k = call[c].key /\ v = local[c].found
                        /\ r = TierSet(mem[i], k, v, "forever")
  OBVIOUS
<1>2. pc[c] = "promote" /\ UNCHANGED <<calls, latest, raced, torn>> /\ mem' = [mem EXCEPT ![i] = r.tier]
  BY <1>1 DEF Promote, Visit, Here, Key
<1>3. Cache!NextTier(c, local[c], local[c].upto, local[c].found)
  BY <1>1 DEF Promote, Here, Key
<1>4. i \in Tiers /\ k \in Keys
  BY <1>1, <1>2, AtTier
<1>5. Sound(mem[i]) /\ mem[i].entries = Seen[i]
  BY <1>4 DEF Inv, AllSound, Seen
<1>6. /\ Sound(r.tier) /\ r.result \in {"ok", "full"}
      /\ \E gone \in SUBSET (Keys \ {k}) :
            AfterSet(r.tier.entries, mem[i].entries, k, Written(r, v, "forever"), gone)
  BY <1>1, <1>4, <1>5, SetSound
<1>7. AllSound' /\ Seen' = [Seen EXCEPT ![i] = r.tier.entries]
  BY <1>2, <1>4, <1>6, VisitSeen
<1>8. PICK gone \in SUBSET (Keys \ {k}) :
         AfterSet(r.tier.entries, Seen[i], k, Written(r, v, "forever"), gone)
  BY <1>5, <1>6
<1>9. CASE r.result = "ok"
  <2>1. Cache!PutEvicting(local[c].at, call[c].key, [value |-> local[c].found, life |-> "forever"])
    <3>1. r.tier.entries = [x \in Keys |->
             IF x = call[c].key THEN [value |-> local[c].found, life |-> "forever"]
             ELSE IF x \in gone THEN None ELSE Seen[local[c].at][x]]
      BY <1>1, <1>8, <1>9 DEF AfterSet, Written
    <3>2. Seen' = [Seen EXCEPT ![local[c].at] = [x \in Keys |->
             IF x = call[c].key THEN [value |-> local[c].found, life |-> "forever"]
             ELSE IF x \in gone THEN None ELSE Seen[local[c].at][x]]]
      BY <1>1, <1>7, <3>1
    <3>3. gone \in SUBSET (Keys \ {call[c].key})
      BY <1>1
    <3>4. QED BY <3>2, <3>3 DEF Seen, Cache!PutEvicting
  <2>2. QED BY <1>2, <1>3, <1>7, <2>1 DEF Cache!Promote, Cache!history
<1>10. CASE r.result # "ok"
  <2>1. Cache!FailedPut(local[c].at, call[c].key)
    <3>1. r.tier.entries = [x \in Keys |->
             IF x = call[c].key THEN None
             ELSE IF x \in gone THEN None ELSE Seen[local[c].at][x]]
      BY <1>1, <1>8, <1>10 DEF AfterSet, Written
    <3>2. Seen' = [Seen EXCEPT ![local[c].at] = [x \in Keys |->
             IF x = call[c].key THEN None
             ELSE IF x \in gone THEN None ELSE Seen[local[c].at][x]]]
      BY <1>1, <1>7, <3>1
    <3>3. gone \in SUBSET (Keys \ {call[c].key}) /\ local[c].at \in Tiers
      BY <1>1, <1>4
    <3>4. QED BY <3>2, <3>3 DEF Seen, Cache!FailedPut, Cache!PutEvicting
  <2>2. QED BY <1>2, <1>3, <1>7, <2>1 DEF Cache!Promote, Cache!history
<1>11. QED BY <1>9, <1>10

LEMMA DeleteStep ==
    ASSUME Inv, NEW c \in Clients, DeleteTier(c)
    PROVE  AllSound' /\ Cache!DeleteTier(c)
<1> DEFINE i == local[c].at
           k == call[c].key
           r == TierDelete(mem[i], k)
<1>1. pc[c] = "delete" /\ Cache!WriteNext(c, local[c]) /\ UNCHANGED <<calls, latest, raced>>
  BY DEF DeleteTier
<1>2. i \in Tiers /\ k \in Keys /\ Here(c) = mem[i] /\ Sound(mem[i]) /\ mem[i].entries = Seen[i]
  BY <1>1, AtTier DEF Here
<1>3. mem' = [mem EXCEPT ![i] = r.tier]
  BY <1>2 DEF DeleteTier, Visit, Here, Key
<1>4. Sound(r.tier) /\ r.tier.entries = [mem[i].entries EXCEPT ![k] = None]
  BY <1>2, DeleteSound
<1> HIDE DEF i, k, r
<1>5. AllSound' /\ Seen' = [Seen EXCEPT ![i] = r.tier.entries]
  BY <1>2, <1>3, <1>4, VisitSeen
<1>6. Seen' = [Seen EXCEPT ![i][k] = None]
  BY <1>2, <1>4, <1>5
<1>7. Cache!Put(i, k, None)
  BY <1>6 DEF Cache!Put, Seen
<1>8. QED BY <1>1, <1>5, <1>7 DEF Cache!DeleteTier, i, k

\* A value is told apart from None: what a get returns says if it was a hit.
LEMMA GetStep ==
    ASSUME Inv, NEW c \in Clients, GetTier(c)
    PROVE  AllSound' /\ (Cache!GetHit(c) \/ Cache!GetMiss(c))
<1>1. PICK i, k, r : i = local[c].at /\ k = call[c].key /\ r = TierGet(mem[i], k)
  OBVIOUS
<1>2. /\ pc[c] = "get" /\ UNCHANGED <<calls, latest, raced, torn>>
      /\ mem' = [mem EXCEPT ![i] = r.tier]
  BY <1>1 DEF GetTier, Visit, Here, Key
<1>3. \/ r.result = None /\ Cache!NextTier(c, local[c], NumTiers, None)
      \/ r.result # None /\ local[c].at = 1 /\ Cache!Return(c, r.result)
      \/ /\ r.result # None /\ local[c].at > 1
         /\ pc' = [pc EXCEPT ![c] = "promote"]
         /\ local' = [local EXCEPT ![c] =
                         [@ EXCEPT !.at = 1, !.upto = local[c].at - 1, !.found = r.result]]
         /\ UNCHANGED <<call, ret>>
  BY <1>1 DEF GetTier, Here, Key
<1>4. i \in Tiers /\ k \in Keys
  BY <1>1, <1>2, AtTier
<1>5. Sound(mem[i]) /\ mem[i].entries = Seen[i] /\ Seen = [j \in Tiers |-> mem[j].entries]
  BY <1>4 DEF Inv, AllSound, Seen
<1> DEFINE fresh == Seen[i][k] # None /\ Seen[i][k].life # "expired"
<1>6. /\ Sound(r.tier)
      /\ fresh => r.result = Seen[i][k].value /\ r.tier.entries = mem[i].entries
      /\ ~ fresh => r.result = None /\ r.tier.entries = [mem[i].entries EXCEPT ![k] = None]
  BY <1>1, <1>4, <1>5, GetSound DEF TierHolds
<1>7. AllSound' /\ Seen' = [Seen EXCEPT ![i] = r.tier.entries]
  BY <1>2, <1>4, <1>6, VisitSeen
<1>8. fresh => r.result # None
  <2>1. Seen[i][k] \in Cache!Entries \cup {None}
    BY <1>4 DEF Inv, Cache!TypeOK, Cache!Tiers, Tiers, Seen
  <2>2. fresh => Seen[i][k].value \in Values
    BY <2>1 DEF Cache!Entries
  <2>3. None \notin Values
    BY TieredMemoryAssumption DEF Cache!MultiTierAssumption
  <2>4. QED BY <1>6, <2>2, <2>3
<1>9. Cache!Fresh(i, k) <=> fresh
  BY DEF Cache!Fresh, Cache!Holds, Seen
<1> HIDE DEF fresh
<1>10. CASE fresh
  <2>1. Seen' = Seen
    BY <1>4, <1>5, <1>6, <1>7, <1>10
  <2>2. r.result = [j \in Tiers |-> mem[j].entries][local[c].at][call[c].key].value
    BY <1>1, <1>6, <1>10 DEF Seen
  <2>3. UNCHANGED [j \in Tiers |-> mem[j].entries]
    BY <2>1 DEF Seen
  <2>4. Cache!Fresh(local[c].at, call[c].key)
    BY <1>1, <1>9, <1>10 DEF Cache!Fresh, Cache!Holds
  <2>5. CASE local[c].at = 1
    <3>1. Cache!Return(c, r.result)
      BY <1>3, <1>8, <1>10, <2>5
    <3>2. Cache!Return(c, [j \in Tiers |-> mem[j].entries][local[c].at][call[c].key].value)
      BY <3>1, <2>2 DEF Cache!Return
    <3>3. QED BY <1>2, <1>7, <2>3, <2>4, <2>5, <3>2 DEF Cache!GetHit, Cache!history
  <2>6. CASE local[c].at # 1
    <3>1. /\ pc' = [pc EXCEPT ![c] = "promote"] /\ UNCHANGED <<call, ret>>
          /\ local' = [local EXCEPT ![c] =
                [@ EXCEPT !.at = 1, !.upto = local[c].at - 1,
                  !.found = [j \in Tiers |-> mem[j].entries][local[c].at][call[c].key].value]]
      BY <1>3, <1>8, <1>10, <2>2, <2>6
    <3>2. QED BY <1>2, <1>7, <2>3, <2>4, <2>6, <3>1 DEF Cache!GetHit, Cache!history
  <2>7. QED BY <2>5, <2>6
<1>11. CASE ~ fresh
  <2>1. Seen' = [Seen EXCEPT ![i][k] = None]
    BY <1>5, <1>6, <1>7, <1>11
  <2>2. Cache!Put(local[c].at, call[c].key, None)
    BY <1>1, <2>1 DEF Seen, Cache!Put
  <2>3. ~ Cache!Fresh(local[c].at, call[c].key)
    BY <1>1, <1>9, <1>11 DEF Cache!Fresh, Cache!Holds
  <2>4. Cache!NextTier(c, local[c], NumTiers, None)
    BY <1>3, <1>6, <1>11
  <2>5. QED BY <1>2, <1>7, <2>2, <2>3, <2>4 DEF Cache!GetMiss, Cache!history
<1>12. QED BY <1>10, <1>11

LEMMA ExistsStep ==
    ASSUME Inv, NEW c \in Clients, ExistsTier(c)
    PROVE  AllSound' /\ (Cache!ExistsHere(c) \/ Cache!ExistsNotHere(c))
<1> DEFINE i == local[c].at
           k == call[c].key
           m == Seen[i]
<1>1. /\ pc[c] = "exists" /\ UNCHANGED <<mem, calls, latest, raced, torn>>
      /\ IF TierExists(Here(c), Key(c)).result = "present"
         THEN Cache!Return(c, "present")
         ELSE Cache!NextTier(c, local[c], NumTiers, "absent")
  BY DEF ExistsTier
<1>2. i \in Tiers /\ k \in Keys /\ Key(c) = k /\ Here(c).entries = m
  BY <1>1, AtTier
<1>3. TierExists(Here(c), Key(c)).result = "present" <=> Cache!Fresh(i, k)
  BY <1>2 DEF TierExists, TierHolds, TierExpired, Cache!Fresh, Cache!Holds, Seen
<1>4. UNCHANGED [j \in Tiers |-> mem[j].entries] /\ AllSound'
  BY <1>1 DEF Inv, AllSound, Sound, IsTier, Counted, HeldIn, TierHolds
<1>5. QED BY <1>1, <1>3, <1>4 DEF Cache!ExistsHere, Cache!ExistsNotHere, Cache!history

LEMMA ExpireStep ==
    ASSUME Inv, NEW i \in Tiers, NEW k \in Keys, Expire(i, k)
    PROVE  AllSound' /\ Cache!Expire(i, k)
<1> DEFINE t == [mem[i] EXCEPT !.entries[k].life = "expired"]
<1>1. Sound(mem[i]) /\ mem[i].entries = Seen[i] /\ mem = [j \in Tiers |-> mem[j]]
  BY DEF Inv, AllSound, Seen
<1>2. TierHolds(mem[i], k) /\ mem[i].entries[k].life = "live" /\ UNCHANGED clients
  BY DEF Expire
<1>3. mem' = [mem EXCEPT ![i] = t]
  BY <1>1 DEF Expire
<1>4. Sound(t) /\ t.entries = [mem[i].entries EXCEPT ![k] = [@ EXCEPT !.life = "expired"]]
  BY <1>1, <1>2, ExpireSound
<1> HIDE DEF t
<1>5. AllSound' /\ Seen' = [Seen EXCEPT ![i] = t.entries]
  BY <1>3, <1>4, VisitSeen
<1>6. Seen' = [Seen EXCEPT ![i][k] = [Seen[i][k] EXCEPT !.life = "expired"]]
  BY <1>1, <1>4, <1>5
<1>7. Cache!Put(i, k, [[j \in Tiers |-> mem[j].entries][i][k] EXCEPT !.life = "expired"])
  BY <1>6 DEF Seen, Cache!Put
<1>8. Cache!Holds(i, k) /\ [j \in Tiers |-> mem[j].entries][i][k].life = "live"
  BY <1>1, <1>2 DEF Cache!Holds, TierHolds
<1>9. QED
  BY <1>2, <1>5, <1>7, <1>8 DEF Cache!Expire, Cache!Put, Cache!history, clients

LEMMA QuietStep == ASSUME Inv, UNCHANGED mem PROVE AllSound'
PROOF BY DEF Inv, AllSound, Sound, IsTier, Counted, HeldIn, TierHolds

LEMMA Step == Inv /\ [Next]_vars => AllSound' /\ [Cache!Next]_(Cache!vars)
<1> SUFFICES ASSUME Inv, [Next]_vars PROVE AllSound' /\ [Cache!Next]_(Cache!vars)
  OBVIOUS
<1>1. ASSUME NEW c \in Clients, Begin(c) PROVE AllSound' /\ Cache!Begin(c)
  BY <1>1, QuietStep DEF Begin
<1>2. ASSUME NEW c \in Clients, SetTier(c) \/ DeleteTier(c) \/ GetTier(c) \/ Promote(c)
                                \/ ExistsTier(c)
      PROVE  AllSound' /\ Cache!VisitTier(c)
  <2>1. CASE SetTier(c)
    BY <2>1, SetTierStep DEF Cache!VisitTier
  <2>2. CASE DeleteTier(c)
    BY <2>2, DeleteStep DEF Cache!VisitTier
  <2>3. CASE GetTier(c)
    BY <2>3, GetStep DEF Cache!VisitTier
  <2>4. CASE Promote(c)
    BY <2>4, PromoteStep DEF Cache!VisitTier
  <2>5. CASE ExistsTier(c)
    BY <2>5, ExistsStep DEF Cache!VisitTier
  <2>6. QED BY <1>2, <2>1, <2>2, <2>3, <2>4, <2>5
<1>3. ASSUME NEW i \in Tiers, NEW k \in Keys, Expire(i, k)
      PROVE  AllSound' /\ Cache!Next
  <2>1. AllSound' /\ Cache!Expire(i, k)
    BY <1>3, ExpireStep
  <2>2. QED BY <2>1 DEF Cache!Next, Cache!Tiers, Tiers
<1>4. ASSUME UNCHANGED vars PROVE AllSound' /\ UNCHANGED Cache!vars
  <2>1. UNCHANGED mem /\ UNCHANGED clients
    BY <1>4 DEF vars
  <2>2. QED BY QuietStep, <2>1 DEF clients, Cache!vars, Cache!history
<1>5. QED
  BY <1>1, <1>2, <1>3, <1>4 DEF Next, Finished, Cache!Next

-----------------------------------------------------------------------------
(* The theorems *)

LEMMA InvInit == Init => Inv /\ Cache!Init
<1> SUFFICES ASSUME Init PROVE Inv /\ Cache!Init
  OBVIOUS
<1>1. mem = [i \in Tiers |-> TierNew(Capacities[i])] /\ Cache!Init
  BY DEF Init
<1>2. \A i \in Tiers : mem[i] = TierNew(Capacities[i]) /\ Capacities[i] \in Nat
  BY <1>1, TieredMemoryAssumption
<1>3. \A i \in Tiers : Sound(mem[i])
  BY <1>2, NewSound
<1>4. QED BY <1>1, <1>3, CacheTypes DEF Inv, AllSound

LEMMA InvNext == Inv /\ [Next]_vars => Inv'
<1>1. Inv /\ [Next]_vars => AllSound' /\ [Cache!Next]_(Cache!vars)
  BY Step
<1>2. QED BY <1>1, CacheTypes DEF Inv

\* A MultiTierCache over MemoryCaches with a capacity and LRU each is one
\* over the tiers of MultiTierCache: whatever they evict, refuse or find
\* expired, every step is one that it allows.
THEOREM RealTiersAreTiers == Spec => IsTieredCache
<1>1. Init => Inv /\ Cache!Init
  BY InvInit
<1>2. Inv /\ [Next]_vars => Inv'
  BY InvNext
<1>3. Inv /\ [Next]_vars => [Cache!Next]_(Cache!vars)
  BY Step
<1>4. QED BY <1>1, <1>2, <1>3, PTL DEF Spec, IsTieredCache, Cache!Spec

\* No counter of a tier underflows and no tier outgrows its capacity.
THEOREM CountersSound == Spec => []CountersErrUpward
<1>1. Inv => CountersErrUpward
  BY DEF Inv, AllSound, Sound, Counted, CountersErrUpward, Stored, HeldIn
<1>2. QED BY <1>1, InvInit, InvNext, PTL DEF Spec

\* So what MultiTierProofs shows of tiers that are MemoryCaches holds of real
\* ones: no tier is outdated, and what a get or an exists answers is current.
THEOREM RealTiersAgree == Spec => []Cache!TiersAgree /\ Cache!AnswersAreCurrent
<1>1. Proofs!MultiTierAssumption /\ Tiers = Proofs!Tiers
  BY TieredMemoryAssumption
     DEF Cache!MultiTierAssumption, Proofs!MultiTierAssumption, Cache!Tiers, Proofs!Tiers, Tiers
<1>2. Proofs!Spec => []Proofs!TiersAgree
  BY <1>1, Proofs!MemoryAgreement
<1>3. Proofs!Spec => Proofs!AnswersAreCurrent
  BY <1>1, Proofs!CurrentAnswers
<1>4. Init => Inv /\ Proofs!Init
  BY InvInit, SameInit
<1>5. Inv /\ [Next]_vars => Inv'
  BY InvNext
<1>6. Inv /\ [Next]_vars => [Proofs!Next]_(Proofs!vars)
  BY Step, SameNext
<1>7. Proofs!TiersAgree <=> Cache!TiersAgree
  BY DEF Proofs!TiersAgree, Cache!TiersAgree, Proofs!BeingWritten, Cache!BeingWritten,
     Proofs!Writing, Cache!Writing, Proofs!Holds, Cache!Holds, Proofs!Tiers, Cache!Tiers
<1>8. Proofs!AnswersAreCurrent <=> Cache!AnswersAreCurrent
  BY PTL DEF Proofs!AnswersAreCurrent, Cache!AnswersAreCurrent, Proofs!BeingWritten, Cache!BeingWritten,
     Proofs!Writing, Cache!Writing, Proofs!vars, Cache!vars, Proofs!history, Cache!history
<1>9. Spec => Proofs!Spec
  BY <1>4, <1>5, <1>6, PTL DEF Spec, Proofs!Spec
<1>10. QED BY <1>2, <1>3, <1>7, <1>8, <1>9, PTL

-----------------------------------------------------------------------------
(* Refusals *)

\* The room that expired entries have cost a tier, and when it is beyond
\* holding whatever is set.
Leak(m) == m.size - EntrySize * Cardinality(HeldIn(m))
Spent(m) == EntrySize > m.capacity \/ Leak(m) > 0

Order(m) == m.policy.access_order

\* LRU loses keys when a stale position makes it drop another key than the one
\* used, but never the key used last, which it appends afterwards: a tier that
\* is full knows that key, and holds it, for a delete would have made room.
LastHeld(m) ==
    /\ Order(m) \in Seq(Keys)
    /\ ~ TierFits(m, m.size) /\ ~ Spent(m) =>
          Order(m) # <<>> /\ TierHolds(m, Order(m)[Len(Order(m))])

\* What a call may do to a tier: it gets back no room it has lost.
Wears(t, m) ==
    LastHeld(t) /\ t.capacity = m.capacity /\ (Spent(m) => Spent(t))

LEMMA LeastNatural ==
    ASSUME NEW T \in SUBSET Nat, T # {}
    PROVE  \E n \in T : \A j \in T : n <= j
<1>1. PICK n \in T : \A y \in T : ~ (<<y, n>> \in OpToRel(<, Nat))
  BY WFMin, NatLessThanWellFounded, Zenon
<1>2. \A y \in T : ~ (y < n)
  BY <1>1, Zenon DEF OpToRel
<1>3. QED BY <1>2

\* The number of keys that evict_for_space takes from the policy.
LEMMA EvictCount ==
    ASSUME NEW m, Sound(m), Order(m) \in Seq(Keys)
    PROVE  LET size(n) == SizeWithout(m, Cardinality(Victims(m, n))) IN
           \E n \in 0 .. Len(Order(m)) :
              /\ EvictForSpace(m) =
                    [TierUncount(TierTake(m, Victims(m, n)), Cardinality(Victims(m, n))) EXCEPT
                        !.stats.evictions = @ + Cardinality(Victims(m, n)),
                        !.policy = EvictedFrom(@, n)]
              /\ n = Len(Order(m)) \/ TierFits(m, size(n))
              /\ \A j \in 0 .. n - 1 : ~ TierFits(m, size(j))
<1> DEFINE all == Len(Order(m))
           size(n) == SizeWithout(m, Cardinality(Victims(m, n)))
           Stops(n) == /\ n = all \/ TierFits(m, size(n))
                       /\ \A j \in 0 .. n - 1 : ~ TierFits(m, size(j))
           T == {n \in 0 .. all : n = all \/ TierFits(m, size(n))}
           c == CHOOSE n \in 0 .. all : Stops(n)
<1>1. all \in Nat
  OBVIOUS
<1>2. T \in SUBSET Nat /\ all \in T
  BY <1>1
<1>3. PICK n \in T : \A j \in T : n <= j
  BY <1>2, LeastNatural
<1>4. n \in 0 .. all /\ (n = all \/ TierFits(m, size(n)))
  OBVIOUS
<1>5. ASSUME NEW j \in 0 .. n - 1
      PROVE  ~ TierFits(m, size(j))
  <2>1. j \in 0 .. all /\ j < n
    BY <1>1, <1>4
  <2>2. j \notin T
    BY <1>1, <1>3, <1>4, <2>1
  <2>3. QED BY <2>1, <2>2
<1>6. \E x \in 0 .. all : Stops(x)
  BY <1>4, <1>5
<1>7. c \in 0 .. all /\ Stops(c)
  <2> HIDE DEF Stops
  <2>1. QED BY <1>6
<1>8. EvictForSpace(m) =
         [TierUncount(TierTake(m, Victims(m, c)), Cardinality(Victims(m, c))) EXCEPT
             !.stats.evictions = @ + Cardinality(Victims(m, c)),
             !.policy = EvictedFrom(@, c)]
  BY DEF EvictForSpace, Order
<1>9. QED BY <1>7, <1>8

\* Taking entries out frees the room they took, and no more.
LEMMA TakeLeak ==
    ASSUME NEW m, Sound(m), NEW gone \in SUBSET HeldIn(m), NEW t,
           HeldIn(t) = HeldIn(m) \ gone,
           t.size = m.size - EntrySize * Cardinality(gone)
    PROVE  Leak(t) = Leak(m) /\ (gone # {} => t.size + EntrySize <= m.size)
<1> DEFINE n == Cardinality(gone)
<1>1. /\ n \in Nat /\ Cardinality(HeldIn(m)) \in Nat /\ n <= Cardinality(HeldIn(m))
      /\ Cardinality(HeldIn(t)) = Cardinality(HeldIn(m)) - n /\ IsFiniteSet(gone)
  BY HeldFinite
<1>2. /\ EntrySize * n \in Nat /\ EntrySize * Cardinality(HeldIn(m)) \in Nat
      /\ EntrySize * Cardinality(HeldIn(t))
            = EntrySize * Cardinality(HeldIn(m)) - EntrySize * n
  BY <1>1, Multiples
<1>3. m.size \in Nat
  BY DEF Sound, IsTier
<1>4. gone # {} => EntrySize * n >= EntrySize
  <2>1. gone # {} => n # 0
    BY <1>1, FS_EmptySet
  <2>2. gone # {} => 1 <= n
    BY <1>1, <2>1
  <2>3. EntrySize * 1 = EntrySize
    BY TieredMemoryAssumption
  <2>4. QED BY <1>1, <2>2, <2>3, Multiples
<1> HIDE DEF n
<1>5. Leak(t) = Leak(m)
  BY <1>2, <1>3 DEF Leak, n
<1>6. t.size = m.size - EntrySize * n
  BY DEF n
<1>7. QED BY <1>2, <1>3, <1>4, <1>5, <1>6, TieredMemoryAssumption

\* The size of a tier without expired entries is that of what it holds.
LEMMA NotSpent ==
    ASSUME NEW m, Sound(m)
    PROVE  /\ Leak(m) \in Nat
           /\ ~ Spent(m) <=> Leak(m) = 0 /\ EntrySize <= m.capacity
<1>1. Cardinality(HeldIn(m)) \in Nat
  BY HeldFinite
<1>2. EntrySize * Cardinality(HeldIn(m)) \in Nat /\ m.size \in Nat /\ m.capacity \in Nat
      /\ EntrySize * Cardinality(HeldIn(m)) <= m.size
  BY <1>1, Multiples DEF Sound, IsTier, Counted
<1>3. QED BY <1>2, TieredMemoryAssumption DEF Leak, Spent

LEMMA TakeSize ==
    ASSUME NEW m, Sound(m), NEW gone
    PROVE  TierTake(m, gone).size = SizeWithout(m, Cardinality(gone))
<1>1. m = [entries |-> m.entries, policy |-> m.policy, capacity |-> m.capacity,
           size |-> m.size, stats |-> m.stats]
  BY DEF Sound, IsTier
<1>2. QED BY <1>1 DEF TierTake

LEMMA DropFirst ==
    ASSUME NEW s \in Seq(Keys), NEW n \in 0 .. Len(s)
    PROVE  SubSeq(s, n + 1, Len(s)) \in Seq(Keys)
<1>1. Len(s) \in Nat /\ n + 1 \in Nat /\ \A i \in 1 .. Len(s) : s[i] \in Keys
  OBVIOUS
<1>2. SubSeq(s, n + 1, Len(s)) = [i \in 1 .. Len(s) - n |-> s[n + i]]
  BY <1>1
<1>3. \A i \in 1 .. Len(s) - n : s[n + i] \in Keys
  BY <1>1
<1>4. Len(s) - n \in Nat
  BY <1>1
<1>5. QED BY <1>2, <1>3, <1>4

\* Eviction makes room unless room is lost: the last key it takes is held.
LEMMA EvictRoom ==
    ASSUME NEW m, Sound(m), LastHeld(m)
    PROVE  LET r == EvictForSpace(m) IN
           /\ Order(r) \in Seq(Keys)
           /\ r.capacity = m.capacity /\ Leak(r) = Leak(m)
           /\ ~ Spent(m) => TierFits(r, r.size)
<1> DEFINE all == Len(Order(m))
           size(n) == SizeWithout(m, Cardinality(Victims(m, n)))
           r == EvictForSpace(m)
<1>1. Order(m) \in Seq(Keys) /\ all \in Nat
  BY DEF LastHeld
<1>2. PICK n \in 0 .. all :
         /\ r = [TierUncount(TierTake(m, Victims(m, n)), Cardinality(Victims(m, n))) EXCEPT
                    !.stats.evictions = @ + Cardinality(Victims(m, n)),
                    !.policy = EvictedFrom(@, n)]
         /\ n = all \/ TierFits(m, size(n))
         /\ \A j \in 0 .. n - 1 : ~ TierFits(m, size(j))
  BY <1>1, EvictCount
<1> DEFINE gone == Victims(m, n)
           s == TierTake(m, gone)
<1>3. \A j : Victims(m, j) \in SUBSET HeldIn(m)
  BY DEF Victims, HeldIn
<1>4. \A j : LET u == TierTake(m, Victims(m, j)) IN
         /\ Sound(u) /\ u.policy = m.policy /\ u.capacity = m.capacity
         /\ u.size = m.size - EntrySize * Cardinality(Victims(m, j))
         /\ u.size = size(j) /\ HeldIn(u) = HeldIn(m) \ Victims(m, j)
  BY <1>3, TakeSound, TakeSize
<1>5. /\ Sound(s) /\ s.policy = m.policy /\ s.capacity = m.capacity
      /\ s.size = m.size - EntrySize * Cardinality(gone) /\ s.size = size(n)
      /\ HeldIn(s) = HeldIn(m) \ gone
  BY <1>4
<1> HIDE DEF s, gone, size, r
<1>6. /\ r.entries = s.entries /\ r.size = s.size /\ r.capacity = s.capacity
      /\ r.policy = EvictedFrom(s.policy, n)
  BY <1>2, <1>5 DEF TierUncount, Sound, IsTier, s, gone
<1>7. HeldIn(r) = HeldIn(s)
  BY <1>6 DEF HeldIn, TierHolds
<1>8. Order(r) \in Seq(Keys)
  <2>1. Order(r) = SubSeq(Order(m), n + 1, all)
    BY <1>5, <1>6 DEF EvictedFrom, Order
  <2>2. QED BY <1>1, <2>1, DropFirst
<1>9. Leak(r) = Leak(m)
  <2>1. gone \in SUBSET HeldIn(m)
    BY <1>3 DEF gone
  <2>2. QED BY <1>5, <1>6, <1>7, <2>1, TakeLeak
<1>10. ASSUME ~ Spent(m)
       PROVE  TierFits(m, size(n))
  <2>1. CASE TierFits(m, m.size)
    <3>1. Victims(m, 0) = {}
      BY DEF Victims
    <3>2. size(0) = m.size
      <4>1. Cardinality(Victims(m, 0)) = 0
        BY <3>1, FS_EmptySet
      <4>2. EntrySize * 0 = 0 /\ m.size \in Nat
        BY TieredMemoryAssumption DEF Sound, IsTier
      <4>3. size(0) = IF m.size >= EntrySize * 0 THEN m.size - EntrySize * 0 ELSE 0
        BY <4>1 DEF SizeWithout, size
      <4>4. QED BY <4>2, <4>3
    <3>3. n = 0
      BY <1>1, <1>2, <2>1, <3>2 DEF size
    <3>4. QED BY <2>1, <3>2, <3>3
  <2>2. CASE ~ TierFits(m, m.size)
    <3> DEFINE k == Order(m)[all]
               u == TierTake(m, Victims(m, all))
    <3>1. all \in 1 .. all /\ k \in Keys /\ TierHolds(m, k)
      BY <1>1, <1>10, <2>2 DEF LastHeld
    <3>2. k \in Victims(m, all)
      BY <3>1 DEF Victims, Order
    <3>3. size(all) + EntrySize <= m.size
      <4>1. /\ u.size = m.size - EntrySize * Cardinality(Victims(m, all))
            /\ u.size = size(all) /\ HeldIn(u) = HeldIn(m) \ Victims(m, all)
        BY <1>4
      <4>2. Victims(m, all) \in SUBSET HeldIn(m)
        BY <1>3
      <4> HIDE DEF u
      <4>3. QED BY <3>2, <4>1, <4>2, TakeLeak
    <3>4. m.size \in Nat /\ m.capacity \in Nat /\ m.size <= m.capacity /\ size(all) \in Nat
      <4>1. u.size = size(all) /\ Sound(u)
        BY <1>4
      <4>2. QED BY <4>1 DEF Sound, IsTier, Counted
    <3>5. TierFits(m, size(all))
      BY <3>3, <3>4, TieredMemoryAssumption DEF TierFits
    <3>6. QED BY <1>2, <3>5 DEF size
  <2>3. QED BY <2>1, <2>2
<1>11. TierFits(m, size(n)) => TierFits(r, r.size)
  BY <1>5, <1>6 DEF TierFits
<1>12. QED BY <1>5, <1>6, <1>8, <1>9, <1>10, <1>11 DEF r

\* A key used is appended to the order, whatever a stale position drops.
LEMMA UsedLast ==
    ASSUME NEW m, Order(m) \in Seq(Keys), NEW k \in Keys, NEW p,
           p = LruOnAccess(m.policy, k)
    PROVE  /\ p.access_order \in Seq(Keys) /\ p.access_order # <<>>
           /\ p.access_order[Len(p.access_order)] = k
<1>1. PICK s, index : p = PushAndRecord(s, index, k) /\
         (s = Order(m) \/ \E at : s = DequeRemove(Order(m), at))
  BY DEF LruOnAccess, Order
<1>2. s \in Seq(Keys)
  <2>1. CASE s = Order(m)
    BY <2>1
  <2>2. CASE s # Order(m)
    <3>1. PICK at : s = DequeRemove(Order(m), at)
      BY <1>1, <2>2
    <3>2. s = [j \in 1 .. Len(Order(m)) - 1 |->
                 IF j <= at THEN Order(m)[j] ELSE Order(m)[j + 1]]
      BY <2>2, <3>1 DEF DequeRemove
    <3>3. Len(Order(m)) \in Nat /\ \A j \in 1 .. Len(Order(m)) : Order(m)[j] \in Keys
      OBVIOUS
    <3>4. CASE Len(Order(m)) = 0
      <4>1. s = <<>>
        BY <3>2, <3>4
      <4>2. QED BY <4>1
    <3>5. CASE Len(Order(m)) # 0
      <4>1. Len(Order(m)) - 1 \in Nat
        BY <3>3, <3>5
      <4>2. \A j \in 1 .. Len(Order(m)) - 1 :
               (IF j <= at THEN Order(m)[j] ELSE Order(m)[j + 1]) \in Keys
        BY <3>3
      <4>3. QED BY <3>2, <4>1, <4>2
    <3>6. QED BY <3>4, <3>5
  <2>3. QED BY <2>1, <2>2
<1>3. p.access_order = Append(s, k)
  BY <1>1 DEF PushAndRecord
<1>4. QED BY <1>2, <1>3

\* A set is refused by a tier that has lost room, or is too small.
LEMMA SetWears ==
    ASSUME NEW m, Sound(m), LastHeld(m), NEW k \in Keys, NEW value, NEW life
    PROVE  LET r == TierSet(m, k, value, life) IN
           /\ [value |-> value, life |-> life] # None => Wears(r.tier, m)
           /\ r.result # "ok" => Spent(m)
<1> DEFINE old == TierHolds(m, k)
           m0 == IF old THEN TierTake(m, {k}) ELSE m
           room == EvictForSpace(m0)
           r == TierSet(m, k, value, life)
<1>1. Sound(m0) /\ LastHeld(m0) /\ m0.capacity = m.capacity /\ Leak(m0) = Leak(m)
  <2>1. CASE old
    <3>1. {k} \in SUBSET HeldIn(m)
      BY <2>1 DEF HeldIn
    <3>2. /\ Sound(m0) /\ m0.policy = m.policy /\ m0.capacity = m.capacity
          /\ m0.size = m.size - EntrySize * Cardinality({k})
          /\ HeldIn(m0) = HeldIn(m) \ {k}
      BY <2>1, <3>1, TakeSound
    <3> HIDE DEF m0
    <3>3. Leak(m0) = Leak(m) /\ m0.size + EntrySize <= m.size
      BY <3>1, <3>2, TakeLeak
    <3>4. m.size \in Nat /\ m0.size \in Nat /\ m.capacity \in Nat /\ m.size <= m.capacity
      BY <3>2 DEF Sound, IsTier, Counted
    <3>5. TierFits(m0, m0.size)
      BY <3>2, <3>3, <3>4, TieredMemoryAssumption DEF TierFits
    <3>6. QED BY <3>2, <3>3, <3>5 DEF LastHeld, Order
  <2>2. CASE ~ old
    BY <2>2
  <2>3. QED BY <2>1, <2>2
<1> HIDE DEF m0
<1>2. /\ Order(room) \in Seq(Keys)
      /\ room.capacity = m.capacity /\ Leak(room) = Leak(m) /\ Sound(room)
      /\ ~ Spent(m0) => TierFits(room, room.size)
  BY <1>1, EvictRoom, EvictSound
<1>3. (Spent(m0) <=> Spent(m)) /\ (Spent(room) <=> Spent(m))
  BY <1>1, <1>2 DEF Spent
<1>4. r = IF ~ TierFits(room, room.size)
          THEN [result |-> "full", tier |-> room]
          ELSE [result |-> "ok",
                tier |-> [room EXCEPT
                             !.entries[k] = [value |-> value, life |-> life],
                             !.size = room.size + EntrySize,
                             !.stats.entries = IF old THEN @ ELSE @ + 1,
                             !.stats.size_bytes = room.size + EntrySize,
                             !.policy = LruOnInsert(@, k)]]
  BY DEF TierSet, m0
<1> HIDE DEF r, room, old
<1>5. CASE ~ TierFits(room, room.size)
  <2>1. r.tier = room /\ Spent(m)
    BY <1>2, <1>3, <1>4, <1>5
  <2>2. QED BY <1>2, <1>3, <2>1 DEF Wears, LastHeld, r
<1>6. CASE TierFits(room, room.size)
  <2> DEFINE t == r.tier
             entry == [value |-> value, life |-> life]
  <2>1. /\ r.result = "ok" /\ t.entries = [room.entries EXCEPT ![k] = entry]
        /\ t.size = room.size + EntrySize /\ t.capacity = room.capacity
        /\ t.policy = LruOnAccess(room.policy, k)
    BY <1>2, <1>4, <1>6 DEF Sound, IsTier, LruOnInsert
  <2> HIDE DEF t, entry
  <2>2. ASSUME entry # None
        PROVE  Wears(t, m)
    <3>1. TierHolds(t, k)
      BY <1>2, <2>1, <2>2 DEF TierHolds, Sound, IsTier
    <3>2. /\ Order(t) \in Seq(Keys) /\ Order(t) # <<>> /\ Order(t)[Len(Order(t))] = k
      BY <1>2, <2>1, UsedLast DEF Order
    <3>3. LastHeld(t)
      BY <3>1, <3>2 DEF LastHeld
    <3>4. Leak(t) >= Leak(room)
      <4>1. HeldIn(t) \in SUBSET (HeldIn(room) \cup {k})
        BY <1>2, <2>1 DEF HeldIn, TierHolds, Sound, IsTier
      <4>2. IsFiniteSet(HeldIn(room)) /\ Cardinality(HeldIn(room)) \in Nat
        BY HeldFinite
      <4>3. /\ IsFiniteSet(HeldIn(room) \cup {k})
            /\ Cardinality(HeldIn(room) \cup {k}) \in Nat
            /\ Cardinality(HeldIn(room) \cup {k}) <= Cardinality(HeldIn(room)) + 1
        BY <4>2, FS_AddElement, FS_CardinalityType
      <4>4. /\ Cardinality(HeldIn(t)) \in Nat
            /\ Cardinality(HeldIn(t)) <= Cardinality(HeldIn(room)) + 1
        BY <4>1, <4>2, <4>3, FS_Subset, FS_CardinalityType
      <4>5. /\ EntrySize * Cardinality(HeldIn(t)) \in Nat
            /\ EntrySize * Cardinality(HeldIn(room)) \in Nat
            /\ EntrySize * Cardinality(HeldIn(t))
                  <= EntrySize * Cardinality(HeldIn(room)) + EntrySize
        BY <4>2, <4>4, Multiples
      <4>6. room.size \in Nat
        BY <1>2 DEF Sound, IsTier
      <4>7. QED BY <2>1, <4>5, <4>6, TieredMemoryAssumption DEF Leak
    <3>5. Leak(room) \in Nat /\ Leak(t) \in Int
      <4>1. Leak(room) \in Nat
        BY <1>2, NotSpent
      <4>2. HeldIn(t) \in SUBSET HeldIn(t) /\ Cardinality(HeldIn(t)) \in Nat
        BY HeldFinite
      <4>3. EntrySize * Cardinality(HeldIn(t)) \in Nat /\ room.size \in Nat
        BY <1>2, <4>2, Multiples DEF Sound, IsTier
      <4>4. QED BY <2>1, <4>1, <4>3, TieredMemoryAssumption DEF Leak
    <3>6. Spent(room) => Spent(t)
      BY <2>1, <3>4, <3>5 DEF Spent
    <3>7. QED BY <1>2, <1>3, <2>1, <3>3, <3>6 DEF Wears
  <2>3. QED BY <2>1, <2>2 DEF t, entry, r
<1>7. QED BY <1>5, <1>6

\* A tier in which only the policy has changed, by the use of a key it holds,
\* or nothing, or in which an entry is gone whose size is still counted.
LEMMA KeptWears ==
    ASSUME NEW m, Sound(m), LastHeld(m), NEW t,
           t.size = m.size, t.capacity = m.capacity, HeldIn(t) = HeldIn(m),
           \/ t.policy = m.policy
           \/ \E k \in HeldIn(m) : t.policy = LruOnAccess(m.policy, k)
    PROVE  Wears(t, m)
<1>1. Leak(t) = Leak(m) /\ (Spent(t) <=> Spent(m))
  BY DEF Leak, Spent
<1>2. \A k \in Keys : TierHolds(t, k) <=> TierHolds(m, k)
  BY DEF HeldIn
<1>3. CASE t.policy = m.policy
  <2>1. Order(m) # <<>> => Order(m)[Len(Order(m))] \in Keys
    BY DEF LastHeld
  <2>2. LastHeld(t)
    BY <1>1, <1>2, <1>3, <2>1 DEF LastHeld, Order, TierFits
  <2>3. QED BY <1>1, <2>2 DEF Wears
<1>4. ASSUME NEW k \in HeldIn(m), t.policy = LruOnAccess(m.policy, k)
      PROVE  Wears(t, m)
  <2>1. k \in Keys /\ TierHolds(t, k)
    BY <1>2 DEF HeldIn
  <2>2. /\ Order(t) \in Seq(Keys) /\ Order(t) # <<>> /\ Order(t)[Len(Order(t))] = k
    BY <1>4, <2>1, UsedLast DEF LastHeld, Order
  <2>3. QED BY <1>1, <2>1, <2>2 DEF LastHeld, Wears
<1>5. QED BY <1>3, <1>4

LEMMA GoneWears ==
    ASSUME NEW m, Sound(m), LastHeld(m), NEW t, NEW k \in HeldIn(m),
           t.size = m.size, t.capacity = m.capacity, t.policy = m.policy,
           HeldIn(t) = HeldIn(m) \ {k}
    PROVE  Wears(t, m)
<1>1. {k} \in SUBSET HeldIn(m) /\ Cardinality({k}) = 1
  BY FS_Singleton
<1>2. /\ Cardinality(HeldIn(m)) \in Nat /\ 1 <= Cardinality(HeldIn(m))
      /\ Cardinality(HeldIn(t)) = Cardinality(HeldIn(m)) - 1
  BY <1>1, HeldFinite
<1>3. /\ EntrySize * Cardinality(HeldIn(t)) = EntrySize * Cardinality(HeldIn(m)) - EntrySize
      /\ EntrySize * Cardinality(HeldIn(m)) \in Nat
  <2>1. EntrySize * 1 = EntrySize
    BY TieredMemoryAssumption
  <2>2. QED BY <1>2, <2>1, Multiples
<1>4. Leak(m) \in Nat
  BY NotSpent
<1>5. Leak(t) > 0
  BY <1>3, <1>4, TieredMemoryAssumption DEF Leak, Sound, IsTier
<1>6. Spent(t) /\ Order(t) = Order(m)
  BY <1>5 DEF Spent, Order
<1>7. QED BY <1>6 DEF LastHeld, Wears

LEMMA GetWears ==
    ASSUME NEW m, Sound(m), LastHeld(m), NEW k \in Keys
    PROVE  Wears(TierGet(m, k).tier, m)
<1> DEFINE t == TierGet(m, k).tier
           fresh == TierHolds(m, k) /\ ~ TierExpired(m, k)
<1>1. CASE fresh
  <2>1. t = [m EXCEPT !.policy = LruOnAccess(@, k), !.stats.hits = @ + 1]
    BY <1>1 DEF TierGet
  <2> HIDE DEF t
  <2>2. /\ t.entries = m.entries /\ t.size = m.size /\ t.capacity = m.capacity
        /\ t.policy = LruOnAccess(m.policy, k)
    BY <2>1 DEF Sound, IsTier
  <2>3. HeldIn(t) = HeldIn(m) /\ k \in HeldIn(m)
    BY <1>1, <2>2 DEF HeldIn, TierHolds
  <2>4. Wears(t, m)
    BY <2>2, <2>3, KeptWears
  <2>5. QED BY <2>4 DEF t
<1>2. CASE ~ fresh
  <2>1. t = [m EXCEPT !.entries[k] = None, !.stats.misses = @ + 1]
    BY <1>2 DEF TierGet
  <2> HIDE DEF t
  <2>2. /\ t.entries = [m.entries EXCEPT ![k] = None] /\ t.size = m.size
        /\ t.capacity = m.capacity /\ t.policy = m.policy
    BY <2>1 DEF Sound, IsTier
  <2>3. HeldIn(t) = HeldIn(m) \ {k}
    BY <2>2 DEF HeldIn, TierHolds, Sound, IsTier
  <2>4. CASE k \in HeldIn(m)
    BY <2>2, <2>3, <2>4, GoneWears DEF t
  <2>5. CASE k \notin HeldIn(m)
    <3>1. HeldIn(t) = HeldIn(m)
      BY <2>3, <2>5
    <3>2. QED BY <2>2, <3>1, KeptWears DEF t
  <2>6. QED BY <2>4, <2>5
<1>3. QED BY <1>1, <1>2

LEMMA DeleteWears ==
    ASSUME NEW m, Sound(m), LastHeld(m), NEW k \in Keys
    PROVE  Wears(TierDelete(m, k).tier, m)
<1>1. CASE TierHolds(m, k)
  <2> DEFINE s == TierTake(m, {k})
             t == TierDelete(m, k).tier
  <2>1. {k} \in SUBSET HeldIn(m)
    BY <1>1 DEF HeldIn
  <2>2. /\ Sound(s) /\ s.policy = m.policy /\ s.capacity = m.capacity
        /\ s.size = m.size - EntrySize * Cardinality({k})
        /\ HeldIn(s) = HeldIn(m) \ {k}
    BY <2>1, TakeSound
  <2>3. t = TierUncount(s, 1)
    BY <1>1 DEF TierDelete
  <2> HIDE DEF s, t
  <2>4. /\ t.entries = s.entries /\ t.policy = s.policy /\ t.capacity = s.capacity
        /\ t.size = s.size
    BY <2>2, <2>3 DEF TierUncount, Sound, IsTier
  <2>5. HeldIn(t) = HeldIn(s)
    BY <2>4 DEF HeldIn, TierHolds
  <2>6. Leak(t) = Leak(m) /\ t.size + EntrySize <= m.size
    BY <2>1, <2>2, <2>4, <2>5, TakeLeak
  <2>7. m.size \in Nat /\ t.size \in Nat /\ m.capacity \in Nat /\ m.size <= m.capacity
    BY <2>2, <2>4 DEF Sound, IsTier, Counted
  <2>8. TierFits(t, t.size)
    BY <2>2, <2>4, <2>6, <2>7, TieredMemoryAssumption DEF TierFits
  <2>9. Wears(t, m)
    BY <2>2, <2>4, <2>6, <2>8 DEF LastHeld, Order, Wears, Spent
  <2>10. QED BY <2>9 DEF t
<1>2. CASE ~ TierHolds(m, k)
  BY <1>2, KeptWears DEF TierDelete
<1>3. QED BY <1>1, <1>2

LEMMA ExpireWears ==
    ASSUME NEW m, Sound(m), LastHeld(m), NEW k \in Keys, TierHolds(m, k),
           [m.entries[k] EXCEPT !.life = "expired"] # None
    PROVE  Wears([m EXCEPT !.entries[k].life = "expired"], m)
<1> DEFINE t == [m EXCEPT !.entries[k].life = "expired"]
<1>1. /\ t.entries = [m.entries EXCEPT ![k] = [@ EXCEPT !.life = "expired"]]
      /\ t.size = m.size /\ t.capacity = m.capacity /\ t.policy = m.policy
  BY DEF Sound, IsTier
<1> HIDE DEF t
<1>2. HeldIn(t) = HeldIn(m)
  BY <1>1 DEF HeldIn, TierHolds, Sound, IsTier
<1>3. Wears(t, m)
  BY <1>1, <1>2, KeptWears
<1>4. QED BY <1>3 DEF t

\* The invariant: every full tier that has lost no room holds its last key.
AllLastHeld == \A i \in Tiers : LastHeld(mem[i])

LEMMA AllWear ==
    ASSUME Inv, AllLastHeld, NEW i \in Tiers, NEW t, Wears(t, mem[i]),
           mem' = [mem EXCEPT ![i] = t]
    PROVE  AllLastHeld'
<1>1. \A j \in Tiers : mem'[j] = IF j = i THEN t ELSE mem[j]
  BY DEF Inv, AllSound
<1>2. ASSUME NEW j \in Tiers PROVE LastHeld(mem'[j])
  <2>1. CASE j = i
    BY <1>1, <2>1 DEF Wears
  <2>2. CASE j # i
    <3>1. mem'[j] = mem[j]
      BY <1>1, <2>2
    <3>2. QED BY <3>1 DEF AllLastHeld
  <2>3. QED BY <2>1, <2>2
<1>3. AllLastHeld' <=> \A j \in Tiers : LastHeld(mem'[j])
  BY DEF AllLastHeld, LastHeld, Order, TierFits, Spent, Leak, HeldIn, TierHolds
<1>4. QED BY <1>2, <1>3

\* A client's visit wears the tier it is at.
LEMMA VisitHeld ==
    ASSUME Inv, AllLastHeld, NEW c \in Clients,
           \/ SetTier(c) \/ Promote(c) \/ DeleteTier(c) \/ GetTier(c) \/ ExistsTier(c)
    PROVE  AllLastHeld'
<1>1. PICK i, k : i = local[c].at /\ k = call[c].key
  OBVIOUS
<1>2. i \in Tiers /\ k \in Keys /\ Sound(mem[i]) /\ LastHeld(mem[i])
  <2>1. pc[c] # "idle"
    BY DEF SetTier, Promote, DeleteTier, GetTier, ExistsTier
  <2>2. i \in Tiers /\ k \in Keys
    BY <1>1, <2>1, AtTier
  <2>3. QED BY <2>2 DEF Inv, AllSound, AllLastHeld
<1>3. CASE SetTier(c)
  <2>1. PICK v : v = call[c].value
    OBVIOUS
  <2>2. mem' = [mem EXCEPT ![i] = TierSet(mem[i], k, v, "live").tier]
    BY <1>1, <1>3, <2>1 DEF SetTier, Visit, Here, Key
  <2>3. call[c] \in Cache!Requests /\ call[c].op = "set"
    BY <1>3 DEF Inv, Cache!TypeOK, SetTier
  <2>4. [value |-> v, life |-> "live"] # None
    BY <2>1, <2>3, NoneIsNoEntry DEF Cache!Requests
  <2>5. QED BY <1>2, <2>2, <2>4, SetWears, AllWear
<1>4. CASE Promote(c)
  <2>1. PICK v : v = local[c].found
    OBVIOUS
  <2>2. mem' = [mem EXCEPT ![i] = TierSet(mem[i], k, v, "forever").tier]
    BY <1>1, <1>4, <2>1 DEF Promote, Visit, Here, Key
  <2>3. v \in Values
    BY <1>4, <2>1 DEF Inv, Cache!TypeOK, Promote
  <2>4. [value |-> v, life |-> "forever"] # None
    BY <2>3, NoneIsNoEntry
  <2>5. QED BY <1>2, <2>2, <2>4, SetWears, AllWear
<1>5. CASE DeleteTier(c)
  <2>1. mem' = [mem EXCEPT ![i] = TierDelete(mem[i], k).tier]
    BY <1>1, <1>5 DEF DeleteTier, Visit, Here, Key
  <2>2. QED BY <1>2, <2>1, AllWear, DeleteWears
<1>6. CASE GetTier(c)
  <2>1. mem' = [mem EXCEPT ![i] = TierGet(mem[i], k).tier]
    BY <1>1, <1>6 DEF GetTier, Visit, Here, Key
  <2>2. QED BY <1>2, <2>1, AllWear, GetWears
<1>7. CASE ExistsTier(c)
  <2>1. UNCHANGED mem
    BY <1>7 DEF ExistsTier
  <2>2. QED BY <2>1 DEF AllLastHeld, LastHeld, Order, TierFits, Spent, Leak, HeldIn, TierHolds
<1>8. QED BY <1>3, <1>4, <1>5, <1>6, <1>7

LEMMA HeldNext == Inv /\ AllLastHeld /\ [Next]_vars => AllLastHeld'
<1> SUFFICES ASSUME Inv, AllLastHeld, [Next]_vars PROVE AllLastHeld'
  OBVIOUS
<1>1. ASSUME UNCHANGED mem
      PROVE  AllLastHeld'
  BY <1>1 DEF AllLastHeld, LastHeld, Order, TierFits, Spent, Leak, HeldIn, TierHolds
<1>2. ASSUME NEW i \in Tiers, NEW k \in Keys, Expire(i, k)
      PROVE  AllLastHeld'
  <2>1. Sound(mem[i]) /\ LastHeld(mem[i]) /\ mem = [j \in Tiers |-> mem[j]]
    BY DEF Inv, AllSound, AllLastHeld
  <2>2. TierHolds(mem[i], k)
    BY <1>2 DEF Expire
  <2>3. mem' = [mem EXCEPT ![i] = [mem[i] EXCEPT !.entries[k].life = "expired"]]
    BY <1>2, <2>1 DEF Expire
  <2>4. [mem[i].entries[k] EXCEPT !.life = "expired"] # None
    <3>1. [j \in Tiers |-> mem[j].entries] \in [Tiers -> [Keys -> Cache!Entries \cup {None}]]
      BY DEF Inv, Cache!TypeOK, Cache!Tiers, Tiers
    <3>2. mem[i].entries[k] \in Cache!Entries
      BY <2>2, <3>1 DEF TierHolds
    <3>3. [mem[i].entries[k] EXCEPT !.life = "expired"] \in Cache!Entries
      BY <3>2 DEF Cache!Entries
    <3>4. QED BY <3>3, NoneIsNoEntry DEF Cache!Entries
  <2>5. Wears([mem[i] EXCEPT !.entries[k].life = "expired"], mem[i])
    BY <2>1, <2>2, <2>4, ExpireWears
  <2>6. QED BY <2>3, <2>5, AllWear
<1>3. ASSUME NEW c \in Clients, Begin(c)
      PROVE  UNCHANGED mem
  BY <1>3 DEF Begin
<1>4. UNCHANGED vars => UNCHANGED mem
  BY DEF vars
<1>5. QED BY <1>1, <1>2, <1>3, <1>4, VisitHeld DEF Next, Finished

LEMMA HeldInit == Init => AllLastHeld
<1> SUFFICES ASSUME Init, NEW i \in Tiers PROVE LastHeld(mem[i])
  BY DEF AllLastHeld
<1>1. mem = [j \in Tiers |-> TierNew(Capacities[j])]
  BY DEF Init
<1>2. mem[i].policy = LruNew /\ mem[i].size = 0 /\ mem[i].capacity = Capacities[i]
  BY <1>1, Zenon DEF TierNew
<1>3. Order(mem[i]) = <<>>
  BY <1>2 DEF LruNew, Order
<1>4. ~ Spent(mem[i]) => TierFits(mem[i], mem[i].size)
  BY <1>2, TieredMemoryAssumption DEF Spent, TierFits
<1>5. QED BY <1>3, <1>4 DEF LastHeld

\* At no moment would a tier refuse a set or a promotion for want of a key to
\* evict, although LRU forgets keys that the tier holds: one that would refuse
\* is too small for one entry or has itself lost room to expired ones.
THEOREM Refusals == Spec => []RefusedOnlyIfLeaked
<1>1. Inv /\ AllLastHeld => RefusedOnlyIfLeaked
  <2> SUFFICES ASSUME Inv, AllLastHeld, NEW i \in Tiers, NEW k \in Keys, NEW v \in Values,
                      NEW life \in {"live", "forever"},
                      TierSet(mem[i], k, v, life).result # "ok"
               PROVE  EntrySize > mem[i].capacity \/ Leaked(i) > 0
    BY DEF RefusedOnlyIfLeaked
  <2>1. Spent(mem[i])
    BY SetWears DEF Inv, AllSound, AllLastHeld
  <2>2. QED BY <2>1 DEF Spent, Leak, Leaked, Stored, HeldIn
<1>2. QED BY <1>1, InvInit, InvNext, HeldInit, HeldNext, PTL DEF Spec
=============================================================================
