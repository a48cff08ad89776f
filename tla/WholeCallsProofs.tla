-------------------------- MODULE WholeCallsProofs --------------------------
(***************************************************************************)
(* One thread, the LRU policy and no TTLs: each call of MemoryCache, taken *)
(* step by step, is the whole call of MemoryTier, for any number of calls, *)
(* keys and values, any capacity and entry size, with clear().             *)
(*                                                                         *)
(* First the operators of MemoryTier, field by field; then an invariant    *)
(* that says at each step how far the call in progress has got from the    *)
(* tier it found; then that every step keeps it.                           *)
(***************************************************************************)
EXTENDS OneThreadProofs, WholeCalls

-----------------------------------------------------------------------------
(* The operators of MemoryTier *)

\* The Cardinality that the instance brings along is Cardinality.
LEMMA SameCardinality == \A S : Tier!Cardinality(S) = Cardinality(S)
PROOF BY DEF Tier!Cardinality, Cardinality

\* What a tier can be whose entries are counted without a bound.
TierStats == [hits : Nat, misses : Nat, evictions : Nat, size_bytes : Nat, entries : Int]
TierStates ==
    [entries : [Keys -> Entries \cup {None}], policy : LruStates,
     capacity : {Capacity}, size : Nat, stats : TierStats]

LEMMA SameStats ==
    ASSUME NEW r \in TierStats, NEW s \in TierStats,
           r.hits = s.hits, r.misses = s.misses, r.evictions = s.evictions,
           r.size_bytes = s.size_bytes, r.entries = s.entries
    PROVE  r = s
PROOF BY DEF TierStats

LEMMA SameTier ==
    ASSUME NEW r \in TierStates, NEW s \in TierStates,
           r.entries = s.entries, r.policy = s.policy, r.size = s.size, r.stats = s.stats
    PROVE  r = s
PROOF BY DEF TierStates

\* A tier after n evictions, whatever its size: EvictForSpace for a given n.
Evicted(m, n) ==
    LET gone == Tier!Victims(m, n)
    IN  [Tier!TierUncount(Tier!TierTake(m, gone), Cardinality(gone)) EXCEPT
            !.stats.evictions = @ + Cardinality(gone),
            !.policy = Tier!EvictedFrom(@, n)]

Order(m) == m.policy.access_order
Gone(m, n) == Cardinality(Tier!Victims(m, n))
SizeAfter(m, n) == Tier!SizeWithout(m, Gone(m, n))

LEMMA VictimsFinite ==
    ASSUME NEW m, NEW n \in Nat
    PROVE  /\ IsFiniteSet(Tier!Victims(m, n)) /\ Gone(m, n) \in Nat
           /\ Tier!Victims(m, n) \subseteq Keys
<1>1. Tier!Victims(m, n) \subseteq Keys
  BY DEF Tier!Victims
<1>2. IsFiniteSet(Tier!Victims(m, n))
  BY <1>1, MemoryCacheAssumption, FS_Subset
<1>3. QED BY <1>1, <1>2, FS_CardinalityType DEF Gone

LEMMA SizeIs ==
    ASSUME NEW m \in TierStates, NEW n \in Nat
    PROVE  Tier!SizeWithout(m, n) \in Nat
<1>1. EntrySize * n \in Nat /\ m.size \in Nat
  BY ScaleMono DEF TierStates
<1>2. QED BY <1>1 DEF Tier!SizeWithout

\* The tier without the entries of some keys.
LEMMA TakeIs ==
    ASSUME NEW m \in TierStates, NEW gone \in SUBSET Keys
    PROVE  /\ Tier!TierTake(m, gone) \in TierStates
           /\ Tier!TierTake(m, gone).entries =
                  [k \in Keys |-> IF k \in gone THEN None ELSE m.entries[k]]
           /\ Tier!TierTake(m, gone).size = Tier!SizeWithout(m, Cardinality(gone))
           /\ Tier!TierTake(m, gone).policy = m.policy
           /\ Tier!TierTake(m, gone).stats = m.stats
<1> DEFINE left == [k \in Keys |-> IF k \in gone THEN None ELSE m.entries[k]]
           z == Tier!SizeWithout(m, Cardinality(gone))
<1>1. left \in [Keys -> Entries \cup {None}]
  BY DEF TierStates
<1>2. z \in Nat
  BY SizeIs, FS_Subset, FS_CardinalityType, MemoryCacheAssumption
<1>3. Tier!TierTake(m, gone) = [m EXCEPT !.entries = left, !.size = z]
  BY SameCardinality DEF Tier!TierTake
<1> HIDE DEF left, z
<1>4. [m EXCEPT !.entries = left, !.size = z] \in TierStates
  BY <1>1, <1>2 DEF TierStates
<1>5. QED BY <1>3, <1>4 DEF TierStates, left, z

\* The fields of the tier after n evictions.
LEMMA EvictedIs ==
    ASSUME NEW m \in TierStates, NEW n \in Nat,
           Tier!EvictedFrom(m.policy, n) \in LruStates
    PROVE  LET v == Evicted(m, n)
               c == Gone(m, n)
           IN  /\ v \in TierStates
               /\ v.entries = [k \in Keys |-> IF k \in Tier!Victims(m, n) THEN None
                                              ELSE m.entries[k]]
               /\ v.policy = Tier!EvictedFrom(m.policy, n)
               /\ v.size = SizeAfter(m, n)
               /\ v.stats.hits = m.stats.hits /\ v.stats.misses = m.stats.misses
               /\ v.stats.evictions = m.stats.evictions + c
               /\ v.stats.entries = m.stats.entries - c
               /\ v.stats.size_bytes = IF c = 0 THEN m.stats.size_bytes ELSE SizeAfter(m, n)
<1> DEFINE gone == Tier!Victims(m, n)
           c == Gone(m, n)
           taken == Tier!TierTake(m, gone)
           less == Tier!TierUncount(taken, c)
           p == Tier!EvictedFrom(m.policy, n)
           v == Evicted(m, n)
<1>1. c \in Nat /\ gone \in SUBSET Keys
  BY VictimsFinite
<1>2. /\ taken \in TierStates /\ taken.policy = m.policy /\ taken.stats = m.stats
      /\ taken.entries = [k \in Keys |-> IF k \in gone THEN None ELSE m.entries[k]]
      /\ taken.size = SizeAfter(m, n)
  BY <1>1, TakeIs DEF SizeAfter, Gone
<1>3. v = [less EXCEPT !.stats.evictions = @ + c, !.policy = Tier!EvictedFrom(@, n)]
  BY DEF Evicted, Gone
<1> HIDE DEF taken, c, gone, v
<1>4. /\ less \in TierStates /\ less.policy = m.policy
      /\ less.entries = taken.entries /\ less.size = SizeAfter(m, n)
      /\ less.stats.hits = m.stats.hits /\ less.stats.misses = m.stats.misses
      /\ less.stats.evictions = m.stats.evictions
      /\ less.stats.entries = m.stats.entries - c
      /\ less.stats.size_bytes = IF c = 0 THEN m.stats.size_bytes ELSE SizeAfter(m, n)
  <2>1. CASE c = 0
    BY <1>2, <2>1 DEF Tier!TierUncount, TierStates, TierStats
  <2>2. CASE c # 0
    <3>1. less = [taken EXCEPT !.stats.entries = @ - c, !.stats.size_bytes = taken.size]
      BY <2>2 DEF Tier!TierUncount
    <3> DEFINE e == m.stats.entries - c
               st == [m.stats EXCEPT !.entries = e, !.size_bytes = SizeAfter(m, n)]
    <3> HIDE DEF less
    <3>2. less = [taken EXCEPT !.stats = st]
      BY <1>2, <3>1
    <3>3. taken.stats \in TierStats /\ m.stats \in TierStats /\ SizeAfter(m, n) \in Nat
          /\ e \in Int
      BY <1>1, <1>2 DEF TierStates, TierStats
    <3> HIDE DEF e
    <3>4. /\ st \in TierStats
          /\ st.hits = m.stats.hits /\ st.misses = m.stats.misses
          /\ st.evictions = m.stats.evictions
          /\ st.entries = e /\ st.size_bytes = SizeAfter(m, n)
      BY <1>1, <3>3 DEF TierStats
    <3> HIDE DEF st
    <3>5. /\ less \in TierStates /\ less.stats = st /\ less.policy = taken.policy
          /\ less.entries = taken.entries /\ less.size = taken.size
      BY <1>2, <3>2, <3>4 DEF TierStates
    <3>6. QED BY <1>2, <2>2, <3>4, <3>5 DEF e
  <2>3. QED BY <2>1, <2>2
<1> HIDE DEF less, p
<1>5. v = [less EXCEPT !.stats.evictions = @ + c, !.policy = p]
  BY <1>3, <1>4 DEF p
<1> DEFINE st == [less.stats EXCEPT !.evictions = @ + c]
<1>6. st \in TierStats
  BY <1>1, <1>4 DEF TierStates, TierStats
<1>7. /\ v \in TierStates /\ v.entries = less.entries /\ v.size = less.size
      /\ v.policy = p /\ v.stats = st
  <2>1. v = [less EXCEPT !.stats = st, !.policy = p]
    BY <1>5
  <2> HIDE DEF st
  <2>2. QED BY <1>4, <1>6, <2>1 DEF TierStates, p
<1>8. QED BY <1>1, <1>2, <1>4, <1>6, <1>7 DEF TierStates, TierStats, p, c, v, gone

\* The loop stops at one number of evictions only.
LEMMA LoopEnds ==
    ASSUME NEW m \in TierStates, NEW n \in 0 .. Len(Order(m)),
           n = Len(Order(m)) \/ Fits(SizeAfter(m, n)),
           \A j \in 0 .. n - 1 : ~ Fits(SizeAfter(m, j))
    PROVE  Tier!EvictForSpace(m) = Evicted(m, n)
<1> DEFINE all == Len(Order(m))
           Ends(x) == /\ x = all \/ Fits(SizeAfter(m, x))
                      /\ \A j \in 0 .. x - 1 : ~ Fits(SizeAfter(m, j))
<1>1. all \in Nat
  BY DEF Order, TierStates, LruStates
<1> HIDE DEF all
<1>2. Ends(n)
  BY DEF all
<1>3. \A x \in 0 .. all : Ends(x) => x = n
  <2> SUFFICES ASSUME NEW x \in 0 .. all, Ends(x), x # n PROVE FALSE
    OBVIOUS
  <2>1. CASE x < n
    BY <1>1, <2>1 DEF all
  <2>2. CASE n < x
    BY <1>1, <1>2, <2>2 DEF all
  <2>3. QED BY <1>1, <2>1, <2>2 DEF all
<1>4. (CHOOSE x \in 0 .. all : Ends(x)) = n
  BY <1>2, <1>3 DEF all
<1>5. \A s : Tier!TierFits(m, s) <=> Fits(s)
  BY DEF Tier!TierFits, Fits, TierStates
<1>6. (CHOOSE x \in 0 .. all :
          /\ x = all \/ Tier!TierFits(m, SizeAfter(m, x))
          /\ \A j \in 0 .. x - 1 : ~ Tier!TierFits(m, SizeAfter(m, j))) = n
  BY <1>4, <1>5
<1>7. QED BY <1>6, SameCardinality DEF Tier!EvictForSpace, Evicted, SizeAfter, Gone, all, Order

\* The LRU policy gives its keys up in the order of the deque.
LEMMA EvictsInOrder ==
    ASSUME NEW p \in LruStates, NEW n \in 0 .. Len(p.access_order)
    PROVE  LET s == p.access_order
               q == Tier!EvictedFrom(p, n)
           IN  /\ q \in LruStates
               /\ n < Len(s) => /\ s[n + 1] \in Keys
                                /\ Lru!LruEvict(q) = {[key |-> s[n + 1],
                                                       rest |-> Tier!EvictedFrom(p, n + 1)]}
               /\ n = Len(s) => Lru!LruEvict(q) = {[key |-> None, rest |-> q]}
<1> DEFINE s == p.access_order
           q == Tier!EvictedFrom(p, n)
           rest == SubSeq(s, n + 1, Len(s))
           known(i) == {x \in DOMAIN p.key_index : \A j \in 1 .. i : s[j] # x}
<1>1. PICK D \in SUBSET Keys : p.key_index \in [D -> Nat]
  BY DEF LruStates, Indexes
<1>2. s \in Seq(Keys) /\ DOMAIN p.key_index = D /\ n \in Nat /\ Len(s) \in Nat
  BY <1>1 DEF LruStates
<1>3. /\ rest \in Seq(Keys) /\ Len(rest) = Len(s) - n
      /\ \A j \in 1 .. Len(s) - n : rest[j] = s[n + j]
  BY <1>2
<1>4. q = [access_order |-> rest, key_index |-> [x \in known(n) |-> p.key_index[x]]]
  BY DEF Tier!EvictedFrom
<1>5. [x \in known(n) |-> p.key_index[x]] \in Indexes
  <2>1. known(n) \in SUBSET Keys /\ [x \in known(n) |-> p.key_index[x]] \in [known(n) -> Nat]
    BY <1>1, <1>2
  <2>2. QED BY <2>1, IndexOver
<1> HIDE DEF rest
<1>6. q \in LruStates
  BY <1>3, <1>4, <1>5 DEF LruStates
<1>7. ASSUME n < Len(s)
      PROVE  /\ s[n + 1] \in Keys
             /\ Lru!LruEvict(q) = {[key |-> s[n + 1], rest |-> Tier!EvictedFrom(p, n + 1)]}
  <2>1. rest # <<>> /\ Head(rest) = s[n + 1] /\ s[n + 1] \in Keys
    BY <1>2, <1>3, <1>7
  <2>2. Tail(rest) = SubSeq(s, (n + 1) + 1, Len(s))
    BY <1>2, <1>7 DEF rest
  <2>3. [x \in known(n) |-> p.key_index[x]] = q.key_index /\ DOMAIN q.key_index = known(n)
    BY <1>4
  <2>4. known(n) \ {s[n + 1]} = known(n + 1)
    BY <1>2
  <2>5. [x \in DOMAIN q.key_index \ {s[n + 1]} |-> q.key_index[x]]
           = [x \in known(n + 1) |-> p.key_index[x]]
    BY <2>3, <2>4
  <2>6. Tier!EvictedFrom(p, n + 1) =
           [access_order |-> Tail(rest), key_index |-> [x \in known(n + 1) |-> p.key_index[x]]]
    BY <2>2 DEF Tier!EvictedFrom
  <2> HIDE DEF known
  <2>7. q.access_order = rest
    BY <1>4
  <2> HIDE DEF q
  <2>8. QED BY <2>1, <2>5, <2>6, <2>7 DEF Lru!LruEvict
<1>8. ASSUME n = Len(s)
      PROVE  Lru!LruEvict(q) = {[key |-> None, rest |-> q]}
  <2>1. rest = <<>>
    BY <1>2, <1>3, <1>8
  <2>2. q.access_order = rest
    BY <1>4
  <2> HIDE DEF q
  <2>3. QED BY <2>1, <2>2 DEF Lru!LruEvict
<1>9. QED BY <1>6, <1>7, <1>8

LEMMA NoneEvicted ==
    ASSUME NEW m \in TierStates
    PROVE  /\ Tier!EvictedFrom(m.policy, 0) = m.policy
           /\ Gone(m, 0) = 0 /\ SizeAfter(m, 0) = m.size /\ Evicted(m, 0) = m
<1> DEFINE p == m.policy
           s == p.access_order
<1>1. PICK D \in SUBSET Keys : p.key_index \in [D -> Nat]
  BY DEF TierStates, LruStates, Indexes
<1>2. p \in LruStates /\ s \in Seq(Keys) /\ DOMAIN p.key_index = D
  BY <1>1 DEF TierStates, LruStates
<1>3. SubSeq(s, 0 + 1, Len(s)) = s
  BY <1>2
<1>4. [x \in {y \in D : \A j \in 1 .. 0 : s[j] # y} |-> p.key_index[x]] = p.key_index
  BY <1>1
<1>5. Tier!EvictedFrom(p, 0) = p
  <2>1. Tier!EvictedFrom(p, 0) = [access_order |-> s, key_index |-> p.key_index]
    BY <1>2, <1>3, <1>4 DEF Tier!EvictedFrom
  <2>2. QED BY <1>2, <2>1 DEF LruStates
<1>6. Tier!Victims(m, 0) = {}
  BY DEF Tier!Victims
<1>7. Gone(m, 0) = 0
  BY <1>6, FS_EmptySet DEF Gone
<1>8. SizeAfter(m, 0) = m.size
  BY <1>7, MemoryCacheAssumption DEF SizeAfter, Tier!SizeWithout, TierStates
<1> DEFINE v == Evicted(m, 0)
<1>9. /\ v \in TierStates /\ v.policy = p /\ v.size = m.size
      /\ v.entries = [k \in Keys |-> IF k \in {} THEN None ELSE m.entries[k]]
      /\ v.stats.hits = m.stats.hits /\ v.stats.misses = m.stats.misses
      /\ v.stats.evictions = m.stats.evictions + 0
      /\ v.stats.entries = m.stats.entries - 0
      /\ v.stats.size_bytes = m.stats.size_bytes
  BY <1>2, <1>5, <1>6, <1>7, <1>8, EvictedIs
<1> HIDE DEF v
<1>10. v.entries = m.entries
  BY <1>9 DEF TierStates
<1>11. v.stats = m.stats
  <2>1. v.stats \in TierStats /\ m.stats \in TierStats
    BY <1>9 DEF TierStates
  <2>2. /\ v.stats.evictions = m.stats.evictions /\ v.stats.entries = m.stats.entries
    BY <1>9, <2>1 DEF TierStats
  <2>3. QED BY <1>9, <2>1, <2>2, SameStats
<1>12. v = m
  BY <1>9, <1>10, <1>11, SameTier
<1>13. QED BY <1>5, <1>7, <1>8, <1>12 DEF v

\* Taking entries off the size one by one is taking them off at once.
LEMMA SizeNext ==
    ASSUME NEW m \in TierStates, NEW n \in Nat
    PROVE  Tier!SizeWithout(m, n + 1) = SatSub(Tier!SizeWithout(m, n), EntrySize)
<1>1. /\ m.size \in Nat /\ EntrySize \in Nat /\ EntrySize * n \in Nat
      /\ EntrySize * (n + 1) = EntrySize * n + EntrySize
  BY ScaleMono, ScaleAdd, MemoryCacheAssumption DEF TierStates
<1> DEFINE a == EntrySize * n
           b == EntrySize * (n + 1)
<1> HIDE DEF a, b
<1>2. a \in Nat /\ b = a + EntrySize
  BY <1>1 DEF a, b
<1>3. /\ Tier!SizeWithout(m, n) = IF m.size >= a THEN m.size - a ELSE 0
      /\ Tier!SizeWithout(m, n + 1) = IF m.size >= b THEN m.size - b ELSE 0
  BY DEF Tier!SizeWithout, a, b
<1>4. QED BY <1>1, <1>2, <1>3 DEF SatSub

\* One more key given up, that of a stored entry or that of none.
LEMMA EvictsNext ==
    ASSUME NEW m \in TierStates, NEW n \in Nat, n < Len(Order(m))
    PROVE  LET v == Order(m)[n + 1]
               now == Evicted(m, n)
               then == Evicted(m, n + 1)
           IN  /\ v \in Keys /\ now \in TierStates /\ then \in TierStates
               /\ then.entries = [now.entries EXCEPT ![v] = None]
               /\ now.entries[v] # None =>
                     /\ then.size = SatSub(now.size, EntrySize)
                     /\ then.stats = [now.stats EXCEPT !.evictions = @ + 1,
                                         !.entries = @ - 1, !.size_bytes = then.size]
               /\ now.entries[v] = None => then.size = now.size /\ then.stats = now.stats
<1> DEFINE s == Order(m)
           v == s[n + 1]
           now == Evicted(m, n)
           then == Evicted(m, n + 1)
           gone(i) == Tier!Victims(m, i)
<1>1. /\ m.policy \in LruStates /\ s \in Seq(Keys) /\ Len(s) \in Nat
      /\ n \in 0 .. Len(m.policy.access_order) /\ n + 1 \in 0 .. Len(m.policy.access_order)
      /\ s = m.policy.access_order
  BY DEF TierStates, LruStates, Order
<1>2. Tier!EvictedFrom(m.policy, n) \in LruStates /\ Tier!EvictedFrom(m.policy, n + 1) \in LruStates
  BY <1>1, EvictsInOrder
<1>3. v \in Keys
  BY <1>1
<1>4. gone(n + 1) = gone(n) \cup {x \in {v} : Tier!TierHolds(m, x)}
  BY <1>1, <1>3 DEF Tier!Victims
<1>5. /\ now \in TierStates /\ now.size = SizeAfter(m, n)
      /\ now.entries = [k \in Keys |-> IF k \in gone(n) THEN None ELSE m.entries[k]]
      /\ now.stats.hits = m.stats.hits /\ now.stats.misses = m.stats.misses
      /\ now.stats.evictions = m.stats.evictions + Gone(m, n)
      /\ now.stats.entries = m.stats.entries - Gone(m, n)
      /\ now.stats.size_bytes = IF Gone(m, n) = 0 THEN m.stats.size_bytes ELSE SizeAfter(m, n)
  BY <1>2, EvictedIs
<1>6. /\ then \in TierStates /\ then.size = SizeAfter(m, n + 1)
      /\ then.entries = [k \in Keys |-> IF k \in gone(n + 1) THEN None ELSE m.entries[k]]
      /\ then.stats.hits = m.stats.hits /\ then.stats.misses = m.stats.misses
      /\ then.stats.evictions = m.stats.evictions + Gone(m, n + 1)
      /\ then.stats.entries = m.stats.entries - Gone(m, n + 1)
      /\ then.stats.size_bytes =
            IF Gone(m, n + 1) = 0 THEN m.stats.size_bytes ELSE SizeAfter(m, n + 1)
  BY <1>2, EvictedIs
<1>7. /\ Gone(m, n) \in Nat /\ IsFiniteSet(gone(n))
      /\ now.stats \in TierStats /\ then.stats \in TierStats /\ m.stats \in TierStats
  BY <1>5, <1>6, VictimsFinite DEF TierStates
<1> HIDE DEF now, then, gone, v
<1>8. then.entries = [now.entries EXCEPT ![v] = None]
  BY <1>3, <1>4, <1>5, <1>6 DEF Tier!TierHolds
<1>9. ASSUME now.entries[v] # None
      PROVE  /\ then.size = SatSub(now.size, EntrySize)
             /\ then.stats = [now.stats EXCEPT !.evictions = @ + 1,
                                 !.entries = @ - 1, !.size_bytes = then.size]
  <2>1. gone(n + 1) = gone(n) \cup {v} /\ v \notin gone(n)
    BY <1>3, <1>4, <1>5, <1>9 DEF Tier!TierHolds
  <2>2. Gone(m, n + 1) = Gone(m, n) + 1
    BY <1>7, <2>1, FS_AddElement DEF Gone, gone
  <2>3. then.size = SatSub(now.size, EntrySize)
    BY <1>5, <1>6, <1>7, <2>2, SizeNext DEF SizeAfter
  <2> DEFINE e == now.stats.evictions + 1
             x == now.stats.entries - 1
             st == [now.stats EXCEPT !.evictions = e, !.entries = x, !.size_bytes = then.size]
  <2>3a. m.stats.evictions \in Nat /\ m.stats.entries \in Int
    BY <1>7 DEF TierStats
  <2>3b. now.stats.evictions \in Nat /\ now.stats.entries \in Int
    BY <1>7 DEF TierStats
  <2>4. e \in Nat /\ x \in Int /\ then.size \in Nat
    <3>1. then.size \in Nat
      BY <1>6 DEF TierStates
    <3>2. QED BY <2>3b, <3>1
  <2>5. /\ then.stats.evictions = e /\ then.stats.entries = x
        /\ then.stats.size_bytes = then.size
    <3>1. Gone(m, n + 1) # 0
      BY <1>7, <2>2
    <3>2. then.stats.size_bytes = then.size
      BY <1>6, <3>1
    <3>3. then.stats.evictions = e /\ then.stats.entries = x
      BY <1>5, <1>6, <1>7, <2>2, <2>3a
    <3>4. QED BY <3>2, <3>3
  <2> HIDE DEF e, x
  <2>6. /\ st \in TierStats /\ st.hits = now.stats.hits /\ st.misses = now.stats.misses
        /\ st.evictions = e /\ st.entries = x /\ st.size_bytes = then.size
    BY <1>7, <2>4 DEF TierStats
  <2> HIDE DEF st
  <2>7. then.stats = st
    BY <1>5, <1>6, <1>7, <2>5, <2>6, SameStats
  <2>8. QED BY <2>3, <2>7 DEF st, e, x
<1>10. ASSUME now.entries[v] = None
       PROVE  then.size = now.size /\ then.stats = now.stats
  <2>1. gone(n + 1) = gone(n)
    BY <1>3, <1>4, <1>5, <1>10 DEF Tier!TierHolds
  <2>2. Gone(m, n + 1) = Gone(m, n) /\ SizeAfter(m, n + 1) = SizeAfter(m, n)
    BY <2>1 DEF Gone, gone, SizeAfter
  <2>3. QED BY <1>5, <1>6, <1>7, <2>2, SameStats
<1>11. QED BY <1>3, <1>5, <1>6, <1>8, <1>9, <1>10 DEF now, then, v

\* What the other whole calls do to the tier, field by field.
LEMMA GetIs ==
    ASSUME NEW m \in TierStates, NEW k \in Keys
    PROVE  LET g == Tier!TierGet(m, k)
           IN  /\ Tier!TierHolds(m, k) /\ ~ Tier!TierExpired(m, k) =>
                     /\ g.result = m.entries[k].value
                     /\ g.tier.policy = Tier!LruOnAccess(m.policy, k)
                     /\ g.tier.entries = m.entries /\ g.tier.size = m.size
                     /\ g.tier.stats = [m.stats EXCEPT !.hits = @ + 1]
                     /\ g.tier.policy \in LruStates => g.tier \in TierStates
               /\ ~ Tier!TierHolds(m, k) =>
                     /\ g.result = None
                     /\ g.tier \in TierStates /\ g.tier.policy = m.policy
                     /\ g.tier.entries = m.entries /\ g.tier.size = m.size
                     /\ g.tier.stats = [m.stats EXCEPT !.misses = @ + 1]
<1> DEFINE g == Tier!TierGet(m, k)
           h == m.stats.hits + 1
           i == m.stats.misses + 1
           hit == [m.stats EXCEPT !.hits = h]
           miss == [m.stats EXCEPT !.misses = i]
           p == Tier!LruOnAccess(m.policy, k)
<1>1. m.stats \in TierStats /\ m.entries \in [Keys -> Entries \cup {None}]
  BY DEF TierStates
<1>2. h \in Nat /\ i \in Nat
  BY <1>1 DEF TierStats
<1> HIDE DEF h, i
<1>3. hit \in TierStats /\ miss \in TierStats
  BY <1>1, <1>2 DEF TierStats
<1>4. CASE Tier!TierHolds(m, k) /\ ~ Tier!TierExpired(m, k)
  <2> DEFINE t == [m EXCEPT !.policy = p, !.stats = hit]
  <2>1. g.result = m.entries[k].value /\ g.tier = t
    BY <1>4 DEF Tier!TierGet, h
  <2> HIDE DEF hit, p, g
  <2>2. /\ t.entries = m.entries /\ t.size = m.size /\ t.policy = p /\ t.stats = hit
        /\ p \in LruStates => t \in TierStates
    BY <1>3 DEF TierStates
  <2>3. hit = [m.stats EXCEPT !.hits = @ + 1]
    BY DEF hit, h
  <2> HIDE DEF t
  <2>4. QED BY <1>4, <2>1, <2>2, <2>3 DEF g, p
<1>5. CASE ~ Tier!TierHolds(m, k)
  <2> DEFINE t == [m EXCEPT !.entries = [m.entries EXCEPT ![k] = None], !.stats = miss]
  <2>1. g.result = None /\ g.tier = t
    BY <1>5 DEF Tier!TierGet, i
  <2>2. [m.entries EXCEPT ![k] = None] = m.entries
    BY <1>1, <1>5 DEF Tier!TierHolds
  <2> HIDE DEF miss, g
  <2>3. /\ t.entries = m.entries /\ t.size = m.size /\ t.policy = m.policy /\ t.stats = miss
        /\ t \in TierStates
    BY <1>1, <1>3, <2>2 DEF TierStates
  <2>4. miss = [m.stats EXCEPT !.misses = @ + 1]
    BY DEF miss, i
  <2> HIDE DEF t
  <2>5. QED BY <1>5, <2>1, <2>3, <2>4 DEF g
<1>6. QED BY <1>4, <1>5

LEMMA DeleteIs ==
    ASSUME NEW m \in TierStates, NEW k \in Keys
    PROVE  LET d == Tier!TierDelete(m, k)
           IN  /\ d.result = "ok" /\ d.tier \in TierStates
               /\ d.tier.entries = [m.entries EXCEPT ![k] = None]
               /\ d.tier.policy = m.policy
               /\ Tier!TierHolds(m, k) =>
                     /\ d.tier.size = SatSub(m.size, EntrySize)
                     /\ d.tier.stats = [m.stats EXCEPT !.entries = @ - 1,
                                                       !.size_bytes = d.tier.size]
               /\ ~ Tier!TierHolds(m, k) => d.tier = m
<1> DEFINE d == Tier!TierDelete(m, k)
           taken == Tier!TierTake(m, {k})
<1>1. m.stats \in TierStats /\ m.entries \in [Keys -> Entries \cup {None}]
  BY DEF TierStates
<1>2. CASE Tier!TierHolds(m, k)
  <2>1. /\ taken \in TierStates /\ taken.policy = m.policy /\ taken.stats = m.stats
        /\ taken.entries = [x \in Keys |-> IF x \in {k} THEN None ELSE m.entries[x]]
        /\ taken.size = Tier!SizeWithout(m, Cardinality({k}))
    BY TakeIs
  <2>2. taken.entries = [m.entries EXCEPT ![k] = None]
    BY <1>1, <2>1
  <2>3. taken.size = SatSub(m.size, EntrySize) /\ taken.size \in Nat
    <3>1. Cardinality({k}) = 0 + 1
      <4>1. Cardinality({k}) = 1
        BY FS_Singleton
      <4>2. QED BY <4>1
    <3>2. Tier!SizeWithout(m, 0) = m.size
      <4>1. m.size \in Nat /\ EntrySize * 0 = 0
        BY MemoryCacheAssumption DEF TierStates
      <4>2. QED BY <4>1 DEF Tier!SizeWithout
    <3>3. taken.size \in Nat
      BY <2>1 DEF TierStates
    <3>4. QED BY <2>1, <3>1, <3>2, <3>3, SizeNext
  <2> HIDE DEF taken
  <2> DEFINE e == m.stats.entries - 1
             st == [m.stats EXCEPT !.entries = e, !.size_bytes = taken.size]
             t == [taken EXCEPT !.stats = st]
  <2>4. e \in Int
    BY <1>1 DEF TierStats
  <2>5. d.result = "ok" /\ d.tier = t
    <3>1. d.result = "ok" /\ d.tier = Tier!TierUncount(taken, 1)
      BY <1>2 DEF Tier!TierDelete, taken
    <3>2. Tier!TierUncount(taken, 1) =
             [taken EXCEPT !.stats.entries = @ - 1, !.stats.size_bytes = taken.size]
      BY DEF Tier!TierUncount
    <3>3. [taken EXCEPT !.stats.entries = @ - 1, !.stats.size_bytes = taken.size]
             = [taken EXCEPT !.stats = [taken.stats EXCEPT !.entries = @ - 1,
                                                         !.size_bytes = taken.size]]
      OBVIOUS
    <3> HIDE DEF d
    <3>4. QED BY <2>1, <3>1, <3>2, <3>3
  <2> HIDE DEF e
  <2>6. st \in TierStats
    BY <1>1, <2>3, <2>4 DEF TierStats
  <2> HIDE DEF st, d
  <2>7. /\ t.entries = taken.entries /\ t.size = taken.size /\ t.policy = taken.policy
        /\ t.stats = st /\ t \in TierStates
    BY <2>1, <2>6 DEF TierStates
  <2>8. st = [m.stats EXCEPT !.entries = @ - 1, !.size_bytes = t.size]
    BY <2>7 DEF st, e
  <2> HIDE DEF t
  <2>9. QED BY <1>2, <2>1, <2>2, <2>3, <2>5, <2>7, <2>8 DEF d
<1>3. CASE ~ Tier!TierHolds(m, k)
  <2>1. d.result = "ok" /\ d.tier = m
    BY <1>3 DEF Tier!TierDelete
  <2>2. [m.entries EXCEPT ![k] = None] = m.entries
    BY <1>1, <1>3 DEF Tier!TierHolds
  <2>3. QED BY <1>3, <2>1, <2>2
<1>4. QED BY <1>2, <1>3

LEMMA ClearIs ==
    ASSUME NEW m \in TierStates
    PROVE  LET c == Tier!TierClear(m)
           IN  /\ c.result = "ok" /\ c.tier \in TierStates
               /\ c.tier.entries = [k \in Keys |-> None] /\ c.tier.size = 0
               /\ c.tier.policy = Tier!LruNew
               /\ c.tier.stats = [m.stats EXCEPT !.entries = 0, !.size_bytes = 0]
<1> DEFINE c == Tier!TierClear(m)
           new == Tier!TierNew(m.capacity)
           zero == 0
           st == [m.stats EXCEPT !.entries = zero, !.size_bytes = zero]
<1>1. st \in TierStats
  <2>1. m.stats \in TierStats /\ zero \in Nat /\ zero \in Int
    BY DEF TierStates
  <2> HIDE DEF zero
  <2>2. QED BY <2>1 DEF TierStats
<1>2. Tier!LruNew \in LruStates
  <2>1. <<>> \in Seq(Keys) /\ <<>> \in [{} -> Nat] /\ {} \in SUBSET Keys
    OBVIOUS
  <2>2. <<>> \in Indexes
    BY <2>1, IndexOver
  <2>3. QED BY <2>1, <2>2 DEF Tier!LruNew, LruStates
<1>3. /\ new \in TierStates /\ new.entries = [k \in Keys |-> None] /\ new.size = 0
  BY <1>2 DEF Tier!TierNew, TierStates, TierStats
<1>4. c.result = "ok" /\ c.tier = [new EXCEPT !.stats = st, !.policy = Tier!LruNew]
  BY DEF Tier!TierClear, Tier!LruReset
<1> DEFINE t == [new EXCEPT !.stats = st, !.policy = Tier!LruNew]
<1> HIDE DEF c, new, st
<1>5. /\ t \in TierStates /\ t.stats = st /\ t.policy = Tier!LruNew
      /\ t.entries = new.entries /\ t.size = new.size
  BY <1>1, <1>2, <1>3 DEF TierStates
<1> HIDE DEF t
<1>6. c.result = "ok" /\ c.tier = t
  BY <1>4 DEF t
<1>7. QED BY <1>3, <1>5, <1>6 DEF c, st, zero
-----------------------------------------------------------------------------
(* How far the call in progress has got *)

\* The tier as the call in progress found it.
Untouched ==
    /\ entries = before.entries /\ policy = before.policy
    /\ size_bytes = before.size /\ stats = before.stats

\* How far each call has got from there.
Reading(t) ==
    LET k == call[t].key IN
    /\ pc[t] \in {"get_check", "get_read", "get_access", "get_miss", "exists"} => Untouched
    /\ pc[t] = "get_hit" =>
          /\ entries = before.entries /\ size_bytes = before.size /\ stats = before.stats
          /\ policy = Tier!LruOnAccess(before.policy, k)
    /\ pc[t] \in {"get_access", "get_hit"} =>
          k \in Stored /\ local[t].value = entries[k].value
    /\ pc[t] = "get_miss" => k \notin Stored

Deleting(t) ==
    LET k == call[t].key IN
    /\ pc[t] = "del_remove" => Untouched
    /\ pc[t] \in {"del_sub", "del_stats"} =>
          /\ Tier!TierHolds(before, k) /\ entries = [before.entries EXCEPT ![k] = None]
          /\ policy = before.policy /\ stats = before.stats
    /\ pc[t] = "del_sub" => size_bytes = before.size
    /\ pc[t] = "del_stats" => size_bytes = SatSub(before.size, EntrySize)

Clearing(t) ==
    /\ pc[t] \in ClearSteps => policy = before.policy
    /\ pc[t] \in {"clear_entries", "clear_size", "clear_stats"} => stats = before.stats
    /\ pc[t] \in {"clear_stats", "clear_policy"} => size_bytes = 0
    /\ pc[t] = "clear_policy" =>
          stats = [before.stats EXCEPT !.entries = 0, !.size_bytes = 0]

\* The tier that eviction starts from: without the entry that set replaces.
Given(t) ==
    IF Tier!TierHolds(before, call[t].key) THEN Tier!TierTake(before, {call[t].key})
                                           ELSE before

\* The four parts of the tier are those of the tiers e, p, s and c.
PartsOf(e, p, s, c) ==
    /\ entries = e.entries /\ policy = p.policy /\ size_bytes = s.size /\ stats = c.stats

\* The loop of evict_for_space has taken n keys, or is taking the next.
Evicting(t, n) ==
    LET m == Given(t)
        now == Evicted(m, n)
        then == Evicted(m, n + 1)
    IN  /\ \A j \in 0 .. n - 1 : ~ Fits(SizeAfter(m, j))
        /\ pc[t] \in {"evict_check", "evict_pop", "evict_fail", "set_insert"} =>
              PartsOf(now, now, now, now)
        /\ pc[t] \in {"evict_pop", "evict_remove", "evict_sub", "evict_stats", "evict_fail"} =>
              ~ Fits(SizeAfter(m, n))
        /\ pc[t] \in {"evict_remove", "evict_sub", "evict_stats"} => n < Len(Order(m))
        /\ pc[t] \in {"evict_sub", "evict_stats"} => now.entries[Order(m)[n + 1]] # None
        /\ pc[t] = "evict_remove" =>
              local[t].victim = Order(m)[n + 1] /\ PartsOf(now, then, now, now)
        /\ pc[t] = "evict_sub" => PartsOf(then, then, now, now)
        /\ pc[t] = "evict_stats" => PartsOf(then, then, then, now)
        /\ pc[t] = "evict_fail" => n = Len(Order(m))
        /\ pc[t] = "set_insert" => Fits(SizeAfter(m, n))

Looping == {"evict_check", "evict_pop", "evict_remove", "evict_sub", "evict_stats",
            "evict_fail", "set_insert"}

Room(t) == Tier!EvictForSpace(Given(t))

\* The step that follows the loop, one by one.
Storing(t) ==
    LET k == call[t].key
        r == Room(t)
    IN  /\ r \in TierStates /\ Fits(r.size) /\ policy = r.policy
        /\ entries = [r.entries EXCEPT ![k] = [value |-> call[t].value,
                                               life |-> call[t].life]]
        /\ pc[t] = "set_add" => size_bytes = r.size /\ stats = r.stats
        /\ pc[t] \in {"set_stats", "set_policy"} => size_bytes = r.size + EntrySize
        /\ pc[t] = "set_stats" => local[t].final_size = size_bytes /\ stats = r.stats
        /\ pc[t] = "set_policy" =>
              stats = [r.stats EXCEPT
                          !.entries = IF Tier!TierHolds(before, k) THEN @ ELSE @ + 1,
                          !.size_bytes = r.size + EntrySize]

Setting(t) ==
    LET m == Given(t) IN
    /\ pc[t] = "set_remove" => Untouched
    /\ pc[t] \in SetSteps \ {"set_remove"} =>
          (Old(t) = 1 <=> Tier!TierHolds(before, call[t].key))
    /\ pc[t] = "set_sub" =>
          /\ entries = m.entries /\ policy = m.policy /\ stats = m.stats
          /\ size_bytes = before.size
    /\ pc[t] \in Looping => \E n \in 0 .. Len(Order(m)) : Evicting(t, n)
    /\ pc[t] \in {"set_add", "set_stats", "set_policy"} => Storing(t)

Along(t) ==
    /\ before \in TierStates /\ policy \in LruStates
    /\ Reading(t) /\ Deleting(t) /\ Clearing(t) /\ Setting(t)

\* A call that returns has done what the whole call does.
Done(t) ==
    pc[t] # "idle" /\ pc'[t] = "idle" =>
        ret'[t] = Whole(call[t]).result /\ Now' = Whole(call[t]).tier

LEMMA NowIs ==
    ASSUME TypeOK, policy \in LruStates
    PROVE  /\ Now \in TierStates /\ Now.entries = entries /\ Now.policy = policy
           /\ Now.size = size_bytes /\ Now.stats = stats
<1>1. stats \in TierStats
  BY MemoryCacheAssumption DEF TypeOK, TierStats
<1>2. QED BY <1>1 DEF Now, TierStates, TypeOK

LEMMA NowIsNext ==
    ASSUME TypeOK', policy' \in LruStates
    PROVE  /\ Now' \in TierStates /\ Now'.entries = entries' /\ Now'.policy = policy'
           /\ Now'.size = size_bytes' /\ Now'.stats = stats'
<1>1. stats' \in TierStats
  BY MemoryCacheAssumption DEF TypeOK, TierStats
<1>2. QED BY <1>1 DEF Now, TierStates, TypeOK

\* The LRU policy that the tier's operators bring along is the LRU policy.
LEMMA SamePolicy ==
    /\ Tier!LruNew = Lru!LruNew
    /\ \A p, k : Tier!LruOnAccess(p, k) = Lru!LruOnAccess(p, k)
    /\ \A p, k : Tier!LruOnInsert(p, k) = Lru!LruOnInsert(p, k)
PROOF BY DEF Tier!LruNew, Lru!LruNew, Tier!LruOnAccess, Lru!LruOnAccess,
             Tier!LruOnInsert, Lru!LruOnInsert, Tier!PushAndRecord, Lru!PushAndRecord,
             Tier!DequeRemove, Lru!DequeRemove, Tier!ShiftIndex, Lru!ShiftIndex

LEMMA ReadWhole ==
    ASSUME IsLru, TypeOK, TypeOK', NEW t \in Threads, Alone(t), Along(t), ReadStep(t),
           before' = before
    PROVE  Along(t)' /\ Done(t)
<1> USE DEF TypeOK, Goto, Return
<1> DEFINE k == call[t].key
           g == Tier!TierGet(before, k)
<1>1. /\ before \in TierStates /\ policy \in LruStates /\ Reading(t)
      /\ \A x \in Stored : entries[x].life = "forever"
  BY DEF Along, Alone, Where
<1>2. pc[t] \in {"get_check", "get_expire", "get_read", "get_access", "get_hit", "get_miss",
                 "exists"} /\ k \in Keys
  BY CallShape DEF ReadStep, GetCheck, GetExpire, GetRead, GetAccess, GetHit, GetMiss, Exists
<1>3. ASSUME pc'[t] \in {"get_read", "get_access", "get_hit", "get_miss"},
             policy' \in LruStates, Reading(t)'
      PROVE  Along(t)' /\ Done(t)
  BY <1>1, <1>3 DEF Along, Deleting, Clearing, Setting, ClearSteps, SetSteps, Looping, Done
<1>4. ASSUME pc'[t] = "idle", policy' \in LruStates
      PROVE  Along(t)'
  BY <1>1, <1>4 DEF Along, Reading, Deleting, Clearing, Setting, ClearSteps, SetSteps, Looping
<1>5. k \in Stored /\ entries = before.entries =>
         Tier!TierHolds(before, k) /\ ~ Tier!TierExpired(before, k)
  BY <1>1 DEF Stored, Tier!TierHolds, Tier!TierExpired
<1>6. CASE GetCheck(t)
  <2>1. /\ UNCHANGED <<entries, policy, size_bytes, stats, call, local>>
        /\ pc[t] = "get_check" /\ pc'[t] = "get_read"
    BY <1>1, <1>6 DEF GetCheck
  <2>2. Reading(t)'
    BY <1>1, <2>1 DEF Reading, Untouched
  <2>3. QED BY <1>1, <1>3, <2>1, <2>2
<1>7. CASE GetExpire(t)
  BY <1>7 DEF GetExpire, Alone, Where
<1>8. CASE GetRead(t)
  <2>1. /\ UNCHANGED <<entries, policy, size_bytes, stats, call>> /\ pc[t] = "get_read"
        /\ k \in Stored => pc'[t] = "get_access" /\ local'[t].value = entries[k].value
        /\ k \notin Stored => pc'[t] = "get_miss"
    BY <1>8 DEF GetRead, Locals
  <2>2. Reading(t)'
    BY <1>1, <2>1 DEF Reading, Untouched, Stored
  <2>3. QED BY <1>1, <1>3, <2>1, <2>2
<1>9. CASE GetAccess(t)
  <2>1. /\ UNCHANGED <<entries, size_bytes, stats, call, local>>
        /\ pc[t] = "get_access" /\ pc'[t] = "get_hit"
        /\ policy' = Tier!LruOnAccess(policy, k)
    BY <1>9, SamePolicy DEF GetAccess, IsLru
  <2>2. policy' \in LruStates
    BY <1>1, <1>2, <2>1, UseKeeps, SamePolicy
  <2>3. Reading(t)'
    BY <1>1, <2>1 DEF Reading, Untouched, Stored
  <2>4. QED BY <1>3, <2>1, <2>2, <2>3
<1>10. CASE GetHit(t)
  <2>1. /\ UNCHANGED <<entries, policy, size_bytes>> /\ pc[t] = "get_hit" /\ pc'[t] = "idle"
        /\ stats' = [stats EXCEPT !.hits = @ + 1] /\ ret'[t] = local[t].value
    BY <1>10 DEF GetHit
  <2>2. /\ entries = before.entries /\ size_bytes = before.size /\ stats = before.stats
        /\ policy = Tier!LruOnAccess(before.policy, k)
        /\ k \in Stored /\ local[t].value = entries[k].value
    BY <1>1, <2>1 DEF Reading
  <2>3. /\ g.result = before.entries[k].value /\ g.tier \in TierStates
        /\ g.tier.policy = policy' /\ g.tier.entries = entries' /\ g.tier.size = size_bytes'
        /\ g.tier.stats = stats'
    <3>1. stats' = [before.stats EXCEPT !.hits = @ + 1]
      BY <2>1, <2>2 DEF Untouched
    <3> HIDE DEF TypeOK
    <3>2. /\ g.result = before.entries[k].value /\ g.tier.entries = before.entries
          /\ g.tier.size = before.size /\ g.tier.policy = Tier!LruOnAccess(before.policy, k)
          /\ g.tier.stats = [before.stats EXCEPT !.hits = @ + 1]
          /\ g.tier.policy \in LruStates => g.tier \in TierStates
      BY <1>1, <1>2, <1>5, <2>2, GetIs
    <3> HIDE DEF g
    <3>3. QED BY <1>1, <2>1, <2>2, <3>1, <3>2 DEF Untouched
  <2>4. /\ Now' \in TierStates /\ Now'.entries = entries' /\ Now'.policy = policy'
        /\ Now'.size = size_bytes' /\ Now'.stats = stats'
    BY <1>1, <2>1, NowIsNext
  <2>5. Now' = g.tier
    BY <2>3, <2>4, SameTier
  <2>6. Whole(call[t]) = g
    <3>1. call[t].op = "get"
      BY <2>1
    <3> HIDE DEF TypeOK
    <3>2. QED BY <3>1 DEF Whole
  <2> HIDE DEF TypeOK
  <2>7. QED BY <1>1, <1>4, <2>1, <2>2, <2>3, <2>5, <2>6 DEF Done
<1>11. CASE GetMiss(t)
  <2>1. /\ UNCHANGED <<entries, policy, size_bytes>> /\ pc[t] = "get_miss" /\ pc'[t] = "idle"
        /\ stats' = [stats EXCEPT !.misses = @ + 1] /\ ret'[t] = None
    BY <1>11 DEF GetMiss
  <2>2. Untouched /\ ~ Tier!TierHolds(before, k)
    BY <1>1, <1>2, <2>1 DEF Reading, Untouched, Stored, Tier!TierHolds
  <2>3. /\ g.result = None /\ g.tier \in TierStates
        /\ g.tier.policy = policy' /\ g.tier.entries = entries' /\ g.tier.size = size_bytes'
        /\ g.tier.stats = stats'
    <3>1. stats' = [before.stats EXCEPT !.misses = @ + 1]
      BY <2>1, <2>2 DEF Untouched
    <3> HIDE DEF TypeOK
    <3>2. /\ g.result = None /\ g.tier.entries = before.entries
          /\ g.tier.size = before.size /\ g.tier.policy = before.policy
          /\ g.tier.stats = [before.stats EXCEPT !.misses = @ + 1]
          /\ g.tier.policy \in LruStates => g.tier \in TierStates
      BY <1>1, <1>2, <2>2, GetIs
    <3> HIDE DEF g
    <3>3. QED BY <1>1, <2>1, <2>2, <3>1, <3>2 DEF Untouched
  <2>4. /\ Now' \in TierStates /\ Now'.entries = entries' /\ Now'.policy = policy'
        /\ Now'.size = size_bytes' /\ Now'.stats = stats'
    BY <1>1, <2>1, NowIsNext
  <2>5. Now' = g.tier
    BY <2>3, <2>4, SameTier
  <2>6. Whole(call[t]) = g
    <3>1. call[t].op = "get"
      BY <2>1
    <3> HIDE DEF TypeOK
    <3>2. QED BY <3>1 DEF Whole
  <2> HIDE DEF TypeOK
  <2>7. QED BY <1>1, <1>4, <2>1, <2>3, <2>5, <2>6 DEF Done
<1>12. CASE Exists(t)
  <2> DEFINE x == Tier!TierExists(before, k)
  <2>1. /\ UNCHANGED <<entries, policy, size_bytes, stats>>
        /\ pc[t] = "exists" /\ pc'[t] = "idle"
        /\ ret'[t] = IF k \in Stored THEN "present" ELSE "absent"
    BY <1>1, <1>12 DEF Exists
  <2>2. Untouched
    BY <1>1, <2>1 DEF Reading
  <2>3. x.result = ret'[t] /\ x.tier = before
    BY <1>2, <1>5, <2>1, <2>2 DEF Tier!TierExists, Untouched, Stored, Tier!TierHolds
  <2>4. /\ Now' \in TierStates /\ Now'.entries = entries' /\ Now'.policy = policy'
        /\ Now'.size = size_bytes' /\ Now'.stats = stats'
    BY <1>1, <2>1, NowIsNext
  <2>5. Now' = before
    BY <1>1, <2>1, <2>2, <2>4, SameTier DEF Untouched
  <2>6. Whole(call[t]) = x
    BY <2>1 DEF Whole
  <2> HIDE DEF TypeOK
  <2>7. QED BY <1>1, <1>4, <2>1, <2>3, <2>5, <2>6 DEF Done
<1>13. QED
  BY <1>6, <1>7, <1>8, <1>9, <1>10, <1>11, <1>12 DEF ReadStep

LEMMA DeleteWhole ==
    ASSUME TypeOK, TypeOK', NEW t \in Threads, Alone(t), Along(t), DeleteStep(t),
           before' = before
    PROVE  Along(t)' /\ Done(t)
<1> USE DEF TypeOK, Goto, Return
<1> DEFINE k == call[t].key
           d == Tier!TierDelete(before, k)
<1>1. /\ before \in TierStates /\ policy \in LruStates /\ Deleting(t)
      /\ Where(t) /\ Exact(t)
  BY DEF Along, Alone
<1>2. /\ pc[t] \in {"del_remove", "del_sub", "del_stats"} /\ k \in Keys /\ policy' = policy
      /\ call[t].op = "delete"
  BY CallShape DEF DeleteStep, DelRemove, DelSub, DelStats
<1>3. ASSUME pc'[t] \in {"del_sub", "del_stats"}, Deleting(t)'
      PROVE  Along(t)' /\ Done(t)
  BY <1>1, <1>2, <1>3 DEF Along, Reading, Clearing, Setting, ClearSteps, SetSteps, Looping, Done
<1>4. ASSUME pc'[t] = "idle"
      PROVE  Along(t)'
  BY <1>1, <1>2, <1>4
     DEF Along, Reading, Deleting, Clearing, Setting, ClearSteps, SetSteps, Looping
<1>5. /\ Now' \in TierStates /\ Now'.entries = entries' /\ Now'.policy = policy'
      /\ Now'.size = size_bytes' /\ Now'.stats = stats'
  BY <1>1, <1>2, NowIsNext
<1>6. Whole(call[t]) = d
  <2> HIDE DEF TypeOK
  <2>1. QED BY <1>2 DEF Whole
<1>7. /\ d.result = "ok" /\ d.tier \in TierStates /\ d.tier.policy = before.policy
      /\ d.tier.entries = [before.entries EXCEPT ![k] = None]
      /\ Tier!TierHolds(before, k) =>
            /\ d.tier.size = SatSub(before.size, EntrySize)
            /\ d.tier.stats = [before.stats EXCEPT !.entries = @ - 1,
                                                   !.size_bytes = d.tier.size]
      /\ ~ Tier!TierHolds(before, k) => d.tier = before
  <2>1. before \in TierStates /\ k \in Keys
    BY <1>1, <1>2
  <2> HIDE DEF TypeOK
  <2>2. QED BY <2>1, DeleteIs
<1>8. CASE DelRemove(t)
  <2>1. /\ UNCHANGED <<size_bytes, stats>> /\ pc[t] = "del_remove"
        /\ entries' = [entries EXCEPT ![k] = None]
        /\ k \in Stored => pc'[t] = "del_sub" /\ call' = call
        /\ k \notin Stored => pc'[t] = "idle" /\ ret'[t] = "ok"
    BY <1>8 DEF DelRemove, Forget
  <2>2. Untouched /\ (k \in Stored <=> Tier!TierHolds(before, k))
    BY <1>1, <1>2, <2>1 DEF Deleting, Untouched, Stored, Tier!TierHolds
  <2>3. CASE k \in Stored
    <3>1. Deleting(t)'
      BY <1>2, <2>1, <2>2, <2>3 DEF Deleting, Untouched
    <3>2. QED BY <1>3, <2>1, <2>3, <3>1
  <2>4. CASE k \notin Stored
    <3>1. entries' = entries
      BY <2>1, <2>4 DEF Stored
    <3>2. Now' = d.tier
      BY <1>1, <1>2, <1>5, <1>7, <2>1, <2>2, <2>4, <3>1, SameTier DEF Untouched
    <3> HIDE DEF TypeOK, d
    <3>3. QED BY <1>4, <1>6, <1>7, <2>1, <2>4, <3>2 DEF Done
  <2>5. QED BY <2>3, <2>4
<1>9. CASE DelSub(t)
  <2>1. /\ UNCHANGED <<entries, stats, call>> /\ pc[t] = "del_sub" /\ pc'[t] = "del_stats"
        /\ size_bytes' = SatSub(size_bytes, EntrySize)
    BY <1>9 DEF DelSub, SubtractEntry
  <2>2. Deleting(t)'
    BY <1>1, <1>2, <2>1 DEF Deleting
  <2>3. QED BY <1>3, <2>1, <2>2
<1>10. CASE DelStats(t)
  <2>1. pc[t] = "del_stats" /\ UNCHANGED <<entries, size_bytes>> /\ stats.entries = Count + 1
    BY <1>1, <1>10 DEF DelStats, Exact
  <2>2. /\ Return(t, "ok")
        /\ stats' = [stats EXCEPT !.entries = (@ - 1) % Width, !.size_bytes = size_bytes]
    BY <1>10, <2>1, AloneCount DEF DelStats
  <2>3. pc'[t] = "idle" /\ ret'[t] = "ok"
    BY <2>2
  <2>4. (stats.entries - 1) % Width = stats.entries - 1
    <3>1. Count \in Nat /\ stats.entries \in 0 .. Width - 1 /\ Width \in Nat
      BY StoredFinite, MemoryCacheAssumption DEF Count
    <3>2. stats.entries - 1 \in 0 .. Width - 1
      BY <2>1, <3>1
    <3>3. QED BY <3>2, ModSmall
  <2>5. /\ Tier!TierHolds(before, k) /\ entries = [before.entries EXCEPT ![k] = None]
        /\ policy = before.policy /\ stats = before.stats
        /\ size_bytes = SatSub(before.size, EntrySize)
    BY <1>1, <2>1 DEF Deleting
  <2>6. stats' = d.tier.stats
    <3>1. stats' = [stats EXCEPT !.entries = @ - 1, !.size_bytes = size_bytes]
      BY <2>2, <2>4
    <3> HIDE DEF d, TypeOK
    <3>2. QED BY <1>7, <2>5, <3>1
  <2>7. Now' = d.tier
    <3> HIDE DEF d, TypeOK
    <3>1. QED BY <1>2, <1>5, <1>7, <2>1, <2>5, <2>6, SameTier
  <2> HIDE DEF TypeOK, d
  <2>8. QED BY <1>4, <1>6, <1>7, <2>3, <2>7 DEF Done
<1>11. QED BY <1>8, <1>9, <1>10 DEF DeleteStep

LEMMA ClearWhole ==
    ASSUME IsLru, TypeOK, TypeOK', NEW t \in Threads, Alone(t), Along(t), ClearStep(t),
           before' = before
    PROVE  Along(t)' /\ Done(t)
<1> USE DEF TypeOK, Goto, Return
<1> DEFINE c == Tier!TierClear(before)
<1>1. /\ before \in TierStates /\ policy \in LruStates /\ Clearing(t) /\ Where(t)
  BY DEF Along, Alone
<1>2. pc[t] \in ClearSteps /\ call[t].op = "clear"
  BY DEF ClearStep, ClearEntries, ClearSize, ClearStats, ClearPolicy, ClearSteps
<1>3. ASSUME pc'[t] \in ClearSteps, policy' = policy, Clearing(t)'
      PROVE  Along(t)' /\ Done(t)
  BY <1>1, <1>3 DEF Along, Reading, Deleting, Setting, ClearSteps, SetSteps, Looping, Done
<1>4. CASE ClearEntries(t)
  <2>1. /\ UNCHANGED <<policy, size_bytes, stats>> /\ pc[t] = "clear_entries"
        /\ pc'[t] \in {"clear_entries", "clear_size"}
    BY <1>4 DEF ClearEntries
  <2>2. QED BY <1>1, <1>3, <2>1 DEF Clearing, ClearSteps
<1>5. CASE ClearSize(t)
  <2>1. /\ UNCHANGED <<policy, stats>> /\ pc[t] = "clear_size" /\ pc'[t] = "clear_stats"
        /\ size_bytes' = 0
    BY <1>5 DEF ClearSize
  <2>2. QED BY <1>1, <1>3, <2>1 DEF Clearing, ClearSteps
<1>6. CASE ClearStats(t)
  <2>1. /\ UNCHANGED <<policy, size_bytes>> /\ pc[t] = "clear_stats"
        /\ pc'[t] = "clear_policy"
        /\ stats' = [stats EXCEPT !.entries = 0, !.size_bytes = 0]
    BY <1>6 DEF ClearStats
  <2>2. policy = before.policy /\ stats = before.stats /\ size_bytes = 0
    BY <1>1, <2>1 DEF Clearing, ClearSteps
  <2>3. stats' = [before.stats EXCEPT !.entries = 0, !.size_bytes = 0]
    BY <2>1, <2>2
  <2> HIDE DEF TypeOK
  <2>4. Clearing(t)'
    BY <1>1, <2>1, <2>2, <2>3 DEF Clearing, ClearSteps
  <2>5. QED BY <1>3, <2>1, <2>4 DEF ClearSteps
<1>7. CASE ClearPolicy(t)
  <2>1. /\ UNCHANGED <<entries, size_bytes, stats>> /\ pc[t] = "clear_policy"
        /\ pc'[t] = "idle" /\ ret'[t] = "ok" /\ policy' = Tier!LruNew
    BY <1>7, SamePolicy DEF ClearPolicy, IsLru, Lru!LruReset
  <2>2. /\ stats = [before.stats EXCEPT !.entries = 0, !.size_bytes = 0]
        /\ size_bytes = 0 /\ Stored = {}
    BY <1>1, <2>1 DEF Clearing, Where, ClearSteps
  <2>3. entries = [x \in Keys |-> None]
    BY <2>2 DEF Stored
  <2>4. /\ c.result = "ok" /\ c.tier \in TierStates
        /\ c.tier.entries = [x \in Keys |-> None] /\ c.tier.size = 0
        /\ c.tier.policy = Tier!LruNew
        /\ c.tier.stats = [before.stats EXCEPT !.entries = 0, !.size_bytes = 0]
    BY <1>1, ClearIs
  <2> HIDE DEF c
  <2>5. policy' \in LruStates
    BY <2>1, <2>4 DEF TierStates
  <2>6. /\ Now' \in TierStates /\ Now'.entries = entries' /\ Now'.policy = policy'
        /\ Now'.size = size_bytes' /\ Now'.stats = stats'
    BY <2>5, NowIsNext
  <2> HIDE DEF TypeOK
  <2>7. Now' = c.tier
    BY <2>1, <2>2, <2>3, <2>4, <2>6, SameTier
  <2>8. Whole(call[t]) = c
    BY <1>2 DEF Whole, c
  <2>9. Along(t)'
    BY <1>1, <2>1, <2>5
       DEF Along, Reading, Deleting, Clearing, Setting, ClearSteps, SetSteps, Looping
  <2>10. QED BY <2>1, <2>4, <2>7, <2>8, <2>9 DEF Done
<1>8. QED BY <1>4, <1>5, <1>6, <1>7 DEF ClearStep

\* The tier that eviction starts from.
LEMMA GivenIs ==
    ASSUME NEW t \in Threads, before \in TierStates, call[t].key \in Keys
    PROVE  LET m == Given(t)
               k == call[t].key
           IN  /\ m \in TierStates /\ m.policy = before.policy /\ m.stats = before.stats
               /\ m.entries = [before.entries EXCEPT ![k] = None]
               /\ Tier!TierHolds(before, k) => m.size = SatSub(before.size, EntrySize)
               /\ ~ Tier!TierHolds(before, k) => m = before
               /\ Order(m) \in Seq(Keys) /\ Len(Order(m)) \in Nat
<1> DEFINE k == call[t].key
           m == Given(t)
           d == Tier!TierDelete(before, k)
           taken == Tier!TierTake(before, {k})
<1>1. /\ before.entries \in [Keys -> Entries \cup {None}] /\ before.policy \in LruStates
  BY DEF TierStates
<1>2. CASE Tier!TierHolds(before, k)
  <2>1. m = taken
    BY <1>2 DEF Given
  <2>2. /\ taken \in TierStates /\ taken.policy = before.policy /\ taken.stats = before.stats
        /\ taken.entries = [x \in Keys |-> IF x \in {k} THEN None ELSE before.entries[x]]
        /\ taken.size = Tier!SizeWithout(before, Cardinality({k}))
    BY TakeIs
  <2>3. taken.entries = [before.entries EXCEPT ![k] = None]
    BY <1>1, <2>2
  <2>4. taken.size = SatSub(before.size, EntrySize)
    <3>1. Cardinality({k}) = 0 + 1
      <4>1. Cardinality({k}) = 1
        BY FS_Singleton
      <4>2. QED BY <4>1
    <3>2. Tier!SizeWithout(before, 0) = before.size
      <4>1. before.size \in Nat /\ EntrySize * 0 = 0
        BY MemoryCacheAssumption DEF TierStates
      <4>2. QED BY <4>1 DEF Tier!SizeWithout
    <3>3. QED BY <2>2, <3>1, <3>2, SizeNext
  <2>5. Order(taken) \in Seq(Keys)
    BY <1>1, <2>2 DEF Order, LruStates
  <2> HIDE DEF taken, m
  <2>6. QED BY <1>2, <2>1, <2>2, <2>3, <2>4, <2>5 DEF m
<1>3. CASE ~ Tier!TierHolds(before, k)
  <2>1. m = before
    BY <1>3 DEF Given
  <2>2. [before.entries EXCEPT ![k] = None] = before.entries
    BY <1>1, <1>3 DEF Tier!TierHolds
  <2>3. Order(before) \in Seq(Keys)
    BY <1>1 DEF Order, LruStates
  <2> HIDE DEF m
  <2>4. QED BY <1>3, <2>1, <2>2, <2>3 DEF m
<1>4. QED BY <1>2, <1>3

\* A whole set, field by field, once its room is made.
LEMMA SetIs ==
    ASSUME NEW t \in Threads, call[t].key \in Keys, call[t].value \in Values,
           call[t].life \in Lives, Room(t) \in TierStates
    PROVE  LET r == Room(t)
               k == call[t].key
               s == Tier!TierSet(before, k, call[t].value, call[t].life)
           IN  /\ ~ Fits(r.size) => s.result = "full" /\ s.tier = r
               /\ Fits(r.size) =>
                     /\ s.result = "ok"
                     /\ s.tier.entries = [r.entries EXCEPT ![k] =
                                             [value |-> call[t].value, life |-> call[t].life]]
                     /\ s.tier.size = r.size + EntrySize
                     /\ s.tier.policy = Tier!LruOnInsert(r.policy, k)
                     /\ s.tier.stats =
                           [r.stats EXCEPT
                               !.entries = IF Tier!TierHolds(before, k) THEN @ ELSE @ + 1,
                               !.size_bytes = r.size + EntrySize]
                     /\ s.tier.policy \in LruStates => s.tier \in TierStates
<1> DEFINE k == call[t].key
           v == call[t].value
           l == call[t].life
           r == Room(t)
           s == Tier!TierSet(before, k, v, l)
           old == Tier!TierHolds(before, k)
           size == r.size + EntrySize
<1>0. s = IF ~ Tier!TierFits(r, r.size)
          THEN [result |-> "full", tier |-> r]
          ELSE [result |-> "ok",
                tier |-> [r EXCEPT !.entries[k] = [value |-> v, life |-> l],
                                   !.size = size,
                                   !.stats.entries = IF old THEN @ ELSE @ + 1,
                                   !.stats.size_bytes = size,
                                   !.policy = Tier!LruOnInsert(@, k)]]
  BY DEF Tier!TierSet, Room, Given
<1> HIDE DEF r, s
<1>1. Tier!TierFits(r, r.size) <=> Fits(r.size)
  BY DEF Tier!TierFits, Fits, TierStates, r
<1>2. CASE ~ Fits(r.size)
  BY <1>0, <1>1, <1>2 DEF r, s
<1>3. CASE Fits(r.size)
  <2> DEFINE es == [r.entries EXCEPT ![k] = [value |-> v, life |-> l]]
             c == IF old THEN r.stats.entries ELSE r.stats.entries + 1
             st == [r.stats EXCEPT !.entries = c, !.size_bytes = size]
             p == Tier!LruOnInsert(r.policy, k)
             new == [r EXCEPT !.entries = es, !.size = size, !.stats = st, !.policy = p]
  <2>1. s = [result |-> "ok",
             tier |-> [r EXCEPT !.entries[k] = [value |-> v, life |-> l],
                                !.size = size,
                                !.stats.entries = IF old THEN @ ELSE @ + 1,
                                !.stats.size_bytes = size,
                                !.policy = Tier!LruOnInsert(@, k)]]
    BY <1>0, <1>1, <1>3
  <2>2. r.entries \in [Keys -> Entries \cup {None}] /\ r.stats \in TierStats /\ size \in Nat
    BY MemoryCacheAssumption DEF TierStates, r
  <2>3. c \in Int
    BY <2>2 DEF TierStats
  <2>4. es \in [Keys -> Entries \cup {None}]
    BY <2>2 DEF Entries
  <2> HIDE DEF es, c, size
  <2>5. st \in TierStats
    BY <2>2, <2>3 DEF TierStats
  <2> HIDE DEF s
  <2>6. s.result = "ok" /\ s.tier = new
    BY <2>1 DEF es, c
  <2> HIDE DEF st, p
  <2>7. /\ new.entries = es /\ new.size = size /\ new.stats = st /\ new.policy = p
        /\ p \in LruStates => new \in TierStates
    BY <2>2, <2>4, <2>5 DEF TierStates, r
  <2>8. st = [r.stats EXCEPT !.entries = IF old THEN @ ELSE @ + 1,
                             !.size_bytes = r.size + EntrySize]
    BY DEF st, c, size
  <2> HIDE DEF new
  <2>9. QED BY <1>3, <2>6, <2>7, <2>8 DEF s, r, es, size, p
<1>4. QED BY <1>2, <1>3

\* The tier in the loop, after n keys.
LEMMA LoopIs ==
    ASSUME NEW m \in TierStates, NEW n \in 0 .. Len(Order(m))
    PROVE  LET now == Evicted(m, n)
           IN  /\ now \in TierStates /\ now.size = SizeAfter(m, n)
               /\ n < Len(Order(m)) =>
                     Lru!LruEvict(now.policy) =
                        {[key |-> Order(m)[n + 1], rest |-> Evicted(m, n + 1).policy]}
               /\ n = Len(Order(m)) =>
                     Lru!LruEvict(now.policy) = {[key |-> None, rest |-> now.policy]}
<1>1. /\ m.policy \in LruStates /\ n \in 0 .. Len(m.policy.access_order)
      /\ Order(m) = m.policy.access_order /\ n \in Nat /\ Len(Order(m)) \in Nat
  BY DEF TierStates, LruStates, Order
<1>2. Tier!EvictedFrom(m.policy, n) \in LruStates
  BY <1>1, EvictsInOrder
<1>3. /\ Evicted(m, n) \in TierStates /\ Evicted(m, n).size = SizeAfter(m, n)
      /\ Evicted(m, n).policy = Tier!EvictedFrom(m.policy, n)
  BY <1>1, <1>2, EvictedIs
<1>4. ASSUME n < Len(Order(m))
      PROVE  Lru!LruEvict(Evicted(m, n).policy) =
                {[key |-> Order(m)[n + 1], rest |-> Evicted(m, n + 1).policy]}
  <2>1. n + 1 \in 0 .. Len(m.policy.access_order) /\ n + 1 \in Nat
    BY <1>1, <1>4
  <2>2. Tier!EvictedFrom(m.policy, n + 1) \in LruStates
    BY <1>1, <2>1, EvictsInOrder
  <2>3. Evicted(m, n + 1).policy = Tier!EvictedFrom(m.policy, n + 1)
    BY <2>1, <2>2, EvictedIs
  <2>4. QED BY <1>1, <1>3, <1>4, <2>3, EvictsInOrder
<1>5. ASSUME n = Len(Order(m))
      PROVE  Lru!LruEvict(Evicted(m, n).policy) =
                {[key |-> None, rest |-> Evicted(m, n).policy]}
  BY <1>1, <1>3, <1>5, EvictsInOrder
<1>6. QED BY <1>3, <1>4, <1>5

\* A step inside the loop or into it.
LEMMA LoopGoesOn ==
    ASSUME NEW t \in Threads, before' = before, call' = call,
           before \in TierStates, policy' \in LruStates,
           pc'[t] \in Looping, Old(t)' = 1 <=> Tier!TierHolds(before, call[t].key),
           NEW n \in 0 .. Len(Order(Given(t))), Evicting(t, n)'
    PROVE  Along(t)' /\ Done(t)
<1>1. Given(t)' = Given(t)
  BY DEF Given
<1>2. \E i \in 0 .. Len(Order(Given(t)')) : Evicting(t, i)'
  BY <1>1
<1>3. Setting(t)'
  BY <1>2 DEF Setting, Looping, SetSteps
<1>4. QED BY <1>3 DEF Along, Reading, Deleting, Clearing, ClearSteps, Looping, Done

LEMMA EvictWhole ==
    ASSUME IsLru, TypeOK, TypeOK', NEW t \in Threads, Alone(t), Along(t), EvictStep(t),
           before' = before
    PROVE  Along(t)' /\ Done(t)
<1> USE DEF TypeOK, Goto, Return
<1> DEFINE k == call[t].key
           m == Given(t)
           s == Order(m)
<1>1. /\ before \in TierStates /\ policy \in LruStates /\ Setting(t)
      /\ Where(t) /\ Exact(t) /\ local[t] \in Locals
  BY DEF Along, Alone
<1>2. /\ pc[t] \in {"evict_check", "evict_pop", "evict_remove", "evict_sub", "evict_stats",
                    "evict_fail"}
      /\ call[t].op = "set" /\ k \in Keys
  BY CallShape
     DEF EvictStep, EvictCheck, EvictPop, EvictRemove, EvictSub, EvictStats, EvictFail, SetSteps
<1>3. Old(t) = 1 <=> Tier!TierHolds(before, k)
  BY <1>1, <1>2 DEF Setting, SetSteps
<1>4. m \in TierStates /\ s \in Seq(Keys) /\ Len(s) \in Nat
  <2>1. k \in Keys /\ before \in TierStates
    BY <1>1, <1>2
  <2> HIDE DEF TypeOK
  <2>2. QED BY <2>1, GivenIs
<1>5. PICK n \in 0 .. Len(s) : Evicting(t, n)
  BY <1>1, <1>2 DEF Setting, Looping
<1> DEFINE now == Evicted(m, n)
           then == Evicted(m, n + 1)
<1> HIDE DEF m, s, now, then
<1>6. /\ now \in TierStates /\ now.size = SizeAfter(m, n)
      /\ n < Len(s) => Lru!LruEvict(now.policy) = {[key |-> s[n + 1], rest |-> then.policy]}
      /\ n = Len(s) => Lru!LruEvict(now.policy) = {[key |-> None, rest |-> now.policy]}
  <2> HIDE DEF TypeOK
  <2>1. QED BY <1>4, LoopIs DEF s, now, then
<1>7. ASSUME n < Len(s)
      PROVE  /\ s[n + 1] \in Keys /\ then \in TierStates /\ n + 1 \in 0 .. Len(s)
             /\ then.entries = [now.entries EXCEPT ![s[n + 1]] = None]
             /\ now.entries[s[n + 1]] # None =>
                   /\ then.size = SatSub(now.size, EntrySize)
                   /\ then.stats = [now.stats EXCEPT !.evictions = @ + 1,
                                       !.entries = @ - 1, !.size_bytes = then.size]
             /\ now.entries[s[n + 1]] = None => then.size = now.size /\ then.stats = now.stats
  <2> HIDE DEF TypeOK
  <2>1. n \in Nat /\ n + 1 \in 0 .. Len(s)
    BY <1>4, <1>7
  <2>2. QED BY <1>4, <1>7, <2>1, EvictsNext DEF s, now, then
<1>8. /\ \A j \in 0 .. n - 1 : ~ Fits(SizeAfter(m, j))
      /\ pc[t] \in {"evict_check", "evict_pop", "evict_fail"} => PartsOf(now, now, now, now)
      /\ pc[t] \in {"evict_pop", "evict_remove", "evict_sub", "evict_stats", "evict_fail"} =>
            ~ Fits(SizeAfter(m, n))
      /\ pc[t] \in {"evict_remove", "evict_sub", "evict_stats"} => n < Len(s)
      /\ pc[t] \in {"evict_sub", "evict_stats"} => now.entries[s[n + 1]] # None
      /\ pc[t] = "evict_remove" =>
            local[t].victim = s[n + 1] /\ PartsOf(now, then, now, now)
      /\ pc[t] = "evict_sub" => PartsOf(then, then, now, now)
      /\ pc[t] = "evict_stats" => PartsOf(then, then, then, now)
      /\ pc[t] = "evict_fail" => n = Len(s)
  <2> HIDE DEF TypeOK
  <2>1. QED BY <1>5 DEF Evicting, m, s, now, then
\* The rest of the invariant, once the loop is seen to go on.
<1>9. ASSUME NEW i \in 0 .. Len(s), call' = call, policy' \in LruStates,
             local'[t].old_size = local[t].old_size, pc'[t] \in Looping, Evicting(t, i)'
      PROVE  Along(t)' /\ Done(t)
  <2>1. Old(t)' = Old(t)
    BY <1>9 DEF Old
  <2> HIDE DEF TypeOK
  <2>2. QED BY <1>1, <1>3, <1>9, <2>1, LoopGoesOn DEF m, s
<1>10. call' = call => m' = m /\ s' = s
  BY DEF m, s, Given
<1>11. CASE EvictCheck(t)
  <2>1. /\ UNCHANGED <<entries, policy, size_bytes, stats, local, call>>
        /\ pc[t] = "evict_check"
        /\ pc'[t] = IF Fits(size_bytes) THEN "set_insert" ELSE "evict_pop"
    BY <1>11 DEF EvictCheck
  <2>2. PartsOf(now, now, now, now) /\ size_bytes = SizeAfter(m, n)
    BY <1>6, <1>8, <2>1 DEF PartsOf
  <2>3. PartsOf(now, now, now, now)'
    BY <1>10, <2>1, <2>2 DEF PartsOf, now
  <2> HIDE DEF TypeOK
  <2>4. Evicting(t, n)'
    BY <1>8, <1>10, <2>1, <2>2, <2>3 DEF Evicting, now, then, m, s
  <2>5. QED BY <1>1, <1>9, <2>1, <2>4 DEF Looping
<1>12. CASE EvictPop(t)
  <2>1. /\ UNCHANGED <<entries, size_bytes, stats, call>> /\ pc[t] = "evict_pop"
    BY <1>12 DEF EvictPop
  <2>2. PartsOf(now, now, now, now) /\ ~ Fits(SizeAfter(m, n))
    BY <1>8, <2>1
  <2>3. PICK outcome \in Lru!LruEvict(now.policy) :
           /\ policy' = outcome.rest
           /\ \/ /\ outcome.key \in Keys
                 /\ local' = [local EXCEPT ![t].victim = outcome.key]
                 /\ Goto(t, "evict_remove")
              \/ /\ outcome.key = None
                 /\ Goto(t, "evict_fail")
                 /\ UNCHANGED local
    BY <1>12, <2>2 DEF EvictPop, IsLru, PartsOf
  <2>4. CASE n < Len(s)
    <3>1. s[n + 1] \in Keys /\ outcome = [key |-> s[n + 1], rest |-> then.policy]
      BY <1>6, <1>7, <2>3, <2>4
    <3>2. /\ policy' = then.policy /\ local' = [local EXCEPT ![t].victim = s[n + 1]]
          /\ pc'[t] = "evict_remove"
      BY <2>3, <3>1, MemoryCacheAssumption
    <3>3. local'[t].victim = s[n + 1] /\ local'[t].old_size = local[t].old_size
      BY <1>1, <3>2 DEF Locals
    <3>4. then.policy \in LruStates
      BY <1>7, <2>4 DEF TierStates
    <3>5. PartsOf(now, then, now, now)'
      BY <1>10, <2>1, <2>2, <3>2 DEF PartsOf, now, then
    <3> HIDE DEF TypeOK
    <3>6. Evicting(t, n)'
      BY <1>8, <1>10, <2>1, <2>2, <2>4, <3>2, <3>3, <3>5 DEF Evicting, now, then, m, s
    <3>7. QED BY <1>9, <2>1, <3>2, <3>3, <3>4, <3>6 DEF Looping
  <2>5. CASE n = Len(s)
    <3>1. outcome = [key |-> None, rest |-> now.policy]
      BY <1>6, <2>3, <2>5
    <3>2. policy' = policy /\ local' = local /\ pc'[t] = "evict_fail"
      BY <2>2, <2>3, <3>1, MemoryCacheAssumption DEF PartsOf
    <3>3. PartsOf(now, now, now, now)'
      BY <1>10, <2>1, <2>2, <3>2 DEF PartsOf, now
    <3> HIDE DEF TypeOK
    <3>4. Evicting(t, n)'
      BY <1>8, <1>10, <2>1, <2>2, <2>5, <3>2, <3>3 DEF Evicting, now, then, m, s
    <3>5. QED BY <1>1, <1>9, <2>1, <3>2, <3>4 DEF Looping
  <2>6. QED BY <1>4, <2>4, <2>5
<1>13. CASE EvictRemove(t)
  <2> DEFINE v == s[n + 1]
  <2>1. pc[t] = "evict_remove"
    BY <1>13 DEF EvictRemove
  <2>2. n < Len(s) /\ local[t].victim = v /\ PartsOf(now, then, now, now)
        /\ ~ Fits(SizeAfter(m, n))
    BY <1>8, <2>1
  <2>3. /\ UNCHANGED <<policy, size_bytes, stats, call>>
        /\ entries' = [entries EXCEPT ![v] = None]
        /\ pc'[t] = IF v \in Stored THEN "evict_sub" ELSE "evict_check"
        /\ local' = [local EXCEPT ![t].victim = None]
    BY <1>13, <2>2 DEF EvictRemove, Forget
  <2>4. local'[t].old_size = local[t].old_size
    BY <1>1, <2>3 DEF Locals
  <2>5. entries' = then.entries /\ (v \in Stored <=> now.entries[v] # None)
    BY <1>7, <2>2, <2>3 DEF PartsOf, Stored
  <2>6. CASE v \in Stored
    <3>1. PartsOf(then, then, now, now)'
      BY <1>10, <2>2, <2>3, <2>5 DEF PartsOf, now, then
    <3> HIDE DEF TypeOK
    <3>2. Evicting(t, n)'
      BY <1>8, <1>10, <2>2, <2>3, <2>5, <2>6, <3>1 DEF Evicting, now, then, m, s
    <3>3. QED BY <1>1, <1>9, <2>3, <2>4, <2>6, <3>2 DEF Looping
  <2>7. CASE v \notin Stored
    <3>1. PartsOf(then, then, then, then)'
      BY <1>7, <1>10, <2>2, <2>3, <2>5, <2>7 DEF PartsOf, now, then
    <3>2. \A j \in 0 .. (n + 1) - 1 : ~ Fits(SizeAfter(m, j))
      BY <1>8, <2>2
    <3>3. pc'[t] = "evict_check" /\ n + 1 \in 0 .. Len(s)
      BY <1>7, <2>2, <2>3, <2>7
    <3> HIDE DEF TypeOK
    <3>4. Evicting(t, n + 1)'
      BY <1>10, <2>3, <3>1, <3>2, <3>3 DEF Evicting, then, m, s
    <3>5. QED BY <1>1, <1>9, <2>3, <2>4, <3>3, <3>4 DEF Looping
  <2>8. QED BY <2>6, <2>7
<1>14. CASE EvictSub(t)
  <2>1. /\ UNCHANGED <<entries, policy, stats, local, call>>
        /\ pc[t] = "evict_sub" /\ pc'[t] = "evict_stats"
        /\ size_bytes' = SatSub(size_bytes, EntrySize)
    BY <1>14 DEF EvictSub, SubtractEntry
  <2>2. n < Len(s) /\ now.entries[s[n + 1]] # None /\ PartsOf(then, then, now, now)
    BY <1>8, <2>1
  <2>3. PartsOf(then, then, then, now)'
    BY <1>7, <1>10, <2>1, <2>2 DEF PartsOf, now, then
  <2> HIDE DEF TypeOK
  <2>4. Evicting(t, n)'
    BY <1>8, <1>10, <2>1, <2>2, <2>3 DEF Evicting, now, then, m, s
  <2>5. QED BY <1>1, <1>9, <2>1, <2>4 DEF Looping
<1>15. CASE EvictStats(t)
  <2>1. /\ UNCHANGED <<entries, policy, size_bytes>> /\ pc[t] = "evict_stats"
        /\ stats.entries = Count + 1
    BY <1>1, <1>15 DEF EvictStats, Exact
  <2>2. n < Len(s) /\ now.entries[s[n + 1]] # None /\ PartsOf(then, then, then, now)
        /\ ~ Fits(SizeAfter(m, n))
    BY <1>8, <2>1
  <2> DEFINE counted == [stats EXCEPT !.evictions = @ + 1]
             next == Goto(t, "evict_check") /\ UNCHANGED local
  <2>3. counted.entries = stats.entries /\ CountOneLess(t, counted, next)
    BY <1>15 DEF EvictStats
  <2>4. next /\ stats' = [counted EXCEPT !.entries = (@ - 1) % Width, !.size_bytes = size_bytes]
    <3> HIDE DEF counted, next, Goto
    <3>1. QED BY <2>1, <2>3, AloneCount
  <2>5. pc'[t] = "evict_check" /\ call' = call /\ local' = local
    BY <2>4
  <2>6. (counted.entries - 1) % Width = stats.entries - 1
    <3>1. Count \in Nat /\ stats.entries \in 0 .. Width - 1 /\ Width \in Nat
      BY StoredFinite, MemoryCacheAssumption DEF Count
    <3>2. stats.entries - 1 \in 0 .. Width - 1
      BY <2>1, <3>1
    <3>3. QED BY <2>3, <3>2, ModSmall
  <2>7. stats' = then.stats
    <3>1. stats = now.stats /\ size_bytes = then.size
      BY <2>2 DEF PartsOf
    <3>2. stats' = [stats EXCEPT !.evictions = @ + 1, !.entries = @ - 1, !.size_bytes = size_bytes]
      BY <2>4, <2>6
    <3> HIDE DEF TypeOK
    <3>3. QED BY <1>7, <2>2, <3>1, <3>2
  <2>8. PartsOf(then, then, then, then)'
    BY <1>10, <2>1, <2>2, <2>5, <2>7 DEF PartsOf, then
  <2>9. \A j \in 0 .. (n + 1) - 1 : ~ Fits(SizeAfter(m, j))
    BY <1>8, <2>2
  <2>10. n + 1 \in 0 .. Len(s)
    BY <1>7, <2>2
  <2> HIDE DEF TypeOK
  <2>11. Evicting(t, n + 1)'
    BY <1>10, <2>5, <2>8, <2>9, <2>10 DEF Evicting, then, m, s
  <2>12. QED BY <1>1, <1>9, <2>1, <2>5, <2>10, <2>11 DEF Looping
<1>16. CASE EvictFail(t)
  <2>1. /\ UNCHANGED <<entries, policy, size_bytes, stats>> /\ pc[t] = "evict_fail"
        /\ pc'[t] = "idle" /\ ret'[t] = "full"
    BY <1>16 DEF EvictFail
  <2>2. PartsOf(now, now, now, now) /\ ~ Fits(SizeAfter(m, n)) /\ n = Len(s)
    BY <1>8, <2>1
  <2>3. Room(t) = now
    <3> HIDE DEF TypeOK
    <3>1. QED BY <1>4, <1>8, <2>2, LoopEnds DEF Room, m, s, now
  <2> DEFINE w == Tier!TierSet(before, k, call[t].value, call[t].life)
  <2>4. call[t].value \in Values /\ call[t].life \in Lives
    BY <1>2, CallShape, MemoryCacheAssumption DEF Lives
  <2>5. w.result = "full" /\ w.tier = now
    <3> HIDE DEF TypeOK
    <3>1. Room(t) \in TierStates /\ ~ Fits(Room(t).size)
      BY <1>6, <2>2, <2>3
    <3>2. QED BY <1>2, <2>3, <2>4, <3>1, SetIs
  <2>6. /\ Now' \in TierStates /\ Now'.entries = entries' /\ Now'.policy = policy'
        /\ Now'.size = size_bytes' /\ Now'.stats = stats'
    BY <1>1, <2>1, NowIsNext
  <2>7. Now' = now
    BY <1>6, <2>1, <2>2, <2>6, SameTier DEF PartsOf
  <2>8. Along(t)'
    BY <1>1, <2>1
       DEF Along, Reading, Deleting, Clearing, Setting, ClearSteps, SetSteps, Looping
  <2> HIDE DEF TypeOK
  <2>9. Whole(call[t]) = w
    BY <1>2 DEF Whole
  <2>10. QED BY <2>1, <2>5, <2>7, <2>8, <2>9 DEF Done
<1>17. QED BY <1>11, <1>12, <1>13, <1>14, <1>15, <1>16 DEF EvictStep

\* The steps of a set up to the loop.
LEMMA SetFirstWhole ==
    ASSUME IsLru, TypeOK, TypeOK', NEW t \in Threads, Alone(t), Along(t),
           SetRemove(t) \/ SetSub(t), before' = before
    PROVE  Along(t)' /\ Done(t)
<1> USE DEF TypeOK, Goto, Return
<1> DEFINE k == call[t].key
           m == Given(t)
<1>1. /\ before \in TierStates /\ policy \in LruStates /\ Setting(t)
      /\ Where(t) /\ local[t] \in Locals
  BY DEF Along, Alone
<1>2. pc[t] \in {"set_remove", "set_sub"} /\ k \in Keys
  BY CallShape DEF SetRemove, SetSub, SetSteps
<1>3. /\ m \in TierStates /\ m.policy = before.policy /\ m.stats = before.stats
      /\ m.entries = [before.entries EXCEPT ![k] = None]
      /\ Tier!TierHolds(before, k) => m.size = SatSub(before.size, EntrySize)
      /\ ~ Tier!TierHolds(before, k) => m = before
      /\ Len(Order(m)) \in Nat
  <2>1. k \in Keys /\ before \in TierStates
    BY <1>1, <1>2
  <2> HIDE DEF TypeOK
  <2>2. QED BY <2>1, GivenIs
<1>4. call' = call => m' = m
  BY DEF Given
<1> HIDE DEF m
\* The loop begins with the tier as it is given.
<1>5. ASSUME call' = call, policy' = m.policy, Old(t)' = 1 <=> Tier!TierHolds(before, k),
             pc'[t] = "evict_check", PartsOf(m, m, m, m)'
      PROVE  Along(t)' /\ Done(t)
  <2>1. Evicted(m, 0) = m /\ 0 \in 0 .. Len(Order(m)) /\ m.policy \in LruStates
    BY <1>3, NoneEvicted DEF TierStates
  <2> HIDE DEF TypeOK
  <2>2. PartsOf(Evicted(Given(t), 0), Evicted(Given(t), 0), Evicted(Given(t), 0),
                Evicted(Given(t), 0))'
    BY <1>4, <1>5, <2>1 DEF m
  <2>3. Evicting(t, 0)'
    BY <1>5, <2>2 DEF Evicting
  <2>4. QED BY <1>1, <1>5, <2>1, <2>3, LoopGoesOn DEF Looping, m
<1>6. CASE SetRemove(t)
  <2>1. /\ UNCHANGED <<policy, size_bytes, stats, call>> /\ pc[t] = "set_remove"
        /\ entries' = [entries EXCEPT ![k] = None]
        /\ k \in Stored => pc'[t] = "set_sub" /\ local'[t].old_size = EntrySize
        /\ k \notin Stored => pc'[t] = "evict_check" /\ local' = local
    BY <1>1, <1>6 DEF SetRemove, Forget, Locals
  <2>2. Untouched /\ (k \in Stored <=> Tier!TierHolds(before, k))
    BY <1>1, <1>2, <2>1 DEF Setting, Untouched, Stored, Tier!TierHolds
  <2>3. entries' = m.entries /\ policy' = m.policy /\ stats' = m.stats
    BY <1>3, <2>1, <2>2 DEF Untouched
  <2>4. CASE k \in Stored
    <3>1. Old(t)' = 1
      BY <2>1, <2>4, NoneIsNoEntry DEF Old
    <3>2. size_bytes' = before.size
      BY <2>1, <2>2 DEF Untouched
    <3> HIDE DEF TypeOK
    <3>3. Setting(t)'
      BY <1>4, <2>1, <2>2, <2>3, <2>4, <3>1, <3>2 DEF Setting, SetSteps, Looping, m
    <3>4. QED
      BY <1>1, <2>1, <2>4, <3>3
         DEF Along, Reading, Deleting, Clearing, ClearSteps, Done
  <2>5. CASE k \notin Stored
    <3>1. Old(t)' = 0 /\ Old(t)' # 1
      BY <1>1, <2>1, <2>5 DEF Where, Updating, Old
    <3>2. size_bytes' = m.size
      BY <1>3, <2>1, <2>2, <2>5 DEF Untouched
    <3>3. PartsOf(m, m, m, m)'
      BY <1>4, <2>1, <2>3, <3>2 DEF PartsOf
    <3>4. QED BY <1>5, <2>1, <2>2, <2>3, <2>5, <3>1, <3>3
  <2>6. QED BY <2>4, <2>5
<1>7. CASE SetSub(t)
  <2>1. /\ UNCHANGED <<entries, policy, stats, local, call>> /\ pc[t] = "set_sub"
        /\ pc'[t] = "evict_check" /\ size_bytes' = SatSub(size_bytes, EntrySize)
    BY <1>7 DEF SetSub, SubtractEntry
  <2>2. /\ entries = m.entries /\ policy = m.policy /\ stats = m.stats
        /\ size_bytes = before.size /\ Tier!TierHolds(before, k)
    BY <1>1, <2>1 DEF Setting, Where, SetSteps, m
  <2>3. PartsOf(m, m, m, m)'
    BY <1>3, <1>4, <2>1, <2>2 DEF PartsOf
  <2>4. Old(t)' = 1
    BY <1>1, <2>1 DEF Where, Old
  <2>5. QED BY <1>5, <2>1, <2>2, <2>3, <2>4
<1>8. QED BY <1>6, <1>7

\* The count of a new entry does not wrap.
LEMMA CountMore ==
    ASSUME TypeOK, NEW t \in Threads, Alone(t), SetStats(t)
    PROVE  stats' = [stats EXCEPT !.entries = IF Old(t) = 0 THEN @ + 1 ELSE @,
                                  !.size_bytes = size_bytes]
<1>1. /\ pc[t] = "set_stats" /\ stats.entries \in Nat /\ calls \in 0 .. MaxCalls
      /\ local[t].final_size = size_bytes
      /\ stats.entries + 1 = Count + Old(t) /\ Count <= calls /\ Count \in Nat
  BY StoredFinite, MemoryCacheAssumption DEF SetStats, TypeOK, Alone, Exact, Count
<1>2. local[t].old_size = None <=> Old(t) = 0
  BY DEF Old
<1>3. Old(t) = 0 => (stats.entries + 1) % Width = stats.entries + 1
  <2>1. ASSUME Old(t) = 0 PROVE stats.entries + 1 \in 0 .. Width - 1
    BY <1>1, <2>1, MemoryCacheAssumption
  <2>2. QED BY <2>1, ModSmall
<1>4. stats' = [stats EXCEPT
                   !.entries = IF local[t].old_size = None THEN (@ + 1) % Width ELSE @,
                   !.size_bytes = local[t].final_size]
  BY DEF SetStats
<1>5. CASE Old(t) = 0
  BY <1>1, <1>2, <1>3, <1>4, <1>5
<1>6. CASE Old(t) # 0
  BY <1>1, <1>2, <1>4, <1>6
<1>7. QED BY <1>5, <1>6

\* The steps of a set after the loop.
LEMMA SetLastWhole ==
    ASSUME IsLru, Ttls = {"forever"}, TypeOK, TypeOK', NEW t \in Threads, Alone(t), Along(t),
           SetInsert(t) \/ SetAdd(t) \/ SetStats(t) \/ SetPolicy(t), before' = before
    PROVE  Along(t)' /\ Done(t)
<1> USE DEF TypeOK, Goto, Return
<1> DEFINE k == call[t].key
           x == [value |-> call[t].value, life |-> call[t].life]
           r == Room(t)
           w == Tier!TierSet(before, k, call[t].value, call[t].life)
<1>1. /\ before \in TierStates /\ policy \in LruStates /\ Setting(t) /\ Where(t)
  BY DEF Along, Alone
<1>2. /\ pc[t] \in {"set_insert", "set_add", "set_stats", "set_policy"}
      /\ call[t].op = "set" /\ k \in Keys /\ call[t].value \in Values /\ call[t].life \in Lives
  BY CallShape, MemoryCacheAssumption
     DEF SetInsert, SetAdd, SetStats, SetPolicy, SetSteps, Lives
<1>3. Old(t) = 1 <=> Tier!TierHolds(before, k)
  BY <1>1, <1>2 DEF Setting, SetSteps
<1>4. pc[t] # "set_insert" => Storing(t)
  BY <1>1, <1>2 DEF Setting
<1>5. call' = call => r' = r
  BY DEF Room, Given
<1> HIDE DEF r
<1>6. ASSUME call' = call, policy' = policy, Old(t)' = Old(t),
             pc'[t] \in {"set_add", "set_stats", "set_policy"}, Storing(t)'
      PROVE  Along(t)' /\ Done(t)
  <2> HIDE DEF TypeOK
  <2>1. Setting(t)'
    BY <1>3, <1>6 DEF Setting, SetSteps, Looping
  <2>2. QED
    BY <1>1, <1>6, <2>1 DEF Along, Reading, Deleting, Clearing, ClearSteps, Done
<1>7. pc[t] # "set_insert" =>
         /\ r \in TierStates /\ Fits(r.size) /\ policy = r.policy
         /\ entries = [r.entries EXCEPT ![k] = x]
         /\ pc[t] = "set_add" => size_bytes = r.size /\ stats = r.stats
         /\ pc[t] \in {"set_stats", "set_policy"} => size_bytes = r.size + EntrySize
         /\ pc[t] = "set_stats" => local[t].final_size = size_bytes /\ stats = r.stats
         /\ pc[t] = "set_policy" =>
               stats = [r.stats EXCEPT
                           !.entries = IF Tier!TierHolds(before, k) THEN @ ELSE @ + 1,
                           !.size_bytes = r.size + EntrySize]
  <2> HIDE DEF TypeOK
  <2>1. QED BY <1>4 DEF Storing, r
<1>8. CASE SetInsert(t)
  <2>1. /\ UNCHANGED <<policy, size_bytes, stats, local, call>> /\ pc[t] = "set_insert"
        /\ entries' = [entries EXCEPT ![k] = x] /\ pc'[t] = "set_add"
    <3>1. call[t].life = "forever"
      BY <1>2, CallShape
    <3>2. QED BY <1>8, <3>1 DEF SetInsert, LivesOnInsert
  <2> DEFINE m == Given(t)
  <2>2. m \in TierStates
    <3>1. k \in Keys /\ before \in TierStates
      BY <1>1, <1>2
    <3> HIDE DEF TypeOK
    <3>2. QED BY <3>1, GivenIs
  <2>3. PICK n \in 0 .. Len(Order(m)) : Evicting(t, n)
    BY <1>1, <2>1 DEF Setting, Looping
  <2> HIDE DEF m
  <2> DEFINE now == Evicted(m, n)
  <2>4. /\ \A j \in 0 .. n - 1 : ~ Fits(SizeAfter(m, j))
        /\ Fits(SizeAfter(m, n)) /\ PartsOf(now, now, now, now)
    BY <2>1, <2>3 DEF Evicting, m
  <2>5. r = now
    <3> HIDE DEF TypeOK
    <3>1. QED BY <2>2, <2>4, LoopEnds DEF Room, r, m
  <2>6. now \in TierStates /\ now.size = SizeAfter(m, n)
    <3> HIDE DEF TypeOK
    <3>1. QED BY <2>2, LoopIs
  <2> HIDE DEF now
  <2>7. /\ r \in TierStates /\ Fits(r.size) /\ policy' = r.policy
        /\ entries' = [r.entries EXCEPT ![k] = x] /\ size_bytes' = r.size /\ stats' = r.stats
    BY <2>1, <2>4, <2>5, <2>6 DEF PartsOf
  <2> HIDE DEF TypeOK
  <2>8. Storing(t)'
    BY <1>5, <2>1, <2>7 DEF Storing, r
  <2>9. QED BY <1>6, <2>1, <2>8 DEF Old
<1>9. CASE SetAdd(t)
  <2>1. /\ UNCHANGED <<entries, policy, stats, call>> /\ pc[t] = "set_add"
        /\ size_bytes' = size_bytes + EntrySize /\ pc'[t] = "set_stats"
        /\ local' = [local EXCEPT ![t].final_size = size_bytes']
    BY <1>9 DEF SetAdd
  <2>2. local'[t].final_size = size_bytes' /\ local'[t].old_size = local[t].old_size
    BY <2>1 DEF Locals
  <2> HIDE DEF TypeOK
  <2>3. Storing(t)'
    BY <1>5, <1>7, <2>1, <2>2 DEF Storing, r
  <2>4. QED BY <1>6, <2>1, <2>2, <2>3 DEF Old
<1>10. CASE SetStats(t)
  <2>1. /\ UNCHANGED <<entries, policy, size_bytes, call, local>> /\ pc[t] = "set_stats"
        /\ pc'[t] = "set_policy"
    BY <1>10 DEF SetStats
  <2>2. stats' = [stats EXCEPT !.entries = IF Old(t) = 0 THEN @ + 1 ELSE @,
                               !.size_bytes = size_bytes]
    <3> HIDE DEF TypeOK
    <3>1. QED BY <1>10, CountMore
  <2>3. Old(t) = 0 <=> ~ Tier!TierHolds(before, k)
    BY <1>3 DEF Old
  <2>4. stats = r.stats /\ size_bytes = r.size + EntrySize
    BY <1>7, <2>1
  <2> HIDE DEF TypeOK
  <2>5. stats' = [r.stats EXCEPT
                     !.entries = IF Tier!TierHolds(before, k) THEN @ ELSE @ + 1,
                     !.size_bytes = r.size + EntrySize]
    <3>1. CASE Tier!TierHolds(before, k)
      BY <2>2, <2>3, <2>4, <3>1
    <3>2. CASE ~ Tier!TierHolds(before, k)
      BY <2>2, <2>3, <2>4, <3>2
    <3>3. QED BY <3>1, <3>2
  <2>6. Storing(t)'
    BY <1>5, <1>7, <2>1, <2>4, <2>5 DEF Storing, r
  <2>7. QED BY <1>6, <2>1, <2>6 DEF Old
<1>11. CASE SetPolicy(t)
  <2>1. /\ UNCHANGED <<entries, size_bytes, stats>> /\ pc[t] = "set_policy"
        /\ pc'[t] = "idle" /\ ret'[t] = "ok"
        /\ policy' = Tier!LruOnInsert(policy, k)
    BY <1>11, SamePolicy DEF SetPolicy, IsLru
  <2>2. policy' \in LruStates
    BY <1>1, <1>2, <2>1, UseKeeps, SamePolicy DEF Tier!LruOnInsert
  <2>3. /\ r \in TierStates /\ Fits(r.size) /\ policy = r.policy
        /\ entries = [r.entries EXCEPT ![k] = x] /\ size_bytes = r.size + EntrySize
        /\ stats = [r.stats EXCEPT
                       !.entries = IF Tier!TierHolds(before, k) THEN @ ELSE @ + 1,
                       !.size_bytes = r.size + EntrySize]
    BY <1>7, <2>1
  <2>4. /\ Now' \in TierStates /\ Now'.entries = entries' /\ Now'.policy = policy'
        /\ Now'.size = size_bytes' /\ Now'.stats = stats'
    BY <2>2, NowIsNext
  <2>5. /\ w.result = "ok" /\ w.tier.entries = [r.entries EXCEPT ![k] = x]
        /\ w.tier.size = r.size + EntrySize
        /\ w.tier.policy = Tier!LruOnInsert(r.policy, k)
        /\ w.tier.stats = [r.stats EXCEPT
                              !.entries = IF Tier!TierHolds(before, k) THEN @ ELSE @ + 1,
                              !.size_bytes = r.size + EntrySize]
        /\ w.tier.policy \in LruStates => w.tier \in TierStates
    <3> HIDE DEF TypeOK
    <3>1. QED BY <1>2, <2>3, SetIs DEF r
  <2> HIDE DEF w, x, TypeOK
  <2>6. w.tier \in TierStates
    BY <2>1, <2>2, <2>3, <2>5
  <2>7. Now' = w.tier
    BY <2>1, <2>3, <2>4, <2>5, <2>6, SameTier
  <2>8. Along(t)'
    BY <1>1, <2>1, <2>2
       DEF Along, Reading, Deleting, Clearing, Setting, ClearSteps, SetSteps, Looping
  <2>9. Whole(call[t]) = w
    BY <1>2 DEF Whole, w
  <2>10. QED BY <2>1, <2>5, <2>7, <2>8, <2>9 DEF Done
<1>12. QED BY <1>8, <1>9, <1>10, <1>11
-----------------------------------------------------------------------------
(* Every step keeps it *)

\* One step of the one thread, whatever call it is in.
LEMMA StepWhole ==
    ASSUME N = 1, Ttls = {"forever"}, IsLru, TypeOK, TypeOK', NEW t \in Threads,
           Alone(t), Along(t), Step(t), before' = before
    PROVE  Along(t)' /\ Done(t)
<1>1. CASE SetStep(t)
  BY <1>1, SetFirstWhole, SetLastWhole DEF SetStep
<1>2. CASE EvictStep(t)
  BY <1>2, EvictWhole
<1>3. CASE ReadStep(t)
  BY <1>3, ReadWhole
<1>4. CASE DeleteStep(t)
  BY <1>4, DeleteWhole
<1>5. CASE ClearStep(t)
  BY <1>5, ClearWhole
<1>6. QED BY <1>1, <1>2, <1>3, <1>4, <1>5 DEF Step

\* A call begins with the tier as it is.
LEMMA BeginWhole ==
    ASSUME TypeOK, NEW t \in Threads, policy \in LruStates, Alone(t), Begin(t),
           before' = Now
    PROVE  Along(t)' /\ Done(t)
<1> USE DEF TypeOK
<1>1. /\ UNCHANGED <<entries, policy, size_bytes, stats>> /\ pc[t] = "idle"
      /\ pc'[t] \in {"set_remove", "get_check", "exists", "del_remove", "clear_entries"}
  BY DEF Begin, FirstStep, Requests
<1>2. /\ Now \in TierStates /\ Now.entries = entries /\ Now.policy = policy
      /\ Now.size = size_bytes /\ Now.stats = stats
  BY NowIs
<1>3. Untouched'
  BY <1>1, <1>2 DEF Untouched
<1> HIDE DEF TypeOK
<1>4. Reading(t)' /\ Deleting(t)' /\ Setting(t)'
  BY <1>1, <1>3 DEF Reading, Deleting, Setting, SetSteps, Looping
<1>5. Clearing(t)'
  BY <1>1, <1>3 DEF Clearing, Untouched, ClearSteps
<1>6. QED BY <1>1, <1>2, <1>4, <1>5 DEF Along, Done

\* A step in no call.
LEMMA RestWhole ==
    ASSUME TypeOK, NEW t \in Threads, Along(t), UNCHANGED vars,
           before' = before \/ (before' = Now /\ pc[t] \in {"idle", "panicked"})
    PROVE  Along(t)' /\ Done(t)
<1>1. policy \in LruStates /\ before \in TierStates /\ policy' \in LruStates
      /\ pc'[t] = pc[t]
  BY DEF Along, vars
<1>2. Done(t)
  BY <1>1 DEF Done
<1>3. CASE before' = before
  <2>1. UNCHANGED <<entries, policy, size_bytes, stats, pc, call, local, before>>
    BY <1>3 DEF vars
  <2>2. Reading(t)' /\ Deleting(t)' /\ Clearing(t)'
    BY <2>1 DEF Along, Reading, Deleting, Clearing, Untouched, Stored
  <2>3. Given(t)' = Given(t) /\ Room(t)' = Room(t) /\ Old(t)' = Old(t)
    BY <2>1 DEF Given, Room, Old
  <2>4. ASSUME NEW n, Evicting(t, n) PROVE Evicting(t, n)'
    BY <2>1, <2>3, <2>4 DEF Evicting, PartsOf
  <2>5. Storing(t) => Storing(t)'
    BY <2>1, <2>3 DEF Storing
  <2>6. Setting(t)'
    BY <2>1, <2>3, <2>4, <2>5 DEF Along, Setting, Untouched
  <2>7. QED BY <1>1, <1>2, <1>3, <2>2, <2>6 DEF Along
<1>4. CASE before' = Now /\ pc[t] \in {"idle", "panicked"}
  <2>1. Now \in TierStates
    BY <1>1, NowIs
  <2>2. QED
    BY <1>1, <1>2, <1>4, <2>1
       DEF Along, Reading, Deleting, Clearing, Setting, ClearSteps, SetSteps, Looping
<1>5. QED BY <1>2, <1>3, <1>4

LEMMA AlongNext ==
    ASSUME N = 1, Ttls = {"forever"}, IsLru, NEW t \in Threads, Threads = {t},
           TypeOK, TypeOK', Alone(t), Along(t), [WholeNext]_wholeVars
    PROVE  Along(t)' /\ Done(t)
<1>1. CASE UNCHANGED wholeVars
  BY <1>1, RestWhole DEF wholeVars
<1>2. CASE WholeNext
  <2>1. Quiescent <=> pc[t] \in {"idle", "panicked"}
    BY DEF Quiescent, Doing, TypeOK
  <2>2. before' = IF Quiescent THEN Now ELSE before
    BY <1>2 DEF WholeNext
  <2>3. CASE Begin(t)
    <3>1. pc[t] = "idle"
      BY <2>3 DEF Begin
    <3>2. QED BY <2>1, <2>2, <2>3, <3>1, BeginWhole DEF Along
  <2>4. CASE Step(t)
    <3>1. pc[t] \notin {"idle", "panicked"}
      BY <2>4
         DEF Step, SetStep, SetRemove, SetSub, SetInsert, SetAdd, SetStats, SetPolicy,
             EvictStep, EvictCheck, EvictPop, EvictRemove, EvictSub, EvictStats, EvictFail,
             ReadStep, GetCheck, GetExpire, GetRead, GetAccess, GetHit, GetMiss, Exists,
             DeleteStep, DelRemove, DelSub, DelStats,
             ClearStep, ClearEntries, ClearSize, ClearStats, ClearPolicy
    <3>2. QED BY <2>1, <2>2, <2>4, <3>1, StepWhole
  <2>5. CASE \E k \in Keys : Expire(k)
    BY <2>5 DEF Expire, Alone, Where
  <2>6. CASE Finished
    BY <2>1, <2>2, <2>6, RestWhole DEF Finished
  <2>7. QED BY <1>2, <2>3, <2>4, <2>5, <2>6 DEF WholeNext, Next
<1>3. QED BY <1>1, <1>2

LEMMA AlongInit ==
    ASSUME IsLru, WholeInit, NEW t \in Threads
    PROVE  Along(t)
<1>1. TypeOK /\ pc[t] = "idle"
  BY TypeInit DEF WholeInit, Init
<1>2. policy \in LruStates
  BY LruKeepsLastUsed DEF WholeInit, Init, KeepsLastUsed
<1>3. before \in TierStates
  BY <1>1, <1>2, NowIs DEF WholeInit
<1>4. QED
  BY <1>1, <1>2, <1>3
     DEF Along, Reading, Deleting, Clearing, Setting, ClearSteps, SetSteps, Looping

\* When one thread uses the LRU cache without TTLs, a call, step by step, does
\* what the whole call of MemoryTier does: it returns the same and leaves the
\* same entries, size, statistics, deque and positions, however many keys its
\* loop evicts.  Along says at every step how far the call has got from the
\* tier it found.
THEOREM CallsWhole ==
    ASSUME N = 1, Ttls = {"forever"}, IsLru
    PROVE  WholeSpec => CallsAreWhole
<1>1. PICK u : Threads = {u}
  BY MemoryCacheAssumption, FS_Singleton DEF N
<1>2. u \in Threads
  BY <1>1
<1> DEFINE Inv == TypeOK /\ ReservationBound /\ Alone(u) /\ Along(u)
<1>3. WholeInit => Inv
  BY <1>2, TypeInit, ReservationInit, AloneInit, AlongInit DEF WholeInit
<1>4. Inv /\ [WholeNext]_wholeVars => Inv' /\ Done(u)
  <2> SUFFICES ASSUME Inv, [WholeNext]_wholeVars PROVE Inv' /\ Done(u)
    OBVIOUS
  <2>1. [Next]_vars
    BY DEF WholeNext, wholeVars
  <2>2. TypeOK' /\ ReservationBound' /\ Alone(u)'
    BY <1>1, <1>2, <2>1, TypeNext, ReservationNext, AloneNext
  <2>3. QED BY <1>1, <1>2, <2>2, AlongNext
<1>5. Inv /\ [WholeNext]_wholeVars => Inv'
  BY <1>4
<1>6. Inv /\ [WholeNext]_wholeVars =>
         [\A t \in Threads : pc[t] # "idle" /\ pc'[t] = "idle" =>
             ret'[t] = Whole(call[t]).result /\ Now' = Whole(call[t]).tier]_wholeVars
  BY <1>1, <1>4 DEF Done
<1> HIDE DEF Inv
<1>7. QED BY <1>3, <1>5, <1>6, PTL DEF WholeSpec, CallsAreWhole, IsLru
=============================================================================
