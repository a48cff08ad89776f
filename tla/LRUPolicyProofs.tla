-------------------------- MODULE LRUPolicyProofs --------------------------
(***************************************************************************)
(* Proofs about the LRU policy, for any set of keys and any length of      *)
(* access_order.                                                           *)
(***************************************************************************)
EXTENDS LRUPolicy, FiniteSetTheorems, TLAPS

\* What each helper of on_access returns.
LEMMA DequeRemoveType ==
    ASSUME NEW s \in Seq(Keys), NEW i \in Nat
    PROVE  /\ DequeRemove(s, i) \in Seq(Keys)
           /\ i >= Len(s) => DequeRemove(s, i) = s
           /\ i < Len(s) =>
                 /\ Len(DequeRemove(s, i)) = Len(s) - 1
                 /\ \A j \in 1 .. Len(s) - 1 :
                       DequeRemove(s, i)[j] = IF j <= i THEN s[j] ELSE s[j + 1]
<1>1. CASE i < Len(s)
  <2> DEFINE d == [j \in 1 .. Len(s) - 1 |-> IF j <= i THEN s[j] ELSE s[j + 1]]
  <2>1. Len(s) - 1 \in Nat
    BY <1>1
  <2>2. d \in [1 .. Len(s) - 1 -> Keys]
    BY <1>1
  <2>3. d \in Seq(Keys) /\ Len(d) = Len(s) - 1
    BY <2>1, <2>2
  <2>4. DequeRemove(s, i) = d
    BY <1>1 DEF DequeRemove
  <2>5. QED
    BY <1>1, <2>3, <2>4
<1>2. CASE ~ (i < Len(s))
  BY <1>2 DEF DequeRemove
<1>3. QED
  BY <1>1, <1>2

LEMMA ShiftIndexType ==
    ASSUME NEW D \in SUBSET Keys, NEW f \in [D -> Nat], NEW i \in Nat
    PROVE  ShiftIndex(f, i) \in [D -> Nat]
PROOF BY DEF ShiftIndex

LEMMA PushAndRecordType ==
    ASSUME NEW s \in Seq(Keys), NEW D \in SUBSET Keys, NEW f \in [D -> Nat],
           NEW k \in Keys
    PROVE  /\ PushAndRecord(s, f, k).access_order = Append(s, k)
           /\ PushAndRecord(s, f, k).access_order \in Seq(Keys)
           /\ PushAndRecord(s, f, k).key_index \in [D \cup {k} -> Nat]
           /\ PushAndRecord(s, f, k).key_index[k] = Len(s)
           /\ \A x \in D \ {k} : PushAndRecord(s, f, k).key_index[x] = f[x]
PROOF BY DEF PushAndRecord

LEMMA WithoutType ==
    ASSUME NEW s \in Seq(Keys), NEW k
    PROVE  Without(s, k) \in Seq(Keys)
<1>1. CASE \E i \in DOMAIN s : s[i] = k
  <2> DEFINE p == CHOOSE i \in DOMAIN s : s[i] = k
             w == [j \in 1 .. Len(s) - 1 |-> s[IF j < p THEN j ELSE j + 1]]
  <2>1. Len(s) - 1 \in Nat
    BY <1>1
  <2>2. p \in 1 .. Len(s)
    BY <1>1
  <2>3. w \in [1 .. Len(s) - 1 -> Keys]
    BY <2>1, <2>2
  <2>4. QED
    BY <1>1, <2>1, <2>3 DEF Without
<1>2. CASE ~ \E i \in DOMAIN s : s[i] = k
  BY <1>2 DEF Without
<1>3. QED
  BY <1>1, <1>2

-----------------------------------------------------------------------------
\* The two cases of on_access, on the parts of the policy state.
LEMMA AccessCases ==
    ASSUME TypeOK, NEW k \in Keys, policy' = LruOnAccess(policy, k)
    PROVE  \E D \in SUBSET Keys : \E s \in Seq(Keys) : \E f \in [D -> Nat] :
              /\ policy' = PushAndRecord(s, f, k)
              /\ DOMAIN index = D
              /\ \/ k \notin D /\ s = order /\ f = index
                 \/ /\ k \in D
                    /\ s = DequeRemove(order, index[k])
                    /\ f = ShiftIndex(index, index[k])
<1>1. PICK D \in SUBSET Keys : index \in [D -> Nat]
  BY DEF TypeOK
<1>2. order \in Seq(Keys) /\ DOMAIN index = D
  BY <1>1 DEF TypeOK
<1>3. CASE k \in D
  <2>1. /\ DequeRemove(order, index[k]) \in Seq(Keys)
        /\ ShiftIndex(index, index[k]) \in [D -> Nat]
    BY <1>1, <1>2, <1>3, DequeRemoveType, ShiftIndexType
  <2>2. policy' = PushAndRecord(DequeRemove(order, index[k]),
                                ShiftIndex(index, index[k]), k)
    BY <1>2, <1>3 DEF LruOnAccess, order, index
  <2>3. QED
    BY <1>1, <1>2, <1>3, <2>1, <2>2
<1>4. CASE k \notin D
  <2>1. policy' = PushAndRecord(order, index, k)
    BY <1>2, <1>4 DEF LruOnAccess, order, index
  <2>2. QED
    BY <1>1, <1>2, <1>4, <2>1
<1>5. QED
  BY <1>3, <1>4

LEMMA EvictCases ==
    ASSUME TypeOK, Evict
    PROVE  \/ /\ order = <<>> /\ policy' = policy /\ evicted' = None
           \/ /\ order # <<>> /\ evicted' = Head(order)
              /\ order' = Tail(order)
              /\ index' = [x \in DOMAIN index \ {Head(order)} |-> index[x]]
<1>1. PICK outcome \in LruEvict(policy) :
         policy' = outcome.rest /\ evicted' = outcome.key
  BY DEF Evict
<1>2. CASE order = <<>>
  BY <1>1, <1>2 DEF LruEvict, order
<1>3. CASE order # <<>>
  <2>1. outcome = [key  |-> Head(order),
                   rest |-> [access_order |-> Tail(order),
                             key_index    |-> [x \in DOMAIN index \ {Head(order)} |->
                                                  index[x]]]]
    BY <1>3 DEF LruEvict, order, index
  <2>2. outcome.key = Head(order) /\ policy'.access_order = Tail(order)
    BY <1>1, <2>1
  <2>3. policy'.key_index = [x \in DOMAIN index \ {Head(order)} |-> index[x]]
    BY <1>1, <2>1
  <2>4. QED
    BY <1>1, <1>3, <2>2, <2>3 DEF order, index
<1>4. QED
  BY <1>2, <1>3

LEMMA Access ==
    ASSUME NEW k \in Keys, OnAccess(k) \/ OnInsert(k)
    PROVE  /\ policy' = LruOnAccess(policy, k)
           /\ recency' = Append(Without(recency, k), k)
           /\ evicted' = evicted /\ evictions' = evictions
PROOF BY DEF OnAccess, OnInsert, LruOnInsert

-----------------------------------------------------------------------------
(* Type correctness *)

LEMMA TypeInit == Init => TypeOK
<1> SUFFICES ASSUME Init PROVE TypeOK
  OBVIOUS
<1>1. order = <<>> /\ index = <<>>
  BY DEF Init, LruNew, order, index
<1>2. <<>> \in Seq(Keys) /\ <<>> \in [{} -> Nat]
  OBVIOUS
<1>3. 0 \in 0 .. MaxEvictions
  BY LRUAssumption
<1>4. QED
  BY <1>1, <1>2, <1>3 DEF Init, TypeOK

LEMMA TypeStep == TypeOK /\ [Next]_vars => TypeOK'
<1> SUFFICES ASSUME TypeOK, [Next]_vars PROVE TypeOK'
  OBVIOUS
<1>1. ASSUME NEW k \in Keys, OnAccess(k) \/ OnInsert(k) PROVE TypeOK'
  <2>1. PICK D \in SUBSET Keys : \E s \in Seq(Keys) : \E f \in [D -> Nat] :
           policy' = PushAndRecord(s, f, k)
    BY <1>1, Access, AccessCases
  <2>2. PICK s \in Seq(Keys), f \in [D -> Nat] : policy' = PushAndRecord(s, f, k)
    BY <2>1
  <2>3. order' \in Seq(Keys) /\ index' \in [D \cup {k} -> Nat]
    <3>1. /\ order' = PushAndRecord(s, f, k).access_order
          /\ index' = PushAndRecord(s, f, k).key_index
      BY <2>2 DEF order, index
    <3>2. /\ PushAndRecord(s, f, k).access_order \in Seq(Keys)
          /\ PushAndRecord(s, f, k).key_index \in [D \cup {k} -> Nat]
      BY PushAndRecordType
    <3>3. QED
      BY <3>1, <3>2
  <2>4. recency' \in Seq(Keys)
    <3>1. recency \in Seq(Keys)
      BY DEF TypeOK
    <3>2. Without(recency, k) \in Seq(Keys)
      BY <3>1, WithoutType
    <3>3. recency' = Append(Without(recency, k), k)
      BY <1>1, Access
    <3>4. QED
      BY <3>2, <3>3
  <2>5. QED
    BY <1>1, <2>3, <2>4, Access DEF TypeOK
<1>2. CASE Evict
  <2>1. recency' \in Seq(Keys) /\ evictions' \in 0 .. MaxEvictions
    BY <1>2, WithoutType, LRUAssumption DEF Evict, TypeOK
  <2>2. CASE order = <<>>
    BY <1>2, <2>1, <2>2, EvictCases DEF TypeOK, order, index
  <2>3. CASE order # <<>>
    <3>1. Head(order) \in Keys /\ Tail(order) \in Seq(Keys)
      BY <2>3 DEF TypeOK
    <3>2. PICK D \in SUBSET Keys : index \in [D -> Nat]
      BY DEF TypeOK
    <3>3. index' \in [D \ {Head(order)} -> Nat]
      BY <1>2, <2>3, <3>2, EvictCases
    <3>4. QED
      BY <1>2, <2>1, <2>3, <3>1, <3>3, EvictCases DEF TypeOK
  <2>4. QED
    BY <2>2, <2>3
<1>3. CASE Reset
  <2>1. order' = <<>> /\ index' = <<>>
    BY <1>3 DEF Reset, LruReset, LruNew, order, index
  <2>2. <<>> \in Seq(Keys) /\ <<>> \in [{} -> Nat]
    OBVIOUS
  <2>3. 0 \in 0 .. MaxEvictions
    BY LRUAssumption
  <2>4. QED
    BY <1>3, <2>1, <2>2, <2>3 DEF Reset, TypeOK
<1>4. CASE UNCHANGED vars
  BY <1>4 DEF TypeOK, vars, order, index
<1>5. QED
  BY <1>1, <1>2, <1>3, <1>4 DEF Next

\* Whatever the policy is told, it keeps a deque of keys and positions
\* that are natural numbers.
THEOREM TypeCorrect == Spec => []TypeOK
PROOF BY TypeInit, TypeStep, PTL DEF Spec

-----------------------------------------------------------------------------
(* Positions are never behind *)

\* Once the entry at position i is removed and the positions past i have
\* moved down, the positions recorded for the entries left are not behind.
LEMMA RemovalKeepsAhead ==
    ASSUME NEW s \in Seq(Keys), NEW D \in SUBSET Keys, NEW f \in [D -> Nat],
           NEW i \in Nat, NEW j \in 1 .. Len(DequeRemove(s, i)),
           \A m \in 1 .. Len(s) : s[m] \in D => m - 1 <= f[s[m]],
           DequeRemove(s, i)[j] \in D
    PROVE  j - 1 <= ShiftIndex(f, i)[DequeRemove(s, i)[j]]
<1> DEFINE x == DequeRemove(s, i)[j]
<1>1. ShiftIndex(f, i)[x] = IF f[x] > i THEN f[x] - 1 ELSE f[x]
  BY DEF ShiftIndex
<1>2. Len(s) \in Nat /\ f[x] \in Nat
  OBVIOUS
<1>3. CASE i >= Len(s)
  <2>1. DequeRemove(s, i) = s
    BY <1>3, DequeRemoveType
  <2>2. j \in 1 .. Len(s) /\ x = s[j]
    BY <2>1
  <2>3. j - 1 <= f[x]
    BY <2>2
  <2>4. QED
    BY <1>1, <1>2, <1>3, <2>2, <2>3
<1>4. CASE i < Len(s)
  <2>1. /\ Len(DequeRemove(s, i)) = Len(s) - 1
        /\ \A m \in 1 .. Len(s) - 1 :
              DequeRemove(s, i)[m] = IF m <= i THEN s[m] ELSE s[m + 1]
    BY <1>4, DequeRemoveType
  <2>2. j \in 1 .. Len(s) - 1
    BY <2>1
  <2>3. x = IF j <= i THEN s[j] ELSE s[j + 1]
    BY <2>1, <2>2
  <2>4. CASE j <= i
    <3>1. j - 1 <= f[x]
      BY <1>2, <2>2, <2>3, <2>4
    <3>2. QED
      BY <1>1, <1>2, <2>2, <2>4, <3>1
  <2>5. CASE j > i
    <3>1. j + 1 \in 1 .. Len(s) /\ x = s[j + 1]
      BY <1>2, <2>2, <2>3, <2>5
    <3>2. j <= f[x]
      BY <1>2, <3>1, <2>2
    <3>3. QED
      BY <1>1, <1>2, <2>2, <2>5, <3>2
  <2>6. QED
    BY <2>2, <2>4, <2>5
<1>5. QED
  BY <1>2, <1>3, <1>4

LEMMA NeverBehindInit == Init => IndexNeverBehind
PROOF BY DEF Init, LruNew, IndexNeverBehind, order, index

LEMMA NeverBehindAccess ==
    ASSUME TypeOK, IndexNeverBehind, NEW k \in Keys,
           policy' = LruOnAccess(policy, k)
    PROVE  IndexNeverBehind'
<1>1. PICK D \in SUBSET Keys : \E s \in Seq(Keys) : \E f \in [D -> Nat] :
         /\ policy' = PushAndRecord(s, f, k)
         /\ DOMAIN index = D
         /\ \/ k \notin D /\ s = order /\ f = index
            \/ /\ k \in D
               /\ s = DequeRemove(order, index[k])
               /\ f = ShiftIndex(index, index[k])
  BY AccessCases
<1>2. PICK s \in Seq(Keys), f \in [D -> Nat] :
         /\ policy' = PushAndRecord(s, f, k)
         /\ DOMAIN index = D
         /\ \/ k \notin D /\ s = order /\ f = index
            \/ /\ k \in D
               /\ s = DequeRemove(order, index[k])
               /\ f = ShiftIndex(index, index[k])
  BY <1>1
<1>3. order \in Seq(Keys) /\ index \in [D -> Nat]
  BY <1>2 DEF TypeOK
<1>4. \A m \in 1 .. Len(order) : order[m] \in D => m - 1 <= index[order[m]]
  BY <1>2, <1>3 DEF IndexNeverBehind
<1>5. \A j \in 1 .. Len(s) : s[j] \in D => j - 1 <= f[s[j]]
  <2>1. CASE k \notin D
    BY <1>2, <1>4, <2>1
  <2>2. CASE k \in D
    <3>1. index[k] \in Nat
      BY <1>3, <2>2
    <3>2. s = DequeRemove(order, index[k]) /\ f = ShiftIndex(index, index[k])
      BY <1>2, <2>2
    <3>3. QED
      BY <1>3, <1>4, <3>1, <3>2, RemovalKeepsAhead
  <2>3. QED
    BY <2>1, <2>2
<1>6. order' = Append(s, k)
  <2>1. order' = PushAndRecord(s, f, k).access_order
    BY <1>2 DEF order
  <2>2. QED
    BY <2>1, PushAndRecordType
<1>7. /\ index' \in [D \cup {k} -> Nat]
      /\ index'[k] = Len(s)
      /\ \A x \in D \ {k} : index'[x] = f[x]
  <2>1. index' = PushAndRecord(s, f, k).key_index
    BY <1>2 DEF index
  <2>2. PushAndRecord(s, f, k).key_index \in [D \cup {k} -> Nat]
    BY PushAndRecordType
  <2>3. PushAndRecord(s, f, k).key_index[k] = Len(s)
    BY PushAndRecordType
  <2>4. \A x \in D \ {k} : PushAndRecord(s, f, k).key_index[x] = f[x]
    BY DEF PushAndRecord
  <2>5. QED
    BY <2>1, <2>2, <2>3, <2>4
<1>8. SUFFICES ASSUME NEW j \in DOMAIN order', order'[j] \in DOMAIN index'
               PROVE  j - 1 <= index'[order'[j]]
  BY DEF IndexNeverBehind
<1>9. Len(s) \in Nat /\ j \in 1 .. Len(s) + 1
  BY <1>6
<1>10. CASE order'[j] = k
  BY <1>7, <1>9, <1>10
<1>11. CASE order'[j] # k
  <2>1. j \in 1 .. Len(s) /\ order'[j] = s[j]
    BY <1>6, <1>9, <1>11
  <2>2. s[j] \in D \ {k}
    BY <1>7, <1>8, <1>11, <2>1
  <2>3. j - 1 <= f[s[j]]
    BY <1>5, <2>1, <2>2
  <2>4. QED
    BY <1>7, <2>1, <2>2, <2>3
<1>12. QED
  BY <1>10, <1>11

LEMMA NeverBehindEvict ==
    ASSUME TypeOK, IndexNeverBehind, Evict
    PROVE  IndexNeverBehind'
<1>1. CASE order = <<>> /\ policy' = policy
  BY <1>1 DEF IndexNeverBehind, order, index
<1>2. CASE /\ order # <<>> /\ order' = Tail(order)
           /\ index' = [x \in DOMAIN index \ {Head(order)} |-> index[x]]
  <2>1. order \in Seq(Keys) /\ Len(order) \in Nat /\ \E D \in SUBSET Keys : index \in [D -> Nat]
    BY DEF TypeOK
  <2>2. SUFFICES ASSUME NEW j \in DOMAIN order', order'[j] \in DOMAIN index'
                 PROVE  j - 1 <= index'[order'[j]]
    BY DEF IndexNeverBehind
  <2>3. j \in 1 .. Len(order) - 1 /\ order'[j] = order[j + 1]
    BY <1>2, <2>1
  <2>4. order[j + 1] \in DOMAIN index /\ index'[order'[j]] = index[order[j + 1]]
    BY <1>2, <2>2, <2>3
  <2>5. j + 1 \in DOMAIN order
    BY <2>1, <2>3
  <2>6. (j + 1) - 1 <= index[order[j + 1]]
    BY <2>4, <2>5 DEF IndexNeverBehind
  <2>7. index[order[j + 1]] \in Nat
    BY <2>1, <2>4
  <2>8. QED
    BY <2>3, <2>4, <2>6, <2>7
<1>3. QED
  BY <1>1, <1>2, EvictCases

LEMMA NeverBehindStep ==
    TypeOK /\ IndexNeverBehind /\ [Next]_vars => IndexNeverBehind'
<1> SUFFICES ASSUME TypeOK, IndexNeverBehind, [Next]_vars PROVE IndexNeverBehind'
  OBVIOUS
<1>1. ASSUME NEW k \in Keys, OnAccess(k) \/ OnInsert(k) PROVE IndexNeverBehind'
  BY <1>1, Access, NeverBehindAccess
<1>2. CASE Evict
  BY <1>2, NeverBehindEvict
<1>3. CASE Reset
  BY <1>3 DEF Reset, LruReset, LruNew, IndexNeverBehind, order, index
<1>4. CASE UNCHANGED vars
  BY <1>4 DEF IndexNeverBehind, vars, order, index
<1>5. QED
  BY <1>1, <1>2, <1>3, <1>4 DEF Next

\* Stale positions err in one direction only, however many evictions made
\* them stale.
THEOREM NeverBehind == Spec => []IndexNeverBehind
PROOF BY TypeInit, TypeStep, NeverBehindInit, NeverBehindStep, PTL DEF Spec

-----------------------------------------------------------------------------
(* Older entries keep their place *)

LEMMA OlderKeepStep ==
    ASSUME TypeOK, IndexNeverBehind, NEW k \in Keys, OnAccess(k) \/ OnInsert(k),
           NEW i \in DOMAIN order, order[i] = k, NEW j \in 1 .. i - 1
    PROVE  order'[j] = order[j]
<1>1. PICK D \in SUBSET Keys : \E s \in Seq(Keys) : \E f \in [D -> Nat] :
         /\ policy' = PushAndRecord(s, f, k)
         /\ DOMAIN index = D
         /\ \/ k \notin D /\ s = order /\ f = index
            \/ /\ k \in D
               /\ s = DequeRemove(order, index[k])
               /\ f = ShiftIndex(index, index[k])
  BY Access, AccessCases
<1>2. PICK s \in Seq(Keys), f \in [D -> Nat] :
         /\ policy' = PushAndRecord(s, f, k)
         /\ DOMAIN index = D
         /\ \/ k \notin D /\ s = order
            \/ k \in D /\ s = DequeRemove(order, index[k])
  BY <1>1
<1>3. order \in Seq(Keys) /\ index \in [D -> Nat] /\ Len(order) \in Nat
  BY <1>2 DEF TypeOK
<1>4. i \in 1 .. Len(order) /\ j \in 1 .. Len(order)
  BY <1>3
<1>5. j \in 1 .. Len(s) /\ s[j] = order[j]
  <2>1. CASE k \notin D
    BY <1>2, <1>4, <2>1
  <2>2. CASE k \in D
    <3>1. index[k] \in Nat /\ i - 1 <= index[k]
      BY <1>2, <1>3, <2>2 DEF IndexNeverBehind
    <3>2. s = DequeRemove(order, index[k])
      BY <1>2, <2>2
    <3>3. CASE index[k] >= Len(order)
      BY <1>3, <1>4, <3>1, <3>2, <3>3, DequeRemoveType
    <3>4. CASE index[k] < Len(order)
      <4>1. /\ Len(s) = Len(order) - 1
            /\ \A m \in 1 .. Len(order) - 1 :
                  s[m] = IF m <= index[k] THEN order[m] ELSE order[m + 1]
        BY <1>3, <3>1, <3>2, <3>4, DequeRemoveType
      <4>2. j <= index[k] /\ j \in 1 .. Len(order) - 1
        BY <1>3, <1>4, <3>1
      <4>3. QED
        BY <4>1, <4>2
    <3>5. QED
      BY <1>3, <3>1, <3>3, <3>4
  <2>3. QED
    BY <2>1, <2>2
<1>6. order' = Append(s, k)
  <2>1. order' = PushAndRecord(s, f, k).access_order
    BY <1>2 DEF order
  <2>2. QED
    BY <2>1, PushAndRecordType
<1>7. QED
  BY <1>5, <1>6

\* Using a key never moves an older entry, so a victim may be a key used
\* lately but entries are never reordered among the older ones.
THEOREM OlderKeep == Spec => OlderEntriesKeepPlace
<1>1. TypeOK /\ IndexNeverBehind /\ [Next]_vars =>
         [\A k \in Keys : OnAccess(k) \/ OnInsert(k) =>
            \A i \in DOMAIN order :
                order[i] = k => \A j \in 1 .. i - 1 : order'[j] = order[j]]_vars
  BY OlderKeepStep
<1>2. QED
  BY <1>1, TypeCorrect, NeverBehind, PTL DEF Spec, OlderEntriesKeepPlace

-----------------------------------------------------------------------------
(* Exact until something is evicted *)

\* Removing a key by its recorded position, when positions are exact, is
\* removing the key: the deque loses its one occurrence of the key.
LEMMA ExactRemoval ==
    ASSUME TypeOK, IndexMatchesOrder, NEW k \in DOMAIN index
    PROVE  /\ \E i \in 1 .. Len(order) : order[i] = k /\ index[k] = i - 1
           /\ \A i \in 1 .. Len(order) : order[i] = k => i - 1 = index[k]
           /\ DequeRemove(order, index[k]) = Without(order, k)
<1>1. order \in Seq(Keys) /\ Len(order) \in Nat
  BY DEF TypeOK
<1>2. PICK i \in 1 .. Len(order) : order[i] = k
  BY DEF IndexMatchesOrder, LruTracked, order
<1>3. \A j \in 1 .. Len(order) : order[j] = k => j - 1 = index[k]
  BY <1>1 DEF IndexMatchesOrder
<1>4. index[k] = i - 1
  BY <1>2, <1>3
<1>5. \A j \in 1 .. Len(order) : order[j] = k => j = i
  BY <1>1, <1>3, <1>4
<1>6. DequeRemove(order, index[k]) = Without(order, k)
  <2> DEFINE p == CHOOSE j \in DOMAIN order : order[j] = k
  <2>1. p \in DOMAIN order /\ order[p] = k
    BY <1>1, <1>2
  <2>2. p = i
    BY <1>1, <1>5, <2>1
  <2>3. Without(order, k) =
           [j \in 1 .. Len(order) - 1 |-> order[IF j < p THEN j ELSE j + 1]]
    BY <2>1 DEF Without
  <2>4. DequeRemove(order, index[k]) =
           [j \in 1 .. Len(order) - 1 |-> IF j <= i - 1 THEN order[j] ELSE order[j + 1]]
    BY <1>1, <1>2, <1>4 DEF DequeRemove
  <2>5. \A j \in 1 .. Len(order) - 1 :
           order[IF j < i THEN j ELSE j + 1] =
              IF j <= i - 1 THEN order[j] ELSE order[j + 1]
    BY <1>1, <1>2
  <2>6. QED
    BY <2>2, <2>3, <2>4, <2>5
<1>7. QED
  BY <1>2, <1>3, <1>4, <1>6

LEMMA ExactInit == Init => ExactUntilEvicted
PROOF BY DEF Init, LruNew, LruTracked, ExactUntilEvicted, IndexMatchesOrder, order, index

\* Pushing a key that is not in the deque keeps the positions exact.
LEMMA ExactPush ==
    ASSUME NEW s \in Seq(Keys), NEW D \in SUBSET Keys, NEW f \in [D -> Nat],
           NEW k \in Keys, policy' = PushAndRecord(s, f, k),
           \A i \in 1 .. Len(s) : s[i] \in D \ {k} /\ f[s[i]] = i - 1,
           \A x \in D \ {k} : \E i \in 1 .. Len(s) : s[i] = x
    PROVE  IndexMatchesOrder' /\ order' = Append(s, k)
<1>1. order' = Append(s, k)
  <2>1. order' = PushAndRecord(s, f, k).access_order
    BY DEF order
  <2>2. PushAndRecord(s, f, k).access_order = Append(s, k)
    BY DEF PushAndRecord
  <2>3. QED
    BY <2>1, <2>2
<1>2. index' = [x \in D \cup {k} |-> IF x = k THEN Len(s) ELSE f[x]]
  BY DEF PushAndRecord, index
<1>3. Len(s) \in Nat /\ Len(order') = Len(s) + 1 /\ order'[Len(s) + 1] = k
  BY <1>1
<1>4. \A i \in 1 .. Len(s) : order'[i] = s[i]
  BY <1>1
<1>5. \A i \in 1 .. Len(s) + 1 : i \in 1 .. Len(s) \/ i = Len(s) + 1
  BY <1>3
<1>6. LruTracked(policy)' = D \cup {k}
  <2>1. LruTracked(policy)' = {order'[i] : i \in 1 .. Len(s) + 1}
    BY <1>3 DEF LruTracked, order
  <2>2. ASSUME NEW x \in D \ {k} PROVE x \in LruTracked(policy)'
    <3>1. PICK i \in 1 .. Len(s) : s[i] = x
      BY <2>2
    <3>2. i \in 1 .. Len(s) + 1 /\ order'[i] = x
      BY <1>3, <1>4, <3>1
    <3>3. QED
      BY <2>1, <3>2
  <2>3. k \in LruTracked(policy)'
    BY <1>3, <2>1
  <2>4. LruTracked(policy)' \subseteq D \cup {k}
    BY <1>3, <1>4, <1>5, <2>1
  <2>5. QED
    BY <2>2, <2>3, <2>4
<1>7. \A i \in 1 .. Len(s) + 1 : index'[order'[i]] = i - 1
  BY <1>2, <1>3, <1>4, <1>5
<1>8. DOMAIN order' = 1 .. Len(s) + 1
  BY <1>1, <1>3
<1>9. QED
  BY <1>1, <1>2, <1>6, <1>7, <1>8 DEF IndexMatchesOrder

LEMMA ExactAccess ==
    ASSUME TypeOK, IndexMatchesOrder, NEW k \in Keys,
           policy' = LruOnAccess(policy, k)
    PROVE  IndexMatchesOrder' /\ order' = Append(Without(order, k), k)
<1>1. PICK D \in SUBSET Keys : index \in [D -> Nat]
  BY DEF TypeOK
<1>2. order \in Seq(Keys) /\ DOMAIN index = D /\ Len(order) \in Nat
  BY <1>1 DEF TypeOK
<1>3. \A i \in 1 .. Len(order) : order[i] \in D /\ index[order[i]] = i - 1
  BY <1>2 DEF IndexMatchesOrder, LruTracked, order
<1>4. \A x \in D : \E i \in 1 .. Len(order) : order[i] = x
  BY <1>2 DEF IndexMatchesOrder, LruTracked, order
<1>5. CASE k \notin D
  <2>1. policy' = PushAndRecord(order, index, k)
    BY <1>2, <1>5 DEF LruOnAccess, order, index
  <2>2. Without(order, k) = order
    BY <1>2, <1>3, <1>5 DEF Without
  <2>3. \A i \in 1 .. Len(order) : order[i] \in D \ {k}
    BY <1>3, <1>5
  <2>4. QED
    BY <1>1, <1>2, <1>3, <1>4, <2>1, <2>2, <2>3, ExactPush
<1>6. CASE k \in D
  <2> DEFINE s == DequeRemove(order, index[k])
             f == ShiftIndex(index, index[k])
  <2>1. s = Without(order, k)
    BY <1>2, <1>6, ExactRemoval
  <2>2. PICK p \in 1 .. Len(order) : order[p] = k /\ index[k] = p - 1
    BY <1>2, <1>6, ExactRemoval
  <2>3. index[k] \in Nat /\ index[k] < Len(order)
    BY <1>2, <2>2
  <2>4. s \in Seq(Keys) /\ f \in [D -> Nat]
    BY <1>1, <1>2, <2>3, DequeRemoveType, ShiftIndexType
  <2>5. /\ Len(s) = Len(order) - 1
        /\ \A j \in 1 .. Len(order) - 1 :
              s[j] = IF j <= index[k] THEN order[j] ELSE order[j + 1]
    BY <1>2, <2>3, DequeRemoveType
  <2>6. policy' = PushAndRecord(s, f, k)
    BY <1>2, <1>6 DEF LruOnAccess, order, index
  <2>7. ASSUME NEW i \in 1 .. Len(s) PROVE s[i] \in D \ {k} /\ f[s[i]] = i - 1
    <3>1. i \in 1 .. Len(order) - 1
      BY <2>5
    <3>2. CASE i <= index[k]
      <4>1. s[i] = order[i] /\ i \in 1 .. Len(order)
        BY <1>2, <2>5, <3>1, <3>2
      <4>2. s[i] \in D /\ index[s[i]] = i - 1
        BY <1>3, <4>1
      <4>3. s[i] # k
        BY <2>2, <3>1, <3>2, <4>2
      <4>4. f[s[i]] = i - 1
        BY <1>1, <2>2, <3>1, <3>2, <4>2 DEF ShiftIndex
      <4>5. QED
        BY <4>2, <4>3, <4>4
    <3>3. CASE i > index[k]
      <4>1. s[i] = order[i + 1] /\ i + 1 \in 1 .. Len(order)
        BY <1>2, <2>3, <2>5, <3>1, <3>3
      <4>2. s[i] \in D /\ index[s[i]] = i
        BY <1>3, <3>1, <4>1
      <4>3. s[i] # k
        BY <2>2, <3>1, <3>3, <4>2
      <4>4. f[s[i]] = i - 1
        BY <1>1, <2>2, <3>1, <3>3, <4>2 DEF ShiftIndex
      <4>5. QED
        BY <4>2, <4>3, <4>4
    <3>4. QED
      BY <2>3, <3>1, <3>2, <3>3
  <2>8. ASSUME NEW x \in D \ {k} PROVE \E i \in 1 .. Len(s) : s[i] = x
    <3>1. PICK i \in 1 .. Len(order) : order[i] = x
      BY <1>4
    <3>2. i # p
      BY <2>2, <2>8, <3>1
    <3>3. CASE i < p
      <4>1. i \in 1 .. Len(s) /\ s[i] = order[i]
        BY <1>2, <2>2, <2>5, <3>3
      <4>2. QED
        BY <3>1, <4>1
    <3>4. CASE i > p
      <4>1. i - 1 \in 1 .. Len(order) - 1 /\ ~ (i - 1 <= index[k]) /\ (i - 1) + 1 = i
        BY <1>2, <2>2, <3>4
      <4>2. i - 1 \in 1 .. Len(s) /\ s[i - 1] = order[i]
        BY <2>5, <4>1
      <4>3. QED
        BY <3>1, <4>2
    <3>5. QED
      BY <3>2, <3>3, <3>4
  <2>9. QED
    <3> HIDE DEF s, f
    <3>1. IndexMatchesOrder' /\ order' = Append(s, k)
      BY <2>4, <2>6, <2>7, <2>8, ExactPush
    <3>2. QED
      BY <2>1, <3>1
<1>7. QED
  BY <1>5, <1>6

LEMMA ExactStep ==
    TypeOK /\ ExactUntilEvicted /\ [Next]_vars => ExactUntilEvicted'
<1> SUFFICES ASSUME TypeOK, ExactUntilEvicted, [Next]_vars, evictions' = 0
             PROVE  IndexMatchesOrder' /\ order' = recency'
  BY DEF ExactUntilEvicted
<1>1. ASSUME NEW k \in Keys, OnAccess(k) \/ OnInsert(k)
      PROVE  IndexMatchesOrder' /\ order' = recency'
  <2>1. evictions = 0
    BY <1>1, Access
  <2>2. IndexMatchesOrder /\ order = recency
    BY <2>1 DEF ExactUntilEvicted
  <2>3. IndexMatchesOrder' /\ order' = Append(Without(order, k), k)
    BY <1>1, <2>2, Access, ExactAccess
  <2>4. QED
    BY <1>1, <2>2, <2>3, Access
<1>2. CASE Evict
  <2>1. PICK outcome \in LruEvict(policy) :
           /\ policy' = outcome.rest /\ outcome.key = None
           /\ recency' = Without(recency, outcome.key) /\ evictions = 0
    BY <1>2 DEF Evict, TypeOK
  <2>2. CASE order = <<>>
    <3>1. policy' = policy
      BY <2>1, <2>2 DEF LruEvict, order
    <3>2. recency = <<>> /\ IndexMatchesOrder
      BY <2>1, <2>2 DEF ExactUntilEvicted
    <3>3. recency' = recency
      BY <2>1, <3>2 DEF Without
    <3>4. QED
      BY <2>2, <3>1, <3>2, <3>3 DEF IndexMatchesOrder, order, index
  <2>3. CASE order # <<>>
    <3>1. outcome.key = Head(order)
      BY <2>1, <2>3 DEF LruEvict, order
    <3>2. Head(order) \in Keys
      BY <2>3 DEF TypeOK
    <3>3. QED
      BY <2>1, <3>1, <3>2, LRUAssumption
  <2>4. QED
    BY <2>2, <2>3
<1>3. CASE Reset
  BY <1>3 DEF Reset, LruReset, LruNew, LruTracked, IndexMatchesOrder, order, index
<1>4. CASE UNCHANGED vars
  BY <1>4 DEF ExactUntilEvicted, IndexMatchesOrder, LruTracked, vars, order, index
<1>5. QED
  BY <1>1, <1>2, <1>3, <1>4 DEF Next

\* Until the first eviction the map and the deque are inverse to each other
\* and the deque is the true order of use.
THEOREM Exact == Spec => []ExactUntilEvicted
PROOF BY TypeInit, TypeStep, ExactInit, ExactStep, PTL DEF Spec

-----------------------------------------------------------------------------
(* Length of the deque *)

\* The invariant behind the bound: neither the deque nor a recorded position
\* has outgrown the map by more than one entry per eviction.
Room == Cardinality(DOMAIN index) + evictions
LengthInv ==
    /\ IsFiniteSet(DOMAIN index)
    /\ Len(order) <= Room
    /\ \A k \in DOMAIN index : index[k] < Room

LEMMA LengthAccess ==
    ASSUME TypeOK, LengthInv, NEW k \in Keys, OnAccess(k) \/ OnInsert(k)
    PROVE  LengthInv'
<1>1. PICK D \in SUBSET Keys : \E s \in Seq(Keys) : \E f \in [D -> Nat] :
         /\ policy' = PushAndRecord(s, f, k)
         /\ DOMAIN index = D
         /\ \/ k \notin D /\ s = order /\ f = index
            \/ /\ k \in D
               /\ s = DequeRemove(order, index[k])
               /\ f = ShiftIndex(index, index[k])
  BY Access, AccessCases
<1>2. PICK s \in Seq(Keys), f \in [D -> Nat] :
         /\ policy' = PushAndRecord(s, f, k)
         /\ \/ k \notin D /\ s = order /\ f = index
            \/ /\ k \in D
               /\ s = DequeRemove(order, index[k])
               /\ f = ShiftIndex(index, index[k])
  BY <1>1
<1>3. /\ order \in Seq(Keys) /\ Len(order) \in Nat /\ index \in [D -> Nat]
      /\ IsFiniteSet(D) /\ Cardinality(D) \in Nat /\ evictions \in Nat
      /\ Room = Cardinality(D) + evictions
  BY <1>1, FS_CardinalityType, LRUAssumption DEF TypeOK, LengthInv, Room
<1>4. /\ Len(order') = Len(s) + 1 /\ DOMAIN index' = D \cup {k}
      /\ index'[k] = Len(s) /\ \A x \in D \ {k} : index'[x] = f[x]
      /\ evictions' = evictions
  <2>1. /\ order' = PushAndRecord(s, f, k).access_order
        /\ index' = PushAndRecord(s, f, k).key_index
    BY <1>2 DEF order, index
  <2>2. QED
    BY <2>1, PushAndRecordType, Access DEF PushAndRecord
<1>5. IsFiniteSet(D \cup {k}) /\ Cardinality(D \cup {k}) =
         IF k \in D THEN Cardinality(D) ELSE Cardinality(D) + 1
  BY <1>3, FS_AddElement
<1>6. Room' = IF k \in D THEN Room ELSE Room + 1
  BY <1>3, <1>4, <1>5 DEF Room
<1>7. Len(s) \in Nat /\ Len(s) < Room' /\ \A x \in D : f[x] < Room'
  <2>1. CASE k \notin D
    BY <1>2, <1>3, <1>6, <2>1, <1>1 DEF LengthInv
  <2>2. CASE k \in D
    <3>1. /\ s = DequeRemove(order, index[k]) /\ index[k] \in Nat
          /\ f = ShiftIndex(index, index[k]) /\ index[k] < Room /\ Room' = Room
          /\ Len(order) <= Room
      BY <1>1, <1>2, <1>3, <1>6, <2>2 DEF LengthInv
    <3>2. Len(s) < Room
      <4>1. /\ index[k] >= Len(order) => s = order
            /\ index[k] < Len(order) => Len(s) = Len(order) - 1
        BY <1>3, <3>1, DequeRemoveType
      <4>2. Room \in Nat
        BY <1>3
      <4>3. CASE index[k] >= Len(order)
        BY <1>3, <3>1, <4>1, <4>2, <4>3
      <4>4. CASE index[k] < Len(order)
        BY <1>3, <3>1, <4>1, <4>2, <4>4
      <4>5. QED BY <1>3, <3>1, <4>3, <4>4
    <3>3. \A x \in D : f[x] < Room
      <4> SUFFICES ASSUME NEW x \in D PROVE f[x] < Room
        OBVIOUS
      <4>1. f[x] = IF index[x] > index[k] THEN index[x] - 1 ELSE index[x]
        BY <1>3, <3>1 DEF ShiftIndex
      <4>2. index[x] < Room /\ index[x] \in Nat
        BY <1>1, <1>3 DEF LengthInv
      <4>3. QED BY <1>3, <4>1, <4>2
    <3>4. QED BY <3>1, <3>2, <3>3
  <2>3. QED BY <2>1, <2>2
<1>8. QED
  BY <1>3, <1>4, <1>5, <1>6, <1>7 DEF LengthInv

LEMMA OneLess ==
    ASSUME NEW S, IsFiniteSet(S), NEW x
    PROVE  /\ IsFiniteSet(S \ {x}) /\ Cardinality(S \ {x}) \in Nat
           /\ Cardinality(S \ {x}) >= Cardinality(S) - 1
<1>1. IsFiniteSet(S \ {x}) /\ Cardinality(S \ {x}) \in Nat /\ Cardinality(S) \in Nat
  <2>1. IsFiniteSet(S \ {x})
    BY FS_Subset
  <2>2. QED BY <2>1, FS_CardinalityType
<1>2. Cardinality(S \ {x}) = IF x \in S THEN Cardinality(S) - 1 ELSE Cardinality(S)
  BY FS_RemoveElement
<1>3. QED BY <1>1, <1>2

LEMMA LengthEvict ==
    ASSUME TypeOK, LengthInv, Evict
    PROVE  LengthInv'
<1>1. PICK D \in SUBSET Keys : index \in [D -> Nat]
  BY DEF TypeOK
<1>2. /\ order \in Seq(Keys) /\ Len(order) \in Nat /\ DOMAIN index = D
      /\ IsFiniteSet(D) /\ Cardinality(D) \in Nat /\ evictions \in Nat
  BY <1>1, FS_CardinalityType, LRUAssumption DEF TypeOK, LengthInv
<1>3. CASE order = <<>>
  <2>1. policy' = policy /\ evicted' = None
    BY <1>3, EvictCases
  <2>2. evictions' = evictions
    BY <2>1 DEF Evict
  <2>3. QED BY <2>1, <2>2 DEF LengthInv, Room, order, index
<1>4. CASE order # <<>>
  <2> DEFINE h == Head(order)
  <2>1. h \in Keys /\ Len(order') = Len(order) - 1
    BY <1>2, <1>4, EvictCases
  <2>2. evictions' = evictions + 1
    BY <1>4, <2>1, EvictCases, LRUAssumption DEF Evict
  <2>3. index' = [x \in D \ {h} |-> index[x]]
    BY <1>2, <1>4, EvictCases
  <2>4. IsFiniteSet(D \ {h}) /\ Cardinality(D \ {h}) \in Nat
        /\ Cardinality(D \ {h}) >= Cardinality(D) - 1
    BY <1>2, OneLess
  <2>5. Room' >= Room /\ Room \in Nat /\ Room' \in Nat
    BY <1>2, <2>2, <2>3, <2>4 DEF Room
  <2>6. QED
    BY <1>1, <1>2, <2>1, <2>3, <2>4, <2>5 DEF LengthInv
<1>5. QED BY <1>3, <1>4

\* The deque has no bound of its own: it is as long as the keys in the map
\* and the evictions so far allow, for any keys and any sequence of calls.
THEOREM LengthBounded == Spec => []LengthBound
<1>1. Init => LengthInv
  BY FS_EmptySet DEF Init, LruNew, LengthInv, Room, order, index
<1>2. TypeOK /\ LengthInv /\ [Next]_vars => LengthInv'
  <2> SUFFICES ASSUME TypeOK, LengthInv, [Next]_vars PROVE LengthInv'
    OBVIOUS
  <2>1. CASE Reset
    BY <2>1, FS_EmptySet DEF Reset, LruReset, LruNew, LengthInv, Room, order, index
  <2>2. CASE UNCHANGED vars
    BY <2>2 DEF LengthInv, Room, vars, order, index
  <2>3. QED BY <2>1, <2>2, LengthAccess, LengthEvict DEF Next
<1>3. LengthInv => LengthBound
  BY DEF LengthInv, LengthBound, Room
<1>4. QED BY <1>1, <1>2, <1>3, TypeCorrect, PTL DEF Spec
=============================================================================
