-------------------------- MODULE LFUPolicyProofs --------------------------
(***************************************************************************)
(* Proofs about the LFU policy, for any set of keys and any number of      *)
(* uses: what it counts is what was used, it evicts a least used key, and  *)
(* it implements the contract of the trait.                                *)
(***************************************************************************)
EXTENDS LFUPolicy, TLAPS

\* What a key is counted for is how often it was used since its insertion;
\* the keys counted are the keys used.
CountsUses ==
    /\ count \in [{k \in Keys : uses[k] > 0} -> Nat \ {0}]
    /\ \A k \in Keys : uses[k] > 0 => count[k] = uses[k]
    /\ policy.min_frequency \in Nat
    /\ evicted \in Keys \cup {None}
    /\ uses \in [Keys -> Nat]

LEMMA CountsUsesType == CountsUses => TypeOK
<1> SUFFICES ASSUME CountsUses PROVE TypeOK
  OBVIOUS
<1>1. {k \in Keys : uses[k] > 0} \in SUBSET Keys
  OBVIOUS
<1>2. \E D \in SUBSET Keys : count \in [D -> Nat \ {0}]
  BY <1>1 DEF CountsUses
<1>3. QED
  BY <1>2 DEF CountsUses, TypeOK

LEMMA CountsInit == Init => CountsUses
PROOF BY DEF Init, LfuNew, CountsUses, count

\* The two forms of a use: on_access and on_insert set the key's count to
\* what its uses now are.
LEMMA Use ==
    ASSUME CountsUses, NEW k \in Keys, OnAccess(k) \/ OnInsert(k)
    PROVE  /\ uses'[k] \in Nat \ {0}
           /\ uses' = [uses EXCEPT ![k] = uses'[k]]
           /\ count' = WithCount(count, k, uses'[k])
           /\ evicted' = evicted
<1>1. CASE OnAccess(k)
  <2>1. k \in DOMAIN count <=> uses[k] > 0
    BY DEF CountsUses
  <2>2. (IF k \in DOMAIN count THEN count[k] + 1 ELSE 1) = uses[k] + 1
    BY <2>1 DEF CountsUses
  <2>3. uses'[k] = uses[k] + 1 /\ uses' = [uses EXCEPT ![k] = uses[k] + 1]
    BY <1>1 DEF OnAccess, CountsUses
  <2>4. count' = WithCount(count, k, uses[k] + 1)
    BY <1>1, <2>2 DEF OnAccess, LfuOnAccess, count
  <2>5. QED
    BY <1>1, <2>3, <2>4 DEF OnAccess, CountsUses
<1>2. CASE OnInsert(k)
  BY <1>2 DEF OnInsert, LfuOnInsert, CountsUses, count
<1>3. QED
  BY <1>1, <1>2

\* An evict() that finds a key: it is a least used one, and forgotten.
LEMMA Victim ==
    ASSUME CountsUses, Evict, \E k \in Keys : uses[k] > 0
    PROVE  /\ evicted' \in Keys /\ uses[evicted'] > 0
           /\ \A k \in Keys : uses[k] > 0 => uses[evicted'] <= uses[k]
           /\ uses' = [k \in Keys |-> IF k = evicted' THEN 0 ELSE uses[k]]
           /\ count' = [x \in DOMAIN count \ {evicted'} |-> count[x]]
           /\ policy'.min_frequency = policy.min_frequency
<1>1. LfuTracked(policy) = {k \in Keys : uses[k] > 0}
  BY DEF CountsUses, LfuTracked, count
<1>2. PICK v \in LeastUsed(policy) :
         /\ policy' = [policy EXCEPT !.access_count =
                          [x \in DOMAIN policy.access_count \ {v} |->
                              policy.access_count[x]]]
         /\ evicted' = v
         /\ uses' = [k \in Keys |-> IF k = v THEN 0 ELSE uses[k]]
  <2>1. LfuTracked(policy) # {}
    BY <1>1
  <2>2. PICK outcome \in LfuEvict(policy) :
           /\ policy' = outcome.rest /\ evicted' = outcome.key
           /\ uses' = [k \in Keys |-> IF k = outcome.key THEN 0 ELSE uses[k]]
    BY DEF Evict
  <2>3. PICK v \in LeastUsed(policy) :
           outcome = [key  |-> v,
                      rest |-> [policy EXCEPT !.access_count =
                                   [x \in DOMAIN policy.access_count \ {v} |->
                                       policy.access_count[x]]]]
    BY <2>1, <2>2 DEF LfuEvict
  <2>4. outcome.key = v
    BY <2>3
  <2>5. outcome.rest = [policy EXCEPT !.access_count =
                           [x \in DOMAIN policy.access_count \ {v} |->
                               policy.access_count[x]]]
    BY <2>3
  <2>6. QED
    BY <2>2, <2>4, <2>5
<1>3. v \in Keys /\ uses[v] > 0 /\ \A k \in Keys : uses[k] > 0 => uses[v] <= uses[k]
  BY <1>1, <1>2 DEF LeastUsed, CountsUses, count
<1>4. /\ count' = [x \in DOMAIN count \ {v} |-> count[x]]
      /\ policy'.min_frequency = policy.min_frequency
  BY <1>2 DEF count
<1>5. QED
  BY <1>2, <1>3, <1>4

\* An evict() that finds no key changes nothing but what it returned.
LEMMA NoVictim ==
    ASSUME CountsUses, Evict, ~ \E k \in Keys : uses[k] > 0
    PROVE  policy' = policy /\ evicted' = None /\ uses' = uses
<1>1. LfuTracked(policy) = {}
  BY DEF CountsUses, LfuTracked, count
<1>2. policy' = policy /\ evicted' = None
  BY <1>1 DEF Evict, LfuEvict
<1>3. uses' = [k \in Keys |-> IF k = None THEN 0 ELSE uses[k]]
  BY <1>1 DEF Evict, LfuEvict
<1>4. QED
  BY <1>2, <1>3, LFUAssumption DEF CountsUses

LEMMA CountsStep == CountsUses /\ [Next]_vars => CountsUses'
<1> SUFFICES ASSUME CountsUses, [Next]_vars PROVE CountsUses'
  OBVIOUS
<1>1. ASSUME NEW k \in Keys, OnAccess(k) \/ OnInsert(k) PROVE CountsUses'
  <2>1. policy'.min_frequency \in Nat
    <3>1. CASE OnAccess(k)
      BY <3>1 DEF OnAccess, LfuOnAccess, CountsUses, count
    <3>2. CASE OnInsert(k)
      BY <3>2 DEF OnInsert, LfuOnInsert
    <3>3. QED
      BY <1>1, <3>1, <3>2
  <2>2. /\ uses'[k] \in Nat \ {0}
        /\ uses' = [uses EXCEPT ![k] = uses'[k]]
        /\ count' = WithCount(count, k, uses'[k])
        /\ evicted' = evicted
    BY <1>1, Use
  <2>3. {x \in Keys : uses'[x] > 0} = {x \in Keys : uses[x] > 0} \cup {k}
    BY <2>2 DEF CountsUses
  <2>4. count' \in [{x \in Keys : uses'[x] > 0} -> Nat \ {0}]
    BY <2>2, <2>3 DEF CountsUses, WithCount
  <2>5. \A x \in Keys : uses'[x] > 0 => count'[x] = uses'[x]
    BY <2>2, <2>3 DEF CountsUses, WithCount
  <2>6. QED
    BY <2>1, <2>2, <2>4, <2>5 DEF CountsUses
<1>2. CASE Evict
  <2>1. CASE \E k \in Keys : uses[k] > 0
    <3>1. /\ evicted' \in Keys /\ policy'.min_frequency \in Nat
          /\ uses' = [k \in Keys |-> IF k = evicted' THEN 0 ELSE uses[k]]
          /\ count' = [x \in DOMAIN count \ {evicted'} |-> count[x]]
      BY <1>2, <2>1, Victim DEF CountsUses
    <3>2. {x \in Keys : uses'[x] > 0} = {x \in Keys : uses[x] > 0} \ {evicted'}
      BY <3>1 DEF CountsUses
    <3>3. count' \in [{x \in Keys : uses'[x] > 0} -> Nat \ {0}]
      BY <3>1, <3>2 DEF CountsUses
    <3>4. QED
      BY <3>1, <3>2, <3>3 DEF CountsUses
  <2>2. CASE ~ \E k \in Keys : uses[k] > 0
    BY <1>2, <2>2, NoVictim DEF CountsUses, count
  <2>3. QED
    BY <2>1, <2>2
<1>3. CASE Reset
  BY <1>3 DEF Reset, LfuReset, LfuNew, CountsUses, count
<1>4. CASE UNCHANGED vars
  BY <1>4 DEF CountsUses, vars, count
<1>5. QED
  BY <1>1, <1>2, <1>3, <1>4 DEF Next

LEMMA CountsAlways == Spec => []CountsUses
PROOF BY CountsInit, CountsStep, PTL DEF Spec

\* Counts are of at least one use, in every reachable state.
THEOREM TypeCorrect == Spec => []TypeOK
PROOF BY CountsAlways, CountsUsesType, PTL

-----------------------------------------------------------------------------
(* min_frequency *)

LEMMA LowerBoundInit == Init => MinFrequencyIsLowerBound
PROOF BY DEF Init, LfuNew, MinFrequencyIsLowerBound, count

LEMMA LowerBoundStep ==
    CountsUses /\ MinFrequencyIsLowerBound /\ [Next]_vars => MinFrequencyIsLowerBound'
<1> SUFFICES ASSUME CountsUses, MinFrequencyIsLowerBound, [Next]_vars
             PROVE  MinFrequencyIsLowerBound'
  OBVIOUS
<1> USE DEF MinFrequencyIsLowerBound
<1>1. ASSUME NEW k \in Keys, OnAccess(k) PROVE MinFrequencyIsLowerBound'
  <2> DEFINE n == IF k \in DOMAIN count THEN count[k] + 1 ELSE 1
  <2>1. /\ count' = WithCount(count, k, n)
        /\ policy'.min_frequency =
              IF policy.min_frequency = 0 \/ n < policy.min_frequency
              THEN n ELSE policy.min_frequency
    BY <1>1 DEF OnAccess, LfuOnAccess, count
  <2>2. n \in Nat \ {0} /\ policy.min_frequency \in Nat
    BY DEF CountsUses
  <2>3. \A x \in DOMAIN count : count[x] \in Nat \ {0}
    BY DEF CountsUses
  <2>4. SUFFICES ASSUME NEW x \in DOMAIN count'
                 PROVE  policy'.min_frequency \in 1 .. count'[x]
    OBVIOUS
  <2>5. CASE x = k
    <3>1. count'[x] = n
      BY <2>1, <2>5 DEF WithCount
    <3>2. QED
      BY <2>1, <2>2, <3>1
  <2>6. CASE x # k
    <3>1. x \in DOMAIN count /\ count'[x] = count[x]
      BY <2>1, <2>4, <2>6 DEF WithCount
    <3>2. policy.min_frequency \in 1 .. count[x]
      BY <3>1
    <3>3. QED
      BY <2>1, <2>2, <2>3, <3>1, <3>2
  <2>7. QED
    BY <2>5, <2>6
<1>2. ASSUME NEW k \in Keys, OnInsert(k) PROVE MinFrequencyIsLowerBound'
  BY <1>2 DEF OnInsert, LfuOnInsert, WithCount, CountsUses, count
<1>3. CASE Evict
  <2>1. CASE \E k \in Keys : uses[k] > 0
    BY <1>3, <2>1, Victim
  <2>2. CASE ~ \E k \in Keys : uses[k] > 0
    BY <1>3, <2>2, NoVictim DEF count
  <2>3. QED
    BY <2>1, <2>2
<1>4. CASE Reset
  BY <1>4 DEF Reset, LfuReset, LfuNew, count
<1>5. CASE UNCHANGED vars
  BY <1>5 DEF vars, count
<1>6. QED
  BY <1>1, <1>2, <1>3, <1>4, <1>5 DEF Next

\* The stale min_frequency never overtakes a count.
THEOREM LowerBound == Spec => []MinFrequencyIsLowerBound
PROOF BY CountsAlways, LowerBoundInit, LowerBoundStep, PTL DEF Spec

-----------------------------------------------------------------------------
(* What evict() returns *)

\* While any key is known evict() returns a known key used least.
THEOREM LeastFrequent == Spec => EvictsLeastFrequent
<1>1. CountsUses /\ [Next]_vars =>
         [Evict /\ (\E k \in Keys : uses[k] > 0) =>
             /\ evicted' \in Keys
             /\ uses[evicted'] > 0
             /\ \A k \in Keys : uses[k] > 0 => uses[evicted'] <= uses[k]]_vars
  BY Victim
<1>2. QED
  BY <1>1, CountsAlways, PTL DEF Spec, EvictsLeastFrequent

\* Each call of the policy is a step of the contract, or none.
LEMMA ContractStep ==
    CountsUses /\ [Next]_vars => [Contract!EPNext]_(Contract!epVars)
<1> SUFFICES ASSUME CountsUses, [Next]_vars
             PROVE  [Contract!EPNext]_(Contract!epVars)
  OBVIOUS
<1> USE DEF Contract!EPNext, Contract!epVars
<1>1. ASSUME NEW k \in Keys, OnAccess(k) \/ OnInsert(k) PROVE Contract!EPNext
  <2>1. count' = WithCount(count, k, uses'[k]) /\ evicted' = evicted
    BY <1>1, Use
  <2>2. DOMAIN count' = DOMAIN count \cup {k}
    BY <2>1 DEF WithCount
  <2>3. QED
    BY <2>1, <2>2 DEF Contract!Note
<1>2. CASE Evict
  <2>1. CASE \E k \in Keys : uses[k] > 0
    <3>1. /\ evicted' \in Keys /\ evicted' \in DOMAIN count
          /\ DOMAIN count' = DOMAIN count \ {evicted'}
      BY <1>2, <2>1, Victim DEF CountsUses
    <3>2. Contract!Surrender(evicted')
      BY <3>1 DEF Contract!Surrender
    <3>3. QED
      BY <3>1, <3>2
  <2>2. CASE ~ \E k \in Keys : uses[k] > 0
    <3>1. DOMAIN count = {} /\ DOMAIN count' = DOMAIN count /\ evicted' = None
      BY <1>2, <2>2, NoVictim DEF CountsUses, count
    <3>2. QED
      BY <3>1 DEF Contract!NothingLeft
  <2>3. QED
    BY <2>1, <2>2
<1>3. CASE Reset
  <2>1. DOMAIN count' = {} /\ evicted' = evicted
    BY <1>3 DEF Reset, LfuReset, LfuNew, count
  <2>2. QED
    BY <2>1 DEF Contract!Clear
<1>4. CASE UNCHANGED vars
  BY <1>4 DEF vars, count
<1>5. QED
  BY <1>1, <1>2, <1>3, <1>4 DEF Next

LEMMA ContractInit == Init => Contract!EPInit
PROOF BY DEF Init, LfuNew, Contract!EPInit, count

\* LFU implements the contract of the EvictionPolicy trait.
THEOREM ImplementsContract == Spec => KeepsContract
PROOF BY CountsAlways, ContractInit, ContractStep, PTL
      DEF Spec, KeepsContract, Contract!EPSpec
=============================================================================
