----------------------------- MODULE LFUPolicy -----------------------------
(***************************************************************************)
(* One LFU policy driven by arbitrary calls of the trait, each call under  *)
(* the mutex that owns the policy, and shown to keep the trait's promise,  *)
(* module EvictionPolicy.                                                  *)
(***************************************************************************)
EXTENDS LFU

CONSTANTS
    Keys,
    MaxCount            \* bound: no key used this often is used again

ASSUME LFUAssumption == None \notin Keys /\ MaxCount \in Nat

VARIABLES
    policy,             \* access_count and min_frequency
    evicted,            \* what the last evict() returned, None before any
    uses                \* history: how often each key was used since its
                        \* last insertion, 0 while it is unknown

vars == <<policy, evicted, uses>>

Init ==
    /\ policy = LfuNew
    /\ evicted = None
    /\ uses = [k \in Keys |-> 0]

OnAccess(k) ==
    /\ uses[k] < MaxCount
    /\ policy' = LfuOnAccess(policy, k)
    /\ uses' = [uses EXCEPT ![k] = @ + 1]
    /\ UNCHANGED evicted

OnInsert(k) ==
    /\ policy' = LfuOnInsert(policy, k)
    /\ uses' = [uses EXCEPT ![k] = 1]
    /\ UNCHANGED evicted

Evict ==
    \E outcome \in LfuEvict(policy) :
        /\ policy' = outcome.rest
        /\ evicted' = outcome.key
        /\ uses' = [k \in Keys |-> IF k = outcome.key THEN 0 ELSE uses[k]]

Reset ==
    /\ policy' = LfuReset(policy)
    /\ uses' = [k \in Keys |-> 0]
    /\ UNCHANGED evicted

Next ==
    \/ \E k \in Keys : OnAccess(k) \/ OnInsert(k)
    \/ Evict
    \/ Reset

Spec == Init /\ [][Next]_vars

-----------------------------------------------------------------------------
count == policy.access_count

\* The type invariant: a map from keys to counts of at least one use.
TypeOK ==
    /\ \E D \in SUBSET Keys : count \in [D -> Nat \ {0}]
    /\ policy.min_frequency \in Nat
    /\ evicted \in Keys \cup {None}
    /\ uses \in [Keys -> Nat]

\* min_frequency is never reduced by evict() and yet never overtakes the
\* counts: while a key is tracked it lies between 1 and the least count.
MinFrequencyIsLowerBound ==
    \A k \in DOMAIN count : policy.min_frequency \in 1 .. count[k]

\* What the doc comment of LFU promises, "Evict the least frequently used
\* item first": the victim is a known key, and no known key was used less.
EvictsLeastFrequent ==
    [][Evict /\ (\E k \in Keys : uses[k] > 0) =>
          /\ evicted' \in Keys
          /\ uses[evicted'] > 0
          /\ \A k \in Keys : uses[k] > 0 => uses[evicted'] <= uses[k]]_vars

\* LFU keeps the promise of the trait.
Contract == INSTANCE EvictionPolicy WITH tracked <- DOMAIN count
KeepsContract == Contract!EPSpec
=============================================================================
