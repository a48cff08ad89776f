----------------------------- MODULE LRUPolicy -----------------------------
(***************************************************************************)
(* One LRU policy driven by arbitrary calls of the trait, each call under  *)
(* the mutex that owns the policy.  Two history variables say what the     *)
(* policy ought to know: the true order of use and how many keys evict()   *)
(* has taken since the policy was last empty by construction or reset.     *)
(***************************************************************************)
EXTENDS LRU, FiniteSets

CONSTANTS
    Keys,
    MaxLength,          \* bound: nothing is pushed on a longer access_order
    MaxEvictions        \* bound: keys evicted between two resets

ASSUME LRUAssumption ==
    None \notin Keys /\ MaxLength \in Nat /\ MaxEvictions \in Nat

VARIABLES
    policy,             \* access_order and key_index
    evicted,            \* what the last evict() returned, None before any
    recency,            \* history: the keys in use, least recent first
    evictions           \* history: keys evicted since new() or reset()

vars == <<policy, evicted, recency, evictions>>

\* s, in which no key occurs twice, without k.
Without(s, k) ==
    IF \E i \in DOMAIN s : s[i] = k
    THEN LET p == CHOOSE i \in DOMAIN s : s[i] = k
         IN  [j \in 1 .. Len(s) - 1 |-> s[IF j < p THEN j ELSE j + 1]]
    ELSE s

Init ==
    /\ policy = LruNew
    /\ evicted = None
    /\ recency = <<>>
    /\ evictions = 0

OnAccess(k) ==
    /\ Len(policy.access_order) < MaxLength
    /\ policy' = LruOnAccess(policy, k)
    /\ recency' = Append(Without(recency, k), k)
    /\ UNCHANGED <<evicted, evictions>>

OnInsert(k) ==
    /\ Len(policy.access_order) < MaxLength
    /\ policy' = LruOnInsert(policy, k)
    /\ recency' = Append(Without(recency, k), k)
    /\ UNCHANGED <<evicted, evictions>>

Evict ==
    /\ evictions < MaxEvictions
    /\ \E outcome \in LruEvict(policy) :
          /\ policy' = outcome.rest
          /\ evicted' = outcome.key
          /\ recency' = Without(recency, outcome.key)
          /\ evictions' = IF outcome.key = None THEN evictions ELSE evictions + 1

Reset ==
    /\ policy' = LruReset(policy)
    /\ recency' = <<>>
    /\ evictions' = 0
    /\ UNCHANGED evicted

Next ==
    \/ \E k \in Keys : OnAccess(k) \/ OnInsert(k)
    \/ Evict
    \/ Reset

Spec == Init /\ [][Next]_vars

-----------------------------------------------------------------------------
order == policy.access_order
index == policy.key_index

\* The type invariant: a deque of keys and a map from keys to positions.
TypeOK ==
    /\ order \in Seq(Keys)
    /\ \E D \in SUBSET Keys : index \in [D -> Nat]
    /\ evicted \in Keys \cup {None}
    /\ recency \in Seq(Keys)
    /\ evictions \in 0 .. MaxEvictions

\* key_index is what its comment says, "Key to position in access_order
\* mapping": it maps exactly the keys of the deque, each to where it is.
IndexMatchesOrder ==
    /\ DOMAIN index = LruTracked(policy)
    /\ \A i \in DOMAIN order : index[order[i]] = i - 1

\* As long as nothing has been evicted, on_access's removal by position and
\* its shift of the later positions keep the deque and the map in step, and
\* the deque is the true order of use.
ExactUntilEvicted == evictions = 0 => IndexMatchesOrder /\ order = recency

\* Evictions make positions stale, but only in one direction: a recorded
\* position is never in front of an occurrence of its key.  So a key's
\* on_access removes the key itself, a younger entry or nothing.
IndexNeverBehind ==
    \A i \in DOMAIN order :
        order[i] \in DOMAIN index => i - 1 <= index[order[i]]

\* Nothing compares access_order with the capacity.  Without evictions it has
\* an entry for each key in the map, and each eviction makes it at most one
\* entry longer, when a stale position past its end finds nothing to remove.
LengthBound == Len(order) <= Cardinality(DOMAIN index) + evictions

\* The consequence for the order of eviction: using a key leaves every
\* entry older than the key where it was, stale positions or not.
OlderEntriesKeepPlace ==
    [][\A k \in Keys : OnAccess(k) \/ OnInsert(k) =>
          \A i \in DOMAIN order :
              order[i] = k => \A j \in 1 .. i - 1 : order'[j] = order[j]]_vars

\* What the doc comment of LRU promises, "Evict the least recently used
\* item first".
EvictsLeastRecent ==
    [][Evict /\ recency # <<>> => evicted' = Head(recency)]_vars
=============================================================================
