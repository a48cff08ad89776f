--------------------------- MODULE EvictionPolicy ---------------------------
(***************************************************************************)
(* What the trait EvictionPolicy of src/eviction.rs promises a cache,      *)
(* whatever the strategy: the policy remembers every key it was told of,   *)
(* evict() returns one of the keys it remembers and forgets it, and only   *)
(* a policy that remembers nothing returns None.                           *)
(***************************************************************************)
CONSTANTS Keys, None

VARIABLES
    tracked,    \* the keys the policy remembers
    evicted     \* what the last evict() returned, None before any

epVars == <<tracked, evicted>>

EPInit == tracked = {} /\ evicted = None

\* on_access and on_insert
Note(k) == tracked' = tracked \cup {k} /\ UNCHANGED evicted

Surrender(k) == k \in tracked /\ tracked' = tracked \ {k} /\ evicted' = k

NothingLeft == tracked = {} /\ evicted' = None /\ UNCHANGED tracked

Clear == tracked' = {} /\ UNCHANGED evicted

EPNext == (\E k \in Keys : Note(k) \/ Surrender(k)) \/ NothingLeft \/ Clear

EPSpec == EPInit /\ [][EPNext]_epVars
=============================================================================
