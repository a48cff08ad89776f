--------------------------- MODULE MCTieredMemory ---------------------------
EXTENDS TieredMemory, TLC

\* Tier 1 holds one entry, tier 2 two.
SmallThenLarger == <<3, 5>>

\* Keys, values and clients are interchangeable.
Symmetry == Permutations(Keys) \cup Permutations(Values) \cup Permutations(Clients)
=============================================================================
