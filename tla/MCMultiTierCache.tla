-------------------------- MODULE MCMultiTierCache --------------------------
EXTENDS MultiTierCache, TLC

\* Keys, values and clients are interchangeable.
Symmetry == Permutations(Keys) \cup Permutations(Values) \cup Permutations(Clients)
=============================================================================
