CONSTANTS
    None = None
    Keys = {k1, k2, k3}
    Values = {v}
    Clients = {c1, c2}
    Ops = {"get", "set", "delete", "exists"}
    MaxCalls = 5
    NumTiers = 2
    EntrySize = 2
    Capacities <- SmallThenLarger
SPECIFICATION Spec
INVARIANTS CountersErrUpward RefusedOnlyIfLeaked
PROPERTY IsTieredCache
SYMMETRY Symmetry
