CONSTANTS
    None = None
    Keys = {k}
    Values = {v, w}
    Clients = {c1, c2}
    NumTiers = 3
    MemoryTiers = {1}
    Ops = {"get", "set", "delete", "exists"}
    MaxCalls = 4
SPECIFICATION Spec
INVARIANTS AcknowledgedAgree
SYMMETRY Symmetry
