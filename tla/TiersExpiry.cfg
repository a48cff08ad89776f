CONSTANTS
    None = None
    Keys = {k}
    Values = {v}
    Clients = {c1}
    NumTiers = 2
    MemoryTiers = {1, 2}
    Ops = {"get", "set"}
    MaxCalls = 2
SPECIFICATION Spec
INVARIANT EveryCopyExpires
