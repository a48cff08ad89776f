CONSTANTS
    None = None
    Keys = {k}
    Values = {v, w}
    Clients = {c1, c2}
    NumTiers = 3
    MemoryTiers = {1, 2, 3}
    Ops = {"get", "set", "delete", "exists"}
    MaxCalls = 4
SPECIFICATION Spec
INVARIANTS TypeOK TiersAgree SlowestTierExpires
PROPERTY AnswersAreCurrent
SYMMETRY Symmetry
