CONSTANTS
    None = None
    Keys = {a}
    Values = {v}
    Threads = {t1}
    Capacity = 5
    EntrySize = 2
    Width = 8
    OverflowChecks = FALSE
    Ops = {"set", "get"}
    Ttls = {"live"}
    MaxCalls = 2
    PolicyNew <- MCNew
    PolicyOnAccess <- MCOnAccess
    PolicyOnInsert <- MCOnInsert
    PolicyEvict <- MCEvict
    PolicyReset <- MCReset
    PolicyTracked <- MCTracked
SPECIFICATION Spec
INVARIANT SizeIsCurrent
