CONSTANTS
    None = None
    Keys = {a, b, c}
    Values = {v}
    Threads = {t1}
    Capacity = 5
    EntrySize = 2
    Width = 16
    OverflowChecks = FALSE
    Ops = {"set", "get", "delete", "exists", "clear"}
    Ttls = {"forever"}
    MaxCalls = 8
    PolicyNew <- MCNew
    PolicyOnAccess <- MCOnAccess
    PolicyOnInsert <- MCOnInsert
    PolicyEvict <- MCEvict
    PolicyReset <- MCReset
    PolicyTracked <- MCTracked
SPECIFICATION WholeSpec
INVARIANTS SettledExact RefusedOnlyIfTooLarge
PROPERTY CallsAreWhole
SYMMETRY Symmetry
