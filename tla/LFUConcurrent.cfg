CONSTANTS
    None = None
    Keys = {a, b, c}
    Values = {v, w}
    Threads = {t1, t2}
    Capacity = 3
    EntrySize = 2
    Width = 8
    OverflowChecks = FALSE
    Ops = {"set", "get", "delete", "exists"}
    Ttls = {"forever", "live"}
    MaxCalls = 4
    PolicyNew <- MCNew
    PolicyOnAccess <- MCOnAccess
    PolicyOnInsert <- MCOnInsert
    PolicyEvict <- MCEvict
    PolicyReset <- MCReset
    PolicyTracked <- MCTracked
SPECIFICATION FreshSpec
INVARIANTS TypeOK ReservationBound SizeNeverUndercounted PhysicalBound EntriesSettle EveryEntryEvictable NoStaleHits
PROPERTY IsLossyMap
SYMMETRY Symmetry
