CONSTANTS
    None = None
    Keys = {a, b}
    Values = {v}
    Threads = {t1, t2}
    Capacity = 3
    EntrySize = 2
    Width = 8
    OverflowChecks = TRUE
    Ops = {"set", "get", "delete", "clear"}
    Ttls = {"live"}
    MaxCalls = 4
    PolicyNew <- MCNew
    PolicyOnAccess <- MCOnAccess
    PolicyOnInsert <- MCOnInsert
    PolicyEvict <- MCEvict
    PolicyReset <- MCReset
    PolicyTracked <- MCTracked
    PolicyLength <- MCLength
SPECIFICATION MCSpec
INVARIANTS ReservationBound SomeoneRuns CallsTakeFewSteps SlipsExplainSize SlipsExplainCount LeaksTakeRoom PanicsOnlyInRaces
PROPERTIES IsLossyMap CallsReturn
