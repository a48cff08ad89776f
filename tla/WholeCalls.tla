----------------------------- MODULE WholeCalls -----------------------------
(***************************************************************************)
(* The steps of module MemoryCache against the whole calls of MemoryTier:  *)
(* a history variable keeps the tier as it was before the call in progress.*)
(***************************************************************************)
EXTENDS MemoryCacheProperties

Tier == INSTANCE MemoryTier

VARIABLE before         \* the tier when no call was in progress last

wholeVars == <<vars, before>>

Now == [entries |-> entries, policy |-> policy, capacity |-> Capacity,
        size |-> size_bytes, stats |-> stats]

WholeInit == Init /\ before = Now

WholeNext == Next /\ before' = IF Quiescent THEN Now ELSE before

WholeSpec == WholeInit /\ [][WholeNext]_wholeVars

Whole(c) ==
    CASE c.op = "set"    -> Tier!TierSet(before, c.key, c.value, c.life)
      [] c.op = "get"    -> Tier!TierGet(before, c.key)
      [] c.op = "exists" -> Tier!TierExists(before, c.key)
      [] c.op = "delete" -> Tier!TierDelete(before, c.key)
      [] c.op = "clear"  -> Tier!TierClear(before)

\* A call that no other overlaps returns what the whole call returns and
\* leaves the tier it leaves: entries, size, statistics and the LRU's deque
\* and positions, after any number of calls, evictions and clears.
CallsAreWhole ==
    [][\A t \in Threads : pc[t] # "idle" /\ pc'[t] = "idle" =>
          ret'[t] = Whole(call[t]).result /\ Now' = Whole(call[t]).tier]_wholeVars
=============================================================================
