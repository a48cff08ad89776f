------------------------------- MODULE Ledger -------------------------------
(***************************************************************************)
(* Where the counters of MemoryCache go wrong, and by how much.  Nothing   *)
(* ties size_bytes and stats.entries to the map, and some steps change one *)
(* without the other for good: a get removes an expired entry, a set       *)
(* overwrites the entry of another, a subtraction saturates, a set is      *)
(* refused after it removed its key, a thread panics, clear() resets what  *)
(* others count meanwhile.  Two history variables add these slips up.      *)
(***************************************************************************)
EXTENDS MemoryCacheProperties

VARIABLES
    leaked,             \* bytes in size_bytes that belong to no entry
    miscounted          \* entries in stats.entries that are not there

ledgerVars == <<vars, leaked, miscounted>>

Moves(t) == <<pc[t], local[t]>>' # <<pc[t], local[t]>>

\* Entries t takes out of the map, or writes over, without telling a counter:
\* a get's remove of an expired entry (memory.rs:208), an insert whose key has
\* an entry again (memory.rs:273), the clear of the map (memory.rs:325).
Drops(t) ==
    CASE pc[t] \in {"get_expire", "set_insert"} ->
            IF call[t].key \in Stored THEN 1 ELSE 0
      [] pc[t] = "clear_entries" -> Cardinality(Stored) - Cardinality(Stored')
      [] OTHER -> 0

\* Bytes by which t's step moves size_bytes away from the entries of the map:
\* what saturating_sub does not take off, and what clear's "*size_guard = 0"
\* takes off that is not an entry's.
SizeSlip(t) ==
    CASE pc[t] \in {"set_sub", "evict_sub", "del_sub"} ->
            EntrySize - (size_bytes - size_bytes')
      [] pc[t] = "clear_size" -> - size_bytes
      [] OTHER -> EntrySize * Drops(t)

\* A set that removed its key's old entry counts on inserting the new one: it
\* will leave stats.entries alone (memory.rs:283).
Owes(t) == IF pc[t] \in SetSteps /\ local[t].old_size # None THEN 1 ELSE 0

\* Entries by which t's step moves stats.entries away from the map: a set is
\* refused after it removed its key, "entries -= 1" panics below zero, clear
\* sets the counter to zero whatever it was.
CountSlip(t) ==
    CASE pc[t] = "evict_fail" -> Owes(t)
      [] pc'[t] = "panicked" -> 1 + Owes(t)
      [] pc[t] = "clear_stats" -> - stats.entries
      [] OTHER -> Drops(t)

\* Every step adds the slip of the thread that takes it; expiry has none.
Account ==
    \/ \E t \in Threads :
          /\ Moves(t)
          /\ leaked' = leaked + SizeSlip(t)
          /\ miscounted' = miscounted + CountSlip(t)
    \/ /\ \A t \in Threads : ~ Moves(t)
       /\ UNCHANGED <<leaked, miscounted>>

LedgerInit == Init /\ leaked = 0 /\ miscounted = 0

LedgerNext == Next /\ Account

LedgerSpec == LedgerInit /\ [][LedgerNext]_ledgerVars

-----------------------------------------------------------------------------
(* size_bytes is written in critical sections of its own, after the map was *)
(* changed (memory.rs set, delete, evict_for_space, clear).  When no call   *)
(* is under way it is the size of the entries there plus the slips above:   *)
(* no order in which calls overlap makes it wrong in another way.           *)
SlipsExplainSize == Quiescent => size_bytes = EntrySize * Cardinality(Stored) + leaked

(* So is stats.entries, which a set that replaces an entry leaves alone and *)
(* which wraps below zero in a release build (memory.rs:172, 283, 306).     *)
SlipsExplainCount == Quiescent => stats.entries = (Cardinality(Stored) + miscounted) % Width

(* Leaked bytes cost room that nothing gives back: evict_for_space reserves *)
(* by size_bytes, so that at every moment the entries in the map and what   *)
(* leaked share the capacity, but for one entry per other thread.           *)
(* (A set that races clear leaks negatively: its entry stays, uncounted.)   *)
LeaksTakeRoom == EntrySize * Cardinality(Stored) + leaked <= Capacity + EntrySize * (N - 1)

\* The sets that have inserted a new entry and not counted it yet.
Uncounted == {t \in Doing({"set_add", "set_stats"}) : local[t].old_size = None}

(* "entries -= 1" goes below zero, which panics in a debug build in the     *)
(* middle of a delete or of a set of another key, and wraps in a release    *)
(* build (memory.rs:172, 306), only in a race: while a set has inserted an  *)
(* entry that it has not counted, or after a clear that others' calls       *)
(* overlapped.  No call panics by itself.                                   *)
PanicsOnlyInRaces ==
    stats.entries = 0 /\ Doing({"evict_stats", "del_stats"}) # {} =>
        Uncounted # {} \/ miscounted < 0
=============================================================================
