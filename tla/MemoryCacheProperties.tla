----------------------- MODULE MemoryCacheProperties -----------------------
(***************************************************************************)
(* What is true of the in-memory tier of module MemoryCache, and what its  *)
(* comments claim.                                                         *)
(***************************************************************************)
EXTENDS MemoryCache

N == Cardinality(Threads)

Entries == [value : Values, life : Lives]
Locals == [old_size : {None, EntrySize}, victim : Keys \cup {None}, final_size : Nat,
           value : Values \cup {None}, todo : SUBSET Keys]
Steps ==
    {"idle", "panicked",
     "set_remove", "set_sub", "set_insert", "set_add", "set_stats", "set_policy",
     "evict_check", "evict_pop", "evict_remove", "evict_sub", "evict_stats",
     "evict_fail", "get_check", "get_expire", "get_read", "get_access",
     "get_hit", "get_miss", "exists", "del_remove", "del_sub", "del_stats",
     "clear_entries", "clear_size", "clear_stats", "clear_policy"}
SetSteps ==
    {"set_remove", "set_sub", "set_insert", "set_add", "set_stats", "set_policy",
     "evict_check", "evict_pop", "evict_remove", "evict_sub", "evict_stats",
     "evict_fail"}

\* The type invariant of everything but the policy's own state.  A thread
\* is at a step of the call it is in, and one about to remove a victim has
\* been given one.
TypeOK ==
    /\ entries \in [Keys -> Entries \cup {None}]
    /\ size_bytes \in Nat
    /\ stats \in [hits : Nat, misses : Nat, evictions : Nat, size_bytes : Nat,
                  entries : 0 .. Width - 1]
    /\ pc \in [Threads -> Steps]
    /\ call \in [Threads -> Requests \cup {NoCall}]
    /\ local \in [Threads -> Locals]
    /\ ret \in [Threads -> Values \cup {None, "ok", "full", "present", "absent"}]
    /\ calls \in 0 .. MaxCalls
    /\ \A t \in Threads :
          /\ pc[t] \in SetSteps => call[t].op = "set"
          /\ pc[t] \in {"get_check", "get_expire", "get_read", "get_access",
                        "get_hit", "get_miss"} => call[t].op = "get"
          /\ pc[t] = "exists" => call[t].op = "exists"
          /\ pc[t] \in {"del_remove", "del_sub", "del_stats"} =>
                call[t].op = "delete"
          /\ pc[t] \in {"clear_entries", "clear_size", "clear_stats",
                        "clear_policy"} => call[t].op = "clear"
          /\ pc[t] = "evict_remove" => local[t].victim \in Keys

-----------------------------------------------------------------------------
(* Capacity *)

\* Between the space check of evict_for_space and the addition to
\* size_bytes there is no lock: each of N threads may pass the check on the
\* same size.  The counter and the additions on their way never exceed the
\* capacity by more than the entries of the N - 1 others.
ReservationBound ==
    size_bytes + EntrySize * Cardinality(Doing({"set_insert", "set_add"}))
        <= Capacity + EntrySize * (N - 1)

\* Entries inserted and not yet added to size_bytes, and entries removed
\* and not yet subtracted from it.
Unadded == Doing({"set_add"})
Unsubtracted == Doing({"set_sub", "evict_sub", "del_sub"})

\* Without clear(), and whatever the interleaving of insertions, removals,
\* overwrites and saturating subtractions, size_bytes never misses an
\* entry: it errs on the side of a cache that looks too full.
SizeNeverUndercounted ==
    EntrySize * (Cardinality(Stored) + Cardinality(Unsubtracted))
        <= size_bytes + EntrySize * Cardinality(Unadded)

\* So without clear() the entries really stored exceed the capacity by
\* those of N - 1 threads at most, and a single thread never exceeds it.
PhysicalBound ==
    EntrySize * Cardinality(Stored) <= Capacity + EntrySize * (N - 1)

-----------------------------------------------------------------------------
(* Accounting *)

Quiescent == Doing(Steps \ {"idle", "panicked"}) = {}

\* stats.entries may wrap below zero while calls overlap (a delete counts
\* down an entry its set has not counted yet), but without clear() the
\* wrap-around heals: once no call is under way it is at least the number
\* of entries stored and at most the number of calls.
EntriesSettle ==
    Quiescent => stats.entries \in Cardinality(Stored) .. calls

\* One thread and no TTL: after each call the counters say exactly what the
\* cache holds, although LRU loses sight of keys.
SettledExact ==
    Quiescent =>
        /\ size_bytes = EntrySize * Cardinality(Stored)
        /\ stats.size_bytes = size_bytes
        /\ stats.entries = Cardinality(Stored)

-----------------------------------------------------------------------------
(* Eviction *)

\* With a policy that loses no key and without clear(), every stored entry
\* can be evicted: the policy knows its key, or its set has still to tell
\* the policy, or another thread has just been given the key to evict.
EveryEntryEvictable ==
    \A k \in Stored :
        \/ k \in PolicyTracked(policy)
        \/ \E t \in Threads :
              \/ /\ pc[t] \in {"set_add", "set_stats", "set_policy"}
                 /\ call[t].key = k
              \/ pc[t] = "evict_remove" /\ local[t].victim = k

\* One thread and no TTL: a set is refused only when the entry is larger than
\* the whole cache, even with LRU, which loses sight of keys: eviction never
\* runs out of keys while what is stored leaves no room.
RefusedOnlyIfTooLarge == Doing({"evict_fail"}) # {} => EntrySize > Capacity

-----------------------------------------------------------------------------
(* What callers see *)

\* The instant each call takes effect: a set when it inserts or is refused,
\* a get when it reads or removes, a delete when it removes.
Phase(t) ==
    CASE pc[t] = "idle" -> "idle"
      [] pc[t] = "panicked" -> "crashed"
      [] pc[t] \in {"set_add", "set_stats", "set_policy", "get_access", "get_hit",
                    "get_miss", "del_sub", "del_stats"} -> "settled"
      [] OTHER -> "called"

\* The answer a call is bound to give once it has taken effect.  A get that
\* reached get_miss from get_read or get_expire will return None.
Answer(t) ==
    CASE pc[t] \in {"set_add", "set_stats", "set_policy", "del_sub", "del_stats"} -> "ok"
      [] pc[t] \in {"get_access", "get_hit"} -> local[t].value
      [] pc[t] = "get_miss" -> None
      [] pc[t] = "panicked" /\ call[t].op = "delete" -> "ok"
      [] OTHER -> ret[t]

Map == INSTANCE LossyMap WITH
    store  <- [k \in Keys |-> IF k \in Stored THEN entries[k].value ELSE None],
    phase  <- [t \in Threads |-> Phase(t)],
    asked  <- call,
    left   <- [t \in Threads |-> local[t].todo],
    answer <- [t \in Threads |-> Answer(t)]

\* The tier is a linearizable map that may lose entries: no get returns a
\* value that was overwritten or deleted before the get began.
IsLossyMap == Map!LMSpec

\* Every call returns, or panics: no deadlock among the three mutexes, no
\* endless eviction loop, given that runnable threads run.
CallsReturn ==
    \A t \in Threads : pc[t] # "idle" ~> pc[t] \in {"idle", "panicked"}

\* The steps that wait for size_bytes and for stats, and who is waiting.
TakesSize == {"set_sub", "evict_check", "evict_sub", "evict_fail", "set_add",
              "del_sub", "clear_size"}
TakesStats == {"evict_stats", "set_stats", "get_hit", "get_miss", "del_stats",
               "clear_stats"}
Waits(t) == \/ pc[t] \in TakesSize /\ ~ SizeFree
            \/ pc[t] \in TakesStats /\ ~ StatsFree

\* The threads never all wait for each other: evict_for_space, delete and clear
\* nest the locks of size_bytes, stats and the policy in one order.
SomeoneRuns ==
    (\E t \in Threads : Waits(t)) =>
        \E u \in Threads : pc[u] \notin {"idle", "panicked"} /\ ~ Waits(u)

-----------------------------------------------------------------------------
(* What a comment of the code claims, refuted by a run. *)

\* tier.rs, size(): "Current size in bytes".
SizeIsCurrent == Quiescent => size_bytes = EntrySize * Cardinality(Stored)
=============================================================================
