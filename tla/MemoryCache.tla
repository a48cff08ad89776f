---------------------------- MODULE MemoryCache ----------------------------
(***************************************************************************)
(* The in-memory tier of src/memory.rs, called by several threads at once. *)
(*                                                                         *)
(* Nothing guards a call as a whole.  entries is a concurrent map, and     *)
(* size_bytes, stats and the policy have a mutex each, so a call is a      *)
(* sequence of steps, one per map operation or critical section, named     *)
(* below after the call and what the step does.  A guard lives until the   *)
(* end of its scope: size_bytes stays locked over the update of stats      *)
(* where the code nests the two, and clear() takes all three in turn.      *)
(*                                                                         *)
(* The eviction policy is a parameter, as the trait object is in the code. *)
(* estimate_size() measures the sized types K and V, so every entry of one *)
(* cache has the same size.                                                *)
(***************************************************************************)
EXTENDS Integers, FiniteSets

CONSTANTS
    Keys, Values, Threads,
    None,               \* the absent value of Rust's Option
    Capacity,           \* capacity_bytes
    EntrySize,          \* what estimate_size returns
    Width,              \* usize counts modulo Width, 2^64 in the code
    OverflowChecks,     \* does `-= 1' on 0 panic (debug) or wrap (release)?
    Ops,                \* the operations the threads call
    Ttls,               \* the time-to-lives set() is called with
    MaxCalls,           \* bound: calls made before everything stops
    PolicyNew, PolicyOnAccess(_, _), PolicyOnInsert(_, _), PolicyEvict(_),
    PolicyReset(_), PolicyTracked(_)

\* An entry's life: it has no expires_at, the time is ahead, or it is past.
Lives == {"forever", "live", "expired"}

ASSUME MemoryCacheAssumption ==
    /\ IsFiniteSet(Keys) /\ Keys # {} /\ IsFiniteSet(Threads) /\ Threads # {}
    /\ None \notin Keys \cup Values \cup {"set", "get", "delete", "exists", "clear"}
    /\ {"ok", "full", "present", "absent"} \cap (Values \cup {None}) = {}
    /\ Capacity \in Nat \ {0} /\ EntrySize \in Nat
    /\ MaxCalls \in Nat /\ Width \in Nat /\ MaxCalls < Width
    /\ OverflowChecks \in BOOLEAN
    /\ Ops \subseteq {"set", "get", "delete", "exists", "clear"}
    /\ Ttls \subseteq {"forever", "live"}

\* Option tells an absent entry, and an absent size, from every other.
ASSUME NoneIsNoEntry == None \notin [value : Values, life : Lives] \cup {EntrySize}

VARIABLES
    entries,            \* key -> [value, life] or None
    policy,             \* the state of eviction_policy
    size_bytes,
    stats,              \* hits, misses, evictions, size_bytes, entries
    pc,                 \* the step each thread takes next
    call,               \* the call each thread is in
    local,              \* and that call's local variables
    ret,                \* what each thread's last finished call returned
    calls               \* calls begun so far

vars == <<entries, policy, size_bytes, stats, pc, call, local, ret, calls>>

NoCall == [op |-> None, key |-> None, value |-> None, life |-> None]
NoLocal == [old_size |-> None, victim |-> None, final_size |-> 0,
            value |-> None, todo |-> {}]

Init ==
    /\ entries = [k \in Keys |-> None]
    /\ policy = PolicyNew
    /\ size_bytes = 0
    /\ stats = [hits |-> 0, misses |-> 0, evictions |-> 0,
                size_bytes |-> 0, entries |-> 0]
    /\ pc = [t \in Threads |-> "idle"]
    /\ call = [t \in Threads |-> NoCall]
    /\ local = [t \in Threads |-> NoLocal]
    /\ ret = [t \in Threads |-> None]
    /\ calls = 0

-----------------------------------------------------------------------------
Stored == {k \in Keys : entries[k] # None}

Doing(steps) == {t \in Threads : pc[t] \in steps}

\* Mutant: clear() locks stats before size_bytes.
StatsFreeClearFirst == Doing({"clear_size", "clear_policy"}) = {}

\* The steps taken with a guard of size_bytes, or of stats, already held.
SizeFree == Doing({"evict_stats", "del_stats", "clear_stats", "clear_policy"}) = {}
StatsFree == Doing({"clear_policy"}) = {}

Goto(t, step) == pc' = [pc EXCEPT ![t] = step] /\ UNCHANGED <<call, ret>>

Return(t, result) ==
    /\ pc' = [pc EXCEPT ![t] = "idle"]
    /\ call' = [call EXCEPT ![t] = NoCall]
    /\ local' = [local EXCEPT ![t] = NoLocal]
    /\ ret' = [ret EXCEPT ![t] = result]

Forget(k) == entries' = [entries EXCEPT ![k] = None]

\* Mutants (the name says the bug; used only by the mutation runs): the
\* subtraction does not saturate.
SatSubUnchecked(a, b) == a - b

SatSub(a, b) == IF a >= b THEN a - b ELSE 0

\* Mutant: the space check forgets the entry about to be added.
FitsIgnoringRequest(size) == size <= Capacity

\* The space check of evict_for_space, in the size read under the lock.
Fits(size) == size + EntrySize <= Capacity

\* *size_guard = size_guard.saturating_sub(entry.size_bytes)
SubtractEntry == SizeFree /\ size_bytes' = SatSub(size_bytes, EntrySize)

(***************************************************************************)
(* stats.entries -= 1 and stats.size_bytes = *size_guard, on s.  With      *)
(* overflow checks the subtraction panics at 0 and the thread is lost; the *)
(* unwinding drops its guards.                                             *)
(***************************************************************************)
CountOneLess(t, s, next) ==
    /\ StatsFree
    /\ IF OverflowChecks /\ s.entries = 0
       THEN stats' = s /\ Goto(t, "panicked") /\ UNCHANGED local
       ELSE /\ stats' = [s EXCEPT !.entries = (@ - 1) % Width,
                                  !.size_bytes = size_bytes]
            /\ next

-----------------------------------------------------------------------------
(* set *)

SetRemove(t) ==
    LET k == call[t].key IN
    /\ pc[t] = "set_remove"
    /\ IF k \in Stored
       THEN /\ local' = [local EXCEPT ![t].old_size = EntrySize]
            /\ Goto(t, "set_sub")
       ELSE Goto(t, "evict_check") /\ UNCHANGED local
    /\ Forget(k)
    /\ UNCHANGED <<policy, size_bytes, stats, calls>>

SetSub(t) ==
    /\ pc[t] = "set_sub"
    /\ SubtractEntry
    /\ Goto(t, "evict_check")
    /\ UNCHANGED <<entries, policy, stats, local, calls>>

EvictCheck(t) ==
    /\ pc[t] = "evict_check"
    /\ SizeFree
    /\ Goto(t, IF Fits(size_bytes) THEN "set_insert" ELSE "evict_pop")
    /\ UNCHANGED <<entries, policy, size_bytes, stats, local, calls>>

\* Mutant: a policy with no key to give is asked again and again.
EvictPopRetries(t) ==
    /\ pc[t] = "evict_pop"
    /\ \E outcome \in PolicyEvict(policy) :
          /\ policy' = outcome.rest
          /\ local' = [local EXCEPT ![t].victim = outcome.key]
          /\ Goto(t, IF outcome.key = None THEN "evict_check" ELSE "evict_remove")
    /\ UNCHANGED <<entries, size_bytes, stats, calls>>

EvictPop(t) ==
    /\ pc[t] = "evict_pop"
    /\ \E outcome \in PolicyEvict(policy) :
          /\ policy' = outcome.rest
          /\ \/ /\ outcome.key \in Keys
                /\ local' = [local EXCEPT ![t].victim = outcome.key]
                /\ Goto(t, "evict_remove")
             \/ /\ outcome.key = None
                /\ Goto(t, "evict_fail")
                /\ UNCHANGED local
    /\ UNCHANGED <<entries, size_bytes, stats, calls>>

EvictRemove(t) ==
    LET k == local[t].victim IN
    /\ pc[t] = "evict_remove"
    /\ Goto(t, IF k \in Stored THEN "evict_sub" ELSE "evict_check")
    /\ Forget(k)
    /\ local' = [local EXCEPT ![t].victim = None]
    /\ UNCHANGED <<policy, size_bytes, stats, calls>>

EvictSub(t) ==
    /\ pc[t] = "evict_sub"
    /\ SubtractEntry
    /\ Goto(t, "evict_stats")
    /\ UNCHANGED <<entries, policy, stats, local, calls>>

EvictStats(t) ==
    /\ pc[t] = "evict_stats"
    /\ CountOneLess(t, [stats EXCEPT !.evictions = @ + 1],
                    Goto(t, "evict_check") /\ UNCHANGED local)
    /\ UNCHANGED <<entries, policy, size_bytes, calls>>

\* Mutant: set() ignores the error of evict_for_space.
EvictFailSwallowed(t) ==
    /\ pc[t] = "evict_fail"
    /\ SizeFree
    /\ Return(t, "ok")
    /\ UNCHANGED <<entries, policy, size_bytes, stats, calls>>

\* The size is read once more, for the error's text only.
EvictFail(t) ==
    /\ pc[t] = "evict_fail"
    /\ SizeFree
    /\ Return(t, "full")
    /\ UNCHANGED <<entries, policy, size_bytes, stats, calls>>

\* expires_at is Instant::now() + d, taken before the insertion: a short or zero
\* time-to-live may be over by then.
LivesOnInsert(life) == IF life = "live" THEN {"live", "expired"} ELSE {life}

SetInsert(t) ==
    /\ pc[t] = "set_insert"
    /\ \E life \in LivesOnInsert(call[t].life) :
          entries' = [entries EXCEPT ![call[t].key] =
                         [value |-> call[t].value, life |-> life]]
    /\ Goto(t, "set_add")
    /\ UNCHANGED <<policy, size_bytes, stats, local, calls>>

SetAdd(t) ==
    /\ pc[t] = "set_add"
    /\ SizeFree
    /\ size_bytes' = size_bytes + EntrySize
    /\ local' = [local EXCEPT ![t].final_size = size_bytes']
    /\ Goto(t, "set_stats")
    /\ UNCHANGED <<entries, policy, stats, calls>>

\* Mutant: an update is counted like a new entry.
SetStatsCountsUpdates(t) ==
    /\ pc[t] = "set_stats"
    /\ StatsFree
    /\ stats' = [stats EXCEPT !.entries = (@ + 1) % Width,
                              !.size_bytes = local[t].final_size]
    /\ Goto(t, "set_policy")
    /\ UNCHANGED <<entries, policy, size_bytes, local, calls>>

SetStats(t) ==
    /\ pc[t] = "set_stats"
    /\ StatsFree
    /\ stats' = [stats EXCEPT
                    !.entries = IF local[t].old_size = None THEN (@ + 1) % Width ELSE @,
                    !.size_bytes = local[t].final_size]
    /\ Goto(t, "set_policy")
    /\ UNCHANGED <<entries, policy, size_bytes, local, calls>>

\* Mutant: the policy is not told of the insertion.
SetPolicySilent(t) ==
    /\ pc[t] = "set_policy"
    /\ Return(t, "ok")
    /\ UNCHANGED <<entries, policy, size_bytes, stats, calls>>

SetPolicy(t) ==
    /\ pc[t] = "set_policy"
    /\ policy' = PolicyOnInsert(policy, call[t].key)
    /\ Return(t, "ok")
    /\ UNCHANGED <<entries, size_bytes, stats, calls>>

-----------------------------------------------------------------------------
(* get *)

\* Mutant: get trusts what it finds whatever its age.
GetCheckNotAge(t) ==
    /\ pc[t] = "get_check"
    /\ Goto(t, "get_read")
    /\ UNCHANGED <<entries, policy, size_bytes, stats, local, calls>>

GetCheck(t) ==
    LET k == call[t].key IN
    /\ pc[t] = "get_check"
    /\ Goto(t, IF k \in Stored /\ entries[k].life = "expired"
               THEN "get_expire" ELSE "get_read")
    /\ UNCHANGED <<entries, policy, size_bytes, stats, local, calls>>

GetExpire(t) ==
    /\ pc[t] = "get_expire"
    /\ Forget(call[t].key)
    /\ Goto(t, "get_miss")
    /\ UNCHANGED <<policy, size_bytes, stats, local, calls>>

GetRead(t) ==
    LET k == call[t].key IN
    /\ pc[t] = "get_read"
    /\ IF k \in Stored
       THEN /\ local' = [local EXCEPT ![t].value = entries[k].value]
            /\ Goto(t, "get_access")
       ELSE Goto(t, "get_miss") /\ UNCHANGED local
    /\ UNCHANGED <<entries, policy, size_bytes, stats, calls>>

\* The entry's last_access, set next, is written and never read.
GetAccess(t) ==
    /\ pc[t] = "get_access"
    /\ policy' = PolicyOnAccess(policy, call[t].key)
    /\ Goto(t, "get_hit")
    /\ UNCHANGED <<entries, size_bytes, stats, local, calls>>

GetHit(t) ==
    /\ pc[t] = "get_hit"
    /\ StatsFree
    /\ stats' = [stats EXCEPT !.hits = @ + 1]
    /\ Return(t, local[t].value)
    /\ UNCHANGED <<entries, policy, size_bytes, calls>>

\* Mutant: a get that finds nothing waits for another thread to store it.
GetMissWaits(t) ==
    /\ pc[t] = "get_miss"
    /\ StatsFree
    /\ Goto(t, "get_check")
    /\ UNCHANGED <<entries, policy, size_bytes, stats, local, calls>>

GetMiss(t) ==
    /\ pc[t] = "get_miss"
    /\ StatsFree
    /\ stats' = [stats EXCEPT !.misses = @ + 1]
    /\ Return(t, None)
    /\ UNCHANGED <<entries, policy, size_bytes, calls>>

-----------------------------------------------------------------------------
(* exists: one look at the entry, which it leaves where it is *)

Exists(t) ==
    /\ pc[t] = "exists"
    /\ Return(t, IF call[t].key \in Stored /\ entries[call[t].key].life # "expired"
                 THEN "present" ELSE "absent")
    /\ UNCHANGED <<entries, policy, size_bytes, stats, calls>>

-----------------------------------------------------------------------------
(* delete *)

\* Mutant: the counters go down whether or not the key was there.
DelRemoveUnchecked(t) ==
    /\ pc[t] = "del_remove"
    /\ Forget(call[t].key)
    /\ Goto(t, "del_sub")
    /\ UNCHANGED <<policy, size_bytes, stats, local, calls>>

DelRemove(t) ==
    LET k == call[t].key IN
    /\ pc[t] = "del_remove"
    /\ IF k \in Stored THEN Goto(t, "del_sub") /\ UNCHANGED local
                       ELSE Return(t, "ok")
    /\ Forget(k)
    /\ UNCHANGED <<policy, size_bytes, stats, calls>>

DelSub(t) ==
    /\ pc[t] = "del_sub"
    /\ SubtractEntry
    /\ Goto(t, "del_stats")
    /\ UNCHANGED <<entries, policy, stats, local, calls>>

DelStats(t) ==
    /\ pc[t] = "del_stats"
    /\ CountOneLess(t, stats, Return(t, "ok"))
    /\ UNCHANGED <<entries, policy, size_bytes, calls>>

-----------------------------------------------------------------------------
(* clear *)

\* DashMap::clear empties one shard after the other, in any order of keys
\* as far as the caller can tell.
ClearEntries(t) ==
    /\ pc[t] = "clear_entries"
    /\ \E k \in local[t].todo :
          /\ Forget(k)
          /\ local' = [local EXCEPT ![t].todo = @ \ {k}]
    /\ Goto(t, IF local'[t].todo = {} THEN "clear_size" ELSE "clear_entries")
    /\ UNCHANGED <<policy, size_bytes, stats, calls>>

ClearSize(t) ==
    /\ pc[t] = "clear_size"
    /\ SizeFree
    /\ size_bytes' = 0
    /\ Goto(t, "clear_stats")
    /\ UNCHANGED <<entries, policy, stats, local, calls>>

ClearStats(t) ==
    /\ pc[t] = "clear_stats"
    /\ StatsFree
    /\ stats' = [stats EXCEPT !.entries = 0, !.size_bytes = 0]
    /\ Goto(t, "clear_policy")
    /\ UNCHANGED <<entries, policy, size_bytes, local, calls>>

ClearPolicy(t) ==
    /\ pc[t] = "clear_policy"
    /\ policy' = PolicyReset(policy)
    /\ Return(t, "ok")
    /\ UNCHANGED <<entries, size_bytes, stats, calls>>

-----------------------------------------------------------------------------
FirstStep == [set |-> "set_remove", get |-> "get_check",
              exists |-> "exists", delete |-> "del_remove",
              clear |-> "clear_entries"]

Requests ==
    [op : {"set"}, key : Keys, value : Values, life : Ttls]
    \cup [op : {"get", "exists", "delete"}, key : Keys, value : {None}, life : {None}]
    \cup [op : {"clear"}, key : {None}, value : {None}, life : {None}]

Begin(t) ==
    /\ pc[t] = "idle"
    /\ calls < MaxCalls
    /\ \E c \in Requests :
          /\ c.op \in Ops
          /\ call' = [call EXCEPT ![t] = c]
          /\ pc' = [pc EXCEPT ![t] = FirstStep[c.op]]
          /\ local' = [local EXCEPT ![t].todo = IF c.op = "clear" THEN Keys ELSE {}]
    /\ calls' = calls + 1
    /\ UNCHANGED <<entries, policy, size_bytes, stats, ret>>

\* Time passes the expires_at of an entry.
Expire(k) ==
    /\ k \in Stored /\ entries[k].life = "live"
    /\ entries' = [entries EXCEPT ![k].life = "expired"]
    /\ UNCHANGED <<policy, size_bytes, stats, pc, call, local, ret, calls>>

SetStep(t) ==
    \/ SetRemove(t) \/ SetSub(t) \/ SetInsert(t) \/ SetAdd(t) \/ SetStats(t)
    \/ SetPolicy(t)
EvictStep(t) ==
    \/ EvictCheck(t) \/ EvictPop(t) \/ EvictRemove(t) \/ EvictSub(t)
    \/ EvictStats(t) \/ EvictFail(t)
ReadStep(t) ==
    \/ GetCheck(t) \/ GetExpire(t) \/ GetRead(t) \/ GetAccess(t) \/ GetHit(t)
    \/ GetMiss(t) \/ Exists(t)
DeleteStep(t) == DelRemove(t) \/ DelSub(t) \/ DelStats(t)
ClearStep(t) ==
    ClearEntries(t) \/ ClearSize(t) \/ ClearStats(t) \/ ClearPolicy(t)

\* What a thread does once it is in a call.
Step(t) ==
    SetStep(t) \/ EvictStep(t) \/ ReadStep(t) \/ DeleteStep(t) \/ ClearStep(t)

\* The end of a bounded run: nothing is under way and nothing may begin.
Finished ==
    /\ \A t \in Threads :
          pc[t] = "panicked" \/ (pc[t] = "idle" /\ calls = MaxCalls)
    /\ UNCHANGED vars

Next ==
    \/ \E t \in Threads : Begin(t) \/ Step(t)
    \/ \E k \in Keys : Expire(k)
    \/ Finished

Spec == Init /\ [][Next]_vars

\* The scheduler runs every thread that can run; time need not pass.
Fairness == \A t \in Threads : WF_vars(Step(t))
=============================================================================
