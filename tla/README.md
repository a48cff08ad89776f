# A verification development for cache-layer

TLA+ models of the caching library in `src/`, checked with TLC on small
instances and, for the parts named below, proved with TLAPS for every instance.
All paths are relative to the repository root, so the Rust crate's files are
`src/src/*.rs`.

## 1. The system

| Component | State | Operations | Modules |
|---|---|---|---|
| `MemoryCache` (`memory.rs`) | `entries` (concurrent map), and behind one mutex each `size_bytes`, `stats`, `eviction_policy` | `get`, `set` (with `evict_for_space`), `exists`, `delete`, `clear` | `MemoryCache`, `MemoryCacheProperties`, `Freshness`, `CallsEnd`, `Ledger`, `WholeCalls`; `MemoryTier` |
| `LRU` (`eviction.rs`) | `access_order` (deque), `key_index` (key -> position) | `on_access`, `on_insert`, `evict`, `reset` | `LRU`, `LRUPolicy` |
| `LFU` (`eviction.rs`) | `access_count`, `min_frequency` | the same four | `LFU`, `LFUPolicy` |
| `EvictionPolicy` trait | - | the contract of the four | `EvictionPolicy` |
| `MultiTierCache` (`multi_tier.rs`, `cache.rs`) | the list of tiers | `get` (with promotion), `set`, `set_with_ttl`, `delete`, `exists` | `MultiTierCache`, `TieredMemory` |
| `Tier` trait, `TierStats` (`tier.rs`) | counters | the promise of a tier; `hit_rate`, `total_requests` | `LossyMap`, `MemoryTier`, `UnitTests` |
| errors, crate root | none | none | not modelled |

How they interact. A `MultiTierCache` calls its tiers through the `Tier` trait,
one after the other, with no lock across two tiers. A `MemoryCache` is shared by
any number of threads (`&self` everywhere); each call is a sequence of map
operations and short critical sections on the three mutexes, and it calls its
policy, a trait object, under the policy's mutex. `set` calls `evict_for_space`
with no lock held. There are no callbacks and no messages; nothing is persisted,
so there is no crash recovery; the `async fn`s of `MultiTierCache` contain no
await that suspends, so clients interleave because several threads run them.

What is hard here:

* a call of `MemoryCache` is not atomic: check-then-act on `size_bytes`, on the
  expiry of an entry and on whether a key is new; counters updated after the map;
* guards are held over nested scopes (`size_bytes`, then `stats`, then the policy);
* `stats.entries -= 1` may run at 0: wrap-around in one build, panic in another;
* the two structures inside `LRU` go out of step after an eviction;
* a `MultiTierCache` call is a loop over tiers that interleaves with others, goes
  on after errors, and a get *writes* (it promotes).

What makes each component correct: a policy returns a key it was told of, the
right one, and loses none; a `MemoryCache` is a map that may lose entries but
never invents or resurrects one, stays near its capacity, counts what it holds,
can evict everything it holds, and every call returns; a `MultiTierCache` never
answers with a value older than the last undisturbed write, and honours expiry.

## 2. The modules

**`LRU`, `LFU`** are the policies as operators on a policy state (`LruOnAccess`,
`LfuEvict`, ...). An eviction is a *set* of outcomes `[key, rest]`, because LFU's
scan of a `HashMap` may return any least used key. They are used three times:
driven by arbitrary calls in `LRUPolicy`, `LFUPolicy`; plugged into the cache by
`MCMemoryCacheLRU`, `MCMemoryCacheLFU`, where the constant operators `Policy...`
of `MemoryCache` are the trait object `Box<dyn EvictionPolicy<K>>`; and, LRU
being the default, inside `MemoryTier`.

**`LRUPolicy`, `LFUPolicy`**: one policy, one action per trait method, with
history variables: the true order of use and the number of evictions
(`recency`, `evictions`), and the true number of uses (`uses`).

**`EvictionPolicy`**: the abstract contract. `LFUPolicy` implements it
(`KeepsContract`); `LRU` does not.

**`MemoryCache`**: the in-memory tier. `pc[t]` is the step thread `t` takes next,
named after the call (`set_`, `evict_`, `get_`, `exists`, `del_`, `clear_`). A
step is one map operation or one critical section; `entries.remove` and the later
subtraction from `size_bytes` are different steps. Guards follow Rust's scopes:
`size_guard` lives while `stats_guard` is taken in `evict_for_space`, `delete` and
`clear`, so `evict_stats`, `del_stats`, `clear_stats`, `clear_policy` are the steps
at which a thread holds `size_bytes`, and `clear_policy` the one at which it also
holds `stats` (`SizeFree`, `StatsFree`). The policy's mutex is held for single
steps only. Taking `stats` while holding `size_bytes` and updating it is one step.

| Code | Actions |
|---|---|
| `set` | `SetRemove`, `SetSub`, *eviction*, `SetInsert`, `SetAdd`, `SetStats`, `SetPolicy` |
| `evict_for_space` | `EvictCheck`, `EvictPop`, `EvictRemove`, `EvictSub`, `EvictStats`, `EvictFail` |
| `get` | `GetCheck`, `GetExpire`, `GetRead`, `GetAccess`, `GetHit`, `GetMiss` |
| `exists` | `Exists` (one look, nothing changed) |
| `delete` | `DelRemove`, `DelSub`, `DelStats` |
| `clear` | `ClearEntries` (one key at a time), `ClearSize`, `ClearStats`, `ClearPolicy` |
| passing of an `expires_at` | `Expire` |

Abstractions: time is the three lives of an entry (`forever`, `live`, `expired`);
`set` computes `expires_at` (line 267) before it inserts (273), so an entry with a
time-to-live may be expired when it gets into the map (`LivesOnInsert`);
`estimate_size` uses `size_of_val` on sized types, so every entry of one cache has
the one size `EntrySize`; `last_access` is written and never read; `DashMap::clear`
works shard by shard, so a clear removes keys one at a time in any order; `usize`
counts modulo `Width`, which stands for 2^64 (only `stats.entries` can get to
either end: `size_bytes` saturates at 0 and its additions are bounded).
With `OverflowChecks` a decrement at 0 panics: the thread is lost (`"panicked"`)
and its guards are released, parking_lot's mutexes having no poisoning.

**`MemoryCacheProperties`**: its type invariant and properties, including the
refinement mapping to **`LossyMap`**, the abstract linearizable map that may lose
entries and whose calls take effect at one instant each.

**`Freshness`** adds to `MemoryCache` the history `seen[t]`: every value of the
key thread `t`'s get asks for that was stored and not expired at some instant of
the call, or was inserted during it. `get` looks at the map twice, so what it
returns is compared with that. The insertions count because an entry can be
expired already when it is inserted: a get that found nothing at line 198 may read
such a value at 216, which was never fresh.

**`CallsEnd`** adds the history `steps`, the number of map operations and critical
sections the calls of all threads have taken, and compares it with the number of
calls begun. `PolicyLength` is how many keys the policy can give before it says
`None`: for LRU the length of the deque, with the keys it holds twice. The count
stops one step past `StepsPerCall * calls`, which only a broken loop reaches, so
that such a loop is a cycle of states and shows in `CallsReturn` as well.

**`Ledger`** adds up, in two histories, how far `size_bytes` and `stats.entries` part
from the map for good: `SizeSlip(t)` and `CountSlip(t)` say which steps do it and by how
much. Bytes leak when `get` removes an expired entry, when a set's insertion
overwrites an entry another set has inserted since the removal, and when a
`saturating_sub` stops at zero. Entries are miscounted in the first two cases, when
a set is refused after it removed its key, and when a decrement panics. `clear`
zeroes both counters whatever other calls have in hand. A slip is positive or negative and `leaked` is
the net number; it need not be a new dimension of the state space, since together
with the calls under way the state determines it. `MCCallsEnd` checks `CallsEnd`
and `Ledger` on the same behaviours.

**`MemoryTier`**: the calls of one `MemoryCache` with the LRU policy again, each as one
operator from a tier to its result and the tier it leaves (`TierSet`, `TierGet`,
`TierExists`, `TierDelete`, `TierClear`). `EvictForSpace` says in one expression
what the loop does: the shortest run of the deque whose stored keys make room.
**`WholeCalls`** compares the two: it runs the steps of `MemoryCache` with a
history `before`, the tier when no call was in progress last, and requires the
outcome of every call to be that of the whole call on `before` (`CallsAreWhole`).

**`MultiTierCache`**: a client visits tier after tier; one visit is one call of
the `Tier` trait and is atomic, which `IsLossyMap` justifies for in-memory tiers.
`SetTier`, `DeleteTier`, `GetHit`/`GetMiss`/`GetError`, `Promote`, `ExistsHere`,
`ExistsNotHere` are the bodies of the loops in `multi_tier.rs`. Tiers in
`MemoryTiers` fail only in `set`, and then without their old entry and perhaps
others (`memory.rs:253` before `:262`); a set that succeeds may evict any other
keys (`PutEvicting`). The other tiers, which stand for the Redis and disk tiers of
the documents, may fail in any call and keep what they had. `Expire` and `Lose`
(eviction, or the expiry race of `get`) may happen to any copy at any time. `upto`
is where a promotion ends. An entry that expires between the two looks of a tier's
`get` is the same as one that expires right after the hit, and an entry that is
expired when inserted the same as one that expires right after. History: `latest` (what
the last write asked for), `raced` (keys whose last write overlapped a call),
`torn` (keys whose last write returned an error).

**`TieredMemory`** is the composition: the clients of `MultiTierCache` over real
`MemoryTier`s with a capacity and an LRU policy each, so that what is evicted and
what is refused is what the tiers decide. It reuses the clients' state and control
through `Cache == INSTANCE MultiTierCache WITH MemoryTiers <- Tiers, tiers <- [i
\in Tiers |-> mem[i].entries]`, and implements `Cache!Spec` under that mapping
(`IsTieredCache`).

**`UnitTests`** replays the crate's unit tests and checked doc examples of the
policies, `TierStats`, the in-memory tier and the multi-tier cache through the
operators of `LRU`, `LFU` and `MemoryTier`, and through whole multi-tier calls
(`CacheGet`, `CacheSet`, ...). A test is a sequence of calls with the answers it
asserts; `hit_rate` is in percent, and an entry of `String`s has the 48 bytes that
`size_of_val` gives. `test_multi_tier_promotion` turns out not to exercise
promotion: its first tier of 100 bytes holds the 48-byte entry all along.

`MC...` modules give the constant operators and symmetry sets; a `.cfg` gives the
rest. Operators marked "Mutant" in the modules are plausible bugs, used only to
test that each property would notice one.

## 3. What is checked

Runs that pass:

| Run (cfg) | Instance | What it shows |
|---|---|---|
| `lru_policy` (LRUPolicy) | 3 keys, deque up to 8, up to 4 evictions between resets | `ExactUntilEvicted`: until the first eviction the position map is exact and the deque is the true order of use. Afterwards positions go stale, but only towards younger entries (`IndexNeverBehind`), so using a key never disturbs older entries (`OlderEntriesKeepPlace`), and the deque is at most one entry per eviction longer than the map (`LengthBound`). |
| `lfu_policy` (LFUPolicy) | 3 keys, counts up to 4 | LFU evicts a least used known key (`EvictsLeastFrequent`) and implements the contract (`KeepsContract`); `min_frequency` is only a lower bound. |
| `lfu_concurrent` (LFUConcurrent) | 2 threads, 3 keys, 2 values, capacity 3 of entries of 2, 4 calls (no clear), TTLs, wrap-around | Linearizable lossy map (`IsLossyMap`); the bound on overshoot (`ReservationBound`, `PhysicalBound`); the size never undercounts; every entry can be evicted; `stats.entries` heals after wrapping (`EntriesSettle`); every value a get returns was fresh at some instant of the call or inserted during it (`NoStaleHits`). |
| `lru_sequential` (LRUSequential) | 1 thread, 3 keys, room for 2, 8 calls with clear, no TTL | The counters are exact after each call (`SettledExact`) and no set is refused (`RefusedOnlyIfTooLarge`), although LRU loses keys; each call is the whole call of `MemoryTier` (`CallsAreWhole`). |
| `lru_clear_panics` (LRUClearPanics) | 2 threads, 2 keys, 4 calls of all operations but `exists`, TTL, overflow checks | With `clear` and with panics inside calls: lossy map, bounded overshoot, every call returns (no deadlock, no endless eviction); while threads wait for a lock some thread can go on (`SomeoneRuns`), and the calls together take at most `StepsPerCall` steps each (`CallsTakeFewSteps`). One call alone may take more: it evicts what others have told the policy. When no call is under way the counters are the map's plus the slips of `Ledger` and nothing else (`SlipsExplainSize`, `SlipsExplainCount`), and the bytes leaked and the entries stored share the capacity at every moment (`LeaksTakeRoom`). The subtraction from `stats.entries` finds it at 0, and panics, only while a set has inserted an entry it has not counted, or after a clear that other calls overlapped (`PanicsOnlyInRaces`). |
| `tiers_memory` (TiersMemory) | 3 in-memory tiers, 1 key, 2 values, 2 clients, 4 calls | A write that overlapped no other call leaves no outdated copy anywhere (`TiersAgree`), and a get or exists that overlaps no write answers by it (`AnswersAreCurrent`); the slowest tier's copies all expire. |
| `tiers_external` (TiersExternal) | 1 in-memory tier, 2 external, 2 clients, 4 calls | The same agreement, provided the last write returned `Ok` (`AcknowledgedAgree`). |
| `tiered_memory` (TieredMemory) | 2 LRU tiers with room for 1 and for 2, 3 keys, 2 clients, 5 calls | Real tiers are tiers of `MultiTierCache`; their counters err upward only (`CountersErrUpward`); a tier that would refuse a set or a promotion, of any key at any moment, is too small for one entry or has itself lost room to expired entries (`RefusedOnlyIfLeaked`). |
| `unit_tests` (UnitTests) | the crate's tests | Every assertion of the tests holds of the models (`AssertionsHold`). |

Runs that refute a claim of the code's comments or documents:

| Run (cfg) | Claim | What happens |
|---|---|---|
| `lru_order` (LRUPolicyOrder) | `eviction.rs:38` "Evict the least recently used item first." | `evict` leaves `key_index` stale (`:119-120`), a later `on_access` removes the wrong entry. |
| `size_leak` (SizeLeak) | `tier.rs:133` "Current size in bytes" | `get` of an expired entry removes it and never subtracts its size (`memory.rs:208`). |
| `tiers_expiry` (TiersExpiry) | `ARCHITECTURE.md:614` "Time-based expiration prevents stale data" | Promotion stores a copy with no TTL (`multi_tier.rs:137`). |

Disagreements seen while reading that have no run of their own: the size exceeds
the "maximum capacity in bytes" of `tier.rs:146` when two sets pass the space check
on one size (`ReservationBound` says by how much); a get overlapping a delete can
put the value back, against `cache.rs:50` "Remove a value from all tiers"; the
policies' `capacity` bounds nothing (`eviction.rs:55`, `:161`); `min_frequency` is
not the minimum after an eviction (`:165`); two concurrent sets of one new key are
counted as two entries (`tier.rs:22`, `memory.rs:288`), and the second insertion
forgets the size of the first for ever (`memory.rs:273` ignores what `insert`
returns, against `tier.rs:133`); a set racing `clear` can
end up stored with size 0 (`memory.rs:325-327`); a get can remove a fresh entry
that replaced the expired one it saw (`memory.rs:206-208`); a get can return a
value that expired after the check (`memory.rs:198` against `:216`), even one that
was expired when it was inserted (`:267` against `:273`), against
`ARCHITECTURE.md:614` "Time-based expiration prevents stale data"; a set can be refused
while another thread's entry is on its way to the policy (`memory.rs:178`); reads
take the `stats` mutex (`README.md:29` "Lock-free reads"); interleaved sets leave
tiers different (`ARCHITECTURE.md:577`); a get whose tiers all failed returns
`Ok(None)` (`cache.rs:18`). The models contain these behaviours.

Two weaknesses the passing properties are worded around. Keys that LRU forgets stay
stored and can no longer be evicted: the room they take is lost to others until
they are deleted or overwritten, though never so much of it that a set is refused.
And each expired entry that a get removes costs its size until `clear`: with
enough of them a tier refuses every set, which is why `RefusedOnlyIfLeaked` excuses a
tier that has leaked (only that tier) and `SettledExact` is about entries without TTL.

Why the properties say what they say. The literal claims are false, so the passing
runs state the strongest thing found true instead: `ReservationBound` and
`PhysicalBound` say by how much the capacity may be exceeded; `EntriesSettle` that
the entry count errs upward only; `TiersAgree` under which writes tiers agree.

Bounds. `MaxCalls` bounds the calls begun, `MaxLength` the deque, `MaxEvictions` the
evictions between two resets, `MaxCount` the uses. Two threads are enough for every
race listed under hazards, each of which is between two calls on one key, or an
eviction and a call; two or three keys let an eviction hit another thread's entry;
room for one or two entries forces evictions. Eight calls let one thread fill the
cache, evict until LRU forgets a key, and need that room again. Three tiers are the
fewest in which a promotion passes over a tier; two clients over real tiers of
different sizes let one evict what the other promotes. The proofs remove the bound
on threads, tiers, keys and calls where they apply. Keys, values, threads and
clients are symmetric and used as such in runs without liveness; `CallsReturn` is
checked without symmetry. Deadlock is checked in every run: the only terminal state
is `Finished`, all calls done.

Fairness. `MCSpec`, which `lru_clear_panics` checks, has weak fairness of
`Step(t)` for each thread (`Fairness` of `MemoryCache`): the operating system runs
every runnable thread, and a thread waiting for a mutex eventually gets it. Weak fairness is enough because calls are bounded in number: a lock
cannot be taken from a waiting thread for ever. `Begin` and `Expire` are not fair.
The modules of several tiers state no liveness and no fairness: their loops are
bounded by the number of tiers.

## 4. What is proved

Every theorem holds for all values of the constants that satisfy the named
assumptions, in particular for any number of calls.

`LRUPolicyProofs`, `LFUPolicyProofs` - for all key sets and all sequences of calls:

* LRU: `TypeCorrect`; `NeverBehind` (`IndexNeverBehind`, inductive together with
  the type: removing at a recorded position `p` shifts entries and positions past
  `p` alike, and an eviction only makes positions too large); `OlderKeep`; `Exact`
  (`ExactUntilEvicted`: deque and map stay inverse, and the deque the order of use);
  `LengthBounded` (the recorded positions, too, are below the size of the map plus the
  evictions: a stale position past the end of the deque leaves room for the push).
* LFU: the inductive invariant `CountsUses` ties `access_count` to the true number
  of uses; from it `TypeCorrect`, `LowerBound`, `LeastFrequent`, and
  `ImplementsContract`, the refinement of `EvictionPolicy`.

`MemoryCacheProofs`, `OneThreadProofs`, `WholeCallsProofs`, `CallerProofs` - for all
finite sets of keys and threads, any values, capacity and entry size, and any
policy operators, unless said otherwise:

* `TypeCorrect`: the type invariant, which includes that a thread at a step of a
  call is in that call; it is inductive.
* `ReservationBounded`: `size_bytes` plus one entry per thread between check and
  addition is at most the capacity plus N - 1 entries. Inductive as it stands: a
  thread that passes the check makes the sum at most the capacity plus the other
  threads' entries; other steps do not increase it. Holds with `clear`.
* `SizeCovers` (if `"clear" \notin Ops`): stored plus removed-but-unsubtracted
  entries are at most `size_bytes` plus inserted-but-not-added ones. Inductive: the
  subtraction of a thread whose entry is still counted on the left saturates only
  when the right side stays large enough. With `clear` it is false: `clear` zeroes
  the size after others inserted.
* `EntriesBounded` follows from the two: stored entries never exceed the capacity
  by more than N - 1 entries.
* `EntriesEvictable` (if `"clear" \notin Ops`): every stored entry is known to the
  policy or in the hands of a thread, for every policy that satisfies `KeepsKeys`:
  its operations stay in a set of policy states, an insertion adds its key, an
  access loses none, an eviction loses the key it returns only. LFU is such a
  policy (`LfuKeepsKeys`), so `LfuEntriesEvictable` needs no such hypothesis; LRU is
  not.
* `EntriesSettled` (if `"clear" \notin Ops`): `EntriesSettle`. The count in the code
  wraps, so no bound on it is inductive. The invariant `Settling` says that there is
  an integer `e` that `stats.entries` is the residue of (`Unwraps`), and that `e`,
  corrected by the threads that have removed and not yet uncounted, or inserted
  and not yet counted an entry, stays between the stored entries and the calls
  begun (`Balanced`). When no call is under way the correction is nothing, and
  `e` needs no wrapping.
* `ExactWhenSettled` (`SettledExact`, for one thread and no TTL): `Where` says what the
  thread has in hand at each step, `Exact` how far each counter is then from the
  entries. An update keeps the entry it removed in `stats.entries`; that is right
  because it never evicts and is never refused: it has just made its own room.
* `RefusedTooLarge`, `LruRefusedTooLarge` (`RefusedOnlyIfTooLarge`, for one thread and
  no TTL): a full tier has a stored key the policy knows (`Evictable`), for every
  policy that knows the key used last and loses at an eviction no other
  (`KeepsLastUsed`). LRU is such a policy (`LruKeepsLastUsed`): it loses stored keys
  only by a use of another key, which it then pushes.
* `CallsWhole` (`CallsAreWhole`, for one thread, no TTL and the LRU policy; any number
  of calls and keys, any capacity, with `clear`): the outcome of each call is that of
  the whole call on the tier it found. The invariant `Along` says how far the call in
  progress has got from there: at each step, which of `entries`, `policy`,
  `size_bytes`, `stats` are those of `before` and which are already those of the
  whole call. Within the loop of `evict_for_space` it is `Evicting(t, n)`: the first
  `n` keys of the deque have been popped, those stored among them taken and
  counted, and no shorter run makes room. When the loop ends, `n` is therefore the
  number that `EvictForSpace` chooses (`LoopEnds`): it is the only one with the two
  properties, so no induction over the deque is needed.
* `HitsNotStale` (`NoStaleHits`): the value a get is about to read is in `seen` from
  the check on. An entry turns into another only by a set's insertion, which `seen`
  records whether or not the new entry is fresh, and an entry that was fresh at the
  check was in `seen` before it expired.
* `LossyMapImplemented` (`IsLossyMap`): with the invariant `TypeOK /\ TodoOK` each
  step of a thread maps to one step of the abstract map or to a stutter. The steps
  that take effect are `SetInsert`, `EvictFail`, `GetRead`, `GetExpire`, `Exists`,
  `DelRemove` and those of `clear`; removals by evictions and by `set` itself are
  losses. It holds for any policy operators, with `clear` and with panics.
* `SizeExplained` (`SlipsExplainSize`), `CountExplained` (`SlipsExplainCount`): with
  `clear`, panics, expiry and wrap-around. The invariant `LedgerInv` is an equation
  at every step: `size_bytes` is `EntrySize * SizeDue + leaked`, where `SizeDue` is
  the stored entries plus the removed and not yet subtracted ones minus those
  inserted and not yet added (`SizeAccounted`); `stats.entries` is the residue of
  `CountDue + miscounted` (`CountAccounted`), which is at most the calls begun less
  the sets that may still count an entry (`CountLimited`), where a set that has removed its key's
  old entry counts as holding it until it inserts or is refused. The bounds above
  (`SizeCovers`, `EntriesSettled`) needed `"clear" \notin Ops`, because they say in which direction a
  counter errs; the equation says by how much, and so survives `clear`.
* `LeaksShareRoom` (`LeaksTakeRoom`): from it and `ReservationBound`. Bytes leaked
  are lost room, one for one, until a `clear`.
* `PanicsInRaces` (`PanicsOnlyInRaces`): a thread about to count down is itself one of
  `CountDue`. If no set has inserted what it has not counted and no clear left
  `miscounted` negative, the count is therefore at least 1; by `CountLimited` it is
  below `Width`, so that `stats.entries`, its residue, is not 0.
* `NoLockCycle` (`SomeoneRuns`): one thread at a time holds `size_bytes`
  (`OneHolder`, inductive), `stats` is held across steps only by a thread that
  holds `size_bytes` too, and that thread waits for nothing. So whoever waits, the
  holder of `size_bytes` can go on.
* `FewSteps` (`CallsTakeFewSteps`) for every policy that satisfies `CountsKeys`: being
  told of a key makes it one key longer at most, giving one makes it one shorter.
  The loop of `evict_for_space` has no bound of its own: other threads' insertions
  send it round again, and what it pops may be gone. But each pass takes a key
  from the policy, and some `set` or `get` put it there. So the step that gives the
  policy a key is charged with the five steps of the pass that will take it away;
  `Left` is what is left of a call at each step with that charge, and the invariant
  `Budget` says that the steps taken, all that is `Left`, and five for each key in
  the policy are at most `StepsPerCall` for each call begun. `LruFewSteps` and
  `LfuFewSteps` show that the crate's two policies satisfy `CountsKeys`
  (`LruCountsKeys`, `LfuCountsKeys`).

`MultiTierProofs` - for any number of tiers, clients, keys and values and any
division of the tiers into in-memory and external ones:

* `TypeCorrect`, `SlowestExpires`.
* `AcknowledgedAgreement` (`AcknowledgedAgree`), with the invariant `AgreementInv`:
  of a key that is not raced, a write under way has brought the tiers it passed
  without an error to its value or to nothing (`Progress`), while no other call is
  on the key (`OneWriter`); between writes all tiers, and the value any promotion
  carries, are those of the last write (`Agreement`). A call that would break it
  overlaps the write, and then the key is raced.
* `MemoryAgreement` (`TiersAgree`, if all tiers are in-memory): a failed set leaves
  nothing, so no write tears an in-memory tier.
* `CurrentAnswers` (`AnswersAreCurrent`, if all tiers are in-memory) from it.

`TieredMemoryProofs` - for any number of `MemoryTier`s of any capacities, any keys
and clients. The tiers have the LRU policy, the default of the code and the one
`MemoryTier` contains:

* `RealTiersAreTiers` (`IsTieredCache`): every step of `TieredMemory` is one of
  `MultiTierCache`; a set that evicts is a `PutEvicting` of the keys it evicted.
* `CountersSound` (`CountersErrUpward`): each whole call keeps a tier `Sound`, the
  size covering the entries and the entries count covering the size; `Inv` is that
  of all tiers with the type of the clients.
* `Refusals` (`RefusedOnlyIfLeaked`): LRU loses stored keys, but never the one used
  last, which an access or an insertion has just pushed. So a tier that is full and
  has lost no room to expired entries holds the last key of `access_order`
  (`LastHeld`, inductive with the counters; each call `Wears` a tier: it keeps
  `LastHeld`, and room once lost stays lost). Eviction therefore makes room in the
  end; the least number of keys it takes exists by the well-foundedness of `<`.
* `RealTiersAgree`: through the refinement, `TiersAgree` and `AnswersAreCurrent`
  hold of real tiers.

Assumptions: the named `ASSUME`s of the modules (`MemoryCacheAssumption`,
`NoneIsNoEntry`, `LRUAssumption`, `LFUAssumption`, `MultiTierAssumption`,
`TieredMemoryAssumption`), which a run of each module evaluates, and the hypotheses
stated with the theorems. The bounds `MaxCalls`, `MaxLength`, `MaxEvictions`,
`MaxCount` are arbitrary numbers.

Only model-checked: `AssertionsHold`, which replays fixed sequences of calls, and
liveness, `CallsReturn`, which the prover does not do. `NoLockCycle` and `FewSteps`
are the safety it rests on: there is no cycle of waiting threads, and only so many
steps to take. What they leave to TLC is that a step which waits for no lock can
be taken, and that fairness takes it.

## 5. Not modelled

`size`, `capacity`, `stats`, `hit_rate`, `get_count` and `num_tiers` change nothing
and appear in the replayed tests only. `clone_box`, called by nothing but a test, is
left out with it. `add_tier` needs `&mut self`, so it precedes sharing. Constructors'
assertions are assumptions, and the tests that they panic are not replayed.
`error.rs` and `lib.rs` have no behaviour. Redis and disk tiers, FIFO, background
cleanup and metrics exist only in the documents; the examples use an API the crate
does not have. A cache with no tiers, which answers every get with `None`, is left
out (`NumTiers > 0`) but for the tests of an empty cache. The atomicity of a
visit in `MultiTierCache` is that of a linearizable tier; the tiers' own steps
interleaved across several tiers are not composed.

## 6. What is left

`SizeCovers`, `EntriesBounded`, `EntriesEvictable` and `EntriesSettled` exclude
`clear`, which breaks what they say: an entry set while another thread clears
stays stored with its size forgotten and its key unknown to the policy. What holds
with `clear` is `ReservationBounded` and the four theorems of `Ledger`; how often
`clear` can be raced, and so how negative `leaked` can become, is not bounded.
`CallsWhole` is about the LRU policy, the one `MemoryTier` contains.
