----------------------------- MODULE UnitTests -----------------------------
(***************************************************************************)
(* The crate's own unit tests and checked doc examples, replayed through   *)
(* the operators the models are built from: the policies, the calls of     *)
(* module MemoryTier, and the calls of a MultiTierCache below, each as a   *)
(* whole.  A test is a sequence of calls with the answers it asserts.      *)
(***************************************************************************)
EXTENDS MemoryTier

Lfu == INSTANCE LFU

-----------------------------------------------------------------------------
(* A MultiTierCache over in-memory tiers *)

\* The tiers' answers to one call each; an error of any is the call's.
Outcome(rs) == IF \E i \in DOMAIN rs : rs[i].result = "full" THEN "err" ELSE "ok"

AllTiers(rs) ==
    [result |-> Outcome(rs), next |-> [i \in DOMAIN rs |-> rs[i].tier]]

CacheSetWithTtl(ts, k, value) ==
    AllTiers([i \in DOMAIN ts |-> TierSet(ts[i], k, value, "live")])

\* The default time-to-live of five minutes is one, too.
CacheSet(ts, k, value) == CacheSetWithTtl(ts, k, value)

\* Mutant: the fastest tier is asked, and keeps the key.
CacheDeleteFirst(ts, k) ==
    AllTiers([i \in DOMAIN ts |-> IF i = 1 THEN TierExists(ts[i], k)
                                           ELSE TierDelete(ts[i], k)])

CacheDelete(ts, k) == AllTiers([i \in DOMAIN ts |-> TierDelete(ts[i], k)])

CacheExists(ts, k) ==
    [result |-> IF \E i \in DOMAIN ts : TierExists(ts[i], k).result = "present"
                THEN "present" ELSE "absent",
     next |-> ts]

\* The tiers in front of the first hit are asked, then given a copy.
CacheGet(ts, k) ==
    LET asked == [i \in DOMAIN ts |-> TierGet(ts[i], k)]
        misses == {i \in DOMAIN ts : \A j \in 1 .. i : asked[j].result = None}
        hit == Cardinality(misses) + 1
        value == IF hit > Len(ts) THEN None ELSE asked[hit].result
    IN  [result |-> value,
         next |-> [i \in DOMAIN ts |->
                      IF i > hit THEN ts[i]
                      ELSE IF i = hit \/ value = None THEN asked[i].tier
                      ELSE TierSet(asked[i].tier, k, value, "forever").tier]]

AddTier(ts, capacity) == Append(ts, TierNew(capacity))

-----------------------------------------------------------------------------
(* What a test can call: do(s, c) has the call c made of the state s. *)

Ok(s) == [result |-> "ok", next |-> s]
Says(result, s) == [result |-> result, next |-> s]

LruCall(p, c) ==
    CASE c.op = "insert" -> {Ok(LruOnInsert(p, c.key))}
      [] c.op = "access" -> {Ok(LruOnAccess(p, c.key))}
      [] c.op = "evict"  -> {Says(o.key, o.rest) : o \in LruEvict(p)}
      [] c.op = "reset"  -> {Ok(LruReset(p))}
      [] c.op = "size"   -> {Says(Len(p.access_order), p)}

LfuCall(p, c) ==
    CASE c.op = "insert" -> {Ok(Lfu!LfuOnInsert(p, c.key))}
      [] c.op = "access" -> {Ok(Lfu!LfuOnAccess(p, c.key))}
      [] c.op = "evict"  -> {Says(o.key, o.rest) : o \in Lfu!LfuEvict(p)}
      [] c.op = "reset"  -> {Ok(Lfu!LfuReset(p))}
      [] c.op = "size"   -> {Says(Cardinality(DOMAIN p.access_count), p)}
      [] c.op = "count"  -> {Says(IF c.key \in DOMAIN p.access_count
                                  THEN p.access_count[c.key] ELSE 0, p)}

TotalRequests(stats) == stats.hits + stats.misses

\* The quotient, in percent.
HitRate(stats) ==
    IF TotalRequests(stats) = 0 THEN None
    ELSE (100 * stats.hits) \div TotalRequests(stats)

StatsCall(stats, c) ==
    {Says(IF c.op = "hit_rate" THEN HitRate(stats) ELSE TotalRequests(stats), stats)}

\* A sleep past every time-to-live.
Aged(m) ==
    [m EXCEPT !.entries = [k \in Keys |->
        IF TierHolds(m, k) /\ @[k].life = "live"
        THEN [@[k] EXCEPT !.life = "expired"] ELSE @[k]]]

FromTier(r) == Says(r.result, r.tier)

TierCall(m, c) ==
    {CASE c.op = "set"      -> FromTier(TierSet(m, c.key, c.value, "forever"))
       [] c.op = "set_ttl"  -> FromTier(TierSet(m, c.key, c.value, "live"))
       [] c.op = "get"      -> FromTier(TierGet(m, c.key))
       [] c.op = "exists"   -> FromTier(TierExists(m, c.key))
       [] c.op = "delete"   -> FromTier(TierDelete(m, c.key))
       [] c.op = "clear"    -> FromTier(TierClear(m))
       [] c.op = "sleep"    -> Ok(Aged(m))
       [] c.op = "size"     -> Says(m.size, m)
       [] c.op = "capacity" -> Says(m.capacity, m)
       [] c.op = "hits"     -> Says(m.stats.hits, m)
       [] c.op = "misses"   -> Says(m.stats.misses, m)
       [] c.op = "hit_rate" -> Says(HitRate(m.stats), m)}

CacheCall(ts, c) ==
    {CASE c.op = "add_tier"  -> Ok(AddTier(ts, c.value))
       [] c.op = "num_tiers" -> Says(Len(ts), ts)
       [] c.op = "stats"     -> Says(Len([i \in DOMAIN ts |-> ts[i].stats]), ts)
       [] c.op = "entries"   -> Says(ts[c.value].stats.entries, ts)
       [] c.op = "set"       -> CacheSet(ts, c.key, c.value)
       [] c.op = "set_ttl"   -> CacheSetWithTtl(ts, c.key, c.value)
       [] c.op = "get"       -> CacheGet(ts, c.key)
       [] c.op = "exists"    -> CacheExists(ts, c.key)
       [] c.op = "delete"    -> CacheDelete(ts, c.key)
       [] c.op = "sleep"     -> Ok([i \in DOMAIN ts |-> Aged(ts[i])])}
-----------------------------------------------------------------------------
(* The tests.  A call whose answer a test unwraps or ignores says "ok". *)

Call(op, key, value, says) == [op |-> op, key |-> key, value |-> value, says |-> says]

Does(op, key) == Call(op, key, None, "ok")
Asks(op, says) == Call(op, None, None, says)
AsksOf(op, key, says) == Call(op, key, None, says)
Puts(op, key, value) == Call(op, key, value, "ok")

Inserts(keys) == [i \in DOMAIN keys |-> Does("insert", keys[i])]
Accesses(keys) == [i \in DOMAIN keys |-> Does("access", keys[i])]
Evicts(keys) == [i \in DOMAIN keys |-> Asks("evict", keys[i])]

LruExample == Inserts(<<"a", "b", "c">>) \o Accesses(<<"a">>) \o Evicts(<<"b">>)
LruCreation == <<Asks("size", 0)>>
LruInsert == Inserts(<<"a", "b", "c">>) \o <<Asks("size", 3)>>
LruAccess ==
    Inserts(<<"a", "b", "c">>) \o Accesses(<<"a">>) \o Evicts(<<"b", "c", "a">>)
LruEviction == Inserts(<<"a", "b">>) \o Evicts(<<"a">>) \o <<Asks("size", 1)>>
LruResetting == Inserts(<<"a", "b">>) \o <<Does("reset", None), Asks("size", 0)>>

LfuExample ==
    Inserts(<<"a", "b", "c">>) \o Accesses(<<"a", "a", "b">>) \o Evicts(<<"c">>)
LfuCreation == <<Asks("size", 0)>>
LfuInsert == Inserts(<<"a", "b">>) \o <<Asks("size", 2), AsksOf("count", "a", 1)>>
LfuAccess == Inserts(<<"a">>) \o Accesses(<<"a", "a">>) \o <<AsksOf("count", "a", 3)>>
LfuEviction ==
    Inserts(<<"a", "b", "c">>) \o Accesses(<<"a", "a", "b">>) \o Evicts(<<"c">>)
LfuResetting == Inserts(<<"a">>) \o <<Does("reset", None), Asks("size", 0)>>

StatsHitRate == <<Asks("hit_rate", 80)>>
StatsNoRequests == <<Asks("hit_rate", None)>>
StatsTotalRequests == <<Asks("total_requests", 100)>>
StatsPerfect == <<Asks("hit_rate", 100)>>
StatsZero == <<Asks("hit_rate", 0)>>

TierCreation == <<Asks("capacity", 1024), Asks("size", 0)>>
TierSetGet == <<Puts("set", "key", "value"), AsksOf("get", "key", "value")>>
TierGetMiss == <<AsksOf("get", "nonexistent", None)>>
TierDeletes ==
    <<Puts("set", "key", "value"), Does("delete", "key"), AsksOf("get", "key", None)>>
TierHasKey ==
    <<AsksOf("exists", "key", "absent"), Puts("set", "key", "value"),
      AsksOf("exists", "key", "present")>>
TierClears ==
    <<Puts("set", "key1", "value1"), Puts("set", "key2", "value2"), Does("clear", None),
      AsksOf("get", "key1", None), AsksOf("get", "key2", None), Asks("size", 0)>>
TierStats ==
    <<Puts("set", "key", "value"), AsksOf("get", "key", "value"),
      AsksOf("get", "nonexistent", None),
      Asks("hits", 1), Asks("misses", 1), Asks("hit_rate", 50)>>
TierTtl ==
    <<Puts("set_ttl", "key", "value"), AsksOf("exists", "key", "present"),
      Does("sleep", None), AsksOf("exists", "key", "absent"), AsksOf("get", "key", None)>>
TierUpdate ==
    <<Puts("set", "key", "value1"), Puts("set", "key", "value2"),
      AsksOf("get", "key", "value2")>>
TierWithPolicy == <<Asks("capacity", 1024)>>

OneTier == <<Call("add_tier", None, 1024, "ok")>>
CacheCreation == <<Asks("num_tiers", 0)>>
CacheAddTier == OneTier \o <<Asks("num_tiers", 1)>>
CacheDefault == <<Asks("num_tiers", 0)>>
CacheSingleTier == OneTier \o TierSetGet
CacheGetMiss == OneTier \o TierGetMiss
CacheDeletes == OneTier \o TierDeletes
CacheHasKey == OneTier \o TierHasKey
CacheTtl ==
    OneTier \o <<Puts("set_ttl", "key", "value"), AsksOf("exists", "key", "present"),
                 Does("sleep", None), AsksOf("exists", "key", "absent")>>
CacheTwoTiers ==
    <<Call("add_tier", None, 512, "ok"), Call("add_tier", None, 1024, "ok"),
      Asks("num_tiers", 2), Puts("set", "key", "value"), Asks("stats", 2)>>
CachePromotion ==
    <<Call("add_tier", None, 100, "ok"), Call("add_tier", None, 1024, "ok"),
      Puts("set", "key", "value"), AsksOf("get", "key", "value"),
      Call("entries", None, 1, 1), Call("entries", None, 2, 1)>>

\* What each test works on, and the states it starts from.
On(subject, start, scripts) ==
    {[on |-> subject, start |-> start, calls |-> s] : s \in scripts}

Counts(hits, misses) == [hits |-> hits, misses |-> misses]

Tests ==
    On("lru", LruNew,
       {LruExample, LruCreation, LruInsert, LruAccess, LruEviction, LruResetting})
    \cup On("lfu", Lfu!LfuNew,
       {LfuExample, LfuCreation, LfuInsert, LfuAccess, LfuEviction, LfuResetting})
    \cup On("stats", Counts(80, 20), {StatsHitRate, StatsTotalRequests})
    \cup On("stats", Counts(0, 0), {StatsNoRequests})
    \cup On("stats", Counts(100, 0), {StatsPerfect})
    \cup On("stats", Counts(0, 100), {StatsZero})
    \cup On("tier", TierNew(1024),
       {TierCreation, TierSetGet, TierGetMiss, TierDeletes, TierHasKey, TierClears,
        TierStats, TierTtl, TierUpdate, TierWithPolicy})
    \cup On("cache", <<>>,
       {CacheCreation, CacheAddTier, CacheDefault, CacheSingleTier, CacheGetMiss,
        CacheDeletes, CacheHasKey, CacheTtl, CacheTwoTiers, CachePromotion})

-----------------------------------------------------------------------------
VARIABLES
    test,               \* the test that runs
    done,               \* how many of its calls have been made
    subject,            \* the state of what it works on
    answer              \* what the last call returned

vars == <<test, done, subject, answer>>

Init ==
    /\ test \in Tests
    /\ done = 0 /\ subject = test.start /\ answer = None

Outcomes(c) ==
    CASE test.on = "lru"   -> LruCall(subject, c)
      [] test.on = "lfu"   -> LfuCall(subject, c)
      [] test.on = "stats" -> StatsCall(subject, c)
      [] test.on = "tier"  -> TierCall(subject, c)
      [] test.on = "cache" -> CacheCall(subject, c)

MakeCall ==
    /\ done < Len(test.calls)
    /\ \E o \in Outcomes(test.calls[done + 1]) :
          answer' = o.result /\ subject' = o.next
    /\ done' = done + 1
    /\ UNCHANGED test

Finished == done = Len(test.calls) /\ UNCHANGED vars

Next == MakeCall \/ Finished

Spec == Init /\ [][Next]_vars

\* Every assertion of the unit tests holds in the models, whichever of the
\* keys used equally often a HashMap happens to list first.
AssertionsHold == done > 0 => answer = test.calls[done].says
=============================================================================
