-------------------------- MODULE OneThreadProofs ---------------------------
(***************************************************************************)
(* The in-memory tier used by one thread, without TTLs: its counters are   *)
(* exact after each call, and it refuses no entry that fits the cache,     *)
(* although LRU loses sight of stored keys; for any number of keys and     *)
(* values, any capacity and entry size, with clear().                      *)
(***************************************************************************)
EXTENDS MemoryCacheProofs, Sequences

-----------------------------------------------------------------------------
(* SettledExact *)

Count == Cardinality(Stored)
Bytes == EntrySize * Count

\* The calls that have removed their key and not yet inserted it.
Removed == {"set_sub", "evict_check", "evict_pop", "evict_remove", "evict_sub",
            "evict_stats", "evict_fail", "set_insert"}
\* The steps of a set that may be the update of an entry.
Updating == {"set_sub", "evict_check", "set_insert", "set_add", "set_stats", "set_policy"}

\* The steps before a call changes anything and after it has changed all.
Reported == {"idle", "set_remove", "set_policy", "get_check", "get_read", "get_access",
             "get_hit", "get_miss", "exists", "del_remove", "clear_policy"}

\* The entry an update has removed is still counted.
Old(t) == IF local[t].old_size = None THEN 0 ELSE 1

\* Where the one thread t can be, and with what in its hands.
Where(t) ==
    /\ pc[t] \notin {"panicked", "get_expire"}
    /\ pc[t] = "set_sub" => Old(t) = 1
    /\ pc[t] \notin Updating => Old(t) = 0
    /\ pc[t] = "set_insert" \/ (pc[t] = "evict_check" /\ Old(t) = 1) => Fits(size_bytes)
    /\ \A k \in Stored : entries[k].life = "forever"
    /\ pc[t] \in Removed => call[t].key \notin Stored
    /\ pc[t] = "clear_entries" => Stored \subseteq local[t].todo
    /\ pc[t] \in ClearSteps \ {"clear_entries"} => Stored = {}

\* How far each counter is from the entries at each step of thread t.
Exact(t) ==
    /\ pc[t] \in {"set_sub", "evict_sub", "del_sub"} => size_bytes = Bytes + EntrySize
    /\ pc[t] = "set_add" => size_bytes + EntrySize = Bytes
    /\ pc[t] \notin {"set_sub", "evict_sub", "del_sub", "set_add", "clear_entries",
                     "clear_size"} => size_bytes = Bytes
    /\ pc[t] \in {"evict_sub", "evict_stats", "del_sub", "del_stats"} =>
          stats.entries = Count + 1
    /\ pc[t] \in {"set_add", "set_stats"} => stats.entries + 1 = Count + Old(t)
    /\ pc[t] \in {"set_sub", "evict_check", "set_insert"} => stats.entries = Count + Old(t)
    /\ pc[t] \in Reported \cup {"evict_pop", "evict_remove", "evict_fail"} =>
          stats.entries = Count
    /\ pc[t] \in Reported \cup {"evict_pop", "evict_remove", "evict_fail"}
       \/ (pc[t] = "evict_check" /\ Old(t) = 0) => stats.size_bytes = size_bytes
    /\ pc[t] = "set_stats" => local[t].final_size = size_bytes
    /\ Count <= calls
    /\ pc[t] \in Removed \cup {"set_remove"} => Count < calls

Alone(t) == Where(t) /\ Exact(t)

\* A step that keeps the number of entries, takes one away, or adds one.
Numbers == Count \in Nat /\ Count' \in Nat /\ Bytes \in Nat /\ Bytes' \in Nat
Same == Numbers /\ Count' = Count /\ Bytes' = Bytes
Less == Numbers /\ Count = Count' + 1 /\ Bytes = Bytes' + EntrySize
More == Numbers /\ Count' = Count + 1 /\ Bytes' = Bytes + EntrySize

LEMMA NumbersAre ==
    ASSUME Cardinality(Stored') \in Nat
    PROVE  Numbers
<1>1. Count \in Nat /\ Count' \in Nat
  BY StoredFinite DEF Count
<1>2. Bytes \in Nat /\ Bytes' \in Nat
  BY <1>1, ScaleMono DEF Bytes
<1>3. QED BY <1>1, <1>2 DEF Numbers

LEMMA StoredKept == ASSUME Stored' = Stored PROVE Same
<1>1. Count' = Count /\ Bytes' = Bytes
  BY DEF Count, Bytes
<1>2. QED BY <1>1, NumbersAre, StoredFinite DEF Same

LEMMA EntriesKept == ASSUME entries' = entries PROVE Same
PROOF BY StoredKept DEF Stored

LEMMA ForgetLess ==
    ASSUME TypeOK, NEW k \in Keys, Forget(k)
    PROVE  (k \in Stored => Less) /\ (k \notin Stored => Same)
<1>1. Stored' = Stored \ {k}
  BY ForgetStored
<1>2. CASE k \in Stored
  <2>1. Cardinality(Stored') = Cardinality(Stored) - 1 /\ Cardinality(Stored') \in Nat
    BY <1>1, <1>2, StoredFinite, FS_RemoveElement, FS_CardinalityType
  <2>2. Count = Count' + 1 /\ Count' \in Nat
    BY <2>1, StoredFinite DEF Count
  <2>3. Bytes = Bytes' + EntrySize
    BY <2>2, ScaleAdd DEF Bytes
  <2>4. QED BY <1>2, <2>1, <2>2, <2>3, NumbersAre DEF Less
<1>3. CASE k \notin Stored
  BY <1>1, <1>3, StoredKept
<1>4. QED BY <1>2, <1>3

\* A set stores an entry under a key that has none.
LEMMA InsertMore ==
    ASSUME TypeOK, NEW t \in Threads, SetInsert(t), call[t].key \notin Stored
    PROVE  /\ More /\ Stored' = Stored \cup {call[t].key}
           /\ \A k \in Stored : entries'[k] = entries[k]
           /\ Ttls = {"forever"} => entries'[call[t].key].life = "forever"
<1> DEFINE k == call[t].key
<1>1. k \in Keys /\ call[t].life \in Ttls
  BY CallShape, MemoryCacheAssumption DEF SetInsert, TypeOK, Requests, SetSteps, NoCall
<1>2. PICK life \in LivesOnInsert(call[t].life) :
         /\ entries' = [entries EXCEPT ![k] = [value |-> call[t].value, life |-> life]]
         /\ [value |-> call[t].value, life |-> life] # None
  BY InsertedEntry
<1>3. PICK x : /\ x = [value |-> call[t].value, life |-> life]
               /\ entries' = [entries EXCEPT ![k] = x] /\ x # None
  BY <1>2
<1>4. Stored' = Stored \cup {k}
  BY <1>1, <1>3 DEF Stored, TypeOK
<1>5. Count' = Count + 1 /\ Count \in Nat /\ Cardinality(Stored') \in Nat
  BY <1>4, StoredFinite, FS_AddElement, FS_CardinalityType DEF Count
<1>6. Bytes' = Bytes + EntrySize
  BY <1>5, ScaleAdd DEF Bytes
<1>7. /\ \A y \in Stored : entries'[y] = entries[y]
      /\ Ttls = {"forever"} => entries'[k].life = "forever"
  BY <1>1, <1>3 DEF Stored, TypeOK, LivesOnInsert
<1>8. QED BY <1>4, <1>5, <1>6, <1>7, NumbersAre DEF More
-----------------------------------------------------------------------------

LEMMA AloneInit ==
    ASSUME NEW t \in Threads
    PROVE  Init => Alone(t)
<1> SUFFICES ASSUME Init PROVE Alone(t)
  OBVIOUS
<1>1. Stored = {}
  BY DEF Init, Stored
<1>2. Count = 0 /\ Bytes = 0
  BY <1>1, FS_EmptySet, MemoryCacheAssumption DEF Count, Bytes
<1>3. pc[t] = "idle" /\ Old(t) = 0
  BY DEF Init, NoLocal, Old
<1>4. size_bytes = 0 /\ stats.entries = 0 /\ stats.size_bytes = 0 /\ calls = 0
  BY DEF Init
<1>5. Where(t)
  BY <1>1, <1>3 DEF Where, Updating, Removed, ClearSteps
<1>6. Exact(t)
  <2> HIDE DEF Count, Bytes
  <2>1. QED
    BY <1>2, <1>3, <1>4, MemoryCacheAssumption
       DEF Exact, ClearSteps, Updating, Removed, Reported
<1>7. QED BY <1>5, <1>6 DEF Alone

\* One thread is not overtaken in the space check.
LEMMA AloneFits ==
    ASSUME TypeOK, ReservationBound, N = 1
    PROVE  size_bytes <= Capacity
<1> DEFINE r == Cardinality(Doing({"set_insert", "set_add"}))
<1>1. r \in Nat
  BY DoingFinite
<1>2. EntrySize * r \in Nat /\ 0 <= EntrySize * r
  BY <1>1, ScaleMono
<1>3. EntrySize * (N - 1) = 0
  BY MemoryCacheAssumption
<1>4. QED BY <1>2, <1>3, MemoryCacheAssumption DEF ReservationBound, TypeOK

\* The subtraction is exact: there is an entry to subtract, and then room.
LEMMA AloneSub ==
    ASSUME TypeOK, size_bytes = Bytes + EntrySize, size_bytes <= Capacity, SubtractEntry
    PROVE  size_bytes' = Bytes /\ Fits(size_bytes')
<1>1. Bytes \in Nat
  BY ScaleMono, StoredFinite DEF Bytes, Count
<1>2. QED BY <1>1, MemoryCacheAssumption DEF SubtractEntry, SatSub, Fits

\* The count goes down by one entry that was counted, so it does not panic.
LEMMA AloneCount ==
    ASSUME TypeOK, NEW t \in Threads, NEW s, NEW next,
           stats.entries = Count + 1, s.entries = stats.entries, CountOneLess(t, s, next)
    PROVE  next /\ stats' = [s EXCEPT !.entries = (@ - 1) % Width, !.size_bytes = size_bytes]
<1>1. Count \in Nat
  BY StoredFinite DEF Count
<1>2. s.entries # 0
  BY <1>1
<1>3. QED BY <1>2 DEF CountOneLess
LEMMA ForgetKeeps ==
    ASSUME TypeOK, NEW k \in Keys, Forget(k)
    PROVE  /\ Stored' = Stored \ {k} /\ k \notin Stored'
           /\ \A y \in Stored' : entries'[y] = entries[y]
<1>1. Stored' = Stored \ {k}
  BY ForgetStored
<1>2. QED BY <1>1 DEF Forget, TypeOK, Stored

LEMMA WhereSet ==
    ASSUME TypeOK, ReservationBound, N = 1, Ttls = {"forever"}, NEW t \in Threads,
           Alone(t), SetStep(t)
    PROVE  Where(t)'
<1> USE DEF TypeOK, Goto, Return, Old, Removed, Updating, ClearSteps, Reported
<1>1. Where(t) /\ Exact(t) /\ local[t] \in Locals
  BY DEF Alone
<1>2. CASE SetRemove(t)
  <2>1. PICK k \in Keys : k = call[t].key
    BY <1>2, CallShape DEF SetRemove, SetSteps
  <2>2. Forget(k) /\ pc[t] = "set_remove" /\ call' = call
    BY <1>2, <2>1 DEF SetRemove
  <2>3. /\ Stored' = Stored \ {k} /\ k \notin Stored'
        /\ \A y \in Stored' : entries'[y] = entries[y]
    BY <2>2, ForgetKeeps
  <2>4. \/ pc'[t] = "set_sub" /\ local'[t].old_size # None
        \/ pc'[t] = "evict_check" /\ local'[t].old_size = local[t].old_size
    BY <1>1, <1>2, NoneIsNoEntry DEF SetRemove, Locals
  <2>5. QED BY <1>1, <2>1, <2>2, <2>3, <2>4 DEF Where
<1>3. CASE SetSub(t)
  <2>1. Stored' = Stored /\ entries' = entries
    BY <1>3 DEF SetSub, Stored
  <2>2. Fits(size_bytes')
    <3>1. size_bytes = Bytes + EntrySize
      <4> HIDE DEF Bytes
      <4>1. pc[t] = "set_sub"
        BY <1>3 DEF SetSub
      <4>2. size_bytes + 0 = Bytes + EntrySize
        BY <1>1, <4>1 DEF Exact
      <4>3. QED BY <4>2
    <3>2. QED BY <1>3, <3>1, AloneSub, AloneFits DEF SetSub
  <2>3. pc'[t] = "evict_check" /\ local' = local /\ call' = call /\ pc[t] = "set_sub"
    BY <1>3 DEF SetSub
  <2>4. QED BY <1>1, <2>1, <2>2, <2>3 DEF Where
<1>4. CASE SetInsert(t)
  <2>1. pc'[t] = "set_add" /\ local' = local /\ call' = call /\ pc[t] = "set_insert"
    BY <1>4 DEF SetInsert
  <2>2. call[t].key \notin Stored
    BY <1>1, <2>1 DEF Where
  <2>3. QED BY <1>1, <1>4, <2>1, <2>2, InsertMore DEF Where
<1>5. CASE SetAdd(t) \/ SetStats(t) \/ SetPolicy(t)
  <2>1. Stored' = Stored /\ entries' = entries
    BY <1>5 DEF SetAdd, SetStats, SetPolicy, Stored
  <2>2. \/ pc'[t] \in {"set_stats", "set_policy"}
        \/ pc'[t] = "idle" /\ local'[t].old_size = None
    BY <1>5 DEF SetAdd, SetStats, SetPolicy, NoLocal
  <2>3. QED BY <1>1, <2>1, <2>2 DEF Where
<1>6. QED BY <1>2, <1>3, <1>4, <1>5 DEF SetStep

LEMMA WhereEvict ==
    ASSUME TypeOK, Ttls = {"forever"}, NEW t \in Threads, Alone(t), EvictStep(t)
    PROVE  Where(t)'
<1> USE DEF TypeOK, Goto, Return, Old, Removed, Updating, ClearSteps, Reported
<1>1. Where(t) /\ Exact(t) /\ local[t] \in Locals
  BY DEF Alone
<1>2. CASE EvictCheck(t) \/ EvictPop(t) \/ EvictSub(t) \/ EvictFail(t)
  <2>1. Stored' = Stored /\ entries' = entries
    BY <1>2 DEF EvictCheck, EvictPop, EvictSub, EvictFail, Stored
  <2>2. \/ pc[t] = "evict_check" /\ pc'[t] = "set_insert" /\ Fits(size_bytes')
           /\ local' = local /\ call' = call
        \/ pc[t] = "evict_check" /\ ~ Fits(size_bytes) /\ pc'[t] = "evict_pop"
           /\ local' = local /\ call' = call
        \/ /\ pc[t] \in {"evict_pop", "evict_sub"} /\ call' = call
           /\ pc'[t] \in {"evict_remove", "evict_fail", "evict_stats"}
           /\ local'[t].old_size = local[t].old_size
        \/ pc'[t] = "idle" /\ local'[t].old_size = None
    BY <1>1, <1>2 DEF EvictCheck, EvictPop, EvictSub, EvictFail, NoLocal, Locals
  <2>3. QED BY <1>1, <2>1, <2>2 DEF Where
<1>3. CASE EvictRemove(t)
  <2>1. PICK k \in Keys : k = local[t].victim
    BY <1>3 DEF EvictRemove
  <2>2. Forget(k) /\ pc[t] = "evict_remove" /\ call' = call
    BY <1>3, <2>1 DEF EvictRemove
  <2>3. Stored' = Stored \ {k} /\ \A y \in Stored' : entries'[y] = entries[y]
    BY <2>2, ForgetKeeps
  <2>4. /\ pc'[t] \in {"evict_sub", "evict_check"}
        /\ local'[t].old_size = local[t].old_size
    BY <1>1, <1>3 DEF EvictRemove, Locals
  <2>5. QED BY <1>1, <2>2, <2>3, <2>4 DEF Where
<1>4. CASE EvictStats(t)
  <2>1. Stored' = Stored /\ entries' = entries /\ pc[t] = "evict_stats"
    BY <1>4 DEF EvictStats, Stored
  <2>2. stats.entries = Count + 1
    <3> HIDE DEF Count
    <3>1. stats.entries + 0 = Count + 1
      BY <1>1, <2>1 DEF Exact
    <3>2. QED BY <3>1
  <2>3. pc'[t] = "evict_check" /\ local' = local /\ call' = call
    BY <1>4, <2>2, AloneCount DEF EvictStats
  <2>4. QED BY <1>1, <2>1, <2>3 DEF Where
<1>5. QED BY <1>2, <1>3, <1>4 DEF EvictStep

LEMMA WhereOther ==
    ASSUME TypeOK, Ttls = {"forever"}, NEW t \in Threads, Alone(t),
           ReadStep(t) \/ DeleteStep(t)
    PROVE  Where(t)'
<1> USE DEF TypeOK, Goto, Return, Old, Removed, Updating, ClearSteps, Reported
<1>1. Where(t) /\ Exact(t) /\ local[t] \in Locals
  BY DEF Alone
<1>2. CASE ReadStep(t)
  <2>1. ~ GetExpire(t)
    BY <1>1 DEF Where, GetExpire
  <2>2. Stored' = Stored /\ entries' = entries
    BY <1>2, <2>1 DEF ReadStep, GetCheck, GetRead, GetAccess, GetHit, GetMiss, Exists, Stored
  <2>3. /\ pc'[t] \in {"get_read", "get_access", "get_miss", "get_hit", "idle"}
        /\ pc[t] \in {"get_check", "get_read", "get_access", "get_miss", "get_hit", "exists"}
        /\ local'[t].old_size = local[t].old_size \/ local'[t].old_size = None
    BY <1>1, <1>2, <2>1
       DEF ReadStep, GetCheck, GetRead, GetAccess, GetHit, GetMiss, Exists, Where, NoLocal,
           Locals
  <2>4. QED BY <1>1, <2>2, <2>3 DEF Where
<1>3. CASE DelRemove(t)
  <2>1. PICK k \in Keys : k = call[t].key
    BY <1>3, CallShape DEF DelRemove
  <2>2. Forget(k) /\ pc[t] = "del_remove"
    BY <1>3, <2>1 DEF DelRemove
  <2>3. Stored' = Stored \ {k} /\ \A y \in Stored' : entries'[y] = entries[y]
    BY <2>2, ForgetKeeps
  <2>4. /\ pc'[t] \in {"del_sub", "idle"}
        /\ local'[t].old_size = local[t].old_size \/ local'[t].old_size = None
    BY <1>1, <1>3 DEF DelRemove, NoLocal
  <2>5. QED BY <1>1, <2>2, <2>3, <2>4 DEF Where
<1>4. CASE DelSub(t)
  <2>1. Stored' = Stored /\ entries' = entries /\ pc[t] = "del_sub"
        /\ pc'[t] = "del_stats" /\ local' = local
    BY <1>4 DEF DelSub, Stored
  <2>2. QED BY <1>1, <2>1 DEF Where
<1>5. CASE DelStats(t)
  <2>1. Stored' = Stored /\ entries' = entries /\ pc[t] = "del_stats"
    BY <1>5 DEF DelStats, Stored
  <2>2. stats.entries = Count + 1
    <3> HIDE DEF Count
    <3>1. stats.entries + 0 = Count + 1
      BY <1>1, <2>1 DEF Exact, Where
    <3>2. QED BY <3>1
  <2>3. Return(t, "ok")
    BY <1>5, <2>2, AloneCount DEF DelStats
  <2>4. pc'[t] = "idle" /\ local'[t].old_size = None
    BY <2>3 DEF NoLocal
  <2>5. QED BY <1>1, <2>1, <2>4 DEF Where
<1>6. QED BY <1>2, <1>3, <1>4, <1>5 DEF DeleteStep

LEMMA WhereClear ==
    ASSUME TypeOK, NEW t \in Threads, Alone(t), ClearStep(t)
    PROVE  Where(t)'
<1> USE DEF TypeOK, Goto, Return, Old, Removed, Updating, ClearSteps, Reported
<1>1. Where(t) /\ local[t] \in Locals
  BY DEF Alone
<1>2. CASE ClearEntries(t)
  <2>1. PICK k \in local[t].todo :
           Forget(k) /\ local' = [local EXCEPT ![t].todo = @ \ {k}]
    BY <1>2 DEF ClearEntries
  <2>2. k \in Keys /\ local[t].todo \subseteq Keys
    BY <1>1, <2>1 DEF Locals
  <2>3. Stored' = Stored \ {k} /\ \A y \in Stored' : entries'[y] = entries[y]
    BY <2>1, <2>2, ForgetKeeps
  <2>4. local'[t].todo = local[t].todo \ {k} /\ local'[t].old_size = local[t].old_size
    BY <1>1, <2>1 DEF Locals
  <2>5. Stored' \subseteq local'[t].todo
    BY <1>1, <1>2, <2>3, <2>4 DEF Where, ClearEntries
  <2>6. pc[t] = "clear_entries" /\ pc'[t] \in {"clear_size", "clear_entries"}
        /\ (pc'[t] = "clear_size" => local'[t].todo = {})
    BY <1>2 DEF ClearEntries
  <2>7. QED BY <1>1, <2>3, <2>4, <2>5, <2>6 DEF Where
<1>3. CASE ClearSize(t) \/ ClearStats(t) \/ ClearPolicy(t)
  <2>1. /\ Stored' = Stored /\ entries' = entries
        /\ pc[t] \in {"clear_size", "clear_stats", "clear_policy"}
        /\ pc'[t] \in {"clear_stats", "clear_policy", "idle"}
        /\ local'[t].old_size = local[t].old_size \/ local'[t].old_size = None
    BY <1>3 DEF ClearSize, ClearStats, ClearPolicy, Stored, NoLocal
  <2>2. QED BY <1>1, <2>1 DEF Where
<1>4. QED BY <1>2, <1>3 DEF ClearStep

LEMMA WhereBegin ==
    ASSUME TypeOK, NEW t \in Threads, Alone(t), Begin(t)
    PROVE  Where(t)'
<1> USE DEF TypeOK, Old, Removed, Updating, ClearSteps, Reported
<1>1. Where(t) /\ local[t] \in Locals /\ pc[t] = "idle"
  BY DEF Alone, Begin
<1>2. PICK c \in Requests :
         /\ pc' = [pc EXCEPT ![t] = FirstStep[c.op]]
         /\ local' = [local EXCEPT ![t].todo = IF c.op = "clear" THEN Keys ELSE {}]
  BY DEF Begin
<1>3. /\ pc'[t] \in {"set_remove", "get_check", "exists", "del_remove", "clear_entries"}
      /\ local'[t].old_size = local[t].old_size
      /\ pc'[t] = "clear_entries" => local'[t].todo = Keys
  BY <1>1, <1>2 DEF Requests, FirstStep, Locals
<1>4. entries' = entries /\ Stored' = Stored /\ Stored \subseteq Keys
  BY DEF Begin, Stored
<1>5. QED BY <1>1, <1>3, <1>4 DEF Where

\* The steps between which a call has changed nothing that is not counted.
LEMMA ExactBetween ==
    ASSUME NEW t \in Threads, Exact(t),
           pc[t] \in Reported \cup {"evict_pop", "evict_remove", "evict_fail"}
    PROVE  /\ size_bytes = Bytes /\ stats.entries = Count /\ stats.size_bytes = size_bytes
           /\ Count <= calls
           /\ pc[t] \in {"evict_pop", "evict_remove", "evict_fail"} => Count < calls
PROOF BY DEF Exact, Reported, Removed

\* The entry removed next stays in the counters.
LEMMA ExactLess ==
    ASSUME Less, size_bytes = Bytes, stats.entries = Count, Count <= calls, calls \in Nat,
           UNCHANGED <<size_bytes, stats, calls>>
    PROVE  /\ size_bytes' = Bytes' + EntrySize /\ stats'.entries = Count' + 1
           /\ Count' <= calls' /\ Count' < calls'
<1>1. Count' \in Nat /\ Count = Count' + 1 /\ Bytes = Bytes' + EntrySize
  BY DEF Less, Numbers
<1>2. size_bytes' = Bytes' + EntrySize /\ stats'.entries = Count' + 1
  BY <1>1
<1>3. Count' + 1 <= calls' /\ calls' \in Nat
  BY <1>1
<1>4. Count' <= calls' /\ Count' < calls'
  <2> DEFINE c == Count'
  <2>1. c \in Nat /\ c + 1 <= calls'
    BY <1>1, <1>3
  <2> HIDE DEF c
  <2>2. c <= calls' /\ c < calls'
    BY <1>3, <2>1
  <2>3. QED BY <2>2 DEF c
<1>5. QED BY <1>2, <1>4

LEMMA ExactSet ==
    ASSUME TypeOK, TypeOK', ReservationBound, N = 1, NEW t \in Threads,
           Alone(t), SetStep(t)
    PROVE  Exact(t)'
<1> USE DEF TypeOK, Goto, Return, Removed, Updating, ClearSteps, Reported
<1>1. /\ Where(t) /\ Exact(t) /\ local[t] \in Locals /\ EntrySize \in Nat
      /\ size_bytes \in Nat /\ stats.entries \in Nat /\ stats.size_bytes \in Nat
      /\ calls \in Nat /\ calls <= MaxCalls
  BY MemoryCacheAssumption DEF Alone
<1>2. CASE SetRemove(t)
  <2>1. PICK k \in Keys : k = call[t].key
    BY <1>2, CallShape DEF SetRemove, SetSteps
  <2>2. Forget(k) /\ pc[t] = "set_remove" /\ UNCHANGED <<size_bytes, stats, calls>>
    BY <1>2, <2>1 DEF SetRemove
  <2>3. CASE k \in Stored
    <3>1. Less
      BY <2>2, <2>3, ForgetLess
    <3>2. pc'[t] = "set_sub" /\ Old(t)' = 1
      BY <1>1, <1>2, <2>1, <2>3, NoneIsNoEntry DEF SetRemove, Locals, Old
    <3>3. Old(t) = 0
      BY <1>1, <2>2 DEF Where
    <3> HIDE DEF TypeOK
    <3>4. /\ size_bytes' = Bytes' + EntrySize /\ stats'.entries = Count' + 1
          /\ Count' <= calls' /\ Count' < calls'
      BY <1>1, <2>2, <3>1, ExactBetween, ExactLess
    <3>5. QED BY <3>2, <3>4 DEF Exact
  <2>4. CASE k \notin Stored
    <3>1. Same
      BY <2>2, <2>4, ForgetLess
    <3>2. pc'[t] = "evict_check" /\ Old(t)' = Old(t)
      BY <1>1, <1>2, <2>1, <2>4 DEF SetRemove, Old
    <3>3. Old(t) = 0
      BY <1>1, <2>2 DEF Where
    <3> HIDE DEF TypeOK
    <3>4. /\ size_bytes' = Bytes' /\ stats'.entries = Count'
          /\ stats'.size_bytes = size_bytes' /\ Count' < calls' /\ Count' <= calls'
      BY <1>1, <2>2, <3>1 DEF Exact, Same, Numbers
    <3>5. stats'.entries = Count' + Old(t)'
      BY <3>1, <3>2, <3>3, <3>4 DEF Same, Numbers
    <3>6. QED BY <3>2, <3>4, <3>5 DEF Exact
  <2>5. QED BY <2>3, <2>4
<1>3. CASE SetSub(t)
  <2>1. /\ pc[t] = "set_sub" /\ pc'[t] = "evict_check" /\ Old(t)' = Old(t)
        /\ UNCHANGED <<stats, calls>> /\ SubtractEntry
    BY <1>3 DEF SetSub, Old
  <2>2. Same
    BY <1>3, EntriesKept DEF SetSub
  <2>3. size_bytes = Bytes + EntrySize /\ Old(t) = 1
    BY <1>1, <2>1 DEF Exact, Where
  <2>4. size_bytes' = Bytes
    BY <2>1, <2>3, AloneSub, AloneFits
  <2> HIDE DEF TypeOK
  <2>5. /\ size_bytes' = Bytes' /\ Count' < calls' /\ Count' <= calls'
        /\ stats'.entries = Count' + Old(t)' /\ Old(t)' # 0
    BY <1>1, <2>1, <2>2, <2>3, <2>4 DEF Exact, Same, Numbers
  <2>6. QED BY <2>1, <2>5 DEF Exact
<1>4. CASE SetInsert(t)
  <2>1. /\ pc[t] = "set_insert" /\ pc'[t] = "set_add" /\ Old(t)' = Old(t)
        /\ UNCHANGED <<stats, calls, size_bytes>>
    BY <1>4 DEF SetInsert, Old
  <2>2. More
    BY <1>1, <1>4, <2>1, InsertMore DEF Where
  <2> HIDE DEF TypeOK
  <2>3. /\ size_bytes' + EntrySize = Bytes' /\ Count' <= calls'
        /\ stats'.entries + 1 = Count' + Old(t)'
    <3>1. stats.entries = Count + Old(t) /\ size_bytes = Bytes /\ Count < calls
      BY <1>1, <2>1 DEF Exact
    <3>2. Old(t) \in {0, 1}
      BY DEF Old
    <3>3. QED BY <1>1, <2>1, <2>2, <3>1, <3>2 DEF More, Numbers
  <2>4. QED BY <2>1, <2>3 DEF Exact
<1>5. CASE SetAdd(t)
  <2>1. /\ pc[t] = "set_add" /\ pc'[t] = "set_stats" /\ Old(t)' = Old(t)
        /\ UNCHANGED <<stats, calls>> /\ size_bytes' = size_bytes + EntrySize
        /\ local'[t].final_size = size_bytes'
    BY <1>1, <1>5 DEF SetAdd, Old, Locals
  <2>2. Same
    BY <1>5, EntriesKept DEF SetAdd
  <2> HIDE DEF TypeOK
  <2>3. /\ size_bytes' = Bytes' /\ Count' <= calls'
        /\ stats'.entries + 1 = Count' + Old(t)'
    BY <1>1, <2>1, <2>2 DEF Exact, Same, Numbers
  <2>4. QED BY <2>1, <2>3 DEF Exact
<1>6. CASE SetStats(t)
  <2>1. /\ pc[t] = "set_stats" /\ pc'[t] = "set_policy" /\ Old(t)' = Old(t)
        /\ UNCHANGED <<size_bytes, calls>>
        /\ stats'.size_bytes = local[t].final_size
        /\ stats'.entries = IF Old(t) = 0 THEN (stats.entries + 1) % Width ELSE stats.entries
    BY <1>1, <1>6 DEF SetStats, Old
  <2>2. Same
    BY <1>6, EntriesKept DEF SetStats
  <2>3. stats.entries + 1 = Count + Old(t) /\ size_bytes = Bytes /\ Count <= calls
    BY <1>1, <2>1, <2>2 DEF Exact, Same, Numbers
  <2>4. Old(t) \in {0, 1}
    BY DEF Old
  <2>5. stats'.entries = Count
    <3>1. CASE Old(t) = 0
      <4>1. stats.entries + 1 \in 0 .. Width - 1
        BY <2>2, <2>3, <3>1, MemoryCacheAssumption DEF Same, Numbers
      <4>2. (stats.entries + 1) % Width = stats.entries + 1
        BY <4>1, ModSmall
      <4>3. QED BY <2>1, <2>2, <2>3, <3>1, <4>2 DEF Same, Numbers
    <3>2. CASE Old(t) = 1
      BY <2>1, <2>2, <2>3, <3>2 DEF Same, Numbers
    <3>3. QED BY <2>4, <3>1, <3>2
  <2> HIDE DEF TypeOK
  <2>6. /\ size_bytes' = Bytes' /\ Count' <= calls' /\ stats'.entries = Count'
        /\ stats'.size_bytes = size_bytes'
    BY <1>1, <2>1, <2>2, <2>3, <2>5 DEF Exact, Same, Numbers
  <2>7. QED BY <2>1, <2>6 DEF Exact
<1>7. CASE SetPolicy(t)
  <2>1. /\ pc[t] = "set_policy" /\ pc'[t] = "idle" /\ Old(t)' = 0
        /\ UNCHANGED <<stats, calls, size_bytes>>
    BY <1>7 DEF SetPolicy, Old, NoLocal
  <2>2. Same
    BY <1>7, EntriesKept DEF SetPolicy
  <2> HIDE DEF TypeOK
  <2>3. /\ size_bytes' = Bytes' /\ Count' <= calls' /\ stats'.entries = Count'
        /\ stats'.size_bytes = size_bytes'
    BY <1>1, <2>1, <2>2 DEF Exact, Same, Numbers
  <2>4. QED BY <2>1, <2>3 DEF Exact
<1>8. QED BY <1>2, <1>3, <1>4, <1>5, <1>6, <1>7 DEF SetStep

LEMMA ExactThen ==
    ASSUME NEW t \in Threads,
           pc'[t] \in Reported \cup {"evict_pop", "evict_remove", "evict_fail"},
           size_bytes' = Bytes', stats'.entries = Count', stats'.size_bytes = size_bytes',
           Count' <= calls',
           pc'[t] \in {"set_remove", "evict_pop", "evict_remove", "evict_fail"} =>
              Count' < calls'
    PROVE  Exact(t)'
PROOF BY DEF Exact, Reported, Removed

\* A step that changes neither entries nor counters.
LEMMA ExactOn ==
    ASSUME NEW t \in Threads, Exact(t),
           pc[t] \in Reported \cup {"evict_pop", "evict_remove", "evict_fail"},
           pc'[t] \in Reported \cup {"evict_pop", "evict_remove", "evict_fail"},
           entries' = entries, size_bytes' = size_bytes, stats'.entries = stats.entries,
           stats'.size_bytes = stats.size_bytes, calls' = calls,
           pc'[t] \in {"set_remove", "evict_pop", "evict_remove", "evict_fail"} =>
              pc[t] \in {"evict_pop", "evict_remove", "evict_fail"}
    PROVE  Exact(t)'
<1>1. Count' = Count /\ Bytes' = Bytes
  BY EntriesKept DEF Same
<1>2. QED BY <1>1, ExactBetween, ExactThen

LEMMA ExactEvict ==
    ASSUME TypeOK, TypeOK', ReservationBound, N = 1, NEW t \in Threads,
           Alone(t), EvictStep(t)
    PROVE  Exact(t)'
<1> USE DEF TypeOK, Goto, Return, Removed, Updating, ClearSteps, Reported
<1>1. /\ Where(t) /\ Exact(t) /\ local[t] \in Locals /\ EntrySize \in Nat
      /\ size_bytes \in Nat /\ stats.entries \in Nat /\ stats.size_bytes \in Nat
      /\ calls \in Nat /\ calls <= MaxCalls
  BY MemoryCacheAssumption DEF Alone
<1>2. CASE EvictCheck(t)
  <2>1. /\ pc[t] = "evict_check" /\ Old(t)' = Old(t)
        /\ UNCHANGED <<entries, size_bytes, stats, calls>>
        /\ \/ pc'[t] = "set_insert"
           \/ pc'[t] = "evict_pop" /\ ~ Fits(size_bytes)
    BY <1>2 DEF EvictCheck, Old
  <2>2. Same
    BY <2>1, EntriesKept
  <2> HIDE DEF TypeOK
  <2>3. /\ size_bytes' = Bytes' /\ Count' < calls' /\ Count' <= calls'
        /\ stats'.entries = Count' + Old(t)'
    BY <1>1, <2>1, <2>2 DEF Exact, Same, Numbers
  <2>4. CASE pc'[t] = "set_insert"
    BY <2>3, <2>4 DEF Exact
  <2>5. CASE pc'[t] = "evict_pop" /\ ~ Fits(size_bytes)
    <3>1. Old(t) = 0
      BY <1>1, <2>1, <2>5 DEF Where, Old
    <3>2. stats.size_bytes = size_bytes
      BY <1>1, <2>1, <3>1 DEF Exact
    <3>3. stats'.entries = Count'
      BY <2>1, <2>2, <2>3, <3>1 DEF Same, Numbers
    <3>4. QED BY <2>1, <2>3, <2>5, <3>2, <3>3, ExactThen
  <2>6. QED BY <2>1, <2>4, <2>5
<1>3. CASE EvictPop(t) \/ EvictFail(t)
  <2>1. /\ UNCHANGED <<entries, size_bytes, stats, calls>>
        /\ \/ pc[t] = "evict_pop" /\ pc'[t] \in {"evict_remove", "evict_fail"}
           \/ pc[t] = "evict_fail" /\ pc'[t] = "idle"
    BY <1>3 DEF EvictPop, EvictFail
  <2> HIDE DEF TypeOK
  <2>2. QED BY <1>1, <2>1, ExactOn
<1>4. CASE EvictRemove(t)
  <2>1. PICK k \in Keys : k = local[t].victim
    BY <1>4 DEF EvictRemove
  <2>2. /\ Forget(k) /\ pc[t] = "evict_remove" /\ UNCHANGED <<size_bytes, stats, calls>>
        /\ Old(t)' = Old(t)
        /\ pc'[t] = IF k \in Stored THEN "evict_sub" ELSE "evict_check"
    BY <1>1, <1>4, <2>1 DEF EvictRemove, Old, Locals
  <2>3. Old(t) = 0
    BY <1>1, <2>2 DEF Where
  <2>4. (k \in Stored => Less) /\ (k \notin Stored => Same)
    BY <2>2, ForgetLess
  <2>5. /\ size_bytes = Bytes /\ stats.entries = Count /\ stats.size_bytes = size_bytes
        /\ Count < calls
    BY <1>1, <2>2, ExactBetween
  <2> HIDE DEF TypeOK
  <2>6. CASE k \in Stored
    <3>1. Less /\ pc'[t] = "evict_sub" /\ UNCHANGED <<size_bytes, stats, calls>>
      BY <2>2, <2>4, <2>6
    <3>2. /\ size_bytes' = Bytes' + EntrySize /\ stats'.entries = Count' + 1
          /\ Count' <= calls' /\ Count' < calls'
      BY <1>1, <2>2, <2>5, <3>1, ExactBetween, ExactLess
    <3>3. QED BY <3>1, <3>2 DEF Exact
  <2>7. CASE k \notin Stored
    <3>1. Same /\ pc'[t] = "evict_check"
      BY <2>2, <2>4, <2>7
    <3>2. /\ size_bytes' = Bytes' /\ stats'.entries = Count' + Old(t)'
          /\ stats'.size_bytes = size_bytes' /\ Count' < calls' /\ Count' <= calls'
      BY <1>1, <2>2, <2>3, <2>5, <3>1 DEF Same, Numbers
    <3>3. QED BY <3>1, <3>2 DEF Exact
  <2>8. QED BY <2>6, <2>7
<1>5. CASE EvictSub(t)
  <2>1. /\ pc[t] = "evict_sub" /\ pc'[t] = "evict_stats"
        /\ UNCHANGED <<entries, stats, calls>> /\ SubtractEntry
    BY <1>5 DEF EvictSub
  <2>2. Same
    BY <2>1, EntriesKept
  <2>3. size_bytes = Bytes + EntrySize /\ stats.entries = Count + 1 /\ Count < calls
    BY <1>1, <2>1 DEF Exact
  <2>4. size_bytes' = Bytes
    BY <2>1, <2>3, AloneSub, AloneFits
  <2> HIDE DEF TypeOK
  <2>5. /\ size_bytes' = Bytes' /\ stats'.entries = Count' + 1
        /\ Count' < calls' /\ Count' <= calls'
    BY <1>1, <2>1, <2>2, <2>3, <2>4 DEF Same, Numbers
  <2>6. QED BY <2>1, <2>5 DEF Exact
<1>6. CASE EvictStats(t)
  <2>1. pc[t] = "evict_stats" /\ UNCHANGED <<entries, size_bytes, calls>>
    BY <1>6 DEF EvictStats
  <2>2. Same
    BY <2>1, EntriesKept
  <2>3. size_bytes = Bytes /\ stats.entries = Count + 1 /\ Count < calls
    BY <1>1, <2>1 DEF Exact
  <2>4. /\ pc'[t] = "evict_check" /\ local' = local
        /\ stats' = [[stats EXCEPT !.evictions = @ + 1]
                        EXCEPT !.entries = (@ - 1) % Width, !.size_bytes = size_bytes]
    BY <1>6, <2>3, AloneCount DEF EvictStats
  <2>5. stats'.entries = (stats.entries - 1) % Width /\ stats'.size_bytes = size_bytes
    BY <2>4
  <2>6. (stats.entries - 1) % Width = Count
    <3>1. Count \in 0 .. Width - 1 /\ stats.entries - 1 = Count
      BY <1>1, <2>2, <2>3, MemoryCacheAssumption DEF Same, Numbers
    <3>2. QED BY <3>1, ModSmall
  <2>7. Old(t)' = Old(t) /\ Old(t) = 0
    BY <1>1, <2>1, <2>4 DEF Where, Old
  <2> HIDE DEF TypeOK
  <2>8. /\ size_bytes' = Bytes' /\ stats'.entries = Count' + Old(t)'
        /\ stats'.size_bytes = size_bytes' /\ Count' < calls' /\ Count' <= calls'
    BY <1>1, <2>1, <2>2, <2>3, <2>5, <2>6, <2>7 DEF Same, Numbers
  <2>9. QED BY <2>4, <2>8 DEF Exact
<1>7. QED BY <1>2, <1>3, <1>4, <1>5, <1>6 DEF EvictStep

LEMMA ExactRead ==
    ASSUME TypeOK, TypeOK', NEW t \in Threads, Alone(t), ReadStep(t)
    PROVE  Exact(t)'
<1> USE DEF TypeOK, Goto, Return, Reported
<1>1. Where(t) /\ Exact(t)
  BY DEF Alone
<1>2. ~ GetExpire(t)
  BY <1>1 DEF Where, GetExpire
<1>3. /\ UNCHANGED <<entries, size_bytes, calls>>
      /\ stats'.entries = stats.entries /\ stats'.size_bytes = stats.size_bytes
      /\ pc[t] \in Reported
      /\ pc'[t] \in Reported \ {"set_remove"}
  BY <1>1, <1>2
     DEF ReadStep, GetCheck, GetRead, GetAccess, GetHit, GetMiss, Exists, Where
<1> HIDE DEF TypeOK
<1>4. QED BY <1>1, <1>3, ExactOn

LEMMA ExactDelete ==
    ASSUME TypeOK, TypeOK', ReservationBound, N = 1, NEW t \in Threads,
           Alone(t), DeleteStep(t)
    PROVE  Exact(t)'
<1> USE DEF TypeOK, Goto, Return, Removed, Updating, ClearSteps, Reported
<1>1. /\ Where(t) /\ Exact(t) /\ local[t] \in Locals /\ EntrySize \in Nat
      /\ size_bytes \in Nat /\ stats.entries \in Nat /\ stats.size_bytes \in Nat
      /\ calls \in Nat /\ calls <= MaxCalls
  BY MemoryCacheAssumption DEF Alone
<1>2. CASE DelRemove(t)
  <2>1. PICK k \in Keys : k = call[t].key
    BY <1>2, CallShape DEF DelRemove
  <2>2. /\ Forget(k) /\ pc[t] = "del_remove" /\ UNCHANGED <<size_bytes, stats, calls>>
        /\ pc'[t] = IF k \in Stored THEN "del_sub" ELSE "idle"
    BY <1>2, <2>1 DEF DelRemove
  <2>3. (k \in Stored => Less) /\ (k \notin Stored => Same)
    BY <2>2, ForgetLess
  <2>4. /\ size_bytes = Bytes /\ stats.entries = Count /\ stats.size_bytes = size_bytes
        /\ Count <= calls
    BY <1>1, <2>2, ExactBetween
  <2> HIDE DEF TypeOK
  <2>5. CASE k \in Stored
    <3>1. Less /\ pc'[t] = "del_sub"
      BY <2>2, <2>3, <2>5
    <3>2. /\ size_bytes' = Bytes' + EntrySize /\ stats'.entries = Count' + 1
          /\ Count' <= calls'
      BY <1>1, <2>2, <2>4, <3>1, ExactLess
    <3>3. QED BY <3>1, <3>2 DEF Exact
  <2>6. CASE k \notin Stored
    <3>1. Same /\ pc'[t] = "idle"
      BY <2>2, <2>3, <2>6
    <3>2. /\ size_bytes' = Bytes' /\ stats'.entries = Count'
          /\ stats'.size_bytes = size_bytes' /\ Count' <= calls'
      BY <1>1, <2>2, <2>4, <3>1 DEF Same, Numbers
    <3>3. QED BY <3>1, <3>2, ExactThen
  <2>7. QED BY <2>5, <2>6
<1>3. CASE DelSub(t)
  <2>1. /\ pc[t] = "del_sub" /\ pc'[t] = "del_stats"
        /\ UNCHANGED <<entries, stats, calls>> /\ SubtractEntry
    BY <1>3 DEF DelSub
  <2>2. Same
    BY <2>1, EntriesKept
  <2>3. size_bytes = Bytes + EntrySize /\ stats.entries = Count + 1 /\ Count <= calls
    BY <1>1, <2>1 DEF Exact
  <2>4. size_bytes' = Bytes
    BY <2>1, <2>3, AloneSub, AloneFits
  <2> HIDE DEF TypeOK
  <2>5. size_bytes' = Bytes' /\ stats'.entries = Count' + 1 /\ Count' <= calls'
    BY <1>1, <2>1, <2>2, <2>3, <2>4 DEF Same, Numbers
  <2>6. QED BY <2>1, <2>5 DEF Exact
<1>4. CASE DelStats(t)
  <2>1. pc[t] = "del_stats" /\ UNCHANGED <<entries, size_bytes, calls>>
    BY <1>4 DEF DelStats
  <2>2. Same
    BY <2>1, EntriesKept
  <2>3. size_bytes = Bytes /\ stats.entries = Count + 1 /\ Count <= calls
    BY <1>1, <2>1 DEF Exact
  <2>4. /\ Return(t, "ok")
        /\ stats' = [stats EXCEPT !.entries = (@ - 1) % Width, !.size_bytes = size_bytes]
    BY <1>4, <2>3, AloneCount DEF DelStats
  <2>5. /\ stats'.entries = (stats.entries - 1) % Width /\ stats'.size_bytes = size_bytes
        /\ pc'[t] = "idle"
    BY <2>4
  <2>6. (stats.entries - 1) % Width = Count
    <3>1. Count \in 0 .. Width - 1 /\ stats.entries - 1 = Count
      BY <1>1, <2>2, <2>3, MemoryCacheAssumption DEF Same, Numbers
    <3>2. QED BY <3>1, ModSmall
  <2> HIDE DEF TypeOK
  <2>7. /\ size_bytes' = Bytes' /\ stats'.entries = Count'
        /\ stats'.size_bytes = size_bytes' /\ Count' <= calls'
    BY <1>1, <2>1, <2>2, <2>3, <2>5, <2>6 DEF Same, Numbers
  <2>8. QED BY <2>5, <2>7, ExactThen
<1>5. QED BY <1>2, <1>3, <1>4 DEF DeleteStep

LEMMA ExactClear ==
    ASSUME TypeOK, TypeOK', NEW t \in Threads, Alone(t), Where(t)', ClearStep(t)
    PROVE  Exact(t)'
<1> USE DEF TypeOK, Goto, Return, Removed, Updating, ClearSteps, Reported
<1>1. /\ Where(t) /\ Exact(t) /\ local[t] \in Locals /\ EntrySize \in Nat
      /\ size_bytes \in Nat /\ calls \in Nat
  BY MemoryCacheAssumption DEF Alone
<1>2. Count <= calls
  BY <1>1 DEF Exact
<1>3. CASE ClearEntries(t)
  <2>1. PICK k \in local[t].todo : Forget(k)
    BY <1>3 DEF ClearEntries
  <2>2. k \in Keys
    BY <1>1, <2>1 DEF Locals
  <2>3. (k \in Stored => Less) /\ (k \notin Stored => Same)
    BY <2>1, <2>2, ForgetLess
  <2>4. pc'[t] \in {"clear_entries", "clear_size"} /\ calls' = calls
    BY <1>3 DEF ClearEntries
  <2> HIDE DEF TypeOK
  <2>5. Count' <= calls'
    BY <1>1, <1>2, <2>3, <2>4 DEF Same, Less, Numbers
  <2>6. QED BY <2>4, <2>5 DEF Exact
<1>4. CASE ClearSize(t) \/ ClearStats(t) \/ ClearPolicy(t)
  <2>1. entries' = entries /\ calls' = calls
    BY <1>4 DEF ClearSize, ClearStats, ClearPolicy
  <2>2. Stored = {} /\ Count = 0 /\ Bytes = 0
    <3>1. Stored = {}
      BY <1>1, <1>4 DEF Where, ClearSize, ClearStats, ClearPolicy
    <3>2. QED BY <3>1, FS_EmptySet, MemoryCacheAssumption DEF Count, Bytes
  <2>3. Count' = 0 /\ Bytes' = 0
    BY <2>1, <2>2 DEF Count, Bytes, Stored
  <2>4. Count' <= calls'
    BY <1>1, <2>1, <2>3
  <2>5. CASE ClearSize(t)
    <3>1. size_bytes' = 0 /\ pc'[t] = "clear_stats"
      BY <2>5 DEF ClearSize
    <3> HIDE DEF TypeOK
    <3>2. QED BY <2>3, <2>4, <3>1 DEF Exact
  <2>6. CASE ClearStats(t)
    <3>1. /\ size_bytes' = size_bytes /\ pc[t] = "clear_stats" /\ pc'[t] = "clear_policy"
          /\ stats'.entries = 0 /\ stats'.size_bytes = 0
      BY <2>6 DEF ClearStats
    <3>2. size_bytes = 0
      BY <1>1, <2>2, <3>1 DEF Exact
    <3> HIDE DEF TypeOK
    <3>3. QED BY <2>3, <2>4, <3>1, <3>2, ExactThen
  <2>7. CASE ClearPolicy(t)
    <3>1. /\ UNCHANGED <<size_bytes, stats>> /\ pc[t] = "clear_policy" /\ pc'[t] = "idle"
      BY <2>7 DEF ClearPolicy
    <3> HIDE DEF TypeOK
    <3>2. QED BY <1>1, <2>1, <3>1, ExactOn
  <2>8. QED BY <1>4, <2>5, <2>6, <2>7
<1>5. QED BY <1>3, <1>4 DEF ClearStep

LEMMA ExactBegin ==
    ASSUME TypeOK, TypeOK', NEW t \in Threads, Alone(t), Begin(t)
    PROVE  Exact(t)'
<1> USE DEF TypeOK, Removed, Updating, ClearSteps, Reported
<1>1. Exact(t) /\ pc[t] = "idle" /\ calls \in Nat /\ calls' = calls + 1
  BY DEF Alone, Begin
<1>2. PICK c \in Requests : pc' = [pc EXCEPT ![t] = FirstStep[c.op]]
  BY DEF Begin
<1>3. pc'[t] \in {"set_remove", "get_check", "exists", "del_remove", "clear_entries"}
  BY <1>2 DEF Requests, FirstStep
<1>4. UNCHANGED <<entries, size_bytes, stats>>
  BY DEF Begin
<1>5. Same
  BY <1>4, EntriesKept
<1>6. /\ size_bytes = Bytes /\ stats.entries = Count /\ stats.size_bytes = size_bytes
      /\ Count <= calls
  BY <1>1, ExactBetween
<1> HIDE DEF TypeOK
<1>7. /\ size_bytes' = Bytes' /\ stats'.entries = Count' /\ stats'.size_bytes = size_bytes'
      /\ Count' <= calls' /\ Count' < calls'
  BY <1>1, <1>4, <1>5, <1>6, MemoryCacheAssumption DEF Same, Numbers
<1>8. CASE pc'[t] = "clear_entries"
  BY <1>7, <1>8 DEF Exact
<1>9. CASE pc'[t] # "clear_entries"
  BY <1>3, <1>7, <1>9, ExactThen
<1>10. QED BY <1>8, <1>9

LEMMA AloneNext ==
    ASSUME N = 1, Ttls = {"forever"}, NEW t \in Threads, Threads = {t}
    PROVE  TypeOK /\ TypeOK' /\ ReservationBound /\ Alone(t) /\ [Next]_vars => Alone(t)'
<1> SUFFICES ASSUME TypeOK, TypeOK', ReservationBound, Alone(t), [Next]_vars
             PROVE  Alone(t)'
  OBVIOUS
<1>1. CASE Step(t)
  <2>1. Where(t)'
    BY <1>1, WhereSet, WhereEvict, WhereOther, WhereClear DEF Step
  <2>2. Exact(t)'
    BY <1>1, <2>1, ExactSet, ExactEvict, ExactRead, ExactDelete, ExactClear DEF Step
  <2>3. QED BY <2>1, <2>2 DEF Alone
<1>2. CASE Begin(t)
  BY <1>2, WhereBegin, ExactBegin DEF Alone
<1>3. ASSUME NEW k \in Keys, Expire(k) PROVE FALSE
  BY <1>3 DEF Expire, Alone, Where
<1>4. CASE UNCHANGED vars
  BY <1>4 DEF vars, Alone, Where, Exact, Old, Stored, Count, Bytes
<1>5. QED BY <1>1, <1>2, <1>3, <1>4 DEF Next, Finished

\* One thread and no TTL: after each call size_bytes and both counts of stats
\* say exactly what is stored.  At every step the counters are as far from
\* the entries as the call has gone: Exact.
THEOREM ExactWhenSettled ==
    ASSUME N = 1, Ttls = {"forever"}
    PROVE  Spec => []SettledExact
<1>1. PICK t : Threads = {t}
  BY MemoryCacheAssumption, FS_Singleton DEF N
<1>2. t \in Threads
  BY <1>1
<1> DEFINE Inv == TypeOK /\ ReservationBound /\ Alone(t)
<1>3. Init => Inv
  BY <1>2, TypeInit, ReservationInit, AloneInit
<1>4. Inv /\ [Next]_vars => Inv'
  BY <1>1, <1>2, TypeNext, ReservationNext, AloneNext
<1>5. Inv => SettledExact
  <2> SUFFICES ASSUME Inv, Quiescent
               PROVE  /\ size_bytes = Bytes /\ stats.size_bytes = size_bytes
                      /\ stats.entries = Count
    BY DEF SettledExact, Bytes, Count
  <2>1. pc[t] \in {"idle", "panicked"}
    BY <1>2 DEF Quiescent, Doing, TypeOK
  <2>2. pc[t] = "idle" /\ Exact(t)
    BY <2>1 DEF Alone, Where
  <2>3. QED BY <1>2, <2>2, ExactBetween DEF Reported
<1> HIDE DEF Inv
<1>6. QED BY <1>3, <1>4, <1>5, PTL DEF Spec

-----------------------------------------------------------------------------
(* RefusedOnlyIfTooLarge *)

\* What LRU keeps of the promise of KeepsKeys: of the stored keys it knows at
\* least the one used last, and an eviction takes no other key away.
KeepsLastUsed(States) ==
    /\ PolicyNew \in States
    /\ \A p \in States, k \in Keys :
          /\ PolicyOnAccess(p, k) \in States /\ k \in PolicyTracked(PolicyOnAccess(p, k))
          /\ PolicyOnInsert(p, k) \in States /\ k \in PolicyTracked(PolicyOnInsert(p, k))
    /\ \A p \in States :
          /\ PolicyReset(p) \in States
          /\ \A outcome \in PolicyEvict(p) :
                /\ outcome.rest \in States
                /\ PolicyTracked(p) \ {outcome.key} \subseteq PolicyTracked(outcome.rest)
                /\ outcome.key = None => PolicyTracked(p) = {}

\* A stored key the policy can give to evict_for_space.
SomeKnown == \E k \in Stored : k \in PolicyTracked(policy)

\* The steps at which a full tier has a stored key the policy knows.
Knowing == {"idle", "set_remove", "evict_check", "evict_pop", "evict_stats", "get_check",
            "get_read", "get_hit", "get_miss", "exists", "del_remove", "del_stats"}

Evictable(t) ==
    /\ pc[t] # "evict_fail"
    /\ pc[t] = "evict_pop" => ~ Fits(size_bytes)
    /\ pc[t] \in {"set_add", "set_stats", "set_policy", "get_access"} =>
          call[t].key \in Stored
    /\ pc[t] \in Knowing => Fits(size_bytes) \/ SomeKnown
    /\ pc[t] = "evict_remove" =>
          Fits(size_bytes) \/ SomeKnown \/ local[t].victim \in Stored

LEMMA EvictableInitially ==
    ASSUME EntrySize <= Capacity, NEW t \in Threads
    PROVE  Init => Evictable(t)
PROOF BY MemoryCacheAssumption DEF Init, Evictable, Knowing, Fits

\* A step that leaves entries, policy and size as they are.
LEMMA EvictableOn ==
    ASSUME NEW t \in Threads, Evictable(t),
           UNCHANGED <<entries, policy, size_bytes>>,
           pc[t] \in Knowing, pc'[t] \in Knowing \ {"evict_pop"}
    PROVE  Evictable(t)'
PROOF BY DEF Evictable, Knowing, SomeKnown, Stored

LEMMA LastUsedSet ==
    ASSUME NEW States, KeepsLastUsed(States), policy \in States,
           TypeOK, ReservationBound, N = 1, NEW t \in Threads,
           Alone(t), Evictable(t), SetStep(t)
    PROVE  Evictable(t)' /\ policy' \in States
<1> USE DEF TypeOK, Goto, Return
<1>1. Where(t) /\ Exact(t)
  BY DEF Alone
<1>2. CASE SetRemove(t)
  <2>1. PICK k \in Keys : k = call[t].key
    BY <1>2, CallShape DEF SetRemove, SetSteps
  <2>2. /\ Forget(k) /\ UNCHANGED <<policy, size_bytes>> /\ pc[t] = "set_remove"
        /\ pc'[t] = IF k \in Stored THEN "set_sub" ELSE "evict_check"
    BY <1>2, <2>1 DEF SetRemove
  <2>3. CASE k \in Stored
    BY <2>2, <2>3 DEF Evictable, Knowing
  <2>4. CASE k \notin Stored
    <3>1. Stored' = Stored
      BY <2>2, <2>4, ForgetKeeps
    <3>2. QED BY <2>2, <2>4, <3>1 DEF Evictable, Knowing, SomeKnown
  <2>5. QED BY <2>3, <2>4
<1>3. CASE SetSub(t)
  <2>1. /\ pc[t] = "set_sub" /\ pc'[t] = "evict_check" /\ policy' = policy
        /\ SubtractEntry
    BY <1>3 DEF SetSub
  <2>2. size_bytes = Bytes + EntrySize
    BY <1>1, <2>1 DEF Exact
  <2>3. Fits(size_bytes')
    BY <2>1, <2>2, AloneSub, AloneFits
  <2>4. QED BY <2>1, <2>3 DEF Evictable, Knowing
<1>4. CASE SetInsert(t)
  <2>1. /\ pc[t] = "set_insert" /\ pc'[t] = "set_add"
        /\ UNCHANGED <<policy, call>>
    BY <1>4 DEF SetInsert
  <2>2. call[t].key \in Stored'
    BY <1>1, <1>4, <2>1, InsertMore DEF Where, Removed
  <2>3. QED BY <2>1, <2>2 DEF Evictable, Knowing
<1>5. CASE SetAdd(t) \/ SetStats(t)
  <2>1. /\ pc[t] \in {"set_add", "set_stats"} /\ pc'[t] \in {"set_stats", "set_policy"}
        /\ UNCHANGED <<policy, call, entries>>
    BY <1>5 DEF SetAdd, SetStats
  <2>2. QED BY <2>1 DEF Evictable, Knowing, Stored
<1>6. CASE SetPolicy(t)
  <2>1. PICK k \in Keys : k = call[t].key
    BY <1>6, CallShape DEF SetPolicy, SetSteps
  <2>2. /\ pc[t] = "set_policy" /\ pc'[t] = "idle" /\ entries' = entries
        /\ policy' = PolicyOnInsert(policy, k)
    BY <1>6, <2>1 DEF SetPolicy
  <2>3. policy' \in States /\ k \in PolicyTracked(policy')
    BY <2>2 DEF KeepsLastUsed
  <2>4. k \in Stored'
    BY <2>1, <2>2 DEF Evictable, Stored
  <2>5. QED BY <2>2, <2>3, <2>4 DEF Evictable, Knowing, SomeKnown
<1>7. QED BY <1>2, <1>3, <1>4, <1>5, <1>6 DEF SetStep

LEMMA LastUsedEvict ==
    ASSUME NEW States, KeepsLastUsed(States), policy \in States, EntrySize <= Capacity,
           TypeOK, ReservationBound, N = 1, NEW t \in Threads,
           Alone(t), Evictable(t), EvictStep(t)
    PROVE  Evictable(t)' /\ policy' \in States
<1> USE DEF TypeOK, Goto, Return
<1>1. Where(t) /\ Exact(t) /\ local[t] \in Locals
  BY DEF Alone
<1>2. CASE EvictCheck(t)
  <2>1. /\ pc[t] = "evict_check" /\ UNCHANGED <<entries, policy, size_bytes>>
        /\ \/ pc'[t] = "set_insert"
           \/ pc'[t] = "evict_pop" /\ ~ Fits(size_bytes)
    BY <1>2 DEF EvictCheck
  <2>2. QED BY <2>1 DEF Evictable, Knowing, SomeKnown, Stored
<1>3. CASE EvictPop(t)
  <2>1. PICK outcome \in PolicyEvict(policy) :
           /\ policy' = outcome.rest
           /\ \/ /\ outcome.key \in Keys
                 /\ local' = [local EXCEPT ![t].victim = outcome.key]
                 /\ pc' = [pc EXCEPT ![t] = "evict_remove"]
              \/ outcome.key = None
    BY <1>3 DEF EvictPop
  <2>2. UNCHANGED <<entries, size_bytes>> /\ pc[t] = "evict_pop"
    BY <1>3 DEF EvictPop
  <2>3. PICK k \in Stored : k \in PolicyTracked(policy)
    BY <2>2 DEF Evictable, Knowing, SomeKnown
  <2>4. /\ policy' \in States /\ outcome.key # None
        /\ PolicyTracked(policy) \ {outcome.key} \subseteq PolicyTracked(policy')
    BY <2>1, <2>3 DEF KeepsLastUsed
  <2>5. pc'[t] = "evict_remove" /\ local'[t].victim = outcome.key
    BY <1>1, <2>1, <2>4 DEF Locals
  <2>6. k \in Stored' /\ (k = local'[t].victim \/ k \in PolicyTracked(policy'))
    BY <2>2, <2>3, <2>4, <2>5 DEF Stored
  <2>7. QED BY <2>4, <2>5, <2>6 DEF Evictable, Knowing, SomeKnown
<1>4. CASE EvictRemove(t)
  <2>1. PICK k \in Keys : k = local[t].victim
    BY <1>4 DEF EvictRemove
  <2>2. /\ Forget(k) /\ UNCHANGED <<policy, size_bytes>> /\ pc[t] = "evict_remove"
        /\ pc'[t] = IF k \in Stored THEN "evict_sub" ELSE "evict_check"
    BY <1>4, <2>1 DEF EvictRemove
  <2>3. CASE k \in Stored
    BY <2>2, <2>3 DEF Evictable, Knowing
  <2>4. CASE k \notin Stored
    <3>1. Stored' = Stored
      BY <2>2, <2>4, ForgetKeeps
    <3>2. QED BY <2>1, <2>2, <2>4, <3>1 DEF Evictable, Knowing, SomeKnown
  <2>5. QED BY <2>3, <2>4
<1>5. CASE EvictSub(t)
  <2>1. /\ pc[t] = "evict_sub" /\ pc'[t] = "evict_stats" /\ policy' = policy
        /\ SubtractEntry
    BY <1>5 DEF EvictSub
  <2>2. size_bytes = Bytes + EntrySize
    BY <1>1, <2>1 DEF Exact
  <2>3. Fits(size_bytes')
    BY <2>1, <2>2, AloneSub, AloneFits
  <2>4. QED BY <2>1, <2>3 DEF Evictable, Knowing
<1>6. CASE EvictStats(t)
  <2>1. pc[t] = "evict_stats" /\ UNCHANGED <<entries, policy, size_bytes>>
    BY <1>6 DEF EvictStats
  <2>2. pc'[t] = "evict_check"
    BY <1>1, <1>6, <2>1, AloneCount DEF EvictStats, Exact
  <2>3. QED BY <2>1, <2>2, EvictableOn DEF Knowing
<1>7. CASE EvictFail(t)
  BY <1>7 DEF EvictFail, Evictable
<1>8. QED BY <1>2, <1>3, <1>4, <1>5, <1>6, <1>7 DEF EvictStep

LEMMA LastUsedRead ==
    ASSUME NEW States, KeepsLastUsed(States), policy \in States,
           TypeOK, NEW t \in Threads, Alone(t), Evictable(t), ReadStep(t)
    PROVE  Evictable(t)' /\ policy' \in States
<1> USE DEF TypeOK, Goto, Return
<1>1. Where(t)
  BY DEF Alone
<1>2. CASE GetExpire(t)
  BY <1>1, <1>2 DEF Where, GetExpire
<1>3. CASE GetRead(t)
  <2>1. /\ UNCHANGED <<entries, policy, size_bytes, call>> /\ pc[t] = "get_read"
        /\ pc'[t] \in {"get_access", "get_miss"}
        /\ pc'[t] = "get_access" => call[t].key \in Stored
    BY <1>3 DEF GetRead
  <2>2. QED BY <2>1 DEF Evictable, Knowing, SomeKnown, Stored
<1>4. CASE GetAccess(t)
  <2>1. PICK k \in Keys : k = call[t].key
    BY <1>4, CallShape DEF GetAccess
  <2>2. /\ pc[t] = "get_access" /\ pc'[t] = "get_hit" /\ entries' = entries
        /\ policy' = PolicyOnAccess(policy, k)
    BY <1>4, <2>1 DEF GetAccess
  <2>3. policy' \in States /\ k \in PolicyTracked(policy')
    BY <2>2 DEF KeepsLastUsed
  <2>4. k \in Stored'
    BY <2>1, <2>2 DEF Evictable, Stored
  <2>5. QED BY <2>2, <2>3, <2>4 DEF Evictable, Knowing, SomeKnown
<1>5. CASE GetCheck(t) \/ GetHit(t) \/ GetMiss(t) \/ Exists(t)
  <2>1. /\ UNCHANGED <<entries, policy, size_bytes>> /\ pc[t] \in Knowing
        /\ pc'[t] \in (Knowing \ {"evict_pop"}) \cup {"get_expire"}
    BY <1>5 DEF GetCheck, GetHit, GetMiss, Exists, Knowing
  <2>2. pc'[t] # "get_expire"
    BY <1>1, <1>5 DEF GetCheck, GetHit, GetMiss, Exists, Where
  <2>3. QED BY <2>1, <2>2, EvictableOn
<1>6. QED BY <1>2, <1>3, <1>4, <1>5 DEF ReadStep

LEMMA LastUsedDelete ==
    ASSUME NEW States, policy \in States, TypeOK, ReservationBound, N = 1, NEW t \in Threads,
           Alone(t), Evictable(t), DeleteStep(t)
    PROVE  Evictable(t)' /\ policy' \in States
<1> USE DEF TypeOK, Goto, Return
<1>1. Where(t) /\ Exact(t)
  BY DEF Alone
<1>2. CASE DelRemove(t)
  <2>1. PICK k \in Keys : k = call[t].key
    BY <1>2, CallShape DEF DelRemove
  <2>2. /\ Forget(k) /\ UNCHANGED <<policy, size_bytes>> /\ pc[t] = "del_remove"
        /\ pc'[t] = IF k \in Stored THEN "del_sub" ELSE "idle"
    BY <1>2, <2>1 DEF DelRemove
  <2>3. CASE k \in Stored
    BY <2>2, <2>3 DEF Evictable, Knowing
  <2>4. CASE k \notin Stored
    <3>1. Stored' = Stored
      BY <2>2, <2>4, ForgetKeeps
    <3>2. QED BY <2>2, <2>4, <3>1 DEF Evictable, Knowing, SomeKnown
  <2>5. QED BY <2>3, <2>4
<1>3. CASE DelSub(t)
  <2>1. /\ pc[t] = "del_sub" /\ pc'[t] = "del_stats" /\ policy' = policy
        /\ SubtractEntry
    BY <1>3 DEF DelSub
  <2>2. size_bytes = Bytes + EntrySize
    BY <1>1, <2>1 DEF Exact
  <2>3. Fits(size_bytes')
    BY <2>1, <2>2, AloneSub, AloneFits
  <2>4. QED BY <2>1, <2>3 DEF Evictable, Knowing
<1>4. CASE DelStats(t)
  <2>1. pc[t] = "del_stats" /\ UNCHANGED <<entries, policy, size_bytes>>
    BY <1>4 DEF DelStats
  <2>2. Return(t, "ok")
    BY <1>1, <1>4, <2>1, AloneCount DEF DelStats, Exact
  <2>3. pc'[t] = "idle"
    BY <2>2
  <2>4. QED BY <2>1, <2>3, EvictableOn DEF Knowing
<1>5. QED BY <1>2, <1>3, <1>4 DEF DeleteStep

LEMMA LastUsedClear ==
    ASSUME NEW States, KeepsLastUsed(States), policy \in States, EntrySize <= Capacity,
           TypeOK, NEW t \in Threads, Alone(t), Evictable(t), ClearStep(t)
    PROVE  Evictable(t)' /\ policy' \in States
<1> USE DEF TypeOK, Goto, Return
<1>1. Where(t) /\ Exact(t)
  BY DEF Alone
<1>2. CASE ClearEntries(t) \/ ClearSize(t) \/ ClearStats(t)
  <2>1. policy' = policy /\ pc'[t] \in ClearSteps
    BY <1>2 DEF ClearEntries, ClearSize, ClearStats, ClearSteps
  <2>2. QED BY <2>1 DEF Evictable, Knowing, ClearSteps
<1>3. CASE ClearPolicy(t)
  <2>1. /\ pc[t] = "clear_policy" /\ pc'[t] = "idle" /\ size_bytes' = size_bytes
        /\ policy' = PolicyReset(policy)
    BY <1>3 DEF ClearPolicy
  <2>2. Stored = {} /\ size_bytes = Bytes
    BY <1>1, <2>1 DEF Where, Exact, ClearSteps
  <2>3. Bytes = 0
    BY <2>2, FS_EmptySet, MemoryCacheAssumption DEF Bytes, Count
  <2>4. Fits(size_bytes')
    BY <2>1, <2>2, <2>3, MemoryCacheAssumption DEF Fits
  <2>5. policy' \in States
    BY <2>1 DEF KeepsLastUsed
  <2>6. QED BY <2>1, <2>4, <2>5 DEF Evictable, Knowing
<1>4. QED BY <1>2, <1>3 DEF ClearStep

LEMMA LastUsedNext ==
    ASSUME NEW States, KeepsLastUsed(States), EntrySize <= Capacity,
           N = 1, Ttls = {"forever"}, NEW t \in Threads, Threads = {t}
    PROVE  /\ TypeOK /\ ReservationBound /\ Alone(t) /\ policy \in States /\ Evictable(t)
           /\ [Next]_vars
           => Evictable(t)' /\ policy' \in States
<1> SUFFICES ASSUME TypeOK, ReservationBound, Alone(t), policy \in States, Evictable(t),
                    [Next]_vars
             PROVE  Evictable(t)' /\ policy' \in States
  OBVIOUS
<1>1. CASE Step(t)
  BY <1>1, LastUsedSet, LastUsedEvict, LastUsedRead, LastUsedDelete, LastUsedClear DEF Step
<1>2. CASE Begin(t)
  <2>1. /\ UNCHANGED <<entries, policy, size_bytes>> /\ pc[t] = "idle"
    BY <1>2 DEF Begin
  <2>2. PICK c \in Requests : pc' = [pc EXCEPT ![t] = FirstStep[c.op]]
    BY <1>2 DEF Begin
  <2>3. pc'[t] \in {"set_remove", "get_check", "exists", "del_remove", "clear_entries"}
    BY <2>2 DEF Requests, FirstStep, TypeOK
  <2>4. CASE pc'[t] = "clear_entries"
    BY <2>1, <2>4 DEF Evictable, Knowing
  <2>5. CASE pc'[t] # "clear_entries"
    BY <2>1, <2>3, <2>5, EvictableOn DEF Knowing
  <2>6. QED BY <2>4, <2>5
<1>3. ASSUME NEW k \in Keys, Expire(k) PROVE FALSE
  BY <1>3 DEF Expire, Alone, Where
<1>4. CASE UNCHANGED vars
  BY <1>4 DEF vars, Evictable, SomeKnown, Stored
<1>5. QED BY <1>1, <1>2, <1>3, <1>4 DEF Next, Finished

\* One thread and no TTL: a set is refused only when its entry is larger than
\* the whole cache, with any policy that knows the key used last, as LRU does:
\* a full tier always has a stored key to give up.
THEOREM RefusedTooLarge ==
    ASSUME N = 1, Ttls = {"forever"}, NEW States, KeepsLastUsed(States)
    PROVE  Spec => []RefusedOnlyIfTooLarge
<1>1. PICK t : Threads = {t}
  BY MemoryCacheAssumption, FS_Singleton DEF N
<1>2. t \in Threads
  BY <1>1
<1>3. CASE EntrySize <= Capacity
  <2> DEFINE Inv == /\ TypeOK /\ ReservationBound /\ Alone(t)
                    /\ policy \in States /\ Evictable(t)
  <2>1. Init => Inv
    BY <1>2, <1>3, TypeInit, ReservationInit, AloneInit, EvictableInitially
       DEF Init, KeepsLastUsed
  <2>2. Inv /\ [Next]_vars => Inv'
    BY <1>1, <1>2, <1>3, TypeNext, ReservationNext, AloneNext, LastUsedNext
  <2>3. Inv => RefusedOnlyIfTooLarge
    BY <1>1 DEF RefusedOnlyIfTooLarge, Doing, Evictable
  <2> HIDE DEF Inv
  <2>4. QED BY <2>1, <2>2, <2>3, PTL DEF Spec
<1>4. CASE ~ (EntrySize <= Capacity)
  <2>1. RefusedOnlyIfTooLarge
    BY <1>4, MemoryCacheAssumption DEF RefusedOnlyIfTooLarge
  <2>2. QED BY <2>1, PTL
<1>5. QED BY <1>3, <1>4

-----------------------------------------------------------------------------
(* The LRU policy is one that keeps the key used last. *)

LEMMA LruKeepsLastUsed == IsLru => KeepsLastUsed(LruStates)
<1> SUFFICES ASSUME IsLru PROVE KeepsLastUsed(LruStates)
  OBVIOUS
<1>1. Lru!LruNew \in LruStates
  <2>1. Lru!LruNew = [access_order |-> <<>>, key_index |-> <<>>]
    BY DEF Lru!LruNew
  <2>2. <<>> \in Seq(Keys) /\ <<>> \in [{} -> Nat] /\ {} \in SUBSET Keys
    OBVIOUS
  <2>3. <<>> \in Indexes
    BY <2>2, IndexOver
  <2>4. QED BY <2>1, <2>2, <2>3 DEF LruStates
<1>2. PolicyNew \in LruStates
  BY <1>1 DEF IsLru
<1>3. ASSUME NEW p \in LruStates, NEW k \in Keys
      PROVE  /\ PolicyOnAccess(p, k) \in LruStates
             /\ k \in PolicyTracked(PolicyOnAccess(p, k))
             /\ PolicyOnInsert(p, k) \in LruStates
             /\ k \in PolicyTracked(PolicyOnInsert(p, k))
  BY UseKeeps DEF IsLru, Lru!LruOnInsert
<1>4. ASSUME NEW p \in LruStates, NEW outcome \in PolicyEvict(p)
      PROVE  /\ outcome.rest \in LruStates
             /\ PolicyTracked(p) \ {outcome.key} \subseteq PolicyTracked(outcome.rest)
             /\ outcome.key = None => PolicyTracked(p) = {}
  BY EvictKeeps DEF IsLru
<1>5. ASSUME NEW p \in LruStates PROVE PolicyReset(p) \in LruStates
  BY <1>1 DEF IsLru, Lru!LruReset
<1>6. QED BY <1>2, <1>3, <1>4, <1>5 DEF KeepsLastUsed

\* So no set is refused by the LRU cache of one thread without TTLs while its
\* entry fits the cache, though LRU loses stored keys.
THEOREM LruRefusedTooLarge ==
    ASSUME N = 1, Ttls = {"forever"}, IsLru
    PROVE  Spec => []RefusedOnlyIfTooLarge
PROOF BY RefusedTooLarge, LruKeepsLastUsed
=============================================================================
