------------------------- MODULE MemoryCacheProofs -------------------------
(***************************************************************************)
(* Proofs about the in-memory tier, for any number of keys, values and     *)
(* threads, any capacity and any eviction policy: its types; how far it    *)
(* can exceed its capacity (the two halves of the size accounting are      *)
(* shown inductive and the bound on the stored entries follows from them); *)
(* that all it stores can be evicted; and that the count of entries, which *)
(* may wrap below zero while calls overlap, is back in range after them.   *)
(***************************************************************************)
EXTENDS MemoryCacheProperties, Sequences, FiniteSetTheorems, TLAPS

LEMMA CallShape ==
    ASSUME NEW c \in Requests \cup {NoCall}
    PROVE  /\ c.op = "set" => c.key \in Keys /\ c.value \in Values /\ c.life \in Ttls
           /\ c.op \in {"get", "exists", "delete"} => c.key \in Keys
PROOF BY MemoryCacheAssumption DEF Requests, NoCall

\* A count taken modulo Width is one that usize can hold.
LEMMA ModRange == ASSUME NEW n \in Int PROVE n % Width \in 0 .. Width - 1
PROOF BY MemoryCacheAssumption

\* A set stores its value, with a life its time-to-live allows, and nothing else.
LEMMA InsertedEntry ==
    ASSUME TypeOK, NEW t \in Threads, SetInsert(t)
    PROVE  \E life \in LivesOnInsert(call[t].life) :
              LET x == [value |-> call[t].value, life |-> life]
              IN  /\ entries' = [entries EXCEPT ![call[t].key] = x]
                  /\ x \in Entries /\ x # None /\ life \in Lives
<1>1. PICK life \in LivesOnInsert(call[t].life) :
         entries' = [entries EXCEPT ![call[t].key] = [value |-> call[t].value, life |-> life]]
  BY DEF SetInsert
<1>2. call[t].value \in Values /\ call[t].life \in Ttls
  BY CallShape DEF SetInsert, TypeOK, SetSteps
<1>3. life \in Lives
  BY <1>2, MemoryCacheAssumption DEF LivesOnInsert, Lives
<1>4. [value |-> call[t].value, life |-> life] \in Entries
  BY <1>2, <1>3 DEF Entries
<1>5. [value |-> call[t].value, life |-> life] # None
  BY <1>4, NoneIsNoEntry DEF Entries
<1>6. QED BY <1>1, <1>3, <1>4, <1>5

LEMMA TypeInit == Init => TypeOK
PROOF BY MemoryCacheAssumption DEF Init, TypeOK, NoLocal, Locals, NoCall, Steps, SetSteps

LEMMA TypeSet ==
    ASSUME TypeOK, NEW t \in Threads, SetStep(t)
    PROVE  TypeOK'
<1> USE MemoryCacheAssumption, CallShape DEF TypeOK, Goto, Return, Forget
<1>1. CASE SetRemove(t)
  <2>1. entries' \in [Keys -> Entries \cup {None}]
    BY <1>1 DEF SetRemove, Steps, SetSteps
  <2>2. local' \in [Threads -> Locals]
    BY <1>1 DEF SetRemove, Locals
  <2>3. \A u \in Threads : local'[u].victim = local[u].victim
    BY <1>1 DEF SetRemove, Locals
  <2>4. QED
    BY <1>1, <2>1, <2>2, <2>3 DEF SetRemove, Steps, SetSteps
<1>2. CASE SetSub(t)
  BY <1>2 DEF SetSub, SubtractEntry, SatSub, Steps, SetSteps
<1>3. CASE SetInsert(t)
  <2>1. PICK x \in Entries : entries' = [entries EXCEPT ![call[t].key] = x]
    BY <1>3, InsertedEntry
  <2>2. QED BY <1>3, <2>1 DEF SetInsert, Steps, SetSteps
<1>4. CASE SetAdd(t)
  <2>1. size_bytes' \in Nat
    BY <1>4, MemoryCacheAssumption DEF SetAdd
  <2>2. local' \in [Threads -> Locals]
    BY <1>4, <2>1 DEF SetAdd, Locals
  <2>3. \A u \in Threads : local'[u].victim = local[u].victim
    BY <1>4 DEF SetAdd, Locals
  <2>4. QED
    BY <1>4, <2>1, <2>2, <2>3 DEF SetAdd, Steps, SetSteps
<1>5. CASE SetStats(t)
  <2>1. (stats.entries + 1) % Width \in 0 .. Width - 1
    BY ModRange
  <2>2. local[t].final_size \in Nat
    BY DEF Locals
  <2>3. stats' \in [hits : Nat, misses : Nat, evictions : Nat, size_bytes : Nat,
                    entries : 0 .. Width - 1]
    BY <1>5, <2>1, <2>2 DEF SetStats
  <2>4. QED
    BY <1>5, <2>3 DEF SetStats, Steps, SetSteps
<1>6. CASE SetPolicy(t)
  BY <1>6 DEF SetPolicy, Steps, SetSteps, Locals, NoLocal
<1>7. QED BY <1>1, <1>2, <1>3, <1>4, <1>5, <1>6 DEF SetStep

LEMMA TypeEvict ==
    ASSUME TypeOK, NEW t \in Threads, EvictStep(t)
    PROVE  TypeOK'
<1> USE MemoryCacheAssumption, CallShape DEF TypeOK, Goto, Return, Forget
<1>1. CASE EvictCheck(t)
  BY <1>1 DEF EvictCheck, Steps, SetSteps
<1>2. CASE EvictPop(t)
  <2>1. CASE Goto(t, "evict_fail") /\ UNCHANGED local
    BY <1>2, <2>1 DEF EvictPop, Steps, SetSteps
  <2>2. ASSUME NEW k \in Keys,
               local' = [local EXCEPT ![t].victim = k], Goto(t, "evict_remove")
        PROVE  TypeOK'
    <3>1. local' \in [Threads -> Locals]
      BY <2>2 DEF Locals
    <3>2. local'[t].victim = k /\ \A u \in Threads \ {t} : local'[u] = local[u]
      BY <2>2 DEF Locals
    <3>3. QED
      BY <1>2, <2>2, <3>1, <3>2 DEF EvictPop, Steps, SetSteps
  <2>3. QED BY <1>2, <2>1, <2>2 DEF EvictPop
<1>3. CASE EvictRemove(t)
  <2>1. local' \in [Threads -> Locals]
    BY <1>3 DEF EvictRemove, Locals
  <2>2. \A u \in Threads \ {t} : local'[u] = local[u]
    BY <1>3 DEF EvictRemove
  <2>3. QED
    BY <1>3, <2>1, <2>2 DEF EvictRemove, Steps, SetSteps
<1>4. CASE EvictSub(t)
  BY <1>4 DEF EvictSub, SubtractEntry, SatSub, Steps, SetSteps
<1>5. CASE EvictStats(t)
  <2>1. (stats.entries - 1) % Width \in 0 .. Width - 1
    BY ModRange
  <2>2. stats' \in [hits : Nat, misses : Nat, evictions : Nat, size_bytes : Nat,
                    entries : 0 .. Width - 1]
    <3>1. stats' = [stats EXCEPT !.evictions = @ + 1]
          \/ stats' = [stats EXCEPT !.evictions = @ + 1,
                                    !.entries = (@ - 1) % Width,
                                    !.size_bytes = size_bytes]
      BY <1>5 DEF EvictStats, CountOneLess
    <3>2. stats.evictions + 1 \in Nat
      OBVIOUS
    <3>3. CASE stats' = [stats EXCEPT !.evictions = @ + 1]
      BY <3>2, <3>3
    <3>4. CASE stats' = [stats EXCEPT !.evictions = @ + 1,
                                      !.entries = (@ - 1) % Width,
                                      !.size_bytes = size_bytes]
      BY <2>1, <3>2, <3>4
    <3>5. QED BY <3>1, <3>3, <3>4
  <2>3. \/ Goto(t, "panicked") /\ UNCHANGED local
        \/ Goto(t, "evict_check") /\ UNCHANGED local
    BY <1>5 DEF EvictStats, CountOneLess
  <2>4. QED
    BY <1>5, <2>2, <2>3 DEF EvictStats, Steps, SetSteps
<1>6. CASE EvictFail(t)
  BY <1>6 DEF EvictFail, Steps, SetSteps, Locals, NoLocal
<1>7. QED BY <1>1, <1>2, <1>3, <1>4, <1>5, <1>6 DEF EvictStep

LEMMA TypeRead ==
    ASSUME TypeOK, NEW t \in Threads, ReadStep(t)
    PROVE  TypeOK'
<1> USE MemoryCacheAssumption, CallShape DEF TypeOK, Goto, Return, Forget
<1>1. CASE GetCheck(t)
  BY <1>1 DEF GetCheck, Steps, SetSteps
<1>2. CASE GetExpire(t)
  BY <1>2 DEF GetExpire, Steps, SetSteps
<1>3. CASE GetRead(t)
  <2>1. CASE UNCHANGED local
    BY <1>3, <2>1 DEF GetRead, Steps, SetSteps
  <2>2. ASSUME NEW v \in Values, local' = [local EXCEPT ![t].value = v],
               Goto(t, "get_access")
        PROVE  TypeOK'
    <3>1. local' \in [Threads -> Locals]
      BY <2>2 DEF Locals
    <3>2. \A u \in Threads : local'[u].victim = local[u].victim
      BY <2>2 DEF Locals
    <3>3. QED BY <1>3, <2>2, <3>1, <3>2 DEF GetRead, Steps, SetSteps
  <2>3. call[t].key \in Stored => entries[call[t].key].value \in Values
    BY <1>3 DEF GetRead, Stored, Entries
  <2>4. QED BY <1>3, <2>1, <2>2, <2>3 DEF GetRead
<1>4. CASE GetAccess(t)
  BY <1>4 DEF GetAccess, Steps, SetSteps
<1>5. CASE GetHit(t)
  BY <1>5 DEF GetHit, Steps, SetSteps, Locals, NoLocal
<1>6. CASE GetMiss(t)
  BY <1>6 DEF GetMiss, Steps, SetSteps, Locals, NoLocal
<1>7. CASE Exists(t)
  BY <1>7 DEF Exists, Steps, SetSteps, Locals, NoLocal
<1>8. QED BY <1>1, <1>2, <1>3, <1>4, <1>5, <1>6, <1>7 DEF ReadStep

LEMMA TypeDelete ==
    ASSUME TypeOK, NEW t \in Threads, DeleteStep(t)
    PROVE  TypeOK'
<1> USE MemoryCacheAssumption, CallShape DEF TypeOK, Goto, Return, Forget
<1>1. CASE DelRemove(t)
  <2>1. CASE Goto(t, "del_sub") /\ UNCHANGED local
    BY <1>1, <2>1 DEF DelRemove, Steps, SetSteps
  <2>2. CASE Return(t, "ok")
    BY <1>1, <2>2 DEF DelRemove, Steps, SetSteps, Locals, NoLocal
  <2>3. QED BY <1>1, <2>1, <2>2 DEF DelRemove
<1>2. CASE DelSub(t)
  BY <1>2 DEF DelSub, SubtractEntry, SatSub, Steps, SetSteps
<1>3. CASE DelStats(t)
  <2>1. (stats.entries - 1) % Width \in 0 .. Width - 1
    BY ModRange
  <2>2. stats' \in [hits : Nat, misses : Nat, evictions : Nat, size_bytes : Nat,
                    entries : 0 .. Width - 1]
    <3>1. UNCHANGED stats
          \/ stats' = [stats EXCEPT !.entries = (@ - 1) % Width,
                                    !.size_bytes = size_bytes]
      BY <1>3 DEF DelStats, CountOneLess
    <3>2. QED BY <2>1, <3>1
  <2>3. CASE Goto(t, "panicked") /\ UNCHANGED local
    BY <1>3, <2>2, <2>3 DEF DelStats, Steps, SetSteps
  <2>4. CASE Return(t, "ok")
    BY <1>3, <2>2, <2>4 DEF DelStats, Steps, SetSteps, Locals, NoLocal
  <2>5. QED BY <1>3, <2>3, <2>4 DEF DelStats, CountOneLess
<1>4. QED BY <1>1, <1>2, <1>3 DEF DeleteStep

LEMMA TypeClear ==
    ASSUME TypeOK, NEW t \in Threads, ClearStep(t)
    PROVE  TypeOK'
<1> USE MemoryCacheAssumption DEF TypeOK, Goto, Return, Forget
<1>1. CASE ClearEntries(t)
  <2>1. PICK k \in local[t].todo :
            local' = [local EXCEPT ![t].todo = @ \ {k}] /\ Forget(k)
    BY <1>1 DEF ClearEntries
  <2>2. local' \in [Threads -> Locals]
    <3>1. local[t] \in Locals /\ local[t].todo \ {k} \in SUBSET Keys
      BY DEF Locals
    <3>2. [local[t] EXCEPT !.todo = local[t].todo \ {k}] \in Locals
      BY <3>1 DEF Locals
    <3>3. QED BY <2>1, <3>2
  <2>3. \A u \in Threads : local'[u].victim = local[u].victim
    BY <2>1 DEF Locals
  <2>4. entries' \in [Keys -> Entries \cup {None}]
    BY <2>1 DEF Locals
  <2>5. QED
    BY <1>1, <2>2, <2>3, <2>4 DEF ClearEntries, Steps, SetSteps
<1>2. CASE ClearSize(t)
  BY <1>2 DEF ClearSize, Steps, SetSteps
<1>3. CASE ClearStats(t)
  <2>1. 0 \in 0 .. Width - 1
    BY MemoryCacheAssumption
  <2>2. stats' \in [hits : Nat, misses : Nat, evictions : Nat, size_bytes : Nat,
                    entries : 0 .. Width - 1]
    BY <1>3, <2>1 DEF ClearStats
  <2>3. QED BY <1>3, <2>2 DEF ClearStats, Steps, SetSteps
<1>4. CASE ClearPolicy(t)
  BY <1>4 DEF ClearPolicy, Steps, SetSteps, Locals, NoLocal
<1>5. QED BY <1>1, <1>2, <1>3, <1>4 DEF ClearStep

LEMMA TypeBegin ==
    ASSUME TypeOK, NEW t \in Threads, Begin(t)
    PROVE  TypeOK'
<1> USE MemoryCacheAssumption DEF TypeOK
<1>1. PICK c \in Requests :
          /\ call' = [call EXCEPT ![t] = c]
          /\ pc' = [pc EXCEPT ![t] = FirstStep[c.op]]
          /\ local' = [local EXCEPT ![t].todo = IF c.op = "clear" THEN Keys ELSE {}]
  BY DEF Begin
<1>2. \/ c.op = "set" /\ FirstStep[c.op] = "set_remove"
      \/ c.op = "get" /\ FirstStep[c.op] = "get_check"
      \/ c.op = "exists" /\ FirstStep[c.op] = "exists"
      \/ c.op = "delete" /\ FirstStep[c.op] = "del_remove"
      \/ c.op = "clear" /\ FirstStep[c.op] = "clear_entries"
  BY DEF Requests, FirstStep
<1>3. local' \in [Threads -> Locals]
  BY <1>1 DEF Locals
<1>4. \A u \in Threads : local'[u].victim = local[u].victim
  BY <1>1 DEF Locals
<1>5. calls' \in 0 .. MaxCalls
  BY DEF Begin
<1>6. QED
  BY <1>1, <1>2, <1>3, <1>4, <1>5 DEF Begin, Steps, SetSteps

LEMMA TypeExpire ==
    ASSUME TypeOK, NEW k \in Keys, Expire(k)
    PROVE  TypeOK'
PROOF BY DEF TypeOK, Expire, Stored, Entries, Lives

LEMMA TypeNext == TypeOK /\ [Next]_vars => TypeOK'
<1> SUFFICES ASSUME TypeOK, [Next]_vars PROVE TypeOK'
  OBVIOUS
<1>1. CASE UNCHANGED vars
  BY <1>1 DEF TypeOK, vars
<1>2. ASSUME NEW t \in Threads, Begin(t) PROVE TypeOK'
  BY <1>2, TypeBegin
<1>3. ASSUME NEW t \in Threads, Step(t) PROVE TypeOK'
  BY <1>3, TypeSet, TypeEvict, TypeRead, TypeDelete, TypeClear DEF Step
<1>4. ASSUME NEW k \in Keys, Expire(k) PROVE TypeOK'
  BY <1>4, TypeExpire
<1>5. QED
  BY <1>1, <1>2, <1>3, <1>4 DEF Next, Finished

\* Whatever the threads do, every variable of the tier keeps its type and
\* every thread has the arguments its next step needs: no set() without a
\* key and a value, no removal of a victim that was not chosen.
THEOREM TypeCorrect == Spec => []TypeOK
PROOF BY TypeInit, TypeNext, PTL DEF Spec
-----------------------------------------------------------------------------
(* The size accounting *)

Reserving == Doing({"set_insert", "set_add"})

LEMMA NType == N \in Nat
PROOF BY MemoryCacheAssumption, FS_CardinalityType DEF N

LEMMA DoingFinite ==
    ASSUME NEW S
    PROVE  IsFiniteSet(Doing(S)) /\ Cardinality(Doing(S)) \in Nat
PROOF BY MemoryCacheAssumption, FS_Subset, FS_CardinalityType DEF Doing

LEMMA StoredFinite == IsFiniteSet(Stored) /\ Cardinality(Stored) \in Nat
PROOF BY MemoryCacheAssumption, FS_Subset, FS_CardinalityType DEF Stored

LEMMA FewerThan ==
    ASSUME NEW A, NEW B, IsFiniteSet(B), A \subseteq B
    PROVE  IsFiniteSet(A) /\ Cardinality(A) \in Nat /\ Cardinality(A) <= Cardinality(B)
PROOF BY FS_Subset, FS_CardinalityType

\* Multiples of EntrySize: they grow with the number of entries, and one
\* entry more is EntrySize more.
LEMMA ScaleMono ==
    ASSUME NEW a \in Nat, NEW b \in Nat, a <= b
    PROVE  /\ EntrySize * a \in Nat /\ EntrySize * b \in Nat
           /\ EntrySize * a <= EntrySize * b
PROOF BY MemoryCacheAssumption

LEMMA ScaleAdd ==
    ASSUME NEW a \in Nat
    PROVE  EntrySize * (a + 1) = EntrySize * a + EntrySize
PROOF BY MemoryCacheAssumption

-----------------------------------------------------------------------------
(* ReservationBound *)

LEMMA ReservationInit == Init => ReservationBound
<1> SUFFICES ASSUME Init PROVE ReservationBound
  OBVIOUS
<1>1. Doing({"set_insert", "set_add"}) = {}
  BY DEF Init, Doing
<1>2. N \in Nat /\ N >= 1
  <2>1. Cardinality(Threads) # 0
    BY MemoryCacheAssumption, FS_EmptySet
  <2>2. QED BY <2>1, NType DEF N
<1>3. EntrySize * 0 = 0 /\ 0 <= EntrySize * (N - 1)
  BY <1>2, ScaleMono, MemoryCacheAssumption
<1>4. Capacity \in Nat /\ EntrySize * (N - 1) \in Int
  BY <1>2, MemoryCacheAssumption
<1>5. 0 + EntrySize * 0 <= Capacity + EntrySize * (N - 1)
  BY <1>3, <1>4
<1>6. QED BY <1>1, <1>5, FS_EmptySet DEF ReservationBound, Init

\* The bound survives every step that lets neither the counter nor the set
\* of threads between check and addition grow.
LEMMA ReservationShrinks ==
    ASSUME TypeOK, TypeOK', ReservationBound,
           size_bytes' <= size_bytes, Reserving' \subseteq Reserving
    PROVE  ReservationBound'
<1> DEFINE r == Cardinality(Reserving)
           s == Cardinality(Reserving')
<1>1. r \in Nat /\ s \in Nat /\ s <= r
  BY DoingFinite, FewerThan DEF Reserving
<1>2. EntrySize * s <= EntrySize * r /\ EntrySize * s \in Nat /\ EntrySize * r \in Nat
  BY <1>1, ScaleMono
<1>3. EntrySize * (N - 1) \in Int /\ Capacity \in Nat
  BY NType, MemoryCacheAssumption
<1>4. size_bytes \in Nat /\ size_bytes' \in Nat
  BY DEF TypeOK
<1>5. size_bytes + EntrySize * r <= Capacity + EntrySize * (N - 1)
  BY DEF ReservationBound, Reserving
<1>6. size_bytes' + EntrySize * s <= Capacity + EntrySize * (N - 1)
  BY <1>2, <1>3, <1>4, <1>5
<1>7. QED BY <1>6 DEF ReservationBound, Reserving

\* A thread that passes the check finds room for one entry, and the others
\* are N - 1 at most.
LEMMA ReservationCheck ==
    ASSUME TypeOK, ReservationBound, NEW t \in Threads, EvictCheck(t),
           Fits(size_bytes)
    PROVE  ReservationBound'
<1> DEFINE r == Cardinality(Reserving)
<1>1. Reserving' = Reserving \cup {t} /\ t \notin Reserving
  BY DEF EvictCheck, Goto, Reserving, Doing, TypeOK
<1>2. Cardinality(Reserving') = r + 1 /\ r \in Nat
  BY <1>1, DoingFinite, FS_AddElement DEF Reserving
<1>3. r <= N - 1 /\ N - 1 \in Nat
  <2>1. Cardinality(Threads \ {t}) = N - 1 /\ IsFiniteSet(Threads \ {t})
    BY FS_RemoveElement, MemoryCacheAssumption DEF N
  <2>2. Reserving \subseteq Threads \ {t}
    BY <1>1 DEF Reserving, Doing
  <2>3. QED BY <2>1, <2>2, FewerThan, FS_CardinalityType
<1>4. EntrySize * r <= EntrySize * (N - 1) /\ EntrySize * r \in Nat
      /\ EntrySize * (N - 1) \in Nat
  BY <1>2, <1>3, ScaleMono
<1>5. size_bytes \in Nat /\ size_bytes' = size_bytes /\ EntrySize \in Nat
      /\ Capacity \in Nat
  BY MemoryCacheAssumption DEF TypeOK, EvictCheck
<1>6. size_bytes + EntrySize <= Capacity
  BY DEF Fits
<1>7. EntrySize * (r + 1) = EntrySize * r + EntrySize
  BY <1>2, ScaleAdd
<1>8. size_bytes' + EntrySize * (r + 1) <= Capacity + EntrySize * (N - 1)
  BY <1>4, <1>5, <1>6, <1>7
<1>9. QED BY <1>2, <1>8 DEF ReservationBound, Reserving

\* The addition turns the reservation into size.
LEMMA ReservationAdd ==
    ASSUME TypeOK, ReservationBound, NEW t \in Threads, SetAdd(t)
    PROVE  ReservationBound'
<1> DEFINE r == Cardinality(Reserving)
<1>1. Reserving' = Reserving \ {t} /\ t \in Reserving
  BY DEF SetAdd, Goto, Reserving, Doing, TypeOK
<1>2. Cardinality(Reserving') = r - 1 /\ r \in Nat /\ Cardinality(Reserving') \in Nat
  BY <1>1, DoingFinite, FS_RemoveElement, FS_CardinalityType DEF Reserving
<1>3. EntrySize * r = EntrySize * (r - 1) + EntrySize
  BY <1>2, ScaleAdd
<1>4. size_bytes' = size_bytes + EntrySize /\ size_bytes \in Nat /\ EntrySize \in Nat
  BY MemoryCacheAssumption DEF TypeOK, SetAdd
<1>5. size_bytes + EntrySize * r <= Capacity + EntrySize * (N - 1)
  BY DEF ReservationBound, Reserving
<1>6. EntrySize * (r - 1) \in Nat /\ EntrySize * (N - 1) \in Int /\ Capacity \in Nat
  BY <1>2, ScaleMono, NType, MemoryCacheAssumption
<1>7. size_bytes' + EntrySize * (r - 1) <= Capacity + EntrySize * (N - 1)
  BY <1>3, <1>4, <1>5, <1>6
<1>8. QED BY <1>2, <1>7 DEF ReservationBound, Reserving

\* The steps that neither reserve nor add.
LEMMA ReservationOther ==
    ASSUME TypeOK, NEW t \in Threads, Begin(t) \/ Step(t), ~ SetAdd(t),
           ~ (EvictCheck(t) /\ Fits(size_bytes))
    PROVE  size_bytes' <= size_bytes /\ Reserving' \subseteq Reserving
<1> USE DEF TypeOK, Reserving, Doing
<1>1. CASE Begin(t)
  <2>1. PICK c \in Requests : pc' = [pc EXCEPT ![t] = FirstStep[c.op]]
    BY <1>1 DEF Begin
  <2>2. FirstStep[c.op] \notin {"set_insert", "set_add"}
    BY DEF Requests, FirstStep
  <2>3. QED BY <1>1, <2>1, <2>2 DEF Begin
<1>2. CASE SetStep(t)
  <2> USE DEF Goto, Return
  <2>1. CASE SetRemove(t)
    BY <2>1 DEF SetRemove
  <2>2. CASE SetSub(t)
    BY <2>2, MemoryCacheAssumption DEF SetSub, SubtractEntry, SatSub
  <2>3. CASE SetInsert(t)
    BY <2>3 DEF SetInsert
  <2>4. CASE SetStats(t)
    BY <2>4 DEF SetStats
  <2>5. CASE SetPolicy(t)
    BY <2>5 DEF SetPolicy
  <2>6. QED BY <1>2, <2>1, <2>2, <2>3, <2>4, <2>5 DEF SetStep
<1>3. CASE EvictStep(t)
  <2> USE DEF Goto, Return
  <2>1. CASE EvictCheck(t)
    BY <2>1 DEF EvictCheck
  <2>2. CASE EvictPop(t)
    BY <2>2 DEF EvictPop
  <2>3. CASE EvictRemove(t)
    BY <2>3 DEF EvictRemove
  <2>4. CASE EvictSub(t)
    BY <2>4, MemoryCacheAssumption DEF EvictSub, SubtractEntry, SatSub
  <2>5. CASE EvictStats(t)
    BY <2>5 DEF EvictStats, CountOneLess
  <2>6. CASE EvictFail(t)
    BY <2>6 DEF EvictFail
  <2>7. QED BY <1>3, <2>1, <2>2, <2>3, <2>4, <2>5, <2>6 DEF EvictStep
<1>4. CASE ReadStep(t)
  BY <1>4 DEF Goto, Return, ReadStep, GetCheck, GetExpire, GetRead, GetAccess,
              GetHit, GetMiss, Exists
<1>5. CASE DeleteStep(t)
  BY <1>5, MemoryCacheAssumption
     DEF Goto, Return, DeleteStep, DelRemove, DelSub, DelStats, CountOneLess,
         SubtractEntry, SatSub
<1>6. CASE ClearStep(t)
  BY <1>6 DEF Goto, Return, ClearStep, ClearEntries, ClearSize, ClearStats,
              ClearPolicy
<1>7. QED BY <1>1, <1>2, <1>3, <1>4, <1>5, <1>6 DEF Step

LEMMA ReservationNext ==
    TypeOK /\ TypeOK' /\ ReservationBound /\ [Next]_vars => ReservationBound'
<1> SUFFICES ASSUME TypeOK, TypeOK', ReservationBound, [Next]_vars
             PROVE  ReservationBound'
  OBVIOUS
<1>1. CASE UNCHANGED vars
  BY <1>1 DEF ReservationBound, vars, Doing
<1>2. ASSUME NEW t \in Threads, Begin(t) \/ Step(t)
      PROVE  ReservationBound'
  <2>1. CASE SetAdd(t)
    BY <2>1, ReservationAdd
  <2>2. CASE EvictCheck(t) /\ Fits(size_bytes)
    BY <2>2, ReservationCheck
  <2>3. CASE ~ SetAdd(t) /\ ~ (EvictCheck(t) /\ Fits(size_bytes))
    BY <1>2, <2>3, ReservationOther, ReservationShrinks
  <2>4. QED BY <2>1, <2>2, <2>3
<1>3. ASSUME NEW k \in Keys, Expire(k)
      PROVE  ReservationBound'
  BY <1>3 DEF ReservationBound, Expire, Doing
<1>4. QED
  BY <1>1, <1>2, <1>3 DEF Next, Finished

\* However many threads pass the unlocked space check together, the counter
\* and the additions still to come exceed the capacity by N - 1 entries at
\* most.
THEOREM ReservationBounded == Spec => []ReservationBound
<1>1. TypeOK /\ ReservationBound /\ [Next]_vars => (TypeOK /\ ReservationBound)'
  BY TypeNext, ReservationNext
<1>2. Init => TypeOK /\ ReservationBound
  BY TypeInit, ReservationInit
<1>3. QED BY <1>1, <1>2, PTL DEF Spec

-----------------------------------------------------------------------------
(* SizeNeverUndercounted *)

\* What size_bytes must cover, and what is on its way to it.
Owed == Cardinality(Stored) + Cardinality(Unsubtracted)
Coming == Cardinality(Unadded)

LEMMA CoverTypes ==
    /\ Owed \in Nat /\ Coming \in Nat
    /\ EntrySize * Owed \in Nat /\ EntrySize * Coming \in Nat
<1>1. Owed \in Nat /\ Coming \in Nat
  BY StoredFinite, DoingFinite DEF Owed, Coming, Unsubtracted, Unadded
<1>2. QED BY <1>1, ScaleMono

LEMMA CoverTypesNext ==
    /\ Owed' \in Nat /\ Coming' \in Nat
    /\ EntrySize * Owed' \in Nat /\ EntrySize * Coming' \in Nat
<1>1. IsFiniteSet(Stored') /\ IsFiniteSet(Unsubtracted') /\ IsFiniteSet(Unadded')
  BY MemoryCacheAssumption, FS_Subset DEF Stored, Unsubtracted, Unadded, Doing
<1>2. Owed' \in Nat /\ Coming' \in Nat
  BY <1>1, FS_CardinalityType DEF Owed, Coming
<1>3. QED BY <1>2, ScaleMono

LEMMA CoverIs ==
    SizeNeverUndercounted <=> EntrySize * Owed <= size_bytes + EntrySize * Coming
PROOF BY DEF SizeNeverUndercounted, Owed, Coming

LEMMA CoverIsNext ==
    SizeNeverUndercounted' <=> EntrySize * Owed' <= size_bytes' + EntrySize * Coming'
PROOF BY DEF SizeNeverUndercounted, Owed, Coming

LEMMA CoverInit == Init => SizeNeverUndercounted
<1> SUFFICES ASSUME Init PROVE SizeNeverUndercounted
  OBVIOUS
<1>1. Stored = {} /\ Unsubtracted = {} /\ Unadded = {}
  BY DEF Init, Stored, Unsubtracted, Unadded, Doing
<1>2. Owed = 0 /\ Coming = 0 /\ size_bytes = 0
  BY <1>1, FS_EmptySet DEF Owed, Coming, Init
<1>3. EntrySize * 0 = 0
  BY MemoryCacheAssumption
<1>4. QED BY <1>2, <1>3, CoverIs

\* Nothing more to cover, nothing less to cover it with.
LEMMA CoverKept ==
    ASSUME TypeOK, SizeNeverUndercounted,
           Owed' <= Owed, Coming' = Coming, size_bytes' = size_bytes
    PROVE  SizeNeverUndercounted'
<1>1. EntrySize * Owed' <= EntrySize * Owed
  BY CoverTypes, CoverTypesNext, ScaleMono
<1>2. QED
  BY <1>1, CoverTypes, CoverTypesNext, CoverIs, CoverIsNext DEF TypeOK

\* A removed entry is owed a subtraction instead.
LEMMA CoverRemove ==
    ASSUME TypeOK, SizeNeverUndercounted, NEW k \in Stored, NEW t \in Threads,
           Stored' = Stored \ {k}, Unsubtracted' = Unsubtracted \cup {t},
           UNCHANGED Unadded, size_bytes' = size_bytes
    PROVE  SizeNeverUndercounted'
<1>1. Cardinality(Stored') = Cardinality(Stored) - 1
  BY StoredFinite, FS_RemoveElement
<1>2. Cardinality(Unsubtracted') <= Cardinality(Unsubtracted) + 1
  BY DoingFinite, FS_AddElement DEF Unsubtracted
<1>3. Cardinality(Unsubtracted') \in Nat
  BY DoingFinite, FS_AddElement, FS_CardinalityType DEF Unsubtracted
<1>4. Owed' <= Owed
  BY <1>1, <1>2, <1>3, StoredFinite, DoingFinite DEF Owed, Unsubtracted
<1>5. Coming' = Coming
  BY DEF Coming
<1>6. QED BY <1>4, <1>5, CoverKept

LEMMA CoverLess ==
    ASSUME TypeOK, SizeNeverUndercounted,
           Stored' \subseteq Stored, Unsubtracted' \subseteq Unsubtracted,
           UNCHANGED Unadded, size_bytes' = size_bytes
    PROVE  SizeNeverUndercounted'
<1>1. Cardinality(Stored') \in Nat /\ Cardinality(Stored') <= Cardinality(Stored)
  BY StoredFinite, FewerThan
<1>2. Cardinality(Unsubtracted') \in Nat
      /\ Cardinality(Unsubtracted') <= Cardinality(Unsubtracted)
  BY DoingFinite, FewerThan DEF Unsubtracted
<1>3. Owed' <= Owed
  BY <1>1, <1>2, StoredFinite, DoingFinite DEF Owed, Unsubtracted
<1>4. Coming' = Coming
  BY DEF Coming
<1>5. QED BY <1>3, <1>4, CoverKept

\* The subtraction pays for one removed entry; where it saturates it takes
\* less than it is owed.
LEMMA CoverSub ==
    ASSUME TypeOK, SizeNeverUndercounted, NEW t \in Unsubtracted, SubtractEntry,
           UNCHANGED Stored, Unsubtracted' = Unsubtracted \ {t}, UNCHANGED Unadded
    PROVE  SizeNeverUndercounted'
<1> DEFINE o == EntrySize * Owed
           c == EntrySize * Coming
           p == EntrySize * Owed'
           d == EntrySize * Coming'
           z == size_bytes'
<1>1. Cardinality(Unsubtracted') = Cardinality(Unsubtracted) - 1
  BY DoingFinite, FS_RemoveElement DEF Unsubtracted
<1>2. Owed = Owed' + 1 /\ Coming' = Coming
  BY <1>1, StoredFinite, DoingFinite DEF Owed, Coming, Unsubtracted
<1>3. o = p + EntrySize
  BY <1>2, CoverTypesNext, ScaleAdd
<1>4. size_bytes <= z + EntrySize /\ z \in Nat
  BY MemoryCacheAssumption DEF SubtractEntry, SatSub, TypeOK
<1>5. size_bytes \in Nat /\ EntrySize \in Nat
  BY MemoryCacheAssumption DEF TypeOK
<1>6. o <= size_bytes + c
  BY CoverIs
<1>7. d = c
  BY <1>2
<1>8. o \in Nat /\ c \in Nat /\ p \in Nat /\ d \in Nat
  BY CoverTypes, CoverTypesNext
<1>9. p <= z + d
  <2> HIDE DEF o, c, p, d, z
  <2>1. QED BY <1>3, <1>4, <1>5, <1>6, <1>7, <1>8
<1>10. QED BY <1>9, CoverIsNext

\* An inserted entry comes with an addition.
LEMMA CoverInsert ==
    ASSUME TypeOK, SizeNeverUndercounted, NEW t \in Threads \ Unadded, NEW k,
           Stored' \subseteq Stored \cup {k}, UNCHANGED Unsubtracted,
           Unadded' = Unadded \cup {t}, size_bytes' = size_bytes
    PROVE  SizeNeverUndercounted'
<1> DEFINE o == EntrySize * Owed
           c == EntrySize * Coming
           p == EntrySize * Owed'
           d == EntrySize * Coming'
<1>1. Cardinality(Stored') \in Nat /\ Cardinality(Stored') <= Cardinality(Stored) + 1
  <2>1. IsFiniteSet(Stored \cup {k})
        /\ Cardinality(Stored \cup {k}) <= Cardinality(Stored) + 1
        /\ Cardinality(Stored \cup {k}) \in Nat
    BY StoredFinite, FS_AddElement, FS_CardinalityType
  <2>2. QED BY <2>1, StoredFinite, FewerThan
<1>2. Owed' <= Owed + 1
  BY <1>1, StoredFinite, DoingFinite DEF Owed, Unsubtracted
<1>3. Coming' = Coming + 1
  BY DoingFinite, FS_AddElement DEF Coming, Unadded
<1>4. p <= EntrySize * (Owed + 1)
  BY <1>2, CoverTypes, CoverTypesNext, ScaleMono
<1>5. EntrySize * (Owed + 1) = o + EntrySize /\ d = c + EntrySize
  BY <1>3, CoverTypes, ScaleAdd
<1>6. size_bytes \in Nat /\ EntrySize \in Nat
  BY MemoryCacheAssumption DEF TypeOK
<1>7. o <= size_bytes + c
  BY CoverIs
<1>8. o \in Nat /\ c \in Nat /\ p \in Nat /\ d \in Nat
  BY CoverTypes, CoverTypesNext
<1>9. p <= o + EntrySize
  BY <1>4, <1>5
<1>10. p <= size_bytes' + d
  <2> HIDE DEF o, c, p, d
  <2>1. QED BY <1>5, <1>6, <1>7, <1>8, <1>9
<1>11. QED BY <1>10, CoverIsNext

LEMMA CoverAdd ==
    ASSUME TypeOK, SizeNeverUndercounted, NEW t \in Unadded,
           UNCHANGED Stored, UNCHANGED Unsubtracted, Unadded' = Unadded \ {t},
           size_bytes' = size_bytes + EntrySize
    PROVE  SizeNeverUndercounted'
<1> DEFINE o == EntrySize * Owed
           c == EntrySize * Coming
           p == EntrySize * Owed'
           d == EntrySize * Coming'
<1>1. Coming = Coming' + 1
  <2>1. Cardinality(Unadded \ {t}) = Cardinality(Unadded) - 1
    BY DoingFinite, FS_RemoveElement DEF Unadded
  <2>2. QED BY <2>1, CoverTypes DEF Coming
<1>2. Owed' = Owed
  BY DEF Owed
<1>3. c = d + EntrySize
  BY <1>1, CoverTypesNext, ScaleAdd
<1>4. size_bytes \in Nat /\ EntrySize \in Nat
  BY MemoryCacheAssumption DEF TypeOK
<1>5. o <= size_bytes + c
  BY CoverIs
<1>6. p = o
  BY <1>2
<1>7. o \in Nat /\ c \in Nat /\ p \in Nat /\ d \in Nat
  BY CoverTypes, CoverTypesNext
<1>8. p <= size_bytes' + d
  <2> HIDE DEF o, c, p, d
  <2>1. QED BY <1>3, <1>4, <1>5, <1>6, <1>7
<1>9. QED BY <1>8, CoverIsNext

-----------------------------------------------------------------------------
(* Which step does what to the entries and the two sets of threads *)

ClearSteps == {"clear_entries", "clear_size", "clear_stats", "clear_policy"}

LEMMA ForgetStored ==
    ASSUME TypeOK, NEW k \in Keys, Forget(k)
    PROVE  Stored' = Stored \ {k}
PROOF BY DEF TypeOK, Forget, Stored

LEMMA CoverSetStep ==
    ASSUME TypeOK, SizeNeverUndercounted, NEW t \in Threads, SetStep(t)
    PROVE  SizeNeverUndercounted'
<1> USE DEF Doing, Unsubtracted, Unadded, Goto, Return
<1> DEFINE k == call[t].key
<1>0. pc \in [Threads -> Steps]
  BY DEF TypeOK
<1>1. CASE SetRemove(t)
  <2>1. k \in Keys
    BY <1>1, CallShape DEF SetRemove, TypeOK, SetSteps
  <2>2. Stored' = Stored \ {k}
    BY <1>1, <2>1, ForgetStored DEF SetRemove
  <2>3. CASE k \in Stored
    <3>1. Unsubtracted' = Unsubtracted \cup {t} /\ UNCHANGED <<Unadded, size_bytes>>
      BY <1>0, <1>1, <2>3 DEF SetRemove
    <3>2. QED
      <4> HIDE DEF Unsubtracted, Unadded
      <4>1. QED BY <2>2, <2>3, <3>1, CoverRemove
  <2>4. CASE k \notin Stored
    <3>1. UNCHANGED <<Unsubtracted, Unadded, size_bytes>>
      BY <1>0, <1>1, <2>4 DEF SetRemove
    <3>2. QED
      <4> HIDE DEF Unsubtracted, Unadded
      <4>1. QED BY <2>2, <3>1, CoverLess
  <2>5. QED BY <2>3, <2>4
<1>2. CASE SetSub(t)
  <2>1. /\ SubtractEntry /\ t \in Unsubtracted /\ Unsubtracted' = Unsubtracted \ {t}
        /\ UNCHANGED <<Stored, Unadded>>
    BY <1>0, <1>2 DEF SetSub, Stored
  <2>2. QED
    <3> HIDE DEF Unsubtracted, Unadded
    <3>1. QED BY <2>1, CoverSub
<1>3. CASE SetInsert(t)
  <2>1. /\ t \in Threads \ Unadded /\ Unadded' = Unadded \cup {t}
        /\ UNCHANGED <<Unsubtracted, size_bytes>>
    BY <1>0, <1>3 DEF SetInsert
  <2>2. Stored' \subseteq Stored \cup {k}
    BY <1>3 DEF SetInsert, Stored, TypeOK
  <2>3. QED
    <3> HIDE DEF Unsubtracted, Unadded
    <3>1. QED BY <2>1, <2>2, CoverInsert
<1>4. CASE SetAdd(t)
  <2>1. /\ t \in Unadded /\ Unadded' = Unadded \ {t}
        /\ size_bytes' = size_bytes + EntrySize
        /\ UNCHANGED <<Stored, Unsubtracted>>
    BY <1>0, <1>4 DEF SetAdd, Stored
  <2>2. QED
    <3> HIDE DEF Unsubtracted, Unadded
    <3>1. QED BY <2>1, CoverAdd
<1>5. CASE SetStats(t) \/ SetPolicy(t)
  <2>1. UNCHANGED <<Stored, Unsubtracted, Unadded, size_bytes>>
    BY <1>0, <1>5 DEF SetStats, SetPolicy, Stored
  <2>2. QED
    <3> HIDE DEF Unsubtracted, Unadded
    <3>1. QED BY <2>1, CoverLess
<1>6. QED BY <1>1, <1>2, <1>3, <1>4, <1>5 DEF SetStep

LEMMA CoverEvictStep ==
    ASSUME TypeOK, SizeNeverUndercounted, NEW t \in Threads, EvictStep(t)
    PROVE  SizeNeverUndercounted'
<1> USE DEF Doing, Unsubtracted, Unadded, Goto, Return
<1> DEFINE k == local[t].victim
<1>0. pc \in [Threads -> Steps]
  BY DEF TypeOK
<1>1. CASE EvictCheck(t) \/ EvictPop(t) \/ EvictStats(t) \/ EvictFail(t)
  <2>1. UNCHANGED <<Stored, Unsubtracted, Unadded, size_bytes>>
    BY <1>0, <1>1 DEF EvictCheck, EvictPop, EvictStats, EvictFail, CountOneLess, Stored
  <2>2. QED
    <3> HIDE DEF Unsubtracted, Unadded
    <3>1. QED BY <2>1, CoverLess
<1>2. CASE EvictRemove(t)
  <2>1. k \in Keys
    BY <1>2 DEF EvictRemove, TypeOK
  <2>2. Stored' = Stored \ {k}
    BY <1>2, <2>1, ForgetStored DEF EvictRemove
  <2>3. CASE k \in Stored
    <3>1. Unsubtracted' = Unsubtracted \cup {t} /\ UNCHANGED <<Unadded, size_bytes>>
      BY <1>0, <1>2, <2>3 DEF EvictRemove
    <3>2. QED
      <4> HIDE DEF Unsubtracted, Unadded
      <4>1. QED BY <2>2, <2>3, <3>1, CoverRemove
  <2>4. CASE k \notin Stored
    <3>1. UNCHANGED <<Unsubtracted, Unadded, size_bytes>>
      BY <1>0, <1>2, <2>4 DEF EvictRemove
    <3>2. QED
      <4> HIDE DEF Unsubtracted, Unadded
      <4>1. QED BY <2>2, <3>1, CoverLess
  <2>5. QED BY <2>3, <2>4
<1>3. CASE EvictSub(t)
  <2>1. /\ SubtractEntry /\ t \in Unsubtracted /\ Unsubtracted' = Unsubtracted \ {t}
        /\ UNCHANGED <<Stored, Unadded>>
    BY <1>0, <1>3 DEF EvictSub, Stored
  <2>2. QED
    <3> HIDE DEF Unsubtracted, Unadded
    <3>1. QED BY <2>1, CoverSub
<1>4. QED BY <1>1, <1>2, <1>3 DEF EvictStep

LEMMA CoverReadStep ==
    ASSUME TypeOK, SizeNeverUndercounted, NEW t \in Threads, ReadStep(t)
    PROVE  SizeNeverUndercounted'
<1>1. Stored' \subseteq Stored
  <2>1. CASE GetExpire(t)
    <3>1. call[t].key \in Keys /\ Forget(call[t].key)
      BY <2>1, CallShape DEF GetExpire, TypeOK
    <3>2. QED BY <3>1, ForgetStored
  <2>2. CASE ~ GetExpire(t)
    BY <2>2 DEF ReadStep, GetCheck, GetRead, GetAccess, GetHit, GetMiss, Exists, Stored
  <2>3. QED BY <2>1, <2>2
<1>2. UNCHANGED <<Unsubtracted, Unadded, size_bytes>>
  BY DEF TypeOK, Doing, Unsubtracted, Unadded, Goto, Return, ReadStep, GetCheck,
         GetExpire, GetRead, GetAccess, GetHit, GetMiss, Exists
<1>3. QED BY <1>1, <1>2, CoverLess

LEMMA CoverDeleteStep ==
    ASSUME TypeOK, SizeNeverUndercounted, NEW t \in Threads, DeleteStep(t)
    PROVE  SizeNeverUndercounted'
<1> USE DEF Doing, Unsubtracted, Unadded, Goto, Return
<1> DEFINE k == call[t].key
<1>0. pc \in [Threads -> Steps]
  BY DEF TypeOK
<1>1. CASE DelRemove(t)
  <2>1. k \in Keys
    BY <1>1, CallShape DEF DelRemove, TypeOK
  <2>2. Stored' = Stored \ {k}
    BY <1>1, <2>1, ForgetStored DEF DelRemove
  <2>3. CASE k \in Stored
    <3>1. Unsubtracted' = Unsubtracted \cup {t} /\ UNCHANGED <<Unadded, size_bytes>>
      BY <1>0, <1>1, <2>3 DEF DelRemove
    <3>2. QED
      <4> HIDE DEF Unsubtracted, Unadded
      <4>1. QED BY <2>2, <2>3, <3>1, CoverRemove
  <2>4. CASE k \notin Stored
    <3>1. UNCHANGED <<Unsubtracted, Unadded, size_bytes>>
      BY <1>0, <1>1, <2>4 DEF DelRemove
    <3>2. QED
      <4> HIDE DEF Unsubtracted, Unadded
      <4>1. QED BY <2>2, <3>1, CoverLess
  <2>5. QED BY <2>3, <2>4
<1>2. CASE DelSub(t)
  <2>1. /\ SubtractEntry /\ t \in Unsubtracted /\ Unsubtracted' = Unsubtracted \ {t}
        /\ UNCHANGED <<Stored, Unadded>>
    BY <1>0, <1>2 DEF DelSub, Stored
  <2>2. QED
    <3> HIDE DEF Unsubtracted, Unadded
    <3>1. QED BY <2>1, CoverSub
<1>3. CASE DelStats(t)
  <2>1. UNCHANGED <<Stored, Unsubtracted, Unadded, size_bytes>>
    BY <1>0, <1>3 DEF DelStats, CountOneLess, Stored
  <2>2. QED
    <3> HIDE DEF Unsubtracted, Unadded
    <3>1. QED BY <2>1, CoverLess
<1>4. QED BY <1>1, <1>2, <1>3 DEF DeleteStep

LEMMA CoverBegin ==
    ASSUME TypeOK, SizeNeverUndercounted, NEW t \in Threads, Begin(t)
    PROVE  SizeNeverUndercounted'
<1>1. PICK c \in Requests : pc' = [pc EXCEPT ![t] = FirstStep[c.op]]
  BY DEF Begin
<1>2. FirstStep[c.op] \notin {"set_sub", "evict_sub", "del_sub", "set_add"}
  BY DEF Requests, FirstStep
<1>3. UNCHANGED <<Stored, Unsubtracted, Unadded, size_bytes>>
  BY <1>1, <1>2 DEF TypeOK, Begin, Stored, Unsubtracted, Unadded, Doing
<1>4. QED BY <1>3, CoverLess

-----------------------------------------------------------------------------
(* The theorems *)

\* No thread is in a call that the cache's users do not make.
OnlyOps == \A t \in Threads : call[t].op \in Ops \cup {None}

LEMMA OnlyOpsInit == Init => OnlyOps
PROOF BY DEF Init, OnlyOps, NoCall

LEMMA OnlyOpsNext == TypeOK /\ OnlyOps /\ [Next]_vars => OnlyOps'
<1> SUFFICES ASSUME TypeOK, OnlyOps, [Next]_vars PROVE OnlyOps'
  OBVIOUS
<1> USE DEF TypeOK, OnlyOps
<1>1. CASE UNCHANGED call
  BY <1>1
<1>2. ASSUME NEW t \in Threads, call' = [call EXCEPT ![t] = NoCall]
      PROVE  OnlyOps'
  BY <1>2 DEF NoCall
<1>3. ASSUME NEW t \in Threads, Begin(t)
      PROVE  OnlyOps'
  BY <1>3 DEF Begin
<1>4. ASSUME NEW t \in Threads, Step(t)
      PROVE  UNCHANGED call \/ call' = [call EXCEPT ![t] = NoCall]
  <2> USE DEF Goto, Return
  <2>1. CASE SetStep(t)
    BY <2>1 DEF SetStep, SetRemove, SetSub, SetInsert, SetAdd, SetStats, SetPolicy
  <2>2. CASE EvictStep(t)
    BY <2>2 DEF EvictStep, EvictCheck, EvictPop, EvictRemove, EvictSub,
                EvictStats, EvictFail, CountOneLess
  <2>3. CASE ReadStep(t)
    BY <2>3 DEF ReadStep, GetCheck, GetExpire, GetRead, GetAccess, GetHit, GetMiss, Exists
  <2>4. CASE DeleteStep(t)
    BY <2>4 DEF DeleteStep, DelRemove, DelSub, DelStats, CountOneLess
  <2>5. CASE ClearStep(t)
    BY <2>5 DEF ClearStep, ClearEntries, ClearSize, ClearStats, ClearPolicy
  <2>6. QED BY <1>4, <2>1, <2>2, <2>3, <2>4, <2>5 DEF Step
<1>5. QED
  BY <1>1, <1>2, <1>3, <1>4 DEF Next, Finished, Expire, vars

LEMMA CoverNext ==
    ASSUME "clear" \notin Ops
    PROVE  TypeOK /\ OnlyOps /\ SizeNeverUndercounted /\ [Next]_vars
              => SizeNeverUndercounted'
<1> SUFFICES ASSUME TypeOK, OnlyOps, SizeNeverUndercounted, [Next]_vars
             PROVE  SizeNeverUndercounted'
  OBVIOUS
<1>1. CASE UNCHANGED vars
  BY <1>1 DEF SizeNeverUndercounted, vars, Stored, Unsubtracted, Unadded, Doing
<1>2. ASSUME NEW t \in Threads, Step(t)
      PROVE  SizeNeverUndercounted'
  <2>1. pc[t] \notin ClearSteps
    BY MemoryCacheAssumption DEF OnlyOps, TypeOK, ClearSteps
  <2>2. ~ ClearStep(t)
    BY <2>1 DEF ClearStep, ClearEntries, ClearSize, ClearStats, ClearPolicy, ClearSteps
  <2>3. QED
    BY <1>2, <2>2, CoverSetStep, CoverEvictStep, CoverReadStep, CoverDeleteStep DEF Step
<1>3. ASSUME NEW t \in Threads, Begin(t)
      PROVE  SizeNeverUndercounted'
  BY <1>3, CoverBegin
<1>4. ASSUME NEW k \in Keys, Expire(k)
      PROVE  SizeNeverUndercounted'
  <2>1. Stored' \subseteq Stored
    BY <1>4 DEF Expire, Stored, TypeOK
  <2>2. UNCHANGED <<Unsubtracted, Unadded, size_bytes>>
    BY <1>4 DEF Expire, Unsubtracted, Unadded, Doing
  <2>3. QED BY <2>1, <2>2, CoverLess
<1>5. QED
  BY <1>1, <1>2, <1>3, <1>4 DEF Next, Finished

\* In a cache nobody clears, size_bytes with the additions still to come
\* covers every entry stored and every removal not yet subtracted.
THEOREM SizeCovers ==
    ASSUME "clear" \notin Ops
    PROVE  Spec => []SizeNeverUndercounted
<1> DEFINE Inv == TypeOK /\ OnlyOps /\ SizeNeverUndercounted
<1>1. Init => Inv
  BY TypeInit, OnlyOpsInit, CoverInit
<1>2. Inv /\ [Next]_vars => Inv'
  BY TypeNext, OnlyOpsNext, CoverNext
<1>3. Inv => SizeNeverUndercounted
  OBVIOUS
<1> HIDE DEF Inv
<1>4. QED BY <1>1, <1>2, <1>3, PTL DEF Spec

\* What the two invariants say together of the entries themselves.
LEMMA BoundFollows ==
    TypeOK /\ ReservationBound /\ SizeNeverUndercounted => PhysicalBound
<1> SUFFICES ASSUME TypeOK, ReservationBound, SizeNeverUndercounted
             PROVE  PhysicalBound
  OBVIOUS
<1> DEFINE r == Cardinality(Reserving)
           a == Cardinality(Unadded)
           u == Cardinality(Unsubtracted)
           s == Cardinality(Stored)
           er == EntrySize * r
           ea == EntrySize * a
           es == EntrySize * s
           eo == EntrySize * (s + u)
           en == EntrySize * (N - 1)
<1>1. r \in Nat /\ a \in Nat /\ u \in Nat /\ s \in Nat
  BY DoingFinite, StoredFinite DEF Reserving, Unadded, Unsubtracted
<1>2. a <= r
  <2>1. Unadded \subseteq Reserving /\ IsFiniteSet(Reserving)
    BY DoingFinite DEF Unadded, Reserving, Doing
  <2>2. QED BY <2>1, FewerThan
<1>3. ea <= er /\ ea \in Nat /\ er \in Nat
  BY <1>1, <1>2, ScaleMono
<1>4. es <= eo /\ es \in Nat /\ eo \in Nat
  BY <1>1, ScaleMono
<1>5. en \in Int /\ size_bytes \in Nat /\ Capacity \in Nat
  BY NType, MemoryCacheAssumption DEF TypeOK
<1>6. size_bytes + er <= Capacity + en /\ eo <= size_bytes + ea
  BY DEF ReservationBound, SizeNeverUndercounted, Reserving
<1>7. es <= Capacity + en
  <2> HIDE DEF er, ea, es, eo, en
  <2>1. QED BY <1>3, <1>4, <1>5, <1>6
<1>8. QED BY <1>7 DEF PhysicalBound

\* In a cache nobody clears, N threads never store more than the capacity
\* and N - 1 entries; a single thread never exceeds the capacity.
THEOREM EntriesBounded ==
    ASSUME "clear" \notin Ops
    PROVE  Spec => []PhysicalBound
BY TypeCorrect, ReservationBounded, SizeCovers, BoundFollows, PTL

-----------------------------------------------------------------------------
(* EveryEntryEvictable *)

\* The eviction policy's states, and its promise not to lose a key: it
\* tracks what it is told of until it gives it to evict_for_space.
KeepsKeys(States) ==
    /\ PolicyNew \in States
    /\ \A p \in States, k \in Keys :
          /\ PolicyOnAccess(p, k) \in States
          /\ PolicyOnInsert(p, k) \in States
          /\ PolicyTracked(p) \subseteq PolicyTracked(PolicyOnAccess(p, k))
          /\ PolicyTracked(p) \cup {k} \subseteq PolicyTracked(PolicyOnInsert(p, k))
    /\ \A p \in States : \A outcome \in PolicyEvict(p) :
          /\ outcome.rest \in States
          /\ PolicyTracked(p) \ {outcome.key} \subseteq PolicyTracked(outcome.rest)

Inserting == {"set_add", "set_stats", "set_policy"}

\* The key thread t is about to tell the policy of, or to evict.
Holds(t, k) ==
    \/ pc[t] \in Inserting /\ call[t].key = k
    \/ pc[t] = "evict_remove" /\ local[t].victim = k

LEMMA EvictableIs ==
    EveryEntryEvictable <=>
        \A k \in Stored : k \in PolicyTracked(policy) \/ \E t \in Threads : Holds(t, k)
PROOF BY DEF EveryEntryEvictable, Holds, Inserting

LEMMA EvictableIsNext ==
    EveryEntryEvictable' <=>
        \A k \in Stored' : k \in PolicyTracked(policy') \/ \E t \in Threads : Holds(t, k)'
PROOF BY DEF EveryEntryEvictable, Holds, Inserting

\* A thread's step leaves the other threads where they are.
LEMMA OthersSame ==
    ASSUME TypeOK, NEW t \in Threads, Begin(t) \/ Step(t)
    PROVE  \A u \in Threads \ {t} :
              pc'[u] = pc[u] /\ call'[u] = call[u] /\ local'[u] = local[u]
<1> USE DEF TypeOK, Goto, Return
<1>1. CASE Begin(t)
  BY <1>1 DEF Begin
<1>2. CASE SetStep(t)
  BY <1>2 DEF SetStep, SetRemove, SetSub, SetInsert, SetAdd, SetStats, SetPolicy
<1>3. CASE EvictStep(t)
  BY <1>3 DEF EvictStep, EvictCheck, EvictPop, EvictRemove, EvictSub, EvictStats,
              EvictFail, CountOneLess
<1>4. CASE ReadStep(t)
  BY <1>4 DEF ReadStep, GetCheck, GetExpire, GetRead, GetAccess, GetHit, GetMiss, Exists
<1>5. CASE DeleteStep(t)
  BY <1>5 DEF DeleteStep, DelRemove, DelSub, DelStats, CountOneLess
<1>6. CASE ClearStep(t)
  BY <1>6 DEF ClearStep, ClearEntries, ClearSize, ClearStats, ClearPolicy
<1>7. QED BY <1>1, <1>2, <1>3, <1>4, <1>5, <1>6 DEF Step

LEMMA OthersStay ==
    ASSUME TypeOK, NEW t \in Threads, Begin(t) \/ Step(t)
    PROVE  \A u \in Threads \ {t} : \A k : Holds(u, k)' <=> Holds(u, k)
PROOF BY OthersSame DEF Holds

\* A step that stores nothing, after which the policy, or the thread, has
\* the key that the thread had.
LEMMA EvictableKept ==
    ASSUME TypeOK, EveryEntryEvictable, NEW t \in Threads, Begin(t) \/ Step(t),
           Stored' \subseteq Stored,
           \A k \in Stored' : k \in PolicyTracked(policy) =>
              k \in PolicyTracked(policy') \/ Holds(t, k)',
           \A k \in Stored' : Holds(t, k) => k \in PolicyTracked(policy') \/ Holds(t, k)'
    PROVE  EveryEntryEvictable'
<1>1. SUFFICES ASSUME NEW k \in Stored'
               PROVE  k \in PolicyTracked(policy') \/ \E u \in Threads : Holds(u, k)'
  BY EvictableIsNext
<1>2. k \in PolicyTracked(policy) \/ \E u \in Threads : Holds(u, k)
  BY EvictableIs
<1>3. ASSUME NEW u \in Threads \ {t}, Holds(u, k) PROVE Holds(u, k)'
  BY <1>3, OthersStay
<1>4. QED BY <1>2, <1>3

LEMMA EvictableSet ==
    ASSUME NEW States, KeepsKeys(States), policy \in States,
           TypeOK, EveryEntryEvictable, NEW t \in Threads, SetStep(t)
    PROVE  EveryEntryEvictable' /\ policy' \in States
<1>1. Begin(t) \/ Step(t)
  BY DEF Step
<1> USE DEF TypeOK, Goto, Return, Holds, Inserting
<1>2. CASE SetRemove(t)
  <2>1. Stored' \subseteq Stored /\ policy' = policy /\ pc[t] = "set_remove"
    BY <1>2 DEF SetRemove, Forget, Stored
  <2>2. QED BY <1>1, <2>1, EvictableKept
<1>3. CASE SetSub(t)
  <2>1. Stored' \subseteq Stored /\ policy' = policy /\ pc[t] = "set_sub"
    BY <1>3 DEF SetSub, Stored
  <2>2. QED BY <1>1, <2>1, EvictableKept
<1>4. CASE SetInsert(t)
  <2>1. /\ Stored' \subseteq Stored \cup {call[t].key} /\ policy' = policy
        /\ pc[t] = "set_insert" /\ pc'[t] = "set_add" /\ call'[t].key = call[t].key
    <3>1. /\ policy' = policy /\ pc[t] = "set_insert" /\ call' = call
          /\ pc' = [pc EXCEPT ![t] = "set_add"]
      BY <1>4 DEF SetInsert
    <3>2. \A x \in Keys : x # call[t].key => entries'[x] = entries[x]
      BY <1>4 DEF SetInsert
    <3>3. Stored' \subseteq Stored \cup {call[t].key}
      BY <3>2 DEF Stored
    <3>4. pc'[t] = "set_add" /\ call'[t].key = call[t].key
      BY <3>1
    <3>5. QED BY <3>1, <3>3, <3>4
  <2>2. ASSUME NEW k \in Stored'
        PROVE  k \in PolicyTracked(policy') \/ \E u \in Threads : Holds(u, k)'
    <3>1. CASE k = call[t].key
      BY <2>1, <3>1
    <3>2. CASE k # call[t].key
      <4>1. k \in PolicyTracked(policy) \/ \E u \in Threads : Holds(u, k)
        BY <2>1, <3>2, EvictableIs
      <4>2. ~ Holds(t, k)
        BY <2>1
      <4>3. \A u \in Threads \ {t} : Holds(u, k)' <=> Holds(u, k)
        BY <1>1, OthersStay
      <4> HIDE DEF Holds
      <4>4. QED BY <2>1, <4>1, <4>2, <4>3
    <3>3. QED BY <3>1, <3>2
  <2>3. QED BY <2>1, <2>2, EvictableIsNext
<1>5. CASE SetAdd(t) \/ SetStats(t)
  <2>1. /\ Stored' = Stored /\ policy' = policy /\ call' = call
        /\ pc[t] \in Inserting /\ pc'[t] \in Inserting
    BY <1>5 DEF SetAdd, SetStats, Stored
  <2>2. QED BY <1>1, <2>1, EvictableKept
<1>6. CASE SetPolicy(t)
  <2>1. PICK k \in Keys : k = call[t].key
    BY <1>6, CallShape DEF SetPolicy, SetSteps
  <2>2. /\ Stored' = Stored /\ policy' = PolicyOnInsert(policy, k)
        /\ pc[t] = "set_policy"
    BY <1>6, <2>1 DEF SetPolicy, Stored
  <2>3. /\ policy' \in States
        /\ PolicyTracked(policy) \cup {k} \subseteq PolicyTracked(policy')
    BY <2>2 DEF KeepsKeys
  <2>4. QED BY <1>1, <2>1, <2>2, <2>3, EvictableKept
<1>7. QED BY <1>2, <1>3, <1>4, <1>5, <1>6 DEF SetStep

LEMMA EvictableEvict ==
    ASSUME NEW States, KeepsKeys(States), policy \in States,
           TypeOK, EveryEntryEvictable, NEW t \in Threads, EvictStep(t)
    PROVE  EveryEntryEvictable' /\ policy' \in States
<1>1. Begin(t) \/ Step(t)
  BY DEF Step
<1> USE DEF TypeOK, Goto, Return, Holds, Inserting
<1>2. CASE EvictCheck(t) \/ EvictSub(t) \/ EvictStats(t) \/ EvictFail(t)
  <2>1. /\ Stored' = Stored /\ policy' = policy
        /\ pc[t] \in {"evict_check", "evict_sub", "evict_stats", "evict_fail"}
    BY <1>2 DEF EvictCheck, EvictSub, EvictStats, EvictFail, CountOneLess, Stored
  <2>2. QED BY <1>1, <2>1, EvictableKept
<1>3. CASE EvictPop(t)
  <2>1. PICK outcome \in PolicyEvict(policy) :
           /\ policy' = outcome.rest
           /\ \/ outcome.key \in Keys /\ local' = [local EXCEPT ![t].victim = outcome.key]
                 /\ pc' = [pc EXCEPT ![t] = "evict_remove"]
              \/ outcome.key = None
    BY <1>3 DEF EvictPop
  <2>2. /\ policy' \in States
        /\ PolicyTracked(policy) \ {outcome.key} \subseteq PolicyTracked(policy')
    BY <2>1 DEF KeepsKeys
  <2>3. Stored' = Stored /\ Stored \subseteq Keys /\ pc[t] = "evict_pop"
    BY <1>3 DEF EvictPop, Stored
  <2>4. outcome.key \in Keys => Holds(t, outcome.key)'
    <3>1. local[t] \in Locals /\ None \notin Keys
      BY MemoryCacheAssumption
    <3>2. QED BY <2>1, <3>1 DEF Locals
  <2>5. outcome.key \in Keys \cup {None} /\ None \notin Keys
    BY <2>1, MemoryCacheAssumption
  <2>6. \A k \in Stored' : k \in PolicyTracked(policy) =>
              k \in PolicyTracked(policy') \/ Holds(t, k)'
    BY <2>2, <2>3, <2>4, <2>5
  <2>7. QED BY <1>1, <2>2, <2>3, <2>6, EvictableKept
<1>4. CASE EvictRemove(t)
  <2>1. /\ pc[t] = "evict_remove" /\ local[t].victim \in Keys
        /\ Forget(local[t].victim) /\ policy' = policy
    BY <1>4 DEF EvictRemove
  <2>2. Stored' = Stored \ {local[t].victim}
    BY <2>1, ForgetStored
  <2>3. QED BY <1>1, <2>1, <2>2, EvictableKept
<1>5. QED BY <1>2, <1>3, <1>4 DEF EvictStep

LEMMA EvictableRead ==
    ASSUME NEW States, KeepsKeys(States), policy \in States,
           TypeOK, EveryEntryEvictable, NEW t \in Threads, ReadStep(t) \/ DeleteStep(t)
    PROVE  EveryEntryEvictable' /\ policy' \in States
<1>1. Begin(t) \/ Step(t)
  BY DEF Step
<1>2. pc[t] \notin Inserting \cup {"evict_remove"}
  BY DEF Inserting, ReadStep, GetCheck, GetExpire, GetRead, GetAccess, GetHit, GetMiss,
         Exists, DeleteStep, DelRemove, DelSub, DelStats
<1>3. \A k : ~ Holds(t, k)
  BY <1>2 DEF Holds
<1>4. Stored' \subseteq Stored
  BY DEF TypeOK, Stored, Forget, ReadStep, GetCheck, GetExpire, GetRead, GetAccess,
         GetHit, GetMiss, Exists, DeleteStep, DelRemove, DelSub, DelStats
<1>5. CASE GetAccess(t)
  <2>1. PICK k \in Keys : k = call[t].key
    BY <1>5, CallShape DEF GetAccess, TypeOK
  <2>2. policy' = PolicyOnAccess(policy, k)
    BY <1>5, <2>1 DEF GetAccess
  <2>3. policy' \in States /\ PolicyTracked(policy) \subseteq PolicyTracked(policy')
    BY <2>2 DEF KeepsKeys
  <2>4. QED BY <1>1, <1>3, <1>4, <2>3, EvictableKept
<1>6. CASE ~ GetAccess(t)
  <2>1. policy' = policy
    BY <1>6 DEF ReadStep, GetCheck, GetExpire, GetRead, GetHit, GetMiss, Exists,
                DeleteStep, DelRemove, DelSub, DelStats
  <2>2. QED BY <1>1, <1>3, <1>4, <2>1, EvictableKept
<1>7. QED BY <1>5, <1>6

LEMMA EvictableBegin ==
    ASSUME TypeOK, EveryEntryEvictable, NEW t \in Threads, Begin(t)
    PROVE  EveryEntryEvictable' /\ policy' = policy
<1>1. pc[t] = "idle" /\ Stored' = Stored /\ policy' = policy
  BY DEF Begin, Stored
<1>2. \A k : ~ Holds(t, k)
  BY <1>1 DEF Holds, Inserting
<1>3. QED BY <1>1, <1>2, EvictableKept

LEMMA EvictableNext ==
    ASSUME NEW States, KeepsKeys(States), "clear" \notin Ops
    PROVE  TypeOK /\ OnlyOps /\ policy \in States /\ EveryEntryEvictable /\ [Next]_vars
              => EveryEntryEvictable' /\ policy' \in States
<1> SUFFICES ASSUME TypeOK, OnlyOps, policy \in States, EveryEntryEvictable, [Next]_vars
             PROVE  EveryEntryEvictable' /\ policy' \in States
  OBVIOUS
<1>1. CASE Finished \/ UNCHANGED vars
  BY <1>1 DEF Finished, vars, EveryEntryEvictable, Stored
<1>2. ASSUME NEW t \in Threads, Step(t)
      PROVE  EveryEntryEvictable' /\ policy' \in States
  <2>1. pc[t] \notin ClearSteps
    BY MemoryCacheAssumption DEF OnlyOps, TypeOK, ClearSteps
  <2>2. ~ ClearStep(t)
    BY <2>1 DEF ClearStep, ClearEntries, ClearSize, ClearStats, ClearPolicy, ClearSteps
  <2>3. QED BY <1>2, <2>2, EvictableSet, EvictableEvict, EvictableRead DEF Step
<1>3. ASSUME NEW t \in Threads, Begin(t)
      PROVE  EveryEntryEvictable' /\ policy' \in States
  BY <1>3, EvictableBegin
<1>4. ASSUME NEW k \in Keys, Expire(k)
      PROVE  EveryEntryEvictable' /\ policy' \in States
  <2>1. Stored' \subseteq Stored
    BY <1>4 DEF Expire, Stored, TypeOK
  <2>2. UNCHANGED <<policy, pc, call, local>>
    BY <1>4 DEF Expire
  <2>3. QED BY <2>1, <2>2 DEF EveryEntryEvictable
<1>5. QED BY <1>1, <1>2, <1>3, <1>4 DEF Next

\* No entry of src/memory.rs escapes eviction, however sets, gets, deletes
\* and evictions of any number of threads interleave, under a policy that
\* loses no key and in a cache nobody clears.
THEOREM EntriesEvictable ==
    ASSUME NEW CONSTANT States, KeepsKeys(States), "clear" \notin Ops
    PROVE  Spec => []EveryEntryEvictable
<1> DEFINE Inv == TypeOK /\ OnlyOps /\ policy \in States /\ EveryEntryEvictable
<1>1. Init => Inv
  <2>1. Init => policy \in States /\ EveryEntryEvictable
    BY DEF Init, KeepsKeys, EveryEntryEvictable, Stored
  <2>2. QED BY <2>1, TypeInit, OnlyOpsInit
<1>2. Inv /\ [Next]_vars => Inv'
  BY TypeNext, OnlyOpsNext, EvictableNext
<1>3. Inv => EveryEntryEvictable
  OBVIOUS
<1> HIDE DEF Inv
<1>4. QED BY <1>1, <1>2, <1>3, PTL DEF Spec

-----------------------------------------------------------------------------
(* EntriesSettle *)

\* usize counts modulo Width.
LEMMA ModSmall == ASSUME NEW n \in 0 .. Width - 1 PROVE n % Width = n
PROOF BY MemoryCacheAssumption

LEMMA ModWidth == Width % Width = 0 /\ (-1) % Width = Width - 1
PROOF BY MemoryCacheAssumption

LEMMA CountUp ==
    ASSUME NEW n \in 0 .. Width - 1
    PROVE  (n + 1) % Width = n + 1 \/ (n + 1) % Width = n + 1 - Width
<1>1. CASE n + 1 \in 0 .. Width - 1
  BY <1>1, ModSmall
<1>2. CASE n + 1 = Width
  BY <1>2, ModWidth, MemoryCacheAssumption
<1>3. QED BY <1>1, <1>2, MemoryCacheAssumption

LEMMA CountDown ==
    ASSUME NEW n \in 0 .. Width - 1
    PROVE  (n - 1) % Width = n - 1 \/ (n - 1) % Width = n - 1 + Width
<1>1. CASE n - 1 \in 0 .. Width - 1
  BY <1>1, ModSmall
<1>2. CASE n = 0
  <2>1. n - 1 = -1
    BY <1>2
  <2>2. QED BY <2>1, ModWidth, MemoryCacheAssumption
<1>3. QED BY <1>1, <1>2, MemoryCacheAssumption

\* The number e, not wrapped, that stats.entries stands for.
Unwraps(e) == \E q \in Int : e = stats.entries + q * Width

\* A step after which stats.entries stands for g more.
CountsBy(e, g) == Unwraps(e + g)'

LEMMA UnwrapsUp ==
    ASSUME TypeOK, NEW e \in Int, Unwraps(e), stats'.entries = (stats.entries + 1) % Width
    PROVE  CountsBy(e, 1)
<1>1. PICK q \in Int : e = stats.entries + q * Width
  BY DEF Unwraps
<1>2. stats.entries \in 0 .. Width - 1
  BY DEF TypeOK
<1>3. stats'.entries = stats.entries + 1 \/ stats'.entries = stats.entries + 1 - Width
  BY <1>2, CountUp
<1>4. (q + 1) * Width = q * Width + Width
  BY MemoryCacheAssumption
<1>5. q * Width \in Int /\ Width \in Int /\ stats.entries \in Int
  BY <1>2, MemoryCacheAssumption
<1>6. \/ e + 1 = stats'.entries + q * Width
      \/ e + 1 = stats'.entries + (q + 1) * Width
  BY <1>1, <1>3, <1>4, <1>5
<1>7. q + 1 \in Int
  OBVIOUS
<1>8. QED BY <1>6, <1>7 DEF CountsBy, Unwraps

LEMMA UnwrapsDown ==
    ASSUME TypeOK, NEW e \in Int, Unwraps(e), stats'.entries = (stats.entries - 1) % Width
    PROVE  CountsBy(e, -1)
<1>1. PICK q \in Int : e = stats.entries + q * Width
  BY DEF Unwraps
<1>2. stats.entries \in 0 .. Width - 1
  BY DEF TypeOK
<1>3. stats'.entries = stats.entries - 1 \/ stats'.entries = stats.entries - 1 + Width
  BY <1>2, CountDown
<1>4. (q - 1) * Width = q * Width - Width
  BY MemoryCacheAssumption
<1>5. q * Width \in Int /\ Width \in Int /\ stats.entries \in Int
  BY <1>2, MemoryCacheAssumption
<1>6. \/ e - 1 = stats'.entries + q * Width
      \/ e - 1 = stats'.entries + (q - 1) * Width
  BY <1>1, <1>3, <1>4, <1>5
<1>7. q - 1 \in Int
  OBVIOUS
<1>8. QED BY <1>6, <1>7 DEF CountsBy, Unwraps

LEMMA UnwrapsIs ==
    ASSUME TypeOK, NEW e \in 0 .. Width - 1, Unwraps(e)
    PROVE  stats.entries = e
<1>1. PICK q \in Int : e = stats.entries + q * Width
  BY DEF Unwraps
<1>2. stats.entries \in 0 .. Width - 1 /\ Width \in Nat
  BY MemoryCacheAssumption DEF TypeOK
<1>3. q >= 1 => q * Width >= Width
  BY <1>2
<1>4. q <= -1 => q * Width <= - Width
  BY <1>2
<1>5. q * Width \in Int
  BY <1>2
<1>6. q = 0
  BY <1>1, <1>2, <1>3, <1>4, <1>5
<1>7. QED BY <1>1, <1>2, <1>6

-----------------------------------------------------------------------------
(* What the calls under way will still do to the count *)

Replacing == {"set_sub", "set_insert", "evict_check", "evict_pop", "evict_remove",
              "evict_sub", "evict_stats", "evict_fail"}
Uncounting == {"evict_sub", "evict_stats", "del_sub", "del_stats"}

\* A set has removed its key's old entry, which stays counted; a call has
\* removed an entry that it will count down; a set has inserted an entry
\* that it will count; a set may yet count an entry.
Replaces(t) == IF pc[t] \in Replacing /\ local[t].old_size # None THEN 1 ELSE 0
Uncounts(t) == IF pc[t] \in Uncounting THEN 1 ELSE 0
Counts(t) ==
    IF pc[t] \in {"set_add", "set_stats"} /\ local[t].old_size = None THEN 1 ELSE 0
MayCount(t) == IF pc[t] \in SetSteps \ {"set_policy"} THEN 1 ELSE 0

Replacers == {t \in Threads : Replaces(t) = 1}
Uncounters == {t \in Threads : Uncounts(t) = 1}
Counters == {t \in Threads : Counts(t) = 1}
MayCounters == {t \in Threads : MayCount(t) = 1}

\* The number of entries that stats.entries stands for, once the calls under
\* way have counted, is not less than the entries stored and the entries
\* removed but not counted down; and each call counts one entry at most.
Balanced(e) ==
    /\ Cardinality(Stored) + Cardinality(Replacers) + Cardinality(Uncounters)
          <= e + Cardinality(Counters)
    /\ e + Cardinality(MayCounters) <= calls

Settling == \E e \in Int : Unwraps(e) /\ Balanced(e)

\* A call that begins to set has no old entry.
NoOldYet == \A t \in Threads : pc[t] \in {"idle", "set_remove"} => local[t].old_size = None

-----------------------------------------------------------------------------
(* One thread steps *)

\* Two sets that differ in t at most.
LEMMA ApartInOne ==
    ASSUME NEW A, NEW B, NEW t, NEW a, NEW b, IsFiniteSet(A), A \ {t} = B \ {t},
           a = (IF t \in A THEN 1 ELSE 0), b = (IF t \in B THEN 1 ELSE 0)
    PROVE  /\ IsFiniteSet(B) /\ Cardinality(A) \in Nat /\ Cardinality(B) \in Nat
           /\ Cardinality(B) - b = Cardinality(A) - a
<1> DEFINE C == A \ {t}
<1>1. IsFiniteSet(C) /\ t \notin C /\ Cardinality(C) \in Nat
  BY FS_RemoveElement, FS_Subset, FS_CardinalityType
<1>2. IsFiniteSet(C \cup {t}) /\ Cardinality(C \cup {t}) = Cardinality(C) + 1
  BY <1>1, FS_AddElement
<1>3. A = (IF t \in A THEN C \cup {t} ELSE C) /\ B = (IF t \in B THEN C \cup {t} ELSE C)
  OBVIOUS
<1> HIDE DEF C
<1>4. IsFiniteSet(B)
  BY <1>1, <1>2, <1>3
<1>5. Cardinality(A) = Cardinality(C) + a
  BY <1>1, <1>2, <1>3
<1>6. Cardinality(B) = Cardinality(C) + b
  BY <1>1, <1>2, <1>3
<1>7. QED BY <1>1, <1>4, <1>5, <1>6

LEMMA ThreadsApart ==
    ASSUME TypeOK, NEW t \in Threads, Begin(t) \/ Step(t)
    PROVE  /\ Cardinality(Replacers') - Replaces(t)' = Cardinality(Replacers) - Replaces(t)
           /\ Cardinality(Uncounters') - Uncounts(t)' = Cardinality(Uncounters) - Uncounts(t)
           /\ Cardinality(Counters') - Counts(t)' = Cardinality(Counters) - Counts(t)
           /\ Cardinality(MayCounters') - MayCount(t)'
                 = Cardinality(MayCounters) - MayCount(t)
<1>1. \A u \in Threads \ {t} : /\ Replaces(u)' = Replaces(u) /\ Uncounts(u)' = Uncounts(u)
                               /\ Counts(u)' = Counts(u) /\ MayCount(u)' = MayCount(u)
  BY OthersSame DEF Replaces, Uncounts, Counts, MayCount
<1>2. /\ IsFiniteSet(Replacers) /\ IsFiniteSet(Uncounters)
      /\ IsFiniteSet(Counters) /\ IsFiniteSet(MayCounters)
  BY MemoryCacheAssumption, FS_Subset DEF Replacers, Uncounters, Counters, MayCounters
<1>3. Cardinality(Replacers') - Replaces(t)' = Cardinality(Replacers) - Replaces(t)
  <2>1. Replacers \ {t} = Replacers' \ {t}
    BY <1>1 DEF Replacers
  <2>2. Replaces(t) = (IF t \in Replacers THEN 1 ELSE 0)
        /\ Replaces(t)' = (IF t \in Replacers' THEN 1 ELSE 0)
    BY DEF Replacers, Replaces
  <2>3. QED BY <1>2, <2>1, <2>2, ApartInOne
<1>4. Cardinality(Uncounters') - Uncounts(t)' = Cardinality(Uncounters) - Uncounts(t)
  <2>1. Uncounters \ {t} = Uncounters' \ {t}
    BY <1>1 DEF Uncounters
  <2>2. Uncounts(t) = (IF t \in Uncounters THEN 1 ELSE 0)
        /\ Uncounts(t)' = (IF t \in Uncounters' THEN 1 ELSE 0)
    BY DEF Uncounters, Uncounts
  <2>3. QED BY <1>2, <2>1, <2>2, ApartInOne
<1>5. Cardinality(Counters') - Counts(t)' = Cardinality(Counters) - Counts(t)
  <2>1. Counters \ {t} = Counters' \ {t}
    BY <1>1 DEF Counters
  <2>2. Counts(t) = (IF t \in Counters THEN 1 ELSE 0)
        /\ Counts(t)' = (IF t \in Counters' THEN 1 ELSE 0)
    BY DEF Counters, Counts
  <2>3. QED BY <1>2, <2>1, <2>2, ApartInOne
<1>6. Cardinality(MayCounters') - MayCount(t)' = Cardinality(MayCounters) - MayCount(t)
  <2>1. MayCounters \ {t} = MayCounters' \ {t}
    BY <1>1 DEF MayCounters
  <2>2. MayCount(t) = (IF t \in MayCounters THEN 1 ELSE 0)
        /\ MayCount(t)' = (IF t \in MayCounters' THEN 1 ELSE 0)
    BY DEF MayCounters, MayCount
  <2>3. QED BY <1>2, <2>1, <2>2, ApartInOne
<1>7. QED BY <1>3, <1>4, <1>5, <1>6

LEMMA SettleTypes ==
    /\ Cardinality(Stored) \in Nat /\ Cardinality(Replacers) \in Nat
    /\ Cardinality(Uncounters) \in Nat /\ Cardinality(Counters) \in Nat
    /\ Cardinality(MayCounters) \in Nat
<1>1. /\ IsFiniteSet(Replacers) /\ IsFiniteSet(Uncounters)
      /\ IsFiniteSet(Counters) /\ IsFiniteSet(MayCounters)
  BY MemoryCacheAssumption, FS_Subset DEF Replacers, Uncounters, Counters, MayCounters
<1>2. QED BY <1>1, StoredFinite, FS_CardinalityType

LEMMA SettleTypesNext ==
    /\ Cardinality(Stored') \in Nat /\ Cardinality(Replacers') \in Nat
    /\ Cardinality(Uncounters') \in Nat /\ Cardinality(Counters') \in Nat
    /\ Cardinality(MayCounters') \in Nat
<1>1. /\ IsFiniteSet(Replacers') /\ IsFiniteSet(Uncounters')
      /\ IsFiniteSet(Counters') /\ IsFiniteSet(MayCounters') /\ IsFiniteSet(Stored')
  BY MemoryCacheAssumption, FS_Subset DEF Replacers, Uncounters, Counters, MayCounters, Stored
<1>2. QED BY <1>1, FS_CardinalityType

\* The step of a thread, as far as the balance sees it: d entries more are
\* stored at most, g more are counted, and the calls make up for it.
StoresBy(d) == Cardinality(Stored') <= Cardinality(Stored) + d
MakesUp(t, d, g) ==
    /\ d + Replaces(t)' + Uncounts(t)' - Counts(t)'
          <= g + Replaces(t) + Uncounts(t) - Counts(t)
    /\ g + MayCount(t)' - calls' <= MayCount(t) - calls

LEMMA SettleStep ==
    ASSUME TypeOK, TypeOK', NEW t \in Threads, Begin(t) \/ Step(t),
           NEW e \in Int, Balanced(e), NEW g \in Int, NEW d \in Int,
           StoresBy(d), CountsBy(e, g), MakesUp(t, d, g)
    PROVE  Settling'
<1> USE DEF StoresBy, CountsBy, MakesUp
<1> DEFINE s == Cardinality(Stored)
           r == Cardinality(Replacers)
           u == Cardinality(Uncounters)
           c == Cardinality(Counters)
           m == Cardinality(MayCounters)
           s2 == Cardinality(Stored')
           r2 == Cardinality(Replacers')
           u2 == Cardinality(Uncounters')
           c2 == Cardinality(Counters')
           m2 == Cardinality(MayCounters')
<1>1. /\ s \in Nat /\ r \in Nat /\ u \in Nat /\ c \in Nat /\ m \in Nat
      /\ s2 \in Nat /\ r2 \in Nat /\ u2 \in Nat /\ c2 \in Nat /\ m2 \in Nat
  BY SettleTypes, SettleTypesNext
<1>2. /\ Replaces(t) \in {0, 1} /\ Uncounts(t) \in {0, 1} /\ Counts(t) \in {0, 1}
      /\ MayCount(t) \in {0, 1}
      /\ Replaces(t)' \in {0, 1} /\ Uncounts(t)' \in {0, 1} /\ Counts(t)' \in {0, 1}
      /\ MayCount(t)' \in {0, 1}
  BY DEF Replaces, Uncounts, Counts, MayCount
<1>3. /\ r2 - Replaces(t)' = r - Replaces(t) /\ u2 - Uncounts(t)' = u - Uncounts(t)
      /\ c2 - Counts(t)' = c - Counts(t) /\ m2 - MayCount(t)' = m - MayCount(t)
  BY ThreadsApart
<1>4. s + r + u <= e + c /\ e + m <= calls
  BY DEF Balanced
<1>5. calls \in Int /\ calls' \in Int
  BY DEF TypeOK
<1>6. s2 <= s + d
  OBVIOUS
<1>7. s2 + r2 + u2 <= (e + g) + c2 /\ (e + g) + m2 <= calls'
  <2> HIDE DEF s, r, u, c, m, s2, r2, u2, c2, m2
  <2>1. QED BY <1>1, <1>2, <1>3, <1>4, <1>5, <1>6
<1>8. Balanced(e + g)'
  BY <1>7 DEF Balanced
<1>9. e + g \in Int
  OBVIOUS
<1>10. QED BY <1>8, <1>9 DEF Settling

LEMMA StoredLess ==
    ASSUME TypeOK, NEW k \in Keys, Forget(k)
    PROVE  (k \in Stored => StoresBy(-1)) /\ StoresBy(0)
<1>1. Stored' = Stored \ {k}
  BY ForgetStored
<1>2. CASE k \in Stored
  <2>1. Cardinality(Stored') = Cardinality(Stored) - 1
    BY <1>1, <1>2, StoredFinite, FS_RemoveElement
  <2>2. QED BY <2>1, StoredFinite DEF StoresBy
<1>3. CASE k \notin Stored
  <2>1. Stored' = Stored
    BY <1>1, <1>3
  <2>2. QED BY <1>3, <2>1, StoredFinite DEF StoresBy
<1>4. QED BY <1>2, <1>3

LEMMA StoredSame ==
    ASSUME entries' = entries
    PROVE  StoresBy(0)
<1>1. Stored' = Stored
  BY DEF Stored
<1>2. QED BY <1>1, StoredFinite DEF StoresBy

LEMMA StoredMore ==
    ASSUME NEW k, Stored' \subseteq Stored \cup {k}
    PROVE  StoresBy(1)
<1>1. IsFiniteSet(Stored \cup {k}) /\ Cardinality(Stored \cup {k}) \in Nat
      /\ Cardinality(Stored \cup {k}) <= Cardinality(Stored) + 1
  BY StoredFinite, FS_AddElement, FS_CardinalityType
<1>2. Cardinality(Stored') \in Nat
      /\ Cardinality(Stored') <= Cardinality(Stored \cup {k})
  BY <1>1, FewerThan
<1>3. QED BY <1>1, <1>2, StoredFinite DEF StoresBy

LEMMA UnwrapsSame ==
    ASSUME NEW e \in Int, Unwraps(e), stats'.entries = stats.entries
    PROVE  CountsBy(e, 0)
PROOF BY DEF Unwraps, CountsBy

LEMMA SettleSet ==
    ASSUME TypeOK, TypeOK', NoOldYet, Settling, NEW t \in Threads, SetStep(t)
    PROVE  Settling'
<1>1. Begin(t) \/ Step(t)
  BY DEF Step
<1>2. PICK e \in Int : Unwraps(e) /\ Balanced(e)
  BY DEF Settling
<1> USE DEF TypeOK, Goto, Return, Replaces, Uncounts, Counts, MayCount, Replacing,
            Uncounting, SetSteps
<1>3. local[t] \in Locals
  OBVIOUS
<1>4. CASE SetRemove(t)
  <2>1. PICK k \in Keys : k = call[t].key
    BY <1>4, CallShape DEF SetRemove
  <2>2. /\ Forget(k) /\ stats' = stats /\ calls' = calls /\ pc[t] = "set_remove"
    BY <1>4, <2>1 DEF SetRemove
  <2>3. local[t].old_size = None
    BY <2>2 DEF NoOldYet
  <2>4. CountsBy(e, 0)
    BY <1>2, <2>2, UnwrapsSame
  <2>5. CASE k \in Stored
    <3>1. pc'[t] = "set_sub"
      BY <1>4, <2>1, <2>5 DEF SetRemove
    <3>2. MakesUp(t, -1, 0)
      BY <2>2, <3>1 DEF MakesUp
    <3>3. StoresBy(-1)
      BY <2>2, <2>5, StoredLess
    <3> HIDE DEF TypeOK, Replaces, Uncounts, Counts, MayCount
    <3>4. QED BY <1>1, <1>2, <2>4, <3>2, <3>3, SettleStep
  <2>6. CASE k \notin Stored
    <3>1. pc'[t] = "evict_check" /\ local' = local
      BY <1>4, <2>1, <2>6 DEF SetRemove
    <3>2. MakesUp(t, 0, 0)
      BY <2>2, <2>3, <3>1 DEF MakesUp
    <3>3. StoresBy(0)
      BY <2>2, StoredLess
    <3> HIDE DEF TypeOK, Replaces, Uncounts, Counts, MayCount
    <3>4. QED BY <1>1, <1>2, <2>4, <3>2, <3>3, SettleStep
  <2>7. QED BY <2>5, <2>6
<1>5. CASE SetSub(t) \/ SetAdd(t) \/ SetPolicy(t)
  <2>1. /\ entries' = entries /\ stats' = stats /\ calls' = calls
        /\ \/ pc[t] = "set_sub" /\ pc'[t] = "evict_check" /\ local' = local
           \/ pc[t] = "set_add" /\ pc'[t] = "set_stats"
              /\ local'[t].old_size = local[t].old_size
           \/ pc[t] = "set_policy" /\ pc'[t] = "idle"
    BY <1>3, <1>5 DEF SetSub, SetAdd, SetPolicy, Locals
  <2>2. MakesUp(t, 0, 0)
      BY <2>1 DEF MakesUp
  <2>3. CountsBy(e, 0)
    BY <1>2, <2>1, UnwrapsSame
  <2>4. StoresBy(0)
    BY <2>1, StoredSame
  <2> HIDE DEF TypeOK, Replaces, Uncounts, Counts, MayCount
  <2>5. QED BY <1>1, <1>2, <2>2, <2>3, <2>4, SettleStep
<1>6. CASE SetInsert(t)
  <2>1. /\ stats' = stats /\ calls' = calls /\ local' = local
        /\ pc[t] = "set_insert" /\ pc'[t] = "set_add"
    BY <1>6 DEF SetInsert
  <2>2. Stored' \subseteq Stored \cup {call[t].key}
    <3>1. \A x \in Keys : x # call[t].key => entries'[x] = entries[x]
      BY <1>6 DEF SetInsert
    <3>2. QED BY <3>1 DEF Stored
  <2>3. StoresBy(1)
    BY <2>2, StoredMore
  <2>4. MakesUp(t, 1, 0)
      BY <2>1 DEF MakesUp
  <2>5. CountsBy(e, 0)
    BY <1>2, <2>1, UnwrapsSame
  <2> HIDE DEF TypeOK, Replaces, Uncounts, Counts, MayCount
  <2>6. QED BY <1>1, <1>2, <2>3, <2>4, <2>5, SettleStep
<1>7. CASE SetStats(t)
  <2>1. /\ entries' = entries /\ calls' = calls /\ local' = local
        /\ pc[t] = "set_stats" /\ pc'[t] = "set_policy"
    BY <1>7 DEF SetStats
  <2>2. StoresBy(0)
    BY <2>1, StoredSame
  <2>3. CASE local[t].old_size = None
    <3>1. stats'.entries = (stats.entries + 1) % Width
      BY <1>7, <2>3 DEF SetStats
    <3>2. CountsBy(e, 1)
      BY <1>2, <3>1, UnwrapsUp
    <3>3. MakesUp(t, 0, 1)
      BY <2>1, <2>3 DEF MakesUp
    <3> HIDE DEF TypeOK, Replaces, Uncounts, Counts, MayCount
    <3>4. QED BY <1>1, <1>2, <2>2, <3>2, <3>3, SettleStep
  <2>4. CASE local[t].old_size # None
    <3>1. stats'.entries = stats.entries
      BY <1>7, <2>4 DEF SetStats
    <3>2. CountsBy(e, 0)
      BY <1>2, <3>1, UnwrapsSame
    <3>3. MakesUp(t, 0, 0)
      BY <2>1, <2>4 DEF MakesUp
    <3> HIDE DEF TypeOK, Replaces, Uncounts, Counts, MayCount
    <3>4. QED BY <1>1, <1>2, <2>2, <3>2, <3>3, SettleStep
  <2>5. QED BY <2>3, <2>4
<1>8. QED BY <1>4, <1>5, <1>6, <1>7 DEF SetStep

LEMMA SettleEvict ==
    ASSUME TypeOK, TypeOK', Settling, NEW t \in Threads, EvictStep(t)
    PROVE  Settling'
<1>1. Begin(t) \/ Step(t)
  BY DEF Step
<1>2. PICK e \in Int : Unwraps(e) /\ Balanced(e)
  BY DEF Settling
<1> USE DEF TypeOK, Goto, Return, Replaces, Uncounts, Counts, MayCount, Replacing,
            Uncounting, SetSteps
<1>3. local[t] \in Locals
  OBVIOUS
<1>4. CASE EvictCheck(t) \/ EvictPop(t) \/ EvictSub(t) \/ EvictFail(t)
  <2>1. entries' = entries /\ stats' = stats /\ calls' = calls
    BY <1>4 DEF EvictCheck, EvictPop, EvictSub, EvictFail
  <2>2. \/ /\ pc[t] \in {"evict_check", "evict_pop", "evict_fail"}
           /\ pc'[t] \in {"set_insert", "evict_pop", "evict_remove", "evict_fail"}
           /\ local'[t].old_size = local[t].old_size
        \/ pc[t] = "evict_sub" /\ pc'[t] = "evict_stats" /\ local' = local
        \/ pc[t] = "evict_fail" /\ pc'[t] = "idle"
    BY <1>3, <1>4 DEF EvictCheck, EvictPop, EvictSub, EvictFail, Locals
  <2>3. MakesUp(t, 0, 0)
    BY <2>1, <2>2 DEF MakesUp
  <2>4. CountsBy(e, 0) /\ StoresBy(0)
    BY <1>2, <2>1, UnwrapsSame, StoredSame
  <2> HIDE DEF TypeOK, Replaces, Uncounts, Counts, MayCount
  <2>5. QED BY <1>1, <1>2, <2>3, <2>4, SettleStep
<1>5. CASE EvictRemove(t)
  <2>1. PICK k \in Keys : k = local[t].victim
    BY <1>5 DEF EvictRemove
  <2>2. /\ Forget(k) /\ stats' = stats /\ calls' = calls /\ pc[t] = "evict_remove"
        /\ local'[t].old_size = local[t].old_size
        /\ pc'[t] = (IF k \in Stored THEN "evict_sub" ELSE "evict_check")
    BY <1>3, <1>5, <2>1 DEF EvictRemove, Locals
  <2>3. CountsBy(e, 0)
    BY <1>2, <2>2, UnwrapsSame
  <2>4. CASE k \in Stored
    <3>1. MakesUp(t, -1, 0)
      BY <2>2, <2>4 DEF MakesUp
    <3>2. StoresBy(-1)
      BY <2>2, <2>4, StoredLess
    <3> HIDE DEF TypeOK, Replaces, Uncounts, Counts, MayCount
    <3>3. QED BY <1>1, <1>2, <2>3, <3>1, <3>2, SettleStep
  <2>5. CASE k \notin Stored
    <3>1. MakesUp(t, 0, 0)
      BY <2>2, <2>5 DEF MakesUp
    <3>2. StoresBy(0)
      BY <2>2, StoredLess
    <3> HIDE DEF TypeOK, Replaces, Uncounts, Counts, MayCount
    <3>3. QED BY <1>1, <1>2, <2>3, <3>1, <3>2, SettleStep
  <2>6. QED BY <2>4, <2>5
<1>6. CASE EvictStats(t)
  <2>1. /\ entries' = entries /\ calls' = calls /\ local' = local /\ pc[t] = "evict_stats"
    BY <1>6 DEF EvictStats, CountOneLess
  <2>2. StoresBy(0)
    BY <2>1, StoredSame
  <2>3. CASE pc'[t] = "panicked" /\ stats'.entries = stats.entries
    <3>1. MakesUp(t, 0, 0)
      BY <2>1, <2>3 DEF MakesUp
    <3>2. CountsBy(e, 0)
      BY <1>2, <2>3, UnwrapsSame
    <3> HIDE DEF TypeOK, Replaces, Uncounts, Counts, MayCount
    <3>3. QED BY <1>1, <1>2, <2>2, <3>1, <3>2, SettleStep
  <2>4. CASE pc'[t] = "evict_check" /\ stats'.entries = (stats.entries - 1) % Width
    <3>1. MakesUp(t, 0, -1)
      BY <2>1, <2>4 DEF MakesUp
    <3>2. CountsBy(e, -1)
      BY <1>2, <2>4, UnwrapsDown
    <3> HIDE DEF TypeOK, Replaces, Uncounts, Counts, MayCount
    <3>3. QED BY <1>1, <1>2, <2>2, <3>1, <3>2, SettleStep
  <2>5. QED BY <1>6, <2>3, <2>4 DEF EvictStats, CountOneLess
<1>7. QED BY <1>4, <1>5, <1>6 DEF EvictStep

LEMMA SettleDelete ==
    ASSUME TypeOK, TypeOK', Settling, NEW t \in Threads, DeleteStep(t)
    PROVE  Settling'
<1>1. Begin(t) \/ Step(t)
  BY DEF Step
<1>2. PICK e \in Int : Unwraps(e) /\ Balanced(e)
  BY DEF Settling
<1> USE DEF TypeOK, Goto, Return, Replaces, Uncounts, Counts, MayCount, Replacing,
            Uncounting, SetSteps
<1>3. CASE DelRemove(t)
  <2>1. PICK k \in Keys : k = call[t].key
    BY <1>3, CallShape DEF DelRemove
  <2>2. /\ Forget(k) /\ stats' = stats /\ calls' = calls /\ pc[t] = "del_remove"
        /\ pc'[t] = (IF k \in Stored THEN "del_sub" ELSE "idle")
    BY <1>3, <2>1 DEF DelRemove
  <2>3. CountsBy(e, 0)
    BY <1>2, <2>2, UnwrapsSame
  <2>4. CASE k \in Stored
    <3>1. MakesUp(t, -1, 0)
      BY <2>2, <2>4 DEF MakesUp
    <3>2. StoresBy(-1)
      BY <2>2, <2>4, StoredLess
    <3> HIDE DEF TypeOK, Replaces, Uncounts, Counts, MayCount
    <3>3. QED BY <1>1, <1>2, <2>3, <3>1, <3>2, SettleStep
  <2>5. CASE k \notin Stored
    <3>1. MakesUp(t, 0, 0)
      BY <2>2, <2>5 DEF MakesUp
    <3>2. StoresBy(0)
      BY <2>2, StoredLess
    <3> HIDE DEF TypeOK, Replaces, Uncounts, Counts, MayCount
    <3>3. QED BY <1>1, <1>2, <2>3, <3>1, <3>2, SettleStep
  <2>6. QED BY <2>4, <2>5
<1>4. CASE DelSub(t)
  <2>1. /\ entries' = entries /\ stats' = stats /\ calls' = calls
        /\ pc[t] = "del_sub" /\ pc'[t] = "del_stats"
    BY <1>4 DEF DelSub
  <2>2. MakesUp(t, 0, 0)
    BY <2>1 DEF MakesUp
  <2>3. CountsBy(e, 0) /\ StoresBy(0)
    BY <1>2, <2>1, UnwrapsSame, StoredSame
  <2> HIDE DEF TypeOK, Replaces, Uncounts, Counts, MayCount
  <2>4. QED BY <1>1, <1>2, <2>2, <2>3, SettleStep
<1>5. CASE DelStats(t)
  <2>1. /\ entries' = entries /\ calls' = calls /\ pc[t] = "del_stats"
        /\ pc'[t] \in {"panicked", "idle"}
    BY <1>5 DEF DelStats, CountOneLess
  <2>2. StoresBy(0)
    BY <2>1, StoredSame
  <2>3. CASE stats'.entries = stats.entries
    <3>1. MakesUp(t, 0, 0)
      BY <2>1 DEF MakesUp
    <3>2. CountsBy(e, 0)
      BY <1>2, <2>3, UnwrapsSame
    <3> HIDE DEF TypeOK, Replaces, Uncounts, Counts, MayCount
    <3>3. QED BY <1>1, <1>2, <2>2, <3>1, <3>2, SettleStep
  <2>4. CASE stats'.entries = (stats.entries - 1) % Width
    <3>1. MakesUp(t, 0, -1)
      BY <2>1 DEF MakesUp
    <3>2. CountsBy(e, -1)
      BY <1>2, <2>4, UnwrapsDown
    <3> HIDE DEF TypeOK, Replaces, Uncounts, Counts, MayCount
    <3>3. QED BY <1>1, <1>2, <2>2, <3>1, <3>2, SettleStep
  <2>5. QED BY <1>5, <2>3, <2>4 DEF DelStats, CountOneLess
<1>6. QED BY <1>3, <1>4, <1>5 DEF DeleteStep

LEMMA SettleRead ==
    ASSUME TypeOK, TypeOK', Settling, NEW t \in Threads, ReadStep(t)
    PROVE  Settling'
<1>1. Begin(t) \/ Step(t)
  BY DEF Step
<1>2. PICK e \in Int : Unwraps(e) /\ Balanced(e)
  BY DEF Settling
<1>3. /\ stats'.entries = stats.entries /\ calls' = calls
      /\ pc[t] \in {"get_check", "get_expire", "get_read", "get_access", "get_hit",
                    "get_miss", "exists"}
      /\ pc'[t] \in {"get_expire", "get_read", "get_access", "get_hit", "get_miss", "idle"}
  BY DEF TypeOK, Goto, Return, ReadStep, GetCheck, GetExpire, GetRead, GetAccess,
         GetHit, GetMiss, Exists
<1>4. MakesUp(t, 0, 0)
  BY <1>3 DEF MakesUp, TypeOK, Replaces, Uncounts, Counts, MayCount, Replacing, Uncounting,
              SetSteps
<1>5. StoresBy(0)
  <2>1. CASE GetExpire(t)
    <3>1. PICK k \in Keys : k = call[t].key
      BY <2>1, CallShape DEF GetExpire, TypeOK
    <3>2. Forget(k)
      BY <2>1, <3>1 DEF GetExpire
    <3>3. QED BY <3>2, StoredLess
  <2>2. CASE ~ GetExpire(t)
    <3>1. entries' = entries
      BY <2>2 DEF ReadStep, GetCheck, GetRead, GetAccess, GetHit, GetMiss, Exists
    <3>2. QED BY <3>1, StoredSame
  <2>3. QED BY <2>1, <2>2
<1>6. CountsBy(e, 0)
  BY <1>2, <1>3, UnwrapsSame
<1>7. QED BY <1>1, <1>2, <1>4, <1>5, <1>6, SettleStep

LEMMA SettleBegin ==
    ASSUME TypeOK, TypeOK', Settling, NEW t \in Threads, Begin(t)
    PROVE  Settling'
<1>1. PICK e \in Int : Unwraps(e) /\ Balanced(e)
  BY DEF Settling
<1>2. /\ entries' = entries /\ stats' = stats /\ calls' = calls + 1 /\ pc[t] = "idle"
      /\ pc'[t] \in {"set_remove", "get_check", "exists", "del_remove", "clear_entries"}
  <2>1. PICK c \in Requests : pc' = [pc EXCEPT ![t] = FirstStep[c.op]]
    BY DEF Begin
  <2>2. FirstStep[c.op] \in {"set_remove", "get_check", "exists", "del_remove",
                             "clear_entries"}
    BY DEF Requests, FirstStep
  <2>3. QED BY <2>1, <2>2 DEF Begin, TypeOK
<1>3. MakesUp(t, 0, 0)
  BY <1>2 DEF MakesUp, TypeOK, Replaces, Uncounts, Counts, MayCount, Replacing, Uncounting,
              SetSteps
<1>4. CountsBy(e, 0) /\ StoresBy(0)
  BY <1>1, <1>2, UnwrapsSame, StoredSame
<1>5. QED BY <1>1, <1>3, <1>4, SettleStep

-----------------------------------------------------------------------------
(* The invariant *)

LEMMA SettleInit == Init => Settling
<1> SUFFICES ASSUME Init PROVE Settling
  OBVIOUS
<1>1. Stored = {} /\ Replacers = {} /\ Uncounters = {} /\ Counters = {} /\ MayCounters = {}
  BY DEF Init, Stored, Replacers, Uncounters, Counters, MayCounters, Replaces, Uncounts,
         Counts, MayCount, Replacing, Uncounting, SetSteps
<1>2. Balanced(0)
  BY <1>1, FS_EmptySet DEF Balanced, Init
<1>3. Unwraps(0)
  <2>1. stats.entries = 0 /\ 0 * Width = 0
    BY MemoryCacheAssumption DEF Init
  <2>2. QED BY <2>1 DEF Unwraps
<1>4. QED BY <1>2, <1>3 DEF Settling

LEMMA SettleNext ==
    ASSUME "clear" \notin Ops
    PROVE  TypeOK /\ TypeOK' /\ OnlyOps /\ NoOldYet /\ Settling /\ [Next]_vars => Settling'
<1> SUFFICES ASSUME TypeOK, TypeOK', OnlyOps, NoOldYet, Settling, [Next]_vars
             PROVE  Settling'
  OBVIOUS
<1>1. ASSUME NEW t \in Threads, Step(t) PROVE Settling'
  <2>1. pc[t] \notin ClearSteps
    BY MemoryCacheAssumption DEF OnlyOps, TypeOK, ClearSteps
  <2>2. ~ ClearStep(t)
    BY <2>1 DEF ClearStep, ClearEntries, ClearSize, ClearStats, ClearPolicy, ClearSteps
  <2>3. QED
    BY <1>1, <2>2, SettleSet, SettleEvict, SettleRead, SettleDelete DEF Step
<1>2. ASSUME NEW t \in Threads, Begin(t) PROVE Settling'
  BY <1>2, SettleBegin
<1>3. CASE Finished \/ (\E k \in Keys : Expire(k)) \/ UNCHANGED vars
  <2>1. PICK e \in Int : Unwraps(e) /\ Balanced(e)
    BY DEF Settling
  <2>2. Stored' = Stored
    <3>1. ASSUME NEW k \in Keys, Expire(k) PROVE Stored' = Stored
      <4>1. PICK x : x = [entries[k] EXCEPT !.life = "expired"]
        OBVIOUS
      <4>2. entries[k] \in Entries
        BY <3>1 DEF Expire, Stored, TypeOK
      <4>3. x \in Entries
        BY <4>1, <4>2 DEF Entries, Lives
      <4>4. x # None
        BY <4>3, NoneIsNoEntry DEF Entries
      <4>5. entries' = [entries EXCEPT ![k] = x] /\ entries[k] # None
        BY <3>1, <4>1 DEF Expire, Stored
      <4>6. QED BY <4>4, <4>5 DEF Stored, TypeOK
    <3>2. CASE UNCHANGED entries
      BY <3>2 DEF Stored
    <3>3. QED BY <1>3, <3>1, <3>2 DEF Finished, vars
  <2>3. UNCHANGED <<stats, pc, local, calls>>
    BY <1>3 DEF Finished, Expire, vars
  <2>4. Unwraps(e)' /\ Balanced(e)'
    BY <2>1, <2>2, <2>3 DEF Unwraps, Balanced, Replacers, Uncounters, Counters, MayCounters,
                            Replaces, Uncounts, Counts, MayCount
  <2>5. QED BY <2>4 DEF Settling
<1>4. QED BY <1>1, <1>2, <1>3 DEF Next

LEMMA NoOldInit == Init => NoOldYet
PROOF BY DEF Init, NoOldYet, NoLocal

LEMMA NoOldNext == TypeOK /\ NoOldYet /\ [Next]_vars => NoOldYet'
<1> SUFFICES ASSUME TypeOK, NoOldYet, [Next]_vars PROVE NoOldYet'
  OBVIOUS
<1>1. ASSUME NEW t \in Threads, Begin(t) PROVE NoOldYet'
  <2>1. local[t] \in Locals
    BY DEF TypeOK
  <2>2. local'[t].old_size = local[t].old_size /\ pc[t] = "idle"
    BY <1>1, <2>1 DEF Begin, TypeOK, Locals
  <2>3. QED BY <1>1, <2>2, OthersSame DEF NoOldYet
<1>2. ASSUME NEW t \in Threads, Step(t) PROVE NoOldYet'
  <2>1. pc'[t] # "set_remove" /\ (pc'[t] = "idle" => local'[t].old_size = None)
    <3> USE DEF TypeOK, Goto, Return, NoLocal
    <3>1. CASE SetStep(t)
      BY <3>1 DEF SetStep, SetRemove, SetSub, SetInsert, SetAdd, SetStats, SetPolicy
    <3>2. CASE EvictStep(t)
      BY <3>2 DEF EvictStep, EvictCheck, EvictPop, EvictRemove, EvictSub, EvictStats,
                  EvictFail, CountOneLess
    <3>3. CASE ReadStep(t)
      BY <3>3 DEF ReadStep, GetCheck, GetExpire, GetRead, GetAccess, GetHit, GetMiss, Exists
    <3>4. CASE DeleteStep(t)
      BY <3>4 DEF DeleteStep, DelRemove, DelSub, DelStats, CountOneLess
    <3>5. CASE ClearStep(t)
      BY <3>5 DEF ClearStep, ClearEntries, ClearSize, ClearStats, ClearPolicy
    <3>6. QED BY <1>2, <3>1, <3>2, <3>3, <3>4, <3>5 DEF Step
  <2>2. QED BY <1>2, <2>1, OthersSame DEF NoOldYet
<1>3. CASE Finished \/ (\E k \in Keys : Expire(k)) \/ UNCHANGED vars
  <2>1. UNCHANGED <<pc, local>>
    BY <1>3 DEF Finished, Expire, vars
  <2>2. QED BY <2>1 DEF NoOldYet
<1>4. QED BY <1>1, <1>2, <1>3 DEF Next

\* With no call under way, what the count stands for is in range, and so is
\* the count itself.
LEMMA SettlingSettles == TypeOK /\ Settling => EntriesSettle
<1> SUFFICES ASSUME TypeOK, Settling, Quiescent
             PROVE  stats.entries \in Cardinality(Stored) .. calls
  BY DEF EntriesSettle
<1>1. PICK e \in Int : Unwraps(e) /\ Balanced(e)
  BY DEF Settling
<1>2. \A t \in Threads : pc[t] \in {"idle", "panicked"}
  BY DEF Quiescent, Doing, TypeOK
<1>3. Replacers = {} /\ Uncounters = {} /\ Counters = {} /\ MayCounters = {}
  BY <1>2 DEF Replacers, Uncounters, Counters, MayCounters, Replaces, Uncounts,
              Counts, MayCount, Replacing, Uncounting, SetSteps
<1>4. Cardinality(Stored) <= e /\ e <= calls /\ Cardinality(Stored) \in Nat
  BY <1>1, <1>3, FS_EmptySet, StoredFinite DEF Balanced, TypeOK
<1>5. e \in 0 .. Width - 1
  BY <1>4, MemoryCacheAssumption DEF TypeOK
<1>6. stats.entries = e
  BY <1>1, <1>5, UnwrapsIs
<1>7. QED BY <1>4, <1>6 DEF TypeOK

\* However sets, deletes and evictions of any number of threads overlap, and
\* however often stats.entries of src/memory.rs wraps below zero meanwhile,
\* it is back in range whenever no call is under way, in a cache nobody
\* clears.
THEOREM EntriesSettled ==
    ASSUME "clear" \notin Ops
    PROVE  Spec => []EntriesSettle
<1> DEFINE Inv == TypeOK /\ OnlyOps /\ NoOldYet /\ Settling
<1>1. Init => Inv
  BY TypeInit, OnlyOpsInit, NoOldInit, SettleInit
<1>2. Inv /\ [Next]_vars => Inv'
  BY TypeNext, OnlyOpsNext, NoOldNext, SettleNext
<1>3. Inv => EntriesSettle
  BY SettlingSettles
<1> HIDE DEF Inv
<1>4. QED BY <1>1, <1>2, <1>3, PTL DEF Spec
-----------------------------------------------------------------------------
(* The LFU policy is one that keeps every key. *)

Lfu == INSTANCE LFU

\* The cache has the LFU policy, given to MemoryCache::with_policy, as module
\* MCMemoryCacheLFU instantiates it.
IsLfu ==
    /\ PolicyNew = Lfu!LfuNew
    /\ \A p, k : /\ PolicyOnAccess(p, k) = Lfu!LfuOnAccess(p, k)
                 /\ PolicyOnInsert(p, k) = Lfu!LfuOnInsert(p, k)
    /\ \A p : /\ PolicyEvict(p) = Lfu!LfuEvict(p)
              /\ PolicyReset(p) = Lfu!LfuReset(p)
              /\ PolicyTracked(p) = Lfu!LfuTracked(p)

\* Maps from some of the keys to numbers.
Indexes == UNION {[D -> Nat] : D \in SUBSET Keys}

LEMMA IndexOver == ASSUME NEW D \in SUBSET Keys, NEW f \in [D -> Nat] PROVE f \in Indexes
PROOF BY DEF Indexes

LfuStates == [access_count : Indexes, min_frequency : Nat]

LEMMA LfuUseKeeps ==
    ASSUME NEW p \in LfuStates, NEW k \in Keys
    PROVE  /\ Lfu!LfuOnAccess(p, k) \in LfuStates /\ Lfu!LfuOnInsert(p, k) \in LfuStates
           /\ Lfu!LfuTracked(p) \cup {k} \subseteq Lfu!LfuTracked(Lfu!LfuOnAccess(p, k))
           /\ Lfu!LfuTracked(p) \cup {k} \subseteq Lfu!LfuTracked(Lfu!LfuOnInsert(p, k))
<1>1. PICK D \in SUBSET Keys : p.access_count \in [D -> Nat]
  BY DEF LfuStates, Indexes
<1>2. DOMAIN p.access_count = D /\ p.min_frequency \in Nat
  BY <1>1 DEF LfuStates
<1> DEFINE n == IF k \in D THEN p.access_count[k] + 1 ELSE 1
<1>3. n \in Nat
  BY <1>1
<1>4. Lfu!LfuOnAccess(p, k) =
         [access_count |-> Lfu!WithCount(p.access_count, k, n),
          min_frequency |-> IF p.min_frequency = 0 \/ n < p.min_frequency
                            THEN n ELSE p.min_frequency]
  BY <1>2 DEF Lfu!LfuOnAccess
<1>5. Lfu!LfuOnInsert(p, k) =
         [access_count |-> Lfu!WithCount(p.access_count, k, 1), min_frequency |-> 1]
  BY DEF Lfu!LfuOnInsert
<1>6. ASSUME NEW m \in Nat
      PROVE  /\ Lfu!WithCount(p.access_count, k, m) \in Indexes
             /\ DOMAIN Lfu!WithCount(p.access_count, k, m) = D \cup {k}
  <2> DEFINE f == [x \in D \cup {k} |-> IF x = k THEN m ELSE p.access_count[x]]
  <2>1. Lfu!WithCount(p.access_count, k, m) = f
    BY <1>2 DEF Lfu!WithCount
  <2>2. f \in [D \cup {k} -> Nat] /\ DOMAIN f = D \cup {k}
    BY <1>1
  <2> HIDE DEF f
  <2>3. f \in Indexes
    BY <2>2, IndexOver
  <2>4. QED BY <2>1, <2>2, <2>3
<1> HIDE DEF n
<1>7. /\ Lfu!WithCount(p.access_count, k, n) \in Indexes
      /\ Lfu!WithCount(p.access_count, k, 1) \in Indexes
      /\ DOMAIN Lfu!WithCount(p.access_count, k, n) = D \cup {k}
      /\ DOMAIN Lfu!WithCount(p.access_count, k, 1) = D \cup {k}
  BY <1>3, <1>6
<1>8. Lfu!LfuOnAccess(p, k) \in LfuStates /\ Lfu!LfuOnInsert(p, k) \in LfuStates
  BY <1>2, <1>3, <1>4, <1>5, <1>7 DEF LfuStates
<1>9. QED BY <1>2, <1>4, <1>5, <1>7, <1>8 DEF Lfu!LfuTracked

LEMMA LfuEvictKeeps ==
    ASSUME NEW p \in LfuStates, NEW outcome \in Lfu!LfuEvict(p)
    PROVE  /\ outcome.rest \in LfuStates
           /\ Lfu!LfuTracked(p) \ {outcome.key} \subseteq Lfu!LfuTracked(outcome.rest)
<1>1. PICK D \in SUBSET Keys : p.access_count \in [D -> Nat]
  BY DEF LfuStates, Indexes
<1>2. DOMAIN p.access_count = D /\ p.min_frequency \in Nat
      /\ p = [access_count |-> p.access_count, min_frequency |-> p.min_frequency]
  BY <1>1 DEF LfuStates
<1>3. CASE Lfu!LfuTracked(p) = {}
  <2>1. outcome = [key |-> None, rest |-> p]
    BY <1>3 DEF Lfu!LfuEvict
  <2>2. QED BY <1>3, <2>1
<1>4. CASE Lfu!LfuTracked(p) # {}
  <2>1. PICK k : outcome =
           [key |-> k, rest |-> [p EXCEPT !.access_count =
                                    [x \in DOMAIN p.access_count \ {k} |-> p.access_count[x]]]]
    BY <1>4 DEF Lfu!LfuEvict
  <2> DEFINE f == [x \in D \ {k} |-> p.access_count[x]]
  <2>2. f \in Indexes
    <3>1. f \in [D \ {k} -> Nat] /\ D \ {k} \in SUBSET Keys
      BY <1>1
    <3>2. QED BY <3>1, IndexOver
  <2>3. outcome.key = k /\ outcome.rest = [p EXCEPT !.access_count = f]
    BY <1>2, <2>1
  <2>4. outcome.rest = [access_count |-> f, min_frequency |-> p.min_frequency]
    BY <1>2, <2>3
  <2>5. DOMAIN f = D \ {k}
    OBVIOUS
  <2> HIDE DEF f
  <2>6. QED BY <1>2, <2>2, <2>3, <2>4, <2>5 DEF LfuStates, Lfu!LfuTracked
<1>5. QED BY <1>3, <1>4

LEMMA LfuKeepsKeys == IsLfu => KeepsKeys(LfuStates)
<1> SUFFICES ASSUME IsLfu PROVE KeepsKeys(LfuStates)
  OBVIOUS
<1>1. PolicyNew \in LfuStates
  <2>1. Lfu!LfuNew = [access_count |-> <<>>, min_frequency |-> 0]
    BY DEF Lfu!LfuNew
  <2>2. <<>> \in [{} -> Nat] /\ {} \in SUBSET Keys
    OBVIOUS
  <2>3. <<>> \in Indexes
    BY <2>2, IndexOver
  <2>4. QED BY <2>1, <2>3 DEF LfuStates, IsLfu
<1>2. ASSUME NEW p \in LfuStates, NEW k \in Keys
      PROVE  /\ PolicyOnAccess(p, k) \in LfuStates
             /\ PolicyOnInsert(p, k) \in LfuStates
             /\ PolicyTracked(p) \subseteq PolicyTracked(PolicyOnAccess(p, k))
             /\ PolicyTracked(p) \cup {k} \subseteq PolicyTracked(PolicyOnInsert(p, k))
  BY LfuUseKeeps DEF IsLfu
<1>3. ASSUME NEW p \in LfuStates, NEW outcome \in PolicyEvict(p)
      PROVE  /\ outcome.rest \in LfuStates
             /\ PolicyTracked(p) \ {outcome.key} \subseteq PolicyTracked(outcome.rest)
  BY LfuEvictKeeps DEF IsLfu
<1>4. QED BY <1>1, <1>2, <1>3 DEF KeepsKeys

\* So every entry stored in an LFU cache can be evicted, unless clear() runs.
THEOREM LfuEntriesEvictable ==
    ASSUME "clear" \notin Ops, IsLfu
    PROVE  Spec => []EveryEntryEvictable
PROOF BY EntriesEvictable, LfuKeepsKeys

-----------------------------------------------------------------------------
(* The LRU policy *)

Lru == INSTANCE LRU

\* The cache has the LRU policy, as MemoryCache::new gives it and module
\* MCMemoryCacheLRU instantiates it.
IsLru ==
    /\ PolicyNew = Lru!LruNew
    /\ \A p, k : /\ PolicyOnAccess(p, k) = Lru!LruOnAccess(p, k)
                 /\ PolicyOnInsert(p, k) = Lru!LruOnInsert(p, k)
    /\ \A p : /\ PolicyEvict(p) = Lru!LruEvict(p)
              /\ PolicyReset(p) = Lru!LruReset(p)
              /\ PolicyTracked(p) = Lru!LruTracked(p)

LruStates == [access_order : Seq(Keys), key_index : Indexes]

LEMMA DequeKeeps ==
    ASSUME NEW s \in Seq(Keys), NEW i \in Nat
    PROVE  Lru!DequeRemove(s, i) \in Seq(Keys) /\ Len(Lru!DequeRemove(s, i)) <= Len(s)
<1>1. CASE i < Len(s)
  <2> DEFINE d == [j \in 1 .. Len(s) - 1 |-> IF j <= i THEN s[j] ELSE s[j + 1]]
  <2>1. Len(s) - 1 \in Nat /\ d \in [1 .. Len(s) - 1 -> Keys]
    BY <1>1
  <2>2. d \in Seq(Keys) /\ Len(d) = Len(s) - 1
    BY <2>1
  <2>3. QED BY <1>1, <2>2 DEF Lru!DequeRemove
<1>2. CASE ~ (i < Len(s))
  BY <1>2 DEF Lru!DequeRemove
<1>3. QED BY <1>1, <1>2

LEMMA PushKeeps ==
    ASSUME NEW s \in Seq(Keys), NEW D \in SUBSET Keys, NEW f \in [D -> Nat], NEW k \in Keys
    PROVE  /\ Lru!PushAndRecord(s, f, k) \in LruStates
           /\ k \in Lru!LruTracked(Lru!PushAndRecord(s, f, k))
<1> DEFINE p == Lru!PushAndRecord(s, f, k)
<1>1. p = [access_order |-> Append(s, k),
           key_index |-> [x \in D \cup {k} |-> IF x = k THEN Len(s) ELSE f[x]]]
  BY DEF Lru!PushAndRecord
<1>2. /\ Append(s, k) \in Seq(Keys) /\ Len(s) \in Nat /\ Len(Append(s, k)) = Len(s) + 1
      /\ Append(s, k)[Len(s) + 1] = k
  OBVIOUS
<1>3. [x \in D \cup {k} |-> IF x = k THEN Len(s) ELSE f[x]] \in [D \cup {k} -> Nat]
  BY <1>2
<1>4. p \in LruStates
  <2>1. [x \in D \cup {k} |-> IF x = k THEN Len(s) ELSE f[x]] \in Indexes
    BY <1>3, IndexOver
  <2>2. QED BY <1>1, <1>2, <2>1 DEF LruStates
<1>5. k \in Lru!LruTracked(p)
  BY <1>1, <1>2 DEF Lru!LruTracked
<1>6. QED BY <1>4, <1>5

LEMMA UseKeeps ==
    ASSUME NEW p \in LruStates, NEW k \in Keys
    PROVE  Lru!LruOnAccess(p, k) \in LruStates /\ k \in Lru!LruTracked(Lru!LruOnAccess(p, k))
<1>1. PICK D \in SUBSET Keys : p.key_index \in [D -> Nat]
  BY DEF LruStates, Indexes
<1>2. p.access_order \in Seq(Keys) /\ DOMAIN p.key_index = D
  BY <1>1 DEF LruStates
<1>3. CASE k \in D
  <2> DEFINE i == p.key_index[k]
  <2>1. i \in Nat /\ Lru!ShiftIndex(p.key_index, i) \in [D -> Nat]
    BY <1>1, <1>2, <1>3 DEF Lru!ShiftIndex
  <2>2. Lru!DequeRemove(p.access_order, i) \in Seq(Keys)
    BY <1>2, <2>1, DequeKeeps
  <2>3. Lru!LruOnAccess(p, k) =
           Lru!PushAndRecord(Lru!DequeRemove(p.access_order, i),
                             Lru!ShiftIndex(p.key_index, i), k)
    BY <1>2, <1>3 DEF Lru!LruOnAccess
  <2>4. QED BY <2>1, <2>2, <2>3, PushKeeps
<1>4. CASE k \notin D
  <2>1. Lru!LruOnAccess(p, k) = Lru!PushAndRecord(p.access_order, p.key_index, k)
    BY <1>2, <1>4 DEF Lru!LruOnAccess
  <2>2. QED BY <1>1, <1>2, <2>1, PushKeeps
<1>5. QED BY <1>3, <1>4

LEMMA EvictKeeps ==
    ASSUME NEW p \in LruStates, NEW outcome \in Lru!LruEvict(p)
    PROVE  /\ outcome.rest \in LruStates
           /\ Lru!LruTracked(p) \ {outcome.key} \subseteq Lru!LruTracked(outcome.rest)
           /\ outcome.key = None => Lru!LruTracked(p) = {}
<1> DEFINE s == p.access_order
<1>1. PICK D \in SUBSET Keys : p.key_index \in [D -> Nat]
  BY DEF LruStates, Indexes
<1>2. s \in Seq(Keys) /\ DOMAIN p.key_index = D
  BY <1>1 DEF LruStates
<1>3. CASE s = <<>>
  <2>1. outcome = [key |-> None, rest |-> p]
    BY <1>3 DEF Lru!LruEvict
  <2>2. Lru!LruTracked(p) = {}
    BY <1>3 DEF Lru!LruTracked
  <2>3. QED BY <2>1, <2>2, MemoryCacheAssumption
<1>4. CASE s # <<>>
  <2>1. /\ outcome.key = Head(s)
        /\ outcome.rest = [access_order |-> Tail(s),
                           key_index |-> [x \in D \ {Head(s)} |-> p.key_index[x]]]
    BY <1>2, <1>4 DEF Lru!LruEvict
  <2>2. /\ Tail(s) \in Seq(Keys) /\ Head(s) = s[1] /\ Head(s) \in Keys
        /\ Len(s) \in Nat /\ Len(s) # 0 /\ Len(Tail(s)) = Len(s) - 1
        /\ \A j \in 1 .. Len(s) - 1 : Tail(s)[j] = s[j + 1]
    BY <1>2, <1>4
  <2>3. [x \in D \ {Head(s)} |-> p.key_index[x]] \in [D \ {Head(s)} -> Nat]
    BY <1>1
  <2>4. outcome.rest \in LruStates
    <3>1. [x \in D \ {Head(s)} |-> p.key_index[x]] \in Indexes
      BY <2>3, IndexOver
    <3>2. QED BY <2>1, <2>2, <3>1 DEF LruStates
  <2>5. ASSUME NEW x \in Lru!LruTracked(p), x # Head(s)
        PROVE  x \in Lru!LruTracked(outcome.rest)
    <3>1. PICK j \in 1 .. Len(s) : x = s[j]
      BY DEF Lru!LruTracked
    <3>2. j # 1
      BY <2>2, <2>5, <3>1
    <3>3. j - 1 \in 1 .. Len(s) - 1 /\ (j - 1) + 1 = j
      BY <2>2, <3>1, <3>2
    <3>4. Tail(s)[j - 1] = x
      BY <2>2, <3>1, <3>3
    <3>5. outcome.rest.access_order = Tail(s)
      BY <2>1
    <3>6. QED BY <2>2, <3>3, <3>4, <3>5 DEF Lru!LruTracked
  <2>6. outcome.key # None
    BY <2>1, <2>2, MemoryCacheAssumption
  <2>7. QED BY <2>1, <2>4, <2>5, <2>6
<1>5. QED BY <1>3, <1>4

\* A use makes the deque longer by one element at most.
LEMMA UseLength ==
    ASSUME NEW p \in LruStates, NEW k \in Keys
    PROVE  Len(Lru!LruOnAccess(p, k).access_order) <= Len(p.access_order) + 1
<1>1. PICK D \in SUBSET Keys : p.key_index \in [D -> Nat]
  BY DEF LruStates, Indexes
<1>2. p.access_order \in Seq(Keys) /\ DOMAIN p.key_index = D
  BY <1>1 DEF LruStates
<1>3. ASSUME NEW s \in Seq(Keys), NEW f
      PROVE  Len(Lru!PushAndRecord(s, f, k).access_order) = Len(s) + 1
  <2>1. Lru!PushAndRecord(s, f, k).access_order = Append(s, k)
    BY DEF Lru!PushAndRecord
  <2>2. QED BY <2>1
<1>4. \A s \in Seq(Keys) : Len(s) \in Nat
  OBVIOUS
<1>5. CASE k \in D
  <2> DEFINE i == p.key_index[k]
             s == Lru!DequeRemove(p.access_order, i)
             f == Lru!ShiftIndex(p.key_index, i)
  <2>1. i \in Nat
    BY <1>1, <1>5
  <2>2. s \in Seq(Keys) /\ Len(s) <= Len(p.access_order)
    BY <1>2, <2>1, DequeKeeps
  <2>3. Lru!LruOnAccess(p, k) = Lru!PushAndRecord(s, f, k)
    BY <1>2, <1>5 DEF Lru!LruOnAccess
  <2> HIDE DEF s, f
  <2>4. Len(Lru!LruOnAccess(p, k).access_order) = Len(s) + 1
    BY <1>3, <2>2, <2>3
  <2>5. QED BY <1>2, <1>4, <2>2, <2>4
<1>6. CASE k \notin D
  <2>1. Lru!LruOnAccess(p, k) = Lru!PushAndRecord(p.access_order, p.key_index, k)
    BY <1>2, <1>6 DEF Lru!LruOnAccess
  <2>2. QED BY <1>2, <1>3, <1>4, <2>1
<1>7. QED BY <1>5, <1>6

\* An evicted key is no longer in the deque.
LEMMA EvictLength ==
    ASSUME NEW p \in LruStates, NEW outcome \in Lru!LruEvict(p)
    PROVE  /\ outcome.key \in Keys =>
                 Len(outcome.rest.access_order) + 1 = Len(p.access_order)
           /\ outcome.key = None => outcome.rest = p
<1>1. p.access_order \in Seq(Keys)
  BY DEF LruStates
<1>2. CASE p.access_order = <<>>
  <2>1. outcome = [key |-> None, rest |-> p]
    BY <1>2 DEF Lru!LruEvict
  <2>2. QED BY <2>1, MemoryCacheAssumption
<1>3. CASE p.access_order # <<>>
  <2> DEFINE k == Head(p.access_order)
             f == [x \in DOMAIN p.key_index \ {k} |-> p.key_index[x]]
  <2>0. outcome = [key |-> k, rest |-> [access_order |-> Tail(p.access_order),
                                        key_index |-> f]]
    BY <1>3 DEF Lru!LruEvict
  <2> HIDE DEF f
  <2>1. outcome.key = Head(p.access_order) /\ outcome.rest.access_order = Tail(p.access_order)
    BY <2>0
  <2>2. Head(p.access_order) \in Keys
        /\ Len(Tail(p.access_order)) + 1 = Len(p.access_order)
    <3>1. \A s \in Seq(Keys) :
             s # <<>> => Head(s) \in Keys /\ Len(Tail(s)) + 1 = Len(s)
      OBVIOUS
    <3>2. QED BY <1>1, <1>3, <3>1
  <2>3. QED BY <2>1, <2>2, MemoryCacheAssumption
<1>4. QED BY <1>2, <1>3
=============================================================================
