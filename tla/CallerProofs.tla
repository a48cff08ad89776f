---------------------------- MODULE CallerProofs ----------------------------
(***************************************************************************)
(* What callers of the in-memory tier see, whatever the eviction policy    *)
(* does and for any number of keys, values and threads: the tier           *)
(* implements the map of module LossyMap, no get returns what the map held *)
(* only expired all through it, and with a policy that gives a key only    *)
(* as often as it was told of one the calls take a bounded number of steps *)
(* each on the average.  The counters differ from the map by no more than  *)
(* the slips that module Ledger adds up, and stats.entries is counted      *)
(* down at zero only in a race.                                            *)
(***************************************************************************)
EXTENDS Freshness, CallsEnd, Ledger, MemoryCacheProofs

-----------------------------------------------------------------------------
(* NoStaleHits *)

\* What a get is about to read is a value it may return.
ReadsFresh ==
    \A t \in Threads :
        pc[t] = "get_read" /\ call[t].key \in Stored =>
            entries[call[t].key].value \in seen[t]

\* The history holds what is fresh now.
SeesFresh ==
    \A t \in Threads : call[t].op = "get" => FreshValues(call[t].key) \subseteq seen[t]

FreshInv == ReadsFresh /\ SeesFresh /\ NoStaleHits

\* An entry holds another value than before only if a set has just inserted it.
LEMMA EntryChange ==
    ASSUME TypeOK, [Next]_vars, NEW k \in Keys, k \in Stored'
    PROVE  \/ k \in Stored /\ entries'[k].value = entries[k].value
           \/ entries'[k].value \in Arrivals(k)
<1> USE DEF Stored
<1>1. entries \in [Keys -> Entries \cup {None}]
  BY DEF TypeOK
<1>2. ASSUME NEW x, Forget(x)
      PROVE  k \in Stored /\ entries'[k].value = entries[k].value
  BY <1>1, <1>2 DEF Forget
<1>3. CASE UNCHANGED entries
  BY <1>3
<1>4. ASSUME NEW t \in Threads, SetInsert(t)
      PROVE  \/ k \in Stored /\ entries'[k].value = entries[k].value
             \/ entries'[k].value \in Arrivals(k)
  <2>1. pc[t] = "set_insert" /\ pc'[t] = "set_add"
    BY <1>4 DEF TypeOK, SetInsert, Goto
  <2>2. PICK life \in LivesOnInsert(call[t].life) :
          entries' = [entries EXCEPT ![call[t].key] =
                         [value |-> call[t].value, life |-> life]]
    BY <1>4 DEF SetInsert
  <2>3. CASE k = call[t].key
    <3>1. entries'[k].value = call[t].value
      BY <1>1, <2>2, <2>3
    <3>2. t \in {w \in Doing({"set_insert"}) : call[w].key = k /\ pc'[w] # "set_insert"}
      BY <2>1, <2>3 DEF Doing
    <3>3. QED BY <3>1, <3>2 DEF Arrivals
  <2>4. CASE k # call[t].key
    BY <1>1, <2>2, <2>4
  <2>5. QED BY <2>3, <2>4
<1>5. ASSUME NEW x \in Keys, Expire(x)
      PROVE  k \in Stored /\ entries'[k].value = entries[k].value
  BY <1>1, <1>5 DEF Expire, Entries
<1>6. ASSUME NEW t \in Threads, Step(t)
      PROVE  \/ UNCHANGED entries
             \/ \E x : Forget(x)
             \/ SetInsert(t)
  <2>1. CASE SetStep(t)
    BY <2>1 DEF SetStep, SetRemove, SetSub, SetAdd, SetStats, SetPolicy
  <2>2. CASE EvictStep(t)
    BY <2>2 DEF EvictStep, EvictCheck, EvictPop, EvictRemove, EvictSub, EvictStats,
                EvictFail
  <2>3. CASE ReadStep(t)
    BY <2>3 DEF ReadStep, GetCheck, GetExpire, GetRead, GetAccess, GetHit, GetMiss,
                Exists
  <2>4. CASE DeleteStep(t)
    BY <2>4 DEF DeleteStep, DelRemove, DelSub, DelStats
  <2>5. CASE ClearStep(t)
    BY <2>5 DEF ClearStep, ClearEntries, ClearSize, ClearStats, ClearPolicy
  <2>6. QED BY <1>6, <2>1, <2>2, <2>3, <2>4, <2>5 DEF Step
<1>7. QED
  BY <1>2, <1>3, <1>4, <1>5, <1>6 DEF Next, Begin, Finished, vars

\* How a thread comes to its next step, as far as a get is concerned.
LEMMA GetChange ==
    ASSUME TypeOK, [Next]_vars, NEW t \in Threads
    PROVE  /\ pc'[t] = "get_read" =>
                 /\ call'[t] = call[t]
                 /\ pc[t] = "get_read" \/ GetCheck(t)
           /\ pc'[t] \in {"get_access", "get_hit"} =>
                 /\ call'[t] = call[t]
                 /\ \/ pc[t] \in {"get_access", "get_hit"}
                       /\ local'[t].value = local[t].value
                    \/ GetRead(t)
<1> DEFINE Same == pc'[t] = pc[t] /\ call'[t] = call[t] /\ local'[t] = local[t]
           Apart == pc'[t] \notin {"get_read", "get_access", "get_hit"}
           Access == GetAccess(t)
<1>1. pc \in [Threads -> Steps] /\ call \in [Threads -> Requests \cup {NoCall}]
      /\ local \in [Threads -> Locals]
  BY DEF TypeOK
<1>2. CASE UNCHANGED vars
  BY <1>2 DEF vars
<1>3. ASSUME NEW u \in Threads, Begin(u) PROVE Same \/ Apart
  <2>1. PICK c \in Requests : /\ call' = [call EXCEPT ![u] = c]
                              /\ pc' = [pc EXCEPT ![u] = FirstStep[c.op]]
    BY <1>3 DEF Begin
  <2>2. FirstStep[c.op] \notin {"get_read", "get_access", "get_hit"}
    BY DEF Requests, FirstStep
  <2>3. CASE u = t
    BY <1>1, <2>1, <2>2, <2>3
  <2>4. CASE u # t
    BY <1>1, <1>3, <2>1, <2>4 DEF Begin
  <2>5. QED BY <2>3, <2>4
<1>4. ASSUME NEW k \in Keys, Expire(k) PROVE Same
  BY <1>4 DEF Expire
<1>5. ASSUME NEW u \in Threads, Step(u), u # t PROVE Same
  <2> USE <1>1, <1>5 DEF Goto, Return
  <2>1. CASE SetStep(u)
    BY <2>1 DEF SetStep, SetRemove, SetSub, SetInsert, SetAdd, SetStats, SetPolicy
  <2>2. CASE EvictStep(u)
    BY <2>2 DEF EvictStep, EvictCheck, EvictPop, EvictRemove, EvictSub, EvictStats,
                EvictFail, CountOneLess
  <2>3. CASE ReadStep(u)
    BY <2>3 DEF ReadStep, GetCheck, GetExpire, GetRead, GetAccess, GetHit, GetMiss,
                Exists
  <2>4. CASE DeleteStep(u)
    BY <2>4 DEF DeleteStep, DelRemove, DelSub, DelStats, CountOneLess
  <2>5. CASE ClearStep(u)
    BY <2>5 DEF ClearStep, ClearEntries, ClearSize, ClearStats, ClearPolicy
  <2>6. QED BY <2>1, <2>2, <2>3, <2>4, <2>5 DEF Step
<1>6. CASE Step(t)
  <2> USE <1>1 DEF Goto, Return
  <2>1. CASE SetStep(t)
    BY <2>1 DEF SetStep, SetRemove, SetSub, SetInsert, SetAdd, SetStats, SetPolicy
  <2>2. CASE EvictStep(t)
    BY <2>2 DEF EvictStep, EvictCheck, EvictPop, EvictRemove, EvictSub, EvictStats,
                EvictFail, CountOneLess
  <2>3. CASE GetCheck(t) \/ GetRead(t) \/ GetAccess(t)
    BY <2>3 DEF GetCheck, GetRead, GetAccess
  <2>4. CASE GetExpire(t) \/ GetHit(t) \/ GetMiss(t) \/ Exists(t)
    BY <2>4 DEF GetExpire, GetHit, GetMiss, Exists
  <2>5. CASE DeleteStep(t)
    BY <2>5 DEF DeleteStep, DelRemove, DelSub, DelStats, CountOneLess
  <2>6. CASE ClearStep(t)
    BY <2>6 DEF ClearStep, ClearEntries, ClearSize, ClearStats, ClearPolicy
  <2>7. QED BY <1>6, <2>1, <2>2, <2>3, <2>4, <2>5, <2>6 DEF Step, ReadStep
<1>7. QED
  BY <1>2, <1>3, <1>4, <1>5, <1>6 DEF Next, Finished

LEMMA FreshInductive ==
    ASSUME TypeOK, TypeOK', FreshInv, [FreshNext]_freshVars
    PROVE  FreshInv'
<1>1. CASE UNCHANGED freshVars
  BY <1>1 DEF freshVars, vars, FreshInv, ReadsFresh, SeesFresh, NoStaleHits,
              FreshValues, Stored
<1>2. CASE FreshNext
  <2>0. [Next]_vars /\ Watch
    BY <1>2 DEF FreshNext
  <2>1. SeesFresh'
    BY <2>0 DEF SeesFresh, Watch
  <2>2. \A t \in Threads : call'[t].op = "get" => seen[t] \subseteq seen'[t]
    BY <2>0 DEF Watch
  <2>3. \A t \in Threads :
           /\ pc'[t] \in {"get_read", "get_access", "get_hit"} => call'[t].op = "get"
           /\ pc[t] = "get_check" => call[t].op = "get"
    BY DEF TypeOK
  <2>4. \A t \in Threads : pc'[t] = "get_read" => call'[t].key \in Keys
    BY <2>3, CallShape DEF TypeOK
  <2>5. ReadsFresh'
    <3> SUFFICES ASSUME NEW t \in Threads, pc'[t] = "get_read", call'[t].key \in Stored'
                 PROVE  entries'[call'[t].key].value \in seen'[t]
      BY DEF ReadsFresh
    <3> DEFINE k == call[t].key
    <3>1. call'[t] = call[t] /\ (pc[t] = "get_read" \/ GetCheck(t))
      BY <2>0, GetChange
    <3>2. PICK x \in Keys : x = call[t].key
      BY <2>4, <3>1
    <3>3. CASE entries'[x].value \in Arrivals(x)
      <4>1. Arrivals(call[t].key) \subseteq seen'[t]
        BY <2>0, <2>3 DEF Watch
      <4>2. QED BY <3>1, <3>2, <3>3, <4>1
    <3>4. CASE x \in Stored /\ entries'[x].value = entries[x].value
      <4>1. entries[x].value \in seen[t]
        <5>1. CASE pc[t] = "get_read"
          BY <3>2, <3>4, <5>1 DEF FreshInv, ReadsFresh
        <5>2. CASE GetCheck(t)
          <6>1. entries[x].life # "expired" /\ call[t].op = "get"
            BY <2>3, <3>2, <3>4, <5>2 DEF GetCheck, Goto, TypeOK
          <6>2. entries[x].value \in FreshValues(call[t].key)
            BY <3>2, <3>4, <6>1 DEF FreshValues
          <6>3. QED BY <6>1, <6>2 DEF FreshInv, SeesFresh
        <5>3. QED BY <3>1, <5>1, <5>2
      <4>2. QED BY <2>2, <2>3, <3>1, <3>2, <3>4, <4>1
    <3>5. QED BY <2>0, <3>1, <3>2, <3>3, <3>4, EntryChange
  <2>6. NoStaleHits'
    <3> SUFFICES ASSUME NEW t \in Threads, pc'[t] \in {"get_access", "get_hit"}
                 PROVE  local'[t].value \in seen'[t]
      BY DEF NoStaleHits
    <3>1. seen[t] \subseteq seen'[t]
      BY <2>2, <2>3
    <3>2. CASE pc[t] \in {"get_access", "get_hit"} /\ local'[t].value = local[t].value
      BY <3>1, <3>2 DEF FreshInv, NoStaleHits
    <3>3. CASE GetRead(t)
      <4>1. pc[t] = "get_read" /\ call[t].key \in Stored
            /\ local'[t].value = entries[call[t].key].value
        BY <3>3 DEF GetRead, Goto, TypeOK, Locals
      <4>2. QED BY <3>1, <4>1 DEF FreshInv, ReadsFresh
    <3>4. QED BY <2>0, <3>2, <3>3, GetChange
  <2>7. QED BY <2>1, <2>5, <2>6 DEF FreshInv
<1>3. QED BY <1>1, <1>2

\* Between the check of an entry's age and the read of its value anything may
\* happen to it, and still a get of memory.rs returns only what was fresh during
\* the call or inserted during it, never what the map held only expired.
THEOREM HitsNotStale == FreshSpec => []NoStaleHits
<1>1. FreshInit => TypeOK /\ FreshInv
  <2>1. FreshInit => TypeOK
    BY TypeInit DEF FreshInit
  <2>2. FreshInit => FreshInv
    BY MemoryCacheAssumption
    DEF FreshInit, Init, FreshInv, ReadsFresh, SeesFresh, NoStaleHits, NoCall
  <2>3. QED BY <2>1, <2>2
<1>2. TypeOK /\ FreshInv /\ [FreshNext]_freshVars => (TypeOK /\ FreshInv)'
  <2>1. [FreshNext]_freshVars => [Next]_vars
    BY DEF FreshNext, freshVars, vars
  <2>2. QED BY <2>1, TypeNext, FreshInductive
<1>3. FreshInv => NoStaleHits
  BY DEF FreshInv
<1>4. QED BY <1>1, <1>2, <1>3, PTL DEF FreshSpec

-----------------------------------------------------------------------------
(* IsLossyMap *)

\* Only a clear that is still removing keys has any left to remove.
TodoOK == \A t \in Threads : pc[t] # "clear_entries" => local[t].todo = {}

\* The mapping of MemoryCacheProperties, its parts by name.
St == [k \in Keys |-> IF k \in Stored THEN entries[k].value ELSE None]
Ph == [t \in Threads |-> Phase(t)]
Lf == [t \in Threads |-> local[t].todo]
An == [t \in Threads |-> Answer(t)]

\* Phase and Answer as functions of what they depend on.
PhaseAt(step) ==
    CASE step = "idle" -> "idle"
      [] step = "panicked" -> "crashed"
      [] step \in {"set_add", "set_stats", "set_policy", "get_access", "get_hit",
                   "get_miss", "del_sub", "del_stats"} -> "settled"
      [] OTHER -> "called"
AnswerAt(step, op, value, result) ==
    CASE step \in {"set_add", "set_stats", "set_policy", "del_sub", "del_stats"} -> "ok"
      [] step \in {"get_access", "get_hit"} -> value
      [] step = "get_miss" -> None
      [] step = "panicked" /\ op = "delete" -> "ok"
      [] OTHER -> result

-----------------------------------------------------------------------------
(* The mapping *)

LEMMA MappedNow ==
    ASSUME NEW t \in Threads
    PROVE  /\ Ph[t] = PhaseAt(pc[t]) /\ Lf[t] = local[t].todo
           /\ An[t] = AnswerAt(pc[t], call[t].op, local[t].value, ret[t])
PROOF BY DEF Ph, Lf, An, Phase, Answer, PhaseAt, AnswerAt

LEMMA MappedFunctions ==
    /\ Ph = [t \in Threads |-> Ph[t]] /\ Ph' = [t \in Threads |-> Ph'[t]]
    /\ Lf = [t \in Threads |-> Lf[t]] /\ Lf' = [t \in Threads |-> Lf'[t]]
    /\ An = [t \in Threads |-> An[t]] /\ An' = [t \in Threads |-> An'[t]]
PROOF BY DEF Ph, Lf, An

\* A thread goes on to the step s with the locals l.
LEMMA GoesOn ==
    ASSUME TypeOK, NEW t \in Threads, NEW s, NEW l, pc' = [pc EXCEPT ![t] = s],
           call' = call, ret' = ret, local' = [local EXCEPT ![t] = l]
    PROVE  \A u \in Threads :
              /\ Ph'[u] = IF u = t THEN PhaseAt(s) ELSE Ph[u]
              /\ Lf'[u] = IF u = t THEN l.todo ELSE Lf[u]
              /\ An'[u] = IF u = t THEN AnswerAt(s, call[t].op, l.value, ret[t]) ELSE An[u]
<1>1. pc' = [u \in Threads |-> IF u = t THEN s ELSE pc[u]]
      /\ local' = [u \in Threads |-> IF u = t THEN l ELSE local[u]]
  BY DEF TypeOK
<1>2. \A u \in Threads : Phase(u)' = IF u = t THEN PhaseAt(s) ELSE Phase(u)
  BY <1>1 DEF Phase, PhaseAt
<1>3. \A u \in Threads :
         Answer(u)' = IF u = t THEN AnswerAt(s, call[t].op, l.value, ret[t]) ELSE Answer(u)
  BY <1>1 DEF Answer, AnswerAt
<1>4. \A u \in Threads : local'[u].todo = IF u = t THEN l.todo ELSE local[u].todo
  BY <1>1
<1>5. QED BY <1>2, <1>3, <1>4 DEF Ph, Lf, An

\* A thread returns from its call.
LEMMA GoesIdle ==
    ASSUME TypeOK, NEW t \in Threads, NEW result, Return(t, result)
    PROVE  /\ Ph' = [Ph EXCEPT ![t] = "idle"]
           /\ Lf' = [Lf EXCEPT ![t] = {}]
           /\ An' = [An EXCEPT ![t] = result]
           /\ call' = [call EXCEPT ![t] = NoCall]
<1>1. /\ pc' = [u \in Threads |-> IF u = t THEN "idle" ELSE pc[u]]
      /\ call' = [u \in Threads |-> IF u = t THEN NoCall ELSE call[u]]
      /\ local' = [u \in Threads |-> IF u = t THEN NoLocal ELSE local[u]]
      /\ ret' = [u \in Threads |-> IF u = t THEN result ELSE ret[u]]
  BY DEF TypeOK, Return
<1>2. \A u \in Threads : Phase(u)' = IF u = t THEN "idle" ELSE Phase(u)
  BY <1>1 DEF Phase
<1>3. \A u \in Threads : Answer(u)' = IF u = t THEN result ELSE Answer(u)
  BY <1>1 DEF Answer
<1>4. \A u \in Threads : local'[u].todo = IF u = t THEN {} ELSE local[u].todo
  BY <1>1 DEF NoLocal
<1>5. QED BY <1>2, <1>3, <1>4 DEF Ph, Lf, An, Return

LEMMA StoreIs ==
    /\ St = [x \in Keys |-> IF entries[x] # None THEN entries[x].value ELSE None]
    /\ St' = [x \in Keys |-> IF entries'[x] # None THEN entries'[x].value ELSE None]
PROOF BY DEF St, Stored

LEMMA StoreKept == ASSUME entries' = entries PROVE St' = St
PROOF BY DEF St, Stored

LEMMA StoreForgets ==
    ASSUME TypeOK, NEW k \in Keys, entries' = [entries EXCEPT ![k] = None]
    PROVE  St' = [St EXCEPT ![k] = None]
<1>1. \A x \in Keys : entries'[x] = IF x = k THEN None ELSE entries[x]
  BY DEF TypeOK
<1>2. \A x \in Keys : St'[x] = IF x = k THEN None ELSE St[x]
  BY <1>1, StoreIs
<1>3. QED BY <1>2, StoreIs

LEMMA StoreTakes ==
    ASSUME TypeOK, NEW k \in Keys, NEW v \in Values, NEW life \in Lives,
           entries' = [entries EXCEPT ![k] = [value |-> v, life |-> life]]
    PROVE  St' = [St EXCEPT ![k] = v]
<1>1. [value |-> v, life |-> life] # None
  BY NoneIsNoEntry
<1>2. \A x \in Keys : entries'[x] = IF x = k THEN [value |-> v, life |-> life] ELSE entries[x]
  BY DEF TypeOK
<1>3. \A x \in Keys : St'[x] = IF x = k THEN v ELSE St[x]
  BY <1>1, <1>2, StoreIs
<1>4. QED BY <1>3, StoreIs

\* What the map finds: the value stored, None if there is none.
LEMMA StoreFinds ==
    ASSUME TypeOK, NEW k \in Keys
    PROVE  /\ k \in Stored => St[k] = entries[k].value /\ St[k] # None
           /\ k \notin Stored => St[k] = None
<1>1. k \in Stored => entries[k] \in Entries
  BY DEF TypeOK, Stored
<1>2. k \in Stored => entries[k].value \in Values
  BY <1>1 DEF Entries
<1>3. QED BY <1>2, MemoryCacheAssumption DEF St

-----------------------------------------------------------------------------
(* The steps of the map, in terms of the mapping *)

LEMMA MapStutters ==
    ASSUME St' = St, Ph' = Ph, Lf' = Lf, An' = An, call' = call
    PROVE  UNCHANGED Map!lmVars
PROOF BY DEF Map!lmVars, St, Ph, Lf, An

LEMMA MapLoses ==
    ASSUME NEW k \in Keys, St' = [St EXCEPT ![k] = None],
           Ph' = Ph, Lf' = Lf, An' = An, call' = call
    PROVE  Map!LMNext
<1>1. Map!Lose(k)
  BY DEF Map!Lose, Map!Store, St, Ph, Lf, An
<1>2. QED BY <1>1 DEF Map!LMNext

\* The call of t takes effect, and returns at once or later.
Settles(t, op, result) ==
    /\ Ph[t] = "called" /\ call[t].op = op
    /\ An' = [An EXCEPT ![t] = result] /\ Lf' = Lf
    /\ \/ Ph' = [Ph EXCEPT ![t] = "settled"] /\ call' = call
       \/ Ph' = [Ph EXCEPT ![t] = "idle"] /\ call' = [call EXCEPT ![t] = NoCall]

LEMMA MapPuts ==
    ASSUME NEW t \in Threads, Settles(t, "set", "ok"),
           St' = [St EXCEPT ![call[t].key] = call[t].value]
    PROVE  Map!LMNext
<1>1. Map!Put(t)
  BY DEF Map!Put, Map!Settle, Map!Store, Settles, St, Ph, Lf, An
<1>2. QED BY <1>1 DEF Map!LMNext

LEMMA MapRefuses ==
    ASSUME NEW t \in Threads, Settles(t, "set", "full"), St' = St
    PROVE  Map!LMNext
<1>1. Map!Refuse(t)
  BY DEF Map!Refuse, Map!Settle, Settles, St, Ph, Lf, An
<1>2. QED BY <1>1 DEF Map!LMNext

LEMMA MapFinds ==
    ASSUME NEW t \in Threads, NEW v, v = St[call[t].key], Settles(t, "get", v), St' = St
    PROVE  Map!LMNext
<1>1. Map!Find(t)
  BY DEF Map!Find, Map!Settle, Settles, St, Ph, Lf, An
<1>2. QED BY <1>1 DEF Map!LMNext

LEMMA MapMisses ==
    ASSUME NEW t \in Threads, Settles(t, "get", None),
           St' = [St EXCEPT ![call[t].key] = None]
    PROVE  Map!LMNext
<1>1. Map!Miss(t)
  BY DEF Map!Miss, Map!Settle, Map!Store, Settles, St, Ph, Lf, An
<1>2. QED BY <1>1 DEF Map!LMNext

LEMMA MapChecks ==
    ASSUME NEW t \in Threads, St' = St,
           \/ Settles(t, "exists", "absent")
           \/ Settles(t, "exists", "present") /\ St[call[t].key] # None
    PROVE  Map!LMNext
<1>1. Map!Check(t)
  BY DEF Map!Check, Map!Settle, Settles, St, Ph, Lf, An
<1>2. QED BY <1>1 DEF Map!LMNext

LEMMA MapRemoves ==
    ASSUME NEW t \in Threads, Settles(t, "delete", "ok"),
           St' = [St EXCEPT ![call[t].key] = None]
    PROVE  Map!LMNext
<1>1. Map!Remove(t)
  BY DEF Map!Remove, Map!Settle, Map!Store, Settles, St, Ph, Lf, An
<1>2. QED BY <1>1 DEF Map!LMNext

LEMMA MapRemovesNext ==
    ASSUME NEW t \in Threads, NEW k \in Lf[t], St' = [St EXCEPT ![k] = None],
           Lf' = [Lf EXCEPT ![t] = @ \ {k}], Ph' = Ph, An' = An, call' = call
    PROVE  Map!LMNext
<1>1. Map!RemoveNext(t)
  BY DEF Map!RemoveNext, Map!Store, St, Ph, Lf, An
<1>2. QED BY <1>1 DEF Map!LMNext

LEMMA MapClears ==
    ASSUME NEW t \in Threads, Lf[t] = {}, Settles(t, "clear", "ok"), St' = St
    PROVE  Map!LMNext
<1>1. Map!Cleared(t)
  BY DEF Map!Cleared, Map!Settle, Settles, St, Ph, Lf, An
<1>2. QED BY <1>1 DEF Map!LMNext

LEMMA MapAnswers ==
    ASSUME NEW t \in Threads, Ph[t] = "settled", Ph' = [Ph EXCEPT ![t] = "idle"],
           call' = [call EXCEPT ![t] = NoCall], St' = St, Lf' = Lf, An' = An
    PROVE  Map!LMNext
<1>1. Map!Answer(t)
  BY DEF Map!Answer, St, Ph, Lf, An
<1>2. QED BY <1>1 DEF Map!LMNext

LEMMA MapCrashes ==
    ASSUME NEW t \in Threads, Ph[t] \in {"called", "settled"},
           Ph' = [Ph EXCEPT ![t] = "crashed"], call' = call, St' = St, Lf' = Lf, An' = An
    PROVE  Map!LMNext
<1>1. Map!Crash(t)
  BY DEF Map!Crash, St, Ph, Lf, An
<1>2. QED BY <1>1 DEF Map!LMNext

LEMMA MapAsks ==
    ASSUME NEW t \in Threads, NEW c \in Requests, Ph[t] = "idle",
           Ph' = [Ph EXCEPT ![t] = "called"], call' = [call EXCEPT ![t] = c],
           Lf' = [Lf EXCEPT ![t] = IF c.op = "clear" THEN Keys ELSE {}],
           St' = St, An' = An
    PROVE  Map!LMNext
<1>1. Map!Ask(t)
  BY DEF Map!Ask, St, Ph, Lf, An
<1>2. QED BY <1>1 DEF Map!LMNext

-----------------------------------------------------------------------------
(* The steps of the tier *)

\* A step that is internal to the call as callers see it.
LEMMA Quiet ==
    ASSUME TypeOK, NEW t \in Threads, NEW s, NEW l, pc' = [pc EXCEPT ![t] = s],
           call' = call, ret' = ret, local' = [local EXCEPT ![t] = l],
           l.todo = local[t].todo, PhaseAt(s) = PhaseAt(pc[t]),
           AnswerAt(s, call[t].op, l.value, ret[t])
              = AnswerAt(pc[t], call[t].op, local[t].value, ret[t])
    PROVE  Ph' = Ph /\ Lf' = Lf /\ An' = An
<1>1. \A u \in Threads :
         /\ Ph'[u] = IF u = t THEN PhaseAt(s) ELSE Ph[u]
         /\ Lf'[u] = IF u = t THEN l.todo ELSE Lf[u]
         /\ An'[u] = IF u = t THEN AnswerAt(s, call[t].op, l.value, ret[t]) ELSE An[u]
  BY GoesOn
<1>2. \A u \in Threads : Ph'[u] = Ph[u] /\ Lf'[u] = Lf[u] /\ An'[u] = An[u]
  BY <1>1, MappedNow
<1>3. QED BY <1>2, MappedFunctions

\* A step at which the call of t takes effect, with the result v.
LEMMA TakesEffect ==
    ASSUME TypeOK, NEW t \in Threads, NEW s, NEW l, NEW v, NEW op,
           pc' = [pc EXCEPT ![t] = s], call' = call, ret' = ret,
           local' = [local EXCEPT ![t] = l], l.todo = local[t].todo, call[t].op = op,
           PhaseAt(pc[t]) = "called", PhaseAt(s) = "settled",
           AnswerAt(s, call[t].op, l.value, ret[t]) = v
    PROVE  Settles(t, op, v)
<1>1. \A u \in Threads :
         /\ Ph'[u] = IF u = t THEN PhaseAt(s) ELSE Ph[u]
         /\ Lf'[u] = IF u = t THEN l.todo ELSE Lf[u]
         /\ An'[u] = IF u = t THEN AnswerAt(s, call[t].op, l.value, ret[t]) ELSE An[u]
  BY GoesOn
<1>2. \A u \in Threads : Lf'[u] = Lf[u]
  BY <1>1, MappedNow
<1>3. Ph' = [Ph EXCEPT ![t] = "settled"] /\ Lf' = Lf /\ An' = [An EXCEPT ![t] = v]
  BY <1>1, <1>2, MappedFunctions
<1>4. Ph[t] = "called"
  BY MappedNow
<1>5. QED BY <1>3, <1>4 DEF Settles

\* A call that takes effect as it returns.
LEMMA ReturnsAtOnce ==
    ASSUME TypeOK, NEW t \in Threads, NEW v, NEW op, Return(t, v), call[t].op = op,
           PhaseAt(pc[t]) = "called", local[t].todo = {}
    PROVE  Settles(t, op, v)
<1>1. /\ Ph' = [Ph EXCEPT ![t] = "idle"] /\ Lf' = [Lf EXCEPT ![t] = {}]
      /\ An' = [An EXCEPT ![t] = v] /\ call' = [call EXCEPT ![t] = NoCall]
  BY GoesIdle
<1>2. Ph[t] = "called" /\ Lf[t] = {}
  BY MappedNow
<1>3. Lf' = Lf
  BY <1>1, <1>2 DEF Lf
<1>4. QED BY <1>1, <1>2, <1>3 DEF Settles

\* A call that returns what it is bound to.
LEMMA ReturnsLater ==
    ASSUME TypeOK, NEW t \in Threads, NEW v, Return(t, v), local[t].todo = {},
           PhaseAt(pc[t]) = "settled", entries' = entries,
           AnswerAt(pc[t], call[t].op, local[t].value, ret[t]) = v
    PROVE  Map!LMNext
<1>1. /\ Ph' = [Ph EXCEPT ![t] = "idle"] /\ Lf' = [Lf EXCEPT ![t] = {}]
      /\ An' = [An EXCEPT ![t] = v] /\ call' = [call EXCEPT ![t] = NoCall]
  BY GoesIdle
<1>2. Ph[t] = "settled" /\ Lf[t] = {} /\ An[t] = v
  BY MappedNow
<1>3. Lf' = Lf /\ An' = An
  BY <1>1, <1>2 DEF Lf, An
<1>4. QED BY <1>1, <1>2, <1>3, StoreKept, MapAnswers

\* A thread that panics.
LEMMA Panics ==
    ASSUME TypeOK, NEW t \in Threads, pc' = [pc EXCEPT ![t] = "panicked"],
           call' = call, ret' = ret, local' = local, entries' = entries,
           pc[t] \in {"evict_stats", "del_stats"}
    PROVE  Map!LMNext
<1>1. local' = [local EXCEPT ![t] = local[t]]
  BY DEF TypeOK
<1>2. \A u \in Threads :
         /\ Ph'[u] = IF u = t THEN PhaseAt("panicked") ELSE Ph[u]
         /\ Lf'[u] = IF u = t THEN local[t].todo ELSE Lf[u]
         /\ An'[u] = IF u = t
                     THEN AnswerAt("panicked", call[t].op, local[t].value, ret[t]) ELSE An[u]
  BY <1>1, GoesOn
<1>3. pc[t] = "evict_stats" => call[t].op = "set"
  BY DEF TypeOK, SetSteps
<1>4. pc[t] = "del_stats" => call[t].op = "delete"
  BY DEF TypeOK
<1>5. AnswerAt("panicked", call[t].op, local[t].value, ret[t])
         = AnswerAt(pc[t], call[t].op, local[t].value, ret[t])
  BY <1>3, <1>4 DEF AnswerAt
<1>6. Lf' = Lf /\ An' = An
  BY <1>2, <1>5, MappedNow, MappedFunctions
<1>7. Ph' = [Ph EXCEPT ![t] = "crashed"] /\ Ph[t] \in {"called", "settled"}
  BY <1>2, MappedNow, MappedFunctions DEF PhaseAt
<1>8. QED BY <1>6, <1>7, StoreKept, MapCrashes

LEMMA Arguments ==
    ASSUME TypeOK, NEW t \in Threads
    PROVE  /\ local[t] \in Locals
           /\ call[t].op \in {"set", "get", "exists", "delete"} => call[t].key \in Keys
           /\ call[t].op = "set" => call[t].value \in Values /\ call[t].life \in Lives
<1>1. call[t] \in Requests \cup {NoCall} /\ local[t] \in Locals
  BY DEF TypeOK
<1>2. Ttls \subseteq Lives
  BY MemoryCacheAssumption DEF Lives
<1>3. QED BY <1>1, <1>2, CallShape

\* Steps at which the call of t has not taken effect.
Before == {"set_remove", "set_sub", "set_insert", "evict_check", "evict_pop",
           "evict_remove", "evict_sub", "evict_stats", "evict_fail",
           "get_check", "get_expire", "get_read", "exists", "del_remove",
           "clear_entries", "clear_size", "clear_stats", "clear_policy"}

LEMMA BeforeIs ==
    ASSUME NEW s \in Before, NEW op, NEW v, NEW r
    PROVE  PhaseAt(s) = "called" /\ AnswerAt(s, op, v, r) = r
PROOF BY DEF Before, PhaseAt, AnswerAt

\* From one of these steps to another, or with the effect and the answer kept.
LEMMA Internal ==
    ASSUME TypeOK, NEW t \in Threads, NEW s, NEW l, pc' = [pc EXCEPT ![t] = s],
           call' = call, ret' = ret, local' = [local EXCEPT ![t] = l],
           l.todo = local[t].todo, l.value = local[t].value,
           \/ pc[t] \in Before /\ s \in Before
           \/ pc[t] \in {"set_add", "set_stats"} /\ s \in {"set_stats", "set_policy"}
           \/ pc[t] = "get_access" /\ s = "get_hit"
           \/ pc[t] = "del_sub" /\ s = "del_stats"
    PROVE  Ph' = Ph /\ Lf' = Lf /\ An' = An /\ call' = call
<1>1. PhaseAt(s) = PhaseAt(pc[t])
  BY BeforeIs DEF PhaseAt
<1>2. AnswerAt(s, call[t].op, l.value, ret[t])
         = AnswerAt(pc[t], call[t].op, local[t].value, ret[t])
  <2>1. CASE pc[t] \in Before /\ s \in Before
    BY <2>1, BeforeIs
  <2>2. CASE ~ (pc[t] \in Before /\ s \in Before)
    BY <2>2 DEF AnswerAt
  <2>3. QED BY <2>1, <2>2
<1>3. QED BY <1>1, <1>2, Quiet

LEMMA SameLocal ==
    ASSUME TypeOK, NEW t \in Threads, local' = local
    PROVE  local' = [local EXCEPT ![t] = local[t]]
PROOF BY DEF TypeOK

LEMMA SetMaps ==
    ASSUME TypeOK, TodoOK, NEW t \in Threads, SetStep(t)
    PROVE  [Map!LMNext]_(Map!lmVars)
<1> USE Arguments, SameLocal DEF Goto
<1>1. CASE SetRemove(t)
  <2>1. pc[t] = "set_remove" /\ call[t].op = "set"
    BY <1>1 DEF SetRemove, TypeOK, SetSteps
  <2>2. PICK k \in Keys : k = call[t].key
    BY <2>1
  <2>3. entries' = [entries EXCEPT ![k] = None]
    BY <1>1, <2>2 DEF SetRemove, Forget
  <2>4. PICK s \in {"set_sub", "evict_check"} :
           pc' = [pc EXCEPT ![t] = s] /\ call' = call /\ ret' = ret
    BY <1>1 DEF SetRemove
  <2>5. PICK l : /\ local' = [local EXCEPT ![t] = l]
                 /\ l.todo = local[t].todo /\ l.value = local[t].value
    <3>1. CASE call[t].key \in Stored
      <4>1. PICK l : l = [local[t] EXCEPT !.old_size = EntrySize]
        OBVIOUS
      <4>2. local' = [local EXCEPT ![t] = l]
        BY <1>1, <3>1, <4>1 DEF SetRemove
      <4>3. l.todo = local[t].todo /\ l.value = local[t].value
        BY <4>1 DEF Locals
      <4>4. QED BY <4>2, <4>3
    <3>2. CASE call[t].key \notin Stored
      BY <1>1, <3>2 DEF SetRemove
    <3>3. QED BY <3>1, <3>2
  <2>6. pc[t] \in Before /\ s \in Before
    BY <2>1 DEF Before
  <2>7. Ph' = Ph /\ Lf' = Lf /\ An' = An /\ call' = call
    BY <2>4, <2>5, <2>6, Internal
  <2>8. St' = [St EXCEPT ![k] = None]
    BY <2>3, StoreForgets
  <2>9. QED BY <2>7, <2>8, MapLoses
<1>2. CASE SetSub(t)
  <2>1. /\ pc[t] = "set_sub" /\ pc' = [pc EXCEPT ![t] = "evict_check"]
        /\ call' = call /\ ret' = ret /\ local' = local /\ entries' = entries
    BY <1>2 DEF SetSub
  <2>2. Ph' = Ph /\ Lf' = Lf /\ An' = An /\ call' = call
    BY <2>1, Internal DEF Before
  <2>3. QED BY <2>1, <2>2, StoreKept, MapStutters
<1>3. CASE SetInsert(t)
  <2>1. /\ pc[t] = "set_insert" /\ call[t].op = "set"
        /\ pc' = [pc EXCEPT ![t] = "set_add"] /\ call' = call /\ ret' = ret /\ local' = local
    BY <1>3 DEF SetInsert, TypeOK, SetSteps
  <2>2. Settles(t, "set", "ok")
    BY <2>1, TakesEffect DEF PhaseAt, AnswerAt
  <2>3. St' = [St EXCEPT ![call[t].key] = call[t].value]
    <3>1. PICK life \in Lives : entries' = [entries EXCEPT ![call[t].key] =
                                               [value |-> call[t].value, life |-> life]]
      BY <1>3, InsertedEntry
    <3>2. QED BY <2>1, <3>1, StoreTakes
  <2>4. QED BY <2>2, <2>3, MapPuts
<1>4. CASE SetAdd(t)
  <2>1. /\ pc[t] = "set_add" /\ pc' = [pc EXCEPT ![t] = "set_stats"]
        /\ call' = call /\ ret' = ret /\ entries' = entries
        /\ local' = [local EXCEPT ![t] = [local[t] EXCEPT !.final_size = size_bytes']]
    BY <1>4 DEF SetAdd
  <2>2. PICK l : l = [local[t] EXCEPT !.final_size = size_bytes']
    OBVIOUS
  <2>3. l.todo = local[t].todo /\ l.value = local[t].value
    BY <2>2 DEF Locals
  <2>4. Ph' = Ph /\ Lf' = Lf /\ An' = An /\ call' = call
    BY <2>1, <2>2, <2>3, Internal
  <2>5. QED BY <2>1, <2>4, StoreKept, MapStutters
<1>5. CASE SetStats(t)
  <2>1. /\ pc[t] = "set_stats" /\ pc' = [pc EXCEPT ![t] = "set_policy"]
        /\ call' = call /\ ret' = ret /\ local' = local /\ entries' = entries
    BY <1>5 DEF SetStats
  <2>2. Ph' = Ph /\ Lf' = Lf /\ An' = An /\ call' = call
    BY <2>1, Internal
  <2>3. QED BY <2>1, <2>2, StoreKept, MapStutters
<1>6. CASE SetPolicy(t)
  <2>1. pc[t] = "set_policy" /\ Return(t, "ok") /\ entries' = entries
    BY <1>6 DEF SetPolicy
  <2>2. local[t].todo = {}
    BY <2>1 DEF TodoOK
  <2>3. QED BY <2>1, <2>2, ReturnsLater DEF PhaseAt, AnswerAt
<1>7. QED BY <1>1, <1>2, <1>3, <1>4, <1>5, <1>6 DEF SetStep

LEMMA EvictMaps ==
    ASSUME TypeOK, TodoOK, NEW t \in Threads, EvictStep(t)
    PROVE  [Map!LMNext]_(Map!lmVars)
<1> USE SameLocal DEF Goto
<1>1. CASE EvictCheck(t)
  <2>1. \E s \in {"set_insert", "evict_pop"} :
           /\ pc[t] = "evict_check" /\ pc' = [pc EXCEPT ![t] = s]
           /\ call' = call /\ ret' = ret /\ local' = local /\ entries' = entries
    BY <1>1 DEF EvictCheck
  <2>2. Ph' = Ph /\ Lf' = Lf /\ An' = An /\ call' = call
    BY <2>1, Internal DEF Before
  <2>3. QED BY <2>1, <2>2, StoreKept, MapStutters
<1>2. CASE EvictPop(t)
  <2>1. PICK s \in {"evict_remove", "evict_fail"} :
           /\ pc[t] = "evict_pop" /\ pc' = [pc EXCEPT ![t] = s]
           /\ call' = call /\ ret' = ret /\ entries' = entries
    BY <1>2 DEF EvictPop
  <2>2. PICK l : /\ local' = [local EXCEPT ![t] = l]
                 /\ l.todo = local[t].todo /\ l.value = local[t].value
    <3>1. CASE UNCHANGED local
      BY <3>1
    <3>2. ASSUME NEW k \in Keys, local' = [local EXCEPT ![t].victim = k]
          PROVE  \E l : /\ local' = [local EXCEPT ![t] = l]
                        /\ l.todo = local[t].todo /\ l.value = local[t].value
      <4>1. PICK l : l = [local[t] EXCEPT !.victim = k]
        OBVIOUS
      <4>2. l.todo = local[t].todo /\ l.value = local[t].value
        BY <4>1, Arguments DEF Locals
      <4>3. QED BY <3>2, <4>1, <4>2
    <3>3. QED BY <1>2, <3>1, <3>2 DEF EvictPop
  <2>3. pc[t] \in Before /\ s \in Before
    BY <2>1 DEF Before
  <2>4. Ph' = Ph /\ Lf' = Lf /\ An' = An /\ call' = call
    BY <2>1, <2>2, <2>3, Internal
  <2>5. QED BY <2>1, <2>4, StoreKept, MapStutters
<1>3. CASE EvictRemove(t)
  <2>1. PICK k \in Keys : k = local[t].victim
    BY <1>3 DEF EvictRemove, TypeOK
  <2>2. entries' = [entries EXCEPT ![k] = None]
    BY <1>3, <2>1 DEF EvictRemove, Forget
  <2>3. PICK l : l = [local[t] EXCEPT !.victim = None]
    OBVIOUS
  <2>4. l.todo = local[t].todo /\ l.value = local[t].value
    BY <2>3, Arguments DEF Locals
  <2>5. \E s \in {"evict_sub", "evict_check"} :
           /\ pc[t] = "evict_remove" /\ pc' = [pc EXCEPT ![t] = s]
           /\ call' = call /\ ret' = ret /\ local' = [local EXCEPT ![t] = l]
    BY <1>3, <2>3 DEF EvictRemove
  <2>6. Ph' = Ph /\ Lf' = Lf /\ An' = An /\ call' = call
    BY <2>4, <2>5, Internal DEF Before
  <2>7. St' = [St EXCEPT ![k] = None]
    BY <2>2, StoreForgets
  <2>8. QED BY <2>6, <2>7, MapLoses
<1>4. CASE EvictSub(t)
  <2>1. /\ pc[t] = "evict_sub" /\ pc' = [pc EXCEPT ![t] = "evict_stats"]
        /\ call' = call /\ ret' = ret /\ local' = local /\ entries' = entries
    BY <1>4 DEF EvictSub
  <2>2. Ph' = Ph /\ Lf' = Lf /\ An' = An /\ call' = call
    BY <2>1, Internal DEF Before
  <2>3. QED BY <2>1, <2>2, StoreKept, MapStutters
<1>5. CASE EvictStats(t)
  <2>1. /\ pc[t] = "evict_stats" /\ call' = call /\ ret' = ret
        /\ local' = local /\ entries' = entries
    BY <1>5 DEF EvictStats, CountOneLess
  <2>2. CASE pc' = [pc EXCEPT ![t] = "panicked"]
    BY <2>1, <2>2, Panics
  <2>3. CASE pc' = [pc EXCEPT ![t] = "evict_check"]
    <3>1. Ph' = Ph /\ Lf' = Lf /\ An' = An /\ call' = call
      BY <2>1, <2>3, Internal DEF Before
    <3>2. QED BY <2>1, <3>1, StoreKept, MapStutters
  <2>4. QED BY <1>5, <2>2, <2>3 DEF EvictStats, CountOneLess
<1>6. CASE EvictFail(t)
  <2>1. /\ pc[t] = "evict_fail" /\ call[t].op = "set"
        /\ Return(t, "full") /\ entries' = entries
    BY <1>6 DEF EvictFail, TypeOK, SetSteps
  <2>2. PhaseAt(pc[t]) = "called" /\ local[t].todo = {}
    BY <2>1 DEF PhaseAt, TodoOK
  <2>3. Settles(t, "set", "full")
    BY <2>1, <2>2, ReturnsAtOnce
  <2>4. QED BY <2>1, <2>3, StoreKept, MapRefuses
<1>7. QED BY <1>1, <1>2, <1>3, <1>4, <1>5, <1>6 DEF EvictStep

LEMMA ReadMaps ==
    ASSUME TypeOK, TodoOK, NEW t \in Threads, ReadStep(t)
    PROVE  [Map!LMNext]_(Map!lmVars)
<1> USE SameLocal DEF Goto
<1>1. CASE GetCheck(t)
  <2>1. \E s \in {"get_expire", "get_read"} :
           /\ pc[t] = "get_check" /\ pc' = [pc EXCEPT ![t] = s]
           /\ call' = call /\ ret' = ret /\ local' = local /\ entries' = entries
    BY <1>1 DEF GetCheck
  <2>2. Ph' = Ph /\ Lf' = Lf /\ An' = An /\ call' = call
    BY <2>1, Internal DEF Before
  <2>3. QED BY <2>1, <2>2, StoreKept, MapStutters
<1>2. CASE GetExpire(t)
  <2>1. pc[t] = "get_expire" /\ call[t].op = "get"
    BY <1>2 DEF GetExpire, TypeOK
  <2>2. PICK k \in Keys : k = call[t].key
    BY <2>1, Arguments
  <2>3. /\ pc' = [pc EXCEPT ![t] = "get_miss"] /\ call' = call /\ ret' = ret
        /\ local' = local /\ entries' = [entries EXCEPT ![k] = None]
    BY <1>2, <2>2 DEF GetExpire, Forget
  <2>4. Settles(t, "get", None)
    BY <2>1, <2>3, TakesEffect DEF PhaseAt, AnswerAt
  <2>5. St' = [St EXCEPT ![k] = None]
    BY <2>3, StoreForgets
  <2>6. QED BY <2>2, <2>4, <2>5, MapMisses
<1>3. CASE GetRead(t)
  <2>1. pc[t] = "get_read" /\ call[t].op = "get" /\ entries' = entries
    BY <1>3 DEF GetRead, TypeOK
  <2>2. PICK k \in Keys : k = call[t].key
    BY <2>1, Arguments
  <2>3. CASE k \in Stored
    <3>1. PICK l : l = [local[t] EXCEPT !.value = entries[k].value]
      OBVIOUS
    <3>2. l.todo = local[t].todo /\ l.value = entries[k].value
      BY <3>1, Arguments DEF Locals
    <3>3. /\ pc' = [pc EXCEPT ![t] = "get_access"] /\ call' = call /\ ret' = ret
          /\ local' = [local EXCEPT ![t] = l]
      BY <1>3, <2>2, <2>3, <3>1 DEF GetRead
    <3>4. PICK v : v = entries[k].value
      OBVIOUS
    <3>5. Settles(t, "get", v)
      BY <2>1, <3>2, <3>3, <3>4, TakesEffect DEF PhaseAt, AnswerAt
    <3>6. v = St[call[t].key]
      BY <2>2, <2>3, <3>4, StoreFinds
    <3>7. QED BY <2>1, <3>5, <3>6, StoreKept, MapFinds
  <2>4. CASE k \notin Stored
    <3>1. /\ pc' = [pc EXCEPT ![t] = "get_miss"] /\ call' = call /\ ret' = ret
          /\ local' = local
      BY <1>3, <2>2, <2>4 DEF GetRead
    <3>2. Settles(t, "get", None)
      BY <2>1, <3>1, TakesEffect DEF PhaseAt, AnswerAt
    <3>3. None = St[call[t].key]
      BY <2>2, <2>4, StoreFinds
    <3>4. QED BY <2>1, <3>2, <3>3, StoreKept, MapFinds
  <2>5. QED BY <2>3, <2>4
<1>4. CASE GetAccess(t)
  <2>1. /\ pc[t] = "get_access" /\ pc' = [pc EXCEPT ![t] = "get_hit"]
        /\ call' = call /\ ret' = ret /\ local' = local /\ entries' = entries
    BY <1>4 DEF GetAccess
  <2>2. Ph' = Ph /\ Lf' = Lf /\ An' = An /\ call' = call
    BY <2>1, Internal
  <2>3. QED BY <2>1, <2>2, StoreKept, MapStutters
<1>5. CASE GetHit(t)
  <2>1. pc[t] = "get_hit" /\ Return(t, local[t].value) /\ entries' = entries
    BY <1>5 DEF GetHit
  <2>2. PICK v : v = local[t].value
    OBVIOUS
  <2>3. local[t].todo = {} /\ PhaseAt(pc[t]) = "settled"
        /\ AnswerAt(pc[t], call[t].op, local[t].value, ret[t]) = v
    BY <2>1, <2>2 DEF TodoOK, PhaseAt, AnswerAt
  <2>4. QED BY <2>1, <2>2, <2>3, ReturnsLater
<1>6. CASE GetMiss(t)
  <2>1. pc[t] = "get_miss" /\ Return(t, None) /\ entries' = entries
    BY <1>6 DEF GetMiss
  <2>2. local[t].todo = {} /\ PhaseAt(pc[t]) = "settled"
        /\ AnswerAt(pc[t], call[t].op, local[t].value, ret[t]) = None
    BY <2>1 DEF TodoOK, PhaseAt, AnswerAt
  <2>3. QED BY <2>1, <2>2, ReturnsLater
<1>7. CASE Exists(t)
  <2>1. pc[t] = "exists" /\ call[t].op = "exists" /\ entries' = entries
    BY <1>7 DEF Exists, TypeOK
  <2>2. PICK k \in Keys : k = call[t].key
    BY <2>1, Arguments
  <2>3. PhaseAt(pc[t]) = "called" /\ local[t].todo = {}
    BY <2>1 DEF PhaseAt, TodoOK
  <2>4. CASE k \in Stored /\ entries[k].life # "expired"
    <3>1. Return(t, "present")
      BY <1>7, <2>2, <2>4 DEF Exists
    <3>2. Settles(t, "exists", "present")
      BY <2>1, <2>3, <3>1, ReturnsAtOnce
    <3>3. St[call[t].key] # None
      BY <2>2, <2>4, StoreFinds
    <3>4. QED BY <2>1, <3>2, <3>3, StoreKept, MapChecks
  <2>5. CASE ~ (k \in Stored /\ entries[k].life # "expired")
    <3>1. Return(t, "absent")
      BY <1>7, <2>2, <2>5 DEF Exists
    <3>2. Settles(t, "exists", "absent")
      BY <2>1, <2>3, <3>1, ReturnsAtOnce
    <3>3. QED BY <2>1, <3>2, StoreKept, MapChecks
  <2>6. QED BY <2>4, <2>5
<1>8. QED BY <1>1, <1>2, <1>3, <1>4, <1>5, <1>6, <1>7 DEF ReadStep

LEMMA DeleteMaps ==
    ASSUME TypeOK, TodoOK, NEW t \in Threads, DeleteStep(t)
    PROVE  [Map!LMNext]_(Map!lmVars)
<1> USE SameLocal DEF Goto
<1>1. CASE DelRemove(t)
  <2>1. pc[t] = "del_remove" /\ call[t].op = "delete"
    BY <1>1 DEF DelRemove, TypeOK
  <2>2. PICK k \in Keys : k = call[t].key
    BY <2>1, Arguments
  <2>3. entries' = [entries EXCEPT ![k] = None]
    BY <1>1, <2>2 DEF DelRemove, Forget
  <2>4. St' = [St EXCEPT ![call[t].key] = None]
    BY <2>2, <2>3, StoreForgets
  <2>5. CASE call[t].key \in Stored
    <3>1. /\ pc' = [pc EXCEPT ![t] = "del_sub"] /\ call' = call /\ ret' = ret
          /\ local' = local
      BY <1>1, <2>5 DEF DelRemove
    <3>2. Settles(t, "delete", "ok")
      BY <2>1, <3>1, TakesEffect DEF PhaseAt, AnswerAt
    <3>3. QED BY <2>4, <3>2, MapRemoves
  <2>6. CASE call[t].key \notin Stored
    <3>1. Return(t, "ok")
      BY <1>1, <2>6 DEF DelRemove
    <3>2. PhaseAt(pc[t]) = "called" /\ local[t].todo = {}
      BY <2>1 DEF PhaseAt, TodoOK
    <3>3. Settles(t, "delete", "ok")
      BY <2>1, <3>1, <3>2, ReturnsAtOnce
    <3>4. QED BY <2>4, <3>3, MapRemoves
  <2>7. QED BY <2>5, <2>6
<1>2. CASE DelSub(t)
  <2>1. /\ pc[t] = "del_sub" /\ pc' = [pc EXCEPT ![t] = "del_stats"]
        /\ call' = call /\ ret' = ret /\ local' = local /\ entries' = entries
    BY <1>2 DEF DelSub
  <2>2. Ph' = Ph /\ Lf' = Lf /\ An' = An /\ call' = call
    BY <2>1, Internal
  <2>3. QED BY <2>1, <2>2, StoreKept, MapStutters
<1>3. CASE DelStats(t)
  <2>1. pc[t] = "del_stats" /\ entries' = entries
    BY <1>3 DEF DelStats
  <2>2. CASE Goto(t, "panicked") /\ UNCHANGED local
    BY <2>1, <2>2, Panics
  <2>3. CASE Return(t, "ok")
    <3>1. local[t].todo = {} /\ PhaseAt(pc[t]) = "settled"
          /\ AnswerAt(pc[t], call[t].op, local[t].value, ret[t]) = "ok"
      BY <2>1 DEF TodoOK, PhaseAt, AnswerAt
    <3>2. QED BY <2>1, <2>3, <3>1, ReturnsLater
  <2>4. QED BY <1>3, <2>2, <2>3 DEF DelStats, CountOneLess
<1>4. QED BY <1>1, <1>2, <1>3 DEF DeleteStep

LEMMA ClearMaps ==
    ASSUME TypeOK, TodoOK, NEW t \in Threads, ClearStep(t)
    PROVE  [Map!LMNext]_(Map!lmVars)
<1> USE SameLocal DEF Goto
<1>1. CASE ClearEntries(t)
  <2>1. PICK k \in local[t].todo :
           /\ entries' = [entries EXCEPT ![k] = None]
           /\ local' = [local EXCEPT ![t].todo = @ \ {k}]
    BY <1>1 DEF ClearEntries, Forget
  <2>2. k \in Keys
    BY Arguments DEF Locals
  <2>3. PICK l : l = [local[t] EXCEPT !.todo = @ \ {k}]
    OBVIOUS
  <2>4. /\ l.todo = local[t].todo \ {k} /\ l.value = local[t].value
        /\ local' = [local EXCEPT ![t] = l]
    BY <2>1, <2>3, Arguments DEF Locals
  <2>5. PICK s \in {"clear_size", "clear_entries"} :
           /\ pc[t] = "clear_entries" /\ pc' = [pc EXCEPT ![t] = s]
           /\ call' = call /\ ret' = ret
    BY <1>1 DEF ClearEntries
  <2>6. \A u \in Threads :
           /\ Ph'[u] = IF u = t THEN PhaseAt(s) ELSE Ph[u]
           /\ Lf'[u] = IF u = t THEN l.todo ELSE Lf[u]
           /\ An'[u] = IF u = t THEN AnswerAt(s, call[t].op, l.value, ret[t]) ELSE An[u]
    BY <2>4, <2>5, GoesOn
  <2>7. /\ PhaseAt(s) = PhaseAt(pc[t])
        /\ AnswerAt(s, call[t].op, l.value, ret[t])
              = AnswerAt(pc[t], call[t].op, local[t].value, ret[t])
    BY <2>5 DEF PhaseAt, AnswerAt
  <2>8. Ph' = Ph /\ An' = An
    BY <2>6, <2>7, MappedNow, MappedFunctions
  <2>9. Lf' = [Lf EXCEPT ![t] = @ \ {k}]
    BY <2>4, <2>6, MappedNow, MappedFunctions
  <2>10. St' = [St EXCEPT ![k] = None]
    BY <2>1, <2>2, StoreForgets
  <2>11. k \in Lf[t]
    BY MappedNow
  <2>12. QED BY <2>5, <2>8, <2>9, <2>10, <2>11, MapRemovesNext
<1>2. CASE ClearSize(t)
  <2>1. /\ pc[t] = "clear_size" /\ pc' = [pc EXCEPT ![t] = "clear_stats"]
        /\ call' = call /\ ret' = ret /\ local' = local /\ entries' = entries
    BY <1>2 DEF ClearSize
  <2>2. Ph' = Ph /\ Lf' = Lf /\ An' = An /\ call' = call
    BY <2>1, Internal DEF Before
  <2>3. QED BY <2>1, <2>2, StoreKept, MapStutters
<1>3. CASE ClearStats(t)
  <2>1. /\ pc[t] = "clear_stats" /\ pc' = [pc EXCEPT ![t] = "clear_policy"]
        /\ call' = call /\ ret' = ret /\ local' = local /\ entries' = entries
    BY <1>3 DEF ClearStats
  <2>2. Ph' = Ph /\ Lf' = Lf /\ An' = An /\ call' = call
    BY <2>1, Internal DEF Before
  <2>3. QED BY <2>1, <2>2, StoreKept, MapStutters
<1>4. CASE ClearPolicy(t)
  <2>1. /\ pc[t] = "clear_policy" /\ call[t].op = "clear"
        /\ Return(t, "ok") /\ entries' = entries
    BY <1>4 DEF ClearPolicy, TypeOK
  <2>2. PhaseAt(pc[t]) = "called" /\ local[t].todo = {}
    BY <2>1 DEF PhaseAt, TodoOK
  <2>3. Settles(t, "clear", "ok")
    BY <2>1, <2>2, ReturnsAtOnce
  <2>4. Lf[t] = {}
    BY <2>2, MappedNow
  <2>5. QED BY <2>1, <2>3, <2>4, StoreKept, MapClears
<1>5. QED BY <1>1, <1>2, <1>3, <1>4 DEF ClearStep

LEMMA BeginMaps ==
    ASSUME TypeOK, TodoOK, NEW t \in Threads, Begin(t)
    PROVE  Map!LMNext
<1>1. PICK c \in Requests :
         /\ call' = [call EXCEPT ![t] = c]
         /\ pc' = [pc EXCEPT ![t] = FirstStep[c.op]]
         /\ local' = [local EXCEPT ![t].todo = IF c.op = "clear" THEN Keys ELSE {}]
  BY DEF Begin
<1>2. pc[t] = "idle" /\ local[t].todo = {} /\ entries' = entries /\ ret' = ret
  BY DEF Begin, TodoOK
<1>3. PICK s : s = FirstStep[c.op]
  OBVIOUS
<1>4. s \in Before
  BY <1>3 DEF Requests, FirstStep, Before
<1>5. PICK l : l = [local[t] EXCEPT !.todo = IF c.op = "clear" THEN Keys ELSE {}]
  OBVIOUS
<1>6. /\ l.todo = (IF c.op = "clear" THEN Keys ELSE {})
      /\ local' = [u \in Threads |-> IF u = t THEN l ELSE local[u]]
      /\ call' = [u \in Threads |-> IF u = t THEN c ELSE call[u]]
      /\ pc' = [u \in Threads |-> IF u = t THEN s ELSE pc[u]]
  BY <1>1, <1>3, <1>5, Arguments DEF TypeOK, Locals
<1>7. \A u \in Threads : Phase(u)' = IF u = t THEN "called" ELSE Phase(u)
  BY <1>4, <1>6 DEF Phase, Before
<1>8. \A u \in Threads : Answer(u)' = Answer(u)
  BY <1>2, <1>4, <1>6 DEF Answer, Before
<1>9. Ph[t] = "idle" /\ Ph' = [Ph EXCEPT ![t] = "called"] /\ An' = An
  BY <1>2, <1>7, <1>8 DEF Ph, An, Phase
<1>10. Lf' = [Lf EXCEPT ![t] = IF c.op = "clear" THEN Keys ELSE {}]
  BY <1>6 DEF Lf
<1>11. QED BY <1>1, <1>2, <1>9, <1>10, StoreKept, MapAsks

\* An expired entry is still in the map; only the call that finds it so
\* takes it out.
LEMMA ExpireMaps ==
    ASSUME TypeOK, NEW k \in Keys, Expire(k)
    PROVE  UNCHANGED Map!lmVars
<1>1. entries[k] \in Entries
  BY DEF TypeOK, Expire, Stored
<1>2. PICK e : e = [entries[k] EXCEPT !.life = "expired"]
  OBVIOUS
<1>3. e \in Entries /\ e # None /\ e.value = entries[k].value
  BY <1>1, <1>2, NoneIsNoEntry DEF Entries, Lives
<1>4. \A x \in Keys : entries'[x] = IF x = k THEN e ELSE entries[x]
  BY <1>2 DEF TypeOK, Expire
<1>5. St' = St
  BY <1>3, <1>4, StoreIs DEF Expire, Stored
<1>6. Ph' = Ph /\ Lf' = Lf /\ An' = An /\ call' = call
  BY DEF Expire, Ph, Lf, An, Phase, Answer
<1>7. QED BY <1>5, <1>6, MapStutters

-----------------------------------------------------------------------------
(* The invariant *)

LEMMA TodoInit == Init => TodoOK
PROOF BY DEF Init, TodoOK, NoLocal

LEMMA TodoStep ==
    ASSUME TypeOK, TodoOK, NEW t \in Threads, Begin(t) \/ Step(t)
    PROVE  TodoOK'
<1> USE Arguments DEF TypeOK, TodoOK, Goto, Return, NoLocal, Locals
<1>1. CASE Begin(t)
  <2>1. PICK c \in Requests :
           /\ pc' = [pc EXCEPT ![t] = FirstStep[c.op]]
           /\ local' = [local EXCEPT ![t].todo = IF c.op = "clear" THEN Keys ELSE {}]
    BY <1>1 DEF Begin
  <2>2. c.op # "clear" => FirstStep[c.op] # "clear_entries"
    BY DEF Requests, FirstStep
  <2>3. c.op = "clear" => FirstStep[c.op] = "clear_entries"
    BY DEF FirstStep
  <2>4. QED BY <2>1, <2>2, <2>3
<1>2. CASE SetStep(t)
  <2>1. CASE SetRemove(t)
    <3>1. /\ pc[t] = "set_remove"
          /\ \/ /\ local' = [local EXCEPT ![t].old_size = EntrySize]
                /\ pc' = [pc EXCEPT ![t] = "set_sub"]
             \/ UNCHANGED local /\ pc' = [pc EXCEPT ![t] = "evict_check"]
      BY <2>1 DEF SetRemove
    <3>2. \A u \in Threads : local'[u].todo = local[u].todo
      BY <3>1
    <3>3. \A u \in Threads :
             pc'[u] = pc[u] \/ (u = t /\ pc[u] # "clear_entries" /\ pc'[u] # "clear_entries")
      BY <3>1
    <3>4. QED BY <3>2, <3>3
  <2>2. CASE SetSub(t)
    BY <2>2 DEF SetSub
  <2>3. CASE SetInsert(t)
    BY <2>3 DEF SetInsert
  <2>4. CASE SetAdd(t)
    BY <2>4 DEF SetAdd
  <2>5. CASE SetStats(t)
    BY <2>5 DEF SetStats
  <2>6. CASE SetPolicy(t)
    BY <2>6 DEF SetPolicy
  <2>7. QED BY <1>2, <2>1, <2>2, <2>3, <2>4, <2>5, <2>6 DEF SetStep
<1>3. CASE EvictStep(t)
  <2>1. CASE EvictCheck(t)
    BY <2>1 DEF EvictCheck
  <2>2. CASE EvictPop(t)
    BY <2>2 DEF EvictPop
  <2>3. CASE EvictRemove(t)
    BY <2>3 DEF EvictRemove
  <2>4. CASE EvictSub(t)
    BY <2>4 DEF EvictSub
  <2>5. CASE EvictStats(t)
    BY <2>5 DEF EvictStats, CountOneLess
  <2>6. CASE EvictFail(t)
    BY <2>6 DEF EvictFail
  <2>7. QED BY <1>3, <2>1, <2>2, <2>3, <2>4, <2>5, <2>6 DEF EvictStep
<1>4. CASE ReadStep(t)
  <2>1. CASE GetCheck(t)
    BY <2>1 DEF GetCheck
  <2>2. CASE GetExpire(t)
    BY <2>2 DEF GetExpire
  <2>3. CASE GetRead(t)
    BY <2>3 DEF GetRead
  <2>4. CASE GetAccess(t)
    BY <2>4 DEF GetAccess
  <2>5. CASE GetHit(t)
    BY <2>5 DEF GetHit
  <2>6. CASE GetMiss(t)
    BY <2>6 DEF GetMiss
  <2>7. CASE Exists(t)
    BY <2>7 DEF Exists
  <2>8. QED BY <1>4, <2>1, <2>2, <2>3, <2>4, <2>5, <2>6, <2>7 DEF ReadStep
<1>5. CASE DeleteStep(t)
  BY <1>5 DEF DeleteStep, DelRemove, DelSub, DelStats, CountOneLess
<1>6. CASE ClearStep(t)
  BY <1>6 DEF ClearStep, ClearEntries, ClearSize, ClearStats, ClearPolicy
<1>7. QED BY <1>1, <1>2, <1>3, <1>4, <1>5, <1>6 DEF Step

LEMMA TodoNext == TypeOK /\ TodoOK /\ [Next]_vars => TodoOK'
<1> SUFFICES ASSUME TypeOK, TodoOK, [Next]_vars PROVE TodoOK'
  OBVIOUS
<1>1. CASE \E t \in Threads : Begin(t) \/ Step(t)
  BY <1>1, TodoStep
<1>2. CASE (\E k \in Keys : Expire(k)) \/ Finished \/ UNCHANGED vars
  <2>1. UNCHANGED <<pc, local>>
    BY <1>2 DEF Expire, Finished, vars
  <2>2. QED BY <2>1 DEF TodoOK
<1>3. QED BY <1>1, <1>2 DEF Next

-----------------------------------------------------------------------------
(* The refinement *)

LEMMA MapInit == Init => Map!LMInit
PROOF BY DEF Init, Map!LMInit, Stored, Phase, Answer, NoLocal

LEMMA MapNext == TypeOK /\ TodoOK /\ [Next]_vars => [Map!LMNext]_(Map!lmVars)
<1> SUFFICES ASSUME TypeOK, TodoOK, [Next]_vars PROVE [Map!LMNext]_(Map!lmVars)
  OBVIOUS
<1>1. ASSUME NEW t \in Threads, Begin(t) PROVE [Map!LMNext]_(Map!lmVars)
  BY <1>1, BeginMaps
<1>2. ASSUME NEW t \in Threads, Step(t) PROVE [Map!LMNext]_(Map!lmVars)
  BY <1>2, SetMaps, EvictMaps, ReadMaps, DeleteMaps, ClearMaps DEF Step
<1>3. ASSUME NEW k \in Keys, Expire(k) PROVE [Map!LMNext]_(Map!lmVars)
  BY <1>3, ExpireMaps
<1>4. CASE Finished \/ UNCHANGED vars
  <2>1. entries' = entries /\ call' = call /\ pc' = pc /\ local' = local /\ ret' = ret
    BY <1>4 DEF Finished, vars
  <2>2. Ph' = Ph /\ Lf' = Lf /\ An' = An
    BY <2>1 DEF Ph, Lf, An, Phase, Answer
  <2>3. QED BY <2>1, <2>2, StoreKept, MapStutters
<1>5. QED BY <1>1, <1>2, <1>3, <1>4 DEF Next

\* IsLossyMap: however the steps of concurrent calls of src/memory.rs are
\* interleaved, each call takes effect at one instant between its beginning
\* and its return, on a map that may lose entries and never makes one up; a
\* clear takes effect key by key.
THEOREM LossyMapImplemented == Spec => IsLossyMap
<1>1. Init => TypeOK /\ TodoOK /\ Map!LMInit
  BY TypeInit, TodoInit, MapInit
<1>2. TypeOK /\ TodoOK /\ [Next]_vars => TypeOK' /\ TodoOK' /\ [Map!LMNext]_(Map!lmVars)
  BY TypeNext, TodoNext, MapNext
<1>3. QED BY <1>1, <1>2, PTL DEF Spec, IsLossyMap, Map!LMSpec

-----------------------------------------------------------------------------
(* SomeoneRuns *)

\* The steps at which a thread holds size_bytes, and that one does so at a time.
HoldsSize == {"evict_stats", "del_stats", "clear_stats", "clear_policy"}
OneHolder ==
    \A t, u \in Threads : pc[t] \in HoldsSize /\ pc[u] \in HoldsSize => t = u

\* A thread comes to hold size_bytes only while nobody does.
LEMMA TakesHold ==
    ASSUME TypeOK, NEW t \in Threads, Begin(t) \/ Step(t), pc'[t] \in HoldsSize
    PROVE  pc[t] \in HoldsSize \/ SizeFree
<1> USE DEF Goto, Return, HoldsSize
<1>1. pc \in [Threads -> Steps]
  BY DEF TypeOK
<1>2. CASE Begin(t)
  BY <1>1, <1>2 DEF Begin, Requests, FirstStep
<1>3. CASE SetStep(t)
  BY <1>1, <1>3 DEF SetStep, SetRemove, SetSub, SetInsert, SetAdd, SetStats, SetPolicy
<1>4. CASE EvictStep(t)
  BY <1>1, <1>4 DEF EvictStep, EvictCheck, EvictPop, EvictRemove, EvictSub, EvictStats,
                    EvictFail, CountOneLess, SubtractEntry
<1>5. CASE ReadStep(t)
  BY <1>1, <1>5 DEF ReadStep, GetCheck, GetExpire, GetRead, GetAccess, GetHit, GetMiss,
                    Exists
<1>6. CASE DeleteStep(t)
  BY <1>1, <1>6 DEF DeleteStep, DelRemove, DelSub, DelStats, CountOneLess, SubtractEntry
<1>7. CASE ClearStep(t)
  BY <1>1, <1>7 DEF ClearStep, ClearEntries, ClearSize, ClearStats, ClearPolicy
<1>8. QED BY <1>2, <1>3, <1>4, <1>5, <1>6, <1>7 DEF Step

LEMMA OneHolderNext == TypeOK /\ OneHolder /\ [Next]_vars => OneHolder'
<1> SUFFICES ASSUME TypeOK, OneHolder, [Next]_vars PROVE OneHolder'
  OBVIOUS
<1>1. ASSUME pc' = pc PROVE OneHolder'
  BY <1>1 DEF OneHolder
<1>2. ASSUME NEW t \in Threads, Begin(t) \/ Step(t) PROVE OneHolder'
  <2>1. \A u \in Threads \ {t} : pc'[u] = pc[u]
    BY <1>2, OthersSame
  <2>2. pc'[t] \in HoldsSize => \A u \in Threads \ {t} : pc[u] \notin HoldsSize
    BY <1>2, TakesHold DEF OneHolder, SizeFree, Doing, HoldsSize
  <2>3. QED BY <2>1, <2>2 DEF OneHolder
<1>3. QED BY <1>1, <1>2 DEF Next, Expire, Finished, vars

\* Who waits, waits for the holder of size_bytes, who can go on: it waits for
\* stats only if another thread holds it, and that one would hold size_bytes.
LEMMA HolderRuns == OneHolder => SomeoneRuns
<1> SUFFICES ASSUME OneHolder, NEW t \in Threads, Waits(t)
             PROVE  \E u \in Threads : pc[u] \notin {"idle", "panicked"} /\ ~ Waits(u)
  BY DEF SomeoneRuns
<1>1. PICK u \in Threads : pc[u] \in HoldsSize
  BY DEF Waits, SizeFree, StatsFree, Doing, HoldsSize
<1>2. pc[u] \notin TakesSize
  BY <1>1 DEF HoldsSize, TakesSize
<1>3. pc[u] \in TakesStats => StatsFree
  <2>1. ASSUME NEW w \in Threads, pc[w] = "clear_policy" PROVE pc[u] = "clear_policy"
    BY <1>1, <2>1 DEF OneHolder, HoldsSize
  <2>2. QED BY <2>1 DEF StatsFree, Doing, TakesStats
<1>4. QED BY <1>1, <1>2, <1>3 DEF Waits, HoldsSize

\* With any policy and any number of threads the locks of src/memory.rs never
\* leave every thread waiting, clear() included.
THEOREM NoLockCycle == Spec => []SomeoneRuns
<1>1. Init => OneHolder
  BY DEF Init, OneHolder, HoldsSize
<1>2. QED BY <1>1, OneHolderNext, HolderRuns, TypeInit, TypeNext, PTL DEF Spec

-----------------------------------------------------------------------------
(* CallsTakeFewSteps *)

\* The eviction policy's states, and its promise about their lengths: an
\* insertion or an access gives it one key more at most, and a key it gives
\* to evict_for_space is one key less.
CountsKeys(States) ==
    /\ PolicyNew \in States /\ PolicyLength(PolicyNew) = 0
    /\ \A p \in States : PolicyLength(p) \in Nat
    /\ \A p \in States, k \in Keys :
          /\ PolicyOnAccess(p, k) \in States
          /\ PolicyLength(PolicyOnAccess(p, k)) <= PolicyLength(p) + 1
          /\ PolicyOnInsert(p, k) \in States
          /\ PolicyLength(PolicyOnInsert(p, k)) <= PolicyLength(p) + 1
    /\ \A p \in States : \A outcome \in PolicyEvict(p) :
          /\ outcome.rest \in States
          /\ outcome.key \in Keys => PolicyLength(outcome.rest) + 1 <= PolicyLength(p)
          /\ outcome.key = None => PolicyLength(outcome.rest) <= PolicyLength(p)
    /\ \A p \in States :
          /\ PolicyReset(p) \in States
          /\ PolicyLength(PolicyReset(p)) <= PolicyLength(p)

(***************************************************************************)
(* What is left of a call at each of its steps; keys is how many clear()   *)
(* has still to remove.  The step that gives the policy a key is charged   *)
(* with the pass that will take it away again, so a pass has been paid for *)
(* when it begins: evict_remove, with a key less in the policy, may be     *)
(* further from the end than evict_pop.                                    *)
(***************************************************************************)
LeftAt(s, keys) ==
    CASE s \in {"idle", "panicked"} -> 0
      [] s \in {"evict_fail", "get_hit", "get_miss", "exists", "del_stats",
                "clear_policy"} -> 1
      [] s \in {"get_expire", "del_sub", "clear_stats"} -> 2
      [] s \in {"del_remove", "clear_size"} -> 3
      [] s = "clear_entries" -> 3 + keys
      [] s = "set_policy" -> 1 + PassSteps
      [] s \in {"set_stats", "get_access"} -> 2 + PassSteps
      [] s \in {"set_add", "get_read"} -> 3 + PassSteps
      [] s \in {"set_insert", "evict_pop", "get_check"} -> 4 + PassSteps
      [] s = "evict_check" -> 5 + PassSteps
      [] s \in {"set_sub", "evict_stats"} -> 6 + PassSteps
      [] s \in {"set_remove", "evict_sub"} -> 7 + PassSteps
      [] s = "evict_remove" -> 8 + PassSteps

Left(t) == LeftAt(pc[t], Cardinality(local[t].todo))

\* What is left of all calls, one unit after the other.
Outstanding ==
    {x \in Threads \X (1 .. 8 + PassSteps + Cardinality(Keys)) : x[2] <= Left(x[1])}

\* The steps taken, those left, and a pass for every key of the policy have
\* been paid for by the calls begun.
Budget ==
    steps + Cardinality(Outstanding) + PassSteps * PolicyLength(policy)
        <= StepsPerCall * calls

\* The most that is ever left of a call.
MostLeft == 8 + PassSteps + Cardinality(Keys)

\* The pairs of Outstanding, for what is left as a function of the threads.
Units(f) == {x \in Threads \X (1 .. MostLeft) : x[2] <= f[x[1]]}

LEMMA KeysCount == Cardinality(Keys) \in Nat /\ MostLeft \in Nat /\ StepsPerCall \in Nat
PROOF BY MemoryCacheAssumption, FS_CardinalityType DEF MostLeft, PassSteps, StepsPerCall

LEMMA TodoCount ==
    ASSUME NEW S \in SUBSET Keys
    PROVE  /\ IsFiniteSet(S) /\ Cardinality(S) \in Nat
           /\ Cardinality(S) <= Cardinality(Keys)
PROOF BY MemoryCacheAssumption, FS_Subset, FS_CardinalityType

LEMMA LeftRange ==
    ASSUME NEW s \in Steps, NEW n \in Nat, n <= Cardinality(Keys)
    PROVE  LeftAt(s, n) \in 0 .. MostLeft
<1>1. PICK c \in Nat : c = Cardinality(Keys) /\ MostLeft = 13 + c /\ n <= c
  BY KeysCount DEF MostLeft, PassSteps
<1>2. s = "clear_entries" => LeftAt(s, n) = 3 + n
  BY DEF LeftAt
<1>3. s # "clear_entries" => LeftAt(s, n) \in 0 .. 13
  BY DEF LeftAt, PassSteps, Steps
<1>4. QED BY <1>1, <1>2, <1>3

\* The pairs of one thread are as many as it has left.
LEMMA UnitsChange ==
    ASSUME NEW f \in [Threads -> 0 .. MostLeft], NEW g \in [Threads -> 0 .. MostLeft],
           NEW t \in Threads, \A u \in Threads \ {t} : g[u] = f[u]
    PROVE  /\ Cardinality(Units(f)) \in Nat /\ Cardinality(Units(g)) \in Nat
           /\ Cardinality(Units(g)) - g[t] = Cardinality(Units(f)) - f[t]
<1> DEFINE Rest == {x \in (Threads \ {t}) \X (1 .. MostLeft) : x[2] <= f[x[1]]}
<1>1. IsFiniteSet(Rest) /\ Cardinality(Rest) \in Nat
  <2>1. IsFiniteSet(Threads \ {t}) /\ IsFiniteSet(1 .. MostLeft)
    BY MemoryCacheAssumption, KeysCount, FS_Subset, FS_Interval
  <2>2. IsFiniteSet((Threads \ {t}) \X (1 .. MostLeft))
    BY <2>1, FS_Product
  <2>3. Rest \in SUBSET ((Threads \ {t}) \X (1 .. MostLeft))
    OBVIOUS
  <2> HIDE DEF Rest
  <2>4. QED BY <2>2, <2>3, FS_Subset, FS_CardinalityType
<1>2. ASSUME NEW h \in [Threads -> 0 .. MostLeft], \A u \in Threads \ {t} : h[u] = f[u]
      PROVE  /\ Cardinality(Units(h)) \in Nat
             /\ Cardinality(Units(h)) = Cardinality(Rest) + h[t]
  <2> DEFINE Own == {t} \X (1 .. h[t])
  <2>1. h[t] \in Nat /\ h[t] <= MostLeft
    BY <1>2, KeysCount
  <2>2. IsFiniteSet(Own) /\ Cardinality(Own) = h[t]
    <3>1. IsFiniteSet(1 .. h[t]) /\ Cardinality(1 .. h[t]) = h[t]
      BY <2>1, FS_Interval
    <3>2. IsFiniteSet({t}) /\ Cardinality({t}) = 1
      BY FS_Singleton
    <3>3. IsFiniteSet(Own) /\ Cardinality(Own) = 1 * h[t]
      BY <3>1, <3>2, FS_Product
    <3> HIDE DEF Own
    <3>4. QED BY <2>1, <3>3
  <2>3. Units(h) = Rest \cup Own
    <3>1. ASSUME NEW x \in Units(h) PROVE x \in Rest \cup Own
      <4>1. PICK u \in Threads, i \in 1 .. MostLeft : x = <<u, i>> /\ i <= h[u]
        BY DEF Units
      <4>2. CASE u = t
        BY <2>1, <4>1, <4>2
      <4>3. CASE u # t
        BY <1>2, <4>1, <4>3
      <4>4. QED BY <4>2, <4>3
    <3>2. ASSUME NEW x \in Rest PROVE x \in Units(h)
      <4>1. PICK u \in Threads \ {t}, i \in 1 .. MostLeft : x = <<u, i>> /\ i <= f[u]
        OBVIOUS
      <4>2. QED BY <1>2, <4>1 DEF Units
    <3>3. ASSUME NEW x \in Own PROVE x \in Units(h)
      <4>1. PICK i \in 1 .. h[t] : x = <<t, i>>
        OBVIOUS
      <4>2. i \in 1 .. MostLeft /\ i <= h[t]
        BY <2>1, KeysCount
      <4>3. QED BY <4>1, <4>2 DEF Units
    <3>4. QED BY <3>1, <3>2, <3>3
  <2>4. Rest \cap Own = {}
    OBVIOUS
  <2> HIDE DEF Rest, Own
  <2>5. IsFiniteSet({}) /\ Cardinality({}) = 0
    BY FS_EmptySet
  <2>6. Cardinality(Rest \cup Own) = Cardinality(Rest) + h[t] - 0
    BY <1>1, <2>2, <2>4, <2>5, FS_Union
  <2>7. QED BY <1>1, <2>1, <2>3, <2>6
<1> HIDE DEF Rest
<1>3. Cardinality(Units(f)) = Cardinality(Rest) + f[t] /\ Cardinality(Units(f)) \in Nat
  BY <1>2
<1>4. Cardinality(Units(g)) = Cardinality(Rest) + g[t] /\ Cardinality(Units(g)) \in Nat
  BY <1>2
<1>5. f[t] \in Nat /\ g[t] \in Nat
  BY KeysCount
<1>6. QED BY <1>1, <1>3, <1>4, <1>5

LEMMA LeftType == ASSUME TypeOK, NEW t \in Threads PROVE Left(t) \in 0 .. MostLeft
<1>1. pc[t] \in Steps /\ local[t].todo \in SUBSET Keys
  BY DEF TypeOK, Locals
<1>2. QED BY <1>1, TodoCount, LeftRange DEF Left

LEMMA LeftTypeNext == ASSUME TypeOK', NEW t \in Threads PROVE Left(t)' \in 0 .. MostLeft
<1>1. pc'[t] \in Steps /\ local'[t].todo \in SUBSET Keys
  BY DEF TypeOK, Locals
<1>2. QED BY <1>1, TodoCount, LeftRange DEF Left

\* A thread begins a call or takes a step: only what it has left changes.
LEMMA OutstandingChange ==
    ASSUME TypeOK, TypeOK', NEW t \in Threads, Begin(t) \/ Step(t)
    PROVE  /\ Cardinality(Outstanding) \in Nat /\ Cardinality(Outstanding') \in Nat
           /\ Cardinality(Outstanding') - Left(t)' = Cardinality(Outstanding) - Left(t)
<1> DEFINE f == [u \in Threads |-> Left(u)]
           g == [u \in Threads |-> Left(u)']
<1>1. f \in [Threads -> 0 .. MostLeft] /\ g \in [Threads -> 0 .. MostLeft]
  BY LeftType, LeftTypeNext
<1>2. \A u \in Threads \ {t} : g[u] = f[u]
  BY OthersSame DEF Left
<1>3. Outstanding = Units(f) /\ Outstanding' = Units(g)
  BY DEF Outstanding, Units, MostLeft
<1>4. f[t] = Left(t) /\ g[t] = Left(t)'
  OBVIOUS
<1> HIDE DEF f, g
<1>5. QED BY <1>1, <1>2, <1>3, <1>4, UnitsChange

LEMMA OutstandingType == ASSUME TypeOK PROVE Cardinality(Outstanding) \in Nat
<1> DEFINE f == [u \in Threads |-> Left(u)]
<1>1. f \in [Threads -> 0 .. MostLeft]
  BY LeftType
<1>2. Outstanding = Units(f)
  BY DEF Outstanding, Units, MostLeft
<1>3. PICK t : t \in Threads
  BY MemoryCacheAssumption
<1> HIDE DEF f
<1>4. QED BY <1>1, <1>2, <1>3, UnitsChange

-----------------------------------------------------------------------------
(* The steps *)

\* A step of t is paid for by what its call has left and by the policy.
Paid(t) ==
    Left(t)' + PassSteps * PolicyLength(policy') + 1
        <= Left(t) + PassSteps * PolicyLength(policy)

LEMMA LeftNow ==
    ASSUME NEW t
    PROVE  /\ pc[t] # "clear_entries" => Left(t) = LeftAt(pc[t], 0)
           /\ pc'[t] # "clear_entries" => Left(t)' = LeftAt(pc'[t], 0)
PROOF BY DEF Left, LeftAt

LEMMA LeftFrom ==
    ASSUME TypeOK, NEW t \in Threads
    PROVE  Left(t) \in Nat /\ (TypeOK' => Left(t)' \in Nat)
PROOF BY LeftType, LeftTypeNext, KeysCount

\* A step that leaves the policy alone, or at the same length.
LEMMA PaidSame ==
    ASSUME TypeOK, TypeOK', NEW t \in Threads,
           PolicyLength(policy) \in Nat, PolicyLength(policy') \in Nat,
           PolicyLength(policy') <= PolicyLength(policy), Left(t)' < Left(t)
    PROVE  Paid(t)
<1>1. Left(t) \in Nat /\ Left(t)' \in Nat
  BY LeftFrom
<1>2. QED BY <1>1 DEF Paid, PassSteps

\* A step that gives the policy a key, and pays for the pass that takes it.
LEMMA PaidMore ==
    ASSUME TypeOK, TypeOK', NEW t \in Threads,
           PolicyLength(policy) \in Nat, PolicyLength(policy') \in Nat,
           PolicyLength(policy') <= PolicyLength(policy) + 1,
           Left(t)' + PassSteps < Left(t)
    PROVE  Paid(t)
<1>1. Left(t) \in Nat /\ Left(t)' \in Nat
  BY LeftFrom
<1>2. QED BY <1>1 DEF Paid, PassSteps

\* A step that takes a key from the policy, and has a pass paid by it.
LEMMA PaidLess ==
    ASSUME TypeOK, TypeOK', NEW t \in Threads,
           PolicyLength(policy) \in Nat, PolicyLength(policy') \in Nat,
           PolicyLength(policy') + 1 <= PolicyLength(policy),
           Left(t)' < Left(t) + PassSteps
    PROVE  Paid(t)
<1>1. Left(t) \in Nat /\ Left(t)' \in Nat
  BY LeftFrom
<1>2. QED BY <1>1 DEF Paid, PassSteps

LEMMA StepPaid ==
    ASSUME NEW States, CountsKeys(States), TypeOK, TypeOK', policy \in States,
           NEW t \in Threads, Step(t)
    PROVE  policy' \in States /\ Paid(t)
<1>1. pc \in [Threads -> Steps] /\ local \in [Threads -> Locals]
      /\ call[t] \in Requests \cup {NoCall}
  BY DEF TypeOK
<1>2. PolicyLength(policy) \in Nat
  BY DEF CountsKeys
<1> DEFINE Less == pc[t] # "clear_entries" /\ pc'[t] # "clear_entries"
                   /\ LeftAt(pc'[t], 0) < LeftAt(pc[t], 0)
<1>3. ASSUME policy' = policy, Less PROVE policy' \in States /\ Paid(t)
  BY <1>2, <1>3, LeftNow, PaidSame
<1>4. CASE SetStep(t)
  <2>1. CASE SetPolicy(t)
    <3>1. pc[t] = "set_policy" /\ pc'[t] = "idle"
      BY <1>1, <2>1 DEF SetPolicy, Return
    <3>2. call[t].key \in Keys
      BY <1>1, <3>1, CallShape DEF TypeOK, SetSteps
    <3>3. policy' \in States /\ PolicyLength(policy') \in Nat
          /\ PolicyLength(policy') <= PolicyLength(policy) + 1
      BY <2>1, <3>2 DEF SetPolicy, CountsKeys
    <3>4. Left(t)' = 0 /\ Left(t) = 1 + PassSteps
      BY <3>1 DEF Left, LeftAt
    <3>5. Left(t)' + PassSteps < Left(t)
      BY <3>4 DEF PassSteps
    <3>6. QED BY <1>2, <3>3, <3>5, PaidMore
  <2>2. CASE ~ SetPolicy(t)
    <3>1. policy' = policy
      BY <1>4, <2>2 DEF SetStep, SetRemove, SetSub, SetInsert, SetAdd, SetStats
    <3>2. \/ pc[t] = "set_remove" /\ pc'[t] \in {"set_sub", "evict_check"}
          \/ pc[t] = "set_sub" /\ pc'[t] = "evict_check"
          \/ pc[t] = "set_insert" /\ pc'[t] = "set_add"
          \/ pc[t] = "set_add" /\ pc'[t] = "set_stats"
          \/ pc[t] = "set_stats" /\ pc'[t] = "set_policy"
      BY <1>1, <1>4, <2>2 DEF SetStep, SetRemove, SetSub, SetInsert, SetAdd, SetStats, Goto
    <3>3. Less
      BY <3>2 DEF LeftAt, PassSteps
    <3>4. QED BY <1>3, <3>1, <3>3
  <2>3. QED BY <2>1, <2>2
<1>5. CASE EvictStep(t)
  <2>1. CASE EvictPop(t)
    <3>1. PICK outcome \in PolicyEvict(policy) :
             /\ pc[t] = "evict_pop" /\ policy' = outcome.rest
             /\ \/ outcome.key \in Keys /\ Goto(t, "evict_remove")
                \/ outcome.key = None /\ Goto(t, "evict_fail")
      BY <2>1 DEF EvictPop
    <3>2. policy' \in States /\ PolicyLength(policy') \in Nat
      BY <3>1 DEF CountsKeys
    <3>3. CASE outcome.key \in Keys /\ Goto(t, "evict_remove")
      <4>1. PolicyLength(policy') + 1 <= PolicyLength(policy)
        BY <3>1, <3>3 DEF CountsKeys
      <4>2. pc'[t] = "evict_remove"
        BY <1>1, <3>3 DEF Goto
      <4>3. Left(t)' < Left(t) + PassSteps
        BY <3>1, <4>2 DEF Left, LeftAt, PassSteps
      <4>4. QED BY <1>2, <3>2, <4>1, <4>3, PaidLess
    <3>4. CASE outcome.key = None /\ Goto(t, "evict_fail")
      <4>1. PolicyLength(policy') <= PolicyLength(policy)
        BY <3>1, <3>4 DEF CountsKeys
      <4>2. pc'[t] = "evict_fail"
        BY <1>1, <3>4 DEF Goto
      <4>3. Left(t)' < Left(t)
        BY <3>1, <4>2 DEF Left, LeftAt, PassSteps
      <4>4. QED BY <1>2, <3>2, <4>1, <4>3, PaidSame
    <3>5. QED BY <3>1, <3>3, <3>4
  <2>2. CASE ~ EvictPop(t)
    <3>1. policy' = policy
      BY <1>5, <2>2 DEF EvictStep, EvictCheck, EvictRemove, EvictSub, EvictStats,
                        EvictFail
    <3>2. \/ pc[t] = "evict_check" /\ pc'[t] \in {"set_insert", "evict_pop"}
          \/ pc[t] = "evict_remove" /\ pc'[t] \in {"evict_sub", "evict_check"}
          \/ pc[t] = "evict_sub" /\ pc'[t] = "evict_stats"
          \/ pc[t] = "evict_stats" /\ pc'[t] \in {"evict_check", "panicked"}
          \/ pc[t] = "evict_fail" /\ pc'[t] = "idle"
      BY <1>1, <1>5, <2>2 DEF EvictStep, EvictCheck, EvictRemove, EvictSub, EvictStats,
                              EvictFail, CountOneLess, Goto, Return
    <3>3. Less
      BY <3>2 DEF LeftAt, PassSteps
    <3>4. QED BY <1>3, <3>1, <3>3
  <2>3. QED BY <2>1, <2>2
<1>6. CASE ReadStep(t)
  <2>1. CASE GetAccess(t)
    <3>1. pc[t] = "get_access" /\ pc'[t] = "get_hit"
      BY <1>1, <2>1 DEF GetAccess, Goto
    <3>2. call[t].key \in Keys
      BY <1>1, <3>1, CallShape DEF TypeOK
    <3>3. policy' \in States /\ PolicyLength(policy') \in Nat
          /\ PolicyLength(policy') <= PolicyLength(policy) + 1
      BY <2>1, <3>2 DEF GetAccess, CountsKeys
    <3>4. Left(t)' = 1 /\ Left(t) = 2 + PassSteps
      BY <3>1 DEF Left, LeftAt
    <3>5. Left(t)' + PassSteps < Left(t)
      BY <3>4 DEF PassSteps
    <3>6. QED BY <1>2, <3>3, <3>5, PaidMore
  <2>2. CASE ~ GetAccess(t)
    <3>1. policy' = policy
      BY <1>6, <2>2 DEF ReadStep, GetCheck, GetExpire, GetRead, GetHit, GetMiss, Exists
    <3>2. \/ pc[t] = "get_check" /\ pc'[t] \in {"get_expire", "get_read"}
          \/ pc[t] = "get_expire" /\ pc'[t] = "get_miss"
          \/ pc[t] = "get_read" /\ pc'[t] \in {"get_access", "get_miss"}
          \/ pc[t] \in {"get_hit", "get_miss", "exists"} /\ pc'[t] = "idle"
      BY <1>1, <1>6, <2>2 DEF ReadStep, GetCheck, GetExpire, GetRead, GetHit, GetMiss,
                              Exists, Goto, Return
    <3>3. Less
      BY <3>2 DEF LeftAt, PassSteps
    <3>4. QED BY <1>3, <3>1, <3>3
  <2>3. QED BY <2>1, <2>2
<1>7. CASE DeleteStep(t)
  <2>1. policy' = policy
    BY <1>7 DEF DeleteStep, DelRemove, DelSub, DelStats
  <2>2. \/ pc[t] = "del_remove" /\ pc'[t] \in {"del_sub", "idle"}
        \/ pc[t] = "del_sub" /\ pc'[t] = "del_stats"
        \/ pc[t] = "del_stats" /\ pc'[t] \in {"idle", "panicked"}
    BY <1>1, <1>7 DEF DeleteStep, DelRemove, DelSub, DelStats, CountOneLess, Goto, Return
  <2>3. Less
    BY <2>2 DEF LeftAt, PassSteps
  <2>4. QED BY <1>3, <2>1, <2>3
<1>8. CASE ClearStep(t)
  <2>1. CASE ClearEntries(t)
    <3>1. PICK k \in local[t].todo :
             /\ pc[t] = "clear_entries" /\ policy' = policy
             /\ local' = [local EXCEPT ![t].todo = @ \ {k}]
             /\ pc' = [pc EXCEPT ![t] = IF local'[t].todo = {} THEN "clear_size"
                                        ELSE "clear_entries"]
      BY <2>1 DEF ClearEntries, Goto
    <3>2. local[t].todo \in SUBSET Keys /\ local'[t].todo = local[t].todo \ {k}
      BY <1>1, <3>1 DEF Locals
    <3>3. /\ Cardinality(local[t].todo) \in Nat
          /\ Cardinality(local'[t].todo) = Cardinality(local[t].todo) - 1
          /\ IsFiniteSet(local'[t].todo)
      BY <3>1, <3>2, TodoCount, FS_RemoveElement
    <3>4. Left(t) = 3 + Cardinality(local[t].todo)
      BY <3>1 DEF Left, LeftAt
    <3>5. CASE local'[t].todo = {}
      <4>1. Cardinality(local'[t].todo) = 0
        BY <3>5, FS_EmptySet
      <4>2. pc'[t] = "clear_size"
        BY <1>1, <3>1, <3>5
      <4>3. Left(t)' = 3
        BY <4>2 DEF Left, LeftAt
      <4>4. Left(t)' < Left(t)
        BY <3>3, <3>4, <4>1, <4>3
      <4>5. QED BY <1>2, <3>1, <4>4, PaidSame
    <3>6. CASE local'[t].todo # {}
      <4>1. pc'[t] = "clear_entries"
        BY <1>1, <3>1, <3>6
      <4>2. Left(t)' = 3 + Cardinality(local'[t].todo)
        BY <4>1 DEF Left, LeftAt
      <4>3. Left(t)' < Left(t)
        BY <3>3, <3>4, <4>2
      <4>4. QED BY <1>2, <3>1, <4>3, PaidSame
    <3>7. QED BY <3>5, <3>6
  <2>2. CASE ClearPolicy(t)
    <3>1. pc[t] = "clear_policy" /\ pc'[t] = "idle" /\ policy' = PolicyReset(policy)
      BY <1>1, <2>2 DEF ClearPolicy, Return
    <3>2. policy' \in States /\ PolicyLength(policy') \in Nat
          /\ PolicyLength(policy') <= PolicyLength(policy)
      BY <3>1 DEF CountsKeys
    <3>3. Left(t)' < Left(t)
      BY <3>1 DEF Left, LeftAt
    <3>4. QED BY <1>2, <3>2, <3>3, PaidSame
  <2>3. CASE ClearSize(t) \/ ClearStats(t)
    <3>1. policy' = policy
      BY <2>3 DEF ClearSize, ClearStats
    <3>2. \/ pc[t] = "clear_size" /\ pc'[t] = "clear_stats"
          \/ pc[t] = "clear_stats" /\ pc'[t] = "clear_policy"
      BY <1>1, <2>3 DEF ClearSize, ClearStats, Goto
    <3>3. Less
      BY <3>2 DEF LeftAt, PassSteps
    <3>4. QED BY <1>3, <3>1, <3>3
  <2>4. QED BY <1>8, <2>1, <2>2, <2>3 DEF ClearStep
<1>9. QED BY <1>4, <1>5, <1>6, <1>7, <1>8 DEF Step

LEMMA StepCalls == ASSUME NEW t, Step(t) PROVE calls' = calls
<1>1. CASE SetStep(t)
  BY <1>1 DEF SetStep, SetRemove, SetSub, SetInsert, SetAdd, SetStats, SetPolicy
<1>2. CASE EvictStep(t)
  BY <1>2 DEF EvictStep, EvictCheck, EvictPop, EvictRemove, EvictSub, EvictStats, EvictFail
<1>3. CASE ReadStep(t)
  BY <1>3 DEF ReadStep, GetCheck, GetExpire, GetRead, GetAccess, GetHit, GetMiss, Exists
<1>4. CASE DeleteStep(t)
  BY <1>4 DEF DeleteStep, DelRemove, DelSub, DelStats
<1>5. CASE ClearStep(t)
  BY <1>5 DEF ClearStep, ClearEntries, ClearSize, ClearStats, ClearPolicy
<1>6. QED BY <1>1, <1>2, <1>3, <1>4, <1>5 DEF Step

\* A call that begins has StepsPerCall steps left at most.
LEMMA BeginLeft ==
    ASSUME TypeOK, NEW t \in Threads, Begin(t)
    PROVE  /\ Left(t) = 0 /\ Left(t)' <= StepsPerCall
           /\ calls' = calls + 1 /\ policy' = policy
<1>1. PICK c \in Requests :
         /\ pc' = [pc EXCEPT ![t] = FirstStep[c.op]]
         /\ local' = [local EXCEPT ![t].todo = IF c.op = "clear" THEN Keys ELSE {}]
  BY DEF Begin
<1>2. pc[t] = "idle" /\ pc \in [Threads -> Steps] /\ local \in [Threads -> Locals]
  BY DEF TypeOK, Begin
<1>3. Left(t) = 0
  BY <1>2 DEF Left, LeftAt
<1>4. StepsPerCall \in Nat /\ StepsPerCall >= 12
      /\ StepsPerCall >= 3 + Cardinality(Keys)
  BY KeysCount DEF StepsPerCall, PassSteps
<1>5. CASE c.op = "clear"
  <2>1. pc'[t] = "clear_entries" /\ local'[t].todo = Keys
    BY <1>1, <1>2, <1>5 DEF FirstStep, Locals
  <2>2. Left(t)' = 3 + Cardinality(Keys)
    BY <2>1 DEF Left, LeftAt
  <2>3. QED BY <1>3, <1>4, <2>2, KeysCount DEF Begin
<1>6. CASE c.op # "clear"
  <2>1. pc'[t] \in {"set_remove", "get_check", "exists", "del_remove"}
    BY <1>1, <1>2, <1>6 DEF FirstStep, Requests
  <2>2. Left(t)' \in 0 .. 12
    BY <2>1 DEF Left, LeftAt, PassSteps
  <2>3. QED BY <1>3, <1>4, <2>2 DEF Begin
<1>7. QED BY <1>5, <1>6

-----------------------------------------------------------------------------
(* The budget *)

LEMMA BudgetInit ==
    ASSUME NEW States, CountsKeys(States), EndInit
    PROVE  Budget /\ policy \in States /\ steps \in Nat
<1>1. TypeOK /\ policy = PolicyNew /\ steps = 0 /\ calls = 0
  BY TypeInit DEF EndInit, Init
<1>2. \A t \in Threads : Left(t) = 0
  BY DEF EndInit, Init, Left, LeftAt
<1>3. Outstanding = {}
  BY <1>2 DEF Outstanding
<1>4. Cardinality(Outstanding) = 0
  BY <1>3, FS_EmptySet
<1>5. PolicyLength(policy) = 0 /\ policy \in States
  BY <1>1 DEF CountsKeys
<1>6. StepsPerCall * calls = 0
  BY <1>1, KeysCount
<1>7. QED BY <1>1, <1>4, <1>5, <1>6 DEF Budget, PassSteps

LEMMA BudgetNext ==
    ASSUME NEW States, CountsKeys(States), TypeOK, TypeOK', policy \in States,
           steps \in Nat, Budget, [EndNext]_endVars
    PROVE  Budget' /\ policy' \in States /\ steps' \in Nat
<1>1. PolicyLength(policy) \in Nat /\ Cardinality(Outstanding) \in Nat
      /\ calls \in Nat /\ StepsPerCall \in Nat
  BY OutstandingType, KeysCount, MemoryCacheAssumption DEF CountsKeys, TypeOK
<1>2. StepsPerCall * calls \in Nat /\ StepsPerCall * (calls + 1) = StepsPerCall * calls + StepsPerCall
  BY <1>1
<1> DEFINE total == StepsPerCall * calls
<1>3. steps + Cardinality(Outstanding) + PassSteps * PolicyLength(policy) <= total
  BY DEF Budget
<1>4. CASE UNCHANGED endVars
  <2>1. Outstanding' = Outstanding
    BY <1>4 DEF endVars, vars, Outstanding, Left
  <2>2. QED BY <1>4, <2>1 DEF endVars, vars, Budget
<1>5. ASSUME NEW t \in Threads, Step(t), steps' \in {steps, steps + 1}
      PROVE  Budget' /\ policy' \in States /\ steps' \in Nat
  <2>1. policy' \in States /\ Paid(t) /\ calls' = calls
    BY <1>5, StepPaid, StepCalls
  <2>2. PolicyLength(policy') \in Nat
    BY <2>1 DEF CountsKeys
  <2>3. /\ Cardinality(Outstanding') \in Nat
        /\ Cardinality(Outstanding') - Left(t)' = Cardinality(Outstanding) - Left(t)
    BY <1>5, OutstandingChange
  <2>4. Left(t) \in Nat /\ Left(t)' \in Nat
    BY LeftFrom
  <2>5. Left(t)' + PassSteps * PolicyLength(policy') + 1
           <= Left(t) + PassSteps * PolicyLength(policy)
    BY <2>1 DEF Paid
  <2> HIDE DEF total
  <2>6. steps' + Cardinality(Outstanding') + PassSteps * PolicyLength(policy') <= total
    BY <1>1, <1>3, <1>5, <2>2, <2>3, <2>4, <2>5, <1>2 DEF PassSteps, total
  <2>7. QED BY <1>5, <2>1, <2>6 DEF Budget, total
<1>6. ASSUME NEW t \in Threads, Begin(t), steps' = steps
      PROVE  Budget' /\ policy' \in States /\ steps' \in Nat
  <2>1. /\ Left(t) = 0 /\ Left(t)' <= StepsPerCall
        /\ calls' = calls + 1 /\ policy' = policy
    BY <1>6, BeginLeft
  <2>2. /\ Cardinality(Outstanding') \in Nat
        /\ Cardinality(Outstanding') - Left(t)' = Cardinality(Outstanding) - Left(t)
    BY <1>6, OutstandingChange
  <2>3. Left(t)' \in Nat
    BY LeftFrom
  <2>4. total + StepsPerCall = StepsPerCall * calls'
    BY <1>2, <2>1
  <2> HIDE DEF total
  <2>5. steps' + Cardinality(Outstanding') + PassSteps * PolicyLength(policy')
           <= total + StepsPerCall
    BY <1>1, <1>3, <1>6, <2>1, <2>2, <2>3, <1>2 DEF PassSteps, total
  <2>6. QED BY <1>6, <2>1, <2>4, <2>5 DEF Budget
<1>7. ASSUME \/ \E k \in Keys : Expire(k)
             \/ Finished,
             steps' = steps
      PROVE  Budget' /\ policy' \in States /\ steps' \in Nat
  <2>1. pc' = pc /\ local' = local /\ policy' = policy /\ calls' = calls
    BY <1>7 DEF Expire, Finished, vars
  <2>2. Outstanding' = Outstanding
    BY <2>1 DEF Outstanding, Left
  <2>3. QED BY <1>7, <2>1, <2>2 DEF Budget
<1>8. QED BY <1>4, <1>5, <1>6, <1>7 DEF EndNext

LEMMA BudgetBounds ==
    ASSUME NEW States, CountsKeys(States), TypeOK, policy \in States, steps \in Nat, Budget
    PROVE  CallsTakeFewSteps
<1>1. PolicyLength(policy) \in Nat /\ Cardinality(Outstanding) \in Nat
      /\ calls \in Nat /\ StepsPerCall \in Nat
  BY OutstandingType, KeysCount, MemoryCacheAssumption DEF CountsKeys, TypeOK
<1> DEFINE total == StepsPerCall * calls
<1>2. total \in Nat
  BY <1>1
<1>3. steps + Cardinality(Outstanding) + PassSteps * PolicyLength(policy) <= total
  BY DEF Budget
<1> HIDE DEF total
<1>4. steps <= total
  BY <1>1, <1>2, <1>3 DEF PassSteps
<1>5. QED BY <1>4 DEF CallsTakeFewSteps, total

\* With any policy that gives no key more often than it was told of one, all
\* calls together take StepsPerCall steps for each call begun at most, however
\* the threads interleave: the loop of evict_for_space always comes to an end.
THEOREM FewSteps ==
    ASSUME NEW States, CountsKeys(States)
    PROVE  EndSpec => []CallsTakeFewSteps
<1> DEFINE Inv == TypeOK /\ policy \in States /\ steps \in Nat /\ Budget
<1>1. EndInit => Inv
  BY BudgetInit, TypeInit DEF EndInit
<1>2. Inv /\ [EndNext]_endVars => Inv'
  <2> SUFFICES ASSUME Inv, [EndNext]_endVars PROVE Inv'
    OBVIOUS
  <2>1. [Next]_vars
    BY DEF EndNext, endVars, Next
  <2>2. TypeOK'
    BY <2>1, TypeNext
  <2>3. QED BY <2>2, BudgetNext
<1>3. Inv => CallsTakeFewSteps
  BY BudgetBounds
<1> HIDE DEF Inv
<1>4. QED BY <1>1, <1>2, <1>3, PTL DEF EndSpec

LEMMA LruCountsKeys ==
    ASSUME IsLru, \A p : PolicyLength(p) = Len(p.access_order)
    PROVE  CountsKeys(LruStates)
<1>1. Lru!LruNew \in LruStates /\ PolicyLength(Lru!LruNew) = 0
  <2>1. Lru!LruNew = [access_order |-> <<>>, key_index |-> <<>>]
    BY DEF Lru!LruNew
  <2>2. <<>> \in Seq(Keys) /\ Len(<<>>) = 0 /\ <<>> \in [{} -> Nat] /\ {} \in SUBSET Keys
    OBVIOUS
  <2>3. <<>> \in Indexes
    BY <2>2, IndexOver
  <2>4. PolicyLength(Lru!LruNew) = Len(<<>>)
    BY <2>1
  <2>5. QED BY <2>1, <2>2, <2>3, <2>4 DEF LruStates
<1>2. \A p \in LruStates : PolicyLength(p) \in Nat
  <2>1. \A s \in Seq(Keys) : Len(s) \in Nat
    OBVIOUS
  <2>2. QED BY <2>1 DEF LruStates
<1>3. PolicyNew \in LruStates /\ PolicyLength(PolicyNew) = 0
  BY <1>1 DEF IsLru
<1>4. ASSUME NEW p \in LruStates, NEW k \in Keys
      PROVE  /\ PolicyOnAccess(p, k) \in LruStates
             /\ PolicyLength(PolicyOnAccess(p, k)) <= PolicyLength(p) + 1
             /\ PolicyOnInsert(p, k) \in LruStates
             /\ PolicyLength(PolicyOnInsert(p, k)) <= PolicyLength(p) + 1
  <2>1. PolicyOnAccess(p, k) = Lru!LruOnAccess(p, k)
        /\ PolicyOnInsert(p, k) = Lru!LruOnAccess(p, k)
    BY DEF IsLru, Lru!LruOnInsert
  <2>2. Lru!LruOnAccess(p, k) \in LruStates
        /\ PolicyLength(Lru!LruOnAccess(p, k)) <= PolicyLength(p) + 1
    BY UseKeeps, UseLength
  <2>3. QED BY <2>1, <2>2
<1>5. ASSUME NEW p \in LruStates, NEW outcome \in PolicyEvict(p)
      PROVE  /\ outcome.rest \in LruStates
             /\ outcome.key \in Keys => PolicyLength(outcome.rest) + 1 <= PolicyLength(p)
             /\ outcome.key = None => PolicyLength(outcome.rest) <= PolicyLength(p)
  <2>1. outcome \in Lru!LruEvict(p)
    BY DEF IsLru
  <2>2. outcome.rest \in LruStates
    BY <2>1, EvictKeeps
  <2>3. PolicyLength(p) \in Nat /\ PolicyLength(outcome.rest) \in Nat
    BY <1>2, <2>2
  <2>4. outcome.key \in Keys => PolicyLength(outcome.rest) + 1 = PolicyLength(p)
    BY <2>1, EvictLength
  <2>5. outcome.key = None => outcome.rest = p
    BY <2>1, EvictLength
  <2>6. QED BY <2>2, <2>3, <2>4, <2>5
<1>6. ASSUME NEW p \in LruStates
      PROVE  PolicyReset(p) \in LruStates /\ PolicyLength(PolicyReset(p)) <= PolicyLength(p)
  <2>1. PolicyReset(p) = Lru!LruNew
    BY DEF IsLru, Lru!LruReset
  <2>2. PolicyLength(p) \in Nat
    BY <1>2
  <2>3. QED BY <1>1, <2>1, <2>2
<1>7. QED BY <1>2, <1>3, <1>4, <1>5, <1>6 DEF CountsKeys

LEMMA LfuCountsKeys ==
    ASSUME IsLfu, \A p : PolicyLength(p) = Cardinality(Lfu!LfuTracked(p))
    PROVE  CountsKeys(LfuStates)
<1>0. ASSUME NEW p \in LfuStates
      PROVE  IsFiniteSet(Lfu!LfuTracked(p)) /\ Cardinality(Lfu!LfuTracked(p)) \in Nat
  <2>1. PICK D \in SUBSET Keys : p.access_count \in [D -> Nat]
    BY DEF LfuStates, Indexes
  <2>2. Lfu!LfuTracked(p) = D
    BY <2>1 DEF Lfu!LfuTracked
  <2>3. QED BY <2>2, TodoCount
<1>1. Lfu!LfuNew \in LfuStates /\ PolicyLength(Lfu!LfuNew) = 0
  <2>1. Lfu!LfuNew = [access_count |-> <<>>, min_frequency |-> 0]
    BY DEF Lfu!LfuNew
  <2>2. <<>> \in [{} -> Nat] /\ {} \in SUBSET Keys /\ DOMAIN <<>> = {}
    OBVIOUS
  <2>3. <<>> \in Indexes
    BY <2>2, IndexOver
  <2>4. Lfu!LfuTracked(Lfu!LfuNew) = {}
    BY <2>1, <2>2 DEF Lfu!LfuTracked
  <2>5. QED BY <2>1, <2>3, <2>4, FS_EmptySet DEF LfuStates
<1>2. \A p \in LfuStates : PolicyLength(p) \in Nat
  BY <1>0
<1>3. PolicyNew \in LfuStates /\ PolicyLength(PolicyNew) = 0
  BY <1>1 DEF IsLfu
<1>4. ASSUME NEW p \in LfuStates, NEW k \in Keys
      PROVE  /\ PolicyOnAccess(p, k) \in LfuStates
             /\ PolicyLength(PolicyOnAccess(p, k)) <= PolicyLength(p) + 1
             /\ PolicyOnInsert(p, k) \in LfuStates
             /\ PolicyLength(PolicyOnInsert(p, k)) <= PolicyLength(p) + 1
  <2> DEFINE D == Lfu!LfuTracked(p)
  <2>1. IsFiniteSet(D) /\ Cardinality(D) \in Nat
    BY <1>0
  <2>2. Cardinality(D \cup {k}) <= Cardinality(D) + 1
    BY <2>1, FS_AddElement
  <2>3. /\ Lfu!LfuTracked(Lfu!LfuOnAccess(p, k)) = D \cup {k}
        /\ Lfu!LfuTracked(Lfu!LfuOnInsert(p, k)) = D \cup {k}
    BY DEF Lfu!LfuTracked, Lfu!LfuOnAccess, Lfu!LfuOnInsert, Lfu!WithCount
  <2>4. Lfu!LfuOnAccess(p, k) \in LfuStates /\ Lfu!LfuOnInsert(p, k) \in LfuStates
    BY LfuUseKeeps
  <2> HIDE DEF D
  <2>5. PolicyLength(p) = Cardinality(D)
    BY DEF D
  <2>6. QED BY <2>2, <2>3, <2>4, <2>5 DEF IsLfu
<1>5. ASSUME NEW p \in LfuStates, NEW outcome \in PolicyEvict(p)
      PROVE  /\ outcome.rest \in LfuStates
             /\ outcome.key \in Keys => PolicyLength(outcome.rest) + 1 <= PolicyLength(p)
             /\ outcome.key = None => PolicyLength(outcome.rest) <= PolicyLength(p)
  <2>1. outcome \in Lfu!LfuEvict(p) /\ outcome.rest \in LfuStates
    BY LfuEvictKeeps DEF IsLfu
  <2>2. PolicyLength(p) \in Nat
    BY <1>2
  <2>3. CASE Lfu!LfuTracked(p) = {}
    <3>1. outcome = [key |-> None, rest |-> p]
      BY <2>1, <2>3 DEF Lfu!LfuEvict
    <3>2. QED BY <2>1, <2>2, <3>1, MemoryCacheAssumption
  <2>4. CASE Lfu!LfuTracked(p) # {}
    <3>1. PICK k \in Lfu!LfuTracked(p) : outcome =
             [key |-> k, rest |-> [p EXCEPT !.access_count =
                           [x \in DOMAIN p.access_count \ {k} |-> p.access_count[x]]]]
      BY <2>1, <2>4 DEF Lfu!LfuEvict, Lfu!LeastUsed
    <3> DEFINE f == [x \in DOMAIN p.access_count \ {k} |-> p.access_count[x]]
    <3>2. DOMAIN f = Lfu!LfuTracked(p) \ {k}
      BY DEF Lfu!LfuTracked
    <3>3. outcome.key = k /\ outcome.rest = [p EXCEPT !.access_count = f]
      BY <3>1
    <3> HIDE DEF f
    <3>4. outcome.rest.access_count = f
      BY <3>3 DEF LfuStates
    <3>5. Lfu!LfuTracked(outcome.rest) = Lfu!LfuTracked(p) \ {k}
      BY <3>2, <3>4 DEF Lfu!LfuTracked
    <3>6. Cardinality(Lfu!LfuTracked(p) \ {k}) = Cardinality(Lfu!LfuTracked(p)) - 1
      BY <1>0, FS_RemoveElement
    <3>7. k \in Keys
      BY DEF LfuStates, Indexes, Lfu!LfuTracked
    <3>8. k # None
      BY <3>7, MemoryCacheAssumption
    <3>9. PolicyLength(outcome.rest) = PolicyLength(p) - 1
      BY <3>5, <3>6
    <3>10. QED BY <2>1, <2>2, <3>3, <3>8, <3>9
  <2>5. QED BY <2>3, <2>4
<1>6. ASSUME NEW p \in LfuStates
      PROVE  PolicyReset(p) \in LfuStates /\ PolicyLength(PolicyReset(p)) <= PolicyLength(p)
  <2>1. PolicyReset(p) = Lfu!LfuNew
    BY DEF IsLfu, Lfu!LfuReset
  <2>2. PolicyLength(p) \in Nat
    BY <1>2
  <2>3. QED BY <1>1, <2>1, <2>2
<1>7. QED BY <1>2, <1>3, <1>4, <1>5, <1>6 DEF CountsKeys

\* So it is with the LRU policy, of as many keys as its deque is long ...
THEOREM LruFewSteps ==
    ASSUME IsLru, \A p : PolicyLength(p) = Len(p.access_order)
    PROVE  EndSpec => []CallsTakeFewSteps
PROOF BY FewSteps, LruCountsKeys

\* ... and with the LFU policy, of as many keys as it counts.
THEOREM LfuFewSteps ==
    ASSUME IsLfu, \A p : PolicyLength(p) = Cardinality(Lfu!LfuTracked(p))
    PROVE  EndSpec => []CallsTakeFewSteps
PROOF BY FewSteps, LfuCountsKeys

-----------------------------------------------------------------------------
(* SlipsExplainSize, SlipsExplainCount and PanicsOnlyInRaces *)

Subtracting == {"set_sub", "evict_sub", "del_sub"}
Subtracts(t) == IF pc[t] \in Subtracting THEN 1 ELSE 0
Adds(t) == IF pc[t] = "set_add" THEN 1 ELSE 0

\* The entries size_bytes counts, and the entries stats.entries counts, once
\* the calls under way have made up for what they did to the map.
SizeDue == Cardinality(Stored) + Cardinality(Unsubtracted) - Cardinality(Unadded)
CountDue ==
    Cardinality(Stored) + Cardinality(Replacers) + Cardinality(Uncounters)
        - Cardinality(Counters)

SizeAccounted == size_bytes = EntrySize * SizeDue + leaked
CountAccounted == Unwraps(CountDue + miscounted)

\* Each call counts one entry at most, so the count is too small to wrap above.
CountLimited == CountDue + miscounted + Cardinality(MayCounters) <= calls

\* Both counters are exact at every step, slips and calls under way included.
LedgerInv ==
    /\ leaked \in Int /\ miscounted \in Int
    /\ SizeAccounted /\ CountAccounted /\ CountLimited

\* The step of a thread makes d entries more, or for d < 0 fewer.
StoredMoves(d) == Cardinality(Stored') = Cardinality(Stored) + d

\* and moves size_bytes as it should, for g entries more, but for its slip;
Times(g) == IF g = 0 THEN 0 ELSE IF g = 1 THEN EntrySize ELSE - EntrySize
SizeFollows(t, d, g) ==
    /\ g = d + Subtracts(t)' - Subtracts(t) - Adds(t)' + Adds(t)
    /\ size_bytes' = size_bytes + SizeSlip(t) + Times(g)

\* and it should move stats.entries by n, which its call allows for.
CountFollows(t, d, n) ==
    /\ n = d + Replaces(t)' - Replaces(t) + Uncounts(t)' - Uncounts(t)
             - Counts(t)' + Counts(t) + CountSlip(t)
    /\ n + MayCount(t)' - calls' <= MayCount(t) - calls

Follows(t, d, g, n) ==
    /\ SizeSlip(t) \in Int /\ CountSlip(t) \in Int
    /\ SizeFollows(t, d, g) /\ CountFollows(t, d, n)

LEMMA SizeApart ==
    ASSUME TypeOK, NEW t \in Threads, Begin(t) \/ Step(t)
    PROVE  /\ Cardinality(Unsubtracted') - Subtracts(t)'
                 = Cardinality(Unsubtracted) - Subtracts(t)
           /\ Cardinality(Unadded') - Adds(t)' = Cardinality(Unadded) - Adds(t)
           /\ Cardinality(Unsubtracted') \in Nat /\ Cardinality(Unadded') \in Nat
<1>1. \A u \in Threads \ {t} : pc'[u] = pc[u]
  BY OthersSame
<1>2. IsFiniteSet(Unsubtracted) /\ IsFiniteSet(Unadded)
  BY DoingFinite DEF Unsubtracted, Unadded
<1>3. Unsubtracted \ {t} = Unsubtracted' \ {t} /\ Unadded \ {t} = Unadded' \ {t}
  BY <1>1 DEF Unsubtracted, Unadded, Doing
<1>4. /\ Subtracts(t) = (IF t \in Unsubtracted THEN 1 ELSE 0)
      /\ Subtracts(t)' = (IF t \in Unsubtracted' THEN 1 ELSE 0)
      /\ Adds(t) = (IF t \in Unadded THEN 1 ELSE 0)
      /\ Adds(t)' = (IF t \in Unadded' THEN 1 ELSE 0)
  BY DEF Unsubtracted, Unadded, Doing, Subtracts, Adds, Subtracting
<1> HIDE DEF Subtracts, Adds, Unsubtracted, Unadded
<1>5. QED BY <1>2, <1>3, <1>4, ApartInOne

LEMMA DueTypes ==
    SizeDue \in Int /\ CountDue \in Int
PROOF BY SettleTypes, DoingFinite DEF SizeDue, CountDue, Unsubtracted, Unadded

\* A step keeps the account of size_bytes if size_bytes follows the entries
\* and the calls under way but for the slip.
LEMMA SizeStep ==
    ASSUME TypeOK, TypeOK', NEW t \in Threads, Begin(t) \/ Step(t), LedgerInv,
           leaked' = leaked + SizeSlip(t), SizeSlip(t) \in Int,
           NEW d \in Int, StoredMoves(d), NEW g \in {-1, 0, 1}, SizeFollows(t, d, g)
    PROVE  SizeAccounted'
<1> DEFINE s == Cardinality(Stored)
           u == Cardinality(Unsubtracted)
           a == Cardinality(Unadded)
           s2 == Cardinality(Stored')
           u2 == Cardinality(Unsubtracted')
           a2 == Cardinality(Unadded')
<1>1. SizeDue' = SizeDue + g
  <2>1. s \in Nat /\ u \in Nat /\ a \in Nat
    BY StoredFinite, DoingFinite DEF Unsubtracted, Unadded
  <2>2. /\ Subtracts(t) \in {0, 1} /\ Subtracts(t)' \in {0, 1}
        /\ Adds(t) \in {0, 1} /\ Adds(t)' \in {0, 1}
    BY DEF Subtracts, Adds
  <2>3. /\ u2 - Subtracts(t)' = u - Subtracts(t) /\ a2 - Adds(t)' = a - Adds(t)
        /\ u2 \in Nat /\ a2 \in Nat
    BY SizeApart
  <2>4. s2 = s + d
    BY DEF StoredMoves
  <2>5. s2 + u2 - a2 = (s + u - a) + g
    <3> HIDE DEF s, u, a, s2, u2, a2
    <3>1. QED BY <2>1, <2>2, <2>3, <2>4 DEF SizeFollows
  <2>6. QED BY <2>5 DEF SizeDue
<1> DEFINE p == EntrySize * SizeDue
           q == EntrySize * SizeDue'
           e == Times(g)
<1>2. q = p + e /\ p \in Int /\ e \in Int
  BY <1>1, DueTypes, MemoryCacheAssumption DEF Times
<1>3. size_bytes = p + leaked
  BY DEF LedgerInv, SizeAccounted
<1>4. size_bytes' = size_bytes + SizeSlip(t) + e
  BY DEF SizeFollows
<1>5. size_bytes' = q + leaked'
  <2>1. leaked \in Int
    BY DEF LedgerInv
  <2> HIDE DEF p, q, e
  <2>2. QED BY <1>2, <1>3, <1>4, <2>1
<1>6. QED BY <1>5 DEF SizeAccounted

\* The same for stats.entries, which goes up by n, modulo Width.
LEMMA CountStep ==
    ASSUME TypeOK, TypeOK', NEW t \in Threads, Begin(t) \/ Step(t), LedgerInv,
           miscounted' = miscounted + CountSlip(t), CountSlip(t) \in Int,
           NEW d \in Int, StoredMoves(d), NEW e \in Int, e = CountDue + miscounted,
           NEW n \in Int, CountsBy(e, n), CountFollows(t, d, n)
    PROVE  CountAccounted' /\ CountLimited'
<1> DEFINE s == Cardinality(Stored)
           r == Cardinality(Replacers)
           u == Cardinality(Uncounters)
           c == Cardinality(Counters)
           s2 == Cardinality(Stored')
           r2 == Cardinality(Replacers')
           u2 == Cardinality(Uncounters')
           c2 == Cardinality(Counters')
<1>1. CountDue' + miscounted' = e + n
  <2>1. /\ s \in Nat /\ r \in Nat /\ u \in Nat /\ c \in Nat
        /\ s2 \in Nat /\ r2 \in Nat /\ u2 \in Nat /\ c2 \in Nat
    BY SettleTypes, SettleTypesNext
  <2>2. /\ Replaces(t) \in {0, 1} /\ Uncounts(t) \in {0, 1} /\ Counts(t) \in {0, 1}
        /\ Replaces(t)' \in {0, 1} /\ Uncounts(t)' \in {0, 1} /\ Counts(t)' \in {0, 1}
    BY DEF Replaces, Uncounts, Counts
  <2>3. /\ r2 - Replaces(t)' = r - Replaces(t) /\ u2 - Uncounts(t)' = u - Uncounts(t)
        /\ c2 - Counts(t)' = c - Counts(t)
    BY ThreadsApart
  <2>4. s2 = s + d
    BY DEF StoredMoves
  <2>5. e = s + r + u - c + miscounted /\ miscounted \in Int
    BY DEF CountDue, LedgerInv
  <2>6. s2 + r2 + u2 - c2 + miscounted' = e + n
    <3> HIDE DEF s, r, u, c, s2, r2, u2, c2
    <3>1. s2 + r2 + u2 - c2 = s + r + u - c + (n - CountSlip(t))
      BY <2>1, <2>2, <2>3, <2>4 DEF CountFollows
    <3>2. QED BY <2>1, <2>5, <3>1
  <2>7. QED BY <2>6 DEF CountDue
<1>2. CountAccounted'
  BY <1>1 DEF CountsBy, CountAccounted, Unwraps
<1>3. CountLimited'
  <2>1. Cardinality(MayCounters') - MayCount(t)' = Cardinality(MayCounters) - MayCount(t)
    BY ThreadsApart
  <2>2. /\ Cardinality(MayCounters) \in Int /\ Cardinality(MayCounters') \in Int
        /\ MayCount(t) \in Int /\ MayCount(t)' \in Int
        /\ calls \in Int /\ calls' \in Int
    BY SettleTypes, SettleTypesNext DEF TypeOK, MayCount
  <2>3. e + Cardinality(MayCounters) <= calls
    BY DEF LedgerInv, CountLimited
  <2>4. n + MayCount(t)' - calls' <= MayCount(t) - calls
    BY DEF CountFollows
  <2>5. (e + n) + Cardinality(MayCounters') <= calls'
    BY <2>1, <2>2, <2>3, <2>4
  <2>6. QED BY <1>1, <2>5 DEF CountLimited
<1>4. QED BY <1>2, <1>3

\* Only the thread that steps moves.
LEMMA OneMoves ==
    ASSUME TypeOK, NEW t \in Threads, Begin(t) \/ Step(t), Account
    PROVE  leaked' = leaked + SizeSlip(t) /\ miscounted' = miscounted + CountSlip(t)
<1>1. Moves(t)
  <2>1. CASE pc'[t] # pc[t]
    BY <2>1 DEF Moves
  <2>2. CASE ClearEntries(t)
    <3>1. PICK x \in local[t].todo : local' = [local EXCEPT ![t].todo = @ \ {x}]
      BY <2>2 DEF ClearEntries
    <3>2. local'[t].todo # local[t].todo
      BY <3>1 DEF TypeOK, Locals
    <3>3. QED BY <3>2 DEF Moves
  <2>3. CASE Begin(t)
    <3>1. PICK c \in Requests : pc' = [pc EXCEPT ![t] = FirstStep[c.op]]
      BY <2>3 DEF Begin
    <3>2. FirstStep[c.op] # "idle"
      BY DEF Requests, FirstStep
    <3>3. pc'[t] # pc[t]
      BY <2>3, <3>1, <3>2 DEF Begin, TypeOK
    <3>4. QED BY <3>3, <2>1
  <2>4. CASE Step(t) /\ ~ ClearEntries(t)
    <3> USE DEF TypeOK, Goto, Return
    <3>1. CASE SetStep(t)
      BY <2>1, <3>1 DEF SetStep, SetRemove, SetSub, SetInsert, SetAdd, SetStats, SetPolicy
    <3>2. CASE EvictStep(t)
      BY <2>1, <3>2 DEF EvictStep, EvictCheck, EvictPop, EvictRemove, EvictSub,
                        EvictStats, EvictFail, CountOneLess
    <3>3. CASE ReadStep(t)
      BY <2>1, <3>3 DEF ReadStep, GetCheck, GetExpire, GetRead, GetAccess, GetHit, GetMiss,
                        Exists
    <3>4. CASE DeleteStep(t)
      BY <2>1, <3>4 DEF DeleteStep, DelRemove, DelSub, DelStats, CountOneLess
    <3>5. CASE ClearStep(t)
      BY <2>1, <2>4, <3>5 DEF ClearStep, ClearSize, ClearStats, ClearPolicy
    <3>6. QED BY <2>4, <3>1, <3>2, <3>3, <3>4, <3>5 DEF Step
  <2>5. QED BY <2>2, <2>3, <2>4
<1>2. \A u \in Threads \ {t} : ~ Moves(u)
  BY OthersSame DEF Moves
<1>3. QED BY <1>1, <1>2 DEF Account

\* A step keeps both accounts.
LEMMA LedgerStep ==
    ASSUME TypeOK, TypeOK', NEW t \in Threads, Begin(t) \/ Step(t), LedgerInv, Account,
           NEW e \in Int, e = CountDue + miscounted,
           NEW d \in Int, NEW g \in {-1, 0, 1}, NEW n \in Int,
           Follows(t, d, g, n), StoredMoves(d), CountsBy(e, n)
    PROVE  LedgerInv'
<1>1. leaked' = leaked + SizeSlip(t) /\ miscounted' = miscounted + CountSlip(t)
  BY OneMoves
<1>2. /\ SizeSlip(t) \in Int /\ CountSlip(t) \in Int
      /\ SizeFollows(t, d, g) /\ CountFollows(t, d, n)
  BY DEF Follows
<1>3. SizeAccounted'
  BY <1>1, <1>2, SizeStep
<1>4. CountAccounted' /\ CountLimited'
  BY <1>1, <1>2, CountStep
<1>5. QED BY <1>1, <1>2, <1>3, <1>4 DEF LedgerInv

\* What the step of t puts on the ledger.
LEMMA SizeSlips ==
    ASSUME TypeOK, NEW t \in Threads
    PROVE  /\ pc[t] \in Subtracting => SizeSlip(t) = EntrySize - (size_bytes - size_bytes')
           /\ pc[t] = "clear_size" => SizeSlip(t) = - size_bytes
           /\ pc[t] \in {"get_expire", "set_insert"} =>
                 SizeSlip(t) = (IF call[t].key \in Stored THEN EntrySize ELSE 0)
           /\ pc[t] = "clear_entries" =>
                 SizeSlip(t) = EntrySize * (Cardinality(Stored) - Cardinality(Stored'))
           /\ pc[t] \notin Subtracting \cup {"clear_size", "get_expire", "set_insert",
                                             "clear_entries"} => SizeSlip(t) = 0
<1>1. EntrySize * 0 = 0 /\ EntrySize * 1 = EntrySize
  BY MemoryCacheAssumption
<1>2. QED BY <1>1 DEF SizeSlip, Drops, Subtracting

LEMMA CountSlips ==
    ASSUME TypeOK, NEW t \in Threads, pc'[t] # "panicked"
    PROVE  /\ pc[t] = "evict_fail" => CountSlip(t) = Replaces(t)
           /\ pc[t] = "clear_stats" => CountSlip(t) = - stats.entries
           /\ pc[t] \in {"get_expire", "set_insert"} =>
                 CountSlip(t) = (IF call[t].key \in Stored THEN 1 ELSE 0)
           /\ pc[t] = "clear_entries" =>
                 CountSlip(t) = Cardinality(Stored) - Cardinality(Stored')
           /\ pc[t] \notin {"evict_fail", "clear_stats", "get_expire", "set_insert",
                            "clear_entries"} => CountSlip(t) = 0
PROOF BY DEF CountSlip, Drops, Owes, Replaces, Replacing, SetSteps

LEMMA StoredForget ==
    ASSUME TypeOK, NEW k \in Keys, Forget(k)
    PROVE  (k \in Stored => StoredMoves(-1)) /\ (k \notin Stored => StoredMoves(0))
<1>1. Stored' = Stored \ {k}
  BY ForgetStored
<1>2. k \in Stored => Cardinality(Stored') = Cardinality(Stored) - 1
  BY <1>1, StoredFinite, FS_RemoveElement
<1>3. k \notin Stored => Stored' = Stored
  BY <1>1
<1>4. QED BY <1>2, <1>3, StoredFinite DEF StoredMoves

LEMMA StoredStays ==
    ASSUME Stored' = Stored
    PROVE  StoredMoves(0)
PROOF BY StoredFinite DEF StoredMoves

LEMMA StoredInsert ==
    ASSUME TypeOK, NEW t \in Threads, SetInsert(t)
    PROVE  (call[t].key \in Stored => StoredMoves(0))
           /\ (call[t].key \notin Stored => StoredMoves(1))
<1>1. PICK k \in Keys : k = call[t].key
  BY CallShape DEF SetInsert, TypeOK, SetSteps
<1>2. PICK x : x # None /\ entries' = [entries EXCEPT ![k] = x]
  BY <1>1, InsertedEntry
<1>3. Stored' = Stored \cup {k}
  BY <1>2 DEF Stored, TypeOK
<1>4. k \notin Stored => Cardinality(Stored') = Cardinality(Stored) + 1
  BY <1>3, StoredFinite, FS_AddElement
<1>5. k \in Stored => Stored' = Stored
  BY <1>3
<1>6. QED BY <1>1, <1>4, <1>5, StoredFinite DEF StoredMoves

-----------------------------------------------------------------------------
(* What each step does to both accounts *)

LEMMA Accounted ==
    ASSUME LedgerInv
    PROVE  \E e \in Int : e = CountDue + miscounted /\ Unwraps(e)
PROOF BY DueTypes DEF LedgerInv, CountAccounted

LEMMA LedgerSet ==
    ASSUME TypeOK, TypeOK', NoOldYet, LedgerInv, NEW t \in Threads, SetStep(t), Account
    PROVE  LedgerInv'
<1>1. (Begin(t) \/ Step(t)) /\ calls' = calls
  BY StepCalls DEF Step
<1>2. PICK e \in Int : e = CountDue + miscounted /\ Unwraps(e)
  BY Accounted
<1> USE DEF TypeOK, Goto, Return, Replaces, Uncounts, Counts, MayCount, Replacing, Uncounting,
            SetSteps,
            Subtracts, Adds, Subtracting, Times
<1>3. local[t] \in Locals /\ EntrySize \in Nat
  BY MemoryCacheAssumption
<1>4. CASE SetRemove(t)
  <2>1. PICK k \in Keys : k = call[t].key
    BY <1>4, CallShape DEF SetRemove, SetSteps
  <2>2. /\ Forget(k) /\ stats' = stats /\ size_bytes' = size_bytes /\ pc[t] = "set_remove"
        /\ pc'[t] = (IF k \in Stored THEN "set_sub" ELSE "evict_check")
        /\ local'[t].old_size = (IF k \in Stored THEN EntrySize ELSE local[t].old_size)
    BY <1>3, <1>4, <2>1 DEF SetRemove, Locals
  <2>3. local[t].old_size = None /\ EntrySize # None
    BY <2>2, NoneIsNoEntry DEF NoOldYet
  <2>4. CountsBy(e, 0)
    BY <1>2, <2>2, UnwrapsSame
  <2>5. SizeSlip(t) = 0 /\ CountSlip(t) = 0
    BY <2>2, SizeSlips, CountSlips
  <2>6. CASE k \in Stored
    <3>1. Follows(t, -1, 0, 0)
      BY <1>1, <2>2, <2>3, <2>5, <2>6 DEF Follows, SizeFollows, CountFollows
    <3>2. StoredMoves(-1)
      BY <2>2, <2>6, StoredForget
    <3> HIDE DEF TypeOK
    <3>3. QED BY <1>1, <1>2, <2>4, <3>1, <3>2, LedgerStep
  <2>7. CASE k \notin Stored
    <3>1. Follows(t, 0, 0, 0)
      BY <1>1, <2>2, <2>3, <2>5, <2>7 DEF Follows, SizeFollows, CountFollows
    <3>2. StoredMoves(0)
      BY <2>2, <2>7, StoredForget
    <3> HIDE DEF TypeOK
    <3>3. QED BY <1>1, <1>2, <2>4, <3>1, <3>2, LedgerStep
  <2>8. QED BY <2>6, <2>7
<1>5. CASE SetSub(t)
  <2>1. /\ Stored' = Stored /\ stats' = stats /\ local' = local
        /\ pc[t] = "set_sub" /\ pc'[t] = "evict_check"
    BY <1>5 DEF SetSub, Stored
  <2>2. SizeSlip(t) = EntrySize - (size_bytes - size_bytes') /\ CountSlip(t) = 0
    BY <2>1, SizeSlips, CountSlips
  <2>3. Follows(t, 0, -1, 0)
    <3>1. size_bytes \in Nat /\ size_bytes' \in Nat
      OBVIOUS
    <3>2. SizeFollows(t, 0, -1)
      <4>1. -1 = 0 + Subtracts(t)' - Subtracts(t) - Adds(t)' + Adds(t)
        BY <2>1
      <4>2. Times(-1) = - EntrySize
        OBVIOUS
      <4> HIDE DEF TypeOK, Times, Subtracts, Adds
      <4>3. size_bytes' = size_bytes + SizeSlip(t) + Times(-1)
        BY <1>3, <2>2, <3>1, <4>2
      <4>4. QED BY <4>1, <4>3 DEF SizeFollows
    <3>3. CountFollows(t, 0, 0)
      BY <1>1, <2>1, <2>2 DEF CountFollows
    <3>4. QED BY <1>3, <2>2, <3>1, <3>2, <3>3 DEF Follows
  <2>4. CountsBy(e, 0) /\ StoredMoves(0)
    BY <1>2, <2>1, UnwrapsSame, StoredStays
  <2> HIDE DEF TypeOK
  <2>5. QED BY <1>1, <1>2, <2>3, <2>4, LedgerStep
<1>6. CASE SetInsert(t)
  <2>1. /\ stats' = stats /\ size_bytes' = size_bytes /\ local' = local
        /\ pc[t] = "set_insert" /\ pc'[t] = "set_add"
    BY <1>6 DEF SetInsert
  <2>2. CountsBy(e, 0)
    BY <1>2, <2>1, UnwrapsSame
  <2>3. CASE call[t].key \in Stored
    <3>1. SizeSlip(t) = EntrySize /\ CountSlip(t) = 1
      BY <2>1, <2>3, SizeSlips, CountSlips
    <3>2. Follows(t, 0, -1, 0)
      <4>1. SizeFollows(t, 0, -1)
        BY <1>3, <2>1, <3>1 DEF SizeFollows
      <4>2. CountFollows(t, 0, 0)
        BY <1>1, <2>1, <3>1 DEF CountFollows
      <4>3. QED BY <1>3, <3>1, <4>1, <4>2 DEF Follows
    <3>3. StoredMoves(0)
      BY <1>6, <2>3, StoredInsert
    <3> HIDE DEF TypeOK
    <3>4. QED BY <1>1, <1>2, <2>2, <3>2, <3>3, LedgerStep
  <2>4. CASE call[t].key \notin Stored
    <3>1. SizeSlip(t) = 0 /\ CountSlip(t) = 0
      BY <2>1, <2>4, SizeSlips, CountSlips
    <3>2. Follows(t, 1, 0, 0)
      BY <1>1, <2>1, <3>1 DEF Follows, SizeFollows, CountFollows
    <3>3. StoredMoves(1)
      BY <1>6, <2>4, StoredInsert
    <3> HIDE DEF TypeOK
    <3>4. QED BY <1>1, <1>2, <2>2, <3>2, <3>3, LedgerStep
  <2>5. QED BY <2>3, <2>4
<1>7. CASE SetAdd(t)
  <2>1. /\ Stored' = Stored /\ stats' = stats /\ size_bytes' = size_bytes + EntrySize
        /\ local'[t].old_size = local[t].old_size
        /\ pc[t] = "set_add" /\ pc'[t] = "set_stats"
    BY <1>3, <1>7 DEF SetAdd, Locals, Stored
  <2>2. SizeSlip(t) = 0 /\ CountSlip(t) = 0
    BY <2>1, SizeSlips, CountSlips
  <2>3. Follows(t, 0, 1, 0)
    BY <1>1, <1>3, <2>1, <2>2 DEF Follows, SizeFollows, CountFollows
  <2>4. CountsBy(e, 0) /\ StoredMoves(0)
    BY <1>2, <2>1, UnwrapsSame, StoredStays
  <2> HIDE DEF TypeOK
  <2>5. QED BY <1>1, <1>2, <2>3, <2>4, LedgerStep
<1>8. CASE SetStats(t)
  <2>1. /\ Stored' = Stored /\ size_bytes' = size_bytes /\ local' = local
        /\ pc[t] = "set_stats" /\ pc'[t] = "set_policy"
    BY <1>8 DEF SetStats, Stored
  <2>2. StoredMoves(0)
    BY <2>1, StoredStays
  <2>3. SizeSlip(t) = 0 /\ CountSlip(t) = 0
    BY <2>1, SizeSlips, CountSlips
  <2>4. CASE local[t].old_size = None
    <3>1. stats'.entries = (stats.entries + 1) % Width
      BY <1>8, <2>4 DEF SetStats
    <3>2. CountsBy(e, 1)
      BY <1>2, <3>1, UnwrapsUp
    <3>3. Follows(t, 0, 0, 1)
      BY <1>1, <2>1, <2>3, <2>4 DEF Follows, SizeFollows, CountFollows
    <3> HIDE DEF TypeOK
    <3>4. QED BY <1>1, <1>2, <2>2, <3>2, <3>3, LedgerStep
  <2>5. CASE local[t].old_size # None
    <3>1. stats'.entries = stats.entries
      BY <1>8, <2>5 DEF SetStats
    <3>2. CountsBy(e, 0)
      BY <1>2, <3>1, UnwrapsSame
    <3>3. Follows(t, 0, 0, 0)
      BY <1>1, <2>1, <2>3, <2>5 DEF Follows, SizeFollows, CountFollows
    <3> HIDE DEF TypeOK
    <3>4. QED BY <1>1, <1>2, <2>2, <3>2, <3>3, LedgerStep
  <2>6. QED BY <2>4, <2>5
<1>9. CASE SetPolicy(t)
  <2>1. /\ Stored' = Stored /\ stats' = stats /\ size_bytes' = size_bytes
        /\ pc[t] = "set_policy" /\ pc'[t] = "idle"
    BY <1>9 DEF SetPolicy, Stored
  <2>2. SizeSlip(t) = 0 /\ CountSlip(t) = 0
    BY <2>1, SizeSlips, CountSlips
  <2>3. Follows(t, 0, 0, 0)
    BY <1>1, <2>1, <2>2 DEF Follows, SizeFollows, CountFollows
  <2>4. CountsBy(e, 0) /\ StoredMoves(0)
    BY <1>2, <2>1, UnwrapsSame, StoredStays
  <2> HIDE DEF TypeOK
  <2>5. QED BY <1>1, <1>2, <2>3, <2>4, LedgerStep
<1>10. QED BY <1>4, <1>5, <1>6, <1>7, <1>8, <1>9 DEF SetStep

LEMMA LedgerEvict ==
    ASSUME TypeOK, TypeOK', LedgerInv, NEW t \in Threads, EvictStep(t), Account
    PROVE  LedgerInv'
<1>1. (Begin(t) \/ Step(t)) /\ calls' = calls
  BY StepCalls DEF Step
<1>2. PICK e \in Int : e = CountDue + miscounted /\ Unwraps(e)
  BY Accounted
<1> USE DEF TypeOK, Goto, Return, Replaces, Uncounts, Counts, MayCount, Replacing, Uncounting,
            SetSteps,
            Subtracts, Adds, Subtracting, Times
<1>3. local[t] \in Locals /\ EntrySize \in Nat
  BY MemoryCacheAssumption
<1>4. CASE EvictCheck(t) \/ EvictPop(t)
  <2>1. /\ Stored' = Stored /\ stats' = stats /\ size_bytes' = size_bytes
        /\ local'[t].old_size = local[t].old_size
        /\ pc[t] \in {"evict_check", "evict_pop"}
        /\ pc'[t] \in {"set_insert", "evict_pop", "evict_remove", "evict_fail"}
    BY <1>3, <1>4 DEF EvictCheck, EvictPop, Locals, Stored
  <2>2. SizeSlip(t) = 0 /\ CountSlip(t) = 0
    BY <2>1, SizeSlips, CountSlips
  <2>3. Follows(t, 0, 0, 0)
    BY <1>1, <2>1, <2>2 DEF Follows, SizeFollows, CountFollows
  <2>4. CountsBy(e, 0) /\ StoredMoves(0)
    BY <1>2, <2>1, UnwrapsSame, StoredStays
  <2> HIDE DEF TypeOK
  <2>5. QED BY <1>1, <1>2, <2>3, <2>4, LedgerStep
<1>5. CASE EvictRemove(t)
  <2>1. PICK k \in Keys : k = local[t].victim
    BY <1>5 DEF EvictRemove
  <2>2. /\ Forget(k) /\ stats' = stats /\ size_bytes' = size_bytes /\ pc[t] = "evict_remove"
        /\ local'[t].old_size = local[t].old_size
        /\ pc'[t] = (IF k \in Stored THEN "evict_sub" ELSE "evict_check")
    BY <1>3, <1>5, <2>1 DEF EvictRemove, Locals
  <2>3. CountsBy(e, 0)
    BY <1>2, <2>2, UnwrapsSame
  <2>4. SizeSlip(t) = 0 /\ CountSlip(t) = 0
    BY <2>2, SizeSlips, CountSlips
  <2>5. CASE k \in Stored
    <3>1. Follows(t, -1, 0, 0)
      BY <1>1, <2>2, <2>4, <2>5 DEF Follows, SizeFollows, CountFollows
    <3>2. StoredMoves(-1)
      BY <2>2, <2>5, StoredForget
    <3> HIDE DEF TypeOK
    <3>3. QED BY <1>1, <1>2, <2>3, <3>1, <3>2, LedgerStep
  <2>6. CASE k \notin Stored
    <3>1. Follows(t, 0, 0, 0)
      BY <1>1, <2>2, <2>4, <2>6 DEF Follows, SizeFollows, CountFollows
    <3>2. StoredMoves(0)
      BY <2>2, <2>6, StoredForget
    <3> HIDE DEF TypeOK
    <3>3. QED BY <1>1, <1>2, <2>3, <3>1, <3>2, LedgerStep
  <2>7. QED BY <2>5, <2>6
<1>6. CASE EvictSub(t)
  <2>1. /\ Stored' = Stored /\ stats' = stats /\ local' = local
        /\ pc[t] = "evict_sub" /\ pc'[t] = "evict_stats"
    BY <1>6 DEF EvictSub, Stored
  <2>2. SizeSlip(t) = EntrySize - (size_bytes - size_bytes') /\ CountSlip(t) = 0
    BY <2>1, SizeSlips, CountSlips
  <2>3. Follows(t, 0, -1, 0)
    <3>1. size_bytes \in Nat /\ size_bytes' \in Nat
      OBVIOUS
    <3>2. SizeFollows(t, 0, -1)
      <4>1. -1 = 0 + Subtracts(t)' - Subtracts(t) - Adds(t)' + Adds(t)
        BY <2>1
      <4>2. Times(-1) = - EntrySize
        OBVIOUS
      <4> HIDE DEF TypeOK, Times, Subtracts, Adds
      <4>3. size_bytes' = size_bytes + SizeSlip(t) + Times(-1)
        BY <1>3, <2>2, <3>1, <4>2
      <4>4. QED BY <4>1, <4>3 DEF SizeFollows
    <3>3. CountFollows(t, 0, 0)
      BY <1>1, <2>1, <2>2 DEF CountFollows
    <3>4. QED BY <1>3, <2>2, <3>1, <3>2, <3>3 DEF Follows
  <2>4. CountsBy(e, 0) /\ StoredMoves(0)
    BY <1>2, <2>1, UnwrapsSame, StoredStays
  <2> HIDE DEF TypeOK
  <2>5. QED BY <1>1, <1>2, <2>3, <2>4, LedgerStep
<1>7. CASE EvictStats(t)
  <2>1. /\ Stored' = Stored /\ size_bytes' = size_bytes /\ local' = local
        /\ pc[t] = "evict_stats"
    BY <1>7 DEF EvictStats, CountOneLess, Stored
  <2>2. StoredMoves(0)
    BY <2>1, StoredStays
  <2>3. SizeSlip(t) = 0
    BY <2>1, SizeSlips
  <2>4. CASE pc'[t] = "panicked" /\ stats'.entries = stats.entries
    <3>1. CountSlip(t) = 1 + Replaces(t)
      BY <2>1, <2>4 DEF CountSlip, Owes, SetSteps
    <3>2. Follows(t, 0, 0, 0)
      BY <1>1, <2>1, <2>3, <2>4, <3>1 DEF Follows, SizeFollows, CountFollows
    <3>3. CountsBy(e, 0)
      BY <1>2, <2>4, UnwrapsSame
    <3> HIDE DEF TypeOK
    <3>4. QED BY <1>1, <1>2, <2>2, <3>2, <3>3, LedgerStep
  <2>5. CASE pc'[t] = "evict_check" /\ stats'.entries = (stats.entries - 1) % Width
    <3>1. CountSlip(t) = 0
      BY <2>1, <2>5, CountSlips
    <3>2. Follows(t, 0, 0, -1)
      BY <1>1, <2>1, <2>3, <2>5, <3>1 DEF Follows, SizeFollows, CountFollows
    <3>3. CountsBy(e, -1)
      BY <1>2, <2>5, UnwrapsDown
    <3> HIDE DEF TypeOK
    <3>4. QED BY <1>1, <1>2, <2>2, <3>2, <3>3, LedgerStep
  <2>6. QED BY <1>7, <2>4, <2>5 DEF EvictStats, CountOneLess
<1>8. CASE EvictFail(t)
  <2>1. /\ Stored' = Stored /\ stats' = stats /\ size_bytes' = size_bytes
        /\ pc[t] = "evict_fail" /\ pc'[t] = "idle"
    BY <1>8 DEF EvictFail, Stored
  <2>2. SizeSlip(t) = 0 /\ CountSlip(t) = Replaces(t)
    BY <2>1, SizeSlips, CountSlips
  <2>3. Follows(t, 0, 0, 0)
    BY <1>1, <2>1, <2>2 DEF Follows, SizeFollows, CountFollows
  <2>4. CountsBy(e, 0) /\ StoredMoves(0)
    BY <1>2, <2>1, UnwrapsSame, StoredStays
  <2> HIDE DEF TypeOK
  <2>5. QED BY <1>1, <1>2, <2>3, <2>4, LedgerStep
<1>9. QED BY <1>4, <1>5, <1>6, <1>7, <1>8 DEF EvictStep

LEMMA LedgerDelete ==
    ASSUME TypeOK, TypeOK', LedgerInv, NEW t \in Threads, DeleteStep(t), Account
    PROVE  LedgerInv'
<1>1. (Begin(t) \/ Step(t)) /\ calls' = calls
  BY StepCalls DEF Step
<1>2. PICK e \in Int : e = CountDue + miscounted /\ Unwraps(e)
  BY Accounted
<1> USE DEF TypeOK, Goto, Return, Replaces, Uncounts, Counts, MayCount, Replacing, Uncounting,
            SetSteps,
            Subtracts, Adds, Subtracting, Times
<1>3. EntrySize \in Nat
  BY MemoryCacheAssumption
<1>4. CASE DelRemove(t)
  <2>1. PICK k \in Keys : k = call[t].key
    BY <1>4, CallShape DEF DelRemove
  <2>2. /\ Forget(k) /\ stats' = stats /\ size_bytes' = size_bytes /\ pc[t] = "del_remove"
        /\ pc'[t] = (IF k \in Stored THEN "del_sub" ELSE "idle")
    BY <1>4, <2>1 DEF DelRemove
  <2>3. CountsBy(e, 0)
    BY <1>2, <2>2, UnwrapsSame
  <2>4. SizeSlip(t) = 0 /\ CountSlip(t) = 0
    BY <2>2, SizeSlips, CountSlips
  <2>5. CASE k \in Stored
    <3>1. Follows(t, -1, 0, 0)
      BY <1>1, <2>2, <2>4, <2>5 DEF Follows, SizeFollows, CountFollows
    <3>2. StoredMoves(-1)
      BY <2>2, <2>5, StoredForget
    <3> HIDE DEF TypeOK
    <3>3. QED BY <1>1, <1>2, <2>3, <3>1, <3>2, LedgerStep
  <2>6. CASE k \notin Stored
    <3>1. Follows(t, 0, 0, 0)
      BY <1>1, <2>2, <2>4, <2>6 DEF Follows, SizeFollows, CountFollows
    <3>2. StoredMoves(0)
      BY <2>2, <2>6, StoredForget
    <3> HIDE DEF TypeOK
    <3>3. QED BY <1>1, <1>2, <2>3, <3>1, <3>2, LedgerStep
  <2>7. QED BY <2>5, <2>6
<1>5. CASE DelSub(t)
  <2>1. /\ Stored' = Stored /\ stats' = stats
        /\ pc[t] = "del_sub" /\ pc'[t] = "del_stats"
    BY <1>5 DEF DelSub, Stored
  <2>2. SizeSlip(t) = EntrySize - (size_bytes - size_bytes') /\ CountSlip(t) = 0
    BY <2>1, SizeSlips, CountSlips
  <2>3. Follows(t, 0, -1, 0)
    <3>1. size_bytes \in Nat /\ size_bytes' \in Nat
      OBVIOUS
    <3>2. SizeFollows(t, 0, -1)
      <4>1. -1 = 0 + Subtracts(t)' - Subtracts(t) - Adds(t)' + Adds(t)
        BY <2>1
      <4>2. Times(-1) = - EntrySize
        OBVIOUS
      <4> HIDE DEF TypeOK, Times, Subtracts, Adds
      <4>3. size_bytes' = size_bytes + SizeSlip(t) + Times(-1)
        BY <1>3, <2>2, <3>1, <4>2
      <4>4. QED BY <4>1, <4>3 DEF SizeFollows
    <3>3. CountFollows(t, 0, 0)
      BY <1>1, <2>1, <2>2 DEF CountFollows
    <3>4. QED BY <1>3, <2>2, <3>1, <3>2, <3>3 DEF Follows
  <2>4. CountsBy(e, 0) /\ StoredMoves(0)
    BY <1>2, <2>1, UnwrapsSame, StoredStays
  <2> HIDE DEF TypeOK
  <2>5. QED BY <1>1, <1>2, <2>3, <2>4, LedgerStep
<1>6. CASE DelStats(t)
  <2>1. Stored' = Stored /\ size_bytes' = size_bytes /\ pc[t] = "del_stats"
    BY <1>6 DEF DelStats, CountOneLess, Stored
  <2>2. StoredMoves(0)
    BY <2>1, StoredStays
  <2>3. SizeSlip(t) = 0
    BY <2>1, SizeSlips
  <2>4. CASE pc'[t] = "panicked" /\ stats'.entries = stats.entries
    <3>1. CountSlip(t) = 1
      BY <2>1, <2>4 DEF CountSlip, Owes, SetSteps
    <3>2. Follows(t, 0, 0, 0)
      BY <1>1, <2>1, <2>3, <2>4, <3>1 DEF Follows, SizeFollows, CountFollows
    <3>3. CountsBy(e, 0)
      BY <1>2, <2>4, UnwrapsSame
    <3> HIDE DEF TypeOK
    <3>4. QED BY <1>1, <1>2, <2>2, <3>2, <3>3, LedgerStep
  <2>5. CASE pc'[t] = "idle" /\ stats'.entries = (stats.entries - 1) % Width
    <3>1. CountSlip(t) = 0
      BY <2>1, <2>5, CountSlips
    <3>2. Follows(t, 0, 0, -1)
      BY <1>1, <2>1, <2>3, <2>5, <3>1 DEF Follows, SizeFollows, CountFollows
    <3>3. CountsBy(e, -1)
      BY <1>2, <2>5, UnwrapsDown
    <3> HIDE DEF TypeOK
    <3>4. QED BY <1>1, <1>2, <2>2, <3>2, <3>3, LedgerStep
  <2>6. QED BY <1>6, <2>4, <2>5 DEF DelStats, CountOneLess
<1>7. QED BY <1>4, <1>5, <1>6 DEF DeleteStep

LEMMA LedgerRead ==
    ASSUME TypeOK, TypeOK', LedgerInv, NEW t \in Threads, ReadStep(t), Account
    PROVE  LedgerInv'
<1>1. (Begin(t) \/ Step(t)) /\ calls' = calls
  BY StepCalls DEF Step
<1>2. PICK e \in Int : e = CountDue + miscounted /\ Unwraps(e)
  BY Accounted
<1>3. EntrySize \in Nat
  BY MemoryCacheAssumption
<1> USE DEF TypeOK, Goto, Return, Replaces, Uncounts, Counts, MayCount, Replacing, Uncounting,
            SetSteps,
            Subtracts, Adds, Subtracting, Times
<1>4. /\ stats'.entries = stats.entries /\ size_bytes' = size_bytes
      /\ pc[t] \in {"get_check", "get_expire", "get_read", "get_access", "get_hit",
                    "get_miss", "exists"}
      /\ pc'[t] \in {"get_expire", "get_read", "get_access", "get_hit", "get_miss", "idle"}
  BY DEF ReadStep, GetCheck, GetExpire, GetRead, GetAccess, GetHit, GetMiss, Exists
<1>5. CountsBy(e, 0)
  BY <1>2, <1>4, UnwrapsSame
<1>6. CASE GetExpire(t)
  <2>1. PICK k \in Keys : k = call[t].key
    BY <1>6, CallShape DEF GetExpire
  <2>2. Forget(k) /\ pc[t] = "get_expire"
    BY <1>6, <2>1 DEF GetExpire
  <2>3. CASE k \in Stored
    <3>1. SizeSlip(t) = EntrySize /\ CountSlip(t) = 1
      BY <1>4, <2>1, <2>2, <2>3, SizeSlips, CountSlips
    <3>2. SizeFollows(t, -1, -1)
      BY <1>3, <1>4, <3>1 DEF SizeFollows
    <3>3. CountFollows(t, -1, 0)
      BY <1>1, <1>4, <3>1 DEF CountFollows
    <3>4. Follows(t, -1, -1, 0)
      BY <1>3, <3>1, <3>2, <3>3 DEF Follows
    <3>5. StoredMoves(-1)
      BY <2>2, <2>3, StoredForget
    <3> HIDE DEF TypeOK
    <3>6. QED BY <1>1, <1>2, <1>5, <3>4, <3>5, LedgerStep
  <2>4. CASE k \notin Stored
    <3>1. SizeSlip(t) = 0 /\ CountSlip(t) = 0
      BY <1>4, <2>1, <2>2, <2>4, SizeSlips, CountSlips
    <3>2. Follows(t, 0, 0, 0)
      BY <1>1, <1>4, <3>1 DEF Follows, SizeFollows, CountFollows
    <3>3. StoredMoves(0)
      BY <2>2, <2>4, StoredForget
    <3> HIDE DEF TypeOK
    <3>4. QED BY <1>1, <1>2, <1>5, <3>2, <3>3, LedgerStep
  <2>5. QED BY <2>3, <2>4
<1>7. CASE ~ GetExpire(t)
  <2>1. entries' = entries /\ pc[t] # "get_expire"
    BY <1>7 DEF ReadStep, GetCheck, GetRead, GetAccess, GetHit, GetMiss, Exists
  <2>2. SizeSlip(t) = 0 /\ CountSlip(t) = 0
    BY <1>4, <2>1, SizeSlips, CountSlips
  <2>3. Follows(t, 0, 0, 0)
    BY <1>1, <1>4, <2>2 DEF Follows, SizeFollows, CountFollows
  <2>4. StoredMoves(0)
    BY <2>1, StoredStays DEF Stored
  <2> HIDE DEF TypeOK
  <2>5. QED BY <1>1, <1>2, <1>5, <2>3, <2>4, LedgerStep
<1>8. QED BY <1>6, <1>7

LEMMA LedgerClear ==
    ASSUME TypeOK, TypeOK', LedgerInv, NEW t \in Threads, ClearStep(t), Account
    PROVE  LedgerInv'
<1>1. (Begin(t) \/ Step(t)) /\ calls' = calls
  BY StepCalls DEF Step
<1>2. PICK e \in Int : e = CountDue + miscounted /\ Unwraps(e)
  BY Accounted
<1>3. EntrySize \in Nat
  BY MemoryCacheAssumption
<1> USE DEF TypeOK, Goto, Return, Replaces, Uncounts, Counts, MayCount, Replacing, Uncounting,
            SetSteps,
            Subtracts, Adds, Subtracting, Times
<1>4. CASE ClearEntries(t)
  <2>1. /\ stats' = stats /\ size_bytes' = size_bytes /\ pc[t] = "clear_entries"
        /\ pc'[t] \in {"clear_size", "clear_entries"}
    BY <1>4 DEF ClearEntries
  <2>2. PICK k \in Keys : Forget(k)
    <3>1. local[t].todo \subseteq Keys
      BY DEF Locals
    <3>2. QED BY <1>4, <3>1 DEF ClearEntries
  <2>3. CountsBy(e, 0)
    BY <1>2, <2>1, UnwrapsSame
  <2>4. /\ SizeSlip(t) = EntrySize * (Cardinality(Stored) - Cardinality(Stored'))
        /\ CountSlip(t) = Cardinality(Stored) - Cardinality(Stored')
    BY <2>1, SizeSlips, CountSlips
  <2>5. CASE k \in Stored
    <3>1. StoredMoves(-1)
      BY <2>2, <2>5, StoredForget
    <3>2. Cardinality(Stored) - Cardinality(Stored') = 1
      BY <3>1, StoredFinite DEF StoredMoves
    <3>3. SizeSlip(t) = EntrySize /\ CountSlip(t) = 1
      <4>1. EntrySize * 1 = EntrySize
        BY <1>3
      <4> HIDE DEF TypeOK
      <4>2. QED BY <2>4, <3>2, <4>1
    <3>4. SizeFollows(t, -1, -1)
      BY <1>3, <2>1, <3>3 DEF SizeFollows
    <3>5. CountFollows(t, -1, 0)
      BY <1>1, <2>1, <3>3 DEF CountFollows
    <3>6. Follows(t, -1, -1, 0)
      BY <1>3, <3>3, <3>4, <3>5 DEF Follows
    <3> HIDE DEF TypeOK
    <3>7. QED BY <1>1, <1>2, <2>3, <3>1, <3>6, LedgerStep
  <2>6. CASE k \notin Stored
    <3>1. StoredMoves(0)
      BY <2>2, <2>6, StoredForget
    <3>2. Cardinality(Stored) - Cardinality(Stored') = 0
      BY <3>1, StoredFinite DEF StoredMoves
    <3>3. SizeSlip(t) = 0 /\ CountSlip(t) = 0
      <4>1. EntrySize * 0 = 0
        BY <1>3
      <4> HIDE DEF TypeOK
      <4>2. QED BY <2>4, <3>2, <4>1
    <3>4. Follows(t, 0, 0, 0)
      BY <1>1, <2>1, <3>3 DEF Follows, SizeFollows, CountFollows
    <3> HIDE DEF TypeOK
    <3>5. QED BY <1>1, <1>2, <2>3, <3>1, <3>4, LedgerStep
  <2>7. QED BY <2>5, <2>6
<1>5. CASE ClearSize(t)
  <2>1. /\ Stored' = Stored /\ stats' = stats /\ size_bytes' = 0
        /\ pc[t] = "clear_size" /\ pc'[t] = "clear_stats"
    BY <1>5 DEF ClearSize, Stored
  <2>2. SizeSlip(t) = - size_bytes /\ CountSlip(t) = 0
    BY <2>1, SizeSlips, CountSlips
  <2>3. SizeFollows(t, 0, 0)
    BY <2>1, <2>2 DEF SizeFollows
  <2>4. CountFollows(t, 0, 0)
    BY <1>1, <2>1, <2>2 DEF CountFollows
  <2>5. Follows(t, 0, 0, 0)
    BY <2>2, <2>3, <2>4 DEF Follows
  <2>6. CountsBy(e, 0) /\ StoredMoves(0)
    BY <1>2, <2>1, UnwrapsSame, StoredStays
  <2> HIDE DEF TypeOK
  <2>7. QED BY <1>1, <1>2, <2>5, <2>6, LedgerStep
<1>6. CASE ClearStats(t)
  <2>1. /\ Stored' = Stored /\ size_bytes' = size_bytes /\ stats'.entries = 0
        /\ pc[t] = "clear_stats" /\ pc'[t] = "clear_policy"
    BY <1>6 DEF ClearStats, Stored
  <2>2. SizeSlip(t) = 0 /\ CountSlip(t) = - stats.entries
    BY <2>1, SizeSlips, CountSlips
  <2>3. PICK n \in Int : n = - stats.entries
    OBVIOUS
  <2>4. Follows(t, 0, 0, n)
    <3>1. SizeFollows(t, 0, 0)
      BY <2>1, <2>2 DEF SizeFollows
    <3>2. CountFollows(t, 0, n)
      BY <1>1, <2>1, <2>2, <2>3 DEF CountFollows
    <3>3. QED BY <2>2, <2>3, <3>1, <3>2 DEF Follows
  <2>5. CountsBy(e, n)
    <3>1. PICK q \in Int : e = stats.entries + q * Width
      BY <1>2 DEF Unwraps
    <3>2. q * Width \in Int
      BY MemoryCacheAssumption
    <3>3. e + n = 0 + q * Width
      BY <2>3, <3>1, <3>2
    <3>4. QED BY <2>1, <3>3 DEF CountsBy, Unwraps
  <2>6. StoredMoves(0)
    BY <2>1, StoredStays
  <2> HIDE DEF TypeOK
  <2>7. QED BY <1>1, <1>2, <2>4, <2>5, <2>6, LedgerStep
<1>7. CASE ClearPolicy(t)
  <2>1. /\ Stored' = Stored /\ stats' = stats /\ size_bytes' = size_bytes
        /\ pc[t] = "clear_policy" /\ pc'[t] = "idle"
    BY <1>7 DEF ClearPolicy, Stored
  <2>2. SizeSlip(t) = 0 /\ CountSlip(t) = 0
    BY <2>1, SizeSlips, CountSlips
  <2>3. Follows(t, 0, 0, 0)
    BY <1>1, <2>1, <2>2 DEF Follows, SizeFollows, CountFollows
  <2>4. CountsBy(e, 0) /\ StoredMoves(0)
    BY <1>2, <2>1, UnwrapsSame, StoredStays
  <2> HIDE DEF TypeOK
  <2>5. QED BY <1>1, <1>2, <2>3, <2>4, LedgerStep
<1>8. QED BY <1>4, <1>5, <1>6, <1>7 DEF ClearStep

LEMMA LedgerBegin ==
    ASSUME TypeOK, TypeOK', LedgerInv, NEW t \in Threads, Begin(t), Account
    PROVE  LedgerInv'
<1>1. PICK e \in Int : e = CountDue + miscounted /\ Unwraps(e)
  BY Accounted
<1>2. /\ Stored' = Stored /\ stats' = stats /\ size_bytes' = size_bytes /\ pc[t] = "idle"
      /\ pc'[t] \in {"set_remove", "get_check", "exists", "del_remove", "clear_entries"}
      /\ calls' = calls + 1
  <2>1. PICK c \in Requests : pc' = [pc EXCEPT ![t] = FirstStep[c.op]]
    BY DEF Begin
  <2>2. FirstStep[c.op] \in {"set_remove", "get_check", "exists", "del_remove",
                             "clear_entries"}
    BY DEF Requests, FirstStep
  <2>3. QED BY <2>1, <2>2 DEF Begin, TypeOK, Stored
<1>3. SizeSlip(t) = 0 /\ CountSlip(t) = 0
  BY <1>2, SizeSlips, CountSlips DEF Subtracting
<1>4. Follows(t, 0, 0, 0)
  BY <1>2, <1>3 DEF Follows, SizeFollows, CountFollows, TypeOK, Replaces, Uncounts, Counts,
                    MayCount, SetSteps, Replacing, Uncounting, Subtracts, Adds,
                    Subtracting, Times
<1>5. CountsBy(e, 0) /\ StoredMoves(0)
  BY <1>1, <1>2, UnwrapsSame, StoredStays
<1>6. QED BY <1>1, <1>4, <1>5, LedgerStep

-----------------------------------------------------------------------------
(* The invariant and the theorems *)

LEMMA LedgerInitially == LedgerInit => LedgerInv
<1> SUFFICES ASSUME LedgerInit PROVE LedgerInv
  OBVIOUS
<1>1. /\ Stored = {} /\ Unsubtracted = {} /\ Unadded = {}
      /\ Replacers = {} /\ Uncounters = {} /\ Counters = {} /\ MayCounters = {}
  BY DEF LedgerInit, Init, Stored, Unsubtracted, Unadded, Doing, Replacers, Uncounters,
         Counters, MayCounters, Replaces, Uncounts, Counts, MayCount, Replacing, Uncounting,
         SetSteps
<1>2. SizeDue = 0 /\ CountDue = 0 /\ Cardinality(MayCounters) = 0
  BY <1>1, FS_EmptySet DEF SizeDue, CountDue
<1>3. EntrySize * 0 = 0 /\ 0 * Width = 0
  BY MemoryCacheAssumption
<1>4. Unwraps(0)
  BY <1>3 DEF Unwraps, LedgerInit, Init
<1>5. QED
  BY <1>2, <1>3, <1>4 DEF LedgerInv, SizeAccounted, CountAccounted, CountLimited,
                          LedgerInit, Init

\* A step that moves no thread changes no account.
LEMMA LedgerStays ==
    ASSUME LedgerInv, Stored' = Stored,
           UNCHANGED <<size_bytes, stats, pc, local, calls, leaked, miscounted>>
    PROVE  LedgerInv'
<1>1. /\ Unsubtracted' = Unsubtracted /\ Unadded' = Unadded
      /\ Replacers' = Replacers /\ Uncounters' = Uncounters /\ Counters' = Counters
      /\ MayCounters' = MayCounters
  BY DEF Unsubtracted, Unadded, Doing, Replacers, Uncounters, Counters, MayCounters,
         Replaces, Uncounts, Counts, MayCount
<1>2. SizeDue' = SizeDue /\ CountDue' = CountDue
  BY <1>1 DEF SizeDue, CountDue
<1>3. SizeAccounted'
  BY <1>2 DEF LedgerInv, SizeAccounted
<1>4. CountAccounted'
  BY <1>2 DEF LedgerInv, CountAccounted, Unwraps
<1>5. CountLimited'
  BY <1>1, <1>2 DEF LedgerInv, CountLimited
<1>6. QED BY <1>3, <1>4, <1>5 DEF LedgerInv

LEMMA LedgerKept ==
    ASSUME TypeOK, TypeOK', NoOldYet, LedgerInv, [LedgerNext]_ledgerVars
    PROVE  LedgerInv'
<1>1. ASSUME NEW t \in Threads, Step(t), Account PROVE LedgerInv'
  BY <1>1, LedgerSet, LedgerEvict, LedgerRead, LedgerDelete, LedgerClear DEF Step
<1>2. ASSUME NEW t \in Threads, Begin(t), Account PROVE LedgerInv'
  BY <1>2, LedgerBegin
<1>3. ASSUME NEW k \in Keys, Expire(k), Account PROVE LedgerInv'
  <2>1. Stored' = Stored
    <3>1. PICK x : x = [entries[k] EXCEPT !.life = "expired"]
      OBVIOUS
    <3>2. entries[k] \in Entries
      BY <1>3 DEF Expire, Stored, TypeOK
    <3>3. x \in Entries
      BY <3>1, <3>2 DEF Entries, Lives
    <3>4. x # None
      BY <3>3, NoneIsNoEntry DEF Entries
    <3>5. entries' = [entries EXCEPT ![k] = x] /\ entries[k] # None
      BY <1>3, <3>1 DEF Expire, Stored
    <3>6. QED BY <3>4, <3>5 DEF Stored, TypeOK
  <2>2. UNCHANGED <<size_bytes, stats, pc, local, calls>>
    BY <1>3 DEF Expire
  <2>3. UNCHANGED <<leaked, miscounted>>
    BY <1>3, <2>2 DEF Account, Moves
  <2>4. QED BY <2>1, <2>2, <2>3, LedgerStays
<1>4. CASE Finished /\ Account
  <2>1. UNCHANGED vars
    BY <1>4 DEF Finished
  <2>2. UNCHANGED <<leaked, miscounted>>
    BY <1>4, <2>1 DEF Account, Moves, vars
  <2>3. Stored' = Stored
    BY <2>1 DEF vars, Stored
  <2>4. UNCHANGED <<size_bytes, stats, pc, local, calls>>
    BY <2>1 DEF vars
  <2>5. QED BY <2>2, <2>3, <2>4, LedgerStays
<1>5. CASE UNCHANGED ledgerVars
  <2>1. /\ UNCHANGED <<size_bytes, stats, pc, local, calls, leaked, miscounted>>
        /\ Stored' = Stored
    BY <1>5 DEF ledgerVars, vars, Stored
  <2>2. QED BY <2>1, LedgerStays
<1>6. QED BY <1>1, <1>2, <1>3, <1>4, <1>5 DEF LedgerNext, Next

LEMMA ModUnwraps ==
    ASSUME TypeOK, NEW e \in Int, Unwraps(e)
    PROVE  stats.entries = e % Width
<1>1. PICK q \in Int : e = stats.entries + q * Width
  BY DEF Unwraps
<1>2. stats.entries \in 0 .. Width - 1 /\ Width \in Nat \ {0}
  BY MemoryCacheAssumption DEF TypeOK
<1>3. PICK p \in Int : e = (e % Width) + p * Width
  <2>1. e = (e % Width) + (e \div Width) * Width /\ e \div Width \in Int
    BY <1>2
  <2>2. QED BY <2>1
<1>4. e % Width \in 0 .. Width - 1
  BY ModRange
<1>5. (p - q) * Width = stats.entries - (e % Width)
  BY <1>1, <1>2, <1>3, <1>4
<1>6. p - q = 0
  <2>1. p - q >= 1 => (p - q) * Width >= Width
    BY <1>2
  <2>2. p - q <= -1 => (p - q) * Width <= - Width
    BY <1>2
  <2>3. PICK d \in Int : d = (p - q) * Width
    BY <1>2
  <2>4. QED BY <1>2, <1>4, <1>5, <2>1, <2>2, <2>3
<1>7. (p - q) * Width = 0
  BY <1>2, <1>6
<1>8. QED BY <1>2, <1>4, <1>5, <1>7

\* With no call under way nothing is left to make up for.
LEMMA SettledAccounts ==
    ASSUME TypeOK, LedgerInv, Quiescent
    PROVE  /\ size_bytes = EntrySize * Cardinality(Stored) + leaked
           /\ stats.entries = (Cardinality(Stored) + miscounted) % Width
<1>1. \A t \in Threads : pc[t] \in {"idle", "panicked"}
  BY DEF Quiescent, Doing, TypeOK
<1>2. /\ Unsubtracted = {} /\ Unadded = {}
      /\ Replacers = {} /\ Uncounters = {} /\ Counters = {}
  BY <1>1 DEF Unsubtracted, Unadded, Doing, Replacers, Uncounters, Counters, Replaces,
              Uncounts, Counts, Replacing, Uncounting
<1>3. SizeDue = Cardinality(Stored) /\ CountDue = Cardinality(Stored)
  BY <1>2, FS_EmptySet, StoredFinite DEF SizeDue, CountDue
<1>4. size_bytes = EntrySize * Cardinality(Stored) + leaked
  BY <1>3 DEF LedgerInv, SizeAccounted
<1>5. stats.entries = (Cardinality(Stored) + miscounted) % Width
  <2>1. Cardinality(Stored) + miscounted \in Int
    BY StoredFinite DEF LedgerInv
  <2>2. Unwraps(Cardinality(Stored) + miscounted)
    BY <1>3 DEF LedgerInv, CountAccounted
  <2>3. QED BY <2>1, <2>2, ModUnwraps
<1>6. QED BY <1>4, <1>5

\* A decrement at zero: the thread's own entry is due, so that without a race
\* the count is at least 1, and it is too small to be a multiple of Width.
LEMMA PanicsNeedRaces ==
    ASSUME TypeOK, LedgerInv
    PROVE  PanicsOnlyInRaces
<1> SUFFICES ASSUME stats.entries = 0, NEW t \in Doing({"evict_stats", "del_stats"}),
                    Uncounted = {}, miscounted >= 0
             PROVE  FALSE
  BY DEF PanicsOnlyInRaces, LedgerInv
<1> DEFINE e == CountDue + miscounted
<1>1. Cardinality(Counters) = 0
  <2>1. Counters = Uncounted
    BY DEF Counters, Counts, Uncounted, Doing
  <2>2. QED BY <2>1, FS_EmptySet
<1>2. Cardinality(Uncounters) >= 1
  <2>1. t \in Uncounters /\ IsFiniteSet(Uncounters)
    BY MemoryCacheAssumption, FS_Subset DEF Doing, Uncounters, Uncounts, Uncounting
  <2>2. Cardinality(Uncounters \ {t}) = Cardinality(Uncounters) - 1
        /\ IsFiniteSet(Uncounters \ {t})
    BY <2>1, FS_RemoveElement
  <2>3. QED BY <2>2, SettleTypes, FS_CardinalityType
<1>3. e \in Int /\ e >= 1
  BY <1>1, <1>2, SettleTypes DEF CountDue, LedgerInv
<1>4. e <= calls
  BY <1>3, SettleTypes DEF LedgerInv, CountLimited, TypeOK
<1>5. e \in 0 .. Width - 1
  BY <1>3, <1>4, MemoryCacheAssumption DEF TypeOK
<1>6. stats.entries = e
  BY <1>5, UnwrapsIs DEF LedgerInv, CountAccounted
<1>7. QED BY <1>3, <1>6

LEMMA LeaksAndEntries ==
    TypeOK /\ LedgerInv /\ ReservationBound => LeaksTakeRoom
<1> SUFFICES ASSUME TypeOK, LedgerInv, ReservationBound
             PROVE  LeaksTakeRoom
  OBVIOUS
<1> DEFINE r == Cardinality(Reserving)
           a == Cardinality(Unadded)
           u == Cardinality(Unsubtracted)
           s == Cardinality(Stored)
           er == EntrySize * r
           ea == EntrySize * a
           es == EntrySize * s
           eo == EntrySize * (s + u)
           ed == EntrySize * (s + u - a)
           en == EntrySize * (N - 1)
<1>1. r \in Nat /\ a \in Nat /\ u \in Nat /\ s \in Nat
  BY DoingFinite, StoredFinite DEF Reserving, Unadded, Unsubtracted
<1>2. a <= r
  <2>1. Unadded \subseteq Reserving /\ IsFiniteSet(Reserving)
    BY DoingFinite DEF Unadded, Reserving, Doing
  <2>2. QED BY <2>1, FewerThan
<1>3. ea <= er /\ ea \in Nat /\ er \in Nat
  BY <1>1, <1>2, ScaleMono
<1>4. es <= eo /\ es \in Nat /\ eo \in Nat
  BY <1>1, ScaleMono
<1>5. ed = eo - ea /\ ed \in Int
  <2>1. EntrySize \in Int
    BY MemoryCacheAssumption
  <2> HIDE DEF r, a, u, s
  <2>2. QED BY <1>1, <2>1
<1>6. en \in Int /\ size_bytes \in Nat /\ Capacity \in Nat /\ leaked \in Int
  BY NType, MemoryCacheAssumption DEF TypeOK, LedgerInv
<1>7. size_bytes + er <= Capacity + en /\ size_bytes = ed + leaked
  BY DEF ReservationBound, Reserving, LedgerInv, SizeAccounted, SizeDue
<1>8. es + leaked <= Capacity + en
  <2> HIDE DEF er, ea, es, eo, ed, en
  <2>1. QED BY <1>3, <1>4, <1>5, <1>6, <1>7
<1>9. QED BY <1>8 DEF LeaksTakeRoom

\* The ledger's invariant needs the types, and that a set begins without an
\* old entry; the bound of the reservations holds beside it.
LedgerAll == TypeOK /\ NoOldYet /\ ReservationBound /\ LedgerInv

LEMMA LedgerHolds == LedgerSpec => []LedgerAll
<1>1. LedgerInit => LedgerAll
  BY TypeInit, NoOldInit, ReservationInit, LedgerInitially DEF LedgerInit, LedgerAll
<1>2. LedgerAll /\ [LedgerNext]_ledgerVars => LedgerAll'
  <2> SUFFICES ASSUME LedgerAll, [LedgerNext]_ledgerVars PROVE LedgerAll'
    OBVIOUS
  <2>1. [Next]_vars
    BY DEF LedgerNext, ledgerVars
  <2>2. TypeOK' /\ NoOldYet' /\ ReservationBound'
    BY <2>1, TypeNext, NoOldNext, ReservationNext DEF LedgerAll
  <2>3. LedgerInv'
    BY <2>2, LedgerKept DEF LedgerAll
  <2>4. QED BY <2>2, <2>3 DEF LedgerAll
<1>3. QED BY <1>1, <1>2, PTL DEF LedgerSpec

\* size_bytes of src/memory.rs, with no call under way, is the bytes of the
\* entries stored and those on the ledger: no interleaving of sets, gets,
\* deletes, evictions, clears and panics makes it wrong in any other way.
THEOREM SizeExplained == LedgerSpec => []SlipsExplainSize
<1>1. LedgerAll => SlipsExplainSize
  BY SettledAccounts DEF LedgerAll, SlipsExplainSize
<1>2. QED BY <1>1, LedgerHolds, PTL

\* Likewise stats.entries, modulo the width of usize.
THEOREM CountExplained == LedgerSpec => []SlipsExplainCount
<1>1. LedgerAll => SlipsExplainCount
  BY SettledAccounts DEF LedgerAll, SlipsExplainCount
<1>2. QED BY <1>1, LedgerHolds, PTL

\* "entries -= 1" at zero, which panics in a debug build, takes a race: a set
\* has inserted an entry and not yet counted it, or a clear was overlapped.
THEOREM PanicsInRaces == LedgerSpec => []PanicsOnlyInRaces
<1>1. LedgerAll => PanicsOnlyInRaces
  BY PanicsNeedRaces DEF LedgerAll
<1>2. QED BY <1>1, LedgerHolds, PTL

\* At every step, with clear() too, what is stored and what has leaked share
\* the capacity and the room of N - 1 entries.
THEOREM LeaksShareRoom == LedgerSpec => []LeaksTakeRoom
<1>1. LedgerAll => LeaksTakeRoom
  BY LeaksAndEntries DEF LedgerAll
<1>2. QED BY <1>1, LedgerHolds, PTL
=============================================================================
