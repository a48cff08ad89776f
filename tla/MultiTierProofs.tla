-------------------------- MODULE MultiTierProofs --------------------------
(***************************************************************************)
(* Proofs about the orchestration of the tiers, for any number of tiers,   *)
(* clients, keys and values, with any of the tiers external.               *)
(***************************************************************************)
EXTENDS MultiTierCache, TLAPS

\* What a step leaves of a tier's copy of a key: that copy, or nothing;
Dropped(i, k) == tiers'[i][k] \in {None, tiers[i][k]}

\* or, as its time-to-live runs out, that copy's value.
Kept(i, k) ==
    tiers'[i][k] # None =>
        tiers[i][k] # None /\ tiers'[i][k].value = tiers[i][k].value

-----------------------------------------------------------------------------
(* The steps of a visit *)

LEMMA PutShape ==
    ASSUME TypeOK, NEW i \in Tiers, NEW k \in Keys, NEW e \in Entries \cup {None},
           Put(i, k, e) \/ PutEvicting(i, k, e)
    PROVE  /\ tiers' \in [Tiers -> [Keys -> Entries \cup {None}]]
           /\ tiers'[i][k] = e
           /\ \A j \in Tiers, x \in Keys : (j # i \/ x # k) => Dropped(j, x)
<1>1. tiers \in [Tiers -> [Keys -> Entries \cup {None}]]
  BY DEF TypeOK
<1>2. CASE Put(i, k, e)
  BY <1>1, <1>2 DEF Put, Dropped
<1>3. CASE PutEvicting(i, k, e)
  <2>1. PICK gone \in SUBSET (Keys \ {k}) :
          tiers' = [tiers EXCEPT ![i] = [x \in Keys |->
                      IF x = k THEN e ELSE IF x \in gone THEN None ELSE @[x]]]
    BY <1>3 DEF PutEvicting
  <2>2. tiers'[i] = [x \in Keys |->
                      IF x = k THEN e ELSE IF x \in gone THEN None ELSE tiers[i][x]]
    BY <1>1, <2>1
  <2>3. tiers' \in [Tiers -> [Keys -> Entries \cup {None}]]
    BY <1>1, <2>1
  <2>4. \A j \in Tiers : j # i => tiers'[j] = tiers[j]
    BY <1>1, <2>1
  <2>5. QED
    BY <2>2, <2>3, <2>4 DEF Dropped
<1>4. QED BY <1>2, <1>3

\* A failed set keeps or removes the old copy, and removes it in memory.
LEMMA FailedPutShape ==
    ASSUME TypeOK, NEW i \in Tiers, NEW k \in Keys, FailedPut(i, k)
    PROVE  /\ tiers' \in [Tiers -> [Keys -> Entries \cup {None}]]
           /\ i \in MemoryTiers => tiers'[i][k] = None
           /\ \A j \in Tiers, x \in Keys : Dropped(j, x)
<1>1. CASE i \in MemoryTiers
  <2>1. PutEvicting(i, k, None)
    BY <1>1 DEF FailedPut
  <2>2. QED BY <2>1, PutShape DEF Dropped
<1>2. CASE i \notin MemoryTiers
  BY <1>2 DEF FailedPut, TypeOK, Dropped
<1>3. QED BY <1>1, <1>2

LEMMA CallShape ==
    ASSUME NEW r \in Requests
    PROVE  /\ r.key \in Keys /\ r.op \in {"set", "get", "delete", "exists"}
           /\ r.op = "set" => r.value \in Values
           /\ r.op # "set" => r.value = None
PROOF BY DEF Requests

\* Either the client goes on to the next tier or its call returns.
LEMMA NextTierShape ==
    ASSUME TypeOK, NEW c \in Clients, NEW l \in Locals, NEW last \in Tiers,
           NEW result \in Answers, NextTier(c, l, last, result)
    PROVE  /\ \/ /\ l.at < last
                 /\ local'[c] = [l EXCEPT !.at = l.at + 1]
                 /\ pc'[c] = pc[c] /\ call'[c] = call[c] /\ ret'[c] = ret[c]
              \/ /\ l.at >= last
                 /\ local'[c] = NoLocal
                 /\ pc'[c] = "idle" /\ call'[c] = NoCall /\ ret'[c] = result
           /\ \A d \in Clients \ {c} :
                 /\ pc'[d] = pc[d] /\ call'[d] = call[d]
                 /\ local'[d] = local[d] /\ ret'[d] = ret[d]
           /\ pc' \in [Clients -> Stages] /\ call' \in [Clients -> Requests \cup {NoCall}]
           /\ local' \in [Clients -> Locals] /\ ret' \in [Clients -> Answers]
<1>1. /\ pc \in [Clients -> Stages] /\ call \in [Clients -> Requests \cup {NoCall}]
      /\ local \in [Clients -> Locals] /\ ret \in [Clients -> Answers]
  BY DEF TypeOK
<1>2. l.at \in Tiers
  BY DEF Locals
<1>3. CASE l.at < last
  <2>1. /\ local' = [local EXCEPT ![c] = [l EXCEPT !.at = l.at + 1]]
        /\ UNCHANGED <<pc, call, ret>>
    BY <1>3 DEF NextTier
  <2>2. l.at + 1 \in Tiers
    BY <1>2, <1>3, MultiTierAssumption DEF Tiers
  <2>3. [l EXCEPT !.at = l.at + 1] \in Locals
    BY <2>2 DEF Locals
  <2>4. QED BY <1>1, <1>3, <2>1, <2>3
<1>4. CASE ~ (l.at < last)
  <2>1. Return(c, result)
    BY <1>4 DEF NextTier
  <2>2. NoLocal \in Locals
    BY MultiTierAssumption DEF NoLocal, Locals, Tiers
  <2>3. l.at >= last
    BY <1>2, <1>4, MultiTierAssumption DEF Tiers
  <2>4. "idle" \in Stages
    BY DEF Stages
  <2>5. QED BY <1>1, <2>1, <2>2, <2>3, <2>4 DEF Return
<1>5. QED BY <1>3, <1>4

-----------------------------------------------------------------------------
(* The type invariant *)

LEMMA TypeInit == Init => TypeOK
<1> SUFFICES ASSUME Init PROVE TypeOK
  OBVIOUS
<1>1. NoLocal \in Locals
  BY MultiTierAssumption DEF NoLocal, Locals, Tiers
<1>2. QED
  BY <1>1, MultiTierAssumption DEF Init, TypeOK, Stages, Answers

\* A visit after which the client goes on or returns keeps the types.
LEMMA VisitTypes ==
    ASSUME TypeOK, NEW c \in Clients, pc[c] # "idle", NEW l \in Locals,
           l.at = local[c].at, l.upto = local[c].upto, l.found = local[c].found,
           NEW last \in Tiers, pc[c] = "promote" => last = local[c].upto,
           NEW result \in Answers, NextTier(c, l, last, result),
           tiers' \in [Tiers -> [Keys -> Entries \cup {None}]],
           torn' \subseteq Keys, UNCHANGED <<calls, latest, raced>>
    PROVE  TypeOK'
<1>1. \/ /\ l.at < last
         /\ local'[c] = [l EXCEPT !.at = l.at + 1]
         /\ pc'[c] = pc[c] /\ call'[c] = call[c]
      \/ local'[c] = NoLocal /\ pc'[c] = "idle" /\ call'[c] = NoCall
  BY NextTierShape
<1>2. \A d \in Clients \ {c} :
         pc'[d] = pc[d] /\ call'[d] = call[d] /\ local'[d] = local[d]
  BY NextTierShape
<1>3. /\ pc' \in [Clients -> Stages] /\ call' \in [Clients -> Requests \cup {NoCall}]
      /\ local' \in [Clients -> Locals] /\ ret' \in [Clients -> Answers]
  BY NextTierShape
<1>4. \A d \in Clients :
         /\ pc'[d] = "idle" => call'[d] = NoCall /\ local'[d] = NoLocal
         /\ pc'[d] # "idle" =>
               call'[d] \in Requests
               /\ call'[d].op = IF pc'[d] = "promote" THEN "get" ELSE pc'[d]
  BY <1>1, <1>2 DEF TypeOK
<1>5. pc'[c] = "promote" => local'[c].at <= local'[c].upto /\ local'[c].found \in Values
  <2> SUFFICES ASSUME pc'[c] = "promote"
               PROVE  local'[c].at <= local'[c].upto /\ local'[c].found \in Values
    OBVIOUS
  <2>1. l.at < last /\ local'[c] = [l EXCEPT !.at = l.at + 1] /\ pc[c] = "promote"
    BY <1>1
  <2>2. l.at \in Int /\ l.upto \in Int /\ l.upto = last /\ l.found \in Values
    BY <2>1, MultiTierAssumption DEF TypeOK, Locals, Tiers
  <2>3. local'[c].at = l.at + 1 /\ local'[c].upto = l.upto /\ local'[c].found = l.found
    BY <2>1 DEF Locals
  <2>4. QED BY <2>1, <2>2, <2>3
<1>6. \A d \in Clients :
         pc'[d] = "promote" => local'[d].at <= local'[d].upto /\ local'[d].found \in Values
  BY <1>2, <1>5 DEF TypeOK
<1>7. /\ calls' \in 0 .. MaxCalls /\ latest' \in [Keys -> Values \cup {None}]
      /\ raced' \subseteq Keys
  BY DEF TypeOK
<1>8. QED BY <1>3, <1>4, <1>6, <1>7 DEF TypeOK

\* What every visit starts from.
LEMMA VisitStart ==
    ASSUME TypeOK, NEW c \in Clients, pc[c] # "idle"
    PROVE  /\ call[c] \in Requests /\ call[c].key \in Keys
           /\ call[c].op = IF pc[c] = "promote" THEN "get" ELSE pc[c]
           /\ call[c].op = "set" => call[c].value \in Values
           /\ local[c] \in Locals /\ local[c].at \in Tiers /\ NumTiers \in Tiers
           /\ Failed(local[c]) \in Locals /\ Failed(local[c]).at = local[c].at
           /\ Failed(local[c]).upto = local[c].upto
           /\ Failed(local[c]).found = local[c].found
           /\ Failed(local[c]).failed # {}
           /\ {None, "ok", "err", "present", "absent"} \subseteq Answers
           /\ \A l : Outcome(l) \in Answers
<1>1. call[c] \in Requests /\ local[c] \in Locals
  BY DEF TypeOK
<1>2. local[c].at \in Tiers /\ NumTiers \in Tiers
  BY <1>1, MultiTierAssumption DEF Locals, Tiers
<1>3. Failed(local[c]) = [local[c] EXCEPT !.failed = local[c].failed \cup {local[c].at}]
  BY DEF Failed
<1>4. local[c].failed \cup {local[c].at} \in SUBSET Tiers
  BY <1>1, <1>2 DEF Locals
<1>5. Failed(local[c]) \in Locals
  BY <1>1, <1>3, <1>4 DEF Locals
<1>6. /\ Failed(local[c]).at = local[c].at /\ Failed(local[c]).upto = local[c].upto
      /\ Failed(local[c]).found = local[c].found
      /\ Failed(local[c]).failed = local[c].failed \cup {local[c].at}
  BY <1>1, <1>3 DEF Locals
<1>7. QED BY <1>1, <1>2, <1>5, <1>6, CallShape DEF TypeOK, Answers, Outcome

LEMMA TypeVisit ==
    ASSUME TypeOK, NEW c \in Clients, VisitTier(c)
    PROVE  TypeOK'
<1> DEFINE i == local[c].at
           k == call[c].key
<1>0. pc[c] # "idle"
  BY DEF VisitTier, SetTier, DeleteTier, GetHit, GetMiss, GetError, Promote,
         ExistsHere, ExistsNotHere
<1>1. tiers \in [Tiers -> [Keys -> Entries \cup {None}]] /\ torn \subseteq Keys
  BY DEF TypeOK
<1> USE VisitStart, <1>0, <1>1
<1>2. CASE SetTier(c)
  <2>1. [value |-> call[c].value, life |-> "live"] \in Entries
    BY <1>2 DEF SetTier, Entries
  <2>2. tiers' \in [Tiers -> [Keys -> Entries \cup {None}]]
    BY <1>2, <2>1, PutShape, FailedPutShape DEF SetTier
  <2>3. torn' \subseteq Keys
    BY <1>2 DEF SetTier, WriteNext
  <2>4. /\ pc[c] = "set" /\ UNCHANGED <<calls, latest, raced>>
        /\ \/ NextTier(c, local[c], NumTiers, Outcome(local[c]))
           \/ NextTier(c, Failed(local[c]), NumTiers, Outcome(Failed(local[c])))
    BY <1>2 DEF SetTier, WriteNext
  <2>5. QED BY <2>2, <2>3, <2>4, VisitTypes
<1>3. CASE DeleteTier(c)
  <2>1. tiers' \in [Tiers -> [Keys -> Entries \cup {None}]]
    BY <1>3, PutShape DEF DeleteTier
  <2>2. torn' \subseteq Keys
    BY <1>3 DEF DeleteTier, WriteNext
  <2>3. /\ pc[c] = "delete" /\ UNCHANGED <<calls, latest, raced>>
        /\ \/ NextTier(c, local[c], NumTiers, Outcome(local[c]))
           \/ NextTier(c, Failed(local[c]), NumTiers, Outcome(Failed(local[c])))
    BY <1>3 DEF DeleteTier, WriteNext
  <2>4. QED BY <2>1, <2>2, <2>3, VisitTypes
<1>4. CASE GetHit(c)
  <2>1. tiers[i][k].value \in Values
    BY <1>4 DEF GetHit, Fresh, Holds, Entries
  <2>2. CASE i = 1
    <3>1. Return(c, tiers[i][k].value) /\ UNCHANGED <<tiers, calls, history>>
      BY <1>4, <2>2 DEF GetHit
    <3>2. NoLocal \in Locals
      BY MultiTierAssumption DEF NoLocal, Locals, Tiers
    <3>3. tiers[i][k].value \in Answers /\ "idle" \in Stages
      BY <2>1 DEF Answers, Stages
    <3>4. QED BY <3>1, <3>2, <3>3 DEF TypeOK, Return, history
  <2>3. CASE i # 1
    <3> DEFINE m == [local[c] EXCEPT !.at = 1, !.upto = i - 1,
                                     !.found = tiers[i][k].value]
    <3>1. /\ local' = [local EXCEPT ![c] = m]
          /\ pc' = [pc EXCEPT ![c] = "promote"]
          /\ pc[c] = "get"
          /\ UNCHANGED <<call, ret, tiers, calls, history>>
      BY <1>4, <2>3 DEF GetHit
    <3>2. i - 1 \in 0 .. NumTiers - 1 /\ 1 \in Tiers /\ 1 <= i - 1
      BY <2>3, MultiTierAssumption DEF Tiers
    <3>3. /\ m \in Locals /\ m.at = 1 /\ m.upto = i - 1
          /\ m.found = tiers[i][k].value
      BY <2>1, <3>2 DEF Locals
    <3>4. "promote" \in Stages
      BY DEF Stages
    <3> HIDE DEF m
    <3>5. QED
      BY <2>1, <3>1, <3>2, <3>3, <3>4 DEF TypeOK, history
  <2>4. QED BY <2>2, <2>3
<1>5. CASE GetMiss(c)
  <2>1. tiers' \in [Tiers -> [Keys -> Entries \cup {None}]]
    BY <1>5, PutShape DEF GetMiss
  <2>2. /\ pc[c] = "get" /\ UNCHANGED <<calls, history>>
        /\ NextTier(c, local[c], NumTiers, None)
    BY <1>5 DEF GetMiss
  <2>3. QED BY <2>1, <2>2, VisitTypes DEF history
<1>6. CASE GetError(c)
  <2>1. /\ pc[c] = "get" /\ UNCHANGED <<tiers, calls, history>>
        /\ NextTier(c, Failed(local[c]), NumTiers, None)
    BY <1>6 DEF GetError
  <2>2. QED BY <2>1, VisitTypes DEF history
<1>7. CASE Promote(c)
  <2>1. /\ pc[c] = "promote" /\ UNCHANGED <<calls, history>>
        /\ NextTier(c, local[c], local[c].upto, local[c].found)
    BY <1>7 DEF Promote
  <2>2. local[c].found \in Values /\ local[c].upto \in Tiers
    BY <2>1, MultiTierAssumption DEF TypeOK, Locals, Tiers
  <2>3. [value |-> local[c].found, life |-> "forever"] \in Entries
    BY <2>2 DEF Entries
  <2>4. tiers' \in [Tiers -> [Keys -> Entries \cup {None}]]
    BY <1>7, <2>3, PutShape, FailedPutShape DEF Promote
  <2>5. local[c].found \in Answers
    BY <2>2 DEF Answers
  <2>6. QED BY <2>1, <2>2, <2>4, <2>5, VisitTypes DEF history
<1>8. CASE ExistsHere(c)
  <2>1. Return(c, "present") /\ UNCHANGED <<tiers, calls, history>>
    BY <1>8 DEF ExistsHere
  <2>2. NoLocal \in Locals /\ "idle" \in Stages
    BY MultiTierAssumption DEF NoLocal, Locals, Tiers, Stages
  <2>3. QED BY <2>1, <2>2 DEF TypeOK, Return, history
<1>9. CASE ExistsNotHere(c)
  <2>1. /\ pc[c] = "exists" /\ UNCHANGED <<tiers, calls, history>>
        /\ NextTier(c, local[c], NumTiers, "absent")
    BY <1>9 DEF ExistsNotHere
  <2>2. QED BY <2>1, VisitTypes DEF history
<1>10. QED
  BY <1>2, <1>3, <1>4, <1>5, <1>6, <1>7, <1>8, <1>9 DEF VisitTier

LEMMA TypeBegin ==
    ASSUME TypeOK, NEW c \in Clients, Begin(c)
    PROVE  TypeOK'
<1>1. PICK r \in Requests : /\ call' = [call EXCEPT ![c] = r]
                            /\ pc' = [pc EXCEPT ![c] = r.op]
                            /\ RaceHistory(c, r)
  BY DEF Begin
<1>2. /\ pc[c] = "idle" /\ calls < MaxCalls /\ calls' = calls + 1
      /\ UNCHANGED <<tiers, local, ret>>
  BY DEF Begin
<1>3. r.op \in Stages /\ r.op # "idle" /\ r.op # "promote" /\ r.key \in Keys
  BY CallShape DEF Stages
<1>4. r.value \in Values \cup {None}
  BY CallShape
<1>5. /\ latest' \in [Keys -> Values \cup {None}]
      /\ raced' \subseteq Keys /\ torn' \subseteq Keys
  BY <1>1, <1>3, <1>4 DEF RaceHistory, TypeOK
<1>6. calls' \in 0 .. MaxCalls
  BY <1>2, MultiTierAssumption DEF TypeOK
<1>7. /\ pc' \in [Clients -> Stages]
      /\ call' \in [Clients -> Requests \cup {NoCall}]
  BY <1>1, <1>3 DEF TypeOK
<1>8. \A d \in Clients :
         /\ pc'[d] = "idle" => call'[d] = NoCall /\ local'[d] = NoLocal
         /\ pc'[d] # "idle" =>
               call'[d] \in Requests
               /\ call'[d].op = IF pc'[d] = "promote" THEN "get" ELSE pc'[d]
         /\ pc'[d] = "promote" =>
               local'[d].at <= local'[d].upto /\ local'[d].found \in Values
  BY <1>1, <1>2, <1>3 DEF TypeOK
<1>9. QED BY <1>2, <1>5, <1>6, <1>7, <1>8 DEF TypeOK

LEMMA TypeTier ==
    ASSUME TypeOK, NEW i \in Tiers, NEW k \in Keys, Expire(i, k) \/ Lose(i, k)
    PROVE  /\ TypeOK'
           /\ \A j \in Tiers, x \in Keys : Kept(j, x)
           /\ UNCHANGED <<pc, call, local, ret, calls, history>>
<1>1. tiers \in [Tiers -> [Keys -> Entries \cup {None}]]
  BY DEF TypeOK
<1>2. CASE Expire(i, k)
  <2> DEFINE e == [tiers[i][k] EXCEPT !.life = "expired"]
  <2>1. Put(i, k, e) /\ Holds(i, k)
    BY <1>2 DEF Expire
  <2>2. e \in Entries /\ e.value = tiers[i][k].value
    BY <1>1, <2>1 DEF Holds, Entries
  <2> HIDE DEF e
  <2>3. /\ tiers' \in [Tiers -> [Keys -> Entries \cup {None}]]
        /\ \A j \in Tiers, x \in Keys : Kept(j, x)
    BY <2>1, <2>2, PutShape DEF Dropped, Kept, Holds
  <2>4. UNCHANGED <<pc, call, local, ret, calls, history>>
    BY <1>2 DEF Expire
  <2>5. QED BY <2>3, <2>4 DEF TypeOK, history
<1>3. CASE Lose(i, k)
  <2>1. /\ tiers' \in [Tiers -> [Keys -> Entries \cup {None}]]
        /\ \A j \in Tiers, x \in Keys : Kept(j, x)
    BY <1>3, PutShape DEF Lose, Dropped, Kept
  <2>2. UNCHANGED <<pc, call, local, ret, calls, history>>
    BY <1>3 DEF Lose
  <2>3. QED BY <2>1, <2>2 DEF TypeOK, history
<1>4. QED BY <1>2, <1>3

LEMMA TypeNext == TypeOK /\ [Next]_vars => TypeOK'
<1> SUFFICES ASSUME TypeOK, [Next]_vars PROVE TypeOK'
  OBVIOUS
<1>1. CASE UNCHANGED vars
  BY <1>1 DEF vars, history, TypeOK
<1>2. CASE \E c \in Clients : Begin(c) \/ VisitTier(c)
  BY <1>2, TypeBegin, TypeVisit
<1>3. CASE \E i \in Tiers, k \in Keys : Expire(i, k) \/ Lose(i, k)
  BY <1>3, TypeTier
<1>4. QED
  BY <1>1, <1>2, <1>3 DEF Next, Finished

\* A client is always at a step of the call it is in, and a promotion always
\* has a value to copy and stops short of the tier that held it.
THEOREM TypeCorrect == Spec => []TypeOK
<1>1. QED BY TypeInit, TypeNext, PTL DEF Spec

-----------------------------------------------------------------------------
(* What a visit and a call leave behind *)

\* What every visit to a tier does, whatever the operation: it concerns one
\* client, and one tier's copy of one key unless it makes room for that copy.
LEMMA VisitShape ==
    ASSUME TypeOK, NEW c \in Clients, VisitTier(c)
    PROVE  /\ pc[c] # "idle"
           /\ \A j \in Tiers, x \in Keys :
                 (j # local[c].at \/ x # call[c].key) => Dropped(j, x)
           /\ UNCHANGED <<calls, latest, raced>>
           /\ \A d \in Clients \ {c} :
                 pc'[d] = pc[d] /\ call'[d] = call[d] /\ local'[d] = local[d]
           /\ call'[c] \in {call[c], NoCall}
           /\ pc'[c] = "idle" <=> call'[c] = NoCall
<1>0. pc[c] # "idle"
  BY DEF VisitTier, SetTier, DeleteTier, GetHit, GetMiss, GetError, Promote,
         ExistsHere, ExistsNotHere
<1>1. UNCHANGED <<calls, latest, raced>>
  BY DEF VisitTier, SetTier, DeleteTier, GetHit, GetMiss, GetError, Promote,
         ExistsHere, ExistsNotHere, history
<1>2. \A j \in Tiers, x \in Keys :
         (j # local[c].at \/ x # call[c].key) => Dropped(j, x)
  <2>1. CASE UNCHANGED tiers
    BY <2>1 DEF Dropped
  <2>2. CASE \E e \in Entries \cup {None} :
               \/ Put(local[c].at, call[c].key, e)
               \/ PutEvicting(local[c].at, call[c].key, e)
    BY <2>2, <1>0, PutShape, VisitStart
  <2>3. CASE FailedPut(local[c].at, call[c].key)
    BY <2>3, <1>0, FailedPutShape, VisitStart
  <2>4. pc[c] = "set" => [value |-> call[c].value, life |-> "live"] \in Entries
    BY <1>0, VisitStart DEF Entries
  <2>5. pc[c] = "promote" => [value |-> local[c].found, life |-> "forever"] \in Entries
    BY DEF TypeOK, Entries
  <2>6. QED
    BY <2>1, <2>2, <2>3, <2>4, <2>5
    DEF VisitTier, SetTier, DeleteTier, GetHit, GetMiss, GetError, Promote,
        ExistsHere, ExistsNotHere
<1>3. /\ pc \in [Clients -> Stages] /\ call \in [Clients -> Requests \cup {NoCall}]
      /\ local \in [Clients -> Locals]
  BY DEF TypeOK
<1>4. call[c] # NoCall /\ call[c] \in Requests
  BY <1>0, VisitStart, MultiTierAssumption DEF NoCall
<1>5. ASSUME NEW result, Return(c, result)
      PROVE  /\ \A d \in Clients \ {c} :
                   pc'[d] = pc[d] /\ call'[d] = call[d] /\ local'[d] = local[d]
             /\ call'[c] = NoCall /\ pc'[c] = "idle"
  BY <1>3, <1>5 DEF Return
<1>6. ASSUME NEW l, NEW last, NEW result, NextTier(c, l, last, result)
      PROVE  /\ \A d \in Clients \ {c} :
                   pc'[d] = pc[d] /\ call'[d] = call[d] /\ local'[d] = local[d]
             /\ call'[c] \in {call[c], NoCall}
             /\ pc'[c] = "idle" <=> call'[c] = NoCall
  <2>1. CASE l.at < last
    BY <1>0, <1>3, <1>4, <1>6, <2>1 DEF NextTier
  <2>2. CASE ~ (l.at < last)
    BY <1>5, <1>6, <2>2 DEF NextTier
  <2>3. QED BY <2>1, <2>2
<1>7. ASSUME NEW l, /\ local' = [local EXCEPT ![c] = l]
                    /\ pc' = [pc EXCEPT ![c] = "promote"]
                    /\ UNCHANGED call
      PROVE  /\ \A d \in Clients \ {c} :
                   pc'[d] = pc[d] /\ call'[d] = call[d] /\ local'[d] = local[d]
             /\ call'[c] \in {call[c], NoCall}
             /\ pc'[c] = "idle" <=> call'[c] = NoCall
  BY <1>3, <1>4, <1>7
<1>8. \/ \E result : Return(c, result)
      \/ \E l, last, result : NextTier(c, l, last, result)
      \/ \E l : /\ local' = [local EXCEPT ![c] = l]
                /\ pc' = [pc EXCEPT ![c] = "promote"]
                /\ UNCHANGED call
  BY DEF VisitTier, SetTier, DeleteTier, GetHit, GetMiss, GetError, Promote,
         ExistsHere, ExistsNotHere, WriteNext
<1>9. QED
  BY <1>0, <1>1, <1>2, <1>5, <1>6, <1>7, <1>8

\* What a call that reads does to the copy it visits.
LEMMA ReadEffect ==
    ASSUME TypeOK, NEW c \in Clients, VisitTier(c), pc[c] \in {"get", "exists", "promote"}
    PROVE  LET i == local[c].at  k == call[c].key IN
           /\ torn' = torn
           /\ \/ Dropped(i, k)
              \/ /\ pc[c] = "promote"
                 /\ tiers'[i][k] = [value |-> local[c].found, life |-> "forever"]
           /\ pc'[c] = "promote" =>
                 \/ pc[c] = "promote" /\ local'[c].found = local[c].found
                 \/ tiers[i][k] # None /\ local'[c].found = tiers[i][k].value
<1> DEFINE i == local[c].at
           k == call[c].key
<1>0. /\ i \in Tiers /\ k \in Keys /\ local[c] \in Locals /\ NumTiers \in Tiers
      /\ None \in Answers /\ "absent" \in Answers
      /\ tiers \in [Tiers -> [Keys -> Entries \cup {None}]]
      /\ pc \in [Clients -> Stages] /\ local \in [Clients -> Locals]
      /\ Failed(local[c]) \in Locals
  BY VisitStart DEF TypeOK
<1>1. torn' = torn
  BY DEF VisitTier, SetTier, DeleteTier, GetHit, GetMiss, GetError, Promote,
         ExistsHere, ExistsNotHere, history
<1>2. CASE GetHit(c)
  BY <1>0, <1>1, <1>2 DEF GetHit, Return, Dropped, Fresh, Holds, Locals
<1>3. CASE GetMiss(c)
  <2>1. Dropped(i, k)
    BY <1>0, <1>3, PutShape DEF GetMiss, Dropped
  <2>2. pc'[c] # "promote"
    BY <1>0, <1>3, NextTierShape DEF GetMiss
  <2>3. QED BY <1>1, <2>1, <2>2
<1>4. CASE GetError(c)
  <2>1. pc'[c] # "promote"
    BY <1>0, <1>4, NextTierShape DEF GetError
  <2>2. QED BY <1>1, <1>4, <2>1 DEF GetError, Dropped
<1>5. CASE Promote(c)
  <2>1. /\ pc[c] = "promote" /\ NextTier(c, local[c], local[c].upto, local[c].found)
        /\ \/ PutEvicting(i, k, [value |-> local[c].found, life |-> "forever"])
           \/ FailedPut(i, k)
    BY <1>5 DEF Promote
  <2>2. local[c].found \in Values /\ local[c].upto \in Tiers
    BY <2>1, MultiTierAssumption DEF TypeOK, Locals, Tiers
  <2>3. [value |-> local[c].found, life |-> "forever"] \in Entries
        /\ local[c].found \in Answers
    BY <2>2 DEF Entries, Answers
  <2>4. \/ Dropped(i, k)
        \/ tiers'[i][k] = [value |-> local[c].found, life |-> "forever"]
    BY <1>0, <2>1, <2>3, PutShape, FailedPutShape
  <2>5. pc'[c] = "promote" => local'[c].found = local[c].found
    <3>1. \/ local'[c] = [local[c] EXCEPT !.at = local[c].at + 1]
          \/ pc'[c] = "idle"
      BY <1>0, <2>1, <2>2, <2>3, NextTierShape
    <3>2. QED BY <1>0, <3>1 DEF Locals
  <2>6. QED BY <1>1, <2>1, <2>4, <2>5
<1>6. CASE ExistsHere(c)
  BY <1>0, <1>1, <1>6 DEF ExistsHere, Return, Dropped
<1>7. CASE ExistsNotHere(c)
  <2>1. pc'[c] # "promote"
    BY <1>0, <1>7, NextTierShape DEF ExistsNotHere
  <2>2. QED BY <1>1, <1>7, <2>1 DEF ExistsNotHere, Dropped
<1>8. QED
  BY <1>2, <1>3, <1>4, <1>5, <1>6, <1>7 DEF VisitTier, SetTier, DeleteTier

\* What a call that writes leaves in the tier it visits, and where it goes.
LEMMA WriteEffect ==
    ASSUME TypeOK, NEW c \in Clients, VisitTier(c), pc[c] \in {"set", "delete"}
    PROVE  LET i == local[c].at  k == call[c].key IN
           \E l \in Locals :
              /\ l.at = i /\ (l.failed = {} => local[c].failed = {})
              /\ \/ tiers'[i][k] = None
                 \/ /\ tiers'[i][k].value = call[c].value
                    /\ tiers'[i][k].life = "live"
                 \/ i \notin MemoryTiers /\ l.failed # {} /\ Dropped(i, k)
              /\ \/ /\ i < NumTiers /\ torn' = torn
                    /\ pc'[c] = pc[c] /\ call'[c] = call[c]
                    /\ local'[c].at = i + 1 /\ local'[c].failed = l.failed
                 \/ /\ i = NumTiers
                    /\ pc'[c] = "idle" /\ call'[c] = NoCall
                    /\ l.failed # {} => k \in torn'
                    /\ torn' \in {torn, torn \cup {k}}
<1> DEFINE i == local[c].at
           k == call[c].key
           Written == \/ tiers'[i][k] = None
                      \/ /\ tiers'[i][k].value = call[c].value
                         /\ tiers'[i][k].life = "live"
<1>0. /\ i \in Tiers /\ k \in Keys /\ local[c] \in Locals /\ NumTiers \in Tiers
      /\ Failed(local[c]) \in Locals /\ Failed(local[c]).at = i
      /\ Failed(local[c]).failed # {}
      /\ pc[c] # "idle"
  BY VisitStart
<1>1. \/ Written /\ WriteNext(c, local[c])
      \/ (Written \/ (i \notin MemoryTiers /\ Dropped(i, k))) /\ WriteNext(c, Failed(local[c]))
  <2>1. CASE SetTier(c)
    <3>1. [value |-> call[c].value, life |-> "live"] \in Entries
      BY <2>1, <1>0, VisitStart DEF SetTier, Entries
    <3>2. CASE PutEvicting(i, k, [value |-> call[c].value, life |-> "live"])
               /\ WriteNext(c, local[c])
      BY <1>0, <3>1, <3>2, PutShape
    <3>3. CASE FailedPut(i, k) /\ WriteNext(c, Failed(local[c]))
      <4>1. i \in MemoryTiers => tiers'[i][k] = None
        BY <1>0, <3>3, FailedPutShape
      <4>2. Dropped(i, k)
        BY <1>0, <3>3, FailedPutShape
      <4>3. QED BY <3>3, <4>1, <4>2
    <3>4. QED BY <2>1, <3>2, <3>3 DEF SetTier
  <2>2. CASE DeleteTier(c)
    <3>1. CASE Put(i, k, None) /\ WriteNext(c, local[c])
      BY <1>0, <3>1, PutShape
    <3>2. CASE i \notin MemoryTiers /\ WriteNext(c, Failed(local[c])) /\ UNCHANGED tiers
      BY <3>2 DEF Dropped
    <3>3. QED BY <2>2, <3>1, <3>2 DEF DeleteTier
  <2>3. QED
    BY <2>1, <2>2 DEF VisitTier, GetHit, GetMiss, GetError, Promote, ExistsHere,
                      ExistsNotHere
<1>2. ASSUME NEW l \in Locals, l.at = i, WriteNext(c, l)
      PROVE  \/ /\ i < NumTiers /\ torn' = torn
                /\ pc'[c] = pc[c] /\ call'[c] = call[c]
                /\ local'[c].at = i + 1 /\ local'[c].failed = l.failed
             \/ /\ i = NumTiers
                /\ pc'[c] = "idle" /\ call'[c] = NoCall
                /\ l.failed # {} => k \in torn'
                /\ torn' \in {torn, torn \cup {k}}
  <2>1. /\ NextTier(c, l, NumTiers, Outcome(l))
        /\ torn' = IF pc'[c] = "idle" /\ ret'[c] = "err" THEN torn \cup {k} ELSE torn
    BY <1>2 DEF WriteNext
  <2>2. Outcome(l) \in Answers /\ (l.failed # {} => Outcome(l) = "err")
    BY DEF Outcome, Answers
  <2>3. \/ /\ l.at < NumTiers
           /\ local'[c] = [l EXCEPT !.at = l.at + 1]
           /\ pc'[c] = pc[c] /\ call'[c] = call[c]
        \/ /\ l.at >= NumTiers
           /\ pc'[c] = "idle" /\ call'[c] = NoCall /\ ret'[c] = Outcome(l)
    BY <1>0, <2>1, <2>2, NextTierShape
  <2>4. l.at >= NumTiers => i = NumTiers
    BY <1>0, <1>2, MultiTierAssumption DEF Tiers
  <2>5. [l EXCEPT !.at = l.at + 1].at = l.at + 1
        /\ [l EXCEPT !.at = l.at + 1].failed = l.failed
    BY DEF Locals
  <2>6. QED BY <1>0, <1>2, <2>1, <2>2, <2>3, <2>4, <2>5
<1>3. QED BY <1>0, <1>1, <1>2

-----------------------------------------------------------------------------
(* Time-to-live in the slowest tier *)

LEMMA NoForeverKept ==
    ASSUME TypeOK, NEW i \in Tiers, NEW k \in Keys, Expire(i, k) \/ Lose(i, k),
           SlowestTierExpires
    PROVE  SlowestTierExpires'
<1>1. tiers \in [Tiers -> [Keys -> Entries \cup {None}]] /\ NumTiers \in Tiers
  BY MultiTierAssumption DEF TypeOK, Tiers
<1>2. CASE Expire(i, k)
  <2> DEFINE e == [tiers[i][k] EXCEPT !.life = "expired"]
  <2>1. tiers' = [tiers EXCEPT ![i][k] = e] /\ tiers[i][k] # None
    BY <1>2 DEF Expire, Put, Holds
  <2>2. e.life = "expired"
    BY <1>1, <2>1 DEF Entries
  <2> HIDE DEF e
  <2>3. QED BY <1>1, <2>1, <2>2 DEF SlowestTierExpires, Holds
<1>3. CASE Lose(i, k)
  <2>1. tiers' = [tiers EXCEPT ![i][k] = None]
    BY <1>3 DEF Lose, Put
  <2>2. QED BY <1>1, <2>1 DEF SlowestTierExpires, Holds
<1>4. QED BY <1>2, <1>3

LEMMA SlowestVisit ==
    ASSUME TypeOK, NEW c \in Clients, VisitTier(c), SlowestTierExpires
    PROVE  SlowestTierExpires'
<1> SUFFICES ASSUME NEW k \in Keys, tiers'[NumTiers][k] # None
             PROVE  tiers'[NumTiers][k].life # "forever"
  BY DEF SlowestTierExpires, Holds
<1>1. NumTiers \in Tiers /\ pc[c] # "idle" /\ pc[c] \in Stages
  BY VisitShape, MultiTierAssumption DEF Tiers, TypeOK
<1>2. Dropped(NumTiers, k) => tiers'[NumTiers][k].life # "forever"
  BY DEF Dropped, SlowestTierExpires, Holds
<1>3. CASE local[c].at # NumTiers \/ call[c].key # k
  BY <1>1, <1>2, <1>3, VisitShape
<1>4. CASE local[c].at = NumTiers /\ call[c].key = k /\ pc[c] \in {"get", "exists"}
  BY <1>2, <1>4, ReadEffect
<1>5. CASE local[c].at = NumTiers /\ pc[c] = "promote"
  BY <1>5, MultiTierAssumption DEF TypeOK, Locals
<1>6. CASE local[c].at = NumTiers /\ call[c].key = k /\ pc[c] \in {"set", "delete"}
  BY <1>2, <1>6, WriteEffect
<1>7. QED BY <1>1, <1>3, <1>4, <1>5, <1>6 DEF Stages

\* In the slowest tier every entry expires, whatever the tiers lose and
\* however promotions and writes interleave.
THEOREM SlowestExpires == Spec => []SlowestTierExpires
<1>1. Init => SlowestTierExpires
  BY MultiTierAssumption DEF Init, SlowestTierExpires, Holds, Tiers
<1>2. TypeOK /\ SlowestTierExpires /\ [Next]_vars => SlowestTierExpires'
  <2> SUFFICES ASSUME TypeOK, SlowestTierExpires, [Next]_vars
               PROVE  SlowestTierExpires'
    OBVIOUS
  <2>1. CASE UNCHANGED tiers
    BY <2>1 DEF SlowestTierExpires, Holds
  <2>2. CASE \E c \in Clients : VisitTier(c)
    BY <2>2, SlowestVisit
  <2>3. CASE \E i \in Tiers, k \in Keys : Expire(i, k) \/ Lose(i, k)
    BY <2>3, NoForeverKept
  <2>4. QED BY <2>1, <2>2, <2>3 DEF Next, Begin, Finished, vars
<1>3. QED BY <1>1, <1>2, TypeCorrect, PTL DEF Spec

-----------------------------------------------------------------------------
(* Agreement of the tiers *)

\* The keys whose copies must agree between writes: the last write overlapped
\* no call and, unless every tier drops what it fails to replace, returned ok.
Trusted(k) == k \notin raced /\ (MemoryTiers = Tiers \/ k \notin torn)

Current(i, k) == Holds(i, k) => tiers[i][k].value = latest[k]

\* No call is in progress on a key that is being written without a race.
OneWriter ==
    \A k \in Keys \ raced, c \in Clients :
        Writing(c, k) => \A d \in Clients \ {c} : call[d].key # k

\* Between writes the copies of a key are current, and so is any value on its
\* way to a faster tier.
Agreement ==
    \A k \in Keys : Trusted(k) /\ ~ BeingWritten(k) =>
        /\ \A i \in Tiers : Current(i, k)
        /\ \A c \in Clients :
              pc[c] = "promote" /\ call[c].key = k => local[c].found = latest[k]

\* A write has brought up to date the tiers it has been to.
Progress ==
    \A k \in Keys \ raced, c \in Clients : Writing(c, k) =>
        /\ latest[k] = call[c].value
        /\ MemoryTiers = Tiers \/ local[c].failed = {} =>
              \A i \in Tiers : i < local[c].at => Current(i, k)

AgreementInv == OneWriter /\ Agreement /\ Progress

LEMMA AgreementBegin ==
    ASSUME TypeOK, AgreementInv, NEW c \in Clients, Begin(c)
    PROVE  AgreementInv'
<1>1. PICK r \in Requests : /\ call' = [call EXCEPT ![c] = r]
                            /\ pc' = [pc EXCEPT ![c] = r.op]
                            /\ RaceHistory(c, r)
  BY DEF Begin
<1>2. pc[c] = "idle" /\ call[c] = NoCall /\ local[c] = NoLocal
      /\ UNCHANGED <<tiers, local>>
  BY DEF Begin, TypeOK
<1>3. r.key \in Keys /\ r.op \in {"set", "get", "delete", "exists"}
  BY CallShape
<1>4. /\ \A d \in Clients \ {c} : call'[d] = call[d] /\ pc'[d] = pc[d]
      /\ call'[c] = r /\ pc'[c] = r.op
  BY <1>1 DEF TypeOK
<1>5. \A k \in Keys : ~ Writing(c, k) /\ call[c].key # k
  BY <1>2, MultiTierAssumption DEF Writing, NoCall
<1>6. \A k \in Keys \ {r.key} :
         /\ latest'[k] = latest[k] /\ (k \in raced' <=> k \in raced)
         /\ (k \in torn' <=> k \in torn)
         /\ \A d \in Clients : Writing(d, k)' <=> Writing(d, k)
  <2>1. \A k \in Keys \ {r.key} :
           /\ latest'[k] = latest[k] /\ (k \in raced' <=> k \in raced)
           /\ (k \in torn' <=> k \in torn)
    BY <1>1, <1>3 DEF RaceHistory, TypeOK
  <2>2. QED BY <2>1, <1>4, <1>5 DEF Writing
<1>7. \A d \in Clients \ {c} : Writing(d, r.key)' <=> Writing(d, r.key)
  BY <1>4 DEF Writing
<1>8. CASE r.op \in {"get", "exists"}
  <2>1. /\ UNCHANGED <<latest, torn>>
        /\ r.key \notin raced' =>
              r.key \notin raced /\ \A d \in Clients \ {c} : ~ Writing(d, r.key)
    BY <1>1, <1>8 DEF RaceHistory, Others, Writing
  <2>2. ~ Writing(c, r.key)'
    BY <1>4, <1>8 DEF Writing
  <2>3. OneWriter'
    BY <1>4, <1>5, <1>6, <1>7, <2>1, <2>2 DEF AgreementInv, OneWriter
  <2>4. Agreement'
    <3> SUFFICES ASSUME NEW k \in Keys, Trusted(k)', ~ BeingWritten(k)'
                 PROVE  /\ \A i \in Tiers : Current(i, k)'
                        /\ \A d \in Clients : pc'[d] = "promote" /\ call'[d].key = k
                              => local'[d].found = latest'[k]
      BY DEF Agreement
    <3>1. Trusted(k) /\ ~ BeingWritten(k)
      BY <1>5, <1>6, <1>7, <2>1 DEF Trusted, BeingWritten
    <3>2. QED
      BY <1>2, <1>3, <1>4, <2>1, <3>1 DEF AgreementInv, Agreement, Current, Holds
  <2>5. Progress'
    BY <1>2, <1>4, <1>5, <1>6, <1>7, <2>1, <2>2
    DEF AgreementInv, Progress, Current, Holds
  <2>6. QED BY <2>3, <2>4, <2>5 DEF AgreementInv
<1>9. CASE r.op \in {"set", "delete"}
  <2>1. /\ latest'[r.key] = r.value
        /\ r.key \notin raced' => \A d \in Clients \ {c} : call[d].key # r.key
    BY <1>1, <1>3, <1>9 DEF RaceHistory, Others, TypeOK
  <2>2. Writing(c, r.key)'
    BY <1>4, <1>9 DEF Writing
  <2>3. \A d \in Clients \ {c} : r.key \notin raced' => ~ Writing(d, r.key)'
    BY <1>4, <2>1 DEF Writing
  <2>4. OneWriter'
    BY <1>4, <1>5, <1>6, <2>1, <2>2, <2>3 DEF AgreementInv, OneWriter
  <2>5. Agreement'
    <3> SUFFICES ASSUME NEW k \in Keys, Trusted(k)', ~ BeingWritten(k)'
                 PROVE  /\ \A i \in Tiers : Current(i, k)'
                        /\ \A d \in Clients : pc'[d] = "promote" /\ call'[d].key = k
                              => local'[d].found = latest'[k]
      BY DEF Agreement
    <3>1. k # r.key
      BY <2>2 DEF BeingWritten
    <3>2. Trusted(k) /\ ~ BeingWritten(k) /\ latest'[k] = latest[k]
      BY <1>6, <3>1 DEF Trusted, BeingWritten
    <3>3. QED
      BY <1>2, <1>3, <1>4, <3>1, <3>2 DEF AgreementInv, Agreement, Current, Holds
  <2>6. Progress'
    <3> SUFFICES ASSUME NEW k \in Keys \ raced', NEW d \in Clients, Writing(d, k)'
                 PROVE  /\ latest'[k] = call'[d].value
                        /\ MemoryTiers = Tiers \/ local'[d].failed = {} =>
                              \A i \in Tiers : i < local'[d].at => Current(i, k)'
      BY DEF Progress
    <3>1. CASE k = r.key
      <4>1. d = c
        BY <2>3, <3>1
      <4>2. local'[d].at = 1
        BY <1>2, <4>1 DEF NoLocal
      <4>3. \A i \in Tiers : ~ (i < 1)
        BY MultiTierAssumption DEF Tiers
      <4>4. QED BY <1>4, <2>1, <3>1, <4>1, <4>2, <4>3
    <3>2. CASE k # r.key
      BY <1>2, <1>4, <1>5, <1>6, <3>2 DEF AgreementInv, Progress, Current, Holds
    <3>3. QED BY <3>1, <3>2
  <2>7. QED BY <2>4, <2>5, <2>6 DEF AgreementInv
<1>10. QED BY <1>3, <1>8, <1>9

LEMMA AgreementTier ==
    ASSUME TypeOK, AgreementInv, NEW i \in Tiers, NEW k \in Keys,
           Expire(i, k) \/ Lose(i, k)
    PROVE  AgreementInv'
<1>1. /\ \A j \in Tiers, x \in Keys : Current(j, x) => Current(j, x)'
      /\ UNCHANGED <<pc, call, local, history>>
  BY TypeTier DEF Kept, Current, Holds, history
<1>2. QED
  BY <1>1 DEF AgreementInv, OneWriter, Agreement, Progress, Trusted, BeingWritten,
              Writing, history

\* A visit makes no other copy outdated, and concerns no other key.
LEMMA VisitElsewhere ==
    ASSUME TypeOK, NEW c \in Clients, VisitTier(c)
    PROVE  /\ \A j \in Tiers, x \in Keys :
                 j # local[c].at \/ x # call[c].key => (Current(j, x) => Current(j, x)')
           /\ \A x \in Keys, d \in Clients :
                 d # c \/ x # call[c].key => (Writing(d, x)' <=> Writing(d, x))
           /\ \A x \in Keys, d \in Clients :
                 /\ Writing(d, x)' => Writing(d, x)
                 /\ call'[d].key = x => call[d].key = x
           /\ \A x \in Keys : x # call[c].key => (x \in torn' <=> x \in torn)
           /\ torn \subseteq torn' /\ call[c].key \in Keys
<1>1. /\ \A j \in Tiers, x \in Keys :
            (j # local[c].at \/ x # call[c].key) => Dropped(j, x)
      /\ UNCHANGED <<latest, raced>>
      /\ \A d \in Clients \ {c} : call'[d] = call[d]
      /\ call'[c] \in {call[c], NoCall} /\ pc[c] # "idle" /\ pc[c] \in Stages
  BY VisitShape DEF TypeOK
<1>2. \A x \in Keys : NoCall.key # x
  BY MultiTierAssumption DEF NoCall
<1>3. /\ \A x \in Keys : x # call[c].key => (x \in torn' <=> x \in torn)
      /\ torn \subseteq torn'
  <2>1. CASE pc[c] \in {"get", "exists", "promote"}
    BY <2>1, ReadEffect
  <2>2. CASE pc[c] \in {"set", "delete"}
    BY <2>2, WriteEffect
  <2>3. QED BY <1>1, <2>1, <2>2 DEF Stages
<1>4. QED
  BY <1>1, <1>2, <1>3, VisitStart DEF Dropped, Current, Holds, Writing

LEMMA AgreementRead ==
    ASSUME TypeOK, AgreementInv, NEW c \in Clients, VisitTier(c),
           pc[c] \in {"get", "exists", "promote"}
    PROVE  AgreementInv'
<1>0. PICK i \in Tiers, k \in Keys : i = local[c].at /\ k = call[c].key
  BY VisitShape, VisitStart
<1>1. /\ UNCHANGED <<latest, raced, torn>> /\ pc[c] # "idle"
      /\ \A d \in Clients \ {c} :
            pc'[d] = pc[d] /\ call'[d] = call[d] /\ local'[d] = local[d]
      /\ call'[c] \in {call[c], NoCall}
  BY VisitShape, ReadEffect
<1>2. \A x \in Keys : ~ Writing(c, x) /\ ~ Writing(c, x)'
  BY <1>1, VisitStart, VisitElsewhere DEF Writing
<1>3. \A x \in Keys : /\ BeingWritten(x)' <=> BeingWritten(x)
                      /\ Trusted(x)' <=> Trusted(x)
  BY <1>1, <1>2, VisitElsewhere DEF BeingWritten, Trusted
<1>4. OneWriter'
  BY <1>1, VisitElsewhere DEF AgreementInv, OneWriter
<1>5. k \notin raced => ~ BeingWritten(k)
  BY <1>0, <1>2, <1>1 DEF AgreementInv, OneWriter, BeingWritten
<1>6. ASSUME Trusted(k)
      PROVE  /\ Current(i, k)'
             /\ pc'[c] = "promote" => local'[c].found = latest[k]
  <2>1. /\ i \in Tiers /\ k \in Keys /\ Current(i, k)
        /\ pc[c] = "promote" => local[c].found = latest[k]
    BY <1>0, <1>5, <1>6 DEF AgreementInv, Agreement, Trusted
  <2>2. Current(i, k)'
    <3>1. \/ tiers'[i][k] \in {None, tiers[i][k]}
          \/ /\ pc[c] = "promote"
             /\ tiers'[i][k] = [value |-> local[c].found, life |-> "forever"]
      BY <1>0, ReadEffect DEF Dropped
    <3>2. QED BY <1>1, <2>1, <3>1 DEF Current, Holds
  <2>3. pc'[c] = "promote" => local'[c].found = latest[k]
    BY <1>0, <2>1, ReadEffect DEF Current, Holds
  <2>4. QED BY <2>2, <2>3
<1>7. Agreement'
  <2> SUFFICES ASSUME NEW x \in Keys, Trusted(x)', ~ BeingWritten(x)'
               PROVE  /\ \A j \in Tiers : Current(j, x)'
                      /\ \A d \in Clients : pc'[d] = "promote" /\ call'[d].key = x
                            => local'[d].found = latest'[x]
    BY DEF Agreement
  <2>1. /\ \A j \in Tiers : Current(j, x)
        /\ \A d \in Clients : pc[d] = "promote" /\ call[d].key = x
              => local[d].found = latest[x]
    BY <1>3 DEF AgreementInv, Agreement
  <2>2. \A j \in Tiers : Current(j, x)'
    BY <1>0, <1>3, <1>6, <2>1, VisitElsewhere
  <2>3. \A d \in Clients \ {c} : pc'[d] = "promote" /\ call'[d].key = x
              => local'[d].found = latest'[x]
    BY <1>1, <2>1
  <2>4. pc'[c] = "promote" /\ call'[c].key = x => local'[c].found = latest'[x]
    BY <1>0, <1>1, <1>3, <1>6, VisitElsewhere
  <2>5. QED BY <2>2, <2>3, <2>4
<1>8. Progress'
  <2> SUFFICES ASSUME NEW x \in Keys \ raced', NEW d \in Clients, Writing(d, x)'
               PROVE  /\ latest'[x] = call'[d].value
                      /\ MemoryTiers = Tiers \/ local'[d].failed = {} =>
                            \A j \in Tiers : j < local'[d].at => Current(j, x)'
    BY DEF Progress
  <2>1. d # c /\ Writing(d, x) /\ x \notin raced
    BY <1>1, <1>2, VisitElsewhere
  <2>2. x # k
    BY <1>0, <2>1 DEF AgreementInv, OneWriter
  <2>3. QED
    BY <1>0, <1>1, <2>1, <2>2, VisitElsewhere DEF AgreementInv, Progress
<1>9. QED BY <1>4, <1>7, <1>8 DEF AgreementInv

LEMMA AgreementWrite ==
    ASSUME TypeOK, AgreementInv, NEW c \in Clients, VisitTier(c),
           pc[c] \in {"set", "delete"}
    PROVE  AgreementInv'
<1>0. PICK i \in Tiers, k \in Keys : i = local[c].at /\ k = call[c].key
  BY VisitShape, VisitStart
<1>1. /\ UNCHANGED <<latest, raced>> /\ pc[c] # "idle"
      /\ \A d \in Clients \ {c} :
            pc'[d] = pc[d] /\ call'[d] = call[d] /\ local'[d] = local[d]
      /\ call'[c] \in {call[c], NoCall}
      /\ pc'[c] = "idle" <=> call'[c] = NoCall
  BY VisitShape
<1>2. /\ Writing(c, k) /\ local[c] \in Locals /\ call[c] # NoCall
      /\ call[c].op = pc[c] /\ (call[c].op = "delete" => call[c].value = None)
      /\ (call[c].op = "set" => call[c].value \in Values)
  BY <1>0, <1>1, VisitStart, CallShape, MultiTierAssumption DEF Writing, NoCall
<1>3. PICK l \in Locals :
         /\ l.at = i /\ (l.failed = {} => local[c].failed = {})
         /\ \/ tiers'[i][k] = None
            \/ tiers'[i][k].value = call[c].value /\ tiers'[i][k].life = "live"
            \/ i \notin MemoryTiers /\ l.failed # {} /\ Dropped(i, k)
         /\ \/ /\ i < NumTiers /\ torn' = torn
               /\ pc'[c] = pc[c] /\ call'[c] = call[c]
               /\ local'[c].at = i + 1 /\ local'[c].failed = l.failed
            \/ /\ i = NumTiers
               /\ pc'[c] = "idle" /\ call'[c] = NoCall
               /\ l.failed # {} => k \in torn'
               /\ torn' \in {torn, torn \cup {k}}
  BY <1>0, WriteEffect
<1>4. OneWriter'
  BY <1>1, VisitElsewhere DEF AgreementInv, OneWriter
<1>5. ASSUME k \notin raced, MemoryTiers = Tiers \/ l.failed = {}
      PROVE  \A j \in Tiers : j <= i => Current(j, k)'
  <2>1. latest[k] = call[c].value /\ \A j \in Tiers : j < i => Current(j, k)
    BY <1>0, <1>2, <1>3, <1>5 DEF AgreementInv, Progress
  <2>2. \/ tiers'[i][k] = None
        \/ tiers'[i][k].value = call[c].value
    BY <1>0, <1>3, <1>5
  <2>3. Current(i, k)'
    BY <1>1, <2>1, <2>2 DEF Current, Holds
  <2>4. \A j \in Tiers : j <= i => j < i \/ j = i
    BY MultiTierAssumption DEF Tiers
  <2>5. QED BY <1>0, <2>1, <2>3, <2>4, VisitElsewhere
<1>6. Agreement'
  <2> SUFFICES ASSUME NEW x \in Keys, Trusted(x)', ~ BeingWritten(x)'
               PROVE  /\ \A j \in Tiers : Current(j, x)'
                      /\ \A d \in Clients : pc'[d] = "promote" /\ call'[d].key = x
                            => local'[d].found = latest'[x]
    BY DEF Agreement
  <2>0. pc'[c] # "promote"
    BY <1>3
  <2>1. CASE x # k
    <3>1. Trusted(x) /\ ~ BeingWritten(x)
      BY <1>0, <1>1, <2>1, VisitElsewhere DEF Trusted, BeingWritten
    <3>2. QED
      BY <1>0, <1>1, <2>0, <2>1, <3>1, VisitElsewhere DEF AgreementInv, Agreement
  <2>2. CASE x = k
    <3>1. call'[c] = NoCall
      BY <1>1, <1>2, <2>2 DEF BeingWritten, Writing
    <3>2. i = NumTiers /\ (l.failed # {} => k \in torn')
      BY <1>1, <1>2, <1>3, <3>1
    <3>3. k \notin raced /\ (MemoryTiers = Tiers \/ l.failed = {})
      BY <1>1, <2>2, <3>2 DEF Trusted
    <3>4. \A j \in Tiers : j <= i
      BY <1>0, <3>2, MultiTierAssumption DEF Tiers
    <3>5. \A d \in Clients \ {c} : call'[d].key # k
      BY <1>1, <1>2, <3>3 DEF AgreementInv, OneWriter
    <3>6. QED BY <1>5, <2>0, <2>2, <3>3, <3>4, <3>5
  <2>3. QED BY <2>1, <2>2
<1>7. Progress'
  <2> SUFFICES ASSUME NEW x \in Keys \ raced', NEW d \in Clients, Writing(d, x)'
               PROVE  /\ latest'[x] = call'[d].value
                      /\ MemoryTiers = Tiers \/ local'[d].failed = {} =>
                            \A j \in Tiers : j < local'[d].at => Current(j, x)'
    BY DEF Progress
  <2>1. Writing(d, x) /\ x \notin raced
    BY <1>1, VisitElsewhere
  <2>2. CASE d # c
    <3>1. x # k
      BY <1>0, <2>1, <2>2 DEF AgreementInv, OneWriter
    <3>2. QED BY <1>0, <1>1, <2>1, <2>2, <3>1, VisitElsewhere DEF AgreementInv, Progress
  <2>3. CASE d = c
    <3>1. x = k /\ call'[c] = call[c]
      BY <1>0, <1>1, <2>1, <2>3, MultiTierAssumption DEF Writing, NoCall
    <3>2. local'[c].at = i + 1 /\ local'[c].failed = l.failed
      BY <1>2, <1>3, <3>1
    <3>3. latest[k] = call[c].value
      BY <1>2, <2>1, <3>1 DEF AgreementInv, Progress
    <3>4. \A j \in Tiers : j < i + 1 => j <= i
      BY MultiTierAssumption DEF Tiers
    <3>5. QED BY <1>1, <1>5, <2>1, <2>3, <3>1, <3>2, <3>3, <3>4
  <2>4. QED BY <2>2, <2>3
<1>8. QED BY <1>4, <1>6, <1>7 DEF AgreementInv

LEMMA AgreementInductive ==
    ASSUME TypeOK, AgreementInv, [Next]_vars
    PROVE  AgreementInv'
<1>1. CASE UNCHANGED vars
  BY <1>1 DEF vars, history, AgreementInv, OneWriter, Agreement, Progress, Trusted,
              BeingWritten, Writing, Current, Holds
<1>2. CASE \E c \in Clients : Begin(c)
  BY <1>2, AgreementBegin
<1>3. ASSUME NEW c \in Clients, VisitTier(c) PROVE AgreementInv'
  <2>1. pc[c] \in {"get", "exists", "promote"} \/ pc[c] \in {"set", "delete"}
    BY <1>3, VisitShape DEF TypeOK, Stages
  <2>2. QED BY <1>3, <2>1, AgreementRead, AgreementWrite
<1>4. CASE \E i \in Tiers, k \in Keys : Expire(i, k) \/ Lose(i, k)
  BY <1>4, AgreementTier
<1>5. QED BY <1>1, <1>2, <1>3, <1>4 DEF Next, Finished

LEMMA AgreementInit == Init => AgreementInv
<1> SUFFICES ASSUME Init PROVE AgreementInv
  OBVIOUS
<1>1. \A k \in Keys, c \in Clients : ~ Writing(c, k) /\ pc[c] # "promote"
  BY MultiTierAssumption DEF Init, Writing, NoCall
<1>2. \A i \in Tiers, k \in Keys : Current(i, k)
  BY DEF Init, Current, Holds
<1>3. QED BY <1>1, <1>2 DEF AgreementInv, OneWriter, Agreement, Progress

LEMMA AgreementAlways == Spec => [](TypeOK /\ AgreementInv)
<1>1. TypeOK /\ AgreementInv /\ [Next]_vars => (TypeOK /\ AgreementInv)'
  BY AgreementInductive, TypeNext
<1>2. QED BY TypeInit, AgreementInit, <1>1, PTL DEF Spec

\* As long as the last write of a key returned ok and overlapped no call on
\* it, no tier holds an outdated value of it.
THEOREM AcknowledgedAgreement == Spec => []AcknowledgedAgree
<1>1. AgreementInv => AcknowledgedAgree
  BY DEF AgreementInv, Agreement, Trusted, Current, AcknowledgedAgree
<1>2. QED BY <1>1, AgreementAlways, PTL

\* When every tier is a MemoryCache a write need not even succeed.
THEOREM MemoryAgreement ==
    ASSUME MemoryTiers = Tiers
    PROVE  Spec => []TiersAgree
<1>1. AgreementInv => TiersAgree
  BY DEF AgreementInv, Agreement, Trusted, Current, TiersAgree
<1>2. QED BY <1>1, AgreementAlways, PTL

-----------------------------------------------------------------------------
(* What the calls that read answer *)

LEMMA AnswerOfVisit ==
    ASSUME TypeOK, AgreementInv, MemoryTiers = Tiers, NEW c \in Clients, VisitTier(c),
           pc[c] \in {"get", "promote", "exists"}, pc'[c] = "idle",
           call[c].key \notin raced, ~ BeingWritten(call[c].key)
    PROVE  \/ ret'[c] \in {None, "absent", latest[call[c].key]}
           \/ ret'[c] = "present" /\ latest[call[c].key] # None
<1>0. PICK i \in Tiers, k \in Keys : i = local[c].at /\ k = call[c].key
  BY VisitShape, VisitStart
<1>1. /\ Current(i, k)
      /\ pc[c] = "promote" => local[c].found = latest[k]
  BY <1>0 DEF AgreementInv, Agreement, Trusted
<1>2. Fresh(i, k) => tiers[i][k].value = latest[k] /\ tiers[i][k].value \in Values
  BY <1>1 DEF Fresh, Holds, Current, TypeOK, Entries
<1>3. /\ local[c] \in Locals /\ NumTiers \in Tiers /\ Failed(local[c]) \in Locals
      /\ None \in Answers /\ "absent" \in Answers
      /\ pc \in [Clients -> Stages] /\ ret \in [Clients -> Answers]
  BY VisitShape, VisitStart DEF TypeOK
<1>4. ASSUME NEW result, Return(c, result) PROVE ret'[c] = result
  BY <1>3, <1>4 DEF Return
<1>5. ASSUME NEW l \in Locals, NEW last \in Tiers, NEW result \in Answers,
             NextTier(c, l, last, result)
      PROVE  ret'[c] = result
  <2>1. pc[c] # "idle"
    BY VisitShape
  <2>2. QED BY <1>5, <2>1, NextTierShape
<1>6. CASE GetHit(c)
  <2>1. Fresh(i, k)
    BY <1>0, <1>6 DEF GetHit
  <2>2. CASE i = 1
    BY <1>0, <1>2, <1>4, <1>6, <2>1, <2>2 DEF GetHit
  <2>3. CASE i # 1
    BY <1>0, <1>3, <1>6, <2>3 DEF GetHit
  <2>4. QED BY <2>2, <2>3
<1>7. CASE GetMiss(c) \/ GetError(c)
  BY <1>3, <1>5, <1>7 DEF GetMiss, GetError
<1>8. CASE Promote(c)
  <2>1. pc[c] = "promote" /\ NextTier(c, local[c], local[c].upto, local[c].found)
    BY <1>8 DEF Promote
  <2>2. local[c].found \in Answers /\ local[c].upto \in Tiers
    BY <2>1, MultiTierAssumption DEF TypeOK, Locals, Tiers, Answers
  <2>3. QED BY <1>0, <1>1, <1>3, <1>5, <2>1, <2>2
<1>9. CASE ExistsHere(c)
  <2>1. Fresh(i, k) /\ Return(c, "present")
    BY <1>0, <1>9 DEF ExistsHere
  <2>2. QED BY <1>0, <1>2, <1>4, <2>1, MultiTierAssumption
<1>10. CASE ExistsNotHere(c)
  BY <1>3, <1>5, <1>10 DEF ExistsNotHere
<1>11. QED
  BY <1>6, <1>7, <1>8, <1>9, <1>10 DEF VisitTier, SetTier, DeleteTier

\* When every tier is a MemoryCache, a get that overlaps no write of its key
\* returns the value last written or nothing, and an exists finds no deleted key.
THEOREM CurrentAnswers ==
    ASSUME MemoryTiers = Tiers
    PROVE  Spec => AnswersAreCurrent
<1> DEFINE A == \A c \in Clients : LET k == call[c].key IN
              (pc[c] \in {"get", "promote", "exists"} /\ pc'[c] = "idle"
                  /\ k \notin raced /\ ~ BeingWritten(k)) =>
              \/ ret'[c] \in {None, "absent", latest[k]}
              \/ ret'[c] = "present" /\ latest[k] # None
<1>1. ASSUME TypeOK, AgreementInv, [Next]_vars
      PROVE  [A]_vars
  <2> SUFFICES ASSUME Next, NEW c \in Clients, pc[c] \in {"get", "promote", "exists"},
                      pc'[c] = "idle", call[c].key \notin raced,
                      ~ BeingWritten(call[c].key)
               PROVE  \/ ret'[c] \in {None, "absent", latest[call[c].key]}
                      \/ ret'[c] = "present" /\ latest[call[c].key] # None
    BY <1>1
  <2>1. VisitTier(c)
    <3>1. pc[c] # "idle" /\ pc \in [Clients -> Stages]
      BY <1>1 DEF TypeOK
    <3>2. ASSUME NEW d \in Clients, Begin(d) PROVE FALSE
      BY <3>1, <3>2, CallShape DEF Begin
    <3>3. ASSUME NEW d \in Clients \ {c}, VisitTier(d) PROVE FALSE
      BY <1>1, <3>1, <3>3, VisitShape
    <3>4. ASSUME NEW i \in Tiers, NEW k \in Keys, Expire(i, k) \/ Lose(i, k)
          PROVE  FALSE
      BY <3>1, <3>4 DEF Expire, Lose
    <3>5. ~ Finished
      BY <3>1 DEF Finished
    <3>6. QED BY <3>2, <3>3, <3>4, <3>5 DEF Next
  <2>2. QED BY <1>1, <2>1, AnswerOfVisit
<1>2. QED BY <1>1, AgreementAlways, PTL DEF Spec, AnswersAreCurrent
=============================================================================
