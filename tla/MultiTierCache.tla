--------------------------- MODULE MultiTierCache ---------------------------
(***************************************************************************)
(* The orchestration of src/multi_tier.rs.  A call visits the tiers one by *)
(* one, tier 1 being the fastest, and no lock spans two tiers: the visits  *)
(* of different clients interleave.  A visit is one call of the Tier trait *)
(* and takes effect at one instant, as module LossyMap specifies; it can   *)
(* fail, and an entry can be lost to eviction at any time, its tier making *)
(* room for another entry or telling another caller that there is none.    *)
(***************************************************************************)
EXTENDS Integers, FiniteSets

CONSTANTS
    Keys, Values, Clients,
    None,               \* the absent value of Rust's Option
    NumTiers,           \* tiers.len()
    MemoryTiers,        \* which tiers are MemoryCaches, the others external
    Ops,                \* the operations the clients call
    MaxCalls            \* bound: calls made before everything stops

Tiers == 1 .. NumTiers

ASSUME MultiTierAssumption ==
    /\ NumTiers \in Nat \ {0} /\ MemoryTiers \subseteq Tiers
    /\ None \notin Keys \cup Values \cup {"ok", "err", "present", "absent"}
    /\ {"ok", "err", "present", "absent"} \cap Values = {}
    /\ Ops \subseteq {"get", "set", "delete", "exists"} /\ MaxCalls \in Nat

VARIABLES
    tiers,              \* tier -> key -> [value, life] or None
    pc,                 \* what each client does at its next tier
    call,               \* the call each client is in
    local,              \* and that call's local variables
    ret,                \* what each client's last call returned
    calls,              \* calls begun so far
    latest,             \* history: key -> the value last written, None
                        \* after a delete
    raced,              \* history: keys whose last write overlapped a call
    torn                \* history: keys whose last write returned an error

history == <<latest, raced, torn>>
vars == <<tiers, pc, call, local, ret, calls, history>>

NoCall == [op |-> None, key |-> None, value |-> None]
\* at: the tier visited next; found: the value a get found; upto: the last
\* tier to promote it to; failed: the tiers whose visit failed (the code keeps
\* the last one's error, last_error).
NoLocal == [at |-> 1, found |-> None, upto |-> 0, failed |-> {}]

Init ==
    /\ tiers = [i \in Tiers |-> [k \in Keys |-> None]]
    /\ pc = [c \in Clients |-> "idle"]
    /\ call = [c \in Clients |-> NoCall]
    /\ local = [c \in Clients |-> NoLocal]
    /\ ret = [c \in Clients |-> None]
    /\ calls = 0
    /\ latest = [k \in Keys |-> None]
    /\ raced = {} /\ torn = {}

-----------------------------------------------------------------------------
Holds(i, k) == tiers[i][k] # None

Fresh(i, k) == Holds(i, k) /\ tiers[i][k].life # "expired"

Put(i, k, entry) == tiers' = [tiers EXCEPT ![i][k] = entry]

\* A set that makes room for its entry, at the cost of any others.
PutEvicting(i, k, entry) ==
    \E gone \in SUBSET (Keys \ {k}) :
        tiers' = [tiers EXCEPT ![i] = [x \in Keys |->
                     IF x = k THEN entry ELSE IF x \in gone THEN None ELSE @[x]]]

\* A set that fails: a MemoryCache has removed the old entry, and others,
\* before it finds that there is no room; an external tier keeps what it had.
FailedPut(i, k) ==
    IF i \in MemoryTiers THEN PutEvicting(i, k, None) ELSE UNCHANGED tiers

Return(c, result) ==
    /\ pc' = [pc EXCEPT ![c] = "idle"]
    /\ call' = [call EXCEPT ![c] = NoCall]
    /\ local' = [local EXCEPT ![c] = NoLocal]
    /\ ret' = [ret EXCEPT ![c] = result]

\* On to the next tier with the locals l, or, past the tier `last', return.
NextTier(c, l, last, result) ==
    IF l.at < last
    THEN local' = [local EXCEPT ![c] = [l EXCEPT !.at = @ + 1]]
         /\ UNCHANGED <<pc, call, ret>>
    ELSE Return(c, result)

\* Mutant: an error is forgotten when a later tier succeeds.
OutcomeOfLast(l) == IF l.at \in l.failed THEN "err" ELSE "ok"

Outcome(l) == IF l.failed = {} THEN "ok" ELSE "err"

\* Mutant: the loop over the tiers is left at the first error.
WriteNextEager(c, l) ==
    /\ IF l.failed # {} THEN Return(c, "err") ELSE NextTier(c, l, NumTiers, Outcome(l))
    /\ torn' = IF l.failed # {} THEN torn \cup {call[c].key} ELSE torn

\* set and delete go on after an error and return the last one.
WriteNext(c, l) ==
    /\ NextTier(c, l, NumTiers, Outcome(l))
    /\ torn' = IF pc'[c] = "idle" /\ ret'[c] = "err" THEN torn \cup {call[c].key}
                                                    ELSE torn

Failed(l) == [l EXCEPT !.failed = @ \cup {l.at}]

-----------------------------------------------------------------------------
(* set and set_with_ttl: set supplies a default time-to-live *)

SetTier(c) ==
    LET i == local[c].at  k == call[c].key IN
    /\ pc[c] = "set"
    /\ \/ /\ PutEvicting(i, k, [value |-> call[c].value, life |-> "live"])
          /\ WriteNext(c, local[c])
       \/ /\ FailedPut(i, k)
          /\ WriteNext(c, Failed(local[c]))
    /\ UNCHANGED <<calls, latest, raced>>

(* delete: a MemoryCache never fails to *)

DeleteTier(c) ==
    LET i == local[c].at  k == call[c].key IN
    /\ pc[c] = "delete"
    /\ \/ /\ Put(i, k, None)
          /\ WriteNext(c, local[c])
       \/ /\ i \notin MemoryTiers
          /\ WriteNext(c, Failed(local[c]))
          /\ UNCHANGED tiers
    /\ UNCHANGED <<calls, latest, raced>>

(* get: the first tier with a fresh entry answers, after every faster tier
   was given a copy without a time-to-live *)

\* Mutant: the copies go one tier too far.
GetHitCopiesBack(c) ==
    LET i == local[c].at  k == call[c].key IN
    /\ pc[c] = "get"
    /\ Fresh(i, k)
    /\ IF i = 1
       THEN Return(c, tiers[i][k].value)
       ELSE /\ local' = [local EXCEPT ![c] =
                            [@ EXCEPT !.at = 1, !.upto = i,
                                      !.found = tiers[i][k].value]]
            /\ pc' = [pc EXCEPT ![c] = "promote"]
            /\ UNCHANGED <<call, ret>>
    /\ UNCHANGED <<tiers, calls, history>>

GetHit(c) ==
    LET i == local[c].at  k == call[c].key IN
    /\ pc[c] = "get"
    /\ Fresh(i, k)
    /\ IF i = 1
       THEN Return(c, tiers[i][k].value)
       ELSE /\ local' = [local EXCEPT ![c] =
                            [@ EXCEPT !.at = 1, !.upto = i - 1,
                                      !.found = tiers[i][k].value]]
            /\ pc' = [pc EXCEPT ![c] = "promote"]
            /\ UNCHANGED <<call, ret>>
    /\ UNCHANGED <<tiers, calls, history>>

\* A tier drops the entry it finds expired.
GetMiss(c) ==
    LET i == local[c].at  k == call[c].key IN
    /\ pc[c] = "get"
    /\ ~ Fresh(i, k)
    /\ Put(i, k, None)
    /\ NextTier(c, local[c], NumTiers, None)
    /\ UNCHANGED <<calls, history>>

\* The error of a tier is taken for a miss.
GetError(c) ==
    /\ pc[c] = "get"
    /\ local[c].at \notin MemoryTiers
    /\ NextTier(c, Failed(local[c]), NumTiers, None)
    /\ UNCHANGED <<tiers, calls, history>>

\* The result of the faster tier's set is dropped.
Promote(c) ==
    LET i == local[c].at  k == call[c].key IN
    /\ pc[c] = "promote"
    /\ \/ PutEvicting(i, k, [value |-> local[c].found, life |-> "forever"])
       \/ FailedPut(i, k)
    /\ NextTier(c, local[c], local[c].upto, local[c].found)
    /\ UNCHANGED <<calls, history>>

(* exists: no tier is changed, an entry found expired stays where it is *)

ExistsHere(c) ==
    /\ pc[c] = "exists"
    /\ Fresh(local[c].at, call[c].key)
    /\ Return(c, "present")
    /\ UNCHANGED <<tiers, calls, history>>

ExistsNotHere(c) ==
    /\ pc[c] = "exists"
    /\ \/ ~ Fresh(local[c].at, call[c].key)
       \/ local[c].at \notin MemoryTiers       \* the tier fails
    /\ NextTier(c, local[c], NumTiers, "absent")
    /\ UNCHANGED <<tiers, calls, history>>

-----------------------------------------------------------------------------
Requests ==
    [op : {"set"}, key : Keys, value : Values]
    \cup [op : {"get", "delete", "exists"}, key : Keys, value : {None}]

Writing(c, k) == call[c].key = k /\ call[c].op \in {"set", "delete"}

Others(c, k) == {d \in Clients \ {c} : call[d].key = k}

\* A call that overlaps a write of its key is a race.  A write that begins
\* while no other call is in progress on its key ends the key's races.
RaceHistory(c, r) ==
    LET writers == {d \in Others(c, r.key) : Writing(d, r.key)}
    IN  IF r.op \in {"get", "exists"}
        THEN /\ raced' = IF writers = {} THEN raced ELSE raced \cup {r.key}
             /\ UNCHANGED <<latest, torn>>
        ELSE /\ latest' = [latest EXCEPT ![r.key] = r.value]
             /\ raced' = IF Others(c, r.key) = {} THEN raced \ {r.key}
                                                 ELSE raced \cup {r.key}
             /\ torn' = torn \ {r.key}

Begin(c) ==
    /\ pc[c] = "idle" /\ calls < MaxCalls
    /\ \E r \in Requests :
          /\ r.op \in Ops
          /\ call' = [call EXCEPT ![c] = r]
          /\ pc' = [pc EXCEPT ![c] = r.op]
          /\ RaceHistory(c, r)
    /\ calls' = calls + 1
    /\ UNCHANGED <<tiers, local, ret>>

\* The time-to-live of one tier's copy runs out.
Expire(i, k) ==
    /\ Holds(i, k) /\ tiers[i][k].life = "live"
    /\ Put(i, k, [tiers[i][k] EXCEPT !.life = "expired"])
    /\ UNCHANGED <<pc, call, local, ret, calls, history>>

\* A tier evicts an entry to make room for another.
Lose(i, k) ==
    /\ Holds(i, k)
    /\ Put(i, k, None)
    /\ UNCHANGED <<pc, call, local, ret, calls, history>>

\* The end of a bounded run.
Finished ==
    (\A c \in Clients : pc[c] = "idle") /\ calls = MaxCalls /\ UNCHANGED vars

VisitTier(c) ==
    \/ SetTier(c) \/ DeleteTier(c) \/ GetHit(c) \/ GetMiss(c) \/ GetError(c)
    \/ Promote(c) \/ ExistsHere(c) \/ ExistsNotHere(c)

Next ==
    \/ \E c \in Clients : Begin(c) \/ VisitTier(c)
    \/ \E i \in Tiers, k \in Keys : Expire(i, k) \/ Lose(i, k)
    \/ Finished

Spec == Init /\ [][Next]_vars

-----------------------------------------------------------------------------
Entries == [value : Values, life : {"forever", "live", "expired"}]
Locals == [at : Tiers, found : Values \cup {None}, upto : 0 .. NumTiers - 1,
           failed : SUBSET Tiers]
Answers == Values \cup {None, "ok", "err", "present", "absent"}
Stages == {"idle", "set", "delete", "get", "promote", "exists"}

\* The type invariant.  A client is at a step of the call it is in; a promotion
\* has a value and stops short of the tier that held it.
TypeOK ==
    /\ tiers \in [Tiers -> [Keys -> Entries \cup {None}]]
    /\ pc \in [Clients -> Stages]
    /\ call \in [Clients -> Requests \cup {NoCall}]
    /\ local \in [Clients -> Locals]
    /\ ret \in [Clients -> Answers]
    /\ calls \in 0 .. MaxCalls
    /\ latest \in [Keys -> Values \cup {None}]
    /\ raced \subseteq Keys /\ torn \subseteq Keys
    /\ \A c \in Clients :
          /\ pc[c] = "idle" => call[c] = NoCall /\ local[c] = NoLocal
          /\ pc[c] # "idle" =>
                call[c] \in Requests
                /\ call[c].op = IF pc[c] = "promote" THEN "get" ELSE pc[c]
          /\ pc[c] = "promote" =>
                local[c].at <= local[c].upto /\ local[c].found \in Values

BeingWritten(k) == \E c \in Clients : Writing(c, k)

\* Tiers that are MemoryCaches never hold an outdated value of a key whose
\* last write overlapped no other call, although sets fail half-way, tiers
\* lose and expire entries one by one, and any number of gets copy entries
\* between tiers at the same time: a failed set leaves no old value behind.
\* One undisturbed set or delete heals whatever earlier races left.
TiersAgree ==
    \A k \in Keys : (k \notin raced /\ ~ BeingWritten(k)) =>
        \A i \in Tiers : Holds(i, k) => tiers[i][k].value = latest[k]

\* So a get that overlaps no write returns the value last written, or
\* nothing, and an exists that overlaps none finds no deleted key.
AnswersAreCurrent ==
    [][\A c \in Clients : LET k == call[c].key IN
          (pc[c] \in {"get", "promote", "exists"} /\ pc'[c] = "idle"
              /\ k \notin raced /\ ~ BeingWritten(k)) =>
          \/ ret'[c] \in {None, "absent", latest[k]}
          \/ ret'[c] = "present" /\ latest[k] # None]_vars

\* With tiers that keep the old value when a set or a delete fails, a write
\* of several tiers can tear, but then it says so: as long as the last write
\* returned ok and overlapped no call, no tier is outdated.
AcknowledgedAgree ==
    \A k \in Keys : (k \notin raced \cup torn /\ ~ BeingWritten(k)) =>
        \A i \in Tiers : Holds(i, k) => tiers[i][k].value = latest[k]

\* Only promotions make copies that never expire, and they go to faster
\* tiers only: in the slowest tier every entry expires.
SlowestTierExpires ==
    \A k \in Keys : Holds(NumTiers, k) => tiers[NumTiers][k].life # "forever"

-----------------------------------------------------------------------------
(* What the documents claim, refuted by a run. *)

\* docs/ARCHITECTURE.md: "Time-based expiration prevents stale data".  Every
\* value is stored with a time-to-live, so no copy may last forever.
EveryCopyExpires ==
    \A i \in Tiers, k \in Keys : Holds(i, k) => tiers[i][k].life # "forever"
=============================================================================
