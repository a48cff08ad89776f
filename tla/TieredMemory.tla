---------------------------- MODULE TieredMemory ----------------------------
(***************************************************************************)
(* A MultiTierCache whose tiers are MemoryCaches with a capacity each and  *)
(* LRU eviction, as an application builds it.  A visit of a tier is one    *)
(* whole call of it, and the visits of different clients interleave.  The  *)
(* clients' own state is that of MultiTierCache, where every tier may lose *)
(* what it likes; here the tiers decide what they evict and refuse.        *)
(***************************************************************************)
EXTENDS MemoryTier

CONSTANTS
    Values, Clients, Ops, MaxCalls,
    NumTiers,
    Capacities          \* tier -> its capacity_bytes

Tiers == 1 .. NumTiers

VARIABLES
    mem,                \* the tiers, fastest first
    pc, call, local, ret, calls, latest, raced, torn

clients == <<pc, call, local, ret, calls, latest, raced, torn>>
vars == <<mem, clients>>

Cache == INSTANCE MultiTierCache WITH
            MemoryTiers <- Tiers, tiers <- [i \in Tiers |-> mem[i].entries]

ASSUME TieredMemoryAssumption ==
    /\ IsFiniteSet(Keys) /\ EntrySize \in Nat \ {0}
    /\ Capacities \in [Tiers -> Nat \ {0}]
    /\ Cache!MultiTierAssumption

\* Option tells an absent entry from every entry.
ASSUME NoneIsNoEntry ==
    None \notin [value : Values, life : {"forever", "live", "expired"}]

Init ==
    /\ mem = [i \in Tiers |-> TierNew(Capacities[i])]
    /\ Cache!Init

-----------------------------------------------------------------------------
\* The tier client c is at, and the key it is there for.
Here(c) == mem[local[c].at]
Key(c) == call[c].key

Visit(c, r) == mem' = [mem EXCEPT ![local[c].at] = r.tier]

SetTier(c) ==
    LET r == TierSet(Here(c), Key(c), call[c].value, "live") IN
    /\ pc[c] = "set"
    /\ Visit(c, r)
    /\ Cache!WriteNext(c, IF r.result = "ok" THEN local[c] ELSE Cache!Failed(local[c]))
    /\ UNCHANGED <<calls, latest, raced>>

DeleteTier(c) ==
    /\ pc[c] = "delete"
    /\ Visit(c, TierDelete(Here(c), Key(c)))
    /\ Cache!WriteNext(c, local[c])
    /\ UNCHANGED <<calls, latest, raced>>

\* A hit is copied to the faster tiers before the call returns.
GetTier(c) ==
    LET r == TierGet(Here(c), Key(c))  at == local[c].at IN
    /\ pc[c] = "get"
    /\ Visit(c, r)
    /\ \/ /\ r.result = None
          /\ Cache!NextTier(c, local[c], NumTiers, None)
       \/ /\ r.result # None /\ at = 1
          /\ Cache!Return(c, r.result)
       \/ /\ r.result # None /\ at > 1
          /\ pc' = [pc EXCEPT ![c] = "promote"]
          /\ local' = [local EXCEPT ![c] =
                          [@ EXCEPT !.at = 1, !.upto = at - 1, !.found = r.result]]
          /\ UNCHANGED <<call, ret>>
    /\ UNCHANGED <<calls, latest, raced, torn>>

Promote(c) ==
    /\ pc[c] = "promote"
    /\ Visit(c, TierSet(Here(c), Key(c), local[c].found, "forever"))
    /\ Cache!NextTier(c, local[c], local[c].upto, local[c].found)
    /\ UNCHANGED <<calls, latest, raced, torn>>

ExistsTier(c) ==
    LET r == TierExists(Here(c), Key(c)) IN
    /\ pc[c] = "exists"
    /\ IF r.result = "present"
       THEN Cache!Return(c, "present")
       ELSE Cache!NextTier(c, local[c], NumTiers, "absent")
    /\ UNCHANGED <<mem, calls, latest, raced, torn>>

Begin(c) == UNCHANGED mem /\ Cache!Begin(c)

Expire(i, k) ==
    /\ TierHolds(mem[i], k) /\ mem[i].entries[k].life = "live"
    /\ mem' = [mem EXCEPT ![i].entries[k].life = "expired"]
    /\ UNCHANGED clients

Finished ==
    (\A c \in Clients : pc[c] = "idle") /\ calls = MaxCalls /\ UNCHANGED vars

Next ==
    \/ \E c \in Clients :
          \/ Begin(c) \/ SetTier(c) \/ DeleteTier(c) \/ GetTier(c) \/ Promote(c)
          \/ ExistsTier(c)
    \/ \E i \in Tiers, k \in Keys : Expire(i, k)
    \/ Finished

Spec == Init /\ [][Next]_vars

-----------------------------------------------------------------------------
Stored(i) == {k \in Keys : TierHolds(mem[i], k)}

\* Real tiers do nothing that MultiTierCache does not allow its tiers, so
\* what is shown there of agreement and answers holds of them: eviction by
\* LRU is a loss, and a set that finds no room has removed the old entry.
IsTieredCache == Cache!Spec

\* The counters of a tier err in one direction only, whatever expires, is
\* promoted, evicted or refused: the size counts at least what is stored, the
\* number of entries at least what the size counts, so that counting down
\* never passes zero, and the size stays within the capacity.
CountersErrUpward ==
    \A i \in Tiers :
        /\ EntrySize * Cardinality(Stored(i)) <= mem[i].size
        /\ mem[i].size <= EntrySize * mem[i].stats.entries
        /\ mem[i].size <= mem[i].capacity

\* The room taken by entries that a get found expired and removed.
Leaked(i) == mem[i].size - EntrySize * Cardinality(Stored(i))

\* LRU forgets stored keys, but never so many that a tier cannot make room: a
\* tier that would refuse a set of any key, be it a client's or a promotion
\* (whose refusal MultiTierCache does not look at), is too small for one entry
\* or has itself lost room to expired entries.
RefusedOnlyIfLeaked ==
    \A i \in Tiers, k \in Keys, v \in Values, life \in {"live", "forever"} :
        TierSet(mem[i], k, v, life).result # "ok" =>
            EntrySize > mem[i].capacity \/ Leaked(i) > 0
=============================================================================
