------------------------------ MODULE LossyMap ------------------------------
(***************************************************************************)
(* What a cache tier promises its concurrent callers, trait Tier of        *)
(* src/tier.rs: a map that may lose any entry at any time but never makes  *)
(* one up.  Each call takes effect at one instant between its beginning    *)
(* and its return: a set stores its value or says that there was no room,  *)
(* a get finds what the map holds at that instant or nothing, an exists    *)
(* finds no entry that is not there, a delete leaves none.  A clear        *)
(* removes every key, one at a time.                                       *)
(***************************************************************************)
CONSTANTS Keys, Values, Threads, None, Requests, NoCall

VARIABLES
    store,      \* key -> value, or None
    phase,      \* of each thread: "idle", "called", "settled", "crashed"
    asked,      \* the call each thread is in
    left,       \* the keys each thread's clear has still to remove
    answer      \* what each thread's last settled call returns

lmVars == <<store, phase, asked, left, answer>>

LMInit ==
    /\ store = [k \in Keys |-> None]
    /\ phase = [t \in Threads |-> "idle"]
    /\ asked = [t \in Threads |-> NoCall]
    /\ left = [t \in Threads |-> {}]
    /\ answer = [t \in Threads |-> None]

Ask(t) ==
    /\ phase[t] = "idle"
    /\ phase' = [phase EXCEPT ![t] = "called"]
    /\ \E c \in Requests :
          /\ asked' = [asked EXCEPT ![t] = c]
          /\ left' = [left EXCEPT ![t] = IF c.op = "clear" THEN Keys ELSE {}]
    /\ UNCHANGED <<store, answer>>

\* The call's fate is sealed; it may return in the same step or later.
Settle(t, op, result) ==
    /\ phase[t] = "called" /\ asked[t].op = op
    /\ answer' = [answer EXCEPT ![t] = result]
    /\ \/ /\ phase' = [phase EXCEPT ![t] = "settled"]
          /\ UNCHANGED asked
       \/ /\ phase' = [phase EXCEPT ![t] = "idle"]
          /\ asked' = [asked EXCEPT ![t] = NoCall]
    /\ UNCHANGED left

Store(k, value) == store' = [store EXCEPT ![k] = value]

Put(t) == Settle(t, "set", "ok") /\ Store(asked[t].key, asked[t].value)

Refuse(t) == Settle(t, "set", "full") /\ UNCHANGED store

Find(t) == Settle(t, "get", store[asked[t].key]) /\ UNCHANGED store

\* An exists may overlook an entry that is about to be lost.
Check(t) ==
    /\ \/ Settle(t, "exists", "absent")
       \/ Settle(t, "exists", "present") /\ store[asked[t].key] # None
    /\ UNCHANGED store

\* A get that finds nothing may be what loses the entry.
Miss(t) == Settle(t, "get", None) /\ Store(asked[t].key, None)

Remove(t) == Settle(t, "delete", "ok") /\ Store(asked[t].key, None)

RemoveNext(t) ==
    /\ \E k \in left[t] :
          /\ Store(k, None)
          /\ left' = [left EXCEPT ![t] = @ \ {k}]
    /\ UNCHANGED <<phase, asked, answer>>

Cleared(t) == left[t] = {} /\ Settle(t, "clear", "ok") /\ UNCHANGED store

Answer(t) ==
    /\ phase[t] = "settled"
    /\ phase' = [phase EXCEPT ![t] = "idle"]
    /\ asked' = [asked EXCEPT ![t] = NoCall]
    /\ UNCHANGED <<store, left, answer>>

\* The thread panics in its call and is never heard of again.
Crash(t) ==
    /\ phase[t] \in {"called", "settled"}
    /\ phase' = [phase EXCEPT ![t] = "crashed"]
    /\ UNCHANGED <<store, asked, left, answer>>

Lose(k) == Store(k, None) /\ UNCHANGED <<phase, asked, left, answer>>

LMNext ==
    \/ \E t \in Threads :
          \/ Ask(t) \/ Put(t) \/ Refuse(t) \/ Find(t) \/ Check(t) \/ Miss(t)
          \/ Remove(t) \/ RemoveNext(t) \/ Cleared(t) \/ Answer(t) \/ Crash(t)
    \/ \E k \in Keys : Lose(k)

LMSpec == LMInit /\ [][LMNext]_lmVars
=============================================================================
