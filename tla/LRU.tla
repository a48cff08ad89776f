-------------------------------- MODULE LRU --------------------------------
(***************************************************************************)
(* The LRU eviction policy of src/eviction.rs as operators on a policy     *)
(* state.  The state is what the struct holds: the VecDeque access_order   *)
(* (front = least recent) and the HashMap key_index, from a key to a       *)
(* position of access_order counted from 0.  The field `capacity' is       *)
(* stored by the constructor and read only by its getter, so it is not     *)
(* part of the state.                                                      *)
(*                                                                         *)
(* Evict yields a set of outcomes, the form every policy has here: the     *)
(* returned Option<K> and the state left behind.                           *)
(***************************************************************************)
EXTENDS Integers, Sequences

CONSTANT None           \* the absent value of Rust's Option

LruNew == [access_order |-> <<>>, key_index |-> <<>>]

\* Mutant: the position is taken to be counted from 1.
DequeRemoveFromOne(s, i) ==
    IF i \in DOMAIN s
    THEN [j \in 1 .. Len(s) - 1 |-> IF j < i THEN s[j] ELSE s[j + 1]]
    ELSE s

(***************************************************************************)
(* VecDeque::remove(i), i counted from 0: drops the element at i and       *)
(* leaves the deque alone when i is past the end.                          *)
(***************************************************************************)
DequeRemove(s, i) ==
    IF i < Len(s)
    THEN [j \in 1 .. Len(s) - 1 |-> IF j <= i THEN s[j] ELSE s[j + 1]]
    ELSE s

\* Mutant: the positions behind the removed one are not updated.
ShiftNothing(index, i) == index

\* Mutant: every position is updated, not only those behind.
ShiftEvery(index, i) ==
    [x \in DOMAIN index |-> IF index[x] > 0 THEN index[x] - 1 ELSE index[x]]

\* Every recorded position past the removed one moves down by one.
ShiftIndex(index, i) ==
    [x \in DOMAIN index |-> IF index[x] > i THEN index[x] - 1 ELSE index[x]]

\* Mutant: the position is computed before the push.
PushAndRecordEarly(order, index, k) ==
    [access_order |-> Append(order, k),
     key_index    |-> [x \in DOMAIN index \cup {k} |->
                          IF x = k THEN Len(order) - 1 ELSE index[x]]]

\* push_back(k), and the last position recorded for k.
PushAndRecord(order, index, k) ==
    [access_order |-> Append(order, k),
     key_index    |-> [x \in DOMAIN index \cup {k} |->
                          IF x = k THEN Len(order) ELSE index[x]]]

LruOnAccess(p, k) ==
    IF k \in DOMAIN p.key_index
    THEN LET i == p.key_index[k]
         IN  PushAndRecord(DequeRemove(p.access_order, i),
                           ShiftIndex(p.key_index, i), k)
    ELSE PushAndRecord(p.access_order, p.key_index, k)

\* Mutant: the insertion of a new key is not recorded.
LruOnInsertKnownOnly(p, k) == IF k \in DOMAIN p.key_index THEN LruOnAccess(p, k) ELSE p

LruOnInsert(p, k) == LruOnAccess(p, k)

(***************************************************************************)
(* pop_front, then key_index.remove of the popped key.  The positions      *)
(* recorded for the other keys are left as they were.                      *)
(***************************************************************************)
LruEvict(p) ==
    IF p.access_order = <<>>
    THEN {[key |-> None, rest |-> p]}
    ELSE LET k == Head(p.access_order)
         IN  {[key  |-> k,
               rest |-> [access_order |-> Tail(p.access_order),
                         key_index    |-> [x \in DOMAIN p.key_index \ {k} |->
                                              p.key_index[x]]]]}

LruReset(p) == LruNew

\* The keys Evict can still return: what the policy has not lost sight of.
LruTracked(p) == {p.access_order[i] : i \in 1 .. Len(p.access_order)}
=============================================================================
