-------------------------------- MODULE LFU --------------------------------
(***************************************************************************)
(* The LFU eviction policy of src/eviction.rs as operators on a policy     *)
(* state: the HashMap access_count and the counter min_frequency.  As in   *)
(* LRU, `capacity' is stored but never consulted and is left out.          *)
(***************************************************************************)
EXTENDS Integers

CONSTANT None           \* the absent value of Rust's Option

LfuNew == [access_count |-> <<>>, min_frequency |-> 0]

LfuTracked(p) == DOMAIN p.access_count

\* The map with k set to n, whether or not k was in it.
WithCount(counts, k, n) ==
    [x \in DOMAIN counts \cup {k} |-> IF x = k THEN n ELSE counts[x]]

\* Mutant: or_insert(0) without the increment that follows it.
LfuOnAccessFirstUncounted(p, k) ==
    LET n == IF k \in DOMAIN p.access_count THEN p.access_count[k] + 1 ELSE 0
    IN  [access_count  |-> WithCount(p.access_count, k, n),
         min_frequency |-> IF p.min_frequency = 0 \/ n < p.min_frequency
                           THEN n ELSE p.min_frequency]

LfuOnAccess(p, k) ==
    LET n == IF k \in DOMAIN p.access_count THEN p.access_count[k] + 1 ELSE 1
    IN  [access_count  |-> WithCount(p.access_count, k, n),
         min_frequency |-> IF p.min_frequency = 0 \/ n < p.min_frequency
                           THEN n ELSE p.min_frequency]

\* Mutant: an insertion is taken for one more level of use.
LfuOnInsertKeepsMinimum(p, k) ==
    [access_count  |-> WithCount(p.access_count, k, 1),
     min_frequency |-> p.min_frequency + 1]

\* An insertion forgets the uses counted for the key so far.
LfuOnInsert(p, k) ==
    [access_count |-> WithCount(p.access_count, k, 1), min_frequency |-> 1]

\* The keys no other key is used less than.
LeastUsed(p) ==
    {k \in LfuTracked(p) :
        \A x \in LfuTracked(p) : p.access_count[k] <= p.access_count[x]}

\* Mutants: the victim stays in the map; the comparison is reversed.
LfuEvictKeepsCount(p) ==
    IF LfuTracked(p) = {}
    THEN {[key |-> None, rest |-> p]}
    ELSE {[key |-> k, rest |-> p] : k \in LeastUsed(p)}
LfuEvictMostUsed(p) ==
    IF LfuTracked(p) = {}
    THEN {[key |-> None, rest |-> p]}
    ELSE {[key  |-> k,
           rest |-> [p EXCEPT !.access_count =
                        [x \in DOMAIN @ \ {k} |-> @[x]]]] :
              k \in {y \in LfuTracked(p) :
                        \A x \in LfuTracked(p) :
                            p.access_count[x] <= p.access_count[y]}}

(***************************************************************************)
(* The scan keeps the first key of least count in the HashMap's iteration  *)
(* order, which is arbitrary: any least used key can be the one.           *)
(***************************************************************************)
LfuEvict(p) ==
    IF LfuTracked(p) = {}
    THEN {[key |-> None, rest |-> p]}
    ELSE {[key  |-> k,
           rest |-> [p EXCEPT !.access_count =
                        [x \in DOMAIN @ \ {k} |-> @[x]]]] :
              k \in LeastUsed(p)}

LfuReset(p) == LfuNew
=============================================================================
