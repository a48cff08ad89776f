------------------------------ MODULE CallsEnd ------------------------------
(***************************************************************************)
(* How many steps the calls of MemoryCache take: a history variable counts *)
(* the map operations and critical sections of all threads together.       *)
(***************************************************************************)
EXTENDS MemoryCacheProperties

CONSTANT PolicyLength(_)    \* how many keys the policy can give before None

VARIABLE steps              \* steps the calls of all threads have taken

endVars == <<vars, steps>>

-----------------------------------------------------------------------------
\* The steps of one pass of the loop in evict_for_space, which takes one key.
PassSteps == 5

\* The steps of a set, with a pass of the loop for the key it gives the policy,
\* or of a clear, whichever are more.
StepsPerCall ==
    IF 3 + Cardinality(Keys) > 7 + PassSteps THEN 3 + Cardinality(Keys) ELSE 7 + PassSteps

\* However the calls interleave, they take at most StepsPerCall steps each on
\* the average, those of the evictions included: evict_for_space does not run
\* for ever, though what it pops may not be in the map and others insert
\* meanwhile.  (One call alone may take many more steps than that.)
CallsTakeFewSteps == steps <= StepsPerCall * calls

-----------------------------------------------------------------------------
EndInit == Init /\ steps = 0

\* The count stops one step past the bound.
EndNext ==
    \/ /\ \E t \in Threads : Step(t)
       /\ steps' = IF CallsTakeFewSteps THEN steps + 1 ELSE steps
    \/ /\ (\E t \in Threads : Begin(t)) \/ (\E k \in Keys : Expire(k)) \/ Finished
       /\ steps' = steps

EndSpec == EndInit /\ [][EndNext]_endVars
=============================================================================
