----------------------------- MODULE Freshness ------------------------------
(***************************************************************************)
(* The time-to-live as a caller of get() sees it.  get() looks whether the *)
(* entry is expired and reads its value later: in between the entry may    *)
(* expire, be evicted or be replaced, even by one whose time ran out while *)
(* its set was inserting it.  A history variable collects what each get    *)
(* may return.                                                             *)
(***************************************************************************)
EXTENDS MemoryCacheProperties

VARIABLE seen           \* of the key each get asks for: the values stored and not
                        \* expired at an instant of the call, and those inserted
                        \* during it

freshVars == <<vars, seen>>

FreshValues(k) ==
    {entries[x].value : x \in {y \in Stored : y = k /\ entries[y].life # "expired"}}

\* The value of k that a set inserts in this step.
Arrivals(k) ==
    {call[u].value : u \in {w \in Doing({"set_insert"}) :
                               call[w].key = k /\ pc'[w] # "set_insert"}}

Watch ==
    seen' = [t \in Threads |->
                IF call'[t].op # "get" THEN {}
                ELSE seen[t] \cup Arrivals(call[t].key) \cup FreshValues(call[t].key)']

FreshInit == Init /\ seen = [t \in Threads |-> {}]

FreshNext == Next /\ Watch

FreshSpec == FreshInit /\ [][FreshNext]_freshVars

\* No get returns a value that the map held only as an expired entry since the
\* get began, although the check and the read are two looks at the map
\* (memory.rs:198 and 216): the value was fresh at some instant of the call, or a
\* set inserted it during the call.  (The latter may have expired on its way,
\* between memory.rs:267 and 273: a get that found nothing at its first look then
\* returns it all the same.)
NoStaleHits ==
    \A t \in Threads :
        pc[t] \in {"get_access", "get_hit"} => local[t].value \in seen[t]
=============================================================================
