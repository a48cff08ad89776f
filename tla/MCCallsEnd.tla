----------------------------- MODULE MCCallsEnd -----------------------------
\* CallsEnd and Ledger add their history variables to the same behaviours.
EXTENDS CallsEnd, Ledger, MCMemoryCacheLRU, Sequences

MCLength(p) == Len(p.access_order)

MCInit == EndInit /\ LedgerInit
MCNext == EndNext /\ Account
MCSpec == MCInit /\ [][MCNext]_<<endVars, leaked, miscounted>> /\ Fairness
=============================================================================
