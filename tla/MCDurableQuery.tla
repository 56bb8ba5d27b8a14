--------------------------- MODULE MCDurableQuery ---------------------------
EXTENDS DurableQuery, TLC

\* Distinct requests have distinct estimates.
MCCost == CHOOSE f \in [Requests -> 1..2] : \A p, q \in Requests : p # q => f[p] # f[q]

Symmetry == Permutations(Owners) \cup Permutations(Conversations) \cup Permutations(Runs)
=============================================================================
