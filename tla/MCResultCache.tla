--------------------------- MODULE MCResultCache ---------------------------
EXTENDS ResultCache, TLC

\* Uuids, queries and client processes are interchangeable.
Symmetry == Permutations(Cids) \cup Permutations(Queries)
                \cup Permutations(Clients)
=============================================================================
