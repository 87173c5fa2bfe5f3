-------------------------- MODULE MCConnectionPool --------------------------
\* ConnectionPool with two clients and two connections: there are never more
\* connections than clients
EXTENDS ConnectionPool, TLC
CONSTANTS k1, k2, p1, p2
Symmetry == Permutations(Clients) \cup Permutations(Conns)
=============================================================================
