----------------------- MODULE MCTransactionManager -----------------------
(* TransactionManager on a few connections.                                 *)
EXTENDS TransactionManager, TLC

CONSTANTS c1, c2, c3

OneConnection == {c1}
TwoConnections == {c1, c2}
ThreeConnections == {c1, c2, c3}
NoConnection == {}

\* Connections with the same rights are interchangeable.
Symmetry == Permutations(Connections)
===========================================================================
