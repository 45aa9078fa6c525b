--------------------------- MODULE MCControlFlow ---------------------------
EXTENDS ControlFlow, TLC

CONSTANTS n1, n2, n3, n4

MCNode == {n1, n2, n3, n4}

\* The entry is told apart from the other nodes, which are alike.
Symmetry == Permutations(MCNode \ {Entry})
=============================================================================
