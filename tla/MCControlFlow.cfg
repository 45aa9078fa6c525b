SPECIFICATION Spec
CONSTANTS
    n1 = n1
    n2 = n2
    n3 = n3
    n4 = n4
    Node <- MCNode
    Entry = n1
    Exit = Exit
    MaxSuccs = 2
SYMMETRY Symmetry
CHECK_DEADLOCK FALSE
INVARIANTS BackEdgesAreDominance OrderIsTopological AssertionHolds DominanceIsExact LoopsNest
