SPECIFICATION ReduceSpec
CONSTANTS
    Log = 2
    MaxBlocks = 2
    Sizes <- MCSizes
INVARIANTS Exact RaceFree
CONSTRAINT InTurn
