----------------------------- MODULE MCCacheFile -----------------------------
(* Instances of CacheFile for TLC.                                           *)
EXTENDS CacheFile, TLC

Symmetry == Permutations(Key) \cup Permutations(Process) \cup Permutations(Stamp)
=============================================================================
