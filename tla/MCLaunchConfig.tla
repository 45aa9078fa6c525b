---------------------------- MODULE MCLaunchConfig ----------------------------
(* Instances of LaunchConfig for TLC: two launch configurations, a signature  *)
(* that depends on them and one that does not.                                *)
EXTENDS LaunchConfig, TLC

Symmetry == Permutations(Thread) \cup Permutations(Config)
=============================================================================
