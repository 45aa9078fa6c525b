------------------------------ MODULE MCModules ------------------------------
(* Instances of Modules for TLC: two threads, two devices of one compute     *)
(* capability, two kernels.                                                  *)
EXTENDS Modules, TLC

CONSTANTS d1, d2, sm

MCDevice == {d1, d2}

MCCcOf == [d \in MCDevice |-> sm]

Symmetry == Permutations(Thread) \cup Permutations(MCDevice)
=============================================================================
