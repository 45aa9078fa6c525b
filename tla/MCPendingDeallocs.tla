-------------------------- MODULE MCPendingDeallocs --------------------------
(* Instances of PendingDeallocs for TLC.  Memory that exceeds the bytes      *)
(* alone, two smaller sizes, a resource of unknown size (an event, a stream, *)
(* a module), and limits of two entries and three bytes, so that each limit  *)
(* alone can start a flush and be exceeded again after one was refused.      *)
EXTENDS PendingDeallocs, TLC

CONSTANTS i1, i2, i3, i4

MCItem == {i1, i2, i3, i4}

MCSize == (i1 :> 4) @@ (i2 :> 2) @@ (i3 :> 1) @@ (i4 :> 0)

ThreadSymmetry == Permutations(Thread)
=============================================================================
