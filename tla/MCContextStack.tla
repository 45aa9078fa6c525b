--------------------------- MODULE MCContextStack ---------------------------
(* Instances of ContextStack for TLC: the main thread, nesting two blocks,   *)
(* and a worker with one, two devices, and a library with a context of its   *)
(* own on device 0.                                                          *)
EXTENDS ContextStack, TLC

CONSTANTS main, worker, f1

MCThread == {main, worker}

MCDeviceOf == f1 :> 0

MCMaxBlocks == (main :> 2) @@ (worker :> 1)
=============================================================================
