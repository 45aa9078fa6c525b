---------------------------- MODULE MCDeviceMemory ----------------------------
(* Instances of DeviceMemory for TLC: one allocation of each kind that the     *)
(* table keeps, pinned memory, a pool of host memory that holds one of the two *)
(* allocated in it, and a queue that one entry of two bytes, or two entries of *)
(* one byte and of unknown size, put over a limit.                             *)
EXTENDS DeviceMemory, TLC

CONSTANTS m1, m2, m3, m4

MCKind == (m1 :> "device") @@ (m2 :> "mapped") @@ (m3 :> "pinned") @@ (m4 :> "mappin")

MCSize == (m1 :> 1) @@ (m2 :> 2) @@ (m3 :> 1) @@ (m4 :> 1)

MCCapacity == [pool \in {"device", "host"} |-> IF pool = "device" THEN 1 ELSE 2]
=============================================================================
