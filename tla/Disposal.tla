------------------------------- MODULE Disposal -------------------------------
(***************************************************************************)
(* What a queue of deallocations promises to those who hand resources to   *)
(* it ("Deallocation Behavior" of docs/source/user/memory.rst): what was   *)
(* handed over waits, is then destroyed, once, and no call of a party that *)
(* is deferring destroys anything.  When the queue destroys what waits is  *)
(* left to it, one at a time or all together.                              *)
(*                                                                         *)
(* PendingDeallocs and DeviceMemory implement this specification.          *)
(***************************************************************************)
CONSTANTS Resource, Party

VARIABLES waiting,    \* handed over and not yet destroyed
          gone,       \* destroyed
          deferring   \* the parties inside a deferred block of their own

vars == <<waiting, gone, deferring>>

Init == waiting = {} /\ gone = {} /\ deferring = {}

\* A party hands over new resources, and destroys some of those that are waiting
\* then: none is lost and none comes back.
Dispose(p) == /\ waiting' \in SUBSET Resource /\ gone' \in SUBSET Resource
              /\ waiting' \cap gone' = {}
              /\ waiting \subseteq waiting' \cup gone' /\ gone \subseteq gone'
              /\ p \in deferring => gone' = gone
              /\ UNCHANGED deferring

Defer(p) == deferring' = deferring \cup {p} /\ UNCHANGED <<waiting, gone>>

Resume(p) == deferring' = deferring \ {p} /\ UNCHANGED <<waiting, gone>>

Next == \E p \in Party : Dispose(p) \/ Defer(p) \/ Resume(p)

Spec == Init /\ [][Next]_vars
=============================================================================
