-------------------------- MODULE DeviceMemory_proofs --------------------------
(***************************************************************************)
(* No memory is used after it was freed, and none is freed twice, for any  *)
(* number of allocations, owners, deferred blocks and resets.              *)
(***************************************************************************)
EXTENDS DeviceMemory, FiniteSetTheorems, TLAPS

(***************************************************************************)
(* The inductive invariant.  The properties that matter speak of the       *)
(* driver and the queue; what keeps them is that an allocation has a       *)
(* living finalizer exactly as long as it is neither queued nor freed.     *)
(***************************************************************************)
\* An allocation the program did not make yet has left no trace.
Fresh ==
  \A m \in Mem : driver[m] = "none" =>
     /\ plain[m] = 0 /\ views[m] = 0 /\ ~finalizer[m]
     /\ m \notin allocations /\ m \notin pending
     /\ m \notin dropped /\ m \notin forced

\* A living finalizer means memory that is neither queued nor given back.
FinalizerGuards ==
  \A m \in Mem : finalizer[m] => driver[m] = "live" /\ m \notin pending

\* Tracked memory whose finalizer lives is in the table, unless a reset
\* emptied it; then a view of it remains.
TableIsComplete ==
  \A m \in Mem : finalizer[m] /\ Tracked(m) =>
     IF m \in dropped THEN m \notin allocations /\ views[m] > 0
                      ELSE m \in allocations

TableIsTracked == \A m \in allocations \cup dropped \cup forced : Tracked(m)

\* Owners keep the finalizer alive; views are of tracked memory.
OwnersKeepFinalizer ==
  \A m \in Mem :
     /\ m \notin forced /\ (views[m] > 0 \/ (plain[m] > 0 /\ m \notin dropped))
          => finalizer[m]
     /\ views[m] > 0 => Tracked(m)

IInv == /\ TypeOK /\ Fresh /\ FinalizerGuards /\ TableIsComplete /\ TableIsTracked
        /\ OwnersKeepFinalizer /\ RefctIsOwners /\ TableIsOwned /\ QueuedOnce

(***************************************************************************)
(* What a finalizer may do to the queue and to the driver.                 *)
(***************************************************************************)
Finalized(m) ==
  /\ finalizer' = [finalizer EXCEPT ![m] = FALSE]
  /\ allocations' = allocations \ {m}
  /\ pending' \subseteq pending \cup {m}
  /\ driver' \in [Mem -> {"none", "live", "freed"}]
  /\ \A x \in Mem : \/ driver'[x] = driver[x]
                    \/ /\ x \in pending \cup {m} /\ x \notin pending'
                       /\ driver'[x] = "freed"

\* Whether it queues, flushes, unregisters or raises, a finalizer takes its
\* memory from the table, adds at most that memory to the queue, and gives
\* back nothing but that memory and what was queued.
LEMMA FinalizeEffect ==
  ASSUME TypeOK, NEW m \in Mem, m \notin pending, Finalize(m)
  PROVE  Finalized(m)
<1> USE DEF Finalized
<1>1. CASE KeyMissing(m) /\ UNCHANGED <<pending, driver>>
  BY <1>1 DEF Finalize, TypeOK
<1>2. CASE ~KeyMissing(m) /\ Immediate(m) /\ driver' = Freed(driver, {m}) /\ UNCHANGED pending
  BY <1>2 DEF Finalize, TypeOK, Freed
<1>3. CASE ~KeyMissing(m) /\ ~Immediate(m) /\ AddItem(m)
  <2> DEFINE q == pending \cup {m}
  <2>1. CASE pending' = {} /\ driver' = Freed(driver, q)
    BY <1>3, <2>1 DEF Finalize, TypeOK, Freed
  <2>2. CASE pending' = q /\ UNCHANGED driver
    BY <1>3, <2>2 DEF Finalize, TypeOK
  <2> QED BY <1>3, <2>1, <2>2 DEF AddItem
<1> QED BY <1>1, <1>2, <1>3 DEF Finalize

\* clear() empties the queue into the driver or changes nothing.
LEMMA AfterClearEffect ==
  ASSUME TypeOK
  PROVE  /\ AfterClear.queue \subseteq pending
         /\ AfterClear.driver \in [Mem -> {"none", "live", "freed"}]
         /\ \A x \in Mem : \/ AfterClear.driver[x] = driver[x]
                           \/ /\ x \in pending /\ x \notin AfterClear.queue
                              /\ AfterClear.driver[x] = "freed"
BY DEF AfterClear, Freed, TypeOK

(***************************************************************************)
(* The invariant is inductive.                                             *)
(***************************************************************************)
\* The strengthened invariant holds of every reachable state.
LEMMA Invariance == Spec => []IInv
<1> USE DEF IInv, TypeOK, Fresh, FinalizerGuards, TableIsComplete, TableIsTracked,
            OwnersKeepFinalizer, RefctIsOwners, TableIsOwned, QueuedOnce, Owners,
            Collected
<1>1. Init => IInv
  BY ConstantsAssumption DEF Init
<1>2. IInv /\ [Next]_vars => IInv'
  <2> SUFFICES ASSUME IInv, [Next]_vars
               PROVE  IInv'
    OBVIOUS
  <2>1. ASSUME NEW m \in Mem, Alloc(m)
        PROVE  IInv'
    BY <2>1 DEF Alloc, NewOwner
  <2>2. ASSUME NEW m \in Mem, AllocRetry(m)
        PROVE  IInv'
    BY <2>2, AfterClearEffect DEF AllocRetry, NewOwner
  <2>3. ASSUME NEW m \in Mem, AllocFails(m)
        PROVE  IInv'
    BY <2>3, AfterClearEffect DEF AllocFails
  <2>4. ASSUME NEW m \in Mem, View(m)
        PROVE  IInv'
    BY <2>4 DEF View, NoFinalizer
  <2>5. ASSUME NEW m \in Mem, DropPlain(m)
        PROVE  IInv'
    <3>1. CASE Collected(m)
      BY <2>5, <3>1 DEF DropPlain, NoFinalizer
    <3>2. CASE ~Collected(m) /\ ~(refct[m] = 1 /\ finalizer[m])
      BY <2>5, <3>2 DEF DropPlain, NoFinalizer
    <3>3. CASE ~Collected(m) /\ refct[m] = 1 /\ finalizer[m]
      <4>1. Finalize(m) /\ m \notin pending /\ plain[m] = 1 /\ views[m] = 0
        BY <2>5, <3>3 DEF DropPlain
      <4>2. Finalized(m)
        BY <4>1, FinalizeEffect
      <4> QED BY <2>5, <3>3, <4>1, <4>2 DEF DropPlain, Finalized
    <3> QED BY <3>1, <3>2, <3>3
  <2>6. ASSUME NEW m \in Mem, DropView(m)
        PROVE  IInv'
    <3> DEFINE last == refct[m] = 1 \/ (views[m] = 1 /\ m \notin allocations)
    <3>1. CASE ~(finalizer[m] /\ last)
      BY <2>6, <3>1 DEF DropView, NoFinalizer
    <3>2. CASE finalizer[m] /\ last
      <4>1. Finalize(m) /\ m \notin pending /\ views[m] = 1
        BY <2>6, <3>2 DEF DropView
      <4>2. Finalized(m)
        BY <4>1, FinalizeEffect
      <4> QED BY <2>6, <3>2, <4>1, <4>2 DEF DropView, Finalized
    <3> QED BY <3>1, <3>2
  <2>7. ASSUME NEW m \in Mem, DropPinned(m)
        PROVE  IInv'
    <3>1. Finalize(m) /\ m \notin pending
      BY <2>7 DEF DropPinned
    <3>2. Finalized(m)
      BY <3>1, FinalizeEffect
    <3> QED BY <2>7, <3>1, <3>2 DEF DropPinned, Finalized
  <2>8. ASSUME NEW m \in Mem, Free(m)
        PROVE  IInv'
    <3>1. Finalize(m) /\ m \notin pending
      BY <2>8 DEF Free
    <3>2. Finalized(m)
      BY <3>1, FinalizeEffect
    <3> QED BY <2>8, <3>1, <3>2 DEF Free, Finalized
  <2>9. CASE Reset
    <3> DEFINE gone == {x \in allocations : views[x] = 0}
               now  == {x \in gone : Immediate(x)}
    <3>1.    /\ allocations' = {}
             /\ finalizer' = [x \in Mem |-> finalizer[x] /\ x \notin gone]
             /\ dropped' = dropped \cup allocations
             /\ \/ /\ pending' = pending \cup (gone \ now)
                   /\ driver' = Freed(driver, now)
                \/ /\ pending' = {}
                   /\ driver' = Freed(driver, pending \cup (gone \ now) \cup now)
             /\ UNCHANGED <<deferred, refct, plain, views, forced>>
      BY <2>9 DEF Reset
    <3>2. /\ pending' \subseteq pending \cup gone
          /\ driver' \in [Mem -> {"none", "live", "freed"}]
          /\ \A x \in Mem : \/ driver'[x] = driver[x]
                            \/ /\ x \in pending \cup gone /\ x \notin pending'
                               /\ driver'[x] = "freed"
      <4>1. now \subseteq gone /\ gone \subseteq Mem /\ gone \cap pending = {}
        OBVIOUS
      <4> HIDE DEF gone, now
      <4>2. CASE pending' = {} /\ driver' = Freed(driver, pending \cup (gone \ now) \cup now)
        BY <4>1, <4>2 DEF Freed, TypeOK
      <4>3. CASE pending' = pending \cup (gone \ now) /\ driver' = Freed(driver, now)
        BY <4>1, <4>3 DEF Freed, TypeOK
      <4> QED BY <3>1, <4>2, <4>3
    <3>3. /\ gone \subseteq allocations
          /\ \A x \in gone : views[x] = 0
          /\ \A x \in allocations : x \notin gone => views[x] > 0
      OBVIOUS
    <3> HIDE DEF gone, now
    <3>4. TypeOK' /\ Fresh' /\ TableIsTracked'
      BY <3>1, <3>2, <3>3
    <3>5. FinalizerGuards' /\ QueuedOnce' /\ TableIsOwned'
      BY <3>1, <3>2, <3>3
    <3>6. TableIsComplete'
      <4> SUFFICES ASSUME NEW x \in Mem, finalizer'[x], Tracked(x)
                   PROVE  x \in dropped' /\ x \notin allocations' /\ views'[x] > 0
        BY <3>1
      <4>1. finalizer[x] /\ x \notin gone
        BY <3>1
      <4> QED BY <3>1, <3>3, <4>1
    <3>7. OwnersKeepFinalizer'
      BY <3>1, <3>2, <3>3
    <3>8. RefctIsOwners'
      BY <3>1, <3>2, <3>3
    <3> QED BY <3>4, <3>5, <3>6, <3>7, <3>8
  <2>10. CASE Defer \/ EndDefer
    BY <2>10, ConstantsAssumption DEF Defer, EndDefer
  <2>11. CASE UNCHANGED vars
    BY <2>11 DEF vars
  <2> QED BY <2>1, <2>2, <2>3, <2>4, <2>5, <2>6, <2>7, <2>8, <2>9, <2>10, <2>11
          DEF Next
<1> QED
  BY <1>1, <1>2, PTL DEF Spec

\* Every variable of the memory manager keeps its type; refct never goes below
\* zero, which OwnedPointer's deref() asserts.
THEOREM Typing == Spec => []TypeOK
<1>1. IInv => TypeOK
  BY DEF IInv
<1> QED BY <1>1, Invariance, PTL

\* Memory with an owner is never freed behind the owner's back.
THEOREM NoUseAfterFree == Spec => []OwnersKeepMemory
<1>1. IInv => OwnersKeepMemory
  BY DEF IInv, OwnersKeepFinalizer, FinalizerGuards, OwnersKeepMemory
<1> QED BY <1>1, Invariance, PTL

\* No allocation is handed to a destructor twice, and none that the driver does
\* not know.
THEOREM NoDoubleFree == Spec => []QueuedOnce
<1>1. IInv => QueuedOnce
  BY DEF IInv
<1> QED BY <1>1, Invariance, PTL

\* The reference count is exact and no entry of the table outlives its owners.
THEOREM CountsAreExact == Spec => [](RefctIsOwners /\ TableIsOwned)
<1>1. IInv => RefctIsOwners /\ TableIsOwned
  BY DEF IInv
<1> QED BY <1>1, Invariance, PTL

(***************************************************************************)
(* The manager implements Disposal.                                        *)
(***************************************************************************)
\* What a step may do to the queue and to what the driver has got back: queued
\* memory has been given back or still waits, and nothing is given back twice.
\* In a deferred block only registrations, which are never queued, are undone.
Disposed ==
  /\ pending \subseteq pending' \cup {m \in Mem : driver'[m] = "freed"}
  /\ \A m \in Mem : driver[m] = "freed" => driver'[m] = "freed"
  /\ deferred > 0 => \A m \in Queueable : driver'[m] = "freed" => driver[m] = "freed"

\* The queue never holds registrations.
QueueableOnly == pending \subseteq Queueable

\* A finalizer disposes of its own memory, and of what waits if it flushes.
LEMMA FinalizeDisposes ==
  ASSUME TypeOK, QueueableOnly, NEW m \in Mem, Finalize(m)
  PROVE  Disposed /\ QueueableOnly'
<1> USE DEF Disposed, QueueableOnly, Queueable, TypeOK
<1>1. CASE UNCHANGED <<pending, driver>>
  BY <1>1
<1>2. CASE Immediate(m) /\ driver' = Freed(driver, {m}) /\ UNCHANGED pending
  BY <1>2 DEF Freed
<1>3. CASE ~Immediate(m) /\ AddItem(m)
  BY <1>3 DEF AddItem, Freed
<1> QED BY <1>1, <1>2, <1>3 DEF Finalize

LEMMA AfterClearDisposes ==
  ASSUME TypeOK, QueueableOnly, QueuedOnce,
         pending' = AfterClear.queue,
         \A m \in Mem : driver'[m] = AfterClear.driver[m] \/ (driver[m] = "none" /\ driver'[m] = "live")
  PROVE  Disposed /\ QueueableOnly'
<1> USE DEF Disposed, QueueableOnly, Queueable, QueuedOnce, TypeOK, AfterClear, Freed
<1>1. CASE deferred > 0
  BY <1>1
<1>2. CASE ~(deferred > 0)
  BY <1>2
<1> QED BY <1>1, <1>2

\* Every step of the manager disposes of memory as it should.
LEMMA StepDisposes ==
  ASSUME IInv, QueueableOnly, Next
  PROVE  Disposed /\ QueueableOnly'
<1> USE DEF IInv, TypeOK
<1>1. ASSUME NEW m \in Mem, Alloc(m)
      PROVE  Disposed /\ QueueableOnly'
  BY <1>1 DEF Alloc, Disposed, QueueableOnly
<1>2. ASSUME NEW m \in Mem, AllocRetry(m) \/ AllocFails(m)
      PROVE  Disposed /\ QueueableOnly'
  <2>1. CASE UNCHANGED <<pending, driver>>
    BY <2>1 DEF Disposed, QueueableOnly
  <2>2. CASE /\ pending' = AfterClear.queue
             /\ driver[m] = "none"
             /\ driver' \in {AfterClear.driver, [AfterClear.driver EXCEPT ![m] = "live"]}
    <3>1. m \notin pending
      BY <2>2 DEF Fresh
    <3>2. \A x \in Mem : driver'[x] = AfterClear.driver[x]
                          \/ (driver[x] = "none" /\ driver'[x] = "live")
      BY <2>2, AfterClearEffect
    <3> QED BY <2>2, <3>2, AfterClearDisposes
  <2> QED BY <1>2, <2>1, <2>2 DEF AllocRetry, AllocFails, OutOfMemory
<1>3. ASSUME NEW m \in Mem, View(m) \/ DropPlain(m) \/ DropView(m) \/ DropPinned(m) \/ Free(m)
      PROVE  Disposed /\ QueueableOnly'
  <2>1. CASE UNCHANGED <<pending, driver>>
    BY <2>1 DEF Disposed, QueueableOnly
  <2>2. CASE Finalize(m)
    BY <2>2, FinalizeDisposes
  <2> QED BY <1>3, <2>1, <2>2 DEF View, DropPlain, DropView, DropPinned, Free, NoFinalizer
<1>4. CASE Reset
  <2> DEFINE gone == {x \in allocations : views[x] = 0}
             now  == {x \in gone : Immediate(x)}
             q    == pending \cup (gone \ now)
  <2>1. \/ deferred > 0 /\ pending' = q /\ driver' = Freed(driver, now)
        \/ ~(deferred > 0) /\ pending' = {} /\ driver' = Freed(driver, q \cup now)
    BY <1>4 DEF Reset
  <2>2. q \subseteq Queueable \cup pending /\ now \subseteq Mem \ Queueable /\ pending \subseteq q
    BY DEF Queueable
  <2> HIDE DEF gone, now, q
  <2> QED BY <2>1, <2>2 DEF Disposed, QueueableOnly, Queueable, Freed
<1>5. CASE Defer \/ EndDefer
  BY <1>5 DEF Defer, EndDefer, Disposed, QueueableOnly
<1> QED BY <1>1, <1>2, <1>3, <1>4, <1>5 DEF Next

LEMMA AlwaysQueueable == Spec => []QueueableOnly
<1>1. Init => QueueableOnly
  BY DEF Init, QueueableOnly
<1>2. IInv /\ QueueableOnly /\ [Next]_vars => QueueableOnly'
  BY StepDisposes DEF vars, QueueableOnly
<1> QED
  BY <1>1, <1>2, Invariance, PTL DEF Spec

\* A step that opens or closes a deferred block does nothing else.
LEMMA DeferredSteps ==
  ASSUME Next, deferred' # deferred
  PROVE  UNCHANGED <<pending, driver>>
BY DEF Next, Alloc, AllocRetry, AllocFails, NewOwner, View, DropPlain, DropView, DropPinned, Free,
       Reset, Defer, EndDefer

\* To its allocations, for any sizes, kinds, owners, resets and deferred blocks,
\* the memory manager keeps the promises of Disposal: memory in the queue is
\* given back once, and never inside defer_cleanup.
THEOREM Implements == Spec => Disposes
<1> DEFINE gone == {m \in Queueable : driver[m] = "freed"}
           deferring == IF deferred > 0 THEN {"manager"} ELSE {}
<1>1. Init => Queue!Init
  BY DEF Init, Queue!Init, Queueable
<1>2. ASSUME IInv, IInv', QueueableOnly, QueueableOnly', [Next]_vars
      PROVE  [Queue!Next]_(Queue!vars)
  <2>1. CASE Next /\ deferred' = deferred
    <3>1. Disposed
      BY <1>2, <2>1, StepDisposes
    <3>2. \A m \in pending' : driver'[m] = "live"
      BY <1>2 DEF IInv, QueuedOnce
    <3>3. /\ pending' \in SUBSET Queueable /\ gone' \in SUBSET Queueable
          /\ pending' \cap gone' = {}
      BY <1>2, <3>2 DEF QueueableOnly
    <3>4. pending \subseteq pending' \cup gone' /\ gone \subseteq gone'
      BY <1>2, <3>1 DEF Disposed, QueueableOnly, Queueable
    <3>5. "manager" \in deferring => gone' = gone
      BY <3>1, <3>4 DEF Disposed
    <3>6. Queue!Dispose("manager")
      BY <2>1, <3>3, <3>4, <3>5 DEF Queue!Dispose
    <3> QED
      BY <3>6 DEF Queue!Next
  <2>2. CASE Next /\ deferred' # deferred
    <3>1. UNCHANGED <<pending, gone>>
      BY <2>2, DeferredSteps
    <3>2. CASE deferred' > 0
      <4>1. deferring' = deferring \cup {"manager"}
        BY <3>2
      <4> QED
        BY <3>1, <4>1 DEF Queue!Next, Queue!Defer
    <3>3. CASE ~(deferred' > 0)
      <4>1. deferring' = deferring \ {"manager"}
        BY <3>3
      <4> QED
        BY <3>1, <4>1 DEF Queue!Next, Queue!Resume
    <3> QED
      BY <3>2, <3>3
  <2>3. CASE UNCHANGED vars
    BY <2>3 DEF vars, Queue!vars
  <2> QED
    BY <1>2, <2>1, <2>2, <2>3
<1> QED
  BY <1>1, <1>2, Invariance, AlwaysQueueable, PTL DEF Spec, Disposes, Queue!Spec
(***************************************************************************)
(* No memory is forgotten.  Memory that lost its finalizer is queued or    *)
(* freed, unless the finalizer raised: that takes a reset that emptied the *)
(* table, a later allocation in it, and a finalizer that looks for its key *)
(* without a default: that of host memory mapped for the device.          *)
(***************************************************************************)
Remembered ==
  \A m \in Mem : driver[m] = "live" /\ ~finalizer[m] /\ ~Escaped(m) => m \in pending

\* Pinned memory and registrations outside the table live by their only owner.
HeldByOwners ==
  \A m \in Mem : finalizer[m] /\ ~Tracked(m) => plain[m] > 0

\* A finalizer that raises is that of mapped memory that a reset took from the
\* table while a view kept it alive.
LEMMA FinalizeRemembers ==
  ASSUME IInv, HeldByOwners, NEW m \in Mem, finalizer[m], Finalize(m)
  PROVE  /\ finalizer' = [finalizer EXCEPT ![m] = FALSE]
         /\ \/ Escaped(m) /\ UNCHANGED <<pending, driver>>
            \/ driver'[m] = "freed" \/ m \in pending'
         /\ \A x \in Mem : \/ driver'[x] = driver[x]
                           \/ driver'[x] = "freed"
         /\ \A x \in pending : x \in pending' \/ driver'[x] = "freed"
<1> USE DEF IInv, TypeOK
<1>1. CASE KeyMissing(m) /\ UNCHANGED <<pending, driver>>
  <2>1. Strict(m) /\ Tracked(m) /\ m \notin allocations
    BY <1>1 DEF KeyMissing, Strict, Tracked
  <2>2. m \in dropped
    BY <2>1 DEF TableIsComplete
  <2> QED BY <1>1, <2>1, <2>2 DEF Finalize, Escaped
<1>2. CASE Immediate(m) /\ driver' = Freed(driver, {m}) /\ UNCHANGED pending
  BY <1>2 DEF Finalize, Freed
<1>3. CASE AddItem(m)
  BY <1>3 DEF Finalize, AddItem, Freed
<1> QED BY <1>1, <1>2, <1>3 DEF Finalize

\* Nothing but the end of an owner, free() and a reset takes a finalizer away,
\* and what they leave is queued, freed, or lost to a reset.
LEMMA AlwaysRemembered == Spec => [](Remembered /\ HeldByOwners)
<1>1. Init => Remembered /\ HeldByOwners
  BY DEF Init, Remembered, HeldByOwners
<1>2. IInv /\ IInv' /\ Remembered /\ HeldByOwners /\ [Next]_vars => (Remembered /\ HeldByOwners)'
  <2> SUFFICES ASSUME IInv, IInv', Remembered, HeldByOwners, [Next]_vars
               PROVE  Remembered' /\ HeldByOwners'
    OBVIOUS
  <2> USE DEF IInv, TypeOK, Remembered, HeldByOwners
  <2>1. ASSUME NEW m \in Mem, Alloc(m)
        PROVE  Remembered' /\ HeldByOwners'
    BY <2>1 DEF Alloc, NewOwner, Escaped, Strict
  <2>2. ASSUME NEW m \in Mem, AllocRetry(m)
        PROVE  Remembered' /\ HeldByOwners'
    BY <2>2 DEF AllocRetry, NewOwner, AfterClear, Freed, Escaped, Strict
  <2>3. ASSUME NEW m \in Mem, AllocFails(m)
        PROVE  Remembered' /\ HeldByOwners'
    BY <2>3 DEF AllocFails, AfterClear, Freed, Escaped, Strict
  <2>4. ASSUME NEW m \in Mem, View(m)
        PROVE  Remembered' /\ HeldByOwners'
    BY <2>4 DEF View, NoFinalizer, Escaped, Strict
  <2>5. ASSUME NEW m \in Mem, DropPlain(m) \/ DropView(m), NoFinalizer
        PROVE  Remembered' /\ HeldByOwners'
    BY <2>5 DEF DropPlain, DropView, NoFinalizer, Escaped, Strict, Tracked
  <2>6. ASSUME NEW m \in Mem,
               \/ DropPlain(m) \/ DropView(m) \/ DropPinned(m) \/ Free(m),
               finalizer[m], Finalize(m)
        PROVE  Remembered' /\ HeldByOwners'
    <3>1. /\ UNCHANGED dropped
          /\ \A x \in Mem \ {m} : plain'[x] = plain[x]
      BY <2>6 DEF DropPlain, DropView, DropPinned, Free
    <3>2. Remembered'
      BY <2>6, <3>1, FinalizeRemembers DEF Escaped, Strict
    <3>3. HeldByOwners'
      BY <2>6, <3>1, FinalizeRemembers
    <3> QED BY <3>2, <3>3
  <2>7. ASSUME NEW m \in Mem, DropPinned(m), ~finalizer[m]
        PROVE  FALSE
    BY <2>7 DEF DropPinned, OwnersKeepFinalizer, TableIsTracked
  <2>8. CASE Reset
    <3> DEFINE gone == {x \in allocations : views[x] = 0}
               now  == {x \in gone : Immediate(x)}
    <3>1. /\ finalizer' = [x \in Mem |-> finalizer[x] /\ x \notin gone]
          /\ dropped' = dropped \cup allocations
          /\ \/ /\ pending' = pending \cup (gone \ now)
                /\ driver' = Freed(driver, now)
             \/ /\ pending' = {}
                /\ driver' = Freed(driver, pending \cup (gone \ now) \cup now)
          /\ UNCHANGED <<plain, views>>
      BY <2>8 DEF Reset
    <3>2. now \subseteq gone /\ \A x \in gone : Tracked(x)
      BY DEF TableIsTracked
    <3> HIDE DEF gone, now
    <3>3. Remembered'
      BY <3>1, <3>2 DEF Freed, Escaped, Strict
    <3>4. HeldByOwners'
      BY <3>1
    <3> QED BY <3>3, <3>4
  <2>9. CASE Defer \/ EndDefer
    BY <2>9 DEF Defer, EndDefer, Escaped, Strict
  <2>10. CASE UNCHANGED vars
    BY <2>10 DEF vars, Escaped, Strict
  <2>11. ASSUME NEW m \in Mem, DropPlain(m) \/ DropView(m)
         PROVE  NoFinalizer \/ (finalizer[m] /\ Finalize(m))
    BY <2>11 DEF DropPlain, DropView
  <2>12. ASSUME NEW m \in Mem, DropPinned(m) \/ Free(m)
         PROVE  finalizer[m] /\ Finalize(m)
    BY <2>7, <2>12 DEF DropPinned, Free
  <2> QED BY <2>1, <2>2, <2>3, <2>4, <2>5, <2>6, <2>8, <2>9, <2>10, <2>11, <2>12 DEF Next
<1> QED
  BY <1>1, <1>2, Invariance, PTL DEF Spec

\* Memory whose last owner is gone is queued or freed, for any number of
\* allocations, views, failed allocations, resets and deferred blocks, mapped
\* memory, allocated or registered, that a reset took from the table excepted.
THEOREM NothingIsForgotten == Spec => []NothingForgotten
<1>1. IInv /\ Remembered /\ HeldByOwners => NothingForgotten
  <2> SUFFICES ASSUME IInv, Remembered, HeldByOwners, NEW m \in Mem,
                      driver[m] = "live", Owners(m) = 0, ~Escaped(m)
               PROVE  m \in pending
    BY DEF NothingForgotten
  <2>1. plain[m] = 0 /\ views[m] = 0
    BY DEF IInv, TypeOK, Owners
  <2>2. ~finalizer[m]
    BY <2>1 DEF IInv, HeldByOwners, TableIsComplete, TableIsOwned, Owners
  <2> QED BY <2>2 DEF Remembered
<1> QED BY <1>1, Invariance, AlwaysRemembered, PTL
(***************************************************************************)
(* Out of memory.  Outside deferred blocks clear() gives back all that     *)
(* waits, and by NothingForgotten what is left has owners.                 *)
(***************************************************************************)
BytesOf(S) == UNION {{m} \X (1..Size[m]) : m \in S}

\* Finitely many allocations have finitely many bytes.
LEMMA BytesAreFinite ==
  ASSUME NEW S \in SUBSET Mem
  PROVE  IsFiniteSet(BytesOf(S)) /\ Bytes(S) = Cardinality(BytesOf(S)) /\ Bytes(S) \in Nat
<1> DEFINE f == [m \in S |-> {m} \X (1..Size[m])]
           T == {{m} \X (1..Size[m]) : m \in S}
<1>1. IsFiniteSet(S)
  BY ConstantsAssumption, FS_Subset
<1>2. f \in Surjection(S, T)
  BY DEF Surjection
<1>3. IsFiniteSet(T)
  BY <1>1, <1>2, FS_Surjection
<1>4. ASSUME NEW m \in S
      PROVE  IsFiniteSet({m} \X (1..Size[m]))
  <2>1. Size[m] \in Nat
    BY ConstantsAssumption
  <2>2. IsFiniteSet({m})
    BY FS_Singleton
  <2>3. IsFiniteSet(1..Size[m])
    BY <2>1, FS_Interval
  <2> QED BY <2>2, <2>3, FS_Product
<1>5. IsFiniteSet(UNION T)
  BY <1>3, <1>4, FS_UNION
<1> QED
  BY <1>5, FS_CardinalityType DEF BytesOf, Bytes

\* More allocations have no fewer bytes.
LEMMA BytesMonotonic ==
  ASSUME NEW S \in SUBSET Mem, NEW T \in SUBSET S
  PROVE  Bytes(T) <= Bytes(S)
<1>1. BytesOf(T) \subseteq BytesOf(S)
  BY DEF BytesOf
<1> QED
  BY <1>1, BytesAreFinite, FS_Subset

\* An allocation outside deferred blocks fails only when memory that has owners,
\* or that a reset lost, leaves no room: for any sizes, limits of the queue and
\* capacities, memory that nobody uses is given back first.
THEOREM FailsOnlyForOwners == Spec => []FailsOnlyWhenOwned
<1>1. IInv /\ NothingForgotten => FailsOnlyWhenOwned
  <2> SUFFICES ASSUME IInv, NothingForgotten, NEW m \in Mem,
                      OutOfMemory(m), Tracked(m), deferred = 0
               PROVE  Size[m] + Bytes({x \in Allocated(driver, Pool(m)) : Owners(x) > 0 \/ Escaped(x)})
                        > Capacity[Pool(m)]
    BY DEF FailsOnlyWhenOwned
  <2> DEFINE left  == Allocated(AfterClear.driver, Pool(m))
             owned == {x \in Allocated(driver, Pool(m)) : Owners(x) > 0 \/ Escaped(x)}
  <2>1. AfterClear.driver = Freed(driver, pending)
    BY DEF AfterClear
  <2>2. \A x \in Mem : Owners(x) \in Nat
    BY DEF IInv, TypeOK, Owners
  <2>3. \A x \in left : driver[x] = "live" /\ x \notin pending /\ x \in Allocated(driver, Pool(m))
    BY <2>1 DEF Allocated, Freed
  <2>4. left \subseteq owned
    BY <2>2, <2>3 DEF NothingForgotten, Allocated
  <2>5. owned \in SUBSET Mem
    BY DEF Allocated
  <2>6. ~(Bytes(left) + Size[m] <= Capacity[Pool(m)])
    BY DEF OutOfMemory, Fits
  <2>7. Size[m] \in Nat /\ Capacity[Pool(m)] \in Nat
    BY ConstantsAssumption DEF Pool
  <2> HIDE DEF left, owned
  <2>8. Bytes(left) <= Bytes(owned) /\ Bytes(left) \in Nat /\ Bytes(owned) \in Nat
    BY <2>4, <2>5, BytesMonotonic, BytesAreFinite
  <2>9. Size[m] + Bytes(owned) > Capacity[Pool(m)]
    BY <2>6, <2>7, <2>8
  <2> QED
    BY <2>9 DEF owned
<1> QED BY <1>1, Invariance, NothingIsForgotten, PTL
=============================================================================
