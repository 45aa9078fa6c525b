----------------------------- MODULE DeviceMemory -----------------------------
(***************************************************************************)
(* The life of memory handed out by a context's memory manager             *)
(* (NumbaCUDAMemoryManager and HostOnlyCUDAMemoryManager of                *)
(* cudadrv/driver.py): allocation with the retry after an out-of-memory    *)
(* error, the reference counts kept by OwnedPointer, the finalizers, the   *)
(* queue of pending deallocations, deferral and Context.reset.             *)
(*                                                                         *)
(* One action is one call as its caller sees it; PendingDeallocs looks     *)
(* inside the queue.  Destructors succeed here and one thread runs.        *)
(***************************************************************************)
EXTENDS Integers, FiniteSets

CONSTANTS Mem,         \* allocations, each made once
          Kind,        \* how each is allocated
          Size,        \* its bytes
          Capacity,    \* bytes of each pool of the driver
          Count,       \* config.CUDA_DEALLOCS_COUNT
          MaxBytes,    \* _max_pending_bytes
          MaxOwners,   \* bound: owners of one allocation
          MaxDeferred  \* bound: nesting of defer_cleanup

Kinds == {"device",    \* memalloc, memallocmanaged
          "mapped",    \* memhostalloc(mapped=True)
          "pinned",    \* memhostalloc(mapped=False)
          "mappin",    \* mempin(mapped=True)
          "pin"}       \* mempin(mapped=False)

ASSUME ConstantsAssumption ==
         /\ IsFiniteSet(Mem)
         /\ Kind \in [Mem -> Kinds]
         /\ Size \in [Mem -> Nat]
         /\ Capacity \in [{"device", "host"} -> Nat]
         /\ Count \in Nat /\ MaxBytes \in Nat
         /\ MaxOwners \in Nat /\ MaxDeferred \in Nat

VARIABLES allocations,  \* the table of the memory manager
          pending,      \* its deallocation queue
          deferred,     \* its _disable_count
          driver,       \* what the CUDA driver has of each allocation
          refct,        \* MemoryPointer.refct
          plain, views, \* OwnedPointers without and with a view of their own
          finalizer,    \* MemoryPointer._finalizer.alive
          forced,       \* history: freed by free()
          dropped       \* history: in the table when it was reset

vars == <<allocations, pending, deferred, driver, refct, plain, views,
          finalizer, forced, dropped>>

\* Kept in the table, reference counted, and retried when out of memory.
Tracked(m) == Kind[m] \in {"device", "mapped", "mappin"}

\* The finalizer undoes the registration at once, without the queue.
Immediate(m) == Kind[m] \in {"mappin", "pin"}

\* The finalizer says "if allocations: del allocations[key]", where that of
\* device memory says "allocations.pop(key, None)".
Strict(m) == Kind[m] \in {"mapped", "mappin"}

Pool(m) == IF Kind[m] = "device" THEN "device" ELSE "host"

\* The bytes of a set of allocations, counted one by one.
Bytes(S) == Cardinality(UNION {{m} \X (1..Size[m]) : m \in S})

\* Registering memory of the host (mempin) allocates none.
Allocated(d, pool) == {m \in Mem : d[m] = "live" /\ ~Immediate(m) /\ Pool(m) = pool}

Fits(m, d) == Immediate(m) \/ Bytes(Allocated(d, Pool(m))) + Size[m] <= Capacity[Pool(m)]

Freed(d, S) == [m \in Mem |-> IF m \in S THEN "freed" ELSE d[m]]

\* Pinned host memory is queued with an unknown size.
QueuedBytes(S) == Bytes({m \in S : Kind[m] # "pinned"})

Overflows(q) == Cardinality(q) > Count \/ QueuedBytes(q) > MaxBytes

\* The MemoryPointer has no strong reference left: neither the table nor the
\* owner of a view.  Pinned memory is its own owner.
Collected(m) == m \notin allocations /\ views[m] = 0

Init == /\ allocations = {} /\ pending = {} /\ deferred = 0
        /\ driver = [m \in Mem |-> "none"]
        /\ refct = [m \in Mem |-> 0]
        /\ plain = [m \in Mem |-> 0]
        /\ views = [m \in Mem |-> 0]
        /\ finalizer = [m \in Mem |-> FALSE]
        /\ forced = {} /\ dropped = {}

-----------------------------------------------------------------------------
(* Allocation.                                                             *)

NewOwner(m) == /\ plain' = [plain EXCEPT ![m] = 1]
               /\ refct' = [refct EXCEPT ![m] = IF Tracked(m) THEN 1 ELSE 0]
               /\ finalizer' = [finalizer EXCEPT ![m] = TRUE]
               /\ allocations' = IF Tracked(m) THEN allocations \cup {m} ELSE allocations
               /\ UNCHANGED <<deferred, views, forced, dropped>>

\* The driver has room at the first attempt.
Alloc(m) == /\ driver[m] = "none"
            /\ Fits(m, driver)
            /\ driver' = [driver EXCEPT ![m] = "live"]
            /\ NewOwner(m)
            /\ UNCHANGED pending

\* Variant: clear() does nothing.
AfterNothing == [queue |-> pending, driver |-> driver]

\* What clear() leaves of the queue and of the driver's memory.
AfterClear == IF deferred > 0 THEN [queue |-> pending, driver |-> driver]
              ELSE [queue |-> {}, driver |-> Freed(driver, pending)]

\* _attempt_allocation: out of memory, clear(), and the retry succeeds.
AllocRetry(m) == /\ driver[m] = "none" /\ Tracked(m)
                 /\ ~Fits(m, driver)
                 /\ Fits(m, AfterClear.driver)
                 /\ driver' = [AfterClear.driver EXCEPT ![m] = "live"]
                 /\ pending' = AfterClear.queue
                 /\ NewOwner(m)

\* Out of memory, and no retry (pinned memory) or a retry that fails too.
OutOfMemory(m) == /\ driver[m] = "none"
                  /\ ~Fits(m, driver)
                  /\ Tracked(m) => ~Fits(m, AfterClear.driver)

\* The error is raised.
AllocFails(m) ==
  /\ OutOfMemory(m)
  /\ IF Tracked(m) THEN driver' = AfterClear.driver /\ pending' = AfterClear.queue
                   ELSE UNCHANGED <<driver, pending>>
  /\ UNCHANGED <<allocations, deferred, refct, plain, views, finalizer, forced, dropped>>

-----------------------------------------------------------------------------
(* Finalizers.                                                             *)

\* Variant: a queue over its limits is flushed inside a deferred block too.
AddItemUndeferred(m) ==
  LET q == pending \cup {m}
  IN  IF Overflows(q) THEN pending' = {} /\ driver' = Freed(driver, q)
                      ELSE pending' = q /\ UNCHANGED driver

\* deallocations.add_item(dtor, m, size)
AddItem(m) ==
  LET q == pending \cup {m}
  IN  IF deferred = 0 /\ Overflows(q)
      THEN pending' = {} /\ driver' = Freed(driver, q)
      ELSE pending' = q /\ UNCHANGED driver

\* A strict finalizer that does not find its key in a table that is not empty
\* raises KeyError before it reaches the queue or the driver.
KeyMissing(m) == Strict(m) /\ allocations # {} /\ m \notin allocations

\* core() of _alloc_finalizer, _hostalloc_finalizer and _pin_finalizer.
Finalize(m) ==
  /\ finalizer' = [finalizer EXCEPT ![m] = FALSE]
  /\ allocations' = allocations \ {m}
  /\ \/ KeyMissing(m) /\ UNCHANGED <<pending, driver>>
     \/ ~KeyMissing(m) /\ Immediate(m) /\ driver' = Freed(driver, {m}) /\ UNCHANGED pending
     \/ ~KeyMissing(m) /\ ~Immediate(m) /\ AddItem(m)

NoFinalizer == UNCHANGED <<finalizer, allocations, pending, driver>>

-----------------------------------------------------------------------------
(* Owners.                                                                 *)

\* Variant: a view does not count as an owner.
ViewUncounted(m) == /\ Tracked(m)
                    /\ plain[m] + views[m] \in 1..(MaxOwners - 1)
                    /\ ~Collected(m)
                    /\ views' = [views EXCEPT ![m] = @ + 1]
                    /\ NoFinalizer
                    /\ UNCHANGED <<deferred, refct, plain, forced, dropped>>

\* gpu_data.view(start, stop): a new OwnedPointer whose view holds a strong
\* reference.  MappedMemory keeps the owner it is given to itself, so a view of
\* registered memory owns the registration as any other view does.
View(m) == /\ Tracked(m)
           /\ plain[m] + views[m] \in 1..(MaxOwners - 1)
           /\ ~Collected(m)
           /\ views' = [views EXCEPT ![m] = @ + 1]
           /\ refct' = [refct EXCEPT ![m] = @ + 1]
           /\ NoFinalizer
           /\ UNCHANGED <<deferred, plain, forced, dropped>>

\* The last strong reference to the table's object goes: deref() of a plain
\* OwnedPointer, a ReferenceError of its weak reference being ignored.
DropPlain(m) ==
  /\ Tracked(m) /\ plain[m] > 0
  /\ plain' = [plain EXCEPT ![m] = @ - 1]
  /\ IF Collected(m)
     THEN UNCHANGED refct /\ NoFinalizer
     ELSE /\ refct' = [refct EXCEPT ![m] = @ - 1]
          /\ IF refct[m] = 1 /\ finalizer[m] THEN Finalize(m) ELSE NoFinalizer
  /\ UNCHANGED <<deferred, views, forced, dropped>>

\* Variant: the end of a view never runs the finalizer.
DropViewLeaks(m) ==
  /\ views[m] > 0
  /\ views' = [views EXCEPT ![m] = @ - 1]
  /\ refct' = [refct EXCEPT ![m] = @ - 1]
  /\ NoFinalizer
  /\ UNCHANGED <<deferred, plain, forced, dropped>>

\* deref() of an OwnedPointer with a view, and then the end of the view's
\* strong reference: if that was the last one, the object is collected and
\* runs its finalizer whatever its count.
DropView(m) ==
  /\ views[m] > 0
  /\ views' = [views EXCEPT ![m] = @ - 1]
  /\ refct' = [refct EXCEPT ![m] = @ - 1]
  /\ IF finalizer[m] /\ (refct[m] = 1 \/ (views[m] = 1 /\ m \notin allocations))
     THEN Finalize(m) ELSE NoFinalizer
  /\ UNCHANGED <<deferred, plain, forced, dropped>>

\* The last reference to pinned memory goes.
DropPinned(m) == /\ ~Tracked(m) /\ plain[m] > 0
                 /\ plain' = [plain EXCEPT ![m] = 0]
                 /\ Finalize(m)
                 /\ UNCHANGED <<deferred, refct, views, forced, dropped>>

\* free(): "forces the device memory to the trash", as cuda.mapped does when
\* its block ends.  Freeing dead memory raises and changes nothing.
Free(m) == /\ Tracked(m) /\ plain[m] + views[m] > 0
           /\ ~Collected(m)
           /\ finalizer[m]
           /\ Finalize(m)
           /\ forced' = forced \cup {m}
           /\ UNCHANGED <<deferred, refct, plain, views, dropped>>

-----------------------------------------------------------------------------
(* The manager.                                                            *)

\* HostOnlyCUDAMemoryManager.reset: the table is emptied before the objects
\* it held are collected, so their finalizers find it empty; then clear().
Reset ==
  LET gone == {m \in allocations : views[m] = 0}
      now  == {m \in gone : Immediate(m)}
      q    == pending \cup (gone \ now)
  IN  /\ allocations' = {}
      /\ finalizer' = [m \in Mem |-> finalizer[m] /\ m \notin gone]
      /\ dropped' = dropped \cup allocations
      /\ IF deferred > 0 THEN pending' = q /\ driver' = Freed(driver, now)
                         ELSE pending' = {} /\ driver' = Freed(driver, q \cup now)
      /\ UNCHANGED <<deferred, refct, plain, views, forced>>

Defer == /\ deferred < MaxDeferred
         /\ deferred' = deferred + 1
         /\ UNCHANGED <<allocations, pending, driver, refct, plain, views, finalizer, forced, dropped>>

\* Leaving the block does not flush.
EndDefer == /\ deferred > 0
            /\ deferred' = deferred - 1
            /\ UNCHANGED <<allocations, pending, driver, refct, plain, views, finalizer, forced, dropped>>

Next == \/ \E m \in Mem : \/ Alloc(m) \/ AllocRetry(m) \/ AllocFails(m)
                          \/ View(m) \/ DropPlain(m) \/ DropView(m)
                          \/ DropPinned(m) \/ Free(m)
        \/ Reset \/ Defer \/ EndDefer

Spec == Init /\ [][Next]_vars
-----------------------------------------------------------------------------

Owners(m) == plain[m] + views[m]

\* Host memory mapped for the device, allocated or registered, that was in the
\* table when it was reset.
Escaped(m) == Strict(m) /\ m \in dropped

TypeOK == /\ allocations \subseteq Mem /\ pending \subseteq Mem /\ forced \subseteq Mem /\ dropped \subseteq Mem
          /\ deferred \in Nat
          /\ driver \in [Mem -> {"none", "live", "freed"}]
          /\ refct \in [Mem -> Nat]
          /\ plain \in [Mem -> Nat] /\ views \in [Mem -> Nat]
          /\ finalizer \in [Mem -> BOOLEAN]

\* No use after free: memory that nobody freed by hand is neither given back
\* nor on its way back while it has a view, even through a reset, or any other
\* owner unless a reset took it from the table (OwnedPointer, the finalizers).
OwnersKeepMemory ==
  \A m \in Mem \ forced :
     views[m] > 0 \/ (plain[m] > 0 /\ m \notin dropped)
       => driver[m] = "live" /\ m \notin pending

\* "When the last reference to a device memory is dropped, the underlying
\* memory is scheduled to be deallocated" (docs/source/user/memory.rst), mapped
\* host memory, allocated or registered, that a reset took from the table
\* excepted: through views, failed allocations, resets and nested deferred blocks
\* no memory and no registration is forgotten (OwnedPointer, the finalizers,
\* HostOnlyCUDAMemoryManager.reset).
NothingForgotten ==
  \A m \in Mem : driver[m] = "live" /\ Owners(m) = 0 /\ ~Escaped(m)
                  => m \in pending

\* The count that decides when to free is the number of owners, as long as
\* there is an object that keeps it (OwnedPointer's creation and deref).
RefctIsOwners ==
  \A m \in Mem : Tracked(m) /\ ~Collected(m) => refct[m] = Owners(m)

\* The table holds owned memory only: an entry that outlived its last owner
\* would pin the memory until the next reset (_alloc_finalizer).
TableIsOwned ==
  \A m \in allocations : Owners(m) > 0 /\ finalizer[m]

\* No double free: what waits in the queue is still the driver's, and no
\* finalizer is left that could queue it again (weakref.finalize, clear).
QueuedOnce ==
  \A m \in pending : driver[m] = "live" /\ ~finalizer[m]

\* The driver's error reaches the caller only when memory that still has
\* owners fills the device: an allocation outside deferred blocks never fails
\* for the sake of memory that nobody uses (_attempt_allocation).
FailsOnlyWhenOwned ==
  \A m \in Mem :
     OutOfMemory(m) /\ Tracked(m) /\ deferred = 0
       => Size[m] + Bytes({x \in Allocated(driver, Pool(m)) : Owners(x) > 0 \/ Escaped(x)})
            > Capacity[Pool(m)]

\* The registrations that are undone at once never meet the queue.
Queueable == {m \in Mem : ~Immediate(m)}

\* The queue of the manager as its allocations see it.
Queue == INSTANCE Disposal
           WITH Resource  <- Queueable,
                Party     <- {"manager"},
                waiting   <- pending,
                gone      <- {m \in Queueable : driver[m] = "freed"},
                deferring <- IF deferred > 0 THEN {"manager"} ELSE {}

\* Memory reaches the driver's free functions through the queue only, once, and
\* never inside defer_cleanup, be it by a full queue, an allocation that runs
\* out of memory, a reset, or two finalizers of one allocation (Disposal).
Disposes == Queue!Spec
=============================================================================
