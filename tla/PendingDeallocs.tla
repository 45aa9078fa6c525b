--------------------------- MODULE PendingDeallocs ---------------------------
(***************************************************************************)
(* The queue of pending deallocations of a context (class _PendingDeallocs *)
(* of cudadrv/driver.py), used by every thread that drops a CUDA resource. *)
(*                                                                         *)
(* A step is the code between two points at which CPython may hand the     *)
(* interpreter to another thread: the calls and the loop back-edges.  A    *)
(* finalizer that the garbage collector runs inside another call of the    *)
(* same thread is one more element of Thread.                              *)
(***************************************************************************)
EXTENDS Integers, Sequences, FiniteSets, SequencesExt

CONSTANTS Thread,      \* threads (and nested finalizers) using the queue
          Item,        \* resources, each finalized at most once
          Size,        \* bytes of a resource, 0 when unknown (_SizeNotSet)
          Count,       \* config.CUDA_DEALLOCS_COUNT
          MaxBytes,    \* _max_pending_bytes
          Faulty,      \* resources whose destructor may raise
          Block,       \* instances of "with disable()"
          NoItem

ASSUME ConstantsAssumption ==
         /\ Size \in [Item -> Nat]
         /\ Count \in Nat /\ MaxBytes \in Nat
         /\ Faulty \subseteq Item
         /\ NoItem \notin Item
         /\ IsFiniteSet(Block)

VARIABLES cons,            \* _cons, the deque
          size,            \* _size
          disable_count,   \* _disable_count
          open,            \* <<t, b>>: thread t is inside block b
          pc,              \* where each thread is in add_item / clear
          item,            \* the item a thread is adding or destroying
          tmp,             \* _size as read by the += of add_item
          added, destroyed, \* history: items handed to add_item, dtors called
          excuse           \* history: why the queue may be over its limits

vars == <<cons, size, disable_count, open, pc, item, tmp,
          added, destroyed, excuse>>

PC == {"idle", "read", "store", "test", "check", "loop", "pop", "dtor"}

\* Two "+=" of add_item overlapped, ever; since the last append, clear() found
\* itself disabled; since then, a destructor raised.
Excuses == {"overlap", "deferred", "failed"}

Pending == ToSet(cons)

\* The bytes of a set of resources, counted one by one.
Bytes(S) == Cardinality(UNION {{i} \X (1..Size[i]) : i \in S})

PendingBytes == Bytes(Pending)

Init == /\ cons = <<>>
        /\ size = 0
        /\ disable_count = 0
        /\ open = {}
        /\ pc = [t \in Thread |-> "idle"]
        /\ item = [t \in Thread |-> NoItem]
        /\ tmp = [t \in Thread |-> 0]
        /\ added = {} /\ destroyed = {} /\ excuse = {}

Goto(t, l) == pc' = [pc EXCEPT ![t] = l]

\* add_item(dtor, handle, size): the append.  The call is to make up for the
\* flushes that were refused or cut short before it.
AddItem(t, i) == /\ pc[t] = "idle"
                 /\ i \notin added
                 /\ added' = added \cup {i}
                 /\ cons' = Append(cons, i)
                 /\ item' = [item EXCEPT ![t] = i]
                 /\ Goto(t, "read")
                 /\ excuse' = excuse \ {"deferred", "failed"}
                 /\ UNCHANGED <<size, disable_count, open, tmp, destroyed>>

\* self._size += int(size): the read precedes the call of int().
ReadSize(t) == /\ pc[t] = "read"
               /\ tmp' = [tmp EXCEPT ![t] = size]
               /\ excuse' = IF \E u \in Thread : pc[u] = "store"
                            THEN excuse \cup {"overlap"} ELSE excuse
               /\ Goto(t, "store")
               /\ UNCHANGED <<cons, size, disable_count, open, item,
                              added, destroyed>>

\* The store, and the first operand of "or": len(self._cons) > COUNT.
StoreSize(t) == /\ pc[t] = "store"
                /\ size' = tmp[t] + Size[item[t]]
                /\ tmp' = [tmp EXCEPT ![t] = 0]
                /\ item' = [item EXCEPT ![t] = NoItem]
                /\ Goto(t, IF Len(cons) > Count THEN "check" ELSE "test")
                /\ UNCHANGED <<cons, disable_count, open,
                               added, destroyed, excuse>>

\* The second operand: self._size > self._max_pending_bytes.
TestBytes(t) == /\ pc[t] = "test"
                /\ Goto(t, IF size > MaxBytes THEN "check" ELSE "idle")
                /\ UNCHANGED <<cons, size, disable_count, open, item, tmp,
                               added, destroyed, excuse>>

\* clear() called by an allocation that ran out of memory, or by a reset.
CallClear(t) == /\ pc[t] = "idle"
                /\ Goto(t, "check")
                /\ UNCHANGED <<cons, size, disable_count, open, item, tmp,
                               added, destroyed, excuse>>

\* Variant: clear() does not look at is_disabled.
CheckNothing(t) == /\ pc[t] = "check"
                   /\ Goto(t, "loop")
                   /\ UNCHANGED <<cons, size, disable_count, open, item, tmp,
                                  added, destroyed, excuse>>

\* Variant: a flush that is refused resets the size all the same.
CheckDisabledForgetting(t) ==
  /\ pc[t] = "check"
  /\ \/ /\ disable_count > 0
        /\ Goto(t, "idle")
        /\ size' = 0
        /\ excuse' = excuse \cup {"deferred"}
     \/ /\ disable_count = 0
        /\ Goto(t, "loop")
        /\ UNCHANGED <<size, excuse>>
  /\ UNCHANGED <<cons, disable_count, open, item, tmp, added, destroyed>>

\* if not self.is_disabled: looked at once, before the loop.
CheckDisabled(t) ==
  /\ pc[t] = "check"
  /\ \/ /\ disable_count > 0
        /\ Goto(t, "idle")
        /\ excuse' = excuse \cup {"deferred"}
     \/ /\ disable_count = 0
        /\ Goto(t, "loop")
        /\ UNCHANGED excuse
  /\ UNCHANGED <<cons, size, disable_count, open, item, tmp,
                 added, destroyed>>

\* Variant: the entry is looked at and not removed.
Peek(t) == /\ pc[t] = "pop"
           /\ cons # <<>>
           /\ item' = [item EXCEPT ![t] = Head(cons)]
           /\ Goto(t, "dtor")
           /\ UNCHANGED <<cons, size, disable_count, open, tmp,
                          added, destroyed, excuse>>

\* while self._cons: true; another thread may run before the body.
TestPending(t) == /\ pc[t] = "loop"
                  /\ cons # <<>>
                  /\ Goto(t, "pop")
                  /\ UNCHANGED <<cons, size, disable_count, open, item, tmp,
                                 added, destroyed, excuse>>

\* popleft()
PopLeft(t) == /\ pc[t] = "pop"
              /\ cons # <<>>
              /\ item' = [item EXCEPT ![t] = Head(cons)]
              /\ cons' = Tail(cons)
              /\ Goto(t, "dtor")
              /\ UNCHANGED <<size, disable_count, open, tmp,
                             added, destroyed, excuse>>

\* popleft() of an entry that another flush took in between: the IndexError
\* leaves clear() and add_item().
PopFails(t) == /\ pc[t] = "pop"
               /\ cons = <<>>
               /\ Goto(t, "idle")
               /\ UNCHANGED <<cons, size, disable_count, open, item, tmp,
                              added, destroyed, excuse>>

\* The queue is empty: self._size = 0.
ResetSize(t) == /\ pc[t] = "loop"
                /\ cons = <<>>
                /\ size' = 0
                /\ Goto(t, "idle")
                /\ UNCHANGED <<cons, disable_count, open, item, tmp,
                               added, destroyed, excuse>>

\* dtor(handle) returns.
Destroy(t) == /\ pc[t] = "dtor"
              /\ destroyed' = destroyed \cup {item[t]}
              /\ item' = [item EXCEPT ![t] = NoItem]
              /\ Goto(t, "loop")
              /\ UNCHANGED <<cons, size, disable_count, open, tmp,
                             added, excuse>>

\* Variant: the size is reset although entries remain.
DestroyFailsResetting(t) ==
  /\ pc[t] = "dtor"
  /\ item[t] \in Faulty
  /\ destroyed' = destroyed \cup {item[t]}
  /\ excuse' = excuse \cup {"failed"}
  /\ item' = [item EXCEPT ![t] = NoItem]
  /\ size' = 0
  /\ Goto(t, "idle")
  /\ UNCHANGED <<cons, disable_count, open, tmp, added>>

\* dtor(handle) raises: the exception leaves clear() and add_item().
DestroyFails(t) == /\ pc[t] = "dtor"
                   /\ item[t] \in Faulty
                   /\ destroyed' = destroyed \cup {item[t]}
                   /\ excuse' = excuse \cup {"failed"}
                   /\ item' = [item EXCEPT ![t] = NoItem]
                   /\ Goto(t, "idle")
                   /\ UNCHANGED <<cons, size, disable_count, open, tmp, added>>

\* with disable(): entry.
Disable(t, b) == /\ pc[t] = "idle"
                 /\ \A p \in open : p[2] # b
                 /\ open' = open \cup {<<t, b>>}
                 /\ disable_count' = disable_count + 1
                 /\ UNCHANGED <<cons, size, pc, item, tmp,
                                added, destroyed, excuse>>

\* Variant: the count goes down for a block that was not entered.
EnableAny(t, b) == /\ pc[t] = "idle"
                   /\ open' = open \ {<<t, b>>}
                   /\ disable_count' = disable_count - 1
                   /\ UNCHANGED <<cons, size, pc, item, tmp,
                                  added, destroyed, excuse>>

\* with disable(): the finally clause, on return and on exception alike.
Enable(t, b) == /\ pc[t] = "idle"
                /\ <<t, b>> \in open
                /\ open' = open \ {<<t, b>>}
                /\ disable_count' = disable_count - 1
                /\ UNCHANGED <<cons, size, pc, item, tmp,
                               added, destroyed, excuse>>

Step(t) == \/ \E i \in Item : AddItem(t, i)
           \/ ReadSize(t) \/ StoreSize(t) \/ TestBytes(t)
           \/ CallClear(t) \/ CheckDisabled(t)
           \/ TestPending(t) \/ PopLeft(t) \/ PopFails(t) \/ ResetSize(t)
           \/ Destroy(t) \/ DestroyFails(t)
           \/ \E b \in Block : Disable(t, b) \/ Enable(t, b)

Next == \E t \in Thread : Step(t)

Spec == Init /\ [][Next]_vars

-----------------------------------------------------------------------------

TypeOK == /\ cons \in Seq(Item)
          /\ size \in Nat
          /\ disable_count \in Nat
          /\ open \subseteq Thread \X Block
          /\ pc \in [Thread -> PC]
          /\ item \in [Thread -> Item \cup {NoItem}]
          /\ tmp \in [Thread -> Nat]
          /\ added \subseteq Item
          /\ destroyed \subseteq Item
          /\ excuse \subseteq Excuses

\* The items popped by a flush and not yet destroyed.
InFlight == {item[t] : t \in {u \in Thread : pc[u] = "dtor"}}

\* Whatever threads interleave, a resource handed to the queue is in exactly
\* one place: once in the deque, in the hands of exactly one flushing thread,
\* or destroyed.  So no destructor runs twice and no resource is forgotten
\* (_PendingDeallocs.add_item and .clear).
ExactlyOnePlace ==
  /\ \A i, j \in 1..Len(cons) : i # j => cons[i] # cons[j]
  /\ \A t, u \in Thread :
        pc[t] = "dtor" /\ pc[u] = "dtor" /\ t # u => item[t] # item[u]
  /\ \A i \in Pending : i \notin InFlight /\ i \notin destroyed
  /\ InFlight \cap destroyed = {}
  /\ added = Pending \cup InFlight \cup destroyed

\* A thread never destroys anything while it is itself inside a deferred
\* block: its own allocations, clears and finalizers wait for the block to
\* end, however blocks of other threads open and close around it
\* (_PendingDeallocs.disable, is_disabled).
OwnBlockDefers ==
  \A t \in Thread, b \in Block :
     <<t, b>> \in open => pc[t] \notin {"loop", "pop", "dtor"}

\* The queue seen from outside: a resource waits until its destructor returned.
Queue == INSTANCE Disposal
           WITH Resource  <- Item,
                Party     <- Thread,
                waiting   <- Pending \cup InFlight,
                gone      <- destroyed,
                deferring <- {t \in Thread : \E b \in Block : <<t, b>> \in open}

\* In every interleaving, and although exceptions leave flushes in the middle,
\* the queue keeps the promises of Disposal: each step of add_item, clear and
\* disable is a step of it or none.
Disposes == Queue!Spec

\* Between calls the accounting never undercounts, even after a destructor
\* raised in the middle of a flush: the one way to lose bytes is for the "+="
\* of two threads to overlap (add_item, clear).
NeverUndercounts ==
  (\A t \in Thread : pc[t] = "idle") /\ "overlap" \notin excuse
     => size >= PendingBytes

\* "The deallocation queue is flushed automatically as soon as" a limit is
\* exceeded (docs/source/user/memory.rst): when no call is in progress, what is
\* pending is within both limits, whatever the order in which threads appended,
\* counted and flushed, unless a flush was refused in a deferred block or cut
\* short by a destructor after the last append, or two "+=" ever overlapped.  So
\* the next entry makes up for every flush that did not happen.
QuietWithinLimits ==
  (\A t \in Thread : pc[t] = "idle") /\ excuse = {}
     => Len(cons) <= Count /\ PendingBytes <= MaxBytes
=============================================================================
