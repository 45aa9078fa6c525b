---------------------------- MODULE ContextStack ----------------------------
(***************************************************************************)
(* How a thread comes to have a CUDA context: the runtime of               *)
(* cudadrv/devices.py ("with gpus[n]", select_device, the context that an  *)
(* API function attaches to its thread, reset) on top of Driver.get_device,*)
(* _ActiveContext and Device.get_primary_context of cudadrv/driver.py.     *)
(*                                                                         *)
(* The stack of contexts, the attached context and the cached active       *)
(* context belong to one thread; the table of devices and their Contexts   *)
(* are shared, and a step looks at them or changes them once.              *)
(***************************************************************************)
EXTENDS Integers, Sequences, FiniteSets, SequencesExt

CONSTANTS Thread,
          Main,        \* the thread that imported numba.cuda
          Count,       \* how many devices there are
          Foreign,     \* non-primary contexts of other libraries
          DeviceOf,    \* the device of each of them
          MaxStack,    \* bound: contexts on a thread's stack before a push
          MaxBlocks,   \* bound: with-blocks and API functions a thread is in
          NoContext

\* Devices have the numbers 0, 1, ...; a primary context is named by its device.
Device == 0..(Count - 1)

NoThread == "free"

ASSUME ConstantsAssumption ==
         /\ Main \in Thread /\ NoThread \notin Thread
         /\ Count \in Nat \ {0}
         /\ DeviceOf \in [Foreign -> Device]
         /\ Foreign \cap Device = {}
         /\ NoContext \notin Foreign \cup Device
         /\ MaxStack \in Nat /\ MaxBlocks \in [Thread -> Nat]

Handle == Device \cup Foreign

Owner(h) == IF h \in Foreign THEN DeviceOf[h] ELSE h

VARIABLES stack,     \* the CUDA driver's stack of contexts of each thread
          attached,  \* _tls.attached_context, by its device
          cached,    \* _tls_cache.ctx_devnum: the active context, by its handle
          blocks,    \* the with-blocks and API functions each thread is in
          call,      \* where each thread is in a call
          lock,      \* who holds _Runtime._lock
          objects,   \* Driver.devices: how many Device objects each number had
          lst,       \* _DeviceList.lst: the Device objects that it stands for
          primary,   \* Device.primary_context, by its handle
          prepared,  \* devices whose Context is prepared for use
          made,      \* history: Contexts made for a device since its reset
          adopted    \* history: devices whose Context has a foreign handle

threadVars == <<stack, attached, cached, blocks>>

deviceVars == <<objects, lst, primary, prepared, made, adopted>>

vars == <<threadVars, call, lock, deviceVars>>

\* op is the call; caches: it fills the cache of the active context; seen: the
\* Device objects found for the list so far.
Call(at, op, d, caches) == [at |-> at, op |-> op, dev |-> d, caches |-> caches, seen |-> <<>>]

Idle == Call("idle", "none", 0, FALSE)

NoList == <<>>

Init == /\ stack = [t \in Thread |-> <<>>]
        /\ attached = [t \in Thread |-> NoContext]
        /\ cached = [t \in Thread |-> NoContext]
        /\ blocks = [t \in Thread |-> <<>>]
        /\ call = [t \in Thread |-> Idle]
        /\ lock = NoThread
        /\ objects = [d \in Device |-> 0]
        /\ lst = NoList
        /\ primary = [d \in Device |-> NoContext]
        /\ prepared = {}
        /\ made = [d \in Device |-> 0]
        /\ adopted = {}

-----------------------------------------------------------------------------

Top(s) == IF s = <<>> THEN NoContext ELSE Last(s)

\* _ActiveContext: what the driver says, or said when the outermost one was entered.
Active(t) == IF cached[t] # NoContext THEN cached[t] ELSE Top(stack[t])

Goto(t, l) == call' = [call EXCEPT ![t].at = l]

Innermost(t, kind) == blocks[t] # <<>> /\ Last(blocks[t]).kind = kind

InApi(t) == \E i \in DOMAIN blocks[t] : blocks[t][i].kind = "api"

\* The thread may start a call.
Free(t) == call[t] = Idle /\ Len(stack[t]) <= MaxStack

\* base: what the stack held before.  dev: the device of "with gpus[dev]"; what
\* an API function found attached; the handle another library pushed.
Block(kind, d, base, caches) ==
  [kind |-> kind, dev |-> d, base |-> base, caches |-> caches, clean |-> TRUE]

Enter(t, block) == blocks' = [blocks EXCEPT ![t] = Append(@, block)]

Leave(t) == blocks' = [blocks EXCEPT ![t] = Front(@)]

\* Blocks of these kinds are no longer clean...
Marked(s, kinds) ==
  [i \in DOMAIN s |-> [s[i] EXCEPT !.clean = s[i].clean /\ s[i].kind \notin kinds]]

\* ... since the thread changed the stack in them for good:
Unclean(t, kinds) == blocks' = [blocks EXCEPT ![t] = Marked(blocks[t], kinds)]

\* by a call that says so (API functions do not mind)...
Disturb(t) == Unclean(t, {"gpu", "third"})

\* ... or by one that failed and left a context on the stack.
Spill(t) == Unclean(t, {"api", "gpu", "third"})

\* Variant: the lock is not given back when the call raises.
RaiseHolding(t) ==
  /\ call' = [call EXCEPT ![t] = Idle]
  /\ cached' = IF call[t].caches THEN [cached EXCEPT ![t] = NoContext] ELSE cached
  /\ UNCHANGED lock

\* The call raises: its with-statements release the lock and the cached context.
Raise(t) ==
  /\ call' = [call EXCEPT ![t] = Idle]
  /\ lock' = IF lock = t THEN NoThread ELSE lock
  /\ cached' = IF call[t].caches THEN [cached EXCEPT ![t] = NoContext] ELSE cached

-----------------------------------------------------------------------------
(* The calls.                                                                *)

\* A function decorated with require_context: ensure_context is entered, and
\* the attached context found, or one has to be got.
BeginApi(t) ==
  LET caches == cached[t] = NoContext /\ stack[t] # <<>>
  IN  /\ Free(t) /\ Len(blocks[t]) < MaxBlocks[t]
      /\ cached' = IF caches THEN [cached EXCEPT ![t] = Top(stack[t])] ELSE cached
      /\ \/ /\ attached[t] # NoContext
            /\ Enter(t, Block("api", attached[t], Len(stack[t]), caches))
            /\ UNCHANGED call
         \/ /\ attached[t] = NoContext
            /\ call' = [call EXCEPT ![t] = Call("lock", "api", 0, caches)]
            /\ UNCHANGED blocks
      /\ UNCHANGED <<stack, attached, lock, deviceVars>>

\* It returns, or raises.
EndApi(t) ==
  LET block == Last(blocks[t])
  IN  /\ call[t] = Idle /\ Innermost(t, "api")
      /\ attached' = [attached EXCEPT ![t] = block.dev]
      /\ cached' = IF block.caches THEN [cached EXCEPT ![t] = NoContext] ELSE cached
      /\ Leave(t)
      /\ UNCHANGED <<stack, call, lock, deviceVars>>

\* get_context(), without an attached context.
GetContext(t) ==
  /\ Free(t) /\ attached[t] = NoContext
  /\ call' = [call EXCEPT ![t] = Call("lock", "get", 0, FALSE)]
  /\ UNCHANGED <<threadVars, lock, deviceVars>>

\* select_device(d), or get_context(d).
SelectDevice(t, d) ==
  /\ Free(t)
  /\ call' = [call EXCEPT ![t] = Call("lock", "select", d, FALSE)]
  /\ UNCHANGED <<threadVars, lock, deviceVars>>

\* with gpus[d]: the list is looked at before __enter__ takes the lock.
BeginGpu(t, d) ==
  /\ Free(t) /\ Len(blocks[t]) < MaxBlocks[t]
  /\ call' = [call EXCEPT ![t] = Call("list", "gpu", d, FALSE)]
  /\ UNCHANGED <<threadVars, lock, deviceVars>>

\* __exit__: the Context is got without the lock.
EndGpu(t) ==
  /\ call[t] = Idle /\ Innermost(t, "gpu")
  /\ call' = [call EXCEPT ![t] = Call("primary", "exit", Last(blocks[t]).dev, FALSE)]
  /\ UNCHANGED <<threadVars, lock, deviceVars>>

-----------------------------------------------------------------------------
(* _Runtime.get_or_create_context.                                           *)


\* with self._lock; without a number, the device is that of the active context,
\* or device 0.
Locked(t) ==
  call' = [call EXCEPT
    ![t].at = "list",
    ![t].dev = IF call[t].op \in {"api", "get"}
               THEN IF Active(t) = NoContext THEN 0 ELSE Owner(Active(t))
               ELSE @]

\* Variant: nobody waits for the lock.
TakeNoLock(t) ==
  /\ call[t].at = "lock"
  /\ Locked(t)
  /\ lock' = t
  /\ UNCHANGED <<threadVars, deviceVars>>

TakeLock(t) ==
  /\ call[t].at = "lock" /\ lock = NoThread
  /\ Locked(t)
  /\ lock' = t
  /\ UNCHANGED <<threadVars, deviceVars>>

\* The list is there: on to the lock, or to the Context.
Listed(t) == IF call[t].op = "gpu" /\ lock # t THEN "lock" ELSE "primary"

\* self.gpus[...]: the list is cached, or has to be made.
LookUpList(t) ==
  /\ call[t].at = "list"
  /\ Goto(t, IF lst # NoList THEN Listed(t) ELSE "device")
  /\ UNCHANGED <<threadVars, lock, deviceVars>>

\* The Device objects found so far, one more, and the cached list after the last.
Found(t, object) ==
  LET seen == Append(call[t].seen, object)
      done == Len(seen) = Count
  IN  /\ call' = [call EXCEPT ![t].at = IF done THEN Listed(t) ELSE "device",
                              ![t].seen = IF done THEN <<>> ELSE seen]
      /\ lst' = IF done THEN seen ELSE lst

\* driver.get_device(devid): dev = self.devices.get(devnum).
LookUpDevice(t) ==
  LET n == Len(call[t].seen)
  IN  /\ call[t].at = "device"
      /\ \/ /\ objects[n] = 0
            /\ Goto(t, "construct")
            /\ UNCHANGED lst
         \/ /\ objects[n] # 0
            /\ Found(t, objects[n])
      /\ UNCHANGED <<threadVars, lock, objects, primary, prepared, made, adopted>>

\* Variant: self.devices is a dict, and a later Device replaces an earlier one.
StoreAnyDevice(t) ==
  LET n == Len(call[t].seen)
  IN  /\ call[t].at = "construct"
      /\ objects' = [objects EXCEPT ![n] = @ + 1]
      /\ Found(t, objects[n] + 1)
      /\ UNCHANGED <<threadVars, lock, primary, prepared, made, adopted>>

\* self.devices[devnum] = Device(devnum): a UniqueDict asserts that the key is new.
StoreDevice(t) ==
  LET n == Len(call[t].seen)
  IN  /\ call[t].at = "construct"
      /\ \/ /\ objects[n] = 0
            /\ objects' = [objects EXCEPT ![n] = 1]
            /\ Found(t, 1)
            /\ UNCHANGED <<cached, lock>>
         \/ /\ objects[n] # 0
            /\ Raise(t)
            /\ UNCHANGED <<objects, lst>>
      /\ UNCHANGED <<stack, attached, blocks, primary, prepared, made, adopted>>

-----------------------------------------------------------------------------
(* Device.get_primary_context.                                               *)

\* Where a call goes on with the Context.
GotPrimary(t) == Goto(t, IF call[t].op = "exit" THEN "pop" ELSE "use")

\* if (ctx := self.primary_context) is not None.
LookUpPrimary(t) ==
  /\ call[t].at = "primary"
  /\ IF primary[call[t].dev] # NoContext THEN GotPrimary(t) ELSE Goto(t, "create")
  /\ UNCHANGED <<threadVars, lock, deviceVars>>

\* What the current context is once set_current() has made the device current:
\* it does nothing when a context of the device is already current, and
\* cuda.core then says that one, or the primary one, is the device's context.
Current(t, d) ==
  LET top == Top(stack[t])
  IN  IF top # NoContext /\ Owner(top) = d THEN {top, d} ELSE {d}

Pushes(t, d) == Top(stack[t]) = NoContext \/ Owner(Top(stack[t])) # d

\* self.primary_context = Context(...)
KeepContext(d, h) ==
  /\ primary' = [primary EXCEPT ![d] = h]
  /\ made' = [made EXCEPT ![d] = @ + 1]
  /\ adopted' = IF h \in Foreign THEN adopted \cup {d} ELSE adopted

\* Variant: what set_current() pushed stays.
CreateLeaving(t) ==
  LET d == call[t].dev
  IN  /\ call[t].at = "create"
      /\ \E h \in Current(t, d) : KeepContext(d, h)
      /\ GotPrimary(t)
      /\ stack' = IF Pushes(t, d) THEN [stack EXCEPT ![t] = Append(@, d)] ELSE stack
      /\ UNCHANGED <<attached, cached, blocks, lock, objects, lst, prepared>>

\* set_current(), and cuCtxPopCurrent() when that pushed something.
Create(t) ==
  LET d == call[t].dev
  IN  /\ call[t].at = "create"
      /\ \E h \in Current(t, d) : KeepContext(d, h)
      /\ GotPrimary(t)
      /\ UNCHANGED <<threadVars, lock, objects, lst, prepared>>

\* It fails in set_current() or Context(), or at the handle, after the push.
CreateFails(t) ==
  LET d == call[t].dev
  IN  /\ call[t].at = "create"
      /\ Raise(t)
      /\ \/ UNCHANGED <<stack, blocks>>
         \/ /\ Pushes(t, d)
            /\ stack' = [stack EXCEPT ![t] = Append(@, d)]
            /\ Spill(t)
      /\ UNCHANGED <<attached, deviceVars>>

-----------------------------------------------------------------------------
(* The Context is used.                                                      *)

\* get_or_create_context(None) found an active context.
Adopts(t) == call[t].op \in {"api", "get"} /\ Active(t) # NoContext

\* ctx.handle is the active one, or RuntimeError("... non-primary CUDA context").
Adopt(t) ==
  /\ call[t].at = "use" /\ Adopts(t)
  /\ \/ /\ primary[call[t].dev] = Active(t)
        /\ Goto(t, "prepare")
        /\ UNCHANGED <<cached, lock>>
     \/ /\ primary[call[t].dev] # Active(t)
        /\ Raise(t)
  /\ UNCHANGED <<stack, attached, blocks, deviceVars>>

\* Variant: the attached context is not looked at.
PushAny(t) ==
  LET d == call[t].dev
  IN  /\ call[t].at = "use" /\ ~Adopts(t)
      /\ stack' = [stack EXCEPT ![t] = Append(@, primary[d])]
      /\ Goto(t, "prepare")
      /\ UNCHANGED <<attached, cached, blocks, lock, deviceVars>>

\* _activate_context_for: another attached context is "Cannot switch
\* CUDA-context."; otherwise the context is pushed.
Push(t) ==
  LET d == call[t].dev
  IN  /\ call[t].at = "use" /\ ~Adopts(t)
      /\ \/ /\ attached[t] \in {NoContext, d}
            /\ stack' = [stack EXCEPT ![t] = Append(@, primary[d])]
            /\ Goto(t, "prepare")
            /\ UNCHANGED <<cached, lock>>
         \/ /\ attached[t] \notin {NoContext, d}
            /\ Raise(t)
            /\ UNCHANGED stack
      /\ UNCHANGED <<attached, blocks, deviceVars>>

\* prepare_for_use(), the end of the call, and what the caller does with it.
Prepare(t) ==
  LET d == call[t].dev
  IN  /\ call[t].at = "prepare"
      /\ prepared' = prepared \cup {d}
      /\ call' = [call EXCEPT ![t] = Idle]
      /\ lock' = NoThread
      /\ \/ /\ call[t].op = "api"
            /\ attached' = [attached EXCEPT ![t] = d]
            /\ Enter(t, Block("api", NoContext, Len(stack[t]), call[t].caches))
         \/ /\ call[t].op = "gpu"
            /\ Enter(t, Block("gpu", d, Len(stack[t]) - 1, FALSE))
            /\ UNCHANGED attached
         \/ /\ call[t].op \in {"select", "get"}
            /\ Disturb(t)
            /\ UNCHANGED attached
      /\ UNCHANGED <<stack, cached, objects, lst, primary, made, adopted>>

\* The memory manager cannot be initialized: what was pushed stays.
PrepareFails(t) ==
  /\ call[t].at = "prepare" /\ call[t].dev \notin prepared
  /\ Raise(t)
  /\ Spill(t)
  /\ UNCHANGED <<stack, attached, deviceVars>>

\* Context.pop(): the active context goes; a wrong one fails the assertion, none
\* is a TypeError, and the block is left all the same.
Pop(t) ==
  /\ call[t].at = "pop"
  /\ stack' = IF stack[t] = <<>> THEN stack ELSE [stack EXCEPT ![t] = Front(@)]
  /\ Leave(t)
  /\ call' = [call EXCEPT ![t] = Idle]
  /\ UNCHANGED <<attached, cached, lock, deviceVars>>

-----------------------------------------------------------------------------
(* Other libraries, and reset.                                               *)

\* Another library pushes a context of its own, or the primary one.
ThirdPush(t, h) ==
  /\ Free(t) /\ ~InApi(t) /\ Len(blocks[t]) < MaxBlocks[t]
  /\ stack' = [stack EXCEPT ![t] = Append(@, h)]
  /\ Enter(t, Block("third", h, Len(stack[t]), FALSE))
  /\ UNCHANGED <<attached, cached, call, lock, deviceVars>>

ThirdPop(t) ==
  /\ call[t] = Idle /\ Innermost(t, "third")
  /\ stack' = IF stack[t] = <<>> THEN stack ELSE [stack EXCEPT ![t] = Front(@)]
  /\ Leave(t)
  /\ UNCHANGED <<attached, cached, call, lock, deviceVars>>

\* cuda.reset() outside the main thread.
Reset(t) ==
  /\ t # Main /\ call[t] = Idle /\ ~InApi(t)
  /\ stack' = [stack EXCEPT ![t] = <<>>]
  /\ Disturb(t)
  /\ UNCHANGED <<attached, cached, call, lock, deviceVars>>

\* In the main thread, "only ... at shutdown or for cleaning up between tests":
\* the contexts of the devices go too, up to the first device that fails.
ResetAll ==
  /\ \A t \in Thread : call[t] = Idle /\ blocks[t] = <<>>
  /\ \A t \in Thread \ {Main} : stack[t] = <<>>
  /\ \E n \in 0..Count :
       LET gone == {d \in Device : d < n}
       IN  /\ primary' = [d \in Device |-> IF d \in gone THEN NoContext ELSE primary[d]]
           /\ made' = [d \in Device |-> IF d \in gone THEN 0 ELSE made[d]]
           /\ prepared' = prepared \ gone /\ adopted' = adopted \ gone
  /\ stack' = [stack EXCEPT ![Main] = <<>>]
  /\ UNCHANGED <<attached, cached, blocks, call, lock, objects, lst>>

-----------------------------------------------------------------------------
\* A thread that is in a call goes on.
Proceed(t) ==
  \/ TakeLock(t) \/ LookUpList(t) \/ LookUpDevice(t) \/ StoreDevice(t)
  \/ LookUpPrimary(t) \/ Create(t) \/ CreateFails(t)
  \/ Adopt(t) \/ Push(t) \/ Prepare(t) \/ PrepareFails(t) \/ Pop(t)

\* What the program, or another library, asks for.
Ask(t) ==
  \/ BeginApi(t) \/ EndApi(t) \/ GetContext(t) \/ EndGpu(t)
  \/ \E d \in Device : SelectDevice(t, d) \/ BeginGpu(t, d)
  \/ \E h \in Handle : ThirdPush(t, h)
  \/ ThirdPop(t) \/ Reset(t)

Next == ResetAll \/ \E t \in Thread : Proceed(t) \/ Ask(t)

Spec == Init /\ [][Next]_vars

-----------------------------------------------------------------------------
\* "with gpus[d]" leaves the stack as it found it, whatever blocks, failures of
\* blocks, creations of contexts and API functions happened in it: in a block
\* whose thread changed the stack nowhere by select_device, reset or a failed
\* push, d's context is on top of what was there, so __exit__ pops that one.
ScopesNest ==
  \A t \in Thread :
    call[t].at \in {"idle", "pop"} /\ Innermost(t, "gpu") /\ Last(blocks[t]).clean
      => /\ Len(stack[t]) = Last(blocks[t]).base + 1
         /\ Last(stack[t]) = primary[Last(blocks[t]).dev]

\* The context that an API function has attached is the one the driver would use
\* for the thread, is the Context of its device and has been prepared; what is
\* cached as the active context is what the driver would say.  Only a call in the
\* function that failed in set_current() can have left another one on top.
AttachedIsCurrent ==
  \A t \in Thread :
    (\A i \in DOMAIN blocks[t] : blocks[t][i].kind = "api" => blocks[t][i].clean)
      => /\ attached[t] # NoContext
              => /\ Top(stack[t]) = primary[attached[t]]
                 /\ attached[t] \in prepared
                 /\ InApi(t)
         /\ cached[t] # NoContext => cached[t] = Top(stack[t])

\* The runtime "keeps at most one Context per Device", however many threads ask
\* for the first one at once and whatever failed before.
OneContextPerDevice == \A d \in Device : made[d] <= 1

\* The Device objects that the device list stands for by weak references are
\* those that the driver keeps, whichever threads made the list at once.
ProxiesAlive == \A i \in DOMAIN lst : lst[i] = objects[i - 1]

\* The runtime's lock is held only by a thread in the middle of a call: whatever
\* fails in it, and at whichever point, the lock is given back.
LockHeldInCall == lock # NoThread => call[lock].at \notin {"idle", "lock", "pop"}
=============================================================================
