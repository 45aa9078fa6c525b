------------------------------- MODULE Modules -------------------------------
(***************************************************************************)
(* Modules on devices: how a compiled kernel is bound and launched on one  *)
(* device and another (_Kernel.bind and launch of dispatcher.py,           *)
(* CUDACodeLibrary.get_cubin and get_cufunc of codegen.py), the modules of *)
(* a Context with their setup and teardown callbacks and finalizers        *)
(* (CudaPythonModule, Context.create_module_image and reset of             *)
(* cudadrv/driver.py), and the module of the NRT's memory system.          *)
(*                                                                         *)
(* An ObjectCode loads itself once and keeps its handle, so a handle names *)
(* an ObjectCode; compiling happens under the lock of the compiler, but    *)
(* launches hold none.                                                     *)
(***************************************************************************)
EXTENDS Integers, Sequences, FiniteSets, SequencesExt

CONSTANTS Thread, Device, Cc,
          CcOf,        \* the compute capability of each device
          Lib,         \* code libraries of kernels
          Memsys,      \* the library of memsys.cu
          MaxModules   \* bound: modules that are loaded

NoThread == "free"

ASSUME ConstantsAssumption ==
         /\ NoThread \notin Thread
         /\ CcOf \in [Device -> Cc]
         /\ Memsys \notin Lib
         /\ MaxModules \in Nat

VARIABLES module,    \* every CudaPythonModule made, in order
          kept,      \* Context.modules of each device, by index in module
          handles,   \* how many ObjectCodes were made
          cubin,     \* _cubin_cache of each library: a handle, or 0
          cufunc,    \* _cufunc_cache of each library: the function's module, or 0
          queue,     \* handles in the pending deallocations of each Context
          unloaded,  \* handles given to cuLibraryUnload
          bound,     \* libraries of the kernels among a dispatcher's overloads
          rt,        \* rtsys._memsys_module, or 0
          call,      \* where each thread is in a call
          compiling, \* who holds the compiler's lock
          launched,  \* history: modules of the functions launched
          raced,     \* history: devices on which a handle was loaded twice
          asserted,  \* history: devices whose assertion of module_unload failed
          cut        \* history: devices whose reset a failed flush ended early,
                     \* since the last reset that came to its end

loading == <<module, kept, handles, cubin, cufunc>>

history == <<launched, raced, asserted, cut>>

vars == <<loading, queue, unloaded, bound, rt, call, compiling, history>>

Call(at, op, k, d) == [at |-> at, op |-> op, lib |-> k, dev |-> d, code |-> 0]

Idle == [at |-> "idle"]

Init == /\ module = <<>>
        /\ kept = [d \in Device |-> {}]
        /\ handles = 0
        /\ cubin = [k \in Lib |-> [c \in Cc |-> 0]]
        /\ cufunc = [k \in Lib |-> [d \in Device |-> 0]]
        /\ queue = [d \in Device |-> <<>>]
        /\ unloaded = {}
        /\ bound = {}
        /\ rt = 0
        /\ call = [t \in Thread |-> Idle]
        /\ compiling = NoThread
        /\ launched = {} /\ raced = {} /\ asserted = {} /\ cut = {}

-----------------------------------------------------------------------------

Goto(t, l, code) == call' = [call EXCEPT ![t].at = l, ![t].code = code]

\* The call returns or raises; a compilation gives the lock back.
Done(t) == /\ call' = [call EXCEPT ![t] = Idle]
           /\ compiling' = IF compiling = t THEN NoThread ELSE compiling

\* No context is being reset: "only at shutdown or for cleaning up between tests".
NoReset == \A t \in Thread : call[t] # Idle => call[t].op # "reset"

\* The bound leaves room for the two modules that each call may load.
Room == Len(module) + 2 * Cardinality({t \in Thread : call[t] # Idle}) + 2 <= MaxModules

Keys(d) == {module[i].handle : i \in kept[d]}

\* The modules of a set from the first that was made.
InOrder(S) ==
  CHOOSE order \in [1..Cardinality(S) -> S] :
     \A m, n \in DOMAIN order : m < n => order[m] < order[n]

\* The handles that a Context keeps, in the order of its dictionary.
KeptHandles(d) ==
  [n \in DOMAIN InOrder(kept[d]) |-> module[InOrder(kept[d])[n]].handle]

\* A CudaPythonModule: home says whether bind() asked for it.
NewModule(k, d, code, home) ==
  [lib |-> k, dev |-> d, handle |-> code, home |-> home, initialized |-> FALSE, torn |-> FALSE]

-----------------------------------------------------------------------------
(* _Kernel.bind and _Kernel.launch.                                          *)

\* compile(): not among the overloads, so the kernel is made and bound.
Bind(t, k, d) ==
  /\ call[t] = Idle /\ NoReset /\ Room
  /\ k \notin bound /\ \A i \in DOMAIN module : module[i].lib # k
  /\ compiling = NoThread
  /\ compiling' = t
  /\ call' = [call EXCEPT ![t] = Call("function", "bind", k, d)]
  /\ UNCHANGED <<loading, queue, unloaded, bound, rt, history>>

\* A kernel that is among the overloads is launched, on any device.
Launch(t, k, d) ==
  /\ call[t] = Idle /\ NoReset /\ (Room \/ cufunc[k][d] # 0)
  /\ k \in bound
  /\ call' = [call EXCEPT ![t] = Call("function", "launch", k, d)]
  /\ UNCHANGED <<loading, queue, unloaded, bound, rt, compiling, history>>

\* Where a call goes on with the function of module i.
GotFunction(t, i) == Goto(t, IF call[t].op = "bind" THEN "setup" ELSE "launch", i)

\* get_cufunc(): cufunc = self._cufunc_cache.get(device.id).
LookUpFunction(t) ==
  LET i == cufunc[call[t].lib][call[t].dev]
  IN  /\ call[t].at = "function"
      /\ IF i # 0 THEN GotFunction(t, i) ELSE Goto(t, "cubin", 0)
      /\ UNCHANGED <<loading, queue, unloaded, bound, rt, compiling, history>>

\* get_cubin(): cubin = self._cubin_cache.get(cc).
LookUpCubin(t) ==
  LET code == cubin[call[t].lib][CcOf[call[t].dev]]
  IN  /\ call[t].at = "cubin"
      /\ Goto(t, IF code # 0 THEN "load" ELSE "link", code)
      /\ UNCHANGED <<loading, queue, unloaded, bound, rt, compiling, history>>

\* The linker completes, and what it made replaces what is cached.
Link(t) ==
  /\ call[t].at = "link"
  /\ handles' = handles + 1
  /\ cubin' = [cubin EXCEPT ![call[t].lib][CcOf[call[t].dev]] = handles + 1]
  /\ Goto(t, "load", handles + 1)
  /\ UNCHANGED <<module, kept, cufunc, queue, unloaded, bound, rt, compiling, history>>

LinkFails(t) ==
  /\ call[t].at = "link"
  /\ Done(t)
  /\ UNCHANGED <<loading, queue, unloaded, bound, rt, history>>

\* Context.create_module_image: modules is a UniqueDict.  When the handle is
\* there, the new module goes with the AssertionError: its finalizers run, the
\* teardown first, although another module of the handle is in use.
Load(t) ==
  LET d    == call[t].dev
      code == call[t].code
      new  == NewModule(call[t].lib, d, code, call[t].op = "bind")
      i    == Len(module) + 1
  IN  /\ call[t].at = "load"
      /\ \/ /\ code \notin Keys(d)
            /\ module' = Append(module, new)
            /\ kept' = [kept EXCEPT ![d] = @ \cup {i}]
            /\ Goto(t, "store", i)
            /\ UNCHANGED <<queue, compiling, raced>>
         \/ /\ code \in Keys(d)
            /\ module' = Append(module, [new EXCEPT !.torn = TRUE])
            /\ queue' = [queue EXCEPT ![d] = Append(@, code)]
            /\ raced' = raced \cup {d}
            /\ Done(t)
            /\ UNCHANGED kept
      /\ UNCHANGED <<handles, cubin, cufunc, unloaded, bound, rt, launched, asserted, cut>>

\* self._cufunc_cache[device.id] = cufunc
StoreFunction(t) ==
  LET i == call[t].code
  IN  /\ call[t].at = "store"
      /\ cufunc' = [cufunc EXCEPT ![call[t].lib][call[t].dev] = i]
      /\ GotFunction(t, i)
      /\ UNCHANGED <<module, kept, handles, cubin, queue, unloaded, bound, rt, compiling, history>>

\* initialize_once(): the setup callbacks of a module that is not initialized.
Setup(t) ==
  /\ call[t].at = "setup"
  /\ module' = [module EXCEPT ![call[t].code].initialized = TRUE]
  /\ Goto(t, "nrt", call[t].code)
  /\ UNCHANGED <<kept, handles, cubin, cufunc, queue, unloaded, bound, rt, compiling, history>>

\* Variant: what a setup callback raises does not leave bind().
SetupFailsSilently(t) ==
  /\ call[t].at = "setup"
  /\ Goto(t, "nrt", call[t].code)
  /\ UNCHANGED <<loading, queue, unloaded, bound, rt, compiling, history>>

\* A callback raises: the module stays loaded, and the kernel is forgotten.
SetupFails(t) ==
  /\ call[t].at = "setup"
  /\ Done(t)
  /\ UNCHANGED <<loading, queue, unloaded, bound, rt, history>>

\* With NRT statistics, rtsys.ensure_initialized(): memsys.cu is compiled and
\* loaded on the current device unless some module of it is kept.
EnsureMemsys(t) ==
  LET d == call[t].dev
      i == Len(module) + 1
  IN  /\ call[t].at = "nrt"
      /\ \/ rt # 0 /\ UNCHANGED <<module, kept, handles, rt>>
         \/ /\ rt = 0
            /\ handles' = handles + 1
            /\ module' = Append(module, NewModule(Memsys, d, handles + 1, FALSE))
            /\ kept' = [kept EXCEPT ![d] = @ \cup {i}]
            /\ rt' = i
      /\ Goto(t, "bound", call[t].code)
      /\ UNCHANGED <<cubin, cufunc, queue, unloaded, bound, compiling, history>>

\* Without them, and in any case: the kernel goes among the overloads.
Bound(t) ==
  /\ call[t].at \in {"nrt", "bound"}
  /\ bound' = bound \cup {call[t].lib}
  /\ Done(t)
  /\ UNCHANGED <<loading, queue, unloaded, rt, history>>

\* The kernel runs.
Run(t) ==
  /\ call[t].at = "launch"
  /\ launched' = launched \cup {call[t].code}
  /\ Done(t)
  /\ UNCHANGED <<loading, queue, unloaded, bound, rt, raced, asserted, cut>>

-----------------------------------------------------------------------------
(* Unloading, and Context.reset.                                             *)

\* A flush comes to a handle: module_unload() asserts that the Context does not
\* keep it; the driver refuses one that is not loaded.  Either ends the flush.
UnloadNext(d) ==
  LET handle == Head(queue[d])
  IN  /\ queue[d] # <<>>
      /\ queue' = [queue EXCEPT ![d] = Tail(@)]
      /\ unloaded' = IF handle \in Keys(d) THEN unloaded ELSE unloaded \cup {handle}
      /\ asserted' = IF handle \in Keys(d) THEN asserted \cup {d} ELSE asserted

\* The flush of an add_item over the limits, or of an allocation out of memory.
Flush(d) ==
  /\ NoReset
  /\ UnloadNext(d)
  /\ UNCHANGED <<loading, bound, rt, call, compiling, launched, raced, cut>>

\* Context.reset(), of the current device or, for each one, by cuda.reset().
Reset(t, d) ==
  /\ \A u \in Thread : call[u] = Idle
  /\ call' = [call EXCEPT ![t] = [at |-> "clear", op |-> "reset", dev |-> d]]
  /\ UNCHANGED <<loading, queue, unloaded, bound, rt, compiling, history>>

\* Variant: the finalizers run before the Context has let go of its modules.
ClearModulesLate(t) ==
  LET d == call[t].dev
  IN  /\ call[t].at = "clear"
      /\ module' = [i \in DOMAIN module |-> [module[i] EXCEPT !.torn = @ \/ i \in kept[d]]]
      /\ queue' = [queue EXCEPT ![d] = @ \o KeptHandles(d)]
      /\ call' = [call EXCEPT ![t].at = "flush"]
      /\ UNCHANGED <<kept, handles, cubin, cufunc, unloaded, bound, rt, compiling, history>>

\* Variant: no finalizer calls the teardown callbacks.
ClearModulesOnly(t) ==
  LET d == call[t].dev
  IN  /\ call[t].at = "clear"
      /\ queue' = [queue EXCEPT ![d] = @ \o KeptHandles(d)]
      /\ kept' = [kept EXCEPT ![d] = {}]
      /\ call' = [call EXCEPT ![t].at = "flush"]
      /\ UNCHANGED <<module, handles, cubin, cufunc, unloaded, bound, rt, compiling, history>>

\* self.modules.clear(): nobody else keeps a module, so the finalizers of each
\* run, the teardown callbacks and then the one that queues the handle.
ClearModules(t) ==
  LET d == call[t].dev
  IN  /\ call[t].at = "clear"
      /\ module' = [i \in DOMAIN module |-> [module[i] EXCEPT !.torn = @ \/ i \in kept[d]]]
      /\ queue' = [queue EXCEPT ![d] = @ \o KeptHandles(d)]
      /\ kept' = [kept EXCEPT ![d] = {}]
      /\ call' = [call EXCEPT ![t].at = "flush"]
      /\ UNCHANGED <<handles, cubin, cufunc, unloaded, bound, rt, compiling, history>>

\* self.deallocations.clear(): an entry that fails ends the reset.
ResetFlush(t) ==
  LET d == call[t].dev
  IN  /\ call[t].at = "flush"
      /\ UnloadNext(d)
      /\ IF Head(queue[d]) \in Keys(d) \cup unloaded
         THEN call' = [call EXCEPT ![t] = Idle] /\ cut' = cut \cup {d}
         ELSE UNCHANGED <<call, cut>>
      /\ UNCHANGED <<loading, bound, rt, compiling, launched, raced>>

\* Variant: rtsys keeps its module.
ResetKeepsRtsys(t) ==
  /\ call[t].at = "flush" /\ queue[call[t].dev] = <<>>
  /\ call' = [call EXCEPT ![t] = Idle]
  /\ cut' = {}
  /\ UNCHANGED <<loading, queue, unloaded, bound, rt, compiling, launched, raced, asserted>>

\* rtsys.close()
ResetRtsys(t) ==
  /\ call[t].at = "flush" /\ queue[call[t].dev] = <<>>
  /\ rt' = 0
  /\ call' = [call EXCEPT ![t] = Idle]
  /\ cut' = {}
  /\ UNCHANGED <<loading, queue, unloaded, bound, compiling, launched, raced, asserted>>

-----------------------------------------------------------------------------

Step(t) ==
  \/ \E k \in Lib, d \in Device : Bind(t, k, d) \/ Launch(t, k, d)
  \/ LookUpFunction(t) \/ LookUpCubin(t) \/ Link(t) \/ LinkFails(t)
  \/ Load(t) \/ StoreFunction(t)
  \/ Setup(t) \/ SetupFails(t) \/ EnsureMemsys(t) \/ Bound(t) \/ Run(t)
  \/ \E d \in Device : Reset(t, d)
  \/ ClearModules(t) \/ ResetFlush(t) \/ ResetRtsys(t)

Next == (\E t \in Thread : Step(t)) \/ (\E d \in Device : Flush(d))

Spec == Init /\ [][Next]_vars

-----------------------------------------------------------------------------
\* A kernel that runs on the device it was compiled for runs in a module whose
\* setup callbacks have all returned, whichever thread launches it and whatever
\* another binding did meanwhile.
HomeIsSetUp ==
  \A i \in launched : module[i].home => module[i].initialized

\* A library is unloaded after the teardown callbacks of a module of it have run,
\* and a module that its Context lost is unloaded, in the queue, or was spared by
\* a failed assertion.
TornDownThenUnloaded ==
  /\ \A h \in unloaded : \E i \in DOMAIN module : module[i].handle = h /\ module[i].torn
  /\ \A i \in DOMAIN module :
       LET m == module[i]
       IN  i \in kept[m.dev] \/ m.handle \in unloaded \cup ToSet(queue[m.dev]) \/ m.dev \in asserted

\* The assertion of module_unload ("Both must have cleared the module reference
\* from the context") fails only where two threads loaded one ObjectCode at once.
UnloadAssertion == asserted \subseteq raced

\* Between resets, rtsys refers to a module that its Context keeps, so its weak
\* reference is alive, unless a reset of that Context was the last one to be ended
\* early, by an entry that failed before rtsys.close() was reached.
RtsysAlive ==
  rt # 0 /\ NoReset => rt \in kept[module[rt].dev] \/ module[rt].dev \in cut

=============================================================================
