# numba-cuda: specifications, model checking and proofs

TLA+ specifications of the parts of numba-cuda whose behaviour depends on the
order of events: who gives memory back and when, which context a thread works in,
when a module is loaded, set up and unloaded, which compiled kernel a launch runs,
what processes that share a disk cache see of each other, how the simulator's
threads meet at barriers; and of two algorithms where an order that should not
matter could: the reduction kernel and the analysis of flow graphs. TLC checks
each specification on small instances; TLAPS proves the central properties for
every value of the constants.

Paths are relative to `numba_cuda/numba/cuda/` unless they start with `docs/`
or `tests/`. `PROJECT.json` holds the same information in a form for tools: the
lines each definition stands for, the runs, a mutant for every property (a
plausible bug under which TLC finds the property violated), the findings, the
hazards and the theorems.

## 1. Inventory of the system

| component | state | operations | who it talks to | what is hard | what makes it correct |
|---|---|---|---|---|---|
| Pending deallocations (`cudadrv/driver.py`, `_PendingDeallocs`) | deque, byte count, disable count | `add_item`, `clear`, `disable` | finalizers of every resource; memory manager | any thread may drop the last reference to anything, at any point; destructors may raise | nothing destroyed twice or lost, limits hold, deferral defers |
| Memory managers and pointers (`cudadrv/driver.py`) | table of allocations, reference counts, finalizers, deferral | `memalloc`, `memhostalloc`, `mempin`, views, `free`, `reset`, `defer_cleanup` | the queue, the driver, arrays | views outlive owners, resets and `free()`; retry when out of memory | no use after free, no double free, no leak |
| Disk cache files (`core/caching.py`) | index file, data files, source stamp | `load`, `save`, `flush` | other processes, the dispatcher | concurrent processes, crash between two files, edits of the source | a load returns the code of its key and source, or nothing |
| Dispatcher and launch configuration (`dispatcher.py`, `launchconfig.py`, `compiler.py`, `cext/_dispatcher.cpp`) | overloads, specializations, sensitivity flag, default key, marker file | launch, `compile`, `recompile`, device functions | disk cache, compiler lock, threads | whether a kernel depends on its launch configuration is known after it was compiled | no launch runs code of another configuration |
| Simulator (`simulator/kernel.py`, `simulator/kernelapi.py`) | flags and events of each thread, manager's sets, vote cells, shared arrays | barriers, votes, shared arrays, atomics, polling, abort | OS threads | polling, threads that return or raise early | barriers hold, votes count right, every launch ends |
| Contexts (`cudadrv/devices.py`, `cudadrv/driver.py`) | the driver's stack, attached and cached context of each thread; device list, Device objects, primary contexts | `ensure_context`, `get_context`, `select_device`, `with gpus[i]`, `reset` | everything that needs a device | third parties push contexts; thread-local caches; `__exit__` and the list take no lock; a push that fails half-way | with-blocks nest, the context used is the one on top of the stack, one Context per device |
| Modules and linking (`cudadrv/driver.py`, `codegen.py`, `dispatcher.py`) | modules of a Context, cached cubins and functions, initialized flags | bind, launch, load, setup, teardown, unload, reset | contexts, queue, dispatcher, NRT | callbacks raise; launches hold no lock; unloading at collection | setup before the launch, teardown before the unload |
| Reduction (`kernels/reduction.py`) | shared rows of each warp, partial results | three launches of one kernel | - | barriers of a warp and of the block, partly populated warps | each element folded in once, no race |
| Control flow (`core/controlflow.py`) | graph, back edges, dominators, post-dominators, loops | analyses on demand | compiler passes | order of sets; loops without exit; dead blocks | agrees with the definitions by paths |
| Streams and events (`cudadrv/driver.py`, `api.py`) | handles, callbacks, futures | `add_callback`, `async_done` | driver's threads | a future resolved from another thread | a callback runs once |
| IPC (`cudadrv/driver.py`, `cudadrv/devicearray.py`) | open handles, staging | open, close, staged copies | other processes | lifetimes across processes | close once, no use after close |
| NRT (`memory_management/`) | module of the memory system, MemInfo counts on the device | acquire, release, initialize | modules | concurrent device threads | destructor runs exactly once |
| Typing, casts (`core/typeinfer.py`, `typeconv/`) | graphs | cast closure, overload choice | compiler passes | closure under composition | agrees with its definition |
| Compiler events and lock (`core/event.py`, `core/compiler_lock.py`) | listeners, a lock | register, broadcast | compiler | listeners that change the list | every listener told once |
| Front end, lowering, libraries, tables, bindings, packaging | IR, tables | translation | - | size | meaning of emitted code |

`PROJECT.json` lists each component with its files, including those that are not
modelled and why.

## 2. Modules

| module | models | composed with |
|---|---|---|
| `Disposal` | the promise of a queue of deallocations (abstract) | implemented by the next two |
| `PendingDeallocs` | `_PendingDeallocs`, one step per point where CPython may switch threads | implements `Disposal`; looks inside what `DeviceMemory` takes as one step |
| `DeviceMemory` | the memory manager of a context, `OwnedPointer`, finalizers, reset | implements `Disposal` from the side of the allocations |
| `ContextStack` | `devices.py` and the primary contexts of `driver.py` | gives `Modules` the current device |
| `Modules` | bind, launch, modules of a Context, setup, teardown, unload, `rtsys` | uses the queue as a sequence of handles |
| `CacheFile` | `IndexDataCacheFile`, one step per file that is read or replaced | looks inside what `LaunchConfig` takes as one step |
| `LaunchConfig` | `CUDADispatcher`, `CUDACache`, the marker, device functions | uses a disk cache with one writer |
| `Simulator` | `BlockThread`, `BlockManager`, votes, `FakeCUDAShared`, `FakeCUDAAtomic` | - |
| `Reduction` | `Reduce.__call__` and its kernel | - |
| `Dominators` | `_find_dominators_internal` on any graph, in any order | instance of `ControlFlow` |
| `ControlFlow` | `CFGraph.process` and the analyses | uses the operators of `Dominators` |

Each has an `MC...` module with the instance for TLC, and those with theorems a
`..._proofs` module. Operators named "Variant" in a comment are not part of a
specification: they are the mutated forms of the definition that follows.
`Algorithms_proofs` holds the theorems of the last three modules.

### PendingDeallocs

Variables bear the names of the attributes (`cons`, `size`, `disable_count`);
`pc`, `item` and `tmp` are the local state of a thread in `add_item` or `clear`.
The steps of `add_item` are the append (`AddItem`), the read and the store of
`self._size += int(size)` (`ReadSize`, `StoreSize`; `int()` is a call between
them), and the two operands of `or` (`StoreSize`, `TestBytes`). Those of
`clear` are the single look at `is_disabled` (`CheckDisabled`), `popleft`
(`PopLeft`), the destructor that returns or raises (`Destroy`, `DestroyFails`),
and the end of the loop (`ResetSize`). CPython hands over the interpreter at
calls and loop back-edges; a build without the GIL has these interleavings and
more. A finalizer run by the collector inside another call is one more element
of `Thread`. The loop's test and its `popleft` are two steps (`TestPending`,
`PopLeft`), since the back-edge that follows the test is a switch point: a
second flush may take the last entry in between, and the `IndexError` then
leaves `clear` and `add_item` (`PopFails`). The model allows the switch in the
first iteration too, where CPython 3.11 has none.

`ExactlyOnePlace`: a resource is in the deque, in the hands of one flushing
thread, or destroyed. `Disposes`: the module implements `Disposal` (below).
`OwnBlockDefers`, proved and not run, is the part of it that a thread inside its
own `disable()` never destroys. `NeverUndercounts` and `QuietWithinLimits` relate the byte count
and the limits to what is pending when no call is in progress; the history
variable `excuse` names the three events after which they need not hold: two
overlapping `+=` (bytes are lost, for good), and, until the next append, a flush
that found itself disabled and a destructor that raised. The next `add_item` must
make up for the last two, so its append takes them back.

### Disposal

What those who hand a resource to the queue rely on: it waits, is then destroyed,
once, and a party that is deferring destroys nothing. `Dispose` lets a call hand
over some resources and destroy some that wait. In `PendingDeallocs` the parties
are the threads, `waiting` is the deque and what flushes hold in their hands; in
`DeviceMemory` there is one party, the manager, `waiting` is the queue and `gone`
the memory given back to the driver (without registrations of host memory, which
are undone without the queue). Both refinements are stated as the property
`Disposes == Queue!Spec`, checked by TLC in the runs `pending` and `memory` and
proved as the theorems `Implements`.

### DeviceMemory

One action per call: `Alloc`, `AllocRetry`, `AllocFails` (`memalloc` and its
relatives with `_attempt_allocation`), `View` (of anything in the table, registered
memory too: `MappedMemory` keeps its `owner` argument to itself, so its views own
the mapping), `DropPlain`, `DropView`, `DropPinned` (the ends of `OwnedPointer`, of views and of pinned memory),
`Free`, `Reset`, `Defer`, `EndDefer`. `Finalize` is the `core()` of the three
finalizer factories; `AddItem` and `AfterClear` what the queue does in a single
thread with destructors that succeed. Five kinds of allocation differ in whether
they are kept in the table (`Tracked`), queued or undone at once (`Immediate`)
and whether the finalizer insists on its key (`Strict`). `Reset` empties the
table first; objects without a view are collected then, and their finalizers
find it empty. `forced` and `dropped` record `free()` and resets, since memory
freed by hand may be used after. `NothingForgotten` leaves out what `Escaped`
names: mapped host memory, allocated or registered, that was in the table when it
was reset (see section 4). `Disposes` is the refinement of `Disposal`.

### ContextStack

`stack` is the driver's stack of contexts of each thread, `attached` and `cached`
the two thread-local attributes, `blocks` the with-blocks and API functions the
thread is in; `objects`, `lst`, `primary` are shared. A call goes through the
points where it looks at shared state or changes it: `TakeLock`, `LookUpList`,
`LookUpDevice` and `StoreDevice` (one Device after the other, as the list is
made), `LookUpPrimary`, `Create`, `Adopt` or `Push`, `Prepare`; each can fail where
the code can (`CreateFails` before and after the driver's push, `PrepareFails`).
`BeginGpu` looks at the list before the lock is taken and `EndGpu` gets the Context
without the lock, as `_DeviceContextManager` does. Another library pushes and pops
contexts of its own on any thread (`ThirdPush`, `ThirdPop`), well nested. `Reset`
is `cuda.reset()` in a worker, `ResetAll` in the main thread, possibly cut short.
What the driver and `cuda.core` do is external: in `Create` the current context
may be answered as the one on top of the stack or as the primary one (`Current`).

A block is `clean` while its thread has changed the stack in it only by what nests.
`ScopesNest` and `AttachedIsCurrent` say what then holds of the stack and of both
caches; `select_device`, `reset` and a failed push leave a block not clean, since
the code documents no promise for them. `OneContextPerDevice` is the docstring of
`_Runtime`, `ProxiesAlive` what the weak proxies of `_DeviceList` need,
`LockHeldInCall` that no failure leaves the lock taken.

### Modules

A handle names an `ObjectCode`, which loads itself once. `Bind` and `Launch` begin
a call; `LookUpFunction`, `LookUpCubin`, `Link`, `Load`, `StoreFunction` are the
reads and writes of `get_cufunc`, `get_cubin` and `create_module_image`; `Setup`
runs the callbacks of `initialize_once()`, `EnsureMemsys` is `rtsys`, `Bound`
files the kernel among the overloads, `Run` launches it. Compiling is under the
lock of the compiler, launching under none. `Reset` is one Context's reset by its
steps `ClearModules`, `ResetFlush`, `ResetRtsys`; `Flush` unloads the next entry
of a queue at any other time. `Load` of a handle that the Context has is an
`AssertionError` of its `UniqueDict`, whose finalizers tear down and queue a handle
that is in use: the history variables `raced` and `asserted` say where that happened,
and `cut` which Context's reset was ended by an entry that failed, before
`rtsys.close()`, since the last reset that came to its end. The properties say that
nothing else goes wrong.

### CacheFile

`index` and `data` are the files, `stamp` what each process remembers of the
source file, `call` the call a process is in. `_open_for_write` replaces a file
as a whole, so a step reads or replaces one. `Save` reads the index, `NameNew`
picks the first free number and replaces the index, `SaveData` writes the data
file; `SaveFails` and `Crash` may come between. Numbers above the number of keys
cannot occur (an index has at most that many entries), which bounds the model
without a bound of its own. The history variable `clean` holds as long as calls
did not overlap and no save was cut between index and data.

### LaunchConfig

A dispatcher is named `Main` or by the configuration it is specialized for. A
kernel is abstracted to what matters: whether its metadata says it is sensitive,
for which configurations its code was generated, and the `recompile()` it
follows. A launch passes through `Select` (the choice of the dispatcher),
`Resolve` (the C look-up of the overload), `CompiledMeanwhile`, `CompileHit`,
`CompileMiss` and `Compile` (under the global lock: memory, disk, compilation,
marker, save), `UpdateFlag`, `UpdateDefault`, `Launch`. `Recompile` and
`Restart` happen while nothing is launched. `Flag` is the tri-state
`_launch_config_sensitive_flag`, `CacheKey` and `ConfiguredKey` the key of the
disk cache. `Inner` signatures call a device function whose passes look at the
configuration and which is compiled once per signature (`device`). A launch may
begin while another is in progress (`overlaps` bounds how often).

The choice of the dispatcher is not atomic with what makes it sensitive: when two
threads are in launches that chose `Main` under different configurations, one of
them may run, and file on disk, the other's code. The history variable `excuse`
holds "contended" from then on, and "recompiled" after `recompile()`; `SafeReuse`
and `DiskKeyed` hold in every behaviour without the former, with any number of
threads, and `DiskSparesCompiling` without either.
Simplifications: two threads that create the same specialization share it; a
save in the middle of a compilation succeeds (its failure is `CacheFile`'s); the
path where a sensitive kernel is loaded without its marker cannot arise from the
code's own files; `specialize()`, extensions and argument marshalling are left
out.

### Simulator

`pc` follows a thread through `syncthreads` one shared attribute at a time:
`Enter` (the abort flag), `Arrive` (sets `syncthreads_blocked`), `Wake`,
`Clear`, `Leave` (the abort flag again). A vote writes its cell, passes a
barrier, counts and passes another (`Vote`, `CountCells`). The manager's loop is
`Poll` for each thread, `Release`, `Prune` (one `is_alive()` each), `Again`, and
`Finish` with the final check. A release or an abort touches each thread's
attributes in one step: a thread that is slow to wake covers the orders in
between. A kernel is a sequence of operations; a thread may return or raise
before each. `cell` counts the writes of one array element, so that an operation
is atomic exactly when it replaces the version it read (`read`). Other threads
than those of the block are "dead" from the start.

### Reduction

A value is the bag of what was folded into it, which is right exactly when the
result is right for every associative and commutative operation. `Launch`,
`BeginBlock` and `Return` are `Reduce.__call__` with its three launches in stream
order; `Step` is one thread from a barrier to the next with work for it. `Awaits`
says for which threads a barrier waits: those of the warp (`syncwarp`) or of the
block (`syncthreads`). `Reads` and `Writes` are the cells of a stage, `Computed` the
fold of what is read. `Exact`: the call returns each element once and the initial
value once. `RaceFree`: two threads that may both run never touch a cell that one
of them writes, so taking an interval as one step hides nothing. The strided loop
of a full block is one step: the array has no writer meanwhile. The call is the one
without `res`, the array into which the result may be copied instead.

### Dominators and ControlFlow

`Dominators` is the todo list of `_find_dominators_internal`, over any graph whose
tables mirror each other (`GraphOK`), taking any member of the list. `ControlFlow`
runs `process()` and the analyses one after the other: `EliminateDeadBlocks`,
`BackEdgeNext` and `BackEdgePop` (the depth-first walk), `PostOrder` (the stack of
`_find_postorder`), `SweepNext` (immediate dominators), `Dominate` and
`PostDominate`, which are the steps of two instances of `Dominators`; after a walk
every order of successors is tried. Loops, `in_loops` and the dominance frontier
are operators over the results. The properties compare each result with a
definition by paths (`Reachable`, `Dominates`, `Ends`). Flow graphs are the
reducible ones: Python has no `goto`, and on an irreducible graph the docstring
"back edge if and only if dest dominates src" is false.

## 3. Runs

| run | instance | shows |
|---|---|---|
| `pending` | 2 threads, 4 resources of sizes 4, 2, 1 and unknown, limits 2 entries and 3 bytes, 1 faulty destructor, 2 blocks; 0.45 M states | every interleaving of adding, flushing, failing and deferring; implements `Disposal` |
| `memory` | 1 device allocation, mapped and pinned memory of which one fits, one mapped registration, queue of 1 entry and 1 byte, 3 owners, 1 deferred block; 0.75 M states | owners, finalizers, retry, resets; implements `Disposal` |
| `cache` | 2 processes, 2 keys, 2 stamps; 36 k states | any interleaving, failure and crash |
| `cache_shared` | the same | finding 1 |
| `launch` | 2 threads, 2 configurations, 2 signatures (one needs the configuration, one ignores it), disk cache, marker may fail, 1 recompile, 1 overlap, any number of restarts; 1.3 M states | which kernel a launch runs and what is on disk; compiled once |
| `launch_inner` | 1 thread, 2 configurations, a kernel with a device function that looks at the configuration | finding 2 |
| `simulator` | 2 threads: two votes; shared array and barrier; two adds; exchange and cas. 3 threads: two barriers; a vote; max and nanmax; 0.5 M states | barriers, votes, atomics, termination |
| `simulator_shared` | 2 threads, a shared array | finding 3 |
| `context` | main thread (2 nested blocks) and a worker (1), 2 devices, 1 context of another library, 1 context on a stack before a push; 3.4 M states | with-blocks nest, attached is current, one Context, one Device object, lock given back |
| `modules` | 2 threads, 2 devices of one compute capability, 2 kernels, 6 modules; 0.9 M states | setup before launch, teardown before unload, what a failed assertion can come from |
| `reduction` | warps of 4 lanes, 2 blocks, arrays of 0, 1, 3, 4, 5, 8, 10 and 53 elements, interleaved warps in one full block; 0.16 M states | each element once, no race |
| `controlflow` | reducible graphs of 4 blocks with at most 2 successors; 82 k states up to symmetry | results agree with the definitions by paths |

Why the bounds are enough. In `pending` each limit alone can start a flush, and
one entry can exceed the bytes while the next, of unknown size, exceeds neither
limit: what a refused flush left is then up to that entry. Two blocks can nest or
overlap between the threads. In `memory` the pool of host memory holds mapped or
pinned memory, so that either needs the other to be given back; one entry of two
bytes, or two of which one has no size, start a flush; the registration can outlive
a reset by a view while other allocations fill the table again; three owners let a
view go while two remain. Each allocation is made once, since an address that is
used again is a new allocation. Nothing in `memory` depends on how many allocations
there are of one kind; its theorems are about any number. Two processes, two keys and two stamps let numbers collide and
versions alternate. Two configurations are the smallest number for which a
kernel can be the wrong one; a third would be treated as the second. One overlap
lets two threads meet at every pair of points of their launches. In `simulator`
two votes in a row are what the second barrier of a vote is for; three threads let
one end, one wait and one run. In `context` two devices are needed to switch, two
nested blocks to leave an inner one wrongly, the worker to race for the list, the
Device objects, the Context and the lock; a stack that was not empty before the
first push tells "found" from "empty". In `modules` two devices of one capability
share a cubin and so a handle; six modules leave room for two kernels on two
devices, the module of the NRT, and one more after a reset. In `reduction` the
sizes are: nothing; less than a warp; a warp and one less, exactly and one more;
two warps, exactly populated (which the code treats as not "fully populated");
three with a partly populated last one; and three chunks for a grid of two full
blocks, so that one of them loops, with a partial block after them. Four lanes let
the halving take two rounds. `InTurn` lets the warps interleave in every way in one
of the full blocks only, since blocks share no shared memory; `NoRaces` and
`FoldsEachOnce` are proved of all orders. Graphs of four blocks hold two nested loops, a loop
with two latches, an endless loop with and without another exit, and a diamond.

Deadlock is checked except where the system stops for good (`memory`: everything
was allocated and freed; `simulator`: the launch is over, and `Terminates` says
more; `controlflow`: the analysis is done). `Reduction` ends in a stuttering
disjunct of its own, so that a barrier that waits for ever would be found.

Fairness is assumed in `Simulator` only: the operating system runs each thread
that can run, and the manager (weak fairness of each). Kernels have finitely many
operations. The other specifications have safety properties only: nothing in that
code waits, apart from the locks of the compiler and of the runtime, which
`CompiledOnce` and `LockHeldInCall` are about.

## 4. Findings

1. The cache is meant to work from several processes at once. `save()` does not
   lock its read-modify-write of the index: two processes pick the same number,
   and a load can return the code of another key (`core/caching.py:115`).
2. Kernels are to be recompiled for each launch configuration they depend on. A
   device function is compiled once per signature: the kernel of the second
   configuration contains device code generated for the first
   (`dispatcher.py:2054`).
3. The simulator is to share a shared array between the threads of a block. The
   table is looked up and filled without a lock (`simulator/kernelapi.py:132`).

Differences met while modelling that have no run of their own. Memory:

- `memory.rst:324` says that after an error in a deallocation the remaining ones
  are cancelled. The code keeps them, and the next flush destroys them
  (`driver.py:1017`).
- `memory.rst:313` says that dropping the last reference schedules the
  deallocation. For mapped host memory whose view outlives a context reset the
  finalizer raises `KeyError` once the table is not empty, before it reaches the
  queue: the memory is never freed (`driver.py:1344`; `Escaped`). Likewise memory
  registered with `mempin(mapped=True)` is never unregistered (`driver.py:1368`),
  against the docstring of `_pin_finalizer`: the lock "must therefore be lifted as
  soon as finalization is requested", since a later `mempin` of that memory may
  fail otherwise.
- `defer_cleanup()` documents that all cleanup is deferred inside; `clear()` looks
  once, so a flush that another thread has begun goes on (`driver.py:1016`).
- Two `self._size += ...` that overlap lose bytes: the byte limit is then exceeded
  (`driver.py:1004`; `QuietWithinLimits` without its excuse).
- When two threads flush the queue at once, the `popleft` of one may find it
  empty: the `IndexError` leaves a finalizer, or an allocation that had only to
  retry (`driver.py:1018`, `PopFails`). The queue itself comes to no harm.

Contexts and modules:

- Two threads that ask for a new Device at once: the second insertion fails the
  assertion of `UniqueDict` (`driver.py:379`, `StoreDevice`). Likewise two first
  launches of one kernel on a second device (`codegen.py:357`, `driver.py:1237`,
  `Load`); there the module made in vain is finalized, and its teardown callbacks
  run and its handle is queued although the other module is in use.
- Devices of one compute capability share an `ObjectCode` and so a handle: the
  reset of one Context unloads it under the other, whose own unload then fails
  (`UnloadNext`; why `TornDownThenUnloaded` speaks of some module of a handle).
- `cuda_ffi.rst` says that setup functions run once for every module loaded. They
  run in `bind()`, for the device that is current then; a launch on another device
  loads a module that is never set up (`HomeIsSetUp` is about the first one only).
- `_cufunc_cache` still holds functions of unloaded modules after a reset.
- `ensure_initialized()` sets `is_initialized` before it calls `cuInit`: another
  thread may use the driver before it is initialized (`driver.py:287`).
- The lock of `locks.py` is not re-entrant: a setup callback that loads a module
  with callbacks waits for itself.

Launches and the cache:

- With two threads that make the first launch under different configurations,
  both choose the main dispatcher and one runs the kernel compiled for the other
  (`dispatcher.py:1774`; `SafeReuse` without its excuse). With a disk cache the
  wrong kernel is filed under the key of no configuration, and later processes
  load it (`DiskKeyed` without its excuse).
- `recompile()`, "Recompile all signatures afresh", leaves specializations with
  their old kernels, and with the cache turned off leaves the disk as it was.
  After it, a specialization that remembers the marker does not write it again:
  the next process does not find what it saves (`DiskSparesCompiling`).

Simulator:

- Atomic operations of different kinds on one element have different locks and
  are not atomic to each other (`AtomicsAreAtomic` with a kernel that adds and
  exchanges).
- `type(e)(msg)` raises for exceptions that cannot be built from a string: the
  simulated launch then returns as if nothing had happened
  (`simulator/kernel.py:212`).
- An aborted launch returns while its threads still run (`simulator/kernel.py:309`).
- Votes count the cells of threads that returned earlier (`docs/source/reference/kernel.rst`
  calls that undefined).

Reduction and compiler:

- `Reduce.__call__` documents that with `res` the result is written into its first
  element and `None` is returned. For an empty array the code returns `init` and
  leaves `res` as it was (`kernels/reduction.py:226`).
- A comment at `core/controlflow.py:722` promises loops "from longest to shortest,
  outer before inner"; they are sorted by ascending size, the innermost first,
  which is what `in_loops` documents and `LoopsNest` states.
- The dominance frontier omits an entry point with exactly one predecessor, since
  it looks at nodes with two or more; `DominanceIsExact` leaves the entry out.
- `CastGraph.insert_rule` calls back with the rule it was given also when a
  stronger one is kept, and the type manager then overwrites its entry. The default
  rules, inserted in their order, give the same in both.
- `Event.is_failed` is true for events that did not fail (`core/event.py:172`).

## 5. Proofs

| module | theorem | says |
|---|---|---|
| `PendingDeallocs_proofs` | `Typing`, `AlwaysExactlyOnePlace`, `OwnBlockAlwaysDefers`, `Implements` | types; one place; own block defers; implements `Disposal` |
| | `NeverUndercounted`, `AlwaysQuietWithinLimits` | the byte count covers what waits; nothing waits above the limits |
| `DeviceMemory_proofs` | `Typing`, `NoUseAfterFree`, `NoDoubleFree`, `CountsAreExact`, `Implements` | types; owners keep memory; queued once; counts exact; implements `Disposal` |
| | `NothingIsForgotten`, `FailsOnlyForOwners` | no leak; "out of memory" only when owners have it |
| `CacheFile_proofs` | `Typing`, `IndexAlwaysOneToOne`, `CleanRunsLoadWhatTheyAskFor`, `CleanRunsKeepTheIndex` | types; index one-to-one; loads and index of clean runs |
| `LaunchConfig_proofs` | `Typing`, `CalmReusesSafely`, `CalmKeysDisk` | types; safe reuse and keys on disk |
| | `AlwaysCompiledOnce`, `AlwaysRecompiledAfresh`, `DiskAlwaysSparesCompiling` | no overload compiled twice; `recompile()` leaves nothing old to the main dispatcher; what the disk has is not compiled |
| `ContextStack_proofs` | `OneContext`, `LockGivenBack`, `ListStandsForDevices` | one Context per device; lock given back; one Device object |
| | `WithBlocksNest`, `AttachedStaysCurrent` | blocks leave the stack as they found it; the caches name the context on top |
| `Modules_proofs` | `TypeCorrect`, `AlwaysSetUp`, `AlwaysTornDown`, `AssertionFailsOnlyOnRaces`, `RtsysAlwaysAlive` | types; setup before launch; teardown before unload; what a failed assertion can come from; NRT's module lives |
| `Simulator_proofs` | `BarriersAlwaysHold`, `CountsAreAlwaysVotes`, `ReturnsClean`, `LikeAtomicsAlwaysAtomic` | no thread leaves a barrier early; votes count what was voted; a launch that returns left nothing behind; operations of one kind are atomic |
| `Algorithms_proofs` | `BackEdgesFound`, `OrderAlwaysTopological` | the depth-first walk finds the edges into dominators; the post-order is topological |
| | `AssertionAlwaysHolds`, `DominanceAlwaysExact` | the assertion holds for both callers; dominators, immediate dominators, post-dominators and frontiers are what paths say |
| | `LoopsAlwaysNest` | a loop is what its header dominates and what leads back to it; loops are nested or apart |
| | `AssertionNeverFails`, `EndsGreatest` | the sets of the todo-list algorithm shrink on any graph; it ends in the largest solution |
| | `NoRaces`, `FoldsEachOnce` | no race in the reduction kernel; `cuda.reduce` returns each element and the initial value once, for every warp size, grid and array |

All hold for any number of threads, processes, devices, allocations, keys,
signatures, configurations, kernels, modules and blocks, under the named
assumptions on the constants of each module. Only `CalmReusesSafely` and
`CalmKeysDisk` have a hypothesis besides, `KernelsOnly`: no device function looks
at the configuration (otherwise finding 2 refutes them). `AssertionNeverFails` and
`EndsGreatest` are about every graph, finite or not; the other five on flow graphs
about every finite reducible graph with any order of successors. `Reduction`
assumes of powers of two only that `2^0` is 1 and that each is twice the one before
(`PowerAssumption`), since the provers know nothing of exponents, and of the grid
that there are fewer partial results than threads in a block
(`PartialsAssumption`: 65 at most in the code, and 128), which keeps the last launch
to one block that is not full; TLC evaluates both. Its variables and its
specification bear names of their own (`ReduceSpec`), as one module of proofs
extends it and `ControlFlow`.

The argument in each case is an inductive invariant:

- *PendingDeallocs.* That a thread holds an item exactly when it is between
  taking and destroying it (`HoldsItem`) goes with `ExactlyOnePlace`. That
  `disable_count` is the number of open blocks (`CountsBlocks`) gives both
  `disable_count >= 0` and, since a thread passes `CheckDisabled` only outside
  its own blocks, `OwnBlockDefers`. With these, each step is a step of
  `Disposal` or none: only `AddItem` extends what waits, only `Destroy` moves an
  item over. For the count, as long as no two `+=` overlapped, one thread at
  most is between its read and its store, and both what is stored and what was
  read reach the bytes of the entries counted so far (`Accounted`); the sum is
  the cardinality of a set of bytes (`BytesOf`), which spares an induction. For
  the limits, a queue above one of them has a thread in `add_item` or `clear`
  that has yet to look at it, unless excused (`Attended`).
- *DeviceMemory.* Counts are exact (`RefctIsOwners`), the table holds owned
  memory with a live finalizer (`TableIsOwned`), and a live finalizer means
  memory the driver has and the queue does not. A finalizer runs only when the
  count says that there is no owner, which gives `OwnersKeepMemory`,
  `QueuedOnce` and, action by action, the refinement. Memory that the driver
  still has is in the queue or has a finalizer (`Remembered`), and one with a
  finalizer has an owner or is in the table (`HeldByOwners`): hence nothing is
  forgotten, and when `AllocFails` has flushed the queue, what fills the device
  is owned.
- *CacheFile.* `IndexIsOneToOne` needs the same of every index that a process
  holds in memory. In a clean run at most one call is in progress (`OneCall`),
  the index it read is the one on disk (`NameSeesIndex`), a file being written
  or read is in the index (`FileIsIndexed`), and every other entry was written
  (`EntriesAreWritten`).
- *LaunchConfig.* Before the main dispatcher is known to be sensitive, every
  launch that chose it has one configuration unless launches contended (`Calm`);
  afterwards its kernels are for the default configuration, those of a
  specialization for its own, and what is on disk is under its key. "Contended"
  is never taken back, so the invariant is of the form `Calm => Inv`, and a step
  that stays calm was calm before (`CalmBefore`). One thread at a time compiles,
  and it has seen that the overload is missing (`LockOK`), which gives
  `CompiledOnce`; whatever a launch of the main dispatcher finds or is about to
  store follows the last `recompile()` (`Recent`), since that happens while
  nothing is launched. For the disk (`MarkerInv`): there is a default only once
  the main dispatcher is sensitive, and specializations are launched only then
  (`Route`); unless launches contended, who compiles does so under its own
  configuration or none (`RouteCalm`); a dispatcher does not believe that the
  marker is missing when it is there, unless it knows better (`Born`); before
  the first `recompile()`, what is sensitive and goes to disk has left the
  marker (`MarkerOK`). So the thread that compiles looked under the key it saves
  under (`CompilingOK`).
- *ContextStack.* Who is past `TakeLock` holds the lock, except a call that
  makes the list for a with-block or leaves one (`Holding`); the latter never
  has to make a Context, since every with-block in progress has the Context of
  its device (`Entered`) and the only step that takes Contexts away finds no
  block. So who is about to make a Context is alone and finds none (`Known`,
  `Counted`). For the list, each Device found by any call is the first of its
  number (`Lists`): an insertion that comes second raises. For the with-blocks,
  all of `Scoped` is about one thread at a time: each block sits on those around
  it, right on them where nothing was pushed or popped for good (`Sits`,
  `Ordered`); the context of such a block is where it was pushed (`InPlace`);
  from the first API function on the stack holds nothing but the attached
  context (`Ours`); and the call in progress (`CallScope`), the cached
  (`CacheScope`) and the attached context (`Attachment`) go with the blocks.
- *Modules.* A call knows the handle it loads and then the module it has loaded
  (`CallOK`). Who binds a kernel is alone in that and makes its first module
  (`BindOK`), so a kernel that may be launched was set up where it was bound
  (`BoundIsSetUp`). A handle belongs to one library for good (`Owned`), and for
  each module that a Context keeps there is a function in the cache, or will be
  (`Stored`). What is in a queue was torn down, and, unless two threads loaded
  one `ObjectCode` at once, its Context has no module of it and nobody will load
  it there again (`Queued`, `Settled`). `rtsys` outlives its module only until
  the end of a reset of its Context, or after one that was cut short (`RtsysKept`). A reset goes
  through a dictionary in its order; that there is such an order is
  shown by a least counterexample (`WFMin`), in place of an induction.
- *Simulator.* Until an abort, threads that have not ended may leave the same
  number of barriers, and none has left more (`Abreast`); how many one has left
  follows from its line (`Barriers`). This needs what the manager's sets mean:
  blocked threads wait and were not released, released ones have not come again
  (`Signalled`), no running thread is pruned (`Watched`). A cell holds what its
  thread voted at its line until the thread votes at a later one (`Cast`), and
  where somebody has counted nobody is still to vote (`Counted`). A lock is held
  by one thread at a time (`Locked`), so a value that was read is current until
  it is stored if all operations have one lock (`Current`).
- *Control flow.* The reachable blocks are the least set closed under
  successors, shown to exist by a least counterexample. In the walk for back
  edges, the stack is a path from the entry, the edges followed so far lead to
  the path or to what is finished, and the back edges are those of them that
  lead to a dominator (`Walk`): on a reducible graph, the ones that lead back to
  the path. In the post-order, an open block lies on the stack below what it
  leads to, and a listed one comes after it (`Listed`, `Stacked`, together
  `Ordering`), since the graph without back edges has no cycle. For dominators,
  what is computed for a node is always part of what it has (`Below`), so sets
  only shrink; every solution of the equations stays below (`Above`); a node
  that is not in the list has the set it should have (`UpToDate`). At the end
  the sets solve the equations, and no solution is larger. `DomInv` says this of
  any tables and serves both callers and `Dominators` alone. Dominance by paths
  is itself a solution, and every solution is part of it, so it is what the
  algorithm ends in. `CFInv` says what holds at each stage of `process()`.
  *Post-dominators*: the graph linked to an exit (`Linked`) has paths that end where
  the code's do, at exit points and in loops that have none (a cycle has a
  member that comes last in the order, and that heads it). *Immediate dominators*:
  in the order of the sweep a node comes after its dominators, so each predecessor
  by a forward edge has its immediate dominator when the node's turn comes
  (`Climbable`), the climb of `intersect` meets the nearest common dominator, and
  the first sweep has them all right (`Sweeping`); that there is one more sweep is only
  how the code notices. *Loops*: a body is the least set closed under predecessors
  up to the header; two dominators of one node are in line, so two loops with a
  common node have headers in line, and the one whose header is dominated lies
  inside. *Frontiers*: the climb from a predecessor passes the dominators of
  that predecessor up to the immediate dominator of the node. Each recursive climb
  or fold is shown to have one solution on the data at hand (an explicit one, and
  a least counterexample against a second), so no induction over data is needed.
- *Reduction.* A thread stands before a stage it has work in (`Stages`), and the
  total of a full block waits for its rows (`RowsDone`: between pairing and
  total there is only a `syncwarp`, which suffices because both pairing threads
  are of the first warp). Two ready threads of different stages would make one
  of them wait for the other; two of one stage have different rows, lanes or
  halves. The result is a matter of conservation. Who takes over from whom at which
  stage (`Takes`) is fixed by the geometry: no thread is taken over from twice
  (`TakenOnce`), and only after its own work there (`TakenLater`). Whoever did its
  work at a stage had waited for the others (`Passed`). So while a block runs, the
  values of the threads that nobody has taken over from yet (`Live`), in their cell
  or still to be stored (`Holds`), are disjoint sets that together are what the block
  is due (`Split`), and the total reads exactly the cells of those left
  (`TotalReads`). What a block is due follows from division: the strided loops
  share the bulk of the array out (`ReachedOnce`), the partial results the array and
  the initial value (`Parts`). Each launch has written its partial results right
  before the next reads them (`Written`, in `CallInv`). The fold of bags is shown
  to have one value on disjoint sets (`BagFoldIs`), by a least counterexample.

Only model-checked:

- `Terminates` of `Simulator`: liveness under fairness, out of the prover's reach.

## 6. Not modelled, and what could come next

In this order:

1. Stream callbacks and futures (`async_done`: a future resolved from a driver
   thread while its loop may be closing), IPC handles (`IpcHandle.open` records
   itself as open before it has opened), NRT's MemInfo on the device.
2. The closure of `typeconv/castgraph.py` and the choice of an overload.
3. The broadcast of compiler events, and the initialisation of the driver by two
   threads.

Left out of the modelled components: the notes of "components" in
`PROJECT.json` name them one by one (argument marshalling, `specialize()`, `res` of
`cuda.reduce`, plugins for memory managers, links between libraries, dumps, the
arithmetic of the simulator).

Not planned: the translation from bytecode to LLVM IR and the libraries of device
functions (their meaning is that of the emitted code: fp16, bf16 and fp8 tables,
`np/arrayobj.py`, `np/arraymath.py`, `libdevice.py` and the like make up most of the
repository's lines and have no state of their own), the CUDA driver and
compilers (external; modelled as far as their answers matter), argument
marshalling, environment parsing, packaging.
