------------------------------ MODULE Simulator ------------------------------
(***************************************************************************)
(* One block of a kernel launch in the simulator: the threads of the block *)
(* (BlockThread of simulator/kernel.py), each a thread of the operating    *)
(* system, the BlockManager that polls them, and what a kernel does        *)
(* through simulator/kernelapi.py: barriers, votes, shared arrays and      *)
(* atomic operations.                                                      *)
(*                                                                         *)
(* A step reads or writes one attribute that another thread looks at.      *)
(***************************************************************************)
EXTENDS Integers, Sequences, FiniteSets

CONSTANTS Tid,       \* positions in a block
          Launches,  \* what is launched: a kernel, and the block's threads
          NoArray

\* Operations of FakeCUDAAtomic, and those that read the element a second time
\* to compute what they store.
Atomics == {"add", "exch", "max", "nanmax", "cas"}

Rereading == {"add", "nanmax"}

Operations == {"sync",    \* cuda.syncthreads()
               "vote",    \* cuda.syncthreads_count, _and, _or
               "shared"}  \* cuda.shared.array
              \cup Atomics

ASSUME ConstantsAssumption ==
         /\ IsFiniteSet(Tid)
         /\ Launches \subseteq [kernel : Seq(Operations), threads : (SUBSET Tid) \ {{}}]
         /\ NoArray \notin Tid

VARIABLES kernel,   \* the kernel: a sequence of operations, one a line
          threads,  \* the threads of the block
          line,     \* of each thread: the operation it is at
          half,     \* of each thread: the barrier of a vote, 1 or 2
          pc,       \* where each thread is in it
          blocked,  \* threads whose syncthreads_blocked is set
          event,    \* threads whose syncthreads_event is set
          abort,    \* threads whose abort flag is set
          failed,   \* threads whose exception is set
          manager,  \* where BlockManager.run is
          todo,     \* threads that its loop has not come to
          live,     \* livethreads
          waiting,  \* blockedthreads
          block_state,  \* threads whose cell of block_state is true
          counted,  \* <<t, l, S>>: thread t saw S in block_state at line l
          arrays,   \* FakeCUDAShared._allocations: by line, the array's creator
          held,     \* <<t, l, a>>: thread t got array a at line l
          locks,    \* the module's locks that are held
          cell,     \* an element of a global array: how often it was written
          read,     \* what each thread has read of it in its operation
          ballots   \* history: <<t, l, v>>: thread t voted v at line l

threadVars  == <<line, half, pc>>
signalVars  == <<blocked, event, abort, failed>>
managerVars == <<manager, todo, live, waiting>>
voteVars    == <<block_state, counted, ballots>>
memoryVars  == <<arrays, held, locks, cell, read>>

launch == <<kernel, threads>>

vars == <<launch, threadVars, signalVars, managerVars, voteVars, memoryVars>>

\* All threads have been created and started.
Init == /\ \E l \in Launches : kernel = l.kernel /\ threads = l.threads
        /\ line = [t \in Tid |-> 1]
        /\ half = [t \in Tid |-> 1]
        /\ pc = [t \in Tid |-> IF t \in threads THEN "run" ELSE "dead"]
        /\ blocked = {} /\ event = {} /\ abort = {} /\ failed = {}
        /\ manager = "poll" /\ todo = threads /\ live = threads /\ waiting = {}
        /\ block_state = {}
        /\ counted = {}
        /\ arrays = [l \in 1..Len(kernel) |-> NoArray]
        /\ held = {} /\ locks = {}
        /\ cell = 0
        /\ read = [t \in Tid |-> {}]
        /\ ballots = {}

Goto(t, l) == pc' = [pc EXCEPT ![t] = l]

\* The thread is about to run an operation of this kind.
At(t, op) == pc[t] = "run" /\ line[t] <= Len(kernel) /\ kernel[line[t]] = op

\* The operation returns to the kernel.
Returns(t) == /\ line' = [line EXCEPT ![t] = @ + 1]
              /\ Goto(t, "run")

-----------------------------------------------------------------------------
(* A thread's end.                                                         *)

\* The function returns, at its end or earlier.  So ends a thread that raises an
\* exception whose type cannot be made from one string: type(e)(msg) raises in
\* its turn in BlockThread.run, and nothing is kept.
Return(t) == /\ pc[t] = "run"
             /\ Goto(t, "dead")
             /\ UNCHANGED <<launch, line, half, signalVars, managerVars, voteVars, memoryVars>>

\* BlockThread.run catches an exception and keeps it.
Raises(t) == /\ failed' = failed \cup {t}
             /\ Goto(t, "ending")

\* The kernel raises.
Raise(t) == /\ pc[t] = "run"
            /\ Raises(t)
            /\ UNCHANGED <<launch, line, half, blocked, event, abort, managerVars,
                           voteVars, memoryVars>>

End(t) == /\ pc[t] = "ending"
          /\ Goto(t, "dead")
          /\ UNCHANGED <<launch, line, half, signalVars, managerVars, voteVars,
                         memoryVars>>

-----------------------------------------------------------------------------
(* BlockThread.syncthreads.                                                *)

\* A call of syncthreads.
Sync(t) == /\ At(t, "sync")
           /\ Goto(t, "enter")
           /\ UNCHANGED <<launch, line, half, signalVars, managerVars, voteVars,
                          memoryVars>>

\* The abort flag is looked at: an exception, or on to the barrier.
Enter(t) == /\ pc[t] = "enter"
            /\ IF t \in abort THEN Raises(t) ELSE Goto(t, "arrive") /\ UNCHANGED failed
            /\ UNCHANGED <<launch, line, half, blocked, event, abort, managerVars,
                           voteVars, memoryVars>>

\* self.syncthreads_blocked = True
Arrive(t) == /\ pc[t] = "arrive"
             /\ blocked' = blocked \cup {t}
             /\ Goto(t, "wait")
             /\ UNCHANGED <<launch, line, half, event, abort, failed, managerVars,
                            voteVars, memoryVars>>

\* self.syncthreads_event.wait() returns.
Wake(t) == /\ pc[t] = "wait"
           /\ t \in event
           /\ Goto(t, "clear")
           /\ UNCHANGED <<launch, line, half, signalVars, managerVars, voteVars,
                          memoryVars>>

\* Variant: the event stays set.
ClearNot(t) == /\ pc[t] = "clear"
               /\ Goto(t, "leave")
               /\ UNCHANGED <<launch, line, half, signalVars, managerVars,
                              voteVars, memoryVars>>

\* self.syncthreads_event.clear()
Clear(t) == /\ pc[t] = "clear"
            /\ event' = event \ {t}
            /\ Goto(t, "leave")
            /\ UNCHANGED <<launch, line, half, blocked, abort, failed, managerVars,
                           voteVars, memoryVars>>

\* The abort flag is looked at again: an exception, or back to the caller, which
\* is the kernel or one of the two calls of a vote.
Leave(t) ==
  /\ pc[t] = "leave"
  /\ \/ t \in abort /\ Raises(t) /\ UNCHANGED <<line, half>>
     \/ /\ t \notin abort /\ kernel[line[t]] = "vote" /\ half[t] = 1
        /\ Goto(t, "count")
        /\ UNCHANGED <<line, half, failed>>
     \/ /\ t \notin abort /\ (kernel[line[t]] = "sync" \/ half[t] = 2)
        /\ Returns(t)
        /\ half' = [half EXCEPT ![t] = 1]
        /\ UNCHANGED failed
  /\ UNCHANGED <<launch, blocked, event, abort, managerVars, voteVars, memoryVars>>

-----------------------------------------------------------------------------
(* syncthreads_count, syncthreads_and and syncthreads_or.                  *)

\* The thread's cell is written, and syncthreads called.
Vote(t, v) ==
  /\ At(t, "vote")
  /\ block_state' = IF v THEN block_state \cup {t} ELSE block_state \ {t}
  /\ ballots' = ballots \cup {<<t, line[t], v>>}
  /\ Goto(t, "enter")
  /\ UNCHANGED <<launch, line, half, signalVars, managerVars, counted, memoryVars>>

\* Variant: there is no second barrier.
CountAndReturn(t) ==
  /\ pc[t] = "count"
  /\ counted' = counted \cup {<<t, line[t], block_state>>}
  /\ Returns(t)
  /\ UNCHANGED <<launch, half, signalVars, managerVars, block_state, ballots, memoryVars>>

\* The cells are counted, and syncthreads called again.
CountCells(t) ==
  /\ pc[t] = "count"
  /\ counted' = counted \cup {<<t, line[t], block_state>>}
  /\ half' = [half EXCEPT ![t] = 2]
  /\ Goto(t, "enter")
  /\ UNCHANGED <<launch, line, signalVars, managerVars, block_state, ballots, memoryVars>>

-----------------------------------------------------------------------------
(* FakeCUDAShared.array and FakeCUDAAtomic.                                *)

\* The table is looked up: the array is there, or has to be created.
LookUp(t) ==
  LET a == arrays[line[t]]
  IN  /\ At(t, "shared")
      /\ \/ a # NoArray /\ held' = held \cup {<<t, line[t], a>>} /\ Returns(t)
         \/ a = NoArray /\ Goto(t, "create") /\ UNCHANGED <<held, line>>
      /\ UNCHANGED <<launch, half, signalVars, managerVars, voteVars,
                     arrays, locks, cell, read>>

\* It is created and put in the table.
Create(t) == /\ pc[t] = "create"
             /\ arrays' = [arrays EXCEPT ![line[t]] = t]
             /\ held' = held \cup {<<t, line[t], t>>}
             /\ Returns(t)
             /\ UNCHANGED <<launch, half, signalVars, managerVars, voteVars,
                            locks, cell, read>>

\* Variant: a lock for each operation.
LockOfItsOwn(op) == op

\* Each operation has a lock of its own; nanmax shares that of max.
Lock(op) == IF op = "nanmax" THEN "max" ELSE op

\* The operation takes its lock and reads the element.
Begin(t, op) == /\ At(t, op) /\ op \in Atomics
                /\ Lock(op) \notin locks
                /\ locks' = locks \cup {Lock(op)}
                /\ read' = [read EXCEPT ![t] = {cell}]
                /\ Goto(t, IF op \in Rereading THEN "reread" ELSE "store")
                /\ UNCHANGED <<launch, line, half, signalVars, managerVars, voteVars,
                               arrays, held, cell>>

Reread(t) == /\ pc[t] = "reread"
             /\ read' = [read EXCEPT ![t] = @ \cup {cell}]
             /\ Goto(t, "store")
             /\ UNCHANGED <<launch, line, half, signalVars, managerVars, voteVars,
                            arrays, held, locks, cell>>

\* It stores its result, unless it is a comparison that failed, and gives the
\* lock back.
Store(t) ==
  LET op == kernel[line[t]]
  IN  /\ pc[t] = "store"
      /\ cell' \in IF op = "cas" THEN {cell, cell + 1} ELSE {cell + 1}
      /\ locks' = locks \ {Lock(op)}
      /\ read' = [read EXCEPT ![t] = {}]
      /\ Returns(t)
      /\ UNCHANGED <<launch, half, signalVars, managerVars, voteVars, arrays, held>>

-----------------------------------------------------------------------------
(* BlockManager.run.                                                       *)

\* The loop comes to a thread: it is blocked, or has raised, or neither.
Poll(t) ==
  /\ manager = "poll" /\ t \in todo
  /\ todo' = todo \ {t}
  /\ \/ /\ t \in blocked
        /\ waiting' = waiting \cup {t}
        /\ UNCHANGED <<manager, signalVars>>
     \/ /\ t \notin blocked /\ t \notin failed
        /\ UNCHANGED <<manager, waiting, signalVars>>
     \/ /\ t \notin blocked /\ t \in failed
        /\ abort' = threads
        /\ blocked' = {}
        /\ event' = threads
        /\ manager' = "raised"
        /\ UNCHANGED <<waiting, failed>>
  /\ UNCHANGED <<launch, threadVars, live, voteVars, memoryVars>>

\* The loop is over: if every live thread is blocked, all are released.
Release ==
  /\ manager = "poll" /\ todo = {} /\ live # {}
  /\ \/ /\ live = waiting
        /\ blocked' = blocked \ waiting
        /\ event' = event \cup waiting
        /\ waiting' = {}
     \/ live # waiting /\ UNCHANGED <<blocked, event, waiting>>
  /\ manager' = "prune" /\ todo' = live
  /\ UNCHANGED <<launch, threadVars, abort, failed, live, voteVars, memoryVars>>

\* Variant: threads that ended are still waited for.
PruneNone(t) == /\ manager = "prune" /\ t \in todo
                /\ todo' = todo \ {t}
                /\ UNCHANGED <<launch, threadVars, signalVars, manager, waiting, live,
                               voteVars, memoryVars>>

\* livethreads keeps a thread that is alive when it is asked.
Prune(t) == /\ manager = "prune" /\ t \in todo
            /\ todo' = todo \ {t}
            /\ live' = IF pc[t] = "dead" THEN live \ {t} ELSE live
            /\ UNCHANGED <<launch, threadVars, signalVars, manager, waiting, voteVars,
                           memoryVars>>

\* while livethreads: around again.
Again == /\ manager = "prune" /\ todo = {} /\ live # {}
         /\ manager' = "poll" /\ todo' = live
         /\ UNCHANGED <<launch, threadVars, signalVars, live, waiting, voteVars,
                        memoryVars>>

\* Variant: no final check.
FinishUnchecked == /\ manager = "prune" /\ todo = {} /\ live = {}
                   /\ manager' = "done"
                   /\ UNCHANGED <<launch, threadVars, signalVars, todo, live, waiting,
                                  voteVars, memoryVars>>

\* No thread is left: the final check for exceptions.
Finish == /\ manager = "prune" /\ todo = {} /\ live = {}
          /\ manager' = IF failed # {} THEN "raised" ELSE "done"
          /\ UNCHANGED <<launch, threadVars, signalVars, todo, live, waiting, voteVars,
                         memoryVars>>

-----------------------------------------------------------------------------

\* What a kernel's code decides to do.
Kernel(t) == \/ Return(t) \/ Raise(t)
             \/ Sync(t) \/ (\E v \in BOOLEAN : Vote(t, v))
             \/ LookUp(t) \/ (\E op \in Atomics : Begin(t, op))

Barrier(t) == Enter(t) \/ Arrive(t) \/ Wake(t) \/ Clear(t) \/ Leave(t)

Thread(t) == \/ Kernel(t) \/ Barrier(t) \/ CountCells(t)
             \/ Create(t) \/ Reread(t) \/ Store(t) \/ End(t)

Manager == (\E t \in Tid : Poll(t) \/ Prune(t)) \/ Release \/ Again \/ Finish

Next == Manager \/ \E t \in Tid : Thread(t)

\* The operating system runs every thread that can run.
Fairness == WF_vars(Manager) /\ \A t \in Tid : WF_vars(Thread(t))

Spec == Init /\ [][Next]_vars /\ Fairness

-----------------------------------------------------------------------------

Gone(t) == pc[t] \in {"ending", "dead"}

Lines(t, op) == {l \in 1..(line[t] - 1) : kernel[l] = op}

\* The barriers that a thread has left behind.
Passed(t) == Cardinality(Lines(t, "sync")) + 2 * Cardinality(Lines(t, "vote"))
               + (IF half[t] = 2 \/ pc[t] = "count" THEN 1 ELSE 0)

\* "This function waits until all threads in the block call it"
\* (docs/source/reference/kernel.rst): a thread that is behind another one by a
\* barrier has reached that barrier too, unless it has ended.  The manager only
\* polls, and threads run ahead while others are slow to wake (syncthreads,
\* BlockManager.run).
BarrierHolds ==
  \A t, u \in Tid :
     Passed(u) < Passed(t) /\ ~Gone(u)
       => Passed(t) = Passed(u) + 1 /\ pc[u] \in {"wait", "clear", "leave"}

\* What a thread counts at a vote is what the threads said at that very vote,
\* however far ahead the fastest have run since (syncthreads_count, _and, _or).
\* Cells of threads that ended before they voted keep what they held.
CountsAreVotes ==
  \A c \in counted, b \in ballots :
     b[2] = c[2] => (b[3] <=> b[1] \in c[3])

\* A launch that comes back without an exception left no thread behind, and none
\* of them had kept an exception, be it after the manager's last look at it
\* (BlockManager.run).
CleanReturn ==
  manager = "done" => failed = {} /\ \A t \in Tid : pc[t] = "dead"

\* Operations on one element that take the same lock.
OneLock == \/ \A l \in 1..Len(kernel) : kernel[l] \in {"max", "nanmax"}
           \/ \A l, m \in 1..Len(kernel) : kernel[l] = kernel[m]

\* Thread t writes the element in this step.
Writes(t) == pc[t] = "store" /\ pc'[t] # "store" /\ cell' # cell

\* An atomic operation replaces the very value that it returns and computed
\* from ("Atomic operations" are supported, docs/source/user/simulator.rst).
AtomicsAreAtomic == [][\A t \in Tid : Writes(t) => read[t] = {cell}]_vars

\* It does, when all operations on the element are of one kind, or maxima that
\* ignore NaN or not (FakeCUDAAtomic).
LikeAtomicsAreAtomic ==
  [][\A t \in Tid : Writes(t) /\ OneLock => read[t] = {cell}]_vars

\* Threads of a block that execute the same cuda.shared.array get the same
\* array: the simulator "uses source line information to keep track of
\* allocations of shared memory across threads" (docs/source/user/simulator.rst).
OneSharedArray == \A g, h \in held : g[2] = h[2] => g[3] = h[3]

\* A launch comes back and no thread stays behind, whoever returned early or
\* raised and wherever the others were: nobody waits at a barrier for ever
\* (test_deadlock_on_exception in tests/cudasim/test_cudasim_issues.py).
Terminates ==
  <>[](manager \in {"done", "raised"} /\ \A t \in Tid : pc[t] = "dead")
=============================================================================
