-------------------------- MODULE Simulator_proofs --------------------------
(***************************************************************************)
(* What the barriers, the votes, the final check and the locks of the      *)
(* simulator keep to, for blocks of any size, kernels of any length and    *)
(* every order the threads and the manager may run in.                     *)
(***************************************************************************)
EXTENDS Simulator, FiniteSetTheorems, TLAPS

(***************************************************************************)
(* The inductive invariant.                                                *)
(***************************************************************************)
\* Inside one call of syncthreads.
AtBarrier == {"enter", "arrive", "wait", "clear", "leave"}

InAtomic == {"reread", "store"}

Places == {"run", "count", "create", "ending", "dead"} \cup AtBarrier \cup InAtomic

Lined == 1..(Len(kernel) + 1)

TypeOK ==
  /\ kernel \in Seq(Operations)
  /\ threads \in SUBSET Tid /\ threads # {}
  /\ line \in [Tid -> Lined]
  /\ half \in [Tid -> {1, 2}]
  /\ pc \in [Tid -> Places]
  /\ blocked \subseteq Tid /\ event \subseteq Tid
  /\ abort \in {{}, threads} /\ failed \subseteq Tid
  /\ manager \in {"poll", "prune", "raised", "done"}
  /\ todo \subseteq threads /\ live \subseteq threads /\ waiting \subseteq threads
  /\ block_state \subseteq Tid
  /\ counted \subseteq Tid \X Lined \X SUBSET Tid
  /\ arrays \in [1..Len(kernel) -> Tid \cup {NoArray}]
  /\ held \subseteq Tid \X Lined \X Tid
  /\ locks \subseteq Atomics
  /\ cell \in Nat /\ read \in [Tid -> SUBSET Nat]
  /\ ballots \subseteq Tid \X Lined \X BOOLEAN

\* Thread t is at an operation of one of these kinds.
Doing(t, ops) == line[t] \in 1..Len(kernel) /\ kernel[line[t]] \in ops

\* A thread is inside the operation that its line says.
PlacedAt(t) ==
  /\ pc[t] \in AtBarrier => Doing(t, {"sync", "vote"})
  /\ pc[t] = "count" => half[t] = 1 /\ Doing(t, {"vote"})
  /\ half[t] = 2 => pc[t] \in AtBarrier \cup {"ending", "dead"} /\ Doing(t, {"vote"})
  /\ pc[t] = "create" => Doing(t, {"shared"})
  /\ pc[t] \in InAtomic => Doing(t, Atomics)

Placed == \A t \in Tid : PlacedAt(t)

\* Only threads of the block run, and the manager forgets none that does.
Watched == \A t \in Tid : pc[t] # "dead" => t \in live

\* Until the manager aborts the block, a thread counted as blocked is waiting
\* and has not been released, and one that was released has not arrived again.
Signalled ==
  abort = {} =>
     /\ waiting \subseteq blocked
     /\ \A t \in blocked : pc[t] = "wait" /\ t \notin event
     /\ \A t \in event : pc[t] \in {"wait", "clear"}

\* An aborted block is not polled any more, and every thread will see the flag.
Aborted == abort # {} => manager = "raised"

\* The thread may leave the barrier that it is at.
Released(t) == pc[t] \in {"clear", "leave"} \/ (pc[t] = "wait" /\ t \in event)

\* The barriers that a thread has left or may leave.
Reached(t) == Passed(t) + (IF Released(t) THEN 1 ELSE 0)

\* Threads that have not ended may leave the same number of barriers, and no
\* thread has left more than that.
Abreast ==
  abort = {} =>
     \A t, u \in Tid : ~Gone(u) =>
        /\ Passed(t) <= Reached(u)
        /\ ~Gone(t) => Reached(t) = Reached(u)

\* What a thread voted last is in its cell until it votes at a later line.
Cast ==
  \A b \in ballots :
     /\ b[2] <= line[b[1]]
     /\ b[2] = line[b[1]] => /\ b[3] <=> b[1] \in block_state
                             /\ pc[b[1]] # "run"

\* Where threads have counted, nobody is still to vote.
Counted ==
  \A c \in counted, t \in Tid :
     ~Gone(t) => c[2] <= line[t] /\ (c[2] = line[t] => pc[t] # "run")

\* An operation holds its lock, and no other one with that lock is under way.
Locked ==
  \A t \in Tid :
     pc[t] \in InAtomic =>
        /\ Lock(kernel[line[t]]) \in locks
        /\ \A u \in Tid \ {t} :
              pc[u] \in InAtomic => Lock(kernel[line[u]]) # Lock(kernel[line[t]])

\* What an operation read is what the element still holds, if all take one lock.
Current == \A t \in Tid : pc[t] \in InAtomic /\ OneLock => read[t] = {cell}

\* A launch that has come back left no thread alive.
Over == manager = "done" => live = {} /\ failed = {}

IInv == /\ TypeOK /\ Placed /\ Watched /\ Signalled /\ Aborted
        /\ BarrierHolds /\ Abreast
        /\ Cast /\ Counted /\ CountsAreVotes
        /\ Locked /\ Current /\ Over

-----------------------------------------------------------------------------
(* Counting barriers.                                                      *)

LinesBefore(l, op) == {k \in 1..(l - 1) : kernel[k] = op}

\* The barriers before a line.
Barriers(l) ==
  Cardinality(LinesBefore(l, "sync")) + 2 * Cardinality(LinesBefore(l, "vote"))

\* A thread between the two barriers of a vote, or at the second one.
BetweenBarriers(t) == half[t] = 2 \/ pc[t] = "count"

LEMMA PassedIs ==
  ASSUME NEW t
  PROVE  /\ Passed(t) = Barriers(line[t]) + (IF BetweenBarriers(t) THEN 1 ELSE 0)
         /\ Passed(t)' = Barriers(line[t])' + (IF BetweenBarriers(t)' THEN 1 ELSE 0)
  BY DEF Passed, Lines, Barriers, LinesBefore, BetweenBarriers

LEMMA LinesGrow ==
  ASSUME NEW l \in Nat \ {0}, NEW op
  PROVE  /\ IsFiniteSet(LinesBefore(l, op)) /\ Cardinality(LinesBefore(l, op)) \in Nat
         /\ Cardinality(LinesBefore(l + 1, op))
              = Cardinality(LinesBefore(l, op)) + (IF kernel[l] = op THEN 1 ELSE 0)
<1>1. IsFiniteSet(1..(l - 1))
  BY FS_Interval
<1>2. IsFiniteSet(LinesBefore(l, op)) /\ Cardinality(LinesBefore(l, op)) \in Nat
  BY <1>1, FS_Subset, FS_CardinalityType DEF LinesBefore
<1>3. CASE kernel[l] = op
  <2>1. LinesBefore(l + 1, op) = LinesBefore(l, op) \cup {l} /\ l \notin LinesBefore(l, op)
    BY <1>3 DEF LinesBefore
  <2> QED
    BY <2>1, <1>2, <1>3, FS_AddElement
<1>4. CASE kernel[l] # op
  <2>1. LinesBefore(l + 1, op) = LinesBefore(l, op)
    BY <1>4 DEF LinesBefore
  <2> QED
    BY <2>1, <1>2, <1>4
<1> QED
  BY <1>2, <1>3, <1>4

LEMMA BarriersGrow ==
  ASSUME NEW l \in Nat \ {0}
  PROVE  /\ Barriers(l) \in Nat
         /\ kernel[l] = "sync" => Barriers(l + 1) = Barriers(l) + 1
         /\ kernel[l] = "vote" => Barriers(l + 1) = Barriers(l) + 2
         /\ kernel[l] \notin {"sync", "vote"} => Barriers(l + 1) = Barriers(l)
  BY LinesGrow DEF Barriers

LEMMA LaterLine ==
  ASSUME NEW l \in Nat \ {0}, NEW m \in Nat \ {0}, m <= l
  PROVE  Barriers(m) <= Barriers(l)
<1>1. ASSUME NEW op
      PROVE  Cardinality(LinesBefore(m, op)) <= Cardinality(LinesBefore(l, op))
  <2>1. LinesBefore(m, op) \subseteq LinesBefore(l, op)
    BY DEF LinesBefore
  <2> QED
    BY <2>1, LinesGrow, FS_Subset
<1>2. \A n \in {l, m} : /\ Cardinality(LinesBefore(n, "sync")) \in Nat
                        /\ Cardinality(LinesBefore(n, "vote")) \in Nat
  BY LinesGrow
<1> QED
  BY <1>1, <1>2 DEF Barriers

\* Every barrier counts: who is past a line has passed the barriers of it.
LEMMA PastLine ==
  ASSUME NEW l \in Nat \ {0}, NEW m \in Nat \ {0}, m < l
  PROVE  /\ Barriers(m) \in Nat /\ Barriers(l) \in Nat
         /\ Barriers(m) <= Barriers(l)
         /\ kernel[m] = "sync" => Barriers(m) + 1 <= Barriers(l)
         /\ kernel[m] = "vote" => Barriers(m) + 2 <= Barriers(l)
<1>1. m + 1 \in Nat \ {0} /\ m + 1 <= l /\ m <= l
  OBVIOUS
<1>2. Barriers(m + 1) <= Barriers(l) /\ Barriers(m) <= Barriers(l)
  BY <1>1, LaterLine
<1>3. Barriers(m) \in Nat /\ Barriers(l) \in Nat
  BY BarriersGrow
<1> QED
  BY <1>2, <1>3, BarriersGrow

-----------------------------------------------------------------------------
(* What one step of a thread does.                                         *)

\* Where a thread may be after its step.
Follows(l) ==
  CASE l = "run" -> {"dead", "ending", "enter", "run", "create", "reread", "store"}
    [] l = "enter" -> {"ending", "arrive"}
    [] l = "arrive" -> {"wait"}
    [] l = "wait" -> {"clear"}
    [] l = "clear" -> {"leave"}
    [] l = "leave" -> {"ending", "count", "run"}
    [] l = "count" -> {"enter"}
    [] l = "reread" -> {"store"}
    [] l \in {"create", "store"} -> {"run"}
    [] OTHER -> {"dead"}

Alone(t) ==
  /\ kernel' = kernel /\ threads' = threads /\ abort' = abort
  /\ manager' = manager /\ todo' = todo /\ live' = live /\ waiting' = waiting
  /\ \A u \in Tid \ {t} : line'[u] = line[u] /\ half'[u] = half[u] /\ pc'[u] = pc[u]

\* It stays at its line, or returns from an operation.
Advances(t) ==
  \/ /\ line'[t] = line[t] /\ pc'[t] # "run"
     /\ half'[t] = IF pc[t] = "count" THEN 2 ELSE half[t]
     /\ pc[t] = "leave" /\ pc'[t] = "count" => half[t] = 1
  \/ /\ line'[t] = line[t] + 1 /\ line[t] \in 1..Len(kernel)
     /\ pc'[t] = "run" /\ half'[t] = 1
     /\ IF pc[t] = "leave"
        THEN kernel[line[t]] = "sync" \/ half[t] = 2
        ELSE kernel[line[t]] \notin {"sync", "vote"}

Effect(t) ==
  /\ pc[t] # "dead" /\ pc'[t] \in Follows(pc[t])
  /\ Advances(t)
  /\ blocked' = IF pc[t] = "arrive" THEN blocked \cup {t} ELSE blocked
  /\ event' = IF pc[t] = "clear" THEN event \ {t} ELSE event
  /\ pc[t] = "wait" => t \in event
  /\ pc[t] = "leave" => (pc'[t] = "ending" <=> t \in abort)
  /\ failed' \subseteq failed \cup {t}

LEMMA ThreadEffect ==
  ASSUME TypeOK, NEW t \in Tid, PlacedAt(t), Thread(t)
  PROVE  Alone(t) /\ Effect(t)
<1> USE DEF TypeOK, Raises, Returns, Goto, At, Alone, Effect, Advances, Follows,
            launch, threadVars, signalVars, managerVars, voteVars, memoryVars
<1>1. CASE Return(t)
  BY <1>1 DEF Return
<1>2. CASE Raise(t)
  BY <1>2 DEF Raise
<1>3. CASE Sync(t)
  BY <1>3 DEF Sync
<1>4. ASSUME NEW v \in BOOLEAN, Vote(t, v) PROVE Alone(t) /\ Effect(t)
  BY <1>4 DEF Vote
<1>5. CASE LookUp(t)
  <2>1. line[t] \in 1..Len(kernel) /\ half[t] = 1
    BY <1>5 DEF LookUp, Lined, PlacedAt, AtBarrier
  <2>2. CASE Returns(t)
    BY <1>5, <2>1, <2>2 DEF LookUp
  <2>3. CASE Goto(t, "create") /\ UNCHANGED line
    BY <1>5, <2>1, <2>3 DEF LookUp
  <2> QED
    BY <1>5, <2>2, <2>3 DEF LookUp
<1>6. ASSUME NEW op \in Atomics, Begin(t, op) PROVE Alone(t) /\ Effect(t)
  BY <1>6 DEF Begin, Rereading
<1>7. CASE Enter(t)
  BY <1>7 DEF Enter
<1>8. CASE Arrive(t)
  BY <1>8 DEF Arrive
<1>9. CASE Wake(t)
  BY <1>9 DEF Wake
<1>10. CASE Clear(t)
  BY <1>10 DEF Clear
<1>11. CASE Leave(t)
  <2>1. line[t] \in 1..Len(kernel)
    BY <1>11 DEF Leave, PlacedAt, Doing, AtBarrier
  <2>2. CASE Raises(t) /\ t \in abort /\ UNCHANGED <<line, half>>
    BY <1>11, <2>2 DEF Leave
  <2>3. CASE Goto(t, "count") /\ t \notin abort /\ UNCHANGED <<line, half, failed>>
    BY <1>11, <2>3 DEF Leave
  <2>4. CASE /\ Returns(t) /\ t \notin abort
             /\ half' = [half EXCEPT ![t] = 1] /\ UNCHANGED failed
    BY <1>11, <2>1, <2>4 DEF Leave
  <2> QED
    BY <1>11, <2>2, <2>3, <2>4 DEF Leave
<1>12. CASE CountCells(t)
  BY <1>12 DEF CountCells
<1>13. CASE Create(t)
  <2>1. line[t] \in 1..Len(kernel) /\ half[t] = 1 /\ kernel[line[t]] = "shared"
    BY <1>13 DEF Create, PlacedAt, Doing, AtBarrier
  <2> QED
    BY <1>13, <2>1 DEF Create
<1>14. CASE Reread(t)
  BY <1>14 DEF Reread
<1>15. CASE Store(t)
  <2>1. line[t] \in 1..Len(kernel) /\ half[t] = 1
    BY <1>15 DEF Store, PlacedAt, Doing, AtBarrier, InAtomic
  <2>2. kernel[line[t]] \notin {"sync", "vote"}
    BY <1>15 DEF Store, PlacedAt, Doing, InAtomic, Atomics
  <2> QED
    BY <1>15, <2>1, <2>2 DEF Store
<1>16. CASE End(t)
  BY <1>16 DEF End
<1> QED
  BY <1>1, <1>2, <1>3, <1>4, <1>5, <1>6, <1>7, <1>8,
     <1>9, <1>10, <1>11, <1>12, <1>13, <1>14, <1>15, <1>16 DEF Thread, Kernel, Barrier

LEMMA ThreadTypes ==
  ASSUME TypeOK, Placed, NEW t \in Tid, Thread(t)
  PROVE  TypeOK'
<1> USE DEF TypeOK, PlacedAt, Placed, Doing, Raises, Returns, Goto, At, Lined,
            Places, AtBarrier, InAtomic,
            launch, threadVars, signalVars, managerVars, voteVars, memoryVars
<1>1. CASE Return(t)
  BY <1>1 DEF Return
<1>2. CASE Raise(t)
  BY <1>2 DEF Raise
<1>3. CASE Sync(t)
  BY <1>3 DEF Sync
<1>4. ASSUME NEW v \in BOOLEAN, Vote(t, v) PROVE TypeOK'
  BY <1>4 DEF Vote
<1>5. CASE LookUp(t)
  <2>1. line[t] \in 1..Len(kernel) /\ line[t] + 1 \in Lined
    BY <1>5 DEF LookUp
  <2>2. line' \in [Tid -> Lined'] /\ pc' \in [Tid -> Places]
    <3>1. \/ line' = [line EXCEPT ![t] = line[t] + 1] /\ pc' = [pc EXCEPT ![t] = "run"]
          \/ line' = line /\ pc' = [pc EXCEPT ![t] = "create"]
      BY <1>5 DEF LookUp
    <3>2. kernel' = kernel
      BY <1>5 DEF LookUp
    <3>3. line' \in [Tid -> Lined']
      BY <2>1, <3>1, <3>2
    <3>4. pc' \in [Tid -> Places]
      BY <3>1
    <3> QED
      BY <3>3, <3>4
  <2>3. held' \subseteq Tid \X Lined' \X Tid
    <3>1. Lined' = Lined /\ line[t] \in Lined /\ arrays[line[t]] \in Tid \cup {NoArray}
      <4>1. kernel' = kernel
        BY <1>5 DEF LookUp
      <4> QED
        BY <2>1, <4>1
    <3>2. CASE arrays[line[t]] # NoArray /\ held' = held \cup {<<t, line[t], arrays[line[t]]>>}
      BY <3>1, <3>2
    <3>3. CASE held' = held
      BY <3>1, <3>3
    <3> QED
      BY <1>5, <3>2, <3>3 DEF LookUp
  <2> QED
    BY <1>5, <2>2, <2>3 DEF LookUp
<1>6. ASSUME NEW op \in Atomics, Begin(t, op) PROVE TypeOK'
  BY <1>6 DEF Begin, Rereading, Lock, Atomics
<1>7. CASE Enter(t)
  <2>1. \/ failed' = failed \cup {t} /\ pc' = [pc EXCEPT ![t] = "ending"]
        \/ failed' = failed /\ pc' = [pc EXCEPT ![t] = "arrive"]
    BY <1>7 DEF Enter
  <2>2. failed' \subseteq Tid /\ pc' \in [Tid -> Places]
    <3>1. /\ failed \subseteq Tid /\ pc \in [Tid -> Places]
          /\ {"ending", "arrive"} \subseteq Places
      OBVIOUS
    <3> HIDE DEF TypeOK, Placed, PlacedAt, Places
    <3> QED
      BY <2>1, <3>1
  <2> QED
    BY <1>7, <2>2 DEF Enter
<1>8. CASE Arrive(t)
  BY <1>8 DEF Arrive
<1>9. CASE Wake(t)
  BY <1>9 DEF Wake
<1>10. CASE Clear(t)
  BY <1>10 DEF Clear
<1>11. CASE Leave(t)
  <2>1. line[t] \in 1..Len(kernel) /\ line[t] + 1 \in Lined
    BY <1>11 DEF Leave
  <2>2. /\ line' \in {line, [line EXCEPT ![t] = line[t] + 1]}
        /\ half' \in {half, [half EXCEPT ![t] = 1]}
        /\ failed' \in {failed, failed \cup {t}}
        /\ \/ pc' = [pc EXCEPT ![t] = "ending"]
           \/ pc' = [pc EXCEPT ![t] = "count"]
           \/ pc' = [pc EXCEPT ![t] = "run"]
    BY <1>11 DEF Leave
  <2>3. kernel' = kernel
    BY <1>11 DEF Leave
  <2>4. /\ line' \in [Tid -> Lined'] /\ half' \in [Tid -> {1, 2}]
        /\ failed' \subseteq Tid
    BY <2>1, <2>2, <2>3
  <2>5. pc' \in [Tid -> Places]
    <3>1. pc \in [Tid -> Places] /\ {"ending", "count", "run"} \subseteq Places
      OBVIOUS
    <3> HIDE DEF TypeOK, Placed, PlacedAt, Places
    <3> QED
      BY <2>2, <3>1
  <2> QED
    BY <1>11, <2>4, <2>5 DEF Leave
<1>12. CASE CountCells(t)
  BY <1>12 DEF CountCells
<1>13. CASE Create(t)
  BY <1>13 DEF Create
<1>14. CASE Reread(t)
  BY <1>14 DEF Reread
<1>15. CASE Store(t)
  <2>1. line[t] \in 1..Len(kernel) /\ line[t] + 1 \in Lined
    BY <1>15 DEF Store
  <2>2. line' \in [Tid -> Lined'] /\ pc' \in [Tid -> Places]
    BY <1>15, <2>1 DEF Store
  <2>3. cell' \in Nat /\ read' \in [Tid -> SUBSET Nat] /\ locks' \subseteq Atomics
    BY <1>15 DEF Store
  <2> QED
    BY <1>15, <2>2, <2>3 DEF Store
<1>16. CASE End(t)
  BY <1>16 DEF End
<1> QED
  BY <1>1, <1>2, <1>3, <1>4, <1>5, <1>6, <1>7, <1>8,
     <1>9, <1>10, <1>11, <1>12, <1>13, <1>14, <1>15, <1>16 DEF Thread, Kernel, Barrier

LEMMA ThreadPlace ==
  ASSUME TypeOK, NEW t \in Tid, PlacedAt(t), Thread(t)
  PROVE  PlacedAt(t)'
<1> USE DEF TypeOK, PlacedAt, Doing, Raises, Returns, Goto, At, Lined,
            AtBarrier, InAtomic,
            launch, threadVars, signalVars, managerVars, voteVars, memoryVars
<1>1. CASE Return(t)
  BY <1>1 DEF Return
<1>2. CASE Raise(t)
  BY <1>2 DEF Raise
<1>3. CASE Sync(t)
  BY <1>3 DEF Sync
<1>4. ASSUME NEW v \in BOOLEAN, Vote(t, v) PROVE PlacedAt(t)'
  BY <1>4 DEF Vote
<1>5. CASE LookUp(t)
  BY <1>5 DEF LookUp
<1>6. ASSUME NEW op \in Atomics, Begin(t, op) PROVE PlacedAt(t)'
  BY <1>6 DEF Begin, Rereading
<1>7. CASE Enter(t)
  BY <1>7 DEF Enter
<1>8. CASE Arrive(t)
  BY <1>8 DEF Arrive
<1>9. CASE Wake(t)
  BY <1>9 DEF Wake
<1>10. CASE Clear(t)
  BY <1>10 DEF Clear
<1>11. CASE Leave(t)
  BY <1>11 DEF Leave
<1>12. CASE CountCells(t)
  BY <1>12 DEF CountCells
<1>13. CASE Create(t)
  BY <1>13 DEF Create
<1>14. CASE Reread(t)
  BY <1>14 DEF Reread
<1>15. CASE Store(t)
  BY <1>15 DEF Store
<1>16. CASE End(t)
  BY <1>16 DEF End
<1> QED
  BY <1>1, <1>2, <1>3, <1>4, <1>5, <1>6, <1>7, <1>8,
     <1>9, <1>10, <1>11, <1>12, <1>13, <1>14, <1>15, <1>16 DEF Thread, Kernel, Barrier

-----------------------------------------------------------------------------
(* What one step of the manager does.                                      *)

Quiet ==
  /\ UNCHANGED <<launch, threadVars, voteVars, memoryVars>>
  /\ manager \in {"poll", "prune"}

LEMMA ManagerEffect ==
  ASSUME TypeOK, Manager
  PROVE  TypeOK' /\ Quiet
<1> USE DEF TypeOK, Quiet, Lined, launch, threadVars, signalVars, managerVars, voteVars, memoryVars
<1>1. ASSUME NEW t \in Tid, Poll(t) PROVE TypeOK' /\ Quiet
  BY <1>1 DEF Poll
<1>2. ASSUME NEW t \in Tid, Prune(t) PROVE TypeOK' /\ Quiet
  BY <1>2 DEF Prune
<1>3. CASE Release
  BY <1>3 DEF Release
<1>4. CASE Again
  BY <1>4 DEF Again
<1>5. CASE Finish
  BY <1>5 DEF Finish
<1> QED
  BY <1>1, <1>2, <1>3, <1>4, <1>5 DEF Manager

-----------------------------------------------------------------------------
(* The signals between the threads and the manager.                        *)

LEMMA SignalsThread ==
  ASSUME TypeOK, Watched, Signalled, Aborted, Over,
         NEW t \in Tid, Alone(t), Effect(t)
  PROVE  Watched' /\ Signalled' /\ Aborted' /\ Over'
<1> USE DEF Alone
<1>1. pc[t] # "dead" /\ t \in live
  BY DEF Effect, Watched
<1>2. Watched' /\ Aborted'
  BY <1>1 DEF Watched, Aborted
<1>3. Over'
  BY <1>1 DEF Over
<1>4. ASSUME abort = {} PROVE Signalled'
  <2>1. /\ waiting \subseteq blocked
        /\ \A u \in blocked : u \in Tid /\ pc[u] = "wait" /\ u \notin event
        /\ \A u \in event : u \in Tid /\ pc[u] \in {"wait", "clear"}
    BY <1>4 DEF Signalled, TypeOK
  <2>2. waiting' \subseteq blocked'
    BY <2>1 DEF Effect
  <2>3. ASSUME NEW u \in blocked' PROVE pc'[u] = "wait" /\ u \notin event'
    <3>1. CASE u = t /\ pc[t] = "arrive"
      BY <2>1, <3>1 DEF Effect, Follows
    <3>2. CASE u \in blocked
      <4>1. u # t
        BY <2>1, <3>2 DEF Effect
      <4> QED
        BY <2>1, <3>2, <4>1 DEF Effect
    <3> QED
      BY <2>3, <3>1, <3>2 DEF Effect
  <2>4. ASSUME NEW u \in event' PROVE pc'[u] \in {"wait", "clear"}
    <3>1. u \in event
      BY <2>4 DEF Effect
    <3>2. CASE u = t
      <4>1. pc[t] # "clear"
        BY <3>2, <2>4 DEF Effect
      <4> QED
        BY <2>1, <3>1, <3>2, <4>1 DEF Effect, Follows
    <3> QED
      BY <2>1, <3>1, <3>2
  <2> QED
    BY <2>2, <2>3, <2>4 DEF Signalled
<1>5. abort # {} => Signalled'
  BY DEF Signalled
<1> QED
  BY <1>2, <1>3, <1>4, <1>5

LEMMA SignalsManager ==
  ASSUME TypeOK, Watched, Signalled, Aborted, Over, Manager, Quiet
  PROVE  Watched' /\ Signalled' /\ Aborted' /\ Over'
<1> USE DEF Quiet, launch, threadVars, signalVars, managerVars
<1>1. ASSUME NEW t \in Tid, Poll(t) PROVE Watched' /\ Signalled' /\ Aborted' /\ Over'
  BY <1>1 DEF Poll, TypeOK, Watched, Signalled, Aborted, Over
<1>2. ASSUME NEW t \in Tid, Prune(t) PROVE Watched' /\ Signalled' /\ Aborted' /\ Over'
  BY <1>2 DEF Prune, TypeOK, Watched, Signalled, Aborted, Over
<1>3. CASE Release
  BY <1>3 DEF Release, TypeOK, Watched, Signalled, Aborted, Over
<1>4. CASE Again
  BY <1>4 DEF Again, TypeOK, Watched, Signalled, Aborted, Over
<1>5. CASE Finish
  BY <1>5 DEF Finish, TypeOK, Watched, Signalled, Aborted, Over
<1> QED
  BY <1>1, <1>2, <1>3, <1>4, <1>5 DEF Manager

-----------------------------------------------------------------------------
(* The barriers.                                                           *)

LEMMA PassedType ==
  ASSUME TypeOK, NEW t \in Tid
  PROVE  Passed(t) \in Nat /\ Reached(t) \in {Passed(t), Passed(t) + 1}
<1>1. line[t] \in Nat \ {0}
  BY DEF TypeOK, Lined
<1>2. Passed(t) \in Nat
  BY <1>1, PassedIs, BarriersGrow
<1> QED
  BY <1>2 DEF Reached

\* A thread passes a barrier when it leaves one, and at no other step.
LEMMA PassedStep ==
  ASSUME TypeOK, Placed, NEW t \in Tid, Alone(t), Effect(t), NEW u \in Tid
  PROVE  Passed(u)' = Passed(u)
           + (IF u = t /\ pc[t] = "leave" /\ pc'[t] # "ending" THEN 1 ELSE 0)
<1>1. \A l : Barriers(l)' = Barriers(l)
  BY DEF Alone, Barriers, LinesBefore
<1>2. \A v \in Tid : /\ line[v] \in Nat \ {0} /\ half[v] \in {1, 2}
                    /\ Barriers(line[v]) \in Nat
  BY BarriersGrow DEF TypeOK, Lined
<1>3. /\ Passed(u) = Barriers(line[u]) + (IF BetweenBarriers(u) THEN 1 ELSE 0)
      /\ Passed(u)' = Barriers(line'[u]) + (IF BetweenBarriers(u)' THEN 1 ELSE 0)
  BY <1>1, PassedIs
<1>4. CASE u # t
  <2>1. line'[u] = line[u] /\ (BetweenBarriers(u)' <=> BetweenBarriers(u))
    BY <1>4 DEF Alone, BetweenBarriers
  <2>2. Passed(u)' = Passed(u)
    BY <1>3, <2>1
  <2> QED
    BY <1>2, <1>3, <1>4, <2>2
<1>5. CASE u = t /\ line'[t] = line[t]
  <2>1. /\ pc'[t] # "run" /\ half'[t] = IF pc[t] = "count" THEN 2 ELSE half[t]
        /\ pc[t] = "leave" /\ pc'[t] = "count" => half[t] = 1
    BY <1>2, <1>5 DEF Effect, Advances
  <2>2. pc'[t] \in Follows(pc[t])
    BY DEF Effect
  <2>3. CASE pc[t] = "leave" /\ pc'[t] # "ending"
    <3>1. ~BetweenBarriers(t) /\ BetweenBarriers(t)'
      BY <2>1, <2>2, <2>3 DEF Follows, BetweenBarriers
    <3> QED
      BY <1>2, <1>3, <1>5, <2>3, <3>1
  <2>4. CASE ~(pc[t] = "leave" /\ pc'[t] # "ending")
    <3>1. BetweenBarriers(t) <=> BetweenBarriers(t)'
      BY <2>1, <2>2, <2>4 DEF Follows, BetweenBarriers
    <3> QED
      BY <1>2, <1>3, <1>5, <2>4, <3>1
  <2> QED
    BY <2>3, <2>4
<1>6. CASE u = t /\ line'[t] # line[t]
  <2>1. /\ line'[t] = line[t] + 1 /\ line[t] \in 1..Len(kernel)
        /\ pc'[t] = "run" /\ half'[t] = 1
        /\ IF pc[t] = "leave"
           THEN kernel[line[t]] = "sync" \/ half[t] = 2
           ELSE kernel[line[t]] \notin {"sync", "vote"}
    BY <1>6 DEF Effect, Advances
  <2>2. ~BetweenBarriers(t)'
    BY <2>1 DEF BetweenBarriers
  <2>3. half[t] = 2 \/ pc[t] = "count" => kernel[line[t]] = "vote"
    BY DEF Placed, PlacedAt, Doing
  <2>4. CASE pc[t] # "leave"
    <3>1. ~BetweenBarriers(t) /\ Barriers(line[t] + 1) = Barriers(line[t])
      BY <1>2, <2>1, <2>3, <2>4, BarriersGrow DEF BetweenBarriers
    <3> QED
      BY <1>2, <1>3, <1>6, <2>1, <2>2, <2>4, <3>1
  <2>5. CASE pc[t] = "leave" /\ half[t] = 2
    <3>1. BetweenBarriers(t) /\ Barriers(line[t] + 1) = Barriers(line[t]) + 2
      BY <1>2, <2>3, <2>5, BarriersGrow DEF BetweenBarriers
    <3> QED
      BY <1>2, <1>3, <1>6, <2>1, <2>2, <2>5, <3>1
  <2>6. CASE pc[t] = "leave" /\ half[t] # 2
    <3>1. ~BetweenBarriers(t) /\ Barriers(line[t] + 1) = Barriers(line[t]) + 1
      BY <1>2, <2>1, <2>6, BarriersGrow DEF BetweenBarriers
    <3> QED
      BY <1>2, <1>3, <1>6, <2>1, <2>2, <2>6, <3>1
  <2> QED
    BY <2>4, <2>5, <2>6
<1> QED
  BY <1>4, <1>5, <1>6

\* While nothing is aborted, that threads are abreast is all a barrier needs.
LEMMA AbreastHolds ==
  ASSUME TypeOK, Abreast, abort = {}
  PROVE  BarrierHolds
<1> SUFFICES ASSUME NEW t \in Tid, NEW u \in Tid, Passed(u) < Passed(t), ~Gone(u)
             PROVE  Passed(t) = Passed(u) + 1 /\ pc[u] \in {"wait", "clear", "leave"}
  BY DEF BarrierHolds
<1>1. Passed(t) <= Reached(u)
  BY DEF Abreast
<1>2. /\ Passed(t) \in Nat /\ Passed(u) \in Nat
      /\ Reached(u) = Passed(u) + (IF Released(u) THEN 1 ELSE 0)
  BY PassedType DEF Reached
<1>3. Released(u)
  BY <1>1, <1>2
<1>4. Passed(t) = Passed(u) + 1
  BY <1>1, <1>2, <1>3
<1> QED
  BY <1>3, <1>4 DEF Released

\* A step changes nothing of how far a thread may go.
LEMMA ReachedStep ==
  ASSUME TypeOK, Placed, Signalled, abort = {},
         NEW t \in Tid, Alone(t), Effect(t), NEW u \in Tid, ~Gone(u)'
  PROVE  ~Gone(u) /\ Reached(u)' = Reached(u)
<1>1. Passed(u)' = Passed(u)
           + (IF u = t /\ pc[t] = "leave" /\ pc'[t] # "ending" THEN 1 ELSE 0)
  BY PassedStep
<1>2. Passed(u) \in Nat
  BY PassedType
<1>3. CASE u # t
  <2>1. pc'[u] = pc[u] /\ (u \in event' <=> u \in event)
    BY <1>3 DEF Alone, Effect
  <2>2. Released(u)' <=> Released(u)
    BY <2>1 DEF Released
  <2> QED
    BY <1>1, <1>2, <1>3, <2>1, <2>2 DEF Gone, Reached
<1>4. CASE u = t
  <2>1. pc'[t] \in Follows(pc[t]) /\ pc'[t] \notin {"ending", "dead"} /\ pc[t] # "dead"
    BY <1>4 DEF Effect, Gone
  <2>2. ~Gone(t)
    BY <2>1 DEF Gone, Follows
  <2>3. t \in event => pc[t] \in {"wait", "clear"}
    BY DEF Signalled
  <2>4. CASE pc[t] = "leave"
    <3>1. Released(t) /\ ~Released(t)'
      BY <2>1, <2>4 DEF Released, Follows
    <3> QED
      BY <1>1, <1>2, <1>4, <2>1, <2>2, <2>4, <3>1 DEF Reached
  <2>5. CASE pc[t] # "leave"
    <3>1. Released(t) <=> Released(t)'
      BY <2>1, <2>3, <2>5 DEF Released, Follows, Effect
    <3> QED
      BY <1>1, <1>2, <1>4, <2>1, <2>2, <2>5, <3>1 DEF Reached
  <2> QED
    BY <2>4, <2>5
<1> QED
  BY <1>3, <1>4

LEMMA AbreastThread ==
  ASSUME TypeOK, Placed, Watched, Signalled, BarrierHolds, Abreast, TypeOK',
         NEW t \in Tid, Alone(t), Effect(t)
  PROVE  Abreast' /\ BarrierHolds'
<1>1. abort' = abort
  BY DEF Alone
<1>2. CASE abort = {}
  <2>1. ASSUME NEW v \in Tid, NEW u \in Tid, ~Gone(u)'
        PROVE  /\ Passed(v)' <= Reached(u)'
               /\ ~Gone(v)' => Reached(v)' = Reached(u)'
    <3>1. ~Gone(u) /\ Reached(u)' = Reached(u)
      BY <1>2, <2>1, ReachedStep
    <3>2. /\ Passed(v) <= Reached(u)
          /\ ~Gone(v) => Reached(v) = Reached(u)
      BY <1>2, <3>1 DEF Abreast
    <3>3. ~Gone(v)' => ~Gone(v) /\ Reached(v)' = Reached(v)
      BY <1>2, ReachedStep
    <3>4. CASE Gone(v)'
      <4>1. ~(v = t /\ pc[t] = "leave" /\ pc'[t] # "ending")
        BY <3>4 DEF Gone, Effect, Follows
      <4>2. Passed(v)' = Passed(v) + 0 /\ Passed(v) \in Nat
        BY <4>1, PassedStep, PassedType
      <4> QED
        BY <3>1, <3>2, <3>4, <4>2
    <3>5. CASE ~Gone(v)'
      <4>1. Reached(v)' = Reached(u)'
        BY <3>1, <3>2, <3>3, <3>5
      <4>2. /\ Passed(v)' \in Nat
            /\ Reached(v)' = Passed(v)' + (IF Released(v)' THEN 1 ELSE 0)
        <5>1. Passed(v) \in Nat
          BY PassedType
        <5>2. Passed(v)' \in Nat
          BY <5>1, PassedStep
        <5> QED
          BY <5>2 DEF Reached
      <4> QED
        BY <4>1, <4>2
    <3> QED
      BY <3>4, <3>5
  <2>2. Abreast'
    BY <2>1 DEF Abreast
  <2>3. BarrierHolds'
    <3>1. \A v \in Tid : /\ Passed(v)' \in Nat
                         /\ Reached(v)' = Passed(v)' + (IF Released(v)' THEN 1 ELSE 0)
      <4> SUFFICES ASSUME NEW v \in Tid PROVE Passed(v)' \in Nat
        BY DEF Reached
      <4>1. Passed(v) \in Nat
        BY PassedType
      <4> QED
        BY <4>1, PassedStep
    <3> SUFFICES ASSUME NEW v \in Tid, NEW u \in Tid, Passed(u)' < Passed(v)', ~Gone(u)'
                 PROVE  /\ Passed(v)' = Passed(u)' + 1
                        /\ pc'[u] \in {"wait", "clear", "leave"}
      BY DEF BarrierHolds
    <3>2. Passed(v)' <= Reached(u)'
      BY <2>1
    <3>3. Released(u)' /\ Passed(v)' = Passed(u)' + 1
      BY <3>1, <3>2
    <3> QED
      BY <3>3 DEF Released
  <2> QED
    BY <2>2, <2>3
<1>3. CASE abort # {}
  <2>1. Abreast'
    BY <1>1, <1>3 DEF Abreast
  <2>2. t \in abort
    BY <1>3 DEF TypeOK, Watched, Effect
  <2>3. \A u \in Tid : Passed(u)' = Passed(u)
    <3> SUFFICES ASSUME NEW u \in Tid PROVE Passed(u)' = Passed(u)
      OBVIOUS
    <3>1. ~(pc[t] = "leave" /\ pc'[t] # "ending")
      BY <2>2 DEF Effect
    <3>2. Passed(u) \in Nat
      BY PassedType
    <3> QED
      BY <3>1, <3>2, PassedStep
  <2>4. ASSUME NEW u \in Tid, ~Gone(u)'
        PROVE  /\ ~Gone(u)
               /\ pc[u] \in {"wait", "clear", "leave"} => pc'[u] \in {"wait", "clear", "leave"}
    <3>1. CASE u = t
      <4>1. pc'[t] \in Follows(pc[t]) /\ pc'[t] \notin {"ending", "dead"}
        BY <2>4, <3>1 DEF Effect, Gone
      <4>2. pc[t] # "leave"
        BY <4>1, <2>2 DEF Effect
      <4> QED
        BY <3>1, <4>1, <4>2 DEF Follows, Gone
    <3>2. CASE u # t
      BY <2>4, <3>2 DEF Alone, Gone
    <3> QED
      BY <3>1, <3>2
  <2>5. BarrierHolds'
    BY <2>3, <2>4 DEF BarrierHolds
  <2> QED
    BY <2>1, <2>5
<1> QED
  BY <1>2, <1>3

LEMMA AbreastManager ==
  ASSUME TypeOK, Watched, Signalled, Aborted, BarrierHolds, Abreast, Manager, Quiet
  PROVE  Abreast' /\ BarrierHolds'
<1> USE DEF Quiet, launch, threadVars, signalVars, managerVars
<1>1. \A t \in Tid : /\ Passed(t)' = Passed(t)
                     /\ Gone(t)' <=> Gone(t)
                     /\ Passed(t) \in Nat
  BY PassedType DEF Passed, Lines, Gone
<1>2. abort = {}
  BY DEF Aborted
<1>3. BarrierHolds'
  BY <1>1 DEF BarrierHolds
<1>4. CASE abort' # {}
  BY <1>3, <1>4 DEF Abreast
<1>5. CASE event' = event
  <2>1. \A t \in Tid : Reached(t)' = Reached(t)
    BY <1>1, <1>5 DEF Reached, Released
  <2> QED
    BY <1>1, <1>2, <1>3, <2>1 DEF Abreast
<1>6. CASE live = waiting /\ event' = event \cup waiting
  <2>1. \A t \in Tid : ~Gone(t) => pc[t] = "wait" /\ t \notin event /\ t \in event'
    BY <1>2, <1>6 DEF Watched, Signalled, Gone
  <2>2. \A t \in Tid : ~Gone(t) => Reached(t) = Passed(t) /\ Reached(t)' = Passed(t) + 1
    BY <1>1, <2>1 DEF Reached, Released
  <2> SUFFICES ASSUME NEW t \in Tid, NEW u \in Tid, ~Gone(u)'
               PROVE  /\ Passed(t)' <= Reached(u)'
                      /\ ~Gone(t)' => Reached(t)' = Reached(u)'
    BY <1>3 DEF Abreast
  <2>3. ~Gone(u) /\ (~Gone(t)' => ~Gone(t))
    BY <1>1
  <2>4. Passed(t) <= Reached(u) /\ (~Gone(t) => Reached(t) = Reached(u))
    BY <1>2, <2>3 DEF Abreast
  <2>5. Reached(u) = Passed(u) /\ Reached(u)' = Passed(u) + 1
    BY <2>2, <2>3
  <2>6. ~Gone(t) => Reached(t) = Passed(t) /\ Reached(t)' = Passed(t) + 1
    BY <2>2
  <2>7. Passed(t)' <= Reached(u)'
    BY <1>1, <2>4, <2>5
  <2>8. ~Gone(t)' => Reached(t)' = Reached(u)'
    BY <2>3, <2>4, <2>5, <2>6
  <2> QED
    BY <2>7, <2>8
<1>7. abort' # {} \/ event' = event \/ (live = waiting /\ event' = event \cup waiting)
  <2>1. ASSUME NEW t \in Tid, Poll(t) PROVE abort' # {} \/ event' = event
    BY <2>1 DEF Poll, TypeOK
  <2>2. ASSUME NEW t \in Tid, Prune(t) PROVE event' = event
    BY <2>2 DEF Prune
  <2>3. Again \/ Finish => event' = event
    BY DEF Again, Finish
  <2>4. Release => event' = event \/ (live = waiting /\ event' = event \cup waiting)
    BY DEF Release
  <2> QED
    BY <2>1, <2>2, <2>3, <2>4 DEF Manager
<1> QED
  BY <1>4, <1>5, <1>6, <1>7

-----------------------------------------------------------------------------
(* The votes.                                                              *)

\* When a thread counts, the others are at the same vote and have voted, or
\* have ended at it or before.
LEMMA AtCount ==
  ASSUME TypeOK, Placed, BarrierHolds, NEW t \in Tid, pc[t] = "count", NEW u \in Tid
  PROVE  /\ line[u] <= line[t]
         /\ ~Gone(u) => line[u] = line[t] /\ pc[u] # "run"
<1>1. /\ line[t] \in Nat \ {0} /\ line[u] \in Nat \ {0}
      /\ half[u] \in {1, 2} /\ kernel[line[t]] = "vote" /\ half[t] = 1
      /\ ~Gone(t)
  BY DEF TypeOK, Lined, Placed, PlacedAt, Doing, Gone
<1>2. /\ Barriers(line[t]) \in Nat /\ Barriers(line[u]) \in Nat
      /\ Passed(t) = Barriers(line[t]) + 1
      /\ Passed(u) = Barriers(line[u]) + (IF BetweenBarriers(u) THEN 1 ELSE 0)
  BY <1>1, PassedIs, BarriersGrow DEF BetweenBarriers
<1>3. BetweenBarriers(u) => kernel[line[u]] = "vote" /\ pc[u] # "run"
  BY DEF BetweenBarriers, Placed, PlacedAt, Doing, AtBarrier
<1>4. ~(Passed(t) < Passed(u))
  BY <1>1 DEF BarrierHolds
<1>5. Passed(u) < Passed(t) /\ ~Gone(u)
        => /\ pc[u] \in {"wait", "clear", "leave"} /\ kernel[line[u]] \in {"sync", "vote"}
           /\ Passed(t) = Passed(u) + 1
  BY DEF BarrierHolds, Placed, PlacedAt, Doing, AtBarrier
<1>6. line[u] <= line[t]
  <2>1. ASSUME line[t] < line[u] PROVE FALSE
    <3>1. Barriers(line[t]) + 2 <= Barriers(line[u])
      BY <1>1, <2>1, PastLine
    <3> QED
      BY <1>2, <1>4, <3>1
  <2> QED
    BY <1>1, <2>1
<1>7. ASSUME ~Gone(u) PROVE line[u] = line[t] /\ pc[u] # "run"
  <2>1. ASSUME line[u] < line[t] PROVE FALSE
    <3>1. /\ Barriers(line[u]) <= Barriers(line[t])
          /\ kernel[line[u]] = "sync" => Barriers(line[u]) + 1 <= Barriers(line[t])
          /\ kernel[line[u]] = "vote" => Barriers(line[u]) + 2 <= Barriers(line[t])
      BY <1>1, <2>1, PastLine
    <3>2. Passed(u) < Passed(t)
      BY <1>2, <1>3, <3>1
    <3>3. kernel[line[u]] \in {"sync", "vote"}
      BY <1>5, <1>7, <3>2
    <3> QED
      BY <1>2, <1>3, <1>4, <1>5, <1>7, <3>1, <3>2, <3>3
  <2>2. line[u] = line[t]
    BY <1>1, <1>6, <2>1
  <2>3. CASE BetweenBarriers(u)
    BY <1>3, <2>2, <2>3
  <2>4. CASE ~BetweenBarriers(u)
    <3>1. Passed(u) < Passed(t)
      BY <1>2, <2>2, <2>4
    <3> QED
      BY <1>5, <1>7, <2>2, <3>1
  <2> QED
    BY <2>3, <2>4
<1> QED
  BY <1>6, <1>7

\* What a step does to the cells, the ballots and the counts.
VoteStep(t) ==
  \/ UNCHANGED <<block_state, ballots, counted>>
  \/ /\ pc[t] = "run" /\ pc'[t] = "enter" /\ line' = line /\ counted' = counted
     /\ \E v \in BOOLEAN :
           /\ block_state' = IF v THEN block_state \cup {t} ELSE block_state \ {t}
           /\ ballots' = ballots \cup {<<t, line[t], v>>}
  \/ /\ pc[t] = "count" /\ pc'[t] = "enter" /\ line' = line
     /\ counted' = counted \cup {<<t, line[t], block_state>>}
     /\ UNCHANGED <<block_state, ballots>>

LEMMA VoteEffect ==
  ASSUME TypeOK, NEW t \in Tid, Thread(t)
  PROVE  VoteStep(t)
<1> USE DEF TypeOK, Goto, At, VoteStep, voteVars
<1>1. ASSUME NEW v \in BOOLEAN, Vote(t, v) PROVE VoteStep(t)
  BY <1>1 DEF Vote
<1>2. ASSUME NEW op \in Atomics, Begin(t, op) PROVE VoteStep(t)
  BY <1>2 DEF Begin
<1>3. CASE CountCells(t)
  BY <1>3 DEF CountCells
<1>4. CASE \/ Return(t) \/ Raise(t) \/ Sync(t) \/ LookUp(t) \/ Enter(t) \/ Arrive(t)
             \/ Wake(t) \/ Clear(t) \/ Leave(t) \/ Create(t) \/ Reread(t) \/ Store(t) \/ End(t)
  BY <1>4 DEF Return, Raise, Sync, LookUp, Enter, Arrive, Wake, Clear, Leave, Create, Reread, Store, End
<1> QED
  BY <1>1, <1>2, <1>3, <1>4 DEF Thread, Kernel, Barrier

LEMMA CastThread ==
  ASSUME TypeOK, Cast, NEW t \in Tid, Alone(t), Effect(t), VoteStep(t)
  PROVE  Cast'
<1> SUFFICES ASSUME NEW b \in ballots'
             PROVE  /\ b[2] <= line'[b[1]]
                    /\ b[2] = line'[b[1]] => /\ b[3] <=> b[1] \in block_state'
                                            /\ pc'[b[1]] # "run"
  BY DEF Cast
<1>1. \A u \in Tid : line[u] \in Nat
  BY DEF TypeOK, Lined
<1>2. CASE b \in ballots
  <2>1. /\ b[1] \in Tid /\ b[2] \in Nat
        /\ b[2] <= line[b[1]]
        /\ b[2] = line[b[1]] => /\ b[3] <=> b[1] \in block_state
                               /\ pc[b[1]] # "run"
    BY <1>2 DEF Cast, TypeOK, Lined
  <2>2. CASE b[1] # t
    <3>1. line'[b[1]] = line[b[1]] /\ pc'[b[1]] = pc[b[1]]
      BY <2>1, <2>2 DEF Alone
    <3>2. b[1] \in block_state' <=> b[1] \in block_state
      BY <2>2 DEF VoteStep
    <3> QED
      BY <2>1, <3>1, <3>2
  <2>3. CASE b[1] = t /\ line'[t] = line[t] + 1
    BY <1>1, <2>1, <2>3
  <2>4. CASE b[1] = t /\ line'[t] = line[t] /\ pc'[t] # "run"
    <3>1. b[2] = line[t] => block_state' = block_state
      BY <2>1, <2>4 DEF VoteStep
    <3> QED
      BY <2>1, <2>4, <3>1
  <2> QED
    BY <2>2, <2>3, <2>4 DEF Effect, Advances
<1>3. CASE b \notin ballots
  <2>1. PICK v \in BOOLEAN :
           /\ pc'[t] = "enter" /\ line' = line
           /\ block_state' = IF v THEN block_state \cup {t} ELSE block_state \ {t}
           /\ b = <<t, line[t], v>>
    BY <1>3 DEF VoteStep
  <2> QED
    BY <1>1, <2>1
<1> QED
  BY <1>2, <1>3

LEMMA CountedThread ==
  ASSUME TypeOK, Placed, BarrierHolds, Counted, NEW t \in Tid, Alone(t), Effect(t), VoteStep(t)
  PROVE  Counted'
<1> SUFFICES ASSUME NEW c \in counted', NEW u \in Tid, ~Gone(u)'
             PROVE  c[2] <= line'[u] /\ (c[2] = line'[u] => pc'[u] # "run")
  BY DEF Counted
<1>1. line[t] \in Nat /\ line[u] \in Nat
  BY DEF TypeOK, Lined
<1>2. ~Gone(u)
  BY DEF Gone, Alone, Effect, Follows
<1>3. CASE c \in counted
  <2>1. /\ c[2] \in Nat /\ c[2] <= line[u]
        /\ c[2] = line[u] => pc[u] # "run"
    BY <1>2, <1>3 DEF Counted, TypeOK, Lined
  <2>2. CASE u # t
    BY <2>1, <2>2 DEF Alone
  <2>3. CASE u = t /\ line'[t] = line[t] + 1
    BY <1>1, <2>1, <2>3
  <2>4. CASE u = t /\ line'[t] = line[t] /\ pc'[t] # "run"
    BY <2>1, <2>4
  <2> QED
    BY <2>2, <2>3, <2>4 DEF Effect, Advances
<1>4. CASE c \notin counted
  <2>1. /\ pc[t] = "count" /\ pc'[t] = "enter" /\ line' = line
        /\ c = <<t, line[t], block_state>>
    BY <1>4 DEF VoteStep
  <2>2. line[u] = line[t] /\ pc[u] # "run"
    BY <1>2, <2>1, AtCount
  <2>3. pc'[u] # "run"
    BY <2>1, <2>2 DEF Alone
  <2> QED
    BY <1>1, <2>1, <2>2, <2>3
<1> QED
  BY <1>3, <1>4

LEMMA VotesThread ==
  ASSUME TypeOK, Placed, BarrierHolds, Cast, Counted, CountsAreVotes,
         NEW t \in Tid, VoteStep(t)
  PROVE  CountsAreVotes'
<1> SUFFICES ASSUME NEW c \in counted', NEW b \in ballots', b[2] = c[2]
             PROVE  b[3] <=> b[1] \in c[3]
  BY DEF CountsAreVotes
<1>1. CASE c \in counted /\ b \in ballots
  BY <1>1 DEF CountsAreVotes
<1>2. CASE c \in counted /\ b \notin ballots
  <2>1. pc[t] = "run" /\ b[2] = line[t]
    BY <1>2 DEF VoteStep
  <2> QED
    BY <1>2, <2>1 DEF Counted, Gone
<1>3. CASE c \notin counted
  <2>1. /\ pc[t] = "count" /\ c = <<t, line[t], block_state>>
        /\ ballots' = ballots
    BY <1>3 DEF VoteStep
  <2>2. /\ b[1] \in Tid /\ b[2] = line[t] /\ b[2] <= line[b[1]]
        /\ b[2] = line[b[1]] => (b[3] <=> b[1] \in block_state)
    BY <2>1 DEF Cast, TypeOK
  <2>3. line[b[1]] <= line[t]
    BY <2>1, <2>2, AtCount
  <2>4. line[b[1]] \in Nat /\ line[t] \in Nat
    BY <2>2 DEF TypeOK, Lined
  <2> QED
    BY <2>1, <2>2, <2>3, <2>4
<1> QED
  BY <1>1, <1>2, <1>3

-----------------------------------------------------------------------------
(* The locks of the atomic operations.                                     *)

\* What a step does to the locks and to the element.
LockStep(t) ==
  LET lock == Lock(kernel[line[t]])
  IN  \/ /\ pc[t] \notin InAtomic /\ pc'[t] \notin InAtomic
         /\ UNCHANGED <<locks, cell, read>>
      \/ /\ pc[t] = "run" /\ pc'[t] \in InAtomic /\ line' = line
         /\ lock \notin locks /\ locks' = locks \cup {lock}
         /\ cell' = cell /\ read' = [read EXCEPT ![t] = {cell}]
      \/ /\ pc[t] = "reread" /\ pc'[t] \in InAtomic /\ line' = line
         /\ UNCHANGED <<locks, cell>>
         /\ read' = [read EXCEPT ![t] = @ \cup {cell}]
      \/ /\ pc[t] = "store" /\ pc'[t] \notin InAtomic
         /\ locks' = locks \ {lock}
         /\ read' = [read EXCEPT ![t] = {}]

LEMMA LockEffect ==
  ASSUME TypeOK, NEW t \in Tid, Thread(t)
  PROVE  LockStep(t)
<1> USE DEF TypeOK, Raises, Returns, Goto, At, LockStep, InAtomic, memoryVars
<1>1. ASSUME NEW v \in BOOLEAN, Vote(t, v) PROVE LockStep(t)
  BY <1>1 DEF Vote
<1>2. CASE LookUp(t)
  BY <1>2 DEF LookUp
<1>3. ASSUME NEW op \in Atomics, Begin(t, op) PROVE LockStep(t)
  BY <1>3 DEF Begin, Rereading
<1>4. CASE Create(t)
  BY <1>4 DEF Create
<1>5. CASE Reread(t)
  BY <1>5 DEF Reread
<1>6. CASE Store(t)
  BY <1>6 DEF Store
<1>7. CASE \/ Return(t) \/ Raise(t) \/ Sync(t) \/ Enter(t) \/ Arrive(t) \/ Wake(t)
             \/ Clear(t) \/ Leave(t) \/ CountCells(t) \/ End(t)
  BY <1>7 DEF Return, Raise, Sync, Enter, Arrive, Wake, Clear, Leave, CountCells, End
<1> QED
  BY <1>1, <1>2, <1>3, <1>4, <1>5, <1>6, <1>7 DEF Thread, Kernel, Barrier

LEMMA LocksThread ==
  ASSUME TypeOK, Placed, Locked, NEW t \in Tid, Alone(t), LockStep(t)
  PROVE  Locked'
<1> SUFFICES ASSUME NEW v \in Tid, pc'[v] \in InAtomic
             PROVE  /\ Lock(kernel'[line'[v]]) \in locks'
                    /\ \A u \in Tid \ {v} : pc'[u] \in InAtomic
                          => Lock(kernel'[line'[u]]) # Lock(kernel'[line'[v]])
  BY DEF Locked, Lock
<1>1. kernel' = kernel /\ \A u \in Tid \ {t} : line'[u] = line[u] /\ pc'[u] = pc[u]
  BY DEF Alone
<1>2. CASE pc'[t] \notin InAtomic
  <2>1. \A u \in Tid : pc'[u] \in InAtomic => u # t /\ pc[u] \in InAtomic /\ line'[u] = line[u]
    BY <1>1, <1>2
  <2>2. locks' = locks \/ (pc[t] \in InAtomic /\ locks' = locks \ {Lock(kernel[line[t]])})
    BY <1>2 DEF LockStep, InAtomic
  <2> QED
    BY <1>1, <2>1, <2>2 DEF Locked
<1>3. CASE pc[t] \in InAtomic /\ pc'[t] \in InAtomic
  <2>1. line' = line /\ locks' = locks
    BY <1>3 DEF LockStep, InAtomic
  <2>2. \A u \in Tid : pc'[u] \in InAtomic => pc[u] \in InAtomic
    BY <1>1, <1>3
  <2> QED
    BY <1>1, <2>1, <2>2 DEF Locked
<1>4. CASE pc[t] \notin InAtomic /\ pc'[t] \in InAtomic
  <2>1. /\ line' = line /\ Lock(kernel[line[t]]) \notin locks
        /\ locks' = locks \cup {Lock(kernel[line[t]])}
    BY <1>4 DEF LockStep, InAtomic
  <2>2. \A u \in Tid \ {t} : pc'[u] \in InAtomic =>
           /\ pc[u] \in InAtomic /\ Lock(kernel[line[u]]) \in locks
           /\ Lock(kernel[line[u]]) # Lock(kernel[line[t]])
    BY <1>1, <2>1 DEF Locked
  <2> QED
    BY <1>1, <2>1, <2>2 DEF Locked
<1> QED
  BY <1>2, <1>3, <1>4

\* With one lock there is one operation at a time.
LEMMA OneAtATime ==
  ASSUME TypeOK, Placed, Locked, OneLock,
         NEW t \in Tid, NEW u \in Tid, pc[t] \in InAtomic, pc[u] \in InAtomic
  PROVE  u = t
<1>1. line[t] \in 1..Len(kernel) /\ line[u] \in 1..Len(kernel)
  BY DEF Placed, PlacedAt, Doing
<1>2. Lock(kernel[line[t]]) = Lock(kernel[line[u]])
  BY <1>1 DEF OneLock, Lock
<1> QED
  BY <1>2 DEF Locked

LEMMA CurrentThread ==
  ASSUME TypeOK, Placed, Locked, Current, NEW t \in Tid, Alone(t), LockStep(t)
  PROVE  Current'
<1> SUFFICES ASSUME NEW v \in Tid, pc'[v] \in InAtomic, OneLock'
             PROVE  read'[v] = {cell'}
  BY DEF Current
<1>1. OneLock
  BY DEF OneLock, Alone
<1>2. read \in [Tid -> SUBSET Nat]
  BY DEF TypeOK
<1>3. CASE v = t
  BY <1>1, <1>2, <1>3 DEF LockStep, InAtomic, Current
<1>4. CASE v # t
  <2>1. pc[v] \in InAtomic /\ read[v] = {cell}
    BY <1>1, <1>4 DEF Alone, Current
  <2>2. pc[t] \notin InAtomic
    BY <1>1, <1>4, <2>1, OneAtATime
  <2> QED
    BY <1>2, <1>4, <2>1, <2>2 DEF LockStep, InAtomic
<1> QED
  BY <1>3, <1>4

-----------------------------------------------------------------------------
(* The invariant holds.                                                    *)

LEMMA Starts == Init => IInv
<1> SUFFICES ASSUME Init PROVE IInv
  OBVIOUS
<1>1. PICK l \in Launches : kernel = l.kernel /\ threads = l.threads
  BY DEF Init
<1>2. kernel \in Seq(Operations) /\ threads \in SUBSET Tid /\ threads # {}
  BY <1>1, ConstantsAssumption
<1>3. Len(kernel) \in Nat /\ 1 \in Lined
  BY <1>2 DEF Lined
<1>4. TypeOK
  BY <1>2, <1>3 DEF TypeOK, Init, Places, AtBarrier, InAtomic
<1>5. \A t \in Tid : line[t] = 1 /\ half[t] = 1 /\ pc[t] \in {"run", "dead"}
  BY DEF Init
<1>6. Placed /\ Locked /\ Current
  BY <1>5 DEF Placed, PlacedAt, AtBarrier, InAtomic, Locked, Current
<1>7. Watched /\ Signalled /\ Aborted /\ Over /\ Cast /\ Counted /\ CountsAreVotes
  BY DEF Init, Watched, Signalled, Aborted, Over, Cast, Counted, CountsAreVotes
<1>8. \A t \in Tid : ~Released(t) /\ ~BetweenBarriers(t)
  BY <1>5 DEF Released, BetweenBarriers
<1>9. Barriers(1) \in Nat
  BY BarriersGrow
<1>10. \A t \in Tid : Passed(t) = Barriers(1) /\ Reached(t) = Barriers(1)
  BY <1>5, <1>8, <1>9, PassedIs DEF Reached
<1>11. Abreast
  BY <1>9, <1>10 DEF Abreast
<1>12. BarrierHolds
  BY <1>9, <1>10 DEF BarrierHolds
<1> QED
  BY <1>4, <1>6, <1>7, <1>11, <1>12 DEF IInv

LEMMA Steps == IInv /\ [Next]_vars => IInv'
<1> SUFFICES ASSUME IInv, [Next]_vars PROVE IInv'
  OBVIOUS
<1> USE DEF IInv
<1>1. ASSUME NEW t \in Tid, Thread(t) PROVE IInv'
  <2>1. PlacedAt(t)
    BY DEF Placed
  <2>2. Alone(t) /\ Effect(t) /\ VoteStep(t) /\ LockStep(t)
    BY <1>1, <2>1, ThreadEffect, VoteEffect, LockEffect
  <2>3. TypeOK'
    BY <1>1, ThreadTypes
  <2>4. Placed'
    <3>1. PlacedAt(t)'
      BY <1>1, <2>1, ThreadPlace
    <3>2. \A u \in Tid \ {t} : PlacedAt(u)'
      BY <2>2 DEF Placed, PlacedAt, Doing, Alone
    <3> QED
      BY <3>1, <3>2 DEF Placed
  <2>5. Watched' /\ Signalled' /\ Aborted' /\ Over'
    BY <2>2, SignalsThread
  <2>6. Abreast' /\ BarrierHolds'
    BY <2>2, <2>3, AbreastThread
  <2>7. Cast' /\ Counted' /\ CountsAreVotes'
    BY <2>2, CastThread, CountedThread, VotesThread
  <2>8. Locked' /\ Current'
    BY <2>2, LocksThread, CurrentThread
  <2> QED
    BY <2>3, <2>4, <2>5, <2>6, <2>7, <2>8
<1>2. ASSUME Manager \/ UNCHANGED vars
      PROVE  Placed' /\ Cast' /\ Counted' /\ CountsAreVotes' /\ Locked' /\ Current'
  <2>1. UNCHANGED <<launch, threadVars, voteVars, memoryVars>>
    BY <1>2, ManagerEffect DEF Quiet, vars
  <2>2. Placed'
    BY <2>1 DEF launch, threadVars, Placed, PlacedAt, Doing
  <2>3. Cast' /\ Counted' /\ CountsAreVotes'
    BY <2>1 DEF launch, threadVars, voteVars, Cast, Counted, CountsAreVotes, Gone
  <2>4. Locked' /\ Current'
    BY <2>1 DEF launch, threadVars, memoryVars, Locked, Lock, Current, OneLock
  <2> QED
    BY <2>2, <2>3, <2>4
<1>3. CASE Manager
  <2>1. TypeOK' /\ Quiet
    BY <1>3, ManagerEffect
  <2>2. Watched' /\ Signalled' /\ Aborted' /\ Over'
    BY <1>3, <2>1, SignalsManager
  <2>3. Abreast' /\ BarrierHolds'
    BY <1>3, <2>1, AbreastManager
  <2> QED
    BY <1>2, <1>3, <2>1, <2>2, <2>3
<1>4. CASE UNCHANGED vars
  <2>1. TypeOK'
    BY <1>4 DEF vars, launch, threadVars, signalVars, managerVars, voteVars, memoryVars,
                TypeOK, Lined
  <2>2. Watched' /\ Signalled' /\ Aborted' /\ Over'
    BY <1>4 DEF vars, launch, threadVars, signalVars, managerVars,
                Watched, Signalled, Aborted, Over
  <2>3. Abreast' /\ BarrierHolds'
    BY <1>4 DEF vars, launch, threadVars, signalVars,
                Abreast, BarrierHolds, Reached, Released, Passed, Lines, Gone
  <2> QED
    BY <1>2, <1>4, <2>1, <2>2, <2>3
<1> QED
  BY <1>1, <1>3, <1>4 DEF Next

LEMMA IInvAlways == Spec => []IInv
  BY Starts, Steps, PTL DEF Spec

\* Nobody passes a barrier before every thread of the block that has not ended
\* has reached it, in every order of the threads and of the manager's polling,
\* also when a thread raises and the block is aborted (syncthreads,
\* BlockManager.run).
THEOREM BarriersAlwaysHold == Spec => []BarrierHolds
<1>1. IInv => BarrierHolds
  BY DEF IInv
<1> QED
  BY <1>1, IInvAlways, PTL

\* What a thread counts at a vote is what the threads said at that vote and not
\* at the next one, for any number of votes in a row (syncthreads_count, _and,
\* _or).
THEOREM CountsAreAlwaysVotes == Spec => []CountsAreVotes
<1>1. IInv => CountsAreVotes
  BY DEF IInv
<1> QED
  BY <1>1, IInvAlways, PTL

\* A launch that comes back without an exception left no thread alive, and no
\* exception behind (BlockManager.run).
THEOREM ReturnsClean == Spec => []CleanReturn
<1>1. IInv => CleanReturn
  BY DEF IInv, CleanReturn, Over, TypeOK, Watched
<1> QED
  BY <1>1, IInvAlways, PTL

\* Atomic operations of one kind, or maxima, write what they computed from the
\* value that they replace (FakeCUDAAtomic).
THEOREM LikeAtomicsAlwaysAtomic == Spec => LikeAtomicsAreAtomic
<1>1. IInv => [\A t \in Tid : Writes(t) /\ OneLock => read[t] = {cell}]_vars
  BY DEF IInv, Current, Writes, InAtomic
<1> QED
  BY <1>1, IInvAlways, PTL DEF LikeAtomicsAreAtomic
=============================================================================
