--------------------------- MODULE Modules_proofs ---------------------------
(***************************************************************************)
(* Modules are set up before they run, torn down before they are unloaded, *)
(* and unloaded once their Context has let go of them, for any number of   *)
(* threads, devices, compute capabilities and kernels.                     *)
(***************************************************************************)
EXTENDS Modules, FiniteSetTheorems, WellFoundedInduction, TLAPS

(***************************************************************************)
(* The inductive invariant.                                                *)
(***************************************************************************)
Libs == Lib \cup {Memsys}

Handle == 1..handles

Index == 1..Len(module)

Module == [lib : Libs, dev : Device, handle : Handle,
           home : BOOLEAN, initialized : BOOLEAN, torn : BOOLEAN]

\* Places of a call before its module is loaded, and after.
Early == {"function", "cubin", "link", "load"}

Late == {"store", "setup", "nrt", "bound", "launch"}

\* Calls that bind or launch a kernel, and resets.
KernelCall == [at : Early \cup Late, op : {"bind", "launch"}, lib : Lib, dev : Device, code : Nat]

ResetCall == [at : {"clear", "flush"}, op : {"reset"}, dev : Device]

TypeOK ==
  /\ module \in Seq(Module)
  /\ kept \in [Device -> SUBSET Index]
  /\ handles \in Nat
  /\ cubin \in [Lib -> [Cc -> Handle \cup {0}]]
  /\ cufunc \in [Lib -> [Device -> Index \cup {0}]]
  /\ queue \in [Device -> Seq(Handle)]
  /\ unloaded \subseteq Handle
  /\ bound \subseteq Lib
  /\ rt \in Index \cup {0}
  /\ call \in [Thread -> KernelCall \cup ResetCall \cup {Idle}]
  /\ compiling \in Thread \cup {NoThread}
  /\ launched \subseteq Index
  /\ raced \subseteq Device /\ asserted \subseteq Device /\ cut \subseteq Device

Kernels(t) == call[t].at \in Early \cup Late

Resets(t) == call[t].at \in {"clear", "flush"}

Binds(t) == Kernels(t) /\ call[t].op = "bind"

\* A call knows the handle that it loads, and then the module it loaded.
CallOK(t) ==
  /\ call[t].at = "load" => call[t].code \in Handle
  /\ call[t].at \in Late => /\ call[t].code \in Index
                            /\ module[call[t].code].lib = call[t].lib
  /\ call[t].at = "launch" => call[t].op = "launch"
  /\ call[t].at \in {"setup", "nrt", "bound"} => call[t].op = "bind"
  /\ Resets(t) => \A u \in Thread \ {t} : call[u] = Idle
  /\ Kernels(t) /\ call[t].op = "launch" => call[t].lib \in bound

\* Who binds a kernel is alone in doing so, and makes the first module of it.
BindOK(t) ==
  Binds(t) =>
     /\ compiling = t /\ call[t].lib \notin bound
     /\ call[t].at \in Early => \A i \in Index : module[i].lib # call[t].lib
     /\ call[t].at \in Late => \A i \in Index : module[i].lib = call[t].lib => i = call[t].code
     /\ call[t].at \in {"nrt", "bound"} => module[call[t].code].initialized

Calls == \A t \in Thread : CallOK(t) /\ BindOK(t)

\* A kernel that may be launched was set up where it was bound.
BoundIsSetUp ==
  \A i \in Index : module[i].lib \in bound /\ module[i].home => module[i].initialized

\* An ObjectCode is that of one library.
OneLib(owner) ==
  /\ \A i \in Index : owner[module[i].handle] = module[i].lib
  /\ \A k \in Lib, c \in Cc : cubin[k][c] # 0 => owner[cubin[k][c]] = k
  /\ \A t \in Thread : call[t].at = "load" => owner[call[t].code] = call[t].lib

Owned == \E owner \in [Handle -> Libs] : OneLib(owner)

\* A function is kept for each module that a Context keeps, or is about to be.
Stored ==
  /\ \A k \in Lib, d \in Device : cufunc[k][d] # 0 => module[cufunc[k][d]].lib = k
  /\ \A d \in Device : \A i \in kept[d] :
        /\ module[i].dev = d
        /\ module[i].lib \in Lib =>
              \/ cufunc[module[i].lib][d] # 0
              \/ \E t \in Thread : /\ call[t].at = "store" /\ call[t].code = i
                                   /\ call[t].dev = d

\* Nobody will load this library on this device any more.
Settled(k, d) ==
  /\ cufunc[k][d] # 0
  /\ \A t \in Thread : call[t].at \in {"cubin", "link", "load"}
        => ~(call[t].lib = k /\ call[t].dev = d)

\* All modules of this handle that will ever be on this device have been made.
LetGo(d, h) ==
  \E i \in Index : module[i].handle = h /\ (module[i].lib \in Lib => Settled(module[i].lib, d))

\* What is to be unloaded was torn down; it was let go of for good, unless two
\* threads loaded one ObjectCode at once.
Waits(d, h) ==
  /\ \E i \in Index : module[i].handle = h /\ module[i].torn
  /\ d \notin raced => h \notin Keys(d) /\ LetGo(d, h)

Queued == \A d \in Device : \A h \in ToSet(queue[d]) : Waits(d, h)

\* rtsys may outlive its module only until the end of a reset, or when that was
\* cut short.
RtsysKept ==
  rt # 0 => \/ rt \in kept[module[rt].dev] \/ module[rt].dev \in cut
            \/ \E t \in Thread : call[t].at = "flush" /\ call[t].dev = module[rt].dev

IInv == /\ TypeOK /\ Calls /\ BoundIsSetUp /\ Owned /\ Stored /\ Queued /\ RtsysKept
        /\ HomeIsSetUp /\ TornDownThenUnloaded /\ UnloadAssertion

-----------------------------------------------------------------------------
(* Sequences and the order of a Context's dictionary.                      *)

LEMMA SetOfSequence ==
  ASSUME NEW S, NEW q \in Seq(S), NEW h \in S
  PROVE  /\ ToSet(q) \subseteq S
         /\ Append(q, h) \in Seq(S) /\ ToSet(Append(q, h)) = ToSet(q) \cup {h}
         /\ q # <<>> => /\ Head(q) \in S /\ Tail(q) \in Seq(S)
                        /\ ToSet(q) = {Head(q)} \cup ToSet(Tail(q))
<1>1. ToSet(q) = {q[i] : i \in 1..Len(q)} /\ ToSet(q) \subseteq S
  BY DEF ToSet
<1>2. Append(q, h) \in Seq(S) /\ ToSet(Append(q, h)) = ToSet(q) \cup {h}
  <2>1. /\ Append(q, h) \in Seq(S) /\ DOMAIN Append(q, h) = 1..(Len(q) + 1)
        /\ \A i \in 1..Len(q) : Append(q, h)[i] = q[i]
        /\ Append(q, h)[Len(q) + 1] = h
    OBVIOUS
  <2> QED
    BY <2>1 DEF ToSet
<1>3. ASSUME q # <<>>
      PROVE  /\ Head(q) \in S /\ Tail(q) \in Seq(S)
             /\ ToSet(q) = {Head(q)} \cup ToSet(Tail(q))
  <2>1. /\ Len(q) \in Nat /\ Len(q) > 0
        /\ Head(q) \in S /\ Head(q) = q[1]
        /\ Tail(q) \in Seq(S) /\ DOMAIN Tail(q) = 1..(Len(q) - 1)
        /\ \A i \in 1..(Len(q) - 1) : Tail(q)[i] = q[i + 1]
    BY <1>3
  <2>2. ASSUME NEW i \in 1..Len(q) PROVE q[i] \in {Head(q)} \cup ToSet(Tail(q))
    <3>1. CASE i = 1
      BY <2>1, <3>1
    <3>2. CASE i # 1
      <4>1. i - 1 \in 1..(Len(q) - 1) /\ q[i] = Tail(q)[i - 1]
        BY <2>1, <3>2
      <4> QED
        BY <2>1, <4>1 DEF ToSet
    <3> QED
      BY <3>1, <3>2
  <2>3. {Head(q)} \cup ToSet(Tail(q)) \subseteq ToSet(q)
    BY <2>1 DEF ToSet
  <2> QED
    BY <1>1, <2>1, <2>2, <2>3
<1> QED
  BY <1>1, <1>2, <1>3

LEMMA SetOfConcatenation ==
  ASSUME NEW S, NEW q \in Seq(S), NEW r \in Seq(S)
  PROVE  q \o r \in Seq(S) /\ ToSet(q \o r) = ToSet(q) \cup ToSet(r)
<1>1. /\ q \o r \in Seq(S) /\ DOMAIN (q \o r) = 1..(Len(q) + Len(r))
      /\ Len(q) \in Nat /\ Len(r) \in Nat
      /\ DOMAIN q = 1..Len(q) /\ DOMAIN r = 1..Len(r)
      /\ \A i \in 1..Len(q) : (q \o r)[i] = q[i]
      /\ \A i \in (Len(q) + 1)..(Len(q) + Len(r)) : (q \o r)[i] = r[i - Len(q)]
  OBVIOUS
<1>2. ASSUME NEW i \in 1..Len(r)
      PROVE  Len(q) + i \in 1..(Len(q) + Len(r)) /\ (q \o r)[Len(q) + i] = r[i]
  BY <1>1
<1>3. ASSUME NEW i \in 1..(Len(q) + Len(r))
      PROVE  (q \o r)[i] \in ToSet(q) \cup ToSet(r)
  <2>1. CASE i <= Len(q)
    BY <1>1, <2>1 DEF ToSet
  <2>2. CASE i > Len(q)
    <3>1. i - Len(q) \in 1..Len(r) /\ (q \o r)[i] = r[i - Len(q)]
      BY <1>1, <2>2
    <3> QED
      BY <1>1, <3>1 DEF ToSet
  <2> QED
    BY <1>1, <2>1, <2>2
<1>4. ToSet(q \o r) \subseteq ToSet(q) \cup ToSet(r)
  BY <1>1, <1>3 DEF ToSet
<1>5. ToSet(q) \subseteq ToSet(q \o r)
  BY <1>1 DEF ToSet
<1>6. ToSet(r) \subseteq ToSet(q \o r)
  <2>1. ToSet(r) = {r[i] : i \in 1..Len(r)}
    BY <1>1 DEF ToSet
  <2>2. ToSet(q \o r) = {(q \o r)[i] : i \in 1..(Len(q) + Len(r))}
    BY <1>1 DEF ToSet
  <2> QED
    BY <1>2, <2>1, <2>2
<1> QED
  BY <1>1, <1>4, <1>5, <1>6

Increasing(order) == \A m, n \in DOMAIN order : m < n => order[m] < order[n]

\* A finite set of naturals that is not empty has a largest member.
LEMMA LargestMember ==
  ASSUME NEW n \in Nat, NEW S \in SUBSET (1..n), S # {}
  PROVE  \E x \in S : \A y \in S : y <= x
<1> DEFINE T == {m \in Nat : \A y \in S : y <= m}
<1>1. T \subseteq Nat /\ n \in T
  OBVIOUS
<1>2. PICK m \in T : \A k \in T : <<k, m>> \notin OpToRel(<, Nat)
  BY <1>1, NatLessThanWellFounded, WFMin
<1>3. \A k \in T : ~(k < m)
  <2> SUFFICES ASSUME NEW k \in T, k < m PROVE FALSE
    OBVIOUS
  <2>1. <<k, m>> \in Nat \X Nat
    BY <1>1
  <2> QED
    BY <1>2, <2>1 DEF OpToRel
<1>4. m \in Nat /\ \A y \in S : y <= m /\ y \in Nat \ {0}
  <2>1. m \in T
    OBVIOUS
  <2> QED
    BY <2>1
<1>5. m \in S
  <2> SUFFICES ASSUME m \notin S PROVE FALSE
    OBVIOUS
  <2>1. PICK y \in S : TRUE
    OBVIOUS
  <2>2. m - 1 \in Nat
    BY <1>4, <2>1
  <2>3. \A z \in S : z <= m - 1
    BY <1>4
  <2>4. m - 1 \in T
    BY <2>2, <2>3
  <2> QED
    BY <1>3, <1>4, <2>2, <2>4
<1> QED
  BY <1>4, <1>5

\* What counts the members of a set up to each of its size.
Listed(n) ==
  {c \in Nat : \A S \in SUBSET (1..n) :
      IsFiniteSet(S) /\ Cardinality(S) = c => \E order \in [1..c -> S] : Increasing(order)}

LEMMA NothingListed ==
  ASSUME NEW n \in Nat
  PROVE  0 \in Listed(n)
<1> SUFFICES ASSUME NEW S \in SUBSET (1..n), IsFiniteSet(S), Cardinality(S) = 0
             PROVE  \E order \in [1..0 -> S] : Increasing(order)
  BY DEF Listed
<1> DEFINE none == [i \in 1..0 |-> 0]
<1>1. none \in [1..0 -> S] /\ Increasing(none)
  BY DEF Increasing
<1> QED
  BY <1>1

LEMMA OneMoreListed ==
  ASSUME NEW n \in Nat, NEW c \in Listed(n)
  PROVE  c + 1 \in Listed(n)
<1>0. c \in Nat
  BY DEF Listed
<1> SUFFICES ASSUME NEW S \in SUBSET (1..n), IsFiniteSet(S), Cardinality(S) = c + 1
             PROVE  \E order \in [1..(c + 1) -> S] : Increasing(order)
  BY <1>0 DEF Listed
<1>1. S # {}
  BY <1>0, FS_EmptySet
<1>2. PICK x \in S : \A y \in S : y <= x
  BY <1>1, LargestMember
<1>3. IsFiniteSet(S \ {x}) /\ Cardinality(S \ {x}) = c /\ S \ {x} \in SUBSET (1..n)
  BY <1>0, FS_RemoveElement
<1>4. PICK less \in [1..c -> S \ {x}] : Increasing(less)
  BY <1>3 DEF Listed
<1> DEFINE order == [i \in 1..(c + 1) |-> IF i = c + 1 THEN x ELSE less[i]]
<1>5. order \in [1..(c + 1) -> S]
  BY <1>0
<1>6. ASSUME NEW i \in 1..(c + 1), NEW j \in 1..(c + 1), i < j
      PROVE  order[i] < order[j]
  <2>1. i \in 1..c /\ order[i] = less[i] /\ less[i] \in S \ {x}
    BY <1>0, <1>6
  <2>2. CASE j = c + 1
    <3>1. less[i] <= x /\ less[i] # x
      BY <1>2, <2>1
    <3>2. less[i] \in 1..n /\ x \in 1..n
      BY <2>1
    <3> QED
      BY <2>1, <2>2, <3>1, <3>2
  <2>3. CASE j # c + 1
    <3>1. j \in 1..c /\ order[j] = less[j]
      BY <1>0, <2>3
    <3> QED
      BY <1>4, <1>6, <2>1, <3>1 DEF Increasing
  <2> QED
    BY <2>2, <2>3
<1>7. Increasing(order)
  <2>1. DOMAIN order = 1..(c + 1)
    OBVIOUS
  <2> QED
    BY <1>6, <2>1 DEF Increasing
<1> QED
  BY <1>5, <1>7

LEMMA AllListed ==
  ASSUME NEW n \in Nat
  PROVE  Listed(n) = Nat
<1> DEFINE T == Nat \ Listed(n)
<1> SUFFICES ASSUME T # {} PROVE FALSE
  BY DEF Listed
<1>1. PICK m \in T : \A k \in T : <<k, m>> \notin OpToRel(<, Nat)
  BY NatLessThanWellFounded, WFMin
<1>2. m \notin Listed(n) /\ m # 0 /\ m \in Nat /\ m - 1 \in Nat
  <2>1. m \in T
    OBVIOUS
  <2> QED
    BY <2>1, NothingListed
<1>3. m - 1 \notin T
  <2>1. <<m - 1, m>> \in Nat \X Nat /\ m - 1 < m
    BY <1>2
  <2>2. <<m - 1, m>> \in OpToRel(<, Nat)
    BY <2>1 DEF OpToRel
  <2> QED
    BY <1>1, <2>2
<1>4. m - 1 \in Listed(n)
  BY <1>2, <1>3
<1>5. (m - 1) + 1 \in Listed(n)
  BY <1>4, OneMoreListed
<1> QED
  BY <1>2, <1>5

\* A Context's modules in order are all of them.
LEMMA OrderListsAll ==
  ASSUME NEW n \in Nat, NEW S \in SUBSET (1..n)
  PROVE  /\ Cardinality(S) \in Nat
         /\ InOrder(S) \in [1..Cardinality(S) -> S]
         /\ \A x \in S : \E i \in 1..Cardinality(S) : InOrder(S)[i] = x
<1>1. IsFiniteSet(1..n)
  BY FS_Interval
<1>2. IsFiniteSet(S) /\ Cardinality(S) \in Nat
  BY <1>1, FS_Subset, FS_CardinalityType
<1>3. \E order \in [1..Cardinality(S) -> S] : Increasing(order)
  <2>1. Cardinality(S) \in Listed(n)
    BY <1>2, AllListed
  <2> QED
    BY <1>2, <2>1 DEF Listed
<1>4. InOrder(S) \in [1..Cardinality(S) -> S] /\ Increasing(InOrder(S))
  BY <1>3 DEF InOrder, Increasing
<1>5. \A x \in S : x \in Nat
  OBVIOUS
<1>6. InOrder(S) \in Injection(1..Cardinality(S), S)
  <2>1. ASSUME NEW i \in 1..Cardinality(S), NEW j \in 1..Cardinality(S),
               InOrder(S)[i] = InOrder(S)[j]
        PROVE  i = j
    <3>1. InOrder(S)[i] \in Nat /\ InOrder(S)[j] \in Nat
      BY <1>4, <1>5
    <3>2. ~(i < j) /\ ~(j < i)
      BY <1>4, <2>1, <3>1 DEF Increasing
    <3> QED
      BY <1>2, <3>2
  <2> QED
    BY <1>4, <2>1 DEF Injection, IsInjective
<1>7. IsFiniteSet(1..Cardinality(S)) /\ Cardinality(1..Cardinality(S)) = Cardinality(S)
  BY <1>2, FS_Interval
<1>8. InOrder(S) \in Surjection(1..Cardinality(S), S)
  BY <1>2, <1>6, <1>7, FS_Injection
<1> QED
  BY <1>2, <1>4, <1>8 DEF Surjection

\* Clearing a dictionary queues the handles of its modules, and no other.
LEMMA HandlesOfAll ==
  ASSUME TypeOK, NEW d \in Device
  PROVE  KeptHandles(d) \in Seq(Handle) /\ ToSet(KeptHandles(d)) = Keys(d)
<1>1. /\ Len(module) \in Nat /\ kept[d] \in SUBSET (1..Len(module))
      /\ \A i \in kept[d] : module[i].handle \in Handle
  <2>1. Len(module) \in Nat /\ kept[d] \in SUBSET (1..Len(module))
    BY DEF TypeOK, Index
  <2>2. \A i \in 1..Len(module) : module[i] \in Module
    BY DEF TypeOK
  <2> QED
    BY <2>1, <2>2 DEF Module
<1> DEFINE n == Cardinality(kept[d])
           order == InOrder(kept[d])
<1>2. n \in Nat /\ order \in [1..n -> kept[d]] /\ \A x \in kept[d] : \E i \in 1..n : order[i] = x
  BY <1>1, OrderListsAll
<1>3. DOMAIN order = 1..n /\ \A i \in 1..n : order[i] \in kept[d]
  BY <1>2
<1> HIDE DEF n, order
<1>4. KeptHandles(d) = [i \in 1..n |-> module[order[i]].handle]
  BY <1>3 DEF KeptHandles, order
<1>5. KeptHandles(d) \in Seq(Handle)
  BY <1>1, <1>2, <1>3, <1>4
<1>6. ToSet(KeptHandles(d)) = {module[order[i]].handle : i \in 1..n}
  BY <1>4 DEF ToSet
<1>7. {module[order[i]].handle : i \in 1..n} = Keys(d)
  BY <1>2, <1>3 DEF Keys
<1> QED
  BY <1>5, <1>6, <1>7

-----------------------------------------------------------------------------
(* Calls.                                                                  *)

Calling == KernelCall \cup ResetCall \cup {Idle}

LEMMA CallTypes ==
  ASSUME TypeOK, NEW t \in Thread
  PROVE  /\ call[t] \in Calling
         /\ Kernels(t) => call[t] \in KernelCall
         /\ Resets(t) => call[t] \in ResetCall
         /\ call[t] # Idle => Kernels(t) \/ Resets(t)
         /\ call[t] = Idle => ~Kernels(t) /\ ~Resets(t)
         /\ ~(Kernels(t) /\ Resets(t))
  BY DEF TypeOK, Calling, KernelCall, ResetCall, Idle, Kernels, Resets, Early, Late

LEMMA NoResetMeans ==
  ASSUME TypeOK, NoReset, NEW t \in Thread
  PROVE  ~Resets(t)
<1>1. Resets(t) => call[t].op = "reset" /\ call[t] # Idle
  BY CallTypes DEF ResetCall
<1> QED
  BY <1>1 DEF NoReset

\* One thread goes on, or starts, or returns.
Becomes(t, r) == call' = [call EXCEPT ![t] = r]

LEMMA BecomesIs ==
  ASSUME TypeOK, NEW t \in Thread, NEW r \in Calling, Becomes(t, r)
  PROVE  /\ call' \in [Thread -> Calling]
         /\ call'[t] = r
         /\ \A u \in Thread \ {t} : call'[u] = call[u]
  BY DEF TypeOK, Becomes, Calling

On(t, l, c) == [[call[t] EXCEPT !.at = l] EXCEPT !.code = c]

LEMMA GotoIs ==
  ASSUME TypeOK, NEW t \in Thread, Kernels(t),
         NEW l \in Early \cup Late, NEW c \in Nat, Goto(t, l, c)
  PROVE  /\ Becomes(t, On(t, l, c)) /\ On(t, l, c) \in KernelCall
         /\ On(t, l, c).at = l /\ On(t, l, c).code = c /\ On(t, l, c).op = call[t].op
         /\ On(t, l, c).lib = call[t].lib /\ On(t, l, c).dev = call[t].dev
<1>1. call[t] \in KernelCall
  BY CallTypes
<1>2. [call[t] EXCEPT !.at = l] \in KernelCall
  BY <1>1 DEF KernelCall
<1>3. On(t, l, c) \in KernelCall
  BY <1>2 DEF KernelCall, On
<1>4. /\ On(t, l, c).at = l /\ On(t, l, c).code = c /\ On(t, l, c).op = call[t].op
      /\ On(t, l, c).lib = call[t].lib /\ On(t, l, c).dev = call[t].dev
  BY <1>1, <1>2 DEF KernelCall, On
<1>5. call \in [Thread -> Calling]
  BY DEF TypeOK, Calling
<1>6. Becomes(t, On(t, l, c))
  BY <1>5 DEF Goto, Becomes, On
<1> QED
  BY <1>3, <1>4, <1>6

LEMMA StartIs ==
  ASSUME NEW t \in Thread, NEW op \in {"bind", "launch"}, NEW k \in Lib, NEW d \in Device
  PROVE  /\ Call("function", op, k, d) \in KernelCall
         /\ [at |-> "clear", op |-> "reset", dev |-> d] \in ResetCall
         /\ Idle \in Calling
  BY DEF Call, KernelCall, ResetCall, Early, Calling

LEMMA ResetGoesOn ==
  ASSUME TypeOK, NEW t \in Thread, Resets(t), call' = [call EXCEPT ![t].at = "flush"]
  PROVE  /\ Becomes(t, [at |-> "flush", op |-> "reset", dev |-> call[t].dev])
         /\ [at |-> "flush", op |-> "reset", dev |-> call[t].dev] \in ResetCall
<1>1. call[t] \in ResetCall /\ call \in [Thread -> Calling]
  BY CallTypes DEF TypeOK, Calling
<1>2. [call[t] EXCEPT !.at = "flush"] = [at |-> "flush", op |-> "reset", dev |-> call[t].dev]
  BY <1>1 DEF ResetCall
<1> QED
  BY <1>1, <1>2 DEF ResetCall, Becomes

-----------------------------------------------------------------------------
(* What every step leaves as it was.                                       *)

LEMMA ModuleFacts ==
  ASSUME TypeOK
  PROVE  /\ Len(module) \in Nat /\ DOMAIN module = Index
         /\ \A i \in Index : /\ i \in Nat /\ module[i] \in Module
                             /\ module[i].lib \in Libs /\ module[i].dev \in Device
                             /\ module[i].handle \in Handle
<1>1. Len(module) \in Nat /\ DOMAIN module = Index
  BY DEF TypeOK, Index
<1>2. \A i \in Index : module[i] \in Module /\ i \in Nat
  BY DEF TypeOK, Index
<1> QED
  BY <1>1, <1>2 DEF Module

\* Modules are made and never forgotten; they change in two ways only.
Grown ==
  /\ Index \subseteq Index' /\ Handle \subseteq Handle'
  /\ \A i \in Index : /\ module'[i].lib = module[i].lib
                      /\ module'[i].dev = module[i].dev
                      /\ module'[i].handle = module[i].handle
                      /\ module'[i].home = module[i].home
                      /\ module[i].initialized => module'[i].initialized
                      /\ module[i].torn => module'[i].torn

LEMMA NotGrown ==
  ASSUME UNCHANGED <<module, handles>>
  PROVE  Grown /\ Index' = Index /\ Handle' = Handle
  BY DEF Grown, Index, Handle

\* The calls of the other threads go on as they were.
LEMMA OthersKeep ==
  ASSUME TypeOK, Calls, NEW t \in Thread, NEW r \in Calling, Becomes(t, r), Grown,
         bound \subseteq bound',
         \A u \in Thread \ {t} :
            /\ compiling = u => compiling' = u
            /\ r = Idle \/ ~Resets(u)
            /\ Binds(u) => /\ call[u].lib \notin bound'
                           /\ \A i \in Index' \ Index : module'[i].lib # call[u].lib
  PROVE  \A u \in Thread \ {t} : CallOK(u)' /\ BindOK(u)'
<1> SUFFICES ASSUME NEW u \in Thread \ {t} PROVE CallOK(u)' /\ BindOK(u)'
  OBVIOUS
<1>1. call'[t] = r /\ \A v \in Thread \ {t} : call'[v] = call[v]
  BY BecomesIs
<1>2. CallOK(u) /\ BindOK(u) /\ call'[u] = call[u]
  BY <1>1 DEF Calls
<1>3. (Kernels(u)' <=> Kernels(u)) /\ (Resets(u)' <=> Resets(u)) /\ (Binds(u)' <=> Binds(u))
  BY <1>2 DEF Kernels, Resets, Binds
<1>4. Resets(u)' => \A v \in Thread \ {u} : call'[v] = Idle
  BY <1>1, <1>2, <1>3 DEF CallOK
<1>5. CallOK(u)'
  <2>1. call[u].at = "load" => call[u].code \in Handle'
    BY <1>2 DEF CallOK, Grown
  <2>2. call[u].at \in Late => /\ call[u].code \in Index'
                               /\ module'[call[u].code].lib = call[u].lib
    BY <1>2 DEF CallOK, Grown
  <2>3. /\ call[u].at = "launch" => call[u].op = "launch"
        /\ call[u].at \in {"setup", "nrt", "bound"} => call[u].op = "bind"
        /\ Kernels(u) /\ call[u].op = "launch" => call[u].lib \in bound'
    BY <1>2 DEF CallOK
  <2> QED
    BY <1>2, <1>3, <1>4, <2>1, <2>2, <2>3 DEF CallOK
<1>6. BindOK(u)'
  <2> SUFFICES ASSUME Binds(u) PROVE BindOK(u)'
    BY <1>3 DEF BindOK
  <2>1. compiling' = u /\ call[u].lib \notin bound'
    BY <1>2 DEF BindOK
  <2>2. call[u].at \in Early => \A i \in Index' : module'[i].lib # call[u].lib
    BY <1>2 DEF BindOK, Grown
  <2>3. call[u].at \in Late => \A i \in Index' : module'[i].lib = call[u].lib => i = call[u].code
    BY <1>2 DEF BindOK, Grown
  <2>4. call[u].at \in {"nrt", "bound"} => module'[call[u].code].initialized
    BY <1>2 DEF BindOK, CallOK, Grown, Late
  <2> QED
    BY <1>2, <2>1, <2>2, <2>3, <2>4 DEF BindOK
<1> QED
  BY <1>5, <1>6

\* Somebody else binds another kernel.
LEMMA AnotherKernel ==
  ASSUME TypeOK, Calls, NEW t \in Thread, NEW u \in Thread \ {t}, Kernels(t), Binds(u)
  PROVE  call[t].lib # call[u].lib
<1>1. call[t].op \in {"bind", "launch"}
  BY CallTypes DEF KernelCall
<1>2. CASE call[t].op = "bind"
  BY <1>2 DEF Calls, BindOK, Binds
<1>3. CASE call[t].op = "launch"
  BY <1>3 DEF Calls, CallOK, BindOK
<1> QED
  BY <1>1, <1>2, <1>3

\* A step that only takes one call further.
LEMMA MoveKeeps ==
  ASSUME TypeOK, Owned, Stored, Queued,
         NEW t \in Thread, NEW r \in Calling, Becomes(t, r),
         UNCHANGED <<loading, queue, raced>>,
         call[t].at # "store",
         r.at = "load" => /\ r.lib \in Lib /\ r.code # 0
                          /\ \E c \in Cc : cubin[r.lib][c] = r.code,
         r.at \in {"cubin", "link", "load"} =>
            \/ cufunc[r.lib][r.dev] = 0
            \/ /\ call[t].at \in {"cubin", "link", "load"}
               /\ r.lib = call[t].lib /\ r.dev = call[t].dev
  PROVE  Owned' /\ Stored' /\ Queued'
<1>1. call'[t] = r /\ \A v \in Thread \ {t} : call'[v] = call[v]
  BY BecomesIs
<1>2. UNCHANGED <<module, kept, handles, cubin, cufunc, queue, raced>>
  BY DEF loading
<1>3. Index' = Index /\ Handle' = Handle
  BY <1>2 DEF Index, Handle
<1>4. Owned'
  <2>1. PICK owner \in [Handle -> Libs] : OneLib(owner)
    BY DEF Owned
  <2>2. OneLib(owner)'
    BY <1>1, <1>2, <1>3, <2>1 DEF OneLib
  <2> QED
    BY <1>3, <2>1, <2>2 DEF Owned
<1>5. Stored'
  <2>1. ASSUME NEW d \in Device, NEW i \in kept[d], NEW u \in Thread,
               call[u].at = "store", call[u].code = i, call[u].dev = d
        PROVE  /\ call'[u].at = "store" /\ call'[u].code = i /\ call'[u].dev = d
    BY <1>1, <2>1
  <2> QED
    BY <1>2, <2>1 DEF Stored
<1>6. Queued'
  <2>1. ASSUME NEW k \in Lib, NEW d \in Device, Settled(k, d) PROVE Settled(k, d)'
    BY <1>1, <1>2, <2>1 DEF Settled
  <2>2. \A d \in Device : Keys(d)' = Keys(d)
    BY <1>2 DEF Keys
  <2> QED
    BY <1>2, <1>3, <2>1, <2>2 DEF Queued, Waits, LetGo
<1> QED
  BY <1>4, <1>5, <1>6

\* A step that takes one call further and has nothing to do with modules.
LEMMA MoveKeepsModules ==
  ASSUME TypeOK, BoundIsSetUp, HomeIsSetUp, TornDownThenUnloaded, UnloadAssertion,
         UNCHANGED <<loading, queue, unloaded, history>>, bound' = bound
  PROVE  BoundIsSetUp' /\ HomeIsSetUp' /\ TornDownThenUnloaded' /\ UnloadAssertion'
<1>1. /\ module' = module /\ kept' = kept /\ queue' = queue /\ unloaded' = unloaded
      /\ launched' = launched /\ asserted' = asserted /\ raced' = raced
  BY DEF loading, history
<1> QED
  BY <1>1 DEF BoundIsSetUp, HomeIsSetUp, TornDownThenUnloaded, UnloadAssertion, Index

-----------------------------------------------------------------------------
(* Steps that only take one call further.                                  *)

\* Where a step of one call leaves the others: nobody loses the compiler's lock,
\* and a kernel's call means that nobody resets a context.
LEMMA NobodyResets ==
  ASSUME TypeOK, Calls, NEW t \in Thread, Kernels(t), NEW u \in Thread \ {t}
  PROVE  ~Resets(u)
<1>1. call[t] # Idle
  BY CallTypes
<1> QED
  BY <1>1 DEF Calls, CallOK

LEMMA Returns ==
  ASSUME TypeOK, NEW t \in Thread, Done(t)
  PROVE  /\ Becomes(t, Idle) /\ Idle \in Calling /\ Idle.at = "idle"
         /\ compiling' \in Thread \cup {NoThread}
         /\ \A u \in Thread \ {t} : compiling = u => compiling' = u
         /\ CallOK(t)' /\ BindOK(t)'
<1>1. Becomes(t, Idle) /\ Idle \in Calling /\ Idle.at = "idle"
  BY DEF Done, Becomes, Idle, Calling
<1>2. call'[t] = Idle
  BY <1>1, BecomesIs
<1>3. compiling' \in Thread \cup {NoThread} /\ \A u \in Thread \ {t} : compiling = u => compiling' = u
  BY DEF Done, TypeOK
<1>4. CallOK(t)' /\ BindOK(t)'
  BY <1>1, <1>2 DEF CallOK, BindOK, Kernels, Resets, Binds, Early, Late
<1> QED
  BY <1>1, <1>3, <1>4

LEMMA RtsysStays ==
  ASSUME TypeOK, RtsysKept, NEW t \in Thread, NEW r \in Calling, Becomes(t, r),
         call[t].at # "flush", UNCHANGED <<module, kept, rt, cut>>
  PROVE  RtsysKept'
<1>1. \A u \in Thread \ {t} : call'[u] = call[u]
  BY BecomesIs
<1> QED
  BY <1>1 DEF RtsysKept

LEMMA Moves ==
  ASSUME IInv, NEW t \in Thread, NEW r \in Calling, Becomes(t, r),
         UNCHANGED <<loading, queue, unloaded, bound, rt, history>>,
         compiling' \in Thread \cup {NoThread},
         call[t].at \notin {"store", "flush"},
         r.at = "load" => /\ r.lib \in Lib /\ r.code # 0
                          /\ \E c \in Cc : cubin[r.lib][c] = r.code,
         r.at \in {"cubin", "link", "load"} =>
            \/ cufunc[r.lib][r.dev] = 0
            \/ /\ call[t].at \in {"cubin", "link", "load"}
               /\ r.lib = call[t].lib /\ r.dev = call[t].dev,
         \A u \in Thread \ {t} : /\ compiling = u => compiling' = u
                                 /\ r = Idle \/ ~Resets(u),
         CallOK(t)' /\ BindOK(t)'
  PROVE  IInv'
<1>1. /\ TypeOK /\ Calls /\ BoundIsSetUp /\ Owned /\ Stored /\ Queued /\ RtsysKept
      /\ HomeIsSetUp /\ TornDownThenUnloaded /\ UnloadAssertion
  BY DEF IInv
<1>2. UNCHANGED <<module, kept, handles, cubin, cufunc, launched, raced, asserted, cut>>
  BY DEF loading, history
<1>3. Grown /\ Index' = Index /\ Handle' = Handle
  BY <1>2, NotGrown
<1>4. TypeOK'
  <2>1. call' \in [Thread -> Calling]
    BY <1>1, BecomesIs
  <2>2. Module' = Module
    BY <1>3 DEF Module
  <2> QED
    BY <1>1, <1>2, <1>3, <2>1, <2>2 DEF TypeOK, Calling
<1>5. Calls'
  <2>1. \A u \in Thread \ {t} : Binds(u) => /\ call[u].lib \notin bound'
                                            /\ \A i \in Index' \ Index : module'[i].lib # call[u].lib
    BY <1>1, <1>3 DEF Calls, BindOK
  <2>2. \A u \in Thread \ {t} : CallOK(u)' /\ BindOK(u)'
    BY <1>1, <1>3, <2>1, OthersKeep
  <2> QED
    BY <2>2 DEF Calls
<1>6. Owned' /\ Stored' /\ Queued'
  BY <1>1, <1>2, MoveKeeps
<1>7. BoundIsSetUp' /\ HomeIsSetUp' /\ TornDownThenUnloaded' /\ UnloadAssertion'
  BY <1>1, MoveKeepsModules
<1>8. RtsysKept'
  BY <1>1, <1>2, RtsysStays
<1> QED
  BY <1>4, <1>5, <1>6, <1>7, <1>8 DEF IInv

LEMMA BindKeeps ==
  ASSUME IInv, ConstantsAssumption, NEW t \in Thread, NEW k \in Lib, NEW d \in Device,
         Bind(t, k, d)
  PROVE  IInv'
<1> DEFINE r == Call("function", "bind", k, d)
<1>1. TypeOK /\ NoReset /\ call[t] = Idle /\ compiling = NoThread /\ compiling' = t
  BY DEF IInv, Bind
<1>2. /\ r \in Calling /\ Becomes(t, r)
      /\ r.at = "function" /\ r.op = "bind" /\ r.lib = k
  BY StartIs DEF Bind, Becomes, Calling, Call
<1>3. UNCHANGED <<loading, queue, unloaded, bound, rt, history>>
  BY DEF Bind
<1> HIDE DEF r
<1>4. call'[t] = r
  BY <1>1, <1>2, BecomesIs
<1>5. CallOK(t)'
  BY <1>2, <1>4 DEF CallOK, Kernels, Resets, Early, Late
<1>6. BindOK(t)'
  <2>1. \A i \in Index : module[i].lib # k
    BY <1>1, ModuleFacts DEF Bind
  <2>2. module' = module /\ Index' = Index
    BY <1>3 DEF loading, Index
  <2>3. k \notin bound'
    BY <1>3 DEF Bind
  <2> QED
    BY <1>1, <1>2, <1>4, <2>1, <2>2, <2>3 DEF BindOK, Binds, Early, Late
<1>7. \A u \in Thread \ {t} : (compiling = u => compiling' = u) /\ ~Resets(u)
  BY <1>1, NoResetMeans DEF ConstantsAssumption
<1>8. Idle.at = "idle"
  BY DEF Idle
<1> QED
  BY <1>1, <1>2, <1>3, <1>5, <1>6, <1>7, <1>8, Moves

LEMMA LaunchKeeps ==
  ASSUME IInv, NEW t \in Thread, NEW k \in Lib, NEW d \in Device, Launch(t, k, d)
  PROVE  IInv'
<1> DEFINE r == Call("function", "launch", k, d)
<1>1. TypeOK /\ NoReset /\ call[t] = Idle /\ k \in bound /\ compiling' = compiling
  BY DEF IInv, Launch
<1>2. /\ r \in Calling /\ Becomes(t, r)
      /\ r.at = "function" /\ r.op = "launch" /\ r.lib = k
  BY StartIs DEF Launch, Becomes, Calling, Call
<1>3. UNCHANGED <<loading, queue, unloaded, bound, rt, history>>
  BY DEF Launch
<1> HIDE DEF r
<1>4. call'[t] = r
  BY <1>1, <1>2, BecomesIs
<1>5. CallOK(t)' /\ BindOK(t)'
  BY <1>1, <1>2, <1>3, <1>4 DEF CallOK, BindOK, Binds, Kernels, Resets, Early, Late
<1>6. \A u \in Thread \ {t} : (compiling = u => compiling' = u) /\ ~Resets(u)
  BY <1>1, NoResetMeans
<1>7. Idle.at = "idle" /\ compiling' \in Thread \cup {NoThread}
  BY <1>1 DEF Idle, TypeOK
<1> QED
  BY <1>1, <1>2, <1>3, <1>5, <1>6, <1>7, Moves

LEMMA ResetKeeps ==
  ASSUME IInv, NEW t \in Thread, NEW d \in Device, Reset(t, d)
  PROVE  IInv'
<1> DEFINE r == [at |-> "clear", op |-> "reset", dev |-> d]
<1>1. TypeOK /\ (\A u \in Thread : call[u] = Idle) /\ compiling' = compiling
  BY DEF IInv, Reset
<1>2. /\ r \in Calling /\ Becomes(t, r) /\ r.at = "clear"
  BY DEF Reset, Becomes, Calling, ResetCall
<1>3. UNCHANGED <<loading, queue, unloaded, bound, rt, history>>
  BY DEF Reset
<1> HIDE DEF r
<1>4. call'[t] = r /\ \A u \in Thread \ {t} : call'[u] = Idle
  BY <1>1, <1>2, BecomesIs
<1>5. CallOK(t)' /\ BindOK(t)'
  BY <1>2, <1>4 DEF CallOK, BindOK, Binds, Kernels, Resets, Early, Late
<1>6. \A u \in Thread \ {t} : (compiling = u => compiling' = u) /\ ~Resets(u)
  BY <1>1, CallTypes
<1>7. Idle.at = "idle" /\ compiling' \in Thread \cup {NoThread}
  BY <1>1 DEF Idle, TypeOK
<1> QED
  BY <1>1, <1>2, <1>3, <1>5, <1>6, <1>7, Moves

\* The linker or a setup callback raises.
LEMMA FailureKeeps ==
  ASSUME IInv, NEW t \in Thread, LinkFails(t) \/ SetupFails(t)
  PROVE  IInv'
<1>1. TypeOK /\ Calls /\ Done(t) /\ call[t].at \in {"link", "setup"}
  BY DEF IInv, LinkFails, SetupFails
<1>2. UNCHANGED <<loading, queue, unloaded, bound, rt, history>>
  BY DEF LinkFails, SetupFails
<1>3. /\ Becomes(t, Idle) /\ Idle \in Calling /\ Idle.at = "idle"
      /\ compiling' \in Thread \cup {NoThread}
      /\ \A u \in Thread \ {t} : compiling = u => compiling' = u
      /\ CallOK(t)' /\ BindOK(t)'
  BY <1>1, Returns
<1> QED
  BY <1>1, <1>2, <1>3, Moves

LEMMA LookUpFunctionKeeps ==
  ASSUME IInv, NEW t \in Thread, LookUpFunction(t)
  PROVE  IInv'
<1> DEFINE k == call[t].lib
           d == call[t].dev
           i == cufunc[k][d]
<1>1. /\ TypeOK /\ Calls /\ Stored /\ call[t].at = "function" /\ Kernels(t)
      /\ CallOK(t) /\ BindOK(t)
  BY DEF IInv, LookUpFunction, Kernels, Early, Calls
<1>2. k \in Lib /\ d \in Device /\ call[t].op \in {"bind", "launch"}
  BY <1>1, CallTypes DEF KernelCall
<1>3. UNCHANGED <<loading, queue, unloaded, bound, rt, compiling, history>>
  BY DEF LookUpFunction
<1>4. module' = module /\ Index' = Index
  BY <1>3 DEF loading, Index
<1>5. i \in Index \cup {0} /\ compiling' \in Thread \cup {NoThread}
  BY <1>1, <1>2, <1>3 DEF TypeOK
<1>6. \A u \in Thread \ {t} : (compiling = u => compiling' = u) /\ ~Resets(u)
  BY <1>1, <1>3, NobodyResets
<1>7. CASE i = 0
  <2> DEFINE r == On(t, "cubin", 0)
  <2>1. Goto(t, "cubin", 0)
    BY <1>7 DEF LookUpFunction
  <2>2. /\ Becomes(t, r) /\ r \in Calling /\ r.at = "cubin" /\ r.op = call[t].op
        /\ r.lib = k /\ r.dev = d
    BY <1>1, <2>1, GotoIs DEF Calling, Early
  <2> HIDE DEF r, k, d
  <2>3. call'[t] = r
    BY <1>1, <2>2, BecomesIs
  <2>4. CallOK(t)' /\ BindOK(t)'
    BY <1>1, <1>3, <1>4, <2>2, <2>3
    DEF CallOK, BindOK, Binds, Kernels, Resets, Early, Late, k, d
  <2> QED
    BY <1>1, <1>3, <1>5, <1>6, <1>7, <2>2, <2>4, Moves
<1>8. CASE i # 0
  <2> DEFINE r == On(t, "launch", i)
  <2>1. i \in Index /\ i \in Nat /\ module[i].lib = k
    BY <1>1, <1>2, <1>5, <1>8, ModuleFacts DEF Stored
  <2>2. call[t].op = "launch"
    BY <1>1, <1>2, <2>1 DEF BindOK, Binds, Early
  <2>3. Goto(t, "launch", i)
    BY <1>8, <2>2 DEF LookUpFunction, GotFunction
  <2>4. /\ Becomes(t, r) /\ r \in Calling /\ r.at = "launch" /\ r.op = "launch"
        /\ r.lib = k /\ r.dev = d /\ r.code = i
    <3>1. "launch" \in Early \cup Late
      BY DEF Late
    <3>2. /\ Becomes(t, r) /\ r \in KernelCall /\ r.at = "launch" /\ r.op = call[t].op
          /\ r.lib = k /\ r.dev = d /\ r.code = i
      <4> HIDE DEF i
      <4> QED
        BY <1>1, <2>1, <2>3, <3>1, GotoIs
    <3> QED
      BY <2>2, <3>2 DEF Calling
  <2> HIDE DEF r, k, d, i
  <2>5. call'[t] = r
    BY <1>1, <2>4, BecomesIs
  <2>6. CallOK(t)' /\ BindOK(t)'
    BY <1>1, <1>3, <1>4, <2>1, <2>2, <2>4, <2>5
    DEF CallOK, BindOK, Binds, Kernels, Resets, Early, Late, k, d
  <2> QED
    BY <1>1, <1>3, <1>5, <1>6, <2>4, <2>6, Moves
<1> QED
  BY <1>7, <1>8

LEMMA LookUpCubinKeeps ==
  ASSUME IInv, ConstantsAssumption, NEW t \in Thread, LookUpCubin(t)
  PROVE  IInv'
<1> DEFINE k == call[t].lib
           d == call[t].dev
           code == cubin[k][CcOf[d]]
           l == IF code # 0 THEN "load" ELSE "link"
           r == On(t, l, code)
<1>1. /\ TypeOK /\ Calls /\ call[t].at = "cubin" /\ Kernels(t)
      /\ CallOK(t) /\ BindOK(t)
  BY DEF IInv, LookUpCubin, Kernels, Early, Calls
<1>2. k \in Lib /\ d \in Device /\ CcOf[d] \in Cc
  BY <1>1, CallTypes DEF KernelCall, ConstantsAssumption
<1>3. UNCHANGED <<loading, queue, unloaded, bound, rt, compiling, history>>
  BY DEF LookUpCubin
<1>4. module' = module /\ Index' = Index /\ Handle' = Handle
  BY <1>3 DEF loading, Index, Handle
<1>5. code \in Handle \cup {0} /\ code \in Nat /\ compiling' \in Thread \cup {NoThread}
  <2>1. code \in Handle \cup {0} /\ compiling' \in Thread \cup {NoThread}
    BY <1>1, <1>2, <1>3 DEF TypeOK
  <2> QED
    BY <1>1, <2>1 DEF TypeOK, Handle
<1>6. \A u \in Thread \ {t} : (compiling = u => compiling' = u) /\ ~Resets(u)
  BY <1>1, <1>3, NobodyResets
<1>7. /\ Becomes(t, r) /\ r \in Calling /\ r.at = l /\ r.op = call[t].op
      /\ r.lib = k /\ r.dev = d /\ r.code = code
  <2>1. Goto(t, l, code)
    BY DEF LookUpCubin
  <2>2. l \in Early
    BY DEF Early
  <2> HIDE DEF l, code
  <2>3. l \in Early \cup Late
    BY <2>2
  <2> QED
    BY <1>1, <1>5, <2>1, <2>3, GotoIs DEF Calling
<1>8. l \in {"link", "load"} /\ (l = "load" => code # 0)
  OBVIOUS
<1> HIDE DEF r, k, d, l, code
<1>9. call'[t] = r
  BY <1>1, <1>7, BecomesIs
<1>10. CallOK(t)'
  BY <1>1, <1>3, <1>4, <1>5, <1>7, <1>8, <1>9 DEF CallOK, Kernels, Resets, Early, Late, k
<1>11. BindOK(t)'
  BY <1>1, <1>3, <1>4, <1>7, <1>8, <1>9 DEF BindOK, Binds, Kernels, Early, Late, k
<1>12. r.at = "load" => /\ r.lib \in Lib /\ r.code # 0
                        /\ \E c \in Cc : cubin[r.lib][c] = r.code
  BY <1>2, <1>7, <1>8 DEF code
<1>13. r.lib = call[t].lib /\ r.dev = call[t].dev
  BY <1>7 DEF k, d
<1> QED
  BY <1>1, <1>3, <1>5, <1>6, <1>7, <1>10, <1>11, <1>12, <1>13, Moves

-----------------------------------------------------------------------------
(* Linking, loading and storing a function.                                *)

LEMMA MoreAllowed ==
  ASSUME NEW S, NEW T, S \subseteq T, NEW q \in Seq(S)
  PROVE  q \in Seq(T)
<1>1. Len(q) \in Nat /\ q \in [1..Len(q) -> S]
  OBVIOUS
<1>2. q \in [1..Len(q) -> T]
  BY <1>1
<1> QED
  BY <1>1, <1>2

\* A handle more: what was well typed still is.
LEMMA MoreHandles ==
  ASSUME TypeOK, handles' = handles + 1
  PROVE  /\ Handle' = Handle \cup {handles + 1} /\ handles + 1 \notin Handle
         /\ handles' \in Nat
         /\ module \in Seq(Module')
         /\ cubin \in [Lib -> [Cc -> Handle' \cup {0}]]
         /\ queue \in [Device -> Seq(Handle')]
         /\ unloaded \subseteq Handle'
<1>1. /\ Handle' = Handle \cup {handles + 1} /\ handles + 1 \notin Handle
      /\ handles' \in Nat
  BY DEF TypeOK, Handle
<1>2. Module \subseteq Module'
  BY <1>1 DEF Module
<1>3. module \in Seq(Module')
  BY <1>2, MoreAllowed DEF TypeOK
<1>4. cubin \in [Lib -> [Cc -> Handle' \cup {0}]]
  <2>1. [Cc -> Handle \cup {0}] \subseteq [Cc -> Handle' \cup {0}]
    BY <1>1
  <2>2. cubin \in [Lib -> [Cc -> Handle \cup {0}]]
    BY DEF TypeOK
  <2> HIDE DEF Handle
  <2> QED
    BY <2>1, <2>2
<1>5. queue \in [Device -> Seq(Handle')]
  <2>1. Seq(Handle) \subseteq Seq(Handle')
    BY <1>1, MoreAllowed
  <2> QED
    BY <2>1 DEF TypeOK
<1>6. unloaded \subseteq Handle'
  BY <1>1 DEF TypeOK
<1> QED
  BY <1>1, <1>3, <1>4, <1>5, <1>6

\* A module more.
LEMMA Appends ==
  ASSUME TypeOK, NEW m \in Module', module \in Seq(Module'), module' = Append(module, m)
  PROVE  /\ module' \in Seq(Module')
         /\ Index' = Index \cup {Len(module) + 1}
         /\ Len(module) + 1 \notin Index /\ Len(module) + 1 \in Nat
         /\ module'[Len(module) + 1] = m
         /\ \A i \in Index : module'[i] = module[i]
<1>1. Len(module) \in Nat /\ Len(module') = Len(module) + 1
  OBVIOUS
<1> QED
  BY <1>1 DEF Index

\* A call that goes on, or returns, as far as the other calls can tell.
LEMMA OthersSee ==
  ASSUME TypeOK, Calls, NEW t \in Thread, Kernels(t), NEW r \in Calling, Becomes(t, r),
         Grown, bound' \in {bound, bound \cup {call[t].lib}},
         \A i \in Index' \ Index : module'[i].lib \in {call[t].lib, Memsys},
         ConstantsAssumption,
         \A u \in Thread \ {t} : compiling = u => compiling' = u,
         CallOK(t)' /\ BindOK(t)'
  PROVE  Calls'
<1>1. ASSUME NEW u \in Thread \ {t}
      PROVE  /\ ~Resets(u)
             /\ Binds(u) => /\ call[u].lib \notin bound'
                            /\ \A i \in Index' \ Index : module'[i].lib # call[u].lib
  <2>1. ~Resets(u)
    BY NobodyResets
  <2> SUFFICES ASSUME Binds(u)
               PROVE  /\ call[u].lib \notin bound'
                      /\ \A i \in Index' \ Index : module'[i].lib # call[u].lib
    BY <2>1
  <2>2. call[u].lib # call[t].lib
    BY AnotherKernel
  <2>3. call[u].lib \notin bound
    BY DEF Calls, BindOK
  <2>4. call[u].lib \in Lib
    BY CallTypes DEF Binds, KernelCall
  <2> QED
    BY <2>2, <2>3, <2>4 DEF ConstantsAssumption
<1>2. \A u \in Thread \ {t} : CallOK(u)' /\ BindOK(u)'
  BY <1>1, OthersKeep
<1> QED
  BY <1>2 DEF Calls

\* How a kernel's call stands before a step.
LEMMA KernelFacts ==
  ASSUME IInv, NEW t \in Thread, Kernels(t)
  PROVE  /\ TypeOK /\ Calls /\ BoundIsSetUp /\ Owned /\ Stored /\ Queued /\ RtsysKept
         /\ HomeIsSetUp /\ TornDownThenUnloaded /\ UnloadAssertion
         /\ CallOK(t) /\ BindOK(t) /\ call[t] \in KernelCall
         /\ call[t].lib \in Lib /\ call[t].dev \in Device
         /\ call[t].op \in {"bind", "launch"} /\ call[t].code \in Nat
<1>1. /\ TypeOK /\ Calls /\ BoundIsSetUp /\ Owned /\ Stored /\ Queued /\ RtsysKept
      /\ HomeIsSetUp /\ TornDownThenUnloaded /\ UnloadAssertion
      /\ CallOK(t) /\ BindOK(t)
  BY DEF IInv, Calls
<1>2. call[t] \in KernelCall
  BY <1>1, CallTypes
<1> QED
  BY <1>1, <1>2 DEF KernelCall

LEMMA LinkKeeps ==
  ASSUME IInv, ConstantsAssumption, NEW t \in Thread, Link(t)
  PROVE  IInv'
<1> DEFINE k == call[t].lib
           d == call[t].dev
           c == CcOf[d]
           h == handles + 1
           r == On(t, "load", h)
<1>1. call[t].at = "link" /\ Kernels(t)
  BY DEF Link, Kernels, Early
<1>2. /\ TypeOK /\ Calls /\ BoundIsSetUp /\ Owned /\ Stored /\ Queued /\ RtsysKept
      /\ HomeIsSetUp /\ TornDownThenUnloaded /\ UnloadAssertion
      /\ CallOK(t) /\ BindOK(t) /\ k \in Lib /\ d \in Device /\ c \in Cc
  BY <1>1, KernelFacts DEF ConstantsAssumption
<1>3. /\ UNCHANGED <<module, kept, cufunc, queue, unloaded, bound, rt, compiling>>
      /\ UNCHANGED <<launched, raced, asserted, cut>>
      /\ handles' = h /\ cubin' = [cubin EXCEPT ![k][c] = h]
  BY DEF Link, history
<1>4. /\ Handle' = Handle \cup {h} /\ h \notin Handle /\ handles' \in Nat /\ h \in Nat
      /\ module' \in Seq(Module')
      /\ cubin \in [Lib -> [Cc -> Handle' \cup {0}]]
      /\ queue' \in [Device -> Seq(Handle')]
      /\ unloaded' \subseteq Handle'
  <2>1. h \in Nat
    BY <1>2 DEF TypeOK
  <2> QED
    BY <1>2, <1>3, <2>1, MoreHandles
<1>5. /\ Becomes(t, r) /\ r \in Calling /\ r.at = "load" /\ r.op = call[t].op
      /\ r.lib = k /\ r.dev = d /\ r.code = h
  <2>1. Goto(t, "load", h)
    BY DEF Link
  <2> QED
    BY <1>1, <1>2, <1>4, <2>1, GotoIs DEF Calling, Early
<1> HIDE DEF r, k, d, c, h
<1>6. /\ call' \in [Thread -> Calling] /\ call'[t] = r
      /\ \A u \in Thread \ {t} : call'[u] = call[u]
  BY <1>2, <1>5, BecomesIs
<1>7. Index' = Index /\ Grown
  BY <1>3, <1>4 DEF Index, Grown
<1>8. cubin' \in [Lib -> [Cc -> Handle' \cup {0}]]
  BY <1>2, <1>3, <1>4
<1>9. TypeOK'
  <2>1. /\ kept' \in [Device -> SUBSET Index'] /\ cufunc' \in [Lib -> [Device -> Index' \cup {0}]]
        /\ bound' \subseteq Lib /\ rt' \in Index' \cup {0}
        /\ compiling' \in Thread \cup {NoThread} /\ launched' \subseteq Index'
        /\ raced' \subseteq Device /\ asserted' \subseteq Device /\ cut' \subseteq Device
    BY <1>2, <1>3, <1>7 DEF TypeOK
  <2> QED
    BY <1>4, <1>6, <1>8, <2>1 DEF TypeOK, Calling
<1>10. CallOK(t)' /\ BindOK(t)'
  <2>1. CallOK(t)'
    BY <1>1, <1>2, <1>3, <1>4, <1>5, <1>6 DEF CallOK, Kernels, Resets, Early, Late, k
  <2>2. BindOK(t)'
    BY <1>1, <1>2, <1>3, <1>5, <1>6, <1>7 DEF BindOK, Binds, Kernels, Early, Late, k
  <2> QED
    BY <2>1, <2>2
<1>11. Calls'
  BY <1>1, <1>2, <1>3, <1>5, <1>7, <1>10, OthersSee
<1>12. Owned'
  <2>1. PICK owner \in [Handle -> Libs] : OneLib(owner)
    BY <1>2 DEF Owned
  <2> DEFINE new == [x \in Handle' |-> IF x = h THEN k ELSE owner[x]]
  <2>2. new \in [Handle' -> Libs]
    BY <1>2, <1>4 DEF Libs
  <2>3. new[h] = k /\ \A x \in Handle : new[x] = owner[x]
    BY <1>4
  <2> HIDE DEF new
  <2>4. \A i \in Index' : new[module'[i].handle] = module'[i].lib
    BY <1>2, <1>3, <1>7, <2>1, <2>3, ModuleFacts DEF OneLib
  <2>5. ASSUME NEW j \in Lib, NEW e \in Cc, cubin'[j][e] # 0
        PROVE  new[cubin'[j][e]] = j
    <3>1. CASE j = k /\ e = c
      <4>1. cubin'[j][e] = h
        BY <1>2, <1>3, <3>1 DEF TypeOK
      <4> QED
        BY <2>3, <3>1, <4>1
    <3>2. CASE ~(j = k /\ e = c)
      <4>1. cubin'[j][e] = cubin[j][e] /\ cubin[j][e] \in Handle \cup {0}
        BY <1>2, <1>3, <3>2 DEF TypeOK
      <4> QED
        BY <2>1, <2>3, <2>5, <4>1 DEF OneLib
    <3> QED
      BY <3>1, <3>2
  <2>6. ASSUME NEW u \in Thread, call'[u].at = "load"
        PROVE  new[call'[u].code] = call'[u].lib
    <3>1. CASE u = t
      BY <1>5, <1>6, <2>3, <3>1
    <3>2. CASE u # t
      <4>1. call'[u] = call[u] /\ call[u].code \in Handle
        BY <1>2, <1>6, <2>6, <3>2 DEF Calls, CallOK
      <4> QED
        BY <2>1, <2>3, <2>6, <4>1 DEF OneLib
    <3> QED
      BY <3>1, <3>2
  <2> QED
    BY <2>2, <2>4, <2>5, <2>6 DEF Owned, OneLib
<1>13. Stored'
  <2>1. ASSUME NEW u \in Thread, call[u].at = "store" PROVE call'[u] = call[u]
    BY <1>1, <1>6, <2>1
  <2> QED
    BY <1>2, <1>3, <2>1 DEF Stored
<1>14. Queued'
  <2>1. ASSUME NEW j \in Lib, NEW e \in Device, Settled(j, e) PROVE Settled(j, e)'
    BY <1>1, <1>3, <1>5, <1>6, <2>1 DEF Settled, k, d
  <2>2. \A e \in Device : Keys(e)' = Keys(e)
    BY <1>3 DEF Keys
  <2> QED
    BY <1>2, <1>3, <1>7, <2>1, <2>2 DEF Queued, Waits, LetGo
<1>15. BoundIsSetUp' /\ HomeIsSetUp' /\ TornDownThenUnloaded' /\ UnloadAssertion'
  BY <1>2, <1>3, <1>7 DEF BoundIsSetUp, HomeIsSetUp, TornDownThenUnloaded, UnloadAssertion
<1>16. RtsysKept'
  BY <1>1, <1>2, <1>3, <1>5, RtsysStays
<1> QED
  BY <1>9, <1>11, <1>12, <1>13, <1>14, <1>15, <1>16 DEF IInv

\* A function that is stored was loaded from a module of its library.
LEMMA StoreFunctionKeeps ==
  ASSUME IInv, ConstantsAssumption, NEW t \in Thread, StoreFunction(t)
  PROVE  IInv'
<1> DEFINE k == call[t].lib
           d == call[t].dev
           i == call[t].code
           l == IF call[t].op = "bind" THEN "setup" ELSE "launch"
           r == On(t, l, i)
<1>1. call[t].at = "store" /\ Kernels(t)
  BY DEF StoreFunction, Kernels, Late
<1>2. /\ TypeOK /\ Calls /\ BoundIsSetUp /\ Owned /\ Stored /\ Queued /\ RtsysKept
      /\ HomeIsSetUp /\ TornDownThenUnloaded /\ UnloadAssertion
      /\ CallOK(t) /\ BindOK(t) /\ k \in Lib /\ d \in Device
      /\ call[t].op \in {"bind", "launch"} /\ i \in Nat
  BY <1>1, KernelFacts
<1>3. /\ UNCHANGED <<module, kept, handles, cubin, queue, unloaded, bound, rt, compiling>>
      /\ UNCHANGED <<launched, raced, asserted, cut>>
      /\ cufunc' = [cufunc EXCEPT ![k][d] = i]
  BY DEF StoreFunction, history
<1>4. i \in Index /\ i # 0 /\ module[i].lib = k
  BY <1>1, <1>2 DEF CallOK, Late, Index
<1>5. /\ Becomes(t, r) /\ r \in Calling /\ r.at = l /\ r.op = call[t].op
      /\ r.lib = k /\ r.dev = d /\ r.code = i
  <2>1. Goto(t, l, i)
    BY DEF StoreFunction, GotFunction
  <2>2. l \in Early \cup Late
    BY DEF Late
  <2> HIDE DEF l
  <2> QED
    BY <1>1, <1>2, <2>1, <2>2, GotoIs DEF Calling
<1>6. l \in {"setup", "launch"} /\ (l = "setup" <=> call[t].op = "bind")
  OBVIOUS
<1> HIDE DEF r, k, d, i, l
<1>7. /\ call' \in [Thread -> Calling] /\ call'[t] = r
      /\ \A u \in Thread \ {t} : call'[u] = call[u]
  BY <1>2, <1>5, BecomesIs
<1>8. Index' = Index /\ Handle' = Handle /\ Grown /\ Module' = Module
  BY <1>3, NotGrown DEF Module
<1>9. cufunc' \in [Lib -> [Device -> Index \cup {0}]]
  BY <1>2, <1>3, <1>4 DEF TypeOK
<1>10. /\ cufunc'[k][d] = i
       /\ \A j \in Lib, e \in Device : ~(j = k /\ e = d) => cufunc'[j][e] = cufunc[j][e]
  BY <1>2, <1>3 DEF TypeOK
<1>11. TypeOK'
  BY <1>2, <1>3, <1>7, <1>8, <1>9 DEF TypeOK, Calling
<1>12. CallOK(t)' /\ BindOK(t)'
  <2>1. CallOK(t)'
    BY <1>1, <1>2, <1>3, <1>4, <1>5, <1>6, <1>7, <1>8
    DEF CallOK, Kernels, Resets, Early, Late, k
  <2>2. BindOK(t)'
    BY <1>1, <1>2, <1>3, <1>5, <1>6, <1>7, <1>8 DEF BindOK, Binds, Kernels, Early, Late, k, i
  <2> QED
    BY <2>1, <2>2
<1>13. Calls'
  BY <1>1, <1>2, <1>3, <1>5, <1>8, <1>12, OthersSee
<1>14. Owned'
  <2>1. PICK owner \in [Handle -> Libs] : OneLib(owner)
    BY <1>2 DEF Owned
  <2>2. OneLib(owner)'
    BY <1>3, <1>5, <1>6, <1>7, <1>8, <2>1 DEF OneLib
  <2> QED
    BY <1>8, <2>1, <2>2 DEF Owned
<1>15. Stored'
  <2>1. ASSUME NEW j \in Lib, NEW e \in Device, cufunc'[j][e] # 0
        PROVE  module'[cufunc'[j][e]].lib = j
    BY <1>2, <1>3, <1>4, <1>10, <2>1 DEF Stored
  <2>2. ASSUME NEW e \in Device, NEW m \in kept'[e]
        PROVE  /\ module'[m].dev = e
               /\ module'[m].lib \in Lib =>
                     \/ cufunc'[module'[m].lib][e] # 0
                     \/ \E u \in Thread : /\ call'[u].at = "store" /\ call'[u].code = m
                                          /\ call'[u].dev = e
    <3>1. module'[m].dev = e
      BY <1>2, <1>3 DEF Stored
    <3> SUFFICES ASSUME module[m].lib \in Lib, cufunc'[module[m].lib][e] = 0
                 PROVE  \E u \in Thread : /\ call'[u].at = "store" /\ call'[u].code = m
                                          /\ call'[u].dev = e
      BY <1>3, <3>1
    <3>2. ~(module[m].lib = k /\ e = d) /\ cufunc[module[m].lib][e] = 0
      BY <1>4, <1>10
    <3>3. PICK u \in Thread : call[u].at = "store" /\ call[u].code = m /\ call[u].dev = e
      BY <1>2, <1>3, <3>2 DEF Stored
    <3>4. u # t
      BY <1>4, <3>2, <3>3 DEF d, i
    <3> QED
      BY <1>7, <3>3, <3>4
  <2> QED
    BY <2>1, <2>2 DEF Stored
<1>16. Queued'
  <2>1. ASSUME NEW j \in Lib, NEW e \in Device, Settled(j, e) PROVE Settled(j, e)'
    BY <1>4, <1>5, <1>6, <1>7, <1>10, <2>1 DEF Settled
  <2>2. \A e \in Device : Keys(e)' = Keys(e)
    BY <1>3 DEF Keys
  <2> QED
    BY <1>2, <1>3, <1>8, <2>1, <2>2 DEF Queued, Waits, LetGo
<1>17. BoundIsSetUp' /\ HomeIsSetUp' /\ TornDownThenUnloaded' /\ UnloadAssertion'
  BY <1>2, <1>3, <1>8 DEF BoundIsSetUp, HomeIsSetUp, TornDownThenUnloaded, UnloadAssertion
<1>18. RtsysKept'
  BY <1>1, <1>2, <1>3, <1>5, RtsysStays
<1> QED
  BY <1>11, <1>13, <1>14, <1>15, <1>16, <1>17, <1>18 DEF IInv

\* A handle that nobody keeps is loaded.
LEMMA LoadKeeps ==
  ASSUME IInv, ConstantsAssumption, NEW t \in Thread, Load(t), call[t].code \notin Keys(call[t].dev)
  PROVE  IInv'
<1> DEFINE k == call[t].lib
           d == call[t].dev
           h == call[t].code
           i == Len(module) + 1
           m == NewModule(k, d, h, call[t].op = "bind")
           r == On(t, "store", i)
<1>1. call[t].at = "load" /\ Kernels(t) /\ h \notin Keys(d)
  BY DEF Load, Kernels, Early
<1>2. /\ TypeOK /\ Calls /\ BoundIsSetUp /\ Owned /\ Stored /\ Queued /\ RtsysKept
      /\ HomeIsSetUp /\ TornDownThenUnloaded /\ UnloadAssertion
      /\ CallOK(t) /\ BindOK(t) /\ k \in Lib /\ d \in Device
      /\ call[t].op \in {"bind", "launch"} /\ h \in Handle
  BY <1>1, KernelFacts DEF CallOK
<1>3. /\ UNCHANGED <<handles, cubin, cufunc, queue, unloaded, bound, rt, compiling>>
      /\ UNCHANGED <<launched, raced, asserted, cut>>
      /\ module' = Append(module, m)
      /\ kept' = [kept EXCEPT ![d] = @ \cup {i}]
      /\ Goto(t, "store", i)
  BY <1>1 DEF Load
<1>4. /\ m.lib = k /\ m.dev = d /\ m.handle = h /\ m \in Module
      /\ m.home = (call[t].op = "bind")
  BY <1>2 DEF NewModule, Module, Libs
<1>5. Handle' = Handle /\ Module' = Module
  BY <1>3 DEF Handle, Module
<1>6. /\ module' \in Seq(Module') /\ Index' = Index \cup {i}
      /\ i \notin Index /\ i \in Nat /\ i # 0 /\ module'[i] = m
      /\ \A j \in Index : module'[j] = module[j]
  <2>1. module \in Seq(Module) /\ Len(module) \in Nat
    BY <1>2 DEF TypeOK
  <2> HIDE DEF m
  <2>2. /\ module' \in Seq(Module') /\ Index' = Index \cup {i}
        /\ i \notin Index /\ i \in Nat /\ module'[i] = m
        /\ \A j \in Index : module'[j] = module[j]
    BY <1>2, <1>3, <1>4, <1>5, <2>1, Appends
  <2> QED
    BY <2>1, <2>2
<1>7. /\ Becomes(t, r) /\ r \in Calling /\ r.at = "store" /\ r.op = call[t].op
      /\ r.lib = k /\ r.dev = d /\ r.code = i
  <2>1. Goto(t, "store", i) /\ "store" \in Early \cup Late /\ i \in Nat
    BY <1>3, <1>6 DEF Late
  <2> HIDE DEF h, i, m
  <2> QED
    BY <1>1, <1>2, <2>1, GotoIs DEF Calling
<1> HIDE DEF r, k, d, h, i, m
<1>8. /\ call' \in [Thread -> Calling] /\ call'[t] = r
      /\ \A u \in Thread \ {t} : call'[u] = call[u]
  BY <1>2, <1>7, BecomesIs
<1>9. Grown
  BY <1>5, <1>6 DEF Grown
<1>10. /\ kept' \in [Device -> SUBSET Index']
       /\ kept'[d] = kept[d] \cup {i} /\ \A e \in Device \ {d} : kept'[e] = kept[e]
  <2>1. kept \in [Device -> SUBSET Index]
    BY <1>2 DEF TypeOK
  <2> HIDE DEF Index
  <2> QED
    BY <1>2, <1>3, <1>6, <2>1
<1>11. \A e \in Device : \A j \in kept[e] : j \in Index
  BY <1>2 DEF TypeOK
<1>12. TypeOK'
  <2>1. cufunc \in [Lib -> [Device -> Index' \cup {0}]]
    <3>1. [Device -> Index \cup {0}] \subseteq [Device -> Index' \cup {0}]
      BY <1>6
    <3>2. cufunc \in [Lib -> [Device -> Index \cup {0}]]
      BY <1>2 DEF TypeOK
    <3> HIDE DEF Index
    <3> QED
      BY <3>1, <3>2
  <2>2. rt' \in Index' \cup {0} /\ launched' \subseteq Index'
    BY <1>2, <1>3, <1>6 DEF TypeOK
  <2> HIDE DEF Index, Handle, Module
  <2> QED
    BY <1>2, <1>3, <1>5, <1>6, <1>8, <1>10, <2>1, <2>2 DEF TypeOK, Calling
<1>13. CallOK(t)' /\ BindOK(t)'
  <2>1. CallOK(t)'
    BY <1>1, <1>2, <1>3, <1>4, <1>6, <1>7, <1>8 DEF CallOK, Kernels, Resets, Early, Late, k
  <2>2. BindOK(t)'
    <3>1. call[t].op = "bind" =>
             compiling = t /\ k \notin bound /\ \A j \in Index : module[j].lib # k
      BY <1>1, <1>2 DEF BindOK, Binds, Kernels, Load, Early, k
    <3>2. Binds(t)' => call[t].op = "bind"
      BY <1>7, <1>8 DEF Binds
    <3> QED
      BY <1>3, <1>6, <1>7, <1>8, <3>1, <3>2 DEF BindOK, Early
  <2> QED
    BY <2>1, <2>2
<1>14. Calls'
  <2>1. \A j \in Index' \ Index : module'[j].lib = call[t].lib
    BY <1>4, <1>6 DEF k
  <2> QED
    BY <1>1, <1>2, <1>3, <1>7, <1>9, <1>13, <2>1, OthersSee
<1>15. BoundIsSetUp'
  <2>1. m.home => k \notin bound
    BY <1>1, <1>2, <1>4 DEF BindOK, Binds, k
  <2> QED
    BY <1>2, <1>3, <1>4, <1>6, <2>1 DEF BoundIsSetUp
<1>16. Owned'
  <2>1. PICK owner \in [Handle -> Libs] : OneLib(owner)
    BY <1>2 DEF Owned
  <2>2. owner[h] = k
    BY <1>1, <2>1 DEF OneLib, h, k
  <2>3. \A j \in Index' : owner[module'[j].handle] = module'[j].lib
    BY <1>4, <1>6, <2>1, <2>2 DEF OneLib
  <2>4. OneLib(owner)'
    BY <1>3, <1>7, <1>8, <2>1, <2>3 DEF OneLib
  <2> QED
    BY <1>5, <2>1, <2>4 DEF Owned
<1>17. Stored'
  <2>1. ASSUME NEW j \in Lib, NEW e \in Device, cufunc'[j][e] # 0
        PROVE  module'[cufunc'[j][e]].lib = j
    <3>1. cufunc[j][e] \in Index /\ cufunc'[j][e] = cufunc[j][e]
      BY <1>2, <1>3, <2>1 DEF TypeOK
    <3>2. module[cufunc[j][e]].lib = j
      BY <1>2, <1>3, <2>1 DEF Stored
    <3> QED
      BY <1>6, <3>1, <3>2
  <2>2. ASSUME NEW e \in Device, NEW j \in kept'[e]
        PROVE  /\ module'[j].dev = e
               /\ module'[j].lib \in Lib =>
                     \/ cufunc'[module'[j].lib][e] # 0
                     \/ \E u \in Thread : /\ call'[u].at = "store" /\ call'[u].code = j
                                          /\ call'[u].dev = e
    <3>1. CASE j \in kept[e]
      <4>1. module'[j] = module[j]
        BY <1>6, <1>11, <3>1
      <4>2. \A u \in Thread : call[u].at = "store" => call'[u] = call[u]
        BY <1>1, <1>8
      <4> QED
        BY <1>2, <1>3, <3>1, <4>1, <4>2 DEF Stored
    <3>2. CASE j = i /\ e = d
      BY <1>4, <1>6, <1>7, <1>8, <3>2
    <3> QED
      BY <1>10, <3>1, <3>2
  <2> QED
    BY <2>1, <2>2 DEF Stored
<1>18. \A e \in Device : Keys(e)' = IF e = d THEN Keys(e) \cup {h} ELSE Keys(e)
  <2>1. \A e \in Device : \A j \in kept[e] : module'[j] = module[j]
    BY <1>6, <1>11
  <2>2. {module'[j].handle : j \in kept'[d]} = {module'[j].handle : j \in kept[d]} \cup {h}
    BY <1>4, <1>6, <1>10
  <2>3. ASSUME NEW e \in Device, e = d PROVE Keys(e)' = Keys(e) \cup {h}
    BY <1>2, <2>1, <2>2, <2>3 DEF Keys
  <2>4. ASSUME NEW e \in Device, e # d PROVE Keys(e)' = Keys(e)
    BY <1>10, <2>1, <2>4 DEF Keys
  <2> QED
    BY <2>3, <2>4
<1>19. d \notin raced => h \notin ToSet(queue[d])
  <2> SUFFICES ASSUME d \notin raced, h \in ToSet(queue[d]) PROVE FALSE
    OBVIOUS
  <2>1. PICK j \in Index : module[j].handle = h /\ (module[j].lib \in Lib => Settled(module[j].lib, d))
    BY <1>2 DEF Queued, Waits, LetGo
  <2>2. PICK owner \in [Handle -> Libs] : OneLib(owner)
    BY <1>2 DEF Owned
  <2>3. module[j].lib = k
    BY <1>1, <2>1, <2>2 DEF OneLib, h, k
  <2> QED
    BY <1>1, <1>2, <2>1, <2>3 DEF Settled, k, d
<1>20. Queued'
  <2>1. ASSUME NEW j \in Lib, NEW e \in Device, Settled(j, e) PROVE Settled(j, e)'
    BY <1>3, <1>7, <1>8, <2>1 DEF Settled
  <2> SUFFICES ASSUME NEW e \in Device, NEW x \in ToSet(queue[e]) PROVE Waits(e, x)'
    BY <1>3 DEF Queued
  <2>2. Waits(e, x)
    BY <1>2 DEF Queued
  <2>3. \E j \in Index' : module'[j].handle = x /\ module'[j].torn
    BY <1>6, <2>2 DEF Waits
  <2>4. ASSUME e \notin raced PROVE x \notin Keys(e)'
    <3>1. x \notin Keys(e) /\ (e = d => x # h)
      BY <1>19, <2>2, <2>4 DEF Waits
    <3> QED
      BY <1>18, <3>1
  <2>5. ASSUME e \notin raced PROVE LetGo(e, x)'
    <3>1. PICK j \in Index : /\ module[j].handle = x
                             /\ module[j].lib \in Lib => Settled(module[j].lib, e)
      BY <2>2, <2>5 DEF Waits, LetGo
    <3>2. j \in Index' /\ module'[j] = module[j]
      BY <1>6
    <3>3. (module[j].lib \in Lib => Settled(module[j].lib, e))'
      BY <2>1, <3>1, <3>2 DEF Settled
    <3> QED
      BY <3>1, <3>2, <3>3 DEF LetGo
  <2> QED
    BY <1>3, <2>3, <2>4, <2>5 DEF Waits
<1>21. HomeIsSetUp'
  <2>1. launched' \subseteq Index
    BY <1>2, <1>3 DEF TypeOK
  <2> QED
    BY <1>2, <1>3, <1>6, <2>1 DEF HomeIsSetUp
<1>22. TornDownThenUnloaded'
  <2>1. DOMAIN module = Index /\ DOMAIN module' = Index'
    BY <1>6 DEF Index
  <2>2. \A j \in Index : module[j].dev \in Device
    BY <1>2, ModuleFacts
  <2>3. \A x \in unloaded' : \E j \in DOMAIN module' : module'[j].handle = x /\ module'[j].torn
    BY <1>2, <1>3, <1>6, <2>1 DEF TornDownThenUnloaded
  <2>4. ASSUME NEW j \in Index'
        PROVE  \/ j \in kept'[module'[j].dev]
               \/ module'[j].handle \in unloaded' \cup ToSet(queue'[module'[j].dev])
               \/ module'[j].dev \in asserted'
    BY <1>2, <1>3, <1>4, <1>6, <1>10, <2>1, <2>2 DEF TornDownThenUnloaded
  <2> QED
    BY <2>1, <2>3, <2>4 DEF TornDownThenUnloaded
<1>23. UnloadAssertion'
  BY <1>2, <1>3 DEF UnloadAssertion
<1>24. RtsysKept'
  <2>1. ASSUME rt # 0 PROVE module'[rt].dev = module[rt].dev
    <3>1. rt \in Index
      BY <1>2, <2>1 DEF TypeOK
    <3> QED
      BY <1>6, <3>1
  <2>2. ASSUME rt # 0, rt \in kept[module[rt].dev] PROVE rt \in kept'[module[rt].dev]
    <3>1. module[rt].dev \in Device
      BY <1>2, <2>2, ModuleFacts DEF TypeOK
    <3> QED
      BY <1>10, <2>2, <3>1
  <2>3. \A u \in Thread : call[u].at = "flush" => call'[u] = call[u]
    BY <1>1, <1>8
  <2> QED
    BY <1>2, <1>3, <2>1, <2>2, <2>3 DEF RtsysKept
<1> QED
  BY <1>12, <1>14, <1>15, <1>16, <1>17, <1>20, <1>21, <1>22, <1>23, <1>24 DEF IInv

\* Another thread was first: the new module is torn down and its handle queued.
LEMMA RacedLoadKeeps ==
  ASSUME IInv, ConstantsAssumption, NEW t \in Thread, Load(t), call[t].code \in Keys(call[t].dev)
  PROVE  IInv'
<1> DEFINE k == call[t].lib
           d == call[t].dev
           h == call[t].code
           i == Len(module) + 1
           m == [NewModule(k, d, h, call[t].op = "bind") EXCEPT !.torn = TRUE]
<1>1. call[t].at = "load" /\ Kernels(t)
  BY DEF Load, Kernels, Early
<1>2. /\ TypeOK /\ Calls /\ BoundIsSetUp /\ Owned /\ Stored /\ Queued /\ RtsysKept
      /\ HomeIsSetUp /\ TornDownThenUnloaded /\ UnloadAssertion
      /\ CallOK(t) /\ BindOK(t) /\ k \in Lib /\ d \in Device
      /\ call[t].op \in {"bind", "launch"} /\ h \in Handle
  BY <1>1, KernelFacts DEF CallOK
<1>3. /\ UNCHANGED <<kept, handles, cubin, cufunc, unloaded, bound, rt>>
      /\ UNCHANGED <<launched, asserted, cut>>
      /\ module' = Append(module, m)
      /\ queue' = [queue EXCEPT ![d] = Append(@, h)]
      /\ raced' = raced \cup {d}
      /\ Done(t)
  BY <1>1 DEF Load
<1>4. /\ m.lib = k /\ m.dev = d /\ m.handle = h /\ m.torn /\ m \in Module
      /\ m.home = (call[t].op = "bind")
  BY <1>2 DEF NewModule, Module, Libs
<1>5. Handle' = Handle /\ Module' = Module
  BY <1>3 DEF Handle, Module
<1>6. /\ module' \in Seq(Module') /\ Index' = Index \cup {i}
      /\ i \notin Index /\ module'[i] = m
      /\ \A j \in Index : module'[j] = module[j]
  <2>1. module \in Seq(Module)
    BY <1>2 DEF TypeOK
  <2> HIDE DEF m
  <2> QED
    BY <1>2, <1>3, <1>4, <1>5, <2>1, Appends
<1>7. /\ Becomes(t, Idle) /\ Idle \in Calling /\ Idle.at = "idle"
      /\ compiling' \in Thread \cup {NoThread}
      /\ \A u \in Thread \ {t} : compiling = u => compiling' = u
      /\ CallOK(t)' /\ BindOK(t)'
  BY <1>2, <1>3, Returns
<1> HIDE DEF k, d, h, i, m
<1>8. /\ call' \in [Thread -> Calling] /\ call'[t] = Idle
      /\ \A u \in Thread \ {t} : call'[u] = call[u]
  BY <1>2, <1>7, BecomesIs
<1>9. Grown
  BY <1>5, <1>6 DEF Grown
<1>10. /\ queue' \in [Device -> Seq(Handle)]
       /\ ToSet(queue'[d]) = ToSet(queue[d]) \cup {h}
       /\ \A e \in Device \ {d} : queue'[e] = queue[e]
  <2>1. queue \in [Device -> Seq(Handle)]
    BY <1>2 DEF TypeOK
  <2> HIDE DEF Handle
  <2>2. queue'[d] = Append(queue[d], h) /\ queue[d] \in Seq(Handle)
    BY <1>2, <1>3, <2>1
  <2>3. queue'[d] \in Seq(Handle) /\ ToSet(queue'[d]) = ToSet(queue[d]) \cup {h}
    BY <1>2, <2>2, SetOfSequence
  <2> QED
    BY <1>3, <2>1, <2>2, <2>3
<1>11. \A e \in Device : \A j \in kept[e] : j \in Index
  BY <1>2 DEF TypeOK
<1>12. TypeOK'
  <2>1. cufunc \in [Lib -> [Device -> Index' \cup {0}]]
    <3>1. [Device -> Index \cup {0}] \subseteq [Device -> Index' \cup {0}]
      BY <1>6
    <3>2. cufunc \in [Lib -> [Device -> Index \cup {0}]]
      BY <1>2 DEF TypeOK
    <3> HIDE DEF Index
    <3> QED
      BY <3>1, <3>2
  <2>2. rt' \in Index' \cup {0} /\ launched' \subseteq Index'
    BY <1>2, <1>3, <1>6 DEF TypeOK
  <2>3. kept' \in [Device -> SUBSET Index']
    <3>1. kept \in [Device -> SUBSET Index]
      BY <1>2 DEF TypeOK
    <3> HIDE DEF Index
    <3> QED
      BY <1>3, <1>6, <3>1
  <2> HIDE DEF Index, Handle, Module
  <2> QED
    BY <1>2, <1>3, <1>5, <1>6, <1>7, <1>8, <1>10, <2>1, <2>2, <2>3 DEF TypeOK, Calling
<1>13. Calls'
  <2>1. \A j \in Index' \ Index : module'[j].lib = call[t].lib
    BY <1>4, <1>6 DEF k
  <2> QED
    BY <1>1, <1>2, <1>3, <1>7, <1>9, <2>1, OthersSee
<1>14. BoundIsSetUp'
  <2>1. m.home => k \notin bound
    BY <1>1, <1>2, <1>4 DEF BindOK, Binds, k
  <2> QED
    BY <1>2, <1>3, <1>4, <1>6, <2>1 DEF BoundIsSetUp
<1>15. Owned'
  <2>1. PICK owner \in [Handle -> Libs] : OneLib(owner)
    BY <1>2 DEF Owned
  <2>2. owner[h] = k
    BY <1>1, <2>1 DEF OneLib, h, k
  <2>3. \A j \in Index' : owner[module'[j].handle] = module'[j].lib
    BY <1>4, <1>6, <2>1, <2>2 DEF OneLib
  <2>4. OneLib(owner)'
    BY <1>3, <1>7, <1>8, <2>1, <2>3 DEF OneLib
  <2> QED
    BY <1>5, <2>1, <2>4 DEF Owned
<1>16. Stored'
  <2>1. ASSUME NEW j \in Lib, NEW e \in Device, cufunc'[j][e] # 0
        PROVE  module'[cufunc'[j][e]].lib = j
    <3>1. cufunc[j][e] \in Index /\ cufunc'[j][e] = cufunc[j][e]
      BY <1>2, <1>3, <2>1 DEF TypeOK
    <3>2. module[cufunc[j][e]].lib = j
      BY <1>2, <1>3, <2>1 DEF Stored
    <3> QED
      BY <1>6, <3>1, <3>2
  <2>2. ASSUME NEW e \in Device, NEW j \in kept'[e]
        PROVE  /\ module'[j].dev = e
               /\ module'[j].lib \in Lib =>
                     \/ cufunc'[module'[j].lib][e] # 0
                     \/ \E u \in Thread : /\ call'[u].at = "store" /\ call'[u].code = j
                                          /\ call'[u].dev = e
    <3>1. module'[j] = module[j] /\ j \in kept[e]
      BY <1>3, <1>6, <1>11
    <3>2. \A u \in Thread : call[u].at = "store" => call'[u] = call[u]
      BY <1>1, <1>8
    <3> QED
      BY <1>2, <1>3, <3>1, <3>2 DEF Stored
  <2> QED
    BY <2>1, <2>2 DEF Stored
<1>17. \A e \in Device : Keys(e)' = Keys(e)
  BY <1>3, <1>6, <1>11 DEF Keys
<1>18. Queued'
  <2>1. ASSUME NEW j \in Lib, NEW e \in Device, Settled(j, e) PROVE Settled(j, e)'
    BY <1>3, <1>7, <1>8, <2>1 DEF Settled
  <2> SUFFICES ASSUME NEW e \in Device, NEW x \in ToSet(queue'[e]) PROVE Waits(e, x)'
    BY DEF Queued
  <2>2. CASE x \in ToSet(queue[e])
    <3>1. Waits(e, x)
      BY <1>2, <2>2 DEF Queued
    <3>2. \E j \in Index' : module'[j].handle = x /\ module'[j].torn
      BY <1>6, <3>1 DEF Waits
    <3>3. ASSUME e \notin raced PROVE x \notin Keys(e)'
      BY <1>17, <3>1, <3>3 DEF Waits
    <3>4. ASSUME e \notin raced PROVE LetGo(e, x)'
      <4>1. PICK j \in Index : /\ module[j].handle = x
                               /\ module[j].lib \in Lib => Settled(module[j].lib, e)
        BY <3>1, <3>4 DEF Waits, LetGo
      <4>2. j \in Index' /\ module'[j] = module[j]
        BY <1>6
      <4>3. (module[j].lib \in Lib => Settled(module[j].lib, e))'
        BY <2>1, <4>1, <4>2 DEF Settled
      <4> QED
        BY <4>1, <4>2, <4>3 DEF LetGo
    <3> QED
      BY <1>3, <3>2, <3>3, <3>4 DEF Waits
  <2>3. CASE x = h /\ e = d
    BY <1>3, <1>4, <1>6, <2>3 DEF Waits
  <2> QED
    BY <1>10, <2>2, <2>3
<1>19. HomeIsSetUp'
  <2>1. launched' \subseteq Index
    BY <1>2, <1>3 DEF TypeOK
  <2> QED
    BY <1>2, <1>3, <1>6, <2>1 DEF HomeIsSetUp
<1>20. TornDownThenUnloaded'
  <2>1. DOMAIN module = Index /\ DOMAIN module' = Index'
    BY <1>6 DEF Index
  <2>2. \A j \in Index : module[j].dev \in Device
    BY <1>2, ModuleFacts
  <2>3. \A x \in unloaded' : \E j \in DOMAIN module' : module'[j].handle = x /\ module'[j].torn
    BY <1>2, <1>3, <1>6, <2>1 DEF TornDownThenUnloaded
  <2>4. ASSUME NEW j \in Index'
        PROVE  \/ j \in kept'[module'[j].dev]
               \/ module'[j].handle \in unloaded' \cup ToSet(queue'[module'[j].dev])
               \/ module'[j].dev \in asserted'
    BY <1>2, <1>3, <1>4, <1>6, <1>10, <2>1, <2>2 DEF TornDownThenUnloaded
  <2> QED
    BY <2>1, <2>3, <2>4 DEF TornDownThenUnloaded
<1>21. UnloadAssertion'
  BY <1>2, <1>3 DEF UnloadAssertion
<1>22. RtsysKept'
  <2>1. ASSUME rt # 0 PROVE module'[rt] = module[rt]
    <3>1. rt \in Index
      BY <1>2, <2>1 DEF TypeOK
    <3> QED
      BY <1>6, <3>1
  <2>2. \A u \in Thread : call[u].at = "flush" => call'[u] = call[u]
    BY <1>1, <1>8
  <2> QED
    BY <1>2, <1>3, <2>1, <2>2 DEF RtsysKept
<1> QED
  BY <1>12, <1>13, <1>14, <1>15, <1>16, <1>18, <1>19, <1>20, <1>21, <1>22 DEF IInv

-----------------------------------------------------------------------------
(* Setting up, rtsys, and the ends of a call.                              *)

\* A handle goes on waiting, whatever becomes of its modules.
LEMMA GoesOnWaiting ==
  ASSUME NEW d \in Device, NEW h, Waits(d, h), Grown, raced \subseteq raced',
         d \notin raced' => h \notin Keys(d)',
         \A k \in Lib : Settled(k, d) => Settled(k, d)'
  PROVE  Waits(d, h)'
<1>1. \E j \in Index' : module'[j].handle = h /\ module'[j].torn
  BY DEF Waits, Grown
<1>2. ASSUME d \notin raced' PROVE LetGo(d, h)'
  <2>1. PICK j \in Index : /\ module[j].handle = h
                           /\ module[j].lib \in Lib => Settled(module[j].lib, d)
    BY <1>2 DEF Waits, LetGo
  <2>2. j \in Index' /\ module'[j].handle = h /\ module'[j].lib = module[j].lib
    BY <2>1 DEF Grown
  <2>3. (module[j].lib \in Lib => Settled(module[j].lib, d))'
    BY <2>1, <2>2 DEF Settled
  <2> QED
    BY <2>2, <2>3 DEF LetGo
<1> QED
  BY <1>1, <1>2 DEF Waits

LEMMA SetupKeeps ==
  ASSUME IInv, ConstantsAssumption, NEW t \in Thread, Setup(t)
  PROVE  IInv'
<1> DEFINE k == call[t].lib
           d == call[t].dev
           i == call[t].code
           r == On(t, "nrt", i)
<1>1. call[t].at = "setup" /\ Kernels(t)
  BY DEF Setup, Kernels, Late
<1>2. /\ TypeOK /\ Calls /\ BoundIsSetUp /\ Owned /\ Stored /\ Queued /\ RtsysKept
      /\ HomeIsSetUp /\ TornDownThenUnloaded /\ UnloadAssertion
      /\ CallOK(t) /\ BindOK(t) /\ k \in Lib /\ d \in Device
      /\ call[t].op \in {"bind", "launch"} /\ i \in Nat
  BY <1>1, KernelFacts
<1>3. /\ UNCHANGED <<kept, handles, cubin, cufunc, queue, unloaded, bound, rt, compiling>>
      /\ UNCHANGED <<launched, raced, asserted, cut>>
      /\ module' = [module EXCEPT ![i].initialized = TRUE]
      /\ Goto(t, "nrt", i)
  BY DEF Setup, history
<1>4. i \in Index /\ module[i].lib = k /\ call[t].op = "bind"
  BY <1>1, <1>2 DEF CallOK, Late
<1>5. Handle' = Handle /\ Module' = Module
  BY <1>3 DEF Handle, Module
<1>6. /\ module' \in Seq(Module) /\ Index' = Index
      /\ \A j \in Index : /\ module'[j].lib = module[j].lib
                          /\ module'[j].dev = module[j].dev
                          /\ module'[j].handle = module[j].handle
                          /\ module'[j].home = module[j].home
                          /\ module'[j].torn = module[j].torn
                          /\ module'[j].initialized = (module[j].initialized \/ j = i)
  <2> HIDE DEF r, k, d, i
  <2>1. module \in Seq(Module) /\ DOMAIN module = Index /\ \A j \in Index : module[j] \in Module
    BY <1>2, ModuleFacts DEF TypeOK
  <2> DEFINE m(j) == IF j = i THEN [module[j] EXCEPT !.initialized = TRUE] ELSE module[j]
  <2>2. ASSUME NEW j \in Index
        PROVE  /\ m(j) \in Module
               /\ m(j).lib = module[j].lib /\ m(j).dev = module[j].dev
               /\ m(j).handle = module[j].handle /\ m(j).home = module[j].home
               /\ m(j).torn = module[j].torn
               /\ m(j).initialized = (module[j].initialized \/ j = i)
    <3>1. module[j] \in Module
      BY <2>1
    <3>2. CASE j = i
      BY <3>1, <3>2 DEF Module
    <3>3. CASE j # i
      BY <3>1, <3>3 DEF Module
    <3> QED
      BY <3>2, <3>3
  <2>3. module' = [j \in Index |-> m(j)]
    BY <1>3, <2>1
  <2> HIDE DEF m
  <2>4. module' \in Seq(Module) /\ Len(module') = Len(module)
    <3>1. Len(module) \in Nat /\ Index = 1..Len(module)
      BY <2>1 DEF Index
    <3> HIDE DEF Index, Module
    <3>2. module' \in [1..Len(module) -> Module]
      BY <2>2, <2>3, <3>1
    <3> QED
      BY <3>1, <3>2
  <2>5. Index' = Index
    BY <2>4 DEF Index
  <2>6. \A j \in Index : module'[j] = m(j)
    BY <2>3
  <2> QED
    BY <2>2, <2>4, <2>5, <2>6
<1>7. /\ Becomes(t, r) /\ r \in Calling /\ r.at = "nrt" /\ r.op = call[t].op
      /\ r.lib = k /\ r.dev = d /\ r.code = i
  BY <1>1, <1>2, <1>3, GotoIs DEF Calling, Late
<1> HIDE DEF r, k, d, i
<1>8. /\ call' \in [Thread -> Calling] /\ call'[t] = r
      /\ \A u \in Thread \ {t} : call'[u] = call[u]
  BY <1>2, <1>7, BecomesIs
<1>9. Grown
  BY <1>5, <1>6 DEF Grown
<1>10. TypeOK'
  <2> HIDE DEF Index, Handle, Module
  <2> QED
    BY <1>2, <1>3, <1>5, <1>6, <1>8 DEF TypeOK, Calling
<1>11. CallOK(t)' /\ BindOK(t)'
  <2>1. CallOK(t)'
    BY <1>1, <1>2, <1>3, <1>4, <1>6, <1>7, <1>8 DEF CallOK, Kernels, Resets, Early, Late
  <2>2. BindOK(t)'
    BY <1>1, <1>2, <1>3, <1>4, <1>6, <1>7, <1>8
    DEF BindOK, Binds, Kernels, Early, Late, k, i
  <2> QED
    BY <2>1, <2>2
<1>12. Calls'
  BY <1>1, <1>2, <1>3, <1>6, <1>7, <1>9, <1>11, OthersSee
<1>13. BoundIsSetUp'
  BY <1>2, <1>3, <1>6 DEF BoundIsSetUp
<1>14. Owned'
  <2>1. PICK owner \in [Handle -> Libs] : OneLib(owner)
    BY <1>2 DEF Owned
  <2>2. OneLib(owner)'
    BY <1>3, <1>6, <1>7, <1>8, <2>1 DEF OneLib
  <2> QED
    BY <1>5, <2>1, <2>2 DEF Owned
<1>15. \A e \in Device : \A j \in kept[e] : j \in Index
  BY <1>2 DEF TypeOK
<1>16. Stored'
  <2>1. ASSUME NEW j \in Lib, NEW e \in Device, cufunc'[j][e] # 0
        PROVE  module'[cufunc'[j][e]].lib = j
    <3>1. cufunc[j][e] \in Index /\ cufunc'[j][e] = cufunc[j][e]
      BY <1>2, <1>3, <2>1 DEF TypeOK
    <3>2. module[cufunc[j][e]].lib = j
      BY <1>2, <1>3, <2>1 DEF Stored
    <3> QED
      BY <1>6, <3>1, <3>2
  <2>2. \A u \in Thread : call[u].at = "store" => call'[u] = call[u]
    BY <1>1, <1>8
  <2>3. ASSUME NEW e \in Device, NEW j \in kept'[e]
        PROVE  /\ module'[j].dev = e
               /\ module'[j].lib \in Lib =>
                     \/ cufunc'[module'[j].lib][e] # 0
                     \/ \E u \in Thread : /\ call'[u].at = "store" /\ call'[u].code = j
                                          /\ call'[u].dev = e
    <3>1. /\ j \in kept[e] /\ module'[j].dev = module[j].dev
          /\ module'[j].lib = module[j].lib
      BY <1>3, <1>6, <1>15
    <3>2. /\ module[j].dev = e
          /\ module[j].lib \in Lib =>
                \/ cufunc[module[j].lib][e] # 0
                \/ \E u \in Thread : call[u].at = "store" /\ call[u].code = j /\ call[u].dev = e
      BY <1>2, <3>1 DEF Stored
    <3> QED
      BY <1>3, <2>2, <3>1, <3>2
  <2> QED
    BY <2>1, <2>3 DEF Stored
<1>17. Queued'
  <2>1. \A j \in Lib, e \in Device : Settled(j, e) => Settled(j, e)'
    BY <1>3, <1>7, <1>8 DEF Settled
  <2>2. \A e \in Device : Keys(e)' = Keys(e)
    BY <1>3, <1>6, <1>15 DEF Keys
  <2> SUFFICES ASSUME NEW e \in Device, NEW x \in ToSet(queue[e]) PROVE Waits(e, x)'
    BY <1>3 DEF Queued
  <2>3. Waits(e, x)
    BY <1>2 DEF Queued
  <2>4. e \notin raced' => x \notin Keys(e)'
    BY <1>3, <2>2, <2>3 DEF Waits
  <2> QED
    BY <1>3, <1>9, <2>1, <2>3, <2>4, GoesOnWaiting
<1>18. HomeIsSetUp'
  <2>1. launched \subseteq Index
    BY <1>2 DEF TypeOK
  <2> QED
    BY <1>2, <1>3, <1>6, <2>1 DEF HomeIsSetUp
<1>19. TornDownThenUnloaded'
  <2>1. DOMAIN module = Index /\ DOMAIN module' = Index
    BY <1>2, <1>6, ModuleFacts DEF Index
  <2> QED
    BY <1>2, <1>3, <1>6, <2>1 DEF TornDownThenUnloaded
<1>20. UnloadAssertion'
  BY <1>2, <1>3 DEF UnloadAssertion
<1>21. RtsysKept'
  <2>1. rt \in Index \cup {0}
    BY <1>2 DEF TypeOK
  <2>2. \A u \in Thread : call[u].at = "flush" => call'[u] = call[u]
    BY <1>1, <1>8
  <2>3. ASSUME rt \in Index PROVE module'[rt].dev = module[rt].dev
    BY <1>6, <2>3
  <2>4. rt # 0 => \/ rt \in kept[module[rt].dev] \/ module[rt].dev \in cut
                  \/ \E u \in Thread : call[u].at = "flush" /\ call[u].dev = module[rt].dev
    BY <1>2 DEF RtsysKept
  <2> QED
    BY <1>3, <2>1, <2>2, <2>3, <2>4 DEF RtsysKept
<1> QED
  BY <1>10, <1>12, <1>13, <1>14, <1>16, <1>17, <1>18, <1>19, <1>20, <1>21 DEF IInv

\* The kernel goes among the overloads: the module that bind() made is set up.
LEMMA BoundKeeps ==
  ASSUME IInv, ConstantsAssumption, NEW t \in Thread, Bound(t)
  PROVE  IInv'
<1> DEFINE k == call[t].lib
           i == call[t].code
<1>1. call[t].at \in {"nrt", "bound"} /\ Kernels(t)
  BY DEF Bound, Kernels, Late
<1>2. /\ TypeOK /\ Calls /\ BoundIsSetUp /\ Owned /\ Stored /\ Queued /\ RtsysKept
      /\ HomeIsSetUp /\ TornDownThenUnloaded /\ UnloadAssertion
      /\ CallOK(t) /\ BindOK(t) /\ k \in Lib
  BY <1>1, KernelFacts
<1>3. UNCHANGED <<loading, queue, unloaded, rt, history>> /\ Done(t) /\ bound' = bound \cup {k}
  BY DEF Bound
<1>4. UNCHANGED <<module, kept, handles, cubin, cufunc, launched, raced, asserted, cut>>
  BY <1>3 DEF loading, history
<1>5. Grown /\ Index' = Index /\ Handle' = Handle /\ Module' = Module
  BY <1>4, NotGrown DEF Module
<1>6. /\ Becomes(t, Idle) /\ Idle \in Calling /\ Idle.at = "idle"
      /\ compiling' \in Thread \cup {NoThread}
      /\ \A u \in Thread \ {t} : compiling = u => compiling' = u
      /\ CallOK(t)' /\ BindOK(t)'
  BY <1>2, <1>3, Returns
<1>7. TypeOK'
  <2>1. call' \in [Thread -> Calling]
    BY <1>2, <1>6, BecomesIs
  <2> QED
    BY <1>2, <1>3, <1>4, <1>5, <1>6, <2>1 DEF TypeOK, Calling
<1>8. Calls'
  BY <1>1, <1>2, <1>3, <1>5, <1>6, OthersSee
<1>9. BoundIsSetUp'
  <2>1. call[t].op = "bind"
    BY <1>1, <1>2 DEF CallOK
  <2>2. /\ module[i].initialized
        /\ \A j \in Index : module[j].lib = k => j = i
    BY <1>1, <1>2, <2>1 DEF BindOK, Binds, Late
  <2> QED
    BY <1>2, <1>3, <1>4, <1>5, <2>2 DEF BoundIsSetUp
<1>10. Owned' /\ Stored' /\ Queued'
  BY <1>1, <1>2, <1>3, <1>4, <1>6, MoveKeeps
<1>11. HomeIsSetUp' /\ TornDownThenUnloaded' /\ UnloadAssertion'
  BY <1>2, <1>3, <1>4 DEF HomeIsSetUp, TornDownThenUnloaded, UnloadAssertion
<1>12. RtsysKept'
  BY <1>1, <1>2, <1>3, <1>4, <1>6, RtsysStays
<1> QED
  BY <1>7, <1>8, <1>9, <1>10, <1>11, <1>12 DEF IInv

\* What runs was bound, and so was set up where it was bound.
LEMMA RunKeeps ==
  ASSUME IInv, ConstantsAssumption, NEW t \in Thread, Run(t)
  PROVE  IInv'
<1> DEFINE k == call[t].lib
           i == call[t].code
<1>1. call[t].at = "launch" /\ Kernels(t)
  BY DEF Run, Kernels, Late
<1>2. /\ TypeOK /\ Calls /\ BoundIsSetUp /\ Owned /\ Stored /\ Queued /\ RtsysKept
      /\ HomeIsSetUp /\ TornDownThenUnloaded /\ UnloadAssertion
      /\ CallOK(t) /\ BindOK(t) /\ k \in Lib
  BY <1>1, KernelFacts
<1>3. /\ UNCHANGED <<loading, queue, unloaded, bound, rt, raced, asserted, cut>>
      /\ Done(t) /\ launched' = launched \cup {i}
  BY DEF Run
<1>4. UNCHANGED <<module, kept, handles, cubin, cufunc>>
  BY <1>3 DEF loading
<1>5. Grown /\ Index' = Index /\ Handle' = Handle /\ Module' = Module
  BY <1>4, NotGrown DEF Module
<1>6. /\ Becomes(t, Idle) /\ Idle \in Calling /\ Idle.at = "idle"
      /\ compiling' \in Thread \cup {NoThread}
      /\ \A u \in Thread \ {t} : compiling = u => compiling' = u
      /\ CallOK(t)' /\ BindOK(t)'
  BY <1>2, <1>3, Returns
<1>7. i \in Index /\ module[i].lib = k /\ call[t].op = "launch" /\ k \in bound
  BY <1>1, <1>2 DEF CallOK, Late
<1>8. TypeOK'
  <2>1. call' \in [Thread -> Calling]
    BY <1>2, <1>6, BecomesIs
  <2> HIDE DEF i
  <2> QED
    BY <1>2, <1>3, <1>4, <1>5, <1>6, <1>7, <2>1 DEF TypeOK, Calling
<1>9. Calls'
  BY <1>1, <1>2, <1>3, <1>5, <1>6, OthersSee
<1>10. BoundIsSetUp'
  BY <1>2, <1>3, <1>4, <1>5 DEF BoundIsSetUp
<1>11. Owned' /\ Stored' /\ Queued'
  BY <1>1, <1>2, <1>3, <1>4, <1>6, MoveKeeps
<1>12. HomeIsSetUp'
  <2>1. module[i].home => module[i].initialized
    BY <1>2, <1>7 DEF BoundIsSetUp
  <2> QED
    BY <1>2, <1>3, <1>4, <2>1 DEF HomeIsSetUp
<1>13. TornDownThenUnloaded' /\ UnloadAssertion'
  BY <1>2, <1>3, <1>4 DEF TornDownThenUnloaded, UnloadAssertion
<1>14. RtsysKept'
  BY <1>1, <1>2, <1>3, <1>4, <1>6, RtsysStays
<1> QED
  BY <1>8, <1>9, <1>10, <1>11, <1>12, <1>13, <1>14 DEF IInv

\* rtsys has its module already.
LEMMA MemsysIsThereKeeps ==
  ASSUME IInv, ConstantsAssumption, NEW t \in Thread, EnsureMemsys(t), rt # 0
  PROVE  IInv'
<1> DEFINE k == call[t].lib
           i == call[t].code
           r == On(t, "bound", i)
<1>1. call[t].at = "nrt" /\ Kernels(t)
  BY DEF EnsureMemsys, Kernels, Late
<1>2. /\ TypeOK /\ Calls /\ CallOK(t) /\ BindOK(t) /\ k \in Lib /\ i \in Nat
  BY <1>1, KernelFacts
<1>3. /\ UNCHANGED <<module, kept, handles, rt>> /\ Goto(t, "bound", i)
      /\ UNCHANGED <<cubin, cufunc, queue, unloaded, bound, compiling, history>>
  BY DEF EnsureMemsys
<1>4. UNCHANGED <<loading, queue, unloaded, bound, rt, history>> /\ Index' = Index
  BY <1>3 DEF loading, Index
<1>5. /\ Becomes(t, r) /\ r \in Calling /\ r.at = "bound" /\ r.op = call[t].op
      /\ r.lib = k /\ r.code = i
  BY <1>1, <1>2, <1>3, GotoIs DEF Calling, Late
<1> HIDE DEF r, k, i
<1>6. call'[t] = r
  BY <1>2, <1>5, BecomesIs
<1>7. CallOK(t)' /\ BindOK(t)'
  <2>1. CallOK(t)'
    BY <1>1, <1>2, <1>3, <1>4, <1>5, <1>6 DEF CallOK, Kernels, Resets, Early, Late, k, i
  <2>2. BindOK(t)'
    BY <1>1, <1>2, <1>3, <1>4, <1>5, <1>6 DEF BindOK, Binds, Kernels, Early, Late, k, i
  <2> QED
    BY <2>1, <2>2
<1>8. /\ compiling' \in Thread \cup {NoThread}
      /\ \A u \in Thread \ {t} : (compiling = u => compiling' = u) /\ ~Resets(u)
  BY <1>1, <1>2, <1>3, NobodyResets DEF TypeOK
<1> QED
  BY <1>1, <1>4, <1>5, <1>7, <1>8, Moves

\* memsys.cu is compiled and loaded: its ObjectCode is a new one.
LEMMA MemsysIsLoadedKeeps ==
  ASSUME IInv, ConstantsAssumption, NEW t \in Thread, EnsureMemsys(t), rt = 0
  PROVE  IInv'
<1> DEFINE k == call[t].lib
           d == call[t].dev
           c == call[t].code
           h == handles + 1
           i == Len(module) + 1
           m == NewModule(Memsys, d, h, FALSE)
           r == On(t, "bound", c)
<1>1. call[t].at = "nrt" /\ Kernels(t)
  BY DEF EnsureMemsys, Kernels, Late
<1>2. /\ TypeOK /\ Calls /\ BoundIsSetUp /\ Owned /\ Stored /\ Queued /\ RtsysKept
      /\ HomeIsSetUp /\ TornDownThenUnloaded /\ UnloadAssertion
      /\ CallOK(t) /\ BindOK(t) /\ k \in Lib /\ d \in Device /\ c \in Nat
  BY <1>1, KernelFacts
<1>3. /\ UNCHANGED <<cubin, cufunc, queue, unloaded, bound, compiling>>
      /\ UNCHANGED <<launched, raced, asserted, cut>>
      /\ handles' = h /\ module' = Append(module, m)
      /\ kept' = [kept EXCEPT ![d] = @ \cup {i}] /\ rt' = i
      /\ Goto(t, "bound", c)
  BY DEF EnsureMemsys, history
<1>4. /\ Handle' = Handle \cup {h} /\ h \notin Handle /\ handles' \in Nat
      /\ module \in Seq(Module')
      /\ cubin' \in [Lib -> [Cc -> Handle' \cup {0}]]
      /\ queue' \in [Device -> Seq(Handle')]
      /\ unloaded' \subseteq Handle'
  BY <1>2, <1>3, MoreHandles
<1>5. /\ m.lib = Memsys /\ m.dev = d /\ m.handle = h /\ m \in Module' /\ ~m.home
  <2>1. Memsys \in Libs
    BY DEF Libs
  <2> HIDE DEF Handle, Libs
  <2> QED
    BY <1>2, <1>4, <2>1 DEF NewModule, Module
<1>6. /\ module' \in Seq(Module') /\ Index' = Index \cup {i}
      /\ i \notin Index /\ i \in Nat /\ i # 0 /\ module'[i] = m
      /\ \A j \in Index : module'[j] = module[j]
  <2>1. Len(module) \in Nat
    BY <1>2 DEF TypeOK
  <2> HIDE DEF m
  <2>2. /\ module' \in Seq(Module') /\ Index' = Index \cup {i}
        /\ i \notin Index /\ i \in Nat /\ module'[i] = m
        /\ \A j \in Index : module'[j] = module[j]
    BY <1>2, <1>3, <1>4, <1>5, Appends
  <2> QED
    BY <2>1, <2>2
<1>7. /\ Becomes(t, r) /\ r \in Calling /\ r.at = "bound" /\ r.op = call[t].op
      /\ r.lib = k /\ r.dev = d /\ r.code = c
  <2>1. Goto(t, "bound", c) /\ "bound" \in Early \cup Late
    BY <1>3 DEF Late
  <2> HIDE DEF h, i, m
  <2> QED
    BY <1>1, <1>2, <2>1, GotoIs DEF Calling
<1>8. call[t].op = "bind" /\ c \in Index /\ module[c].lib = k /\ Memsys # k
  BY <1>1, <1>2 DEF CallOK, Late, ConstantsAssumption
<1> HIDE DEF r, k, d, c, h, i, m
<1>9. /\ call' \in [Thread -> Calling] /\ call'[t] = r
      /\ \A u \in Thread \ {t} : call'[u] = call[u]
  BY <1>2, <1>7, BecomesIs
<1>10. Grown
  BY <1>4, <1>6 DEF Grown
<1>11. /\ kept' \in [Device -> SUBSET Index']
       /\ kept'[d] = kept[d] \cup {i} /\ \A e \in Device \ {d} : kept'[e] = kept[e]
  <2>1. kept \in [Device -> SUBSET Index]
    BY <1>2 DEF TypeOK
  <2> HIDE DEF Index
  <2> QED
    BY <1>2, <1>3, <1>6, <2>1
<1>12. \A e \in Device : \A j \in kept[e] : j \in Index
  BY <1>2 DEF TypeOK
<1>13. TypeOK'
  <2>1. cufunc' \in [Lib -> [Device -> Index' \cup {0}]]
    <3>1. [Device -> Index \cup {0}] \subseteq [Device -> Index' \cup {0}]
      BY <1>6
    <3>2. cufunc \in [Lib -> [Device -> Index \cup {0}]]
      BY <1>2 DEF TypeOK
    <3> HIDE DEF Index
    <3> QED
      BY <1>3, <3>1, <3>2
  <2>2. rt' \in Index' \cup {0} /\ launched' \subseteq Index'
    BY <1>2, <1>3, <1>6 DEF TypeOK
  <2> HIDE DEF Index, Handle, Module
  <2> QED
    BY <1>2, <1>3, <1>4, <1>6, <1>9, <1>11, <2>1, <2>2 DEF TypeOK, Calling
<1>14. CallOK(t)' /\ BindOK(t)'
  <2>1. CallOK(t)'
    BY <1>6, <1>7, <1>8, <1>9 DEF CallOK, Kernels, Resets, Early, Late
  <2>2. BindOK(t)'
    <3>1. /\ compiling = t /\ k \notin bound /\ module[c].initialized
          /\ \A j \in Index : module[j].lib = k => j = c
      BY <1>1, <1>2, <1>8 DEF BindOK, Binds, Late, k, c
    <3> QED
      <4>1. compiling' = t /\ call'[t].lib \notin bound'
        BY <1>3, <1>7, <1>9, <3>1
      <4>2. call'[t].at \notin Early /\ module'[call'[t].code].initialized
        BY <1>6, <1>7, <1>8, <1>9, <3>1 DEF Early
      <4>3. \A j \in Index' : module'[j].lib = call'[t].lib => j = call'[t].code
        BY <1>5, <1>6, <1>7, <1>8, <1>9, <3>1
      <4> QED
        BY <4>1, <4>2, <4>3 DEF BindOK
  <2> QED
    BY <2>1, <2>2
<1>15. Calls'
  <2>1. \A j \in Index' \ Index : module'[j].lib = Memsys
    BY <1>5, <1>6
  <2> QED
    BY <1>1, <1>2, <1>3, <1>7, <1>10, <1>14, <2>1, OthersSee
<1>16. BoundIsSetUp'
  BY <1>2, <1>3, <1>5, <1>6 DEF BoundIsSetUp
<1>17. Owned'
  <2>1. PICK owner \in [Handle -> Libs] : OneLib(owner)
    BY <1>2 DEF Owned
  <2> DEFINE new == [x \in Handle' |-> IF x = h THEN Memsys ELSE owner[x]]
  <2>2. new \in [Handle' -> Libs]
    BY <1>4 DEF Libs
  <2>3. new[h] = Memsys /\ \A x \in Handle : new[x] = owner[x]
    BY <1>4
  <2> HIDE DEF new
  <2>4. \A j \in Index : module[j].handle \in Handle
    BY <1>2, ModuleFacts
  <2>5. \A j \in Index' : new[module'[j].handle] = module'[j].lib
    BY <1>5, <1>6, <2>1, <2>3, <2>4 DEF OneLib
  <2>6. ASSUME NEW j \in Lib, NEW e \in Cc, cubin'[j][e] # 0
        PROVE  new[cubin'[j][e]] = j
    <3>1. cubin[j][e] \in Handle /\ cubin'[j][e] = cubin[j][e]
      BY <1>2, <1>3, <2>6 DEF TypeOK
    <3> QED
      BY <2>1, <2>3, <2>6, <3>1 DEF OneLib
  <2>7. ASSUME NEW u \in Thread, call'[u].at = "load"
        PROVE  new[call'[u].code] = call'[u].lib
    <3>1. u # t /\ call'[u] = call[u]
      BY <1>7, <1>9, <2>7
    <3>2. call[u].code \in Handle
      BY <1>2, <2>7, <3>1 DEF Calls, CallOK
    <3> QED
      BY <2>1, <2>3, <2>7, <3>1, <3>2 DEF OneLib
  <2> QED
    BY <2>2, <2>5, <2>6, <2>7 DEF Owned, OneLib
<1>18. Stored'
  <2>1. ASSUME NEW j \in Lib, NEW e \in Device, cufunc'[j][e] # 0
        PROVE  module'[cufunc'[j][e]].lib = j
    <3>1. cufunc[j][e] \in Index /\ cufunc'[j][e] = cufunc[j][e]
      BY <1>2, <1>3, <2>1 DEF TypeOK
    <3>2. module[cufunc[j][e]].lib = j
      BY <1>2, <1>3, <2>1 DEF Stored
    <3> QED
      BY <1>6, <3>1, <3>2
  <2>2. \A u \in Thread : call[u].at = "store" => call'[u] = call[u]
    BY <1>1, <1>9
  <2>3. ASSUME NEW e \in Device, NEW j \in kept'[e]
        PROVE  /\ module'[j].dev = e
               /\ module'[j].lib \in Lib =>
                     \/ cufunc'[module'[j].lib][e] # 0
                     \/ \E u \in Thread : /\ call'[u].at = "store" /\ call'[u].code = j
                                          /\ call'[u].dev = e
    <3>1. CASE j \in kept[e]
      <4>1. module'[j] = module[j]
        BY <1>6, <1>12, <3>1
      <4>2. /\ module[j].dev = e
            /\ module[j].lib \in Lib =>
                  \/ cufunc[module[j].lib][e] # 0
                  \/ \E u \in Thread : /\ call[u].at = "store" /\ call[u].code = j
                                       /\ call[u].dev = e
        BY <1>2, <3>1 DEF Stored
      <4> QED
        BY <1>3, <2>2, <4>1, <4>2
    <3>2. CASE j = i /\ e = d
      BY <1>5, <1>6, <3>2 DEF ConstantsAssumption
    <3> QED
      BY <1>11, <3>1, <3>2
  <2> QED
    BY <2>1, <2>3 DEF Stored
<1>19. Queued'
  <2>1. \A j \in Lib, e \in Device : Settled(j, e) => Settled(j, e)'
    BY <1>3, <1>7, <1>9 DEF Settled
  <2>2. ASSUME NEW e \in Device PROVE Keys(e)' \subseteq Keys(e) \cup {h}
    <3>1. \A j \in kept[e] : module'[j] = module[j]
      BY <1>6, <1>12
    <3> QED
      BY <1>5, <1>6, <1>11, <3>1 DEF Keys
  <2> SUFFICES ASSUME NEW e \in Device, NEW x \in ToSet(queue[e]) PROVE Waits(e, x)'
    BY <1>3 DEF Queued
  <2>3. Waits(e, x)
    BY <1>2 DEF Queued
  <2>4. x # h
    <3>1. ToSet(queue[e]) \subseteq Handle
      <4>1. queue[e] \in Seq(Handle)
        BY <1>2 DEF TypeOK
      <4> QED
        BY <4>1 DEF ToSet
    <3> QED
      BY <1>4, <3>1
  <2>5. e \notin raced' => x \notin Keys(e)'
    BY <1>3, <2>2, <2>3, <2>4 DEF Waits
  <2> QED
    BY <1>3, <1>10, <2>1, <2>3, <2>5, GoesOnWaiting
<1>20. HomeIsSetUp'
  <2>1. launched' \subseteq Index
    BY <1>2, <1>3 DEF TypeOK
  <2> QED
    BY <1>2, <1>3, <1>6, <2>1 DEF HomeIsSetUp
<1>21. TornDownThenUnloaded'
  <2>1. DOMAIN module = Index /\ DOMAIN module' = Index'
    BY <1>6 DEF Index
  <2>2. \A j \in Index : module[j].dev \in Device
    BY <1>2, ModuleFacts
  <2>3. \A x \in unloaded' : \E j \in DOMAIN module' : module'[j].handle = x /\ module'[j].torn
    BY <1>2, <1>3, <1>6, <2>1 DEF TornDownThenUnloaded
  <2>4. ASSUME NEW j \in Index'
        PROVE  \/ j \in kept'[module'[j].dev]
               \/ module'[j].handle \in unloaded' \cup ToSet(queue'[module'[j].dev])
               \/ module'[j].dev \in asserted'
    BY <1>2, <1>3, <1>5, <1>6, <1>11, <2>1, <2>2 DEF TornDownThenUnloaded
  <2> QED
    BY <2>1, <2>3, <2>4 DEF TornDownThenUnloaded
<1>22. UnloadAssertion'
  BY <1>2, <1>3 DEF UnloadAssertion
<1>23. RtsysKept'
  BY <1>3, <1>5, <1>6, <1>11 DEF RtsysKept
<1> QED
  BY <1>13, <1>15, <1>16, <1>17, <1>18, <1>19, <1>20, <1>21, <1>22, <1>23 DEF IInv

-----------------------------------------------------------------------------
(* Unloading and Context.reset.                                            *)

LEMMA UnloadNextKeeps ==
  ASSUME TypeOK, Queued, TornDownThenUnloaded, UnloadAssertion, NEW d \in Device,
         UnloadNext(d), UNCHANGED <<module, kept, handles, raced>>,
         \A k \in Lib, e \in Device : Settled(k, e) => Settled(k, e)'
  PROVE  /\ queue' \in [Device -> Seq(Handle)] /\ unloaded' \subseteq Handle
         /\ asserted' \subseteq Device
         /\ Queued' /\ TornDownThenUnloaded' /\ UnloadAssertion'
<1> DEFINE h == Head(queue[d])
<1>1. queue \in [Device -> Seq(Handle)] /\ unloaded \subseteq Handle
      /\ asserted \subseteq Device
  BY DEF TypeOK
<1>2. /\ queue[d] # <<>> /\ queue' = [queue EXCEPT ![d] = Tail(@)]
      /\ unloaded' = IF h \in Keys(d) THEN unloaded ELSE unloaded \cup {h}
      /\ asserted' = IF h \in Keys(d) THEN asserted \cup {d} ELSE asserted
  BY DEF UnloadNext
<1>3. /\ h \in Handle /\ Tail(queue[d]) \in Seq(Handle)
      /\ ToSet(queue[d]) = {h} \cup ToSet(Tail(queue[d]))
  BY <1>1, <1>2, SetOfSequence
<1> HIDE DEF h, Handle
<1>4. /\ queue' \in [Device -> Seq(Handle)]
      /\ queue'[d] = Tail(queue[d]) /\ \A e \in Device \ {d} : queue'[e] = queue[e]
  BY <1>1, <1>2, <1>3
<1>5. Waits(d, h)
  BY <1>3 DEF Queued
<1>6. Queued'
  <2> SUFFICES ASSUME NEW e \in Device, NEW x \in ToSet(queue'[e]) PROVE Waits(e, x)'
    BY DEF Queued
  <2>1. x \in ToSet(queue[e])
    BY <1>3, <1>4
  <2>2. Waits(e, x)
    BY <2>1 DEF Queued
  <2>3. e \notin raced' => x \notin Keys(e)'
    BY <2>2 DEF Waits, Keys
  <2> QED
    BY <2>2, <2>3, NotGrown, GoesOnWaiting
<1>7. TornDownThenUnloaded'
  <2>1. DOMAIN module = Index
    BY ModuleFacts
  <2>2. \A x \in unloaded' : \E j \in DOMAIN module : module[j].handle = x /\ module[j].torn
    BY <1>2, <1>5, <2>1 DEF TornDownThenUnloaded, Waits
  <2>3. ASSUME NEW j \in Index
        PROVE  \/ j \in kept[module[j].dev]
               \/ module[j].handle \in unloaded' \cup ToSet(queue'[module[j].dev])
               \/ module[j].dev \in asserted'
    <3>1. module[j].dev \in Device
      BY ModuleFacts
    <3>2. \/ j \in kept[module[j].dev]
          \/ module[j].handle \in unloaded \cup ToSet(queue[module[j].dev])
          \/ module[j].dev \in asserted
      BY <2>1 DEF TornDownThenUnloaded
    <3>3. CASE module[j].dev = d /\ module[j].handle = h
      BY <1>2, <3>3
    <3>4. CASE ~(module[j].dev = d /\ module[j].handle = h)
      <4>1. ASSUME module[j].handle \in ToSet(queue[module[j].dev])
            PROVE  module[j].handle \in ToSet(queue'[module[j].dev])
        BY <1>3, <1>4, <3>1, <3>4, <4>1
      <4>2. unloaded \subseteq unloaded' /\ asserted \subseteq asserted'
        BY <1>2
      <4> QED
        BY <3>2, <4>1, <4>2
    <3> QED
      BY <3>3, <3>4
  <2> QED
    BY <2>1, <2>2, <2>3 DEF TornDownThenUnloaded
<1>8. UnloadAssertion'
  <2>1. h \in Keys(d) => d \in raced
    BY <1>5 DEF Waits
  <2> QED
    BY <1>2, <2>1 DEF UnloadAssertion
<1> QED
  BY <1>1, <1>2, <1>3, <1>4, <1>6, <1>7, <1>8

LEMMA FlushKeeps ==
  ASSUME IInv, NEW d \in Device, Flush(d)
  PROVE  IInv'
<1>1. /\ TypeOK /\ Calls /\ BoundIsSetUp /\ Owned /\ Stored /\ Queued /\ RtsysKept
      /\ HomeIsSetUp /\ TornDownThenUnloaded /\ UnloadAssertion
  BY DEF IInv
<1>2. /\ UnloadNext(d) /\ UNCHANGED <<module, kept, handles, cubin, cufunc>>
      /\ UNCHANGED <<bound, rt, call, compiling, launched, raced, cut>>
  BY DEF Flush, loading
<1>3. Index' = Index /\ Handle' = Handle /\ Module' = Module
  BY <1>2 DEF Index, Handle, Module
<1>4. \A k \in Lib, e \in Device : Settled(k, e) => Settled(k, e)'
  BY <1>2 DEF Settled
<1>5. /\ queue' \in [Device -> Seq(Handle)] /\ unloaded' \subseteq Handle
      /\ asserted' \subseteq Device
      /\ Queued' /\ TornDownThenUnloaded' /\ UnloadAssertion'
  BY <1>1, <1>2, <1>4, UnloadNextKeeps
<1>6. TypeOK'
  BY <1>1, <1>2, <1>3, <1>5 DEF TypeOK
<1>7. Calls'
  BY <1>1, <1>2, <1>3 DEF Calls, CallOK, BindOK, Binds, Kernels, Resets
<1>8. BoundIsSetUp' /\ Owned' /\ Stored' /\ HomeIsSetUp'
  BY <1>1, <1>2, <1>3 DEF BoundIsSetUp, Owned, OneLib, Stored, HomeIsSetUp
<1>9. RtsysKept'
  BY <1>1, <1>2, <1>5 DEF RtsysKept
<1> QED
  BY <1>5, <1>6, <1>7, <1>8, <1>9 DEF IInv

\* In a reset nobody else is in a call.
LEMMA ResetIsAlone ==
  ASSUME TypeOK, Calls, NEW t \in Thread, Resets(t), NEW r \in Calling, Becomes(t, r),
         r = Idle \/ r \in ResetCall,
         UNCHANGED bound
  PROVE  /\ Calls' /\ call[t].dev \in Device
         /\ \A u \in Thread \ {t} : call[u] = Idle /\ call'[u] = Idle
         /\ \A u \in Thread : /\ call[u].at \notin Early \cup Late
                              /\ call'[u].at \notin Early \cup Late
<1>1. \A u \in Thread \ {t} : call[u] = Idle
  BY DEF Calls, CallOK
<1>2. call'[t] = r /\ \A u \in Thread \ {t} : call'[u] = call[u]
  BY BecomesIs
<1>3. r.at \notin Early \cup Late /\ Idle.at \notin Early \cup Late /\ Idle.at \notin {"clear", "flush"}
  BY DEF Idle, ResetCall, Early, Late
<1>4. call[t].dev \in Device /\ call[t].at \notin Early \cup Late
  BY CallTypes DEF ResetCall, Kernels
<1>5. \A u \in Thread : /\ call[u].at \notin Early \cup Late
                        /\ call'[u].at \notin Early \cup Late
  BY <1>1, <1>2, <1>3, <1>4
<1>6. Calls'
  <2> SUFFICES ASSUME NEW u \in Thread PROVE CallOK(u)' /\ BindOK(u)'
    BY DEF Calls
  <2>1. call'[u].at \notin Early \cup Late
    BY <1>5
  <2>2. BindOK(u)'
    BY <2>1 DEF BindOK, Binds, Kernels
  <2>3. Resets(u)' => \A v \in Thread \ {u} : call'[v] = Idle
    BY <1>1, <1>2, <1>3 DEF Resets
  <2>4. CallOK(u)'
    BY <2>1, <2>3 DEF CallOK, Kernels, Early, Late
  <2> QED
    BY <2>2, <2>4
<1> QED
  BY <1>1, <1>2, <1>4, <1>5, <1>6

LEMMA ResetFlushKeeps ==
  ASSUME IInv, NEW t \in Thread, ResetFlush(t)
  PROVE  IInv'
<1> DEFINE d == call[t].dev
<1>1. /\ TypeOK /\ Calls /\ BoundIsSetUp /\ Owned /\ Stored /\ Queued /\ RtsysKept
      /\ HomeIsSetUp /\ TornDownThenUnloaded /\ UnloadAssertion
      /\ call[t].at = "flush" /\ Resets(t)
  BY DEF IInv, ResetFlush, Resets
<1>2. /\ UnloadNext(d) /\ UNCHANGED <<module, kept, handles, cubin, cufunc>>
      /\ UNCHANGED <<bound, rt, compiling, launched, raced>>
      /\ IF Head(queue[d]) \in Keys(d) \cup unloaded
         THEN call' = [call EXCEPT ![t] = Idle] /\ cut' = cut \cup {d}
         ELSE UNCHANGED <<call, cut>>
  BY DEF ResetFlush, loading
<1>3. Index' = Index /\ Handle' = Handle /\ Module' = Module
  BY <1>2 DEF Index, Handle, Module
<1>4. PICK r \in Calling : Becomes(t, r) /\ (r = Idle \/ (r \in ResetCall /\ call' = call))
  <2>1. CASE Head(queue[d]) \in Keys(d) \cup unloaded
    BY <1>2, <2>1 DEF Becomes, Calling
  <2>2. CASE ~(Head(queue[d]) \in Keys(d) \cup unloaded)
    <3>1. call' = [call EXCEPT ![t] = call[t]] /\ call[t] \in ResetCall
      BY <1>1, <1>2, <2>2, CallTypes DEF TypeOK
    <3> QED
      BY <1>2, <2>2, <3>1 DEF Becomes, Calling
  <2> QED
    BY <2>1, <2>2
<1>5. /\ Calls' /\ d \in Device
      /\ \A u \in Thread : /\ call[u].at \notin Early \cup Late
                           /\ call'[u].at \notin Early \cup Late
  BY <1>1, <1>2, <1>4, ResetIsAlone
<1>6. call' \in [Thread -> Calling]
  BY <1>1, <1>4, BecomesIs
<1>7. \A k \in Lib, e \in Device : Settled(k, e) => Settled(k, e)'
  BY <1>2, <1>5 DEF Settled, Early
<1>8. /\ queue' \in [Device -> Seq(Handle)] /\ unloaded' \subseteq Handle
      /\ asserted' \subseteq Device
      /\ Queued' /\ TornDownThenUnloaded' /\ UnloadAssertion'
  BY <1>1, <1>2, <1>5, <1>7, UnloadNextKeeps
<1>9. TypeOK'
  <2>1. cut' \subseteq Device
    BY <1>1, <1>2, <1>5 DEF TypeOK
  <2> QED
    BY <1>1, <1>2, <1>3, <1>6, <1>8, <2>1 DEF TypeOK, Calling
<1>10. BoundIsSetUp' /\ HomeIsSetUp'
  BY <1>1, <1>2, <1>3 DEF BoundIsSetUp, HomeIsSetUp
<1>11. Owned'
  <2>1. PICK owner \in [Handle -> Libs] : OneLib(owner)
    BY <1>1 DEF Owned
  <2>2. OneLib(owner)'
    BY <1>2, <1>3, <1>5, <2>1 DEF OneLib, Early
  <2> QED
    BY <1>3, <2>1, <2>2 DEF Owned
<1>12. Stored'
  BY <1>1, <1>2, <1>5 DEF Stored, Late
<1>13. RtsysKept'
  <2>1. CASE Head(queue[d]) \in Keys(d) \cup unloaded
    <3>1. cut' = cut \cup {d} /\ UNCHANGED <<module, kept, rt>>
      BY <1>2, <2>1
    <3>2. \A u \in Thread : call[u].at = "flush" => u = t
      BY <1>1 DEF Calls, CallOK, Idle
    <3> QED
      BY <1>1, <3>1, <3>2 DEF RtsysKept
  <2>2. CASE ~(Head(queue[d]) \in Keys(d) \cup unloaded)
    BY <1>1, <1>2, <1>8, <2>2 DEF RtsysKept
  <2> QED
    BY <2>1, <2>2
<1> QED
  BY <1>5, <1>8, <1>9, <1>10, <1>11, <1>12, <1>13 DEF IInv

LEMMA ResetRtsysKeeps ==
  ASSUME IInv, NEW t \in Thread, ResetRtsys(t)
  PROVE  IInv'
<1>1. /\ TypeOK /\ Calls /\ BoundIsSetUp /\ Owned /\ Stored /\ Queued
      /\ HomeIsSetUp /\ TornDownThenUnloaded /\ UnloadAssertion
      /\ call[t].at = "flush" /\ Resets(t)
  BY DEF IInv, ResetRtsys, Resets
<1>2. /\ UNCHANGED <<loading, queue, unloaded, bound, compiling>> /\ rt' = 0 /\ cut' = {}
      /\ UNCHANGED <<module, kept, handles, cubin, cufunc>>
      /\ UNCHANGED <<launched, raced, asserted>>
  BY DEF ResetRtsys, loading
<1>3. Idle \in Calling /\ Becomes(t, Idle) /\ Idle.at = "idle"
  BY DEF ResetRtsys, Calling, Becomes, Idle
<1>4. Index' = Index /\ Handle' = Handle /\ Module' = Module
  BY <1>2 DEF Index, Handle, Module
<1>5. TypeOK'
  <2>1. call' \in [Thread -> Calling]
    BY <1>1, <1>3, BecomesIs
  <2> QED
    BY <1>1, <1>2, <1>4, <2>1 DEF TypeOK, Calling
<1>6. Calls'
  BY <1>1, <1>2, <1>3, ResetIsAlone
<1>7. Owned' /\ Stored' /\ Queued'
  BY <1>1, <1>2, <1>3, MoveKeeps
<1>8. BoundIsSetUp' /\ HomeIsSetUp' /\ TornDownThenUnloaded' /\ UnloadAssertion'
  BY <1>1, <1>2, <1>4 DEF BoundIsSetUp, HomeIsSetUp, TornDownThenUnloaded, UnloadAssertion
<1>9. RtsysKept'
  BY <1>2 DEF RtsysKept
<1> QED
  BY <1>5, <1>6, <1>7, <1>8, <1>9 DEF IInv

\* The Context lets go of its modules: all are torn down, and all are queued.
LEMMA ClearModulesKeeps ==
  ASSUME IInv, NEW t \in Thread, ClearModules(t)
  PROVE  IInv'
<1> DEFINE d == call[t].dev
           r == [at |-> "flush", op |-> "reset", dev |-> call[t].dev]
<1>1. /\ TypeOK /\ Calls /\ BoundIsSetUp /\ Owned /\ Stored /\ Queued /\ RtsysKept
      /\ HomeIsSetUp /\ TornDownThenUnloaded /\ UnloadAssertion
      /\ call[t].at = "clear" /\ Resets(t)
  BY DEF IInv, ClearModules, Resets
<1>2. /\ module' = [i \in DOMAIN module |-> [module[i] EXCEPT !.torn = @ \/ i \in kept[d]]]
      /\ queue' = [queue EXCEPT ![d] = @ \o KeptHandles(d)]
      /\ kept' = [kept EXCEPT ![d] = {}]
      /\ call' = [call EXCEPT ![t].at = "flush"]
      /\ UNCHANGED <<handles, cubin, cufunc, unloaded, bound, rt, compiling>>
      /\ UNCHANGED <<launched, raced, asserted, cut>>
  BY DEF ClearModules, history
<1>3. Becomes(t, r) /\ r \in ResetCall /\ r \in Calling /\ r.at = "flush"
  BY <1>1, <1>2, ResetGoesOn DEF Calling
<1> HIDE DEF d, r
<1>4. /\ Calls' /\ d \in Device
      /\ \A u \in Thread : /\ call[u].at \notin Early \cup Late
                           /\ call'[u].at \notin Early \cup Late
  BY <1>1, <1>2, <1>3, ResetIsAlone DEF d
<1>5. call' \in [Thread -> Calling] /\ call'[t] = r
  BY <1>1, <1>3, BecomesIs
<1>6. Handle' = Handle /\ Module' = Module
  BY <1>2 DEF Handle, Module
<1>7. /\ module' \in Seq(Module) /\ Index' = Index
      /\ \A j \in Index : /\ module'[j].lib = module[j].lib
                          /\ module'[j].dev = module[j].dev
                          /\ module'[j].handle = module[j].handle
                          /\ module'[j].home = module[j].home
                          /\ module'[j].initialized = module[j].initialized
                          /\ module'[j].torn = (module[j].torn \/ j \in kept[d])
  <2>1. /\ module \in Seq(Module) /\ DOMAIN module = Index /\ Len(module) \in Nat
        /\ \A j \in Index : module[j] \in Module
    BY <1>1, ModuleFacts DEF TypeOK
  <2> DEFINE m(j) == [module[j] EXCEPT !.torn = @ \/ j \in kept[d]]
  <2>2. ASSUME NEW j \in Index
        PROVE  /\ m(j) \in Module
               /\ m(j).lib = module[j].lib /\ m(j).dev = module[j].dev
               /\ m(j).handle = module[j].handle /\ m(j).home = module[j].home
               /\ m(j).initialized = module[j].initialized
               /\ m(j).torn = (module[j].torn \/ j \in kept[d])
    BY <2>1 DEF Module
  <2>3. module' = [j \in Index |-> m(j)]
    BY <1>2, <2>1
  <2> HIDE DEF m
  <2>4. module' \in Seq(Module) /\ Len(module') = Len(module)
    <3>1. Index = 1..Len(module)
      BY <2>1 DEF Index
    <3> HIDE DEF Index, Module
    <3>2. module' \in [1..Len(module) -> Module]
      BY <2>2, <2>3, <3>1
    <3> QED
      BY <2>1, <3>1, <3>2
  <2>5. Index' = Index
    BY <2>4 DEF Index
  <2>6. \A j \in Index : module'[j] = m(j)
    BY <2>3
  <2> QED
    BY <2>2, <2>4, <2>5, <2>6
<1>8. Grown
  BY <1>6, <1>7 DEF Grown
<1>9. /\ kept' \in [Device -> SUBSET Index]
      /\ kept'[d] = {} /\ \A e \in Device \ {d} : kept'[e] = kept[e]
  <2>1. kept \in [Device -> SUBSET Index]
    BY <1>1 DEF TypeOK
  <2> HIDE DEF Index
  <2> QED
    BY <1>2, <1>4, <2>1
<1>10. /\ queue' \in [Device -> Seq(Handle)]
       /\ ToSet(queue'[d]) = ToSet(queue[d]) \cup Keys(d)
       /\ \A e \in Device \ {d} : queue'[e] = queue[e]
  <2>1. queue \in [Device -> Seq(Handle)]
    BY <1>1 DEF TypeOK
  <2>2. KeptHandles(d) \in Seq(Handle) /\ ToSet(KeptHandles(d)) = Keys(d)
    BY <1>1, <1>4, HandlesOfAll
  <2> HIDE DEF Handle
  <2>3. queue'[d] = queue[d] \o KeptHandles(d) /\ queue[d] \in Seq(Handle)
    BY <1>2, <1>4, <2>1
  <2>4. queue'[d] \in Seq(Handle) /\ ToSet(queue'[d]) = ToSet(queue[d]) \cup Keys(d)
    BY <2>2, <2>3, SetOfConcatenation
  <2> QED
    BY <1>2, <2>1, <2>3, <2>4
<1>11. \A e \in Device : \A j \in kept[e] : j \in Index
  BY <1>1 DEF TypeOK
<1>12. TypeOK'
  <2> HIDE DEF Index, Handle, Module
  <2> QED
    BY <1>1, <1>2, <1>5, <1>6, <1>7, <1>9, <1>10 DEF TypeOK, Calling
<1>13. BoundIsSetUp'
  BY <1>1, <1>2, <1>7 DEF BoundIsSetUp
<1>14. Owned'
  <2>1. PICK owner \in [Handle -> Libs] : OneLib(owner)
    BY <1>1 DEF Owned
  <2>2. OneLib(owner)'
    BY <1>2, <1>4, <1>7, <2>1 DEF OneLib, Early
  <2> QED
    BY <1>6, <2>1, <2>2 DEF Owned
<1>15. ASSUME NEW e \in Device, NEW j \in kept[e]
       PROVE  module[j].dev = e /\ (module[j].lib \in Lib => cufunc[module[j].lib][e] # 0)
  BY <1>1, <1>4 DEF Stored, Late
<1>16. Stored'
  <2>1. ASSUME NEW j \in Lib, NEW e \in Device, cufunc'[j][e] # 0
        PROVE  module'[cufunc'[j][e]].lib = j
    <3>1. cufunc[j][e] \in Index /\ cufunc'[j][e] = cufunc[j][e]
      BY <1>1, <1>2, <2>1 DEF TypeOK
    <3>2. module[cufunc[j][e]].lib = j
      BY <1>1, <1>2, <2>1 DEF Stored
    <3> QED
      BY <1>7, <3>1, <3>2
  <2>2. ASSUME NEW e \in Device, NEW j \in kept'[e]
        PROVE  /\ module'[j].dev = e
               /\ module'[j].lib \in Lib => cufunc'[module'[j].lib][e] # 0
    <3>1. j \in kept[e] /\ j \in Index
      BY <1>9, <1>11
    <3> QED
      BY <1>2, <1>7, <1>15, <3>1
  <2> QED
    BY <2>1, <2>2 DEF Stored
<1>17. Queued'
  <2>1. \A j \in Lib, e \in Device : Settled(j, e)' <=> cufunc[j][e] # 0
    BY <1>2, <1>4 DEF Settled, Early
  <2>2. \A j \in Lib, e \in Device : Settled(j, e) => Settled(j, e)'
    BY <2>1 DEF Settled
  <2>3. ASSUME NEW e \in Device PROVE Keys(e)' = IF e = d THEN {} ELSE Keys(e)
    BY <1>7, <1>9, <1>11 DEF Keys
  <2> SUFFICES ASSUME NEW e \in Device, NEW x \in ToSet(queue'[e]) PROVE Waits(e, x)'
    BY DEF Queued
  <2>4. CASE x \in ToSet(queue[e])
    <3>1. Waits(e, x)
      BY <1>1, <2>4 DEF Queued
    <3>2. e \notin raced' => x \notin Keys(e)'
      BY <1>2, <2>3, <3>1 DEF Waits
    <3> QED
      BY <1>2, <1>8, <2>2, <3>1, <3>2, GoesOnWaiting
  <2>5. CASE e = d /\ x \in Keys(e)
    <3>1. PICK j \in kept[e] : module[j].handle = x
      BY <2>5 DEF Keys
    <3>2. j \in Index' /\ module'[j].handle = x /\ module'[j].torn /\ module'[j].lib = module[j].lib
      BY <1>7, <1>11, <2>5, <3>1
    <3>3. (module[j].lib \in Lib => Settled(module[j].lib, e))'
      BY <1>2, <1>4, <1>15, <3>2 DEF Settled, Early
    <3>4. LetGo(e, x)'
      BY <3>2, <3>3 DEF LetGo
    <3>5. x \notin Keys(e)'
      BY <2>3, <2>5
    <3> QED
      BY <3>2, <3>4, <3>5 DEF Waits
  <2> QED
    BY <1>10, <2>4, <2>5
<1>18. HomeIsSetUp'
  <2>1. launched \subseteq Index
    BY <1>1 DEF TypeOK
  <2> QED
    BY <1>1, <1>2, <1>7, <2>1 DEF HomeIsSetUp
<1>19. TornDownThenUnloaded'
  <2>1. DOMAIN module = Index /\ DOMAIN module' = Index
    BY <1>1, <1>7, ModuleFacts DEF Index
  <2>2. \A x \in unloaded' : \E j \in DOMAIN module' : module'[j].handle = x /\ module'[j].torn
    <3>1. ASSUME NEW x \in unloaded'
          PROVE  \E j \in Index : module'[j].handle = x /\ module'[j].torn
      <4>1. PICK j \in Index : module[j].handle = x /\ module[j].torn
        BY <1>1, <1>2, <2>1 DEF TornDownThenUnloaded
      <4> QED
        BY <1>7, <4>1
    <3> QED
      BY <2>1, <3>1
  <2>3. ASSUME NEW j \in Index
        PROVE  \/ j \in kept'[module'[j].dev]
               \/ module'[j].handle \in unloaded' \cup ToSet(queue'[module'[j].dev])
               \/ module'[j].dev \in asserted'
    <3>1. /\ module[j].dev \in Device /\ module'[j].dev = module[j].dev
          /\ module'[j].handle = module[j].handle
      BY <1>1, <1>7, ModuleFacts
    <3>2. \/ j \in kept[module[j].dev]
          \/ module[j].handle \in unloaded \cup ToSet(queue[module[j].dev])
          \/ module[j].dev \in asserted
      BY <1>1, <2>1 DEF TornDownThenUnloaded
    <3>3. ASSUME j \in kept[d] PROVE module[j].handle \in ToSet(queue'[d])
      BY <1>10, <3>3 DEF Keys
    <3>4. CASE module[j].dev = d
      BY <1>2, <1>9, <1>10, <3>1, <3>2, <3>3, <3>4
    <3>5. CASE module[j].dev # d
      <4>1. /\ module[j].dev \in Device \ {d} /\ unloaded \subseteq unloaded'
            /\ asserted \subseteq asserted'
        BY <1>2, <3>1, <3>5
      <4>2. /\ kept'[module[j].dev] = kept[module[j].dev]
            /\ queue'[module[j].dev] = queue[module[j].dev]
        BY <1>9, <1>10, <4>1
      <4> QED
        BY <3>1, <3>2, <4>1, <4>2
    <3> QED
      BY <3>4, <3>5
  <2> QED
    BY <2>1, <2>2, <2>3 DEF TornDownThenUnloaded
<1>20. UnloadAssertion'
  BY <1>1, <1>2 DEF UnloadAssertion
<1>21. RtsysKept'
  <2>0. rt' = rt /\ cut' = cut
    BY <1>2
  <2> SUFFICES ASSUME rt # 0
               PROVE  \/ rt \in kept'[module'[rt].dev] \/ module'[rt].dev \in cut
                      \/ \E u \in Thread : call'[u].at = "flush" /\ call'[u].dev = module'[rt].dev
    BY <2>0 DEF RtsysKept
  <2>1. rt \in Index /\ module'[rt].dev = module[rt].dev /\ module[rt].dev \in Device
    <3>1. rt \in Index
      BY <1>1 DEF TypeOK
    <3> QED
      BY <1>1, <1>7, <3>1, ModuleFacts DEF TypeOK
  <2>2. CASE module[rt].dev = d
    <3>1. r.dev = d
      BY DEF d, r
    <3> QED
      BY <1>3, <1>5, <2>1, <2>2, <3>1
  <2>3. CASE module[rt].dev # d
    <3>1. \A u \in Thread : call[u].at # "flush"
      BY <1>1 DEF Calls, CallOK, Idle
    <3> QED
      BY <1>1, <1>9, <2>1, <2>3, <3>1 DEF RtsysKept
  <2> QED
    BY <2>2, <2>3
<1> QED
  BY <1>4, <1>12, <1>13, <1>14, <1>16, <1>17, <1>18, <1>19, <1>20, <1>21 DEF IInv

-----------------------------------------------------------------------------
(* The theorems.                                                           *)

LEMMA InitOK ==
  ASSUME Init, ConstantsAssumption
  PROVE  IInv
<1>1. /\ Len(module) = 0 /\ Index = {} /\ DOMAIN module = {}
      /\ \A t \in Thread : call[t] = Idle /\ call[t].at = "idle"
  BY DEF Init, Index, Idle
<1>2. \A d \in Device : queue[d] = <<>> /\ ToSet(queue[d]) = {} /\ kept[d] = {}
  BY DEF Init, ToSet
<1>3. TypeOK
  BY <1>1 DEF Init, TypeOK
<1>4. Calls
  BY <1>1 DEF Calls, CallOK, BindOK, Binds, Kernels, Resets, Early, Late
<1>5. BoundIsSetUp
  BY <1>1 DEF BoundIsSetUp
<1>6. Owned
  <2> DEFINE owner == [h \in Handle |-> Memsys]
  <2>1. owner \in [Handle -> Libs]
    BY DEF Libs
  <2>2. OneLib(owner)
    BY <1>1 DEF OneLib, Init
  <2> QED
    BY <2>1, <2>2 DEF Owned
<1>7. Stored /\ Queued /\ RtsysKept
  BY <1>1, <1>2 DEF Init, Stored, Queued, RtsysKept
<1>8. HomeIsSetUp /\ TornDownThenUnloaded /\ UnloadAssertion
  BY <1>1 DEF Init, HomeIsSetUp, TornDownThenUnloaded, UnloadAssertion
<1> QED
  BY <1>3, <1>4, <1>5, <1>6, <1>7, <1>8 DEF IInv

LEMMA StutterKeeps ==
  ASSUME IInv, UNCHANGED vars
  PROVE  IInv'
<1>1. /\ TypeOK /\ Calls /\ BoundIsSetUp /\ Owned /\ Stored /\ Queued /\ RtsysKept
      /\ HomeIsSetUp /\ TornDownThenUnloaded /\ UnloadAssertion
  BY DEF IInv
<1>2. /\ UNCHANGED <<module, kept, handles, cubin, cufunc, queue, unloaded, bound, rt>>
      /\ UNCHANGED <<call, compiling, launched, raced, asserted, cut>>
  BY DEF vars, loading, history
<1>3. Index' = Index /\ Handle' = Handle /\ Module' = Module
  BY <1>2 DEF Index, Handle, Module
<1>4. TypeOK'
  BY <1>1, <1>2, <1>3 DEF TypeOK
<1>5. Calls'
  BY <1>1, <1>2, <1>3 DEF Calls, CallOK, BindOK, Binds, Kernels, Resets
<1>6. BoundIsSetUp' /\ Owned' /\ Stored'
  BY <1>1, <1>2, <1>3 DEF BoundIsSetUp, Owned, OneLib, Stored
<1>7. Queued'
  BY <1>1, <1>2, <1>3 DEF Queued, Waits, LetGo, Settled, Keys
<1>8. RtsysKept' /\ HomeIsSetUp' /\ TornDownThenUnloaded' /\ UnloadAssertion'
  BY <1>1, <1>2 DEF RtsysKept, HomeIsSetUp, TornDownThenUnloaded, UnloadAssertion
<1> QED
  BY <1>4, <1>5, <1>6, <1>7, <1>8 DEF IInv

LEMMA NextOK ==
  ASSUME IInv, ConstantsAssumption, [Next]_vars
  PROVE  IInv'
<1>1. ASSUME NEW t \in Thread, Step(t) PROVE IInv'
  <2>1. ASSUME NEW k \in Lib, NEW d \in Device, Bind(t, k, d) \/ Launch(t, k, d) PROVE IInv'
    BY <2>1, BindKeeps, LaunchKeeps
  <2>2. CASE LookUpFunction(t)
    BY <2>2, LookUpFunctionKeeps
  <2>3. CASE LookUpCubin(t)
    BY <2>3, LookUpCubinKeeps
  <2>4. CASE Link(t)
    BY <2>4, LinkKeeps
  <2>5. CASE LinkFails(t) \/ SetupFails(t)
    BY <2>5, FailureKeeps
  <2>6. CASE Load(t)
    BY <2>6, LoadKeeps, RacedLoadKeeps
  <2>7. CASE StoreFunction(t)
    BY <2>7, StoreFunctionKeeps
  <2>8. CASE Setup(t)
    BY <2>8, SetupKeeps
  <2>9. CASE EnsureMemsys(t)
    BY <2>9, MemsysIsThereKeeps, MemsysIsLoadedKeeps
  <2>10. CASE Bound(t)
    BY <2>10, BoundKeeps
  <2>11. CASE Run(t)
    BY <2>11, RunKeeps
  <2>12. ASSUME NEW d \in Device, Reset(t, d) PROVE IInv'
    BY <2>12, ResetKeeps
  <2>13. CASE ClearModules(t)
    BY <2>13, ClearModulesKeeps
  <2>14. CASE ResetFlush(t)
    BY <2>14, ResetFlushKeeps
  <2>15. CASE ResetRtsys(t)
    BY <2>15, ResetRtsysKeeps
  <2> QED
    BY <1>1, <2>1, <2>2, <2>3, <2>4, <2>5, <2>6, <2>7, <2>8, <2>9, <2>10, <2>11, <2>12,
       <2>13, <2>14, <2>15 DEF Step
<1>2. ASSUME NEW d \in Device, Flush(d) PROVE IInv'
  BY <1>2, FlushKeeps
<1>3. CASE UNCHANGED vars
  BY <1>3, StutterKeeps
<1> QED
  BY <1>1, <1>2, <1>3 DEF Next

LEMMA Invariance == Spec => []IInv
<1>1. Init => IInv
  BY InitOK, ConstantsAssumption
<1>2. IInv /\ [Next]_vars => IInv'
  BY NextOK, ConstantsAssumption
<1> QED
  BY <1>1, <1>2, PTL DEF Spec

\* Whatever the threads bind, launch, load and reset, every state is of its type.
THEOREM TypeCorrect == Spec => []TypeOK
<1>1. IInv => TypeOK
  BY DEF IInv
<1> QED
  BY <1>1, Invariance, PTL

\* A kernel that is launched on the device it was bound on runs in a module whose
\* setup callbacks returned, for any number of threads and kernels (_Kernel.bind,
\* CudaPythonModule.initialize_once).
THEOREM AlwaysSetUp == Spec => []HomeIsSetUp
<1>1. IInv => HomeIsSetUp
  BY DEF IInv
<1> QED
  BY <1>1, Invariance, PTL

\* Teardown callbacks run before cuLibraryUnload, and no handle that a Context
\* dropped is lost (Context.reset, the finalizers of CudaPythonModule).
THEOREM AlwaysTornDown == Spec => []TornDownThenUnloaded
<1>1. IInv => TornDownThenUnloaded
  BY DEF IInv
<1> QED
  BY <1>1, Invariance, PTL

\* module_unload's assertion fails only on devices where one ObjectCode was
\* loaded by two threads at once.
THEOREM AssertionFailsOnlyOnRaces == Spec => []UnloadAssertion
<1>1. IInv => UnloadAssertion
  BY DEF IInv
<1> QED
  BY <1>1, Invariance, PTL

\* Between resets rtsys holds a module that its Context keeps, unless a failed
\* flush cut the last reset of that Context short.
THEOREM RtsysAlwaysAlive == Spec => []RtsysAlive
<1>1. ASSUME IInv PROVE RtsysAlive
  <2>1. TypeOK /\ RtsysKept
    BY <1>1 DEF IInv
  <2>2. ASSUME NoReset, NEW t \in Thread PROVE call[t].at # "flush"
    BY <2>1, <2>2, NoResetMeans DEF Resets
  <2> QED
    BY <2>1, <2>2 DEF RtsysKept, RtsysAlive
<1>2. IInv => RtsysAlive
  BY <1>1
<1> QED
  BY <1>2, Invariance, PTL
=============================================================================
