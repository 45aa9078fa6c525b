------------------------ MODULE PendingDeallocs_proofs ------------------------
(***************************************************************************)
(* What holds of the deallocation queue for any number of threads,         *)
(* resources and nested deferred blocks.                                   *)
(***************************************************************************)
EXTENDS PendingDeallocs, FiniteSetTheorems, SequenceTheorems, TLAPS

(***************************************************************************)
(* Sequences seen as sets of their elements.                               *)
(***************************************************************************)
\* The set of elements, by index.
LEMMA ToSetByIndex ==
  ASSUME NEW S, NEW s \in Seq(S)
  PROVE  /\ ToSet(s) = {s[i] : i \in 1..Len(s)}
         /\ ToSet(s) \subseteq S
<1>1. DOMAIN s = 1..Len(s)
  OBVIOUS
<1>2. ToSet(s) = {s[i] : i \in 1..Len(s)}
  BY <1>1 DEF ToSet
<1> QED BY <1>2

\* Append adds one element to the set of elements.
LEMMA ToSetAppend ==
  ASSUME NEW S, NEW s \in Seq(S), NEW e \in S
  PROVE  ToSet(Append(s, e)) = ToSet(s) \cup {e}
<1> DEFINE a == Append(s, e)
<1>1. /\ a \in Seq(S) /\ Len(a) = Len(s) + 1 /\ Len(s) \in Nat
      /\ a[Len(s) + 1] = e
      /\ \A i \in 1..Len(s) : a[i] = s[i]
  BY AppendProperties
<1>2. ToSet(a) = {a[i] : i \in 1..Len(a)} /\ ToSet(s) = {s[i] : i \in 1..Len(s)}
  BY <1>1, ToSetByIndex
<1>3. 1..Len(a) = 1..Len(s) \cup {Len(s) + 1}
  BY <1>1
<1> HIDE DEF a
<1>4. ToSet(a) = ToSet(s) \cup {e}
  BY <1>1, <1>2, <1>3
<1> QED BY <1>4 DEF a

\* Tail drops the head and keeps every other element.
LEMMA ToSetTail ==
  ASSUME NEW S, NEW s \in Seq(S), s # <<>>
  PROVE  /\ Head(s) \in ToSet(s)
         /\ Tail(s) \in Seq(S)
         /\ ToSet(s) = {Head(s)} \cup ToSet(Tail(s))
<1> DEFINE u == Tail(s)
<1>1. /\ u \in Seq(S) /\ Len(u) = Len(s) - 1 /\ Len(s) \in Nat \ {0}
      /\ Head(s) = s[1]
      /\ \A i \in 1..Len(u) : u[i] = s[i + 1]
  BY HeadTailProperties, EmptySeq
<1>2. ToSet(u) = {u[i] : i \in 1..Len(u)} /\ ToSet(s) = {s[i] : i \in 1..Len(s)}
  BY <1>1, ToSetByIndex
<1> HIDE DEF u
<1>3. ToSet(u) \subseteq ToSet(s) /\ s[1] \in ToSet(s)
  BY <1>1, <1>2
<1>4. ASSUME NEW i \in 1..Len(s), i # 1
      PROVE  s[i] \in ToSet(u)
  <2>1. i - 1 \in 1..Len(u) /\ u[i - 1] = s[i]
    BY <1>1, <1>4
  <2> QED BY <2>1, <1>2
<1>5. ToSet(s) \subseteq {s[1]} \cup ToSet(u)
  BY <1>2, <1>4
<1> QED BY <1>1, <1>3, <1>5 DEF u

(***************************************************************************)
(* Types.  A thread holds an item exactly while it accounts for it or      *)
(* destroys it, and _disable_count counts the open deferred blocks: its    *)
(* assertion _disable_count >= 0 never fails.                              *)
(***************************************************************************)
HoldsItem == \A t \in Thread : pc[t] \in {"read", "store", "dtor"} => item[t] \in Item

CountsBlocks == IsFiniteSet(open) /\ disable_count = Cardinality(open)

TypeInv == TypeOK /\ HoldsItem /\ CountsBlocks

\* The type invariant together with what makes it inductive.
LEMMA TypeInvariance == Spec => []TypeInv
<1>1. Init => TypeInv
  BY ConstantsAssumption, FS_EmptySet
  DEF Init, TypeInv, TypeOK, HoldsItem, CountsBlocks, PC
<1>2. TypeInv /\ [Next]_vars => TypeInv'
  <2> SUFFICES ASSUME TypeInv, [Next]_vars
               PROVE  TypeInv'
    OBVIOUS
  <2> USE ConstantsAssumption DEF TypeInv, TypeOK, HoldsItem, CountsBlocks, PC, Goto, Excuses
  <2>1. ASSUME NEW t \in Thread, NEW i \in Item, AddItem(t, i)
        PROVE  TypeInv'
    <3>1. cons' \in Seq(Item)
      BY <2>1, AppendProperties DEF AddItem
    <3> QED BY <2>1, <3>1 DEF AddItem
  <2>2. ASSUME NEW t \in Thread, ReadSize(t)
        PROVE  TypeInv'
    BY <2>2 DEF ReadSize
  <2>3. ASSUME NEW t \in Thread, StoreSize(t)
        PROVE  TypeInv'
    <3>1. tmp[t] + Size[item[t]] \in Nat
      BY <2>3 DEF StoreSize
    <3> QED BY <2>3, <3>1 DEF StoreSize
  <2>4. ASSUME NEW t \in Thread, TestBytes(t)
        PROVE  TypeInv'
    BY <2>4 DEF TestBytes
  <2>5. ASSUME NEW t \in Thread, CallClear(t)
        PROVE  TypeInv'
    BY <2>5 DEF CallClear
  <2>6. ASSUME NEW t \in Thread, CheckDisabled(t)
        PROVE  TypeInv'
    BY <2>6 DEF CheckDisabled
  <2>7. ASSUME NEW t \in Thread, PopLeft(t)
        PROVE  TypeInv'
    <3>1. Head(cons) \in Item /\ cons' \in Seq(Item)
      BY <2>7, HeadTailProperties DEF PopLeft
    <3> QED BY <2>7, <3>1 DEF PopLeft
  <2>8. ASSUME NEW t \in Thread, ResetSize(t)
        PROVE  TypeInv'
    BY <2>8 DEF ResetSize
  <2>9. ASSUME NEW t \in Thread, Destroy(t)
        PROVE  TypeInv'
    BY <2>9 DEF Destroy
  <2>10. ASSUME NEW t \in Thread, DestroyFails(t)
         PROVE  TypeInv'
    BY <2>10 DEF DestroyFails
  <2>11. ASSUME NEW t \in Thread, NEW b \in Block, Disable(t, b)
         PROVE  TypeInv'
    <3>1. <<t, b>> \notin open
      BY <2>11 DEF Disable
    <3>2. IsFiniteSet(open') /\ Cardinality(open') = Cardinality(open) + 1
      BY <2>11, <3>1, FS_AddElement DEF Disable
    <3> QED BY <2>11, <3>2 DEF Disable
  <2>12. ASSUME NEW t \in Thread, NEW b \in Block, Enable(t, b)
         PROVE  TypeInv'
    <3>1. IsFiniteSet(open') /\ Cardinality(open') = Cardinality(open) - 1
      BY <2>12, FS_RemoveElement DEF Enable
    <3>2. Cardinality(open') \in Nat
      BY <3>1, FS_CardinalityType
    <3> QED BY <2>12, <3>1, <3>2 DEF Enable
  <2>13. ASSUME NEW t \in Thread, TestPending(t) \/ PopFails(t)
         PROVE  TypeInv'
    BY <2>13 DEF TestPending, PopFails
  <2>14. CASE UNCHANGED vars
    BY <2>14 DEF vars
  <2> QED
    BY <2>1, <2>2, <2>3, <2>4, <2>5, <2>6, <2>7, <2>8, <2>9, <2>10,
       <2>11, <2>12, <2>13, <2>14 DEF Next, Step
<1> QED
  BY <1>1, <1>2, PTL DEF Spec

\* Every variable of the deallocation queue keeps its type.
THEOREM Typing == Spec => []TypeOK
<1>1. TypeInv => TypeOK
  BY DEF TypeInv
<1> QED
  BY <1>1, TypeInvariance, PTL

(***************************************************************************)
(* Deferral.  Inside its own block a thread finds the count positive, so   *)
(* no clear() of its own gets past the check.                              *)
(***************************************************************************)
\* The resources a thread drops inside a deferred block outlive its own calls.
THEOREM OwnBlockAlwaysDefers == Spec => []OwnBlockDefers
<1>1. Init => OwnBlockDefers
  BY DEF Init, OwnBlockDefers
<1>2. TypeInv /\ OwnBlockDefers /\ [Next]_vars => OwnBlockDefers'
  <2> SUFFICES ASSUME TypeInv, OwnBlockDefers, [Next]_vars
               PROVE  OwnBlockDefers'
    OBVIOUS
  <2> USE DEF OwnBlockDefers, TypeInv, TypeOK, Goto
  <2>1. ASSUME NEW t \in Thread, CheckDisabled(t)
        PROVE  OwnBlockDefers'
    <3>1. CASE disable_count > 0
      BY <2>1, <3>1 DEF CheckDisabled
    <3>2. CASE ~(disable_count > 0)
      <4>1. Cardinality(open) = 0 /\ IsFiniteSet(open)
        BY <3>2 DEF CountsBlocks
      <4>2. open = {}
        BY <4>1, FS_EmptySet
      <4> QED BY <2>1, <4>2 DEF CheckDisabled
    <3> QED BY <3>1, <3>2
  <2>2. ASSUME NEW t \in Thread, NEW b \in Block, Disable(t, b) \/ Enable(t, b)
        PROVE  OwnBlockDefers'
    BY <2>2 DEF Disable, Enable
  <2>3. ASSUME NEW t \in Thread, TestPending(t) \/ PopLeft(t) \/ Destroy(t)
        PROVE  OwnBlockDefers'
    BY <2>3 DEF TestPending, PopLeft, Destroy
  <2>4. ASSUME NEW t \in Thread,
               \/ \E i \in Item : AddItem(t, i)
               \/ ReadSize(t) \/ StoreSize(t) \/ TestBytes(t) \/ CallClear(t)
               \/ PopFails(t) \/ ResetSize(t) \/ DestroyFails(t)
        PROVE  OwnBlockDefers'
    BY <2>4 DEF AddItem, ReadSize, StoreSize, TestBytes, CallClear,
                PopFails, ResetSize, DestroyFails
  <2>5. CASE UNCHANGED vars
    BY <2>5 DEF vars
  <2> QED BY <2>1, <2>2, <2>3, <2>4, <2>5 DEF Next, Step
<1> QED
  BY <1>1, <1>2, TypeInvariance, PTL DEF Spec

(***************************************************************************)
(* Every resource is in exactly one place.                                 *)
(***************************************************************************)
\* A step of a thread that neither starts nor ends a destructor leaves the
\* resources in flight as they are.
LEMMA InFlightKept ==
  ASSUME NEW t \in Thread, TypeInv,
         pc[t] # "dtor", pc'[t] # "dtor",
         \A u \in Thread \ {t} : pc'[u] = pc[u] /\ item'[u] = item[u]
  PROVE  /\ InFlight' = InFlight
         /\ \A u \in Thread : pc'[u] = "dtor" => pc[u] = "dtor" /\ item'[u] = item[u]
BY DEF InFlight

\* A resource handed to the queue is destroyed at most once and never lost,
\* however many threads add, clear, fail and defer at the same time.
THEOREM AlwaysExactlyOnePlace == Spec => []ExactlyOnePlace
<1>1. Init => ExactlyOnePlace
  BY DEF Init, ExactlyOnePlace, Pending, InFlight, ToSet
<1>2. TypeInv /\ ExactlyOnePlace /\ [Next]_vars => ExactlyOnePlace'
  <2> SUFFICES ASSUME TypeInv, ExactlyOnePlace, [Next]_vars
               PROVE  ExactlyOnePlace'
    OBVIOUS
  <2> USE DEF ExactlyOnePlace, Pending, Goto
  <2>t. cons \in Seq(Item) /\ pc \in [Thread -> PC] /\ item \in [Thread -> Item \cup {NoItem}]
    BY DEF TypeInv, TypeOK
  <2>1. ASSUME NEW t \in Thread, NEW i \in Item, AddItem(t, i)
        PROVE  ExactlyOnePlace'
    <3>1. /\ cons' = Append(cons, i) /\ i \notin added
          /\ added' = added \cup {i} /\ destroyed' = destroyed
      BY <2>1 DEF AddItem
    <3>2. InFlight' = InFlight
          /\ \A u \in Thread : pc'[u] = "dtor" => pc[u] = "dtor" /\ item'[u] = item[u]
      BY <2>1, <2>t, InFlightKept DEF AddItem
    <3>3. ToSet(cons') = ToSet(cons) \cup {i}
      BY <3>1, <2>t, ToSetAppend
    <3>4. \A k, l \in 1..Len(cons') : k # l => cons'[k] # cons'[l]
      <4>1. /\ Len(cons') = Len(cons) + 1 /\ Len(cons) \in Nat
            /\ cons'[Len(cons) + 1] = i
            /\ \A k \in 1..Len(cons) : cons'[k] = cons[k]
        BY <3>1, <2>t, AppendProperties
      <4>2. \A k \in 1..Len(cons) : cons[k] # i
        BY <3>1, <2>t, ToSetByIndex
      <4> QED BY <4>1, <4>2
    <3> QED BY <3>1, <3>2, <3>3, <3>4
  <2>2. ASSUME NEW t \in Thread, PopLeft(t)
        PROVE  ExactlyOnePlace'
    <3> DEFINE h == Head(cons)
    <3>1. /\ cons # <<>> /\ cons' = Tail(cons) /\ pc[t] = "pop"
          /\ pc' = [pc EXCEPT ![t] = "dtor"] /\ item' = [item EXCEPT ![t] = h]
          /\ added' = added /\ destroyed' = destroyed
      BY <2>2 DEF PopLeft
    <3>2. h \in ToSet(cons) /\ ToSet(cons) = {h} \cup ToSet(cons')
      BY <3>1, <2>t, ToSetTail
    <3>3. /\ cons' \in Seq(Item) /\ Len(cons') = Len(cons) - 1 /\ Len(cons) \in Nat \ {0}
          /\ h = cons[1]
          /\ \A k \in 1..Len(cons') : cons'[k] = cons[k + 1]
      BY <3>1, <2>t, HeadTailProperties, EmptySeq
    <3>4. \A k, l \in 1..Len(cons') : k # l => cons'[k] # cons'[l]
      BY <3>3
    <3>5. h \notin ToSet(cons')
      <4>1. \A k \in 1..Len(cons') : cons'[k] # h
        BY <3>3
      <4> QED BY <4>1, <3>3, ToSetByIndex
    <3> HIDE DEF h
    <3>6. InFlight' = InFlight \cup {h}
      BY <3>1, <2>t DEF InFlight
    <3>7. \A u \in Thread : pc[u] = "dtor" => item[u] \in InFlight
      BY DEF InFlight
    <3>8. \A u, v \in Thread :
             pc'[u] = "dtor" /\ pc'[v] = "dtor" /\ u # v => item'[u] # item'[v]
      BY <3>1, <3>2, <3>7, <2>t
    <3> QED BY <3>1, <3>2, <3>4, <3>5, <3>6, <3>8
  <2>3. ASSUME NEW t \in Thread, Destroy(t) \/ DestroyFails(t)
        PROVE  ExactlyOnePlace'
    <3>1. /\ cons' = cons /\ added' = added /\ pc[t] = "dtor" /\ pc'[t] # "dtor"
          /\ destroyed' = destroyed \cup {item[t]}
          /\ \A u \in Thread \ {t} : pc'[u] = pc[u] /\ item'[u] = item[u]
      BY <2>3, <2>t DEF Destroy, DestroyFails
    <3>2. InFlight' = InFlight \ {item[t]} /\ item[t] \in InFlight
      BY <3>1 DEF InFlight
    <3> QED BY <3>1, <3>2
  <2>4. ASSUME NEW t \in Thread,
               \/ ReadSize(t) \/ StoreSize(t) \/ TestBytes(t) \/ CallClear(t)
               \/ CheckDisabled(t) \/ ResetSize(t)
               \/ TestPending(t) \/ PopFails(t)
               \/ \E b \in Block : Disable(t, b) \/ Enable(t, b)
        PROVE  ExactlyOnePlace'
    <3>1. /\ cons' = cons /\ added' = added /\ destroyed' = destroyed
          /\ pc[t] # "dtor" /\ pc'[t] # "dtor"
          /\ \A u \in Thread \ {t} : pc'[u] = pc[u] /\ item'[u] = item[u]
      BY <2>4, <2>t DEF ReadSize, StoreSize, TestBytes, CallClear,
                        CheckDisabled, ResetSize, TestPending, PopFails,
                        Disable, Enable
    <3> QED BY <3>1, InFlightKept
  <2>5. CASE UNCHANGED vars
    BY <2>5 DEF vars, InFlight
  <2> QED BY <2>1, <2>2, <2>3, <2>4, <2>5 DEF Next, Step
<1> QED
  BY <1>1, <1>2, TypeInvariance, PTL DEF Spec

(***************************************************************************)
(* The queue implements Disposal: ExactlyOnePlace says that nothing leaves *)
(* the queue but to be destroyed, and OwnBlockDefers that a thread         *)
(* destroys nothing in its own block.                                      *)
(***************************************************************************)
\* Whatever step a thread takes, the resources handed over and those destroyed
\* only grow, and a thread destroys nothing unless it is about to.
LEMMA StepEffect ==
  ASSUME TypeInv, NEW t \in Thread, Step(t)
  PROVE  /\ added \subseteq added' /\ destroyed \subseteq destroyed'
         /\ pc[t] # "dtor" => destroyed' = destroyed
         /\ \/ open' = open
            \/ \E b \in Block : /\ Disable(t, b) \/ Enable(t, b)
                               /\ UNCHANGED <<cons, pc, item, added, destroyed>>
BY DEF Step, AddItem, ReadSize, StoreSize, TestBytes, CallClear, CheckDisabled, TestPending,
       PopLeft, PopFails, ResetSize, Destroy, DestroyFails, Disable, Enable

\* To those who hand resources to it, the queue of any number of threads,
\* resources and blocks keeps the promises of Disposal.
THEOREM Implements == Spec => Disposes
<1> DEFINE deferring == {t \in Thread : \E b \in Block : <<t, b>> \in open}
<1>1. Init => Queue!Init
  BY DEF Init, Queue!Init, Pending, InFlight, ToSet
<1>2. ASSUME TypeInv, TypeInv', OwnBlockDefers, ExactlyOnePlace, ExactlyOnePlace', [Next]_vars
      PROVE  [Queue!Next]_(Queue!vars)
  <2>1. ASSUME NEW t \in Thread, Step(t)
        PROVE  Queue!Next
    <3>1. CASE open' = open
      <4>1. /\ Pending' \cup InFlight' \in SUBSET Item /\ destroyed' \in SUBSET Item
            /\ (Pending' \cup InFlight') \cap destroyed' = {}
        BY <1>2, ToSetByIndex DEF TypeInv, TypeOK, HoldsItem, ExactlyOnePlace, Pending, InFlight
      <4>2. destroyed \subseteq destroyed'
        BY <1>2, <2>1, StepEffect
      <4>3. Pending \cup InFlight \subseteq Pending' \cup InFlight' \cup destroyed'
        BY <1>2, <2>1, StepEffect DEF ExactlyOnePlace
      <4>4. t \in deferring => destroyed' = destroyed
        BY <1>2, <2>1, StepEffect DEF OwnBlockDefers
      <4>5. deferring' = deferring
        BY <3>1
      <4>6. Queue!Dispose(t)
        BY <4>1, <4>2, <4>3, <4>4, <4>5 DEF Queue!Dispose
      <4> QED
        BY <4>6 DEF Queue!Next
    <3>2. CASE open' # open
      <4>1. PICK b \in Block : /\ Disable(t, b) \/ Enable(t, b)
                               /\ UNCHANGED <<cons, pc, item, destroyed>>
        BY <1>2, <2>1, <3>2, StepEffect
      <4>2. UNCHANGED <<Pending, InFlight, destroyed>>
        BY <4>1 DEF Pending, InFlight
      <4>3. CASE Disable(t, b)
        <5>1. deferring' = deferring \cup {t}
          BY <4>3 DEF Disable
        <5> QED
          BY <4>2, <5>1 DEF Queue!Next, Queue!Defer
      <4>4. CASE Enable(t, b) /\ t \notin deferring'
        <5>1. deferring' = deferring \ {t}
          BY <4>4 DEF Enable
        <5> QED
          BY <4>2, <5>1 DEF Queue!Next, Queue!Resume
      <4>5. CASE Enable(t, b) /\ t \in deferring'
        <5>1. deferring' = deferring \cup {t}
          BY <4>5 DEF Enable
        <5> QED
          BY <4>2, <5>1 DEF Queue!Next, Queue!Defer
      <4> QED
        BY <4>1, <4>3, <4>4, <4>5
    <3> QED
      BY <3>1, <3>2
  <2>2. CASE UNCHANGED vars
    BY <2>2 DEF vars, Queue!vars, Pending, InFlight
  <2> QED
    BY <1>2, <2>1, <2>2 DEF Next
<1> QED
  BY <1>1, <1>2, TypeInvariance, OwnBlockAlwaysDefers, AlwaysExactlyOnePlace, PTL
     DEF Spec, Disposes, Queue!Spec
(***************************************************************************)
(* Bytes.                                                                  *)
(***************************************************************************)
BytesOf(S) == UNION {{i} \X (1..Size[i]) : i \in S}

\* A resource has as many bytes as its size says.
LEMMA OwnBytes ==
  ASSUME NEW i \in Item
  PROVE  /\ IsFiniteSet({i} \X (1..Size[i])) /\ Size[i] \in Nat
         /\ Cardinality({i} \X (1..Size[i])) = Size[i]
<1>1. Size[i] \in Nat
  BY ConstantsAssumption
<1>2. IsFiniteSet({i}) /\ Cardinality({i}) = 1
  BY FS_Singleton
<1>3. IsFiniteSet(1..Size[i]) /\ Cardinality(1..Size[i]) = Size[i]
  <2>1. ASSUME NEW n \in Nat PROVE IsFiniteSet(1..n) /\ Cardinality(1..n) = n
    BY FS_Interval
  <2> QED
    BY <1>1, <2>1
<1>4. /\ IsFiniteSet({i} \X (1..Size[i]))
      /\ Cardinality({i} \X (1..Size[i])) = Cardinality({i}) * Cardinality(1..Size[i])
  BY <1>2, <1>3, FS_Product
<1> QED
  BY <1>1, <1>2, <1>3, <1>4

\* Finitely many resources have finitely many bytes.
LEMMA BytesAreFinite ==
  ASSUME NEW S \in SUBSET Item, IsFiniteSet(S)
  PROVE  IsFiniteSet(BytesOf(S)) /\ Bytes(S) = Cardinality(BytesOf(S)) /\ Bytes(S) \in Nat
<1> DEFINE f == [i \in S |-> {i} \X (1..Size[i])]
           T == {{i} \X (1..Size[i]) : i \in S}
<1>1. f \in Surjection(S, T)
  BY DEF Surjection
<1>2. IsFiniteSet(T)
  BY <1>1, FS_Surjection
<1>3. ASSUME NEW i \in S
      PROVE  IsFiniteSet({i} \X (1..Size[i]))
  BY OwnBytes
<1>4. IsFiniteSet(UNION T)
  BY <1>2, <1>3, FS_UNION
<1> QED
  BY <1>4, FS_CardinalityType DEF BytesOf, Bytes

\* More resources have no fewer bytes.
LEMMA BytesMonotonic ==
  ASSUME NEW S \in SUBSET Item, IsFiniteSet(S), NEW T \in SUBSET S
  PROVE  Bytes(T) <= Bytes(S)
<1>1. IsFiniteSet(T)
  BY FS_Subset
<1>2. BytesOf(T) \subseteq BytesOf(S)
  BY DEF BytesOf
<1> QED
  BY <1>1, <1>2, BytesAreFinite, FS_Subset

\* One resource more has at most its own bytes more.
LEMMA BytesAdd ==
  ASSUME NEW S \in SUBSET Item, IsFiniteSet(S), NEW i \in Item
  PROVE  Bytes(S \cup {i}) <= Bytes(S) + Size[i]
<1> DEFINE one == {i} \X (1..Size[i])
<1>1. IsFiniteSet(S \cup {i})
  BY FS_AddElement
<1>2. IsFiniteSet(one) /\ Cardinality(one) = Size[i] /\ Size[i] \in Nat
  BY OwnBytes
<1>3. BytesOf(S \cup {i}) = BytesOf(S) \cup one
  BY DEF BytesOf
<1> HIDE DEF one
<1>4. /\ Cardinality(BytesOf(S) \cup one)
           = Cardinality(BytesOf(S)) + Cardinality(one) - Cardinality(BytesOf(S) \cap one)
      /\ Cardinality(BytesOf(S) \cap one) \in Nat
  BY <1>2, BytesAreFinite, FS_Union, FS_Intersection, FS_CardinalityType
<1>5. /\ Bytes(S) = Cardinality(BytesOf(S)) /\ Bytes(S) \in Nat
      /\ Bytes(S \cup {i}) = Cardinality(BytesOf(S \cup {i}))
  BY <1>1, BytesAreFinite
<1>6. Bytes(S \cup {i}) = Bytes(S) + Size[i] - Cardinality(BytesOf(S) \cap one)
  BY <1>2, <1>3, <1>4, <1>5
<1>7. Size[i] \in Nat
  BY <1>2
<1> QED
  BY <1>4, <1>5, <1>6, <1>7

\* The deque holds finitely many resources.
LEMMA PendingFinite ==
  ASSUME TypeOK
  PROVE  IsFiniteSet(Pending) /\ Pending \subseteq Item
<1>1. cons \in Seq(Item) /\ ToSet(cons) = {cons[k] : k \in 1..Len(cons)} /\ ToSet(cons) \subseteq Item
  BY ToSetByIndex DEF TypeOK
<1>2. cons \in Surjection(1..Len(cons), ToSet(cons))
  BY <1>1 DEF Surjection
<1>3. IsFiniteSet(1..Len(cons))
  BY <1>1, FS_Interval
<1> QED
  BY <1>1, <1>2, <1>3, FS_Surjection DEF Pending

(***************************************************************************)
(* Accounting.  A thread between its append and its store has not added    *)
(* its item yet; what else is pending is in _size, and in the value of     *)
(* _size that a thread about to store has read.                            *)
(***************************************************************************)
Adding == {item[t] : t \in {u \in Thread : pc[u] \in {"read", "store"}}}

Counted == Pending \ Adding

Accounted ==
  "overlap" \notin excuse =>
     /\ \A t, u \in Thread : pc[t] = "store" /\ pc[u] = "store" => t = u
     /\ size >= Bytes(Counted)
     /\ \A t \in Thread : pc[t] = "store" => tmp[t] >= Bytes(Counted)

\* A step that counts no new resource leaves the accounting sound.
LEMMA CountedShrinks ==
  ASSUME TypeInv, Accounted, Counted' \subseteq Counted,
         "overlap" \in excuse => "overlap" \in excuse',
         "overlap" \notin excuse' =>
            /\ size' = size \/ (size' = 0 /\ Counted' = {})
            /\ \A t, u \in Thread : pc'[t] = "store" /\ pc'[u] = "store" => t = u
            /\ \A t \in Thread : pc'[t] = "store" =>
                  (pc[t] = "store" /\ tmp'[t] = tmp[t]) \/ tmp'[t] = size
  PROVE  Accounted'
<1> SUFFICES ASSUME "overlap" \notin excuse'
             PROVE  /\ \A t, u \in Thread : pc'[t] = "store" /\ pc'[u] = "store" => t = u
                    /\ size' >= Bytes(Counted)'
                    /\ \A t \in Thread : pc'[t] = "store" => tmp'[t] >= Bytes(Counted)'
  BY DEF Accounted
<1>0. Bytes(Counted)' = Bytes(Counted')
  BY DEF Bytes
<1>1. IsFiniteSet(Counted) /\ Counted \in SUBSET Item
  BY PendingFinite, FS_Subset DEF TypeInv, Counted
<1>2. /\ Bytes(Counted') <= Bytes(Counted) /\ Bytes(Counted) \in Nat /\ Bytes(Counted') \in Nat
  BY <1>1, FS_Subset, BytesMonotonic, BytesAreFinite
<1>3. Counted' = {} => Bytes(Counted') = 0
  <2>1. BytesOf({}) = {}
    BY DEF BytesOf
  <2> QED BY <2>1, FS_EmptySet, BytesAreFinite
<1>4. size \in Nat /\ tmp \in [Thread -> Nat]
  BY DEF TypeInv, TypeOK
<1>5. /\ size >= Bytes(Counted)
      /\ \A t \in Thread : pc[t] = "store" => tmp[t] >= Bytes(Counted)
  BY DEF Accounted
<1> HIDE DEF Counted
<1> QED
  BY <1>0, <1>2, <1>3, <1>4, <1>5
\* The accounting holds of every reachable state: only an overlap of two "+="
\* loses bytes.
LEMMA AlwaysAccounted == Spec => []Accounted
<1>1. Init => Accounted
  <2> SUFFICES ASSUME Init
               PROVE  Accounted
    OBVIOUS
  <2>1. Counted = {}
    BY DEF Init, Counted, Pending, ToSet
  <2>2. BytesOf({}) = {}
    BY DEF BytesOf
  <2>3. Bytes(Counted) = 0
    BY <2>1, <2>2, FS_EmptySet, BytesAreFinite
  <2> QED
    BY <2>3 DEF Init, Accounted
<1>2. TypeInv /\ TypeInv' /\ Accounted /\ [Next]_vars => Accounted'
  <2> SUFFICES ASSUME TypeInv, TypeInv', Accounted, [Next]_vars
               PROVE  Accounted'
    OBVIOUS
  <2>t. /\ cons \in Seq(Item) /\ pc \in [Thread -> PC] /\ item \in [Thread -> Item \cup {NoItem}]
        /\ tmp \in [Thread -> Nat]
    BY DEF TypeInv, TypeOK
  <2>1. ASSUME NEW t \in Thread, NEW i \in Item, AddItem(t, i)
        PROVE  Accounted'
    <3>1. /\ cons' = Append(cons, i) /\ pc[t] = "idle"
          /\ pc' = [pc EXCEPT ![t] = "read"] /\ item' = [item EXCEPT ![t] = i]
          /\ "overlap" \in excuse' <=> "overlap" \in excuse
          /\ UNCHANGED <<size, tmp>>
      BY <2>1 DEF AddItem, Goto
    <3>2. Pending' = Pending \cup {i}
      BY <3>1, <2>t, ToSetAppend DEF Pending
    <3>3. Adding' = Adding \cup {i}
      BY <3>1, <2>t DEF Adding
    <3>4. Counted' \subseteq Counted
      BY <3>2, <3>3 DEF Counted
    <3>5. \A u \in Thread : pc'[u] = "store" => pc[u] = "store"
      BY <3>1, <2>t
    <3> QED
      BY <3>1, <3>4, <3>5, CountedShrinks DEF Accounted
  <2>2. ASSUME NEW t \in Thread, ReadSize(t)
        PROVE  Accounted'
    <3>1. /\ pc[t] = "read" /\ pc' = [pc EXCEPT ![t] = "store"]
          /\ tmp' = [tmp EXCEPT ![t] = size] /\ UNCHANGED <<cons, size, item>>
          /\ excuse \subseteq excuse'
          /\ "overlap" \notin excuse' => \A u \in Thread : pc[u] # "store"
      BY <2>2 DEF ReadSize, Goto
    <3>2. Adding' = Adding
      BY <3>1, <2>t DEF Adding
    <3>3. Counted' = Counted
      BY <3>1, <3>2 DEF Counted, Pending
    <3>4. \A u \in Thread : pc'[u] = "store" => (pc[u] = "store" /\ tmp'[u] = tmp[u]) \/ tmp'[u] = size
      BY <3>1, <2>t
    <3>5. "overlap" \notin excuse' =>
             \A u, v \in Thread : pc'[u] = "store" /\ pc'[v] = "store" => u = v
      BY <3>1, <2>t
    <3> QED
      BY <3>1, <3>3, <3>4, <3>5, CountedShrinks
  <2>3. ASSUME NEW t \in Thread, StoreSize(t)
        PROVE  Accounted'
    <3> SUFFICES ASSUME "overlap" \notin excuse'
                 PROVE  Accounted'
      BY DEF Accounted
    <3>1. /\ pc[t] = "store" /\ pc'[t] \in {"check", "test"}
          /\ \A u \in Thread \ {t} : pc'[u] = pc[u] /\ item'[u] = item[u]
          /\ size' = tmp[t] + Size[item[t]] /\ UNCHANGED <<cons, excuse>>
      BY <2>3, <2>t DEF StoreSize, Goto
    <3>2. \A u \in Thread : pc'[u] # "store"
      BY <3>1 DEF Accounted
    <3>3. Adding \subseteq Adding' \cup {item[t]}
      BY <3>1 DEF Adding
    <3>4. Counted' \subseteq Counted \cup {item[t]}
      BY <3>1, <3>3 DEF Counted, Pending
    <3>5. item[t] \in Item /\ Size[item[t]] \in Nat
      BY <3>1, ConstantsAssumption DEF TypeInv, HoldsItem
    <3>6. IsFiniteSet(Counted) /\ Counted \in SUBSET Item
      BY PendingFinite, FS_Subset DEF TypeInv, Counted
    <3>7. IsFiniteSet(Counted \cup {item[t]}) /\ Counted \cup {item[t]} \in SUBSET Item
      BY <3>5, <3>6, FS_AddElement
    <3>8. Bytes(Counted') <= Bytes(Counted \cup {item[t]})
      BY <3>4, <3>7, BytesMonotonic
    <3>9. Bytes(Counted \cup {item[t]}) <= Bytes(Counted) + Size[item[t]]
      BY <3>5, <3>6, BytesAdd
    <3>10. tmp[t] >= Bytes(Counted) /\ tmp[t] \in Nat
      BY <3>1, <2>t DEF Accounted
    <3>11. Bytes(Counted') \in Nat /\ Bytes(Counted) \in Nat /\ Bytes(Counted \cup {item[t]}) \in Nat
      BY <3>4, <3>6, <3>7, FS_Subset, BytesAreFinite
    <3>12. size' >= Bytes(Counted')
      BY <3>1, <3>5, <3>8, <3>9, <3>10, <3>11
    <3>13. Bytes(Counted)' = Bytes(Counted')
      BY DEF Bytes
    <3> QED
      BY <3>2, <3>12, <3>13 DEF Accounted
  <2>4. ASSUME NEW t \in Thread, PopLeft(t)
        PROVE  Accounted'
    <3>1. /\ cons # <<>> /\ cons' = Tail(cons) /\ pc[t] = "pop"
          /\ pc' = [pc EXCEPT ![t] = "dtor"] /\ item' = [item EXCEPT ![t] = Head(cons)]
          /\ UNCHANGED <<size, tmp, excuse>>
      BY <2>4 DEF PopLeft, Goto
    <3>2. Pending' \subseteq Pending
      BY <3>1, <2>t, ToSetTail DEF Pending
    <3>3. Adding' = Adding
      BY <3>1, <2>t DEF Adding
    <3>4. Counted' \subseteq Counted
      BY <3>2, <3>3 DEF Counted
    <3>5. \A u \in Thread : pc'[u] = "store" => pc[u] = "store"
      BY <3>1, <2>t
    <3> QED
      BY <3>1, <3>4, <3>5, CountedShrinks DEF Accounted
  <2>5. ASSUME NEW t \in Thread, ResetSize(t)
        PROVE  Accounted'
    <3>1. /\ cons = <<>> /\ cons' = cons /\ pc[t] = "loop" /\ size' = 0
          /\ pc' = [pc EXCEPT ![t] = "idle"] /\ UNCHANGED <<tmp, item, excuse>>
      BY <2>5 DEF ResetSize, Goto
    <3>2. Counted' = {}
      BY <3>1 DEF Counted, Pending, ToSet
    <3>3. \A u \in Thread : pc'[u] = "store" => pc[u] = "store"
      BY <3>1, <2>t
    <3> QED
      BY <3>1, <3>2, <3>3, CountedShrinks DEF Accounted
  <2>6. ASSUME NEW t \in Thread,
               \/ TestBytes(t) \/ CallClear(t) \/ CheckDisabled(t) \/ TestPending(t)
               \/ PopFails(t) \/ Destroy(t) \/ DestroyFails(t)
               \/ \E b \in Block : Disable(t, b) \/ Enable(t, b)
        PROVE  Accounted'
    <3>1. /\ UNCHANGED <<cons, size, tmp>> /\ excuse \subseteq excuse'
          /\ pc[t] \notin {"read", "store"} /\ pc'[t] \notin {"read", "store"}
          /\ \A u \in Thread \ {t} : pc'[u] = pc[u] /\ item'[u] = item[u]
      BY <2>6, <2>t DEF TestBytes, CallClear, CheckDisabled, TestPending, PopFails,
                        Destroy, DestroyFails, Disable, Enable, Goto
    <3>2. Adding' = Adding
      BY <3>1 DEF Adding
    <3>3. Counted' = Counted
      BY <3>1, <3>2 DEF Counted, Pending
    <3>4. \A u \in Thread : pc'[u] = "store" => pc[u] = "store"
      BY <3>1
    <3> QED
      BY <3>1, <3>3, <3>4, CountedShrinks DEF Accounted
  <2>7. CASE UNCHANGED vars
    BY <2>7 DEF vars, Accounted, Counted, Adding, Pending, Bytes
  <2> QED
    BY <2>1, <2>2, <2>3, <2>4, <2>5, <2>6, <2>7 DEF Next, Step
<1> QED
  BY <1>1, <1>2, TypeInvariance, PTL DEF Spec

\* When no thread is in the middle of add_item, everything pending is counted.
LEMMA NothingAdding ==
  ASSUME TypeInv, Accounted, "overlap" \notin excuse,
         \A t \in Thread : pc[t] \notin {"read", "store"}
  PROVE  size >= PendingBytes
<1>1. Counted = Pending
  BY DEF Counted, Adding
<1> QED
  BY <1>1 DEF Accounted, PendingBytes

\* _size never undercounts what waits between calls, for any number of threads,
\* sizes and limits, however flushes are interrupted by exceptions.
THEOREM NeverUndercounted == Spec => []NeverUndercounts
<1>1. TypeInv /\ Accounted => NeverUndercounts
  BY NothingAdding DEF NeverUndercounts
<1> QED
  BY <1>1, TypeInvariance, AlwaysAccounted, PTL

(***************************************************************************)
(* Limits.  As long as nothing excuses it, a queue over its limit has a    *)
(* thread at work on it: one that counts and will see the excess, or one   *)
(* that flushes and does not stop before the deque is empty.               *)
(***************************************************************************)
Busy == {"read", "store", "check", "loop", "pop", "dtor"}

Attended ==
  excuse = {} =>
     /\ Len(cons) > Count => \E t \in Thread : pc[t] \in Busy
     /\ PendingBytes > MaxBytes => \E t \in Thread : pc[t] \in Busy \cup {"test"}
\* A step that adds nothing to the deque and after which its thread is still at
\* work, or after which every thread that was at work still is.
LEMMA AttendanceKept ==
  ASSUME TypeInv, TypeInv', Attended, NEW t \in Thread,
         excuse \subseteq excuse',
         Pending' \subseteq Pending, Len(cons') <= Len(cons),
         \A u \in Thread \ {t} : pc'[u] = pc[u],
         \/ pc'[t] \in Busy
         \/ pc[t] \notin Busy \cup {"test"}
         \/ excuse' # {}
         \/ cons' = <<>>
  PROVE  Attended'
<1> SUFFICES ASSUME excuse' = {}
             PROVE  /\ Len(cons') > Count => \E u \in Thread : pc'[u] \in Busy
                    /\ PendingBytes' > MaxBytes => \E u \in Thread : pc'[u] \in Busy \cup {"test"}
  BY DEF Attended
<1>1. /\ Bytes(Pending') <= Bytes(Pending) /\ Bytes(Pending) \in Nat /\ Bytes(Pending') \in Nat
      /\ PendingBytes' = Bytes(Pending')
  BY PendingFinite, FS_Subset, BytesMonotonic, BytesAreFinite DEF TypeInv, PendingBytes, Bytes
<1>2. Len(cons) \in Nat /\ Len(cons') \in Nat /\ Count \in Nat /\ MaxBytes \in Nat
  BY ConstantsAssumption DEF TypeInv, TypeOK
<1>3. CASE pc'[t] \in Busy
  BY <1>3
<1>4. CASE pc[t] \notin Busy \cup {"test"}
  <2>1. Len(cons) > Count => \E u \in Thread : pc[u] \in Busy
    BY DEF Attended
  <2>2. Bytes(Pending) > MaxBytes => \E u \in Thread : pc[u] \in Busy \cup {"test"}
    BY DEF Attended, PendingBytes
  <2> QED BY <1>1, <1>2, <1>4, <2>1, <2>2
<1>5. CASE cons' = <<>>
  <2>1. Pending' = {} /\ Len(cons') = 0
    BY <1>5 DEF Pending, ToSet
  <2>2. BytesOf({}) = {}
    BY DEF BytesOf
  <2>3. Bytes(Pending') = 0
    BY <2>1, <2>2, FS_EmptySet, BytesAreFinite
  <2> QED BY <1>1, <1>2, <2>1, <2>3
<1> QED
  BY <1>3, <1>4, <1>5

\* Somebody sees to every queue over its limits.
LEMMA AlwaysAttended == Spec => []Attended
<1>1. Init => Attended
  <2> SUFFICES ASSUME Init
               PROVE  Attended
    OBVIOUS
  <2>1. Pending = {} /\ Len(cons) = 0
    BY DEF Init, Pending, ToSet
  <2>2. BytesOf({}) = {}
    BY DEF BytesOf
  <2>3. PendingBytes = 0
    BY <2>1, <2>2, FS_EmptySet, BytesAreFinite DEF PendingBytes
  <2> QED
    BY <2>1, <2>3, ConstantsAssumption DEF Attended
<1>2. /\ TypeInv /\ TypeInv' /\ Accounted /\ Accounted' /\ Attended
      /\ [Next]_vars
      => Attended'
  <2> SUFFICES ASSUME TypeInv, TypeInv', Accounted, Accounted', Attended, [Next]_vars
               PROVE  Attended'
    OBVIOUS
  <2> USE DEF Goto
  <2>t. /\ cons \in Seq(Item) /\ pc \in [Thread -> PC] /\ Len(cons) \in Nat
        /\ Count \in Nat /\ MaxBytes \in Nat /\ size \in Nat /\ PendingBytes \in Nat
    BY ConstantsAssumption, PendingFinite, BytesAreFinite DEF TypeInv, TypeOK, PendingBytes
  <2>1. ASSUME NEW t \in Thread, NEW i \in Item, AddItem(t, i)
        PROVE  Attended'
    <3>1. pc'[t] \in Busy
      BY <2>1, <2>t DEF AddItem, Busy
    <3> QED
      BY <3>1 DEF Attended
  <2>2. ASSUME NEW t \in Thread, ReadSize(t)
        PROVE  Attended'
    <3>1. pc'[t] \in Busy
      BY <2>2, <2>t DEF ReadSize, Busy
    <3> QED
      BY <3>1 DEF Attended
  <2>3. ASSUME NEW t \in Thread, StoreSize(t)
        PROVE  Attended'
    <3>1. /\ pc[t] = "store" /\ UNCHANGED <<cons, excuse>>
          /\ pc' = [pc EXCEPT ![t] = IF Len(cons) > Count THEN "check" ELSE "test"]
      BY <2>3 DEF StoreSize
    <3>2. CASE \E u \in Thread : pc'[u] \in Busy
      BY <3>2 DEF Attended
    <3>3. CASE ~ \E u \in Thread : pc'[u] \in Busy
      <4>1. ~(Len(cons) > Count) /\ pc'[t] = "test"
        BY <3>1, <3>3, <2>t DEF Busy
      <4> QED
        BY <3>1, <4>1 DEF Attended
    <3> QED
      BY <3>2, <3>3
  <2>4. ASSUME NEW t \in Thread, TestBytes(t)
        PROVE  Attended'
    <3>1. /\ pc[t] = "test" /\ UNCHANGED <<cons, size, excuse>>
          /\ pc' = [pc EXCEPT ![t] = IF size > MaxBytes THEN "check" ELSE "idle"]
      BY <2>4 DEF TestBytes
    <3>2. PendingBytes' = PendingBytes
      BY <3>1 DEF PendingBytes, Pending, Bytes
    <3>3. \A u \in Thread : pc[u] \in Busy => pc'[u] \in Busy
      BY <3>1, <2>t DEF Busy
    <3>4. ASSUME excuse' = {}, PendingBytes' > MaxBytes
          PROVE  \E u \in Thread : pc'[u] \in Busy
      <4>1. CASE \E u \in Thread : pc[u] \in Busy
        BY <3>3, <4>1
      <4>2. CASE ~ \E u \in Thread : pc[u] \in Busy
        <5>1. size >= PendingBytes
          BY <3>1, <3>4, <4>2, NothingAdding DEF Busy
        <5>2. size > MaxBytes
          BY <3>2, <3>4, <5>1, <2>t
        <5> QED
          BY <3>1, <5>2, <2>t DEF Busy
      <4> QED
        BY <4>1, <4>2
    <3> QED
      BY <3>1, <3>3, <3>4 DEF Attended
  <2>5. ASSUME NEW t \in Thread, PopLeft(t)
        PROVE  Attended'
    <3>1. /\ cons # <<>> /\ cons' = Tail(cons) /\ pc' = [pc EXCEPT ![t] = "dtor"]
          /\ excuse' = excuse
      BY <2>5 DEF PopLeft
    <3>2. Pending' \subseteq Pending /\ Len(cons') <= Len(cons)
      BY <3>1, <2>t, ToSetTail, HeadTailProperties DEF Pending
    <3>3. pc'[t] \in Busy /\ \A u \in Thread \ {t} : pc'[u] = pc[u]
      BY <3>1, <2>t DEF Busy
    <3> QED
      BY <3>1, <3>2, <3>3, AttendanceKept
  <2>6. ASSUME NEW t \in Thread,
               \/ CallClear(t) \/ CheckDisabled(t) \/ TestPending(t) \/ PopFails(t)
               \/ ResetSize(t) \/ Destroy(t) \/ DestroyFails(t)
               \/ \E b \in Block : Disable(t, b) \/ Enable(t, b)
        PROVE  Attended'
    <3>1. /\ cons' = cons /\ excuse \subseteq excuse'
          /\ \A u \in Thread \ {t} : pc'[u] = pc[u]
          /\ \/ pc'[t] \in Busy
             \/ pc[t] \notin Busy \cup {"test"}
             \/ excuse' # {}
             \/ cons' = <<>>
      BY <2>6, <2>t DEF CallClear, CheckDisabled, TestPending, PopFails, ResetSize, Destroy,
                        DestroyFails, Disable, Enable, Busy
    <3>2. Pending' \subseteq Pending /\ Len(cons') <= Len(cons)
      BY <3>1, <2>t DEF Pending
    <3> QED
      BY <3>1, <3>2, AttendanceKept
  <2>7. CASE UNCHANGED vars
    BY <2>7 DEF vars, Attended, PendingBytes, Pending, Bytes
  <2> QED
    BY <2>1, <2>2, <2>3, <2>4, <2>5, <2>6, <2>7 DEF Next, Step
<1> QED
  BY <1>1, <1>2, TypeInvariance, AlwaysAccounted, PTL DEF Spec

\* Between calls the deque is within both limits, for any threads, sizes and
\* limits, unless after the last append a flush was refused or a destructor
\* raised, or two "+=" ever overlapped.
THEOREM AlwaysQuietWithinLimits == Spec => []QuietWithinLimits
<1>1. TypeInv /\ Attended => QuietWithinLimits
  <2> SUFFICES ASSUME TypeInv, Attended, \A t \in Thread : pc[t] = "idle", excuse = {}
               PROVE  Len(cons) <= Count /\ PendingBytes <= MaxBytes
    BY DEF QuietWithinLimits
  <2>1. ~(Len(cons) > Count) /\ ~(PendingBytes > MaxBytes)
    BY DEF Attended, Busy
  <2>2. Len(cons) \in Nat /\ Count \in Nat /\ MaxBytes \in Nat /\ PendingBytes \in Nat
    BY ConstantsAssumption, PendingFinite, BytesAreFinite DEF TypeInv, TypeOK, PendingBytes
  <2> QED
    BY <2>1, <2>2
<1> QED
  BY <1>1, TypeInvariance, AlwaysAttended, PTL
=============================================================================
