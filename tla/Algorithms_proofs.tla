-------------------------- MODULE Algorithms_proofs --------------------------
(***************************************************************************)
(* What holds of the algorithms in whatever order they go on.  The flow    *)
(* graph: the depth-first walk finds the edges into dominators, the        *)
(* post-order is topological, the todo-list algorithm keeps its assertion  *)
(* and ends in the largest solution, which is what paths say of dominance; *)
(* immediate dominators, frontiers, post-dominators and loops are right.   *)
(* cuda.reduce: no two threads of a block race for a cell of shared        *)
(* memory, and the result has each element of the array and the initial    *)
(* value once, for every warp size, every grid and every array.            *)
(***************************************************************************)
EXTENDS ControlFlow, Reduction, FiniteSetTheorems, SequenceTheorems,
        WellFoundedInduction, TLAPS

\* The todo-list algorithm by itself, on any tables: Dominators has these
\* variables beside nodes, doms and todo.
VARIABLES entries, preds, succs

Dom == INSTANCE Dominators

-----------------------------------------------------------------------------
(* What paths reach.                                                       *)

\* A set that has 0, and a number more with every number, has them all.
LEMMA AllNumbers ==
    ASSUME NEW S \in SUBSET Nat, 0 \in S, \A n \in S : n + 1 \in S
    PROVE  S = Nat
<1> DEFINE T == Nat \ S
<1> SUFFICES ASSUME T # {} PROVE FALSE
  OBVIOUS
<1>1. PICK m \in T : \A k \in T : <<k, m>> \notin OpToRel(<, Nat)
  BY NatLessThanWellFounded, WFMin
<1>2. m \notin S /\ m # 0 /\ m \in Nat /\ m - 1 \in Nat
  <2>1. m \in T
    OBVIOUS
  <2> QED
    BY <2>1
<1>3. m - 1 \notin T
  <2>1. <<m - 1, m>> \in Nat \X Nat /\ m - 1 < m
    BY <1>2
  <2>2. <<m - 1, m>> \in OpToRel(<, Nat)
    BY <2>1 DEF OpToRel
  <2> QED
    BY <1>1, <2>2
<1>4. (m - 1) + 1 \in S
  BY <1>2, <1>3
<1> QED
  BY <1>2, <1>4

\* A set of numbers has a least one.
LEMMA LeastNumber ==
    ASSUME NEW S \in SUBSET Nat, S # {}
    PROVE  \E m \in S : \A k \in S : m <= k
<1>1. PICK m \in S : \A k \in S : <<k, m>> \notin OpToRel(<, Nat)
  BY NatLessThanWellFounded, WFMin
<1>2. ASSUME NEW k \in S PROVE m <= k
  <2>1. ~(k < m)
    BY <1>1 DEF OpToRel
  <2>2. k \in Nat /\ m \in Nat
    OBVIOUS
  <2> QED
    BY <2>1, <2>2
<1> QED
  BY <1>2

LEMMA AheadMembers ==
    ASSUME NEW g, NEW avoid, NEW R, NEW x
    PROVE  x \in Further(g, avoid, R) <=> x \in R \/ (x \notin avoid /\ \E n \in R : x \in g[n])
<1>1. ASSUME NEW n \in R, x \in g[n] PROVE x \in UNION {g[m] : m \in R}
  <2>1. g[n] \in {g[m] : m \in R}
    OBVIOUS
  <2> QED
    BY <1>1, <2>1
<1>2. ASSUME x \in UNION {g[n] : n \in R} PROVE \E n \in R : x \in g[n]
  <2>1. PICK G \in {g[n] : n \in R} : x \in G
    BY <1>2
  <2> QED
    BY <2>1
<1>3. x \in Leads(g, R) <=> \E n \in R : x \in g[n]
  BY <1>1, <1>2 DEF Leads
<1> QED
  BY <1>3 DEF Further

\* f lists what is reached in 0, 1, ... n steps.
Lists(f, g, from, avoid, n) ==
    f = [k \in 0 .. n |-> IF k = 0 THEN from \ avoid
                          ELSE Further(g, avoid, f[k - 1])]

LEMMA ListsExist ==
    ASSUME NEW g, NEW from, NEW avoid, NEW n \in Nat
    PROVE  \E f : Lists(f, g, from, avoid, n)
<1> DEFINE S == {m \in Nat : \E f : Lists(f, g, from, avoid, m)}
<1>1. 0 \in S
  <2> DEFINE f == [k \in 0 .. 0 |-> from \ avoid]
  <2>1. Lists(f, g, from, avoid, 0)
    BY DEF Lists
  <2> QED
    BY <2>1
<1>2. ASSUME NEW m \in S PROVE m + 1 \in S
  <2>1. PICK f : Lists(f, g, from, avoid, m)
    OBVIOUS
  <2> DEFINE h == [k \in 0 .. m + 1 |-> IF k = m + 1 THEN Further(g, avoid, f[m]) ELSE f[k]]
             e(k) == IF k = 0 THEN from \ avoid
                     ELSE Further(g, avoid, h[k - 1])
  <2>2. m \in Nat /\ \A k \in 0 .. m : f[k] = IF k = 0 THEN from \ avoid ELSE Further(g, avoid, f[k - 1])
    BY <2>1 DEF Lists
  <2>3. ASSUME NEW k \in 0 .. m + 1 PROVE h[k] = e(k)
    <3>1. CASE k = m + 1
      <4>1. h[k - 1] = f[m] /\ k # 0
        BY <2>2, <3>1
      <4> QED
        BY <3>1, <4>1
    <3>2. CASE k # m + 1
      <4>1. k \in 0 .. m /\ h[k] = f[k]
        BY <2>2, <3>2
      <4>2. ASSUME k # 0 PROVE h[k - 1] = f[k - 1]
        BY <2>2, <4>1, <4>2
      <4> QED
        BY <2>2, <4>1, <4>2
    <3> QED
      BY <3>1, <3>2
  <2>4. h = [k \in 0 .. m + 1 |-> e(k)]
    BY <2>3
  <2>5. Lists(h, g, from, avoid, m + 1)
    BY <2>4 DEF Lists
  <2> QED
    BY <2>2, <2>5
<1>3. S = Nat
  <2>1. S \in SUBSET Nat
    OBVIOUS
  <2> HIDE DEF S
  <2> QED
    BY <1>1, <1>2, <2>1, AllNumbers
<1> QED
  BY <1>3

LEMMA ReachableIs ==
    ASSUME NEW g, NEW from, NEW avoid, Cardinality(Node) \in Nat
    PROVE  \E f : /\ Reachable(g, from, avoid) = f[Cardinality(Node)]
                  /\ f[0] = from \ avoid
                  /\ \A k \in 1 .. Cardinality(Node) : f[k] = Further(g, avoid, f[k - 1])
<1> DEFINE n == Cardinality(Node)
           f == CHOOSE r : Lists(r, g, from, avoid, n)
<1>1. Lists(f, g, from, avoid, n)
  BY ListsExist
<1>2. Reachable(g, from, avoid) = f[n]
  BY DEF Reachable, Lists
<1>3. f[0] = from \ avoid /\ \A k \in 1 .. n : f[k] = Further(g, avoid, f[k - 1])
  <2> HIDE DEF f
  <2>1. \A k \in 0 .. n : f[k] = IF k = 0 THEN from \ avoid ELSE Further(g, avoid, f[k - 1])
    BY <1>1 DEF Lists
  <2> QED
    BY <2>1
<1> QED
  BY <1>2, <1>3

Closed(g, avoid, R) == \A n \in R : g[n] \subseteq R \cup avoid

\* What paths reach is the least set that has where they start and is closed.
LEMMA ReachableIsLeast ==
    ASSUME NEW g, NEW from, NEW avoid, Cardinality(Node) \in Nat,
           NEW R, from \subseteq R \cup avoid, Closed(g, avoid, R)
    PROVE  Reachable(g, from, avoid) \subseteq R
<1> DEFINE n == Cardinality(Node)
<1>1. PICK f : /\ Reachable(g, from, avoid) = f[n]
               /\ f[0] = from \ avoid
               /\ \A k \in 1 .. n : f[k] = Further(g, avoid, f[k - 1])
  BY ReachableIs
<1> DEFINE S == {k \in Nat : k <= n => f[k] \subseteq R}
<1>2. 0 \in S
  BY <1>1
<1>3. ASSUME NEW k \in S PROVE k + 1 \in S
  <2> SUFFICES ASSUME k + 1 <= n PROVE f[k + 1] \subseteq R
    OBVIOUS
  <2>1. k \in Nat /\ k + 1 \in 1 .. n /\ (k + 1) - 1 = k /\ k <= n
    OBVIOUS
  <2>2. f[k] \subseteq R
    BY <2>1
  <2>3. f[k + 1] = Further(g, avoid, f[k])
    BY <1>1, <2>1
  <2>4. ASSUME NEW x \in f[k + 1] PROVE x \in R
    BY <2>2, <2>3, AheadMembers DEF Closed
  <2> QED
    BY <2>4
<1>4. n \in S
  <2>1. S \in SUBSET Nat
    OBVIOUS
  <2> HIDE DEF S
  <2> QED
    BY <1>2, <1>3, <2>1, AllNumbers
<1> QED
  BY <1>1, <1>4

LEMMA Larger ==
    ASSUME NEW A, NEW B, IsFiniteSet(B), A \subseteq B, A # B
    PROVE  Cardinality(A) + 1 <= Cardinality(B)
<1>1. PICK b \in B : b \notin A
  OBVIOUS
<1>2. IsFiniteSet(A) /\ Cardinality(A) \in Nat
  BY FS_Subset, FS_CardinalityType
<1>3. Cardinality(A \cup {b}) = Cardinality(A) + 1
  BY <1>1, <1>2, FS_AddElement
<1>4. A \cup {b} \in SUBSET B
  BY <1>1
<1>5. Cardinality(A \cup {b}) <= Cardinality(B)
  BY <1>4, FS_Subset
<1> QED
  BY <1>3, <1>5

LEMMA ReachableIsClosed ==
    ASSUME NEW g, NEW from \in SUBSET Node, NEW avoid,
           \A n \in Node : g[n] \subseteq Node, IsFiniteSet(Node)
    PROVE  /\ Reachable(g, from, avoid) \subseteq Node \ avoid
           /\ from \subseteq Reachable(g, from, avoid) \cup avoid
           /\ Closed(g, avoid, Reachable(g, from, avoid))
<1> DEFINE n == Cardinality(Node)
<1>0. n \in Nat
  BY FS_CardinalityType
<1>1. PICK f : /\ Reachable(g, from, avoid) = f[n]
               /\ f[0] = from \ avoid
               /\ \A k \in 1 .. n : f[k] = Further(g, avoid, f[k - 1])
  BY <1>0, ReachableIs
<1> DEFINE S == {k \in Nat : k <= n =>
                    /\ f[k] \subseteq Node \ avoid
                    /\ from \subseteq f[k] \cup avoid
                    /\ Closed(g, avoid, f[k]) \/ k + 1 <= Cardinality(f[k])}
<1>2. 0 \in S
  <2>1. CASE f[0] = {}
    BY <1>1, <2>1 DEF Closed
  <2>2. CASE f[0] # {}
    <3>1. f[0] \subseteq Node \ avoid /\ f[0] \in SUBSET Node
      BY <1>1
    <3>2. IsFiniteSet(f[0]) /\ Cardinality(f[0]) \in Nat /\ Cardinality(f[0]) # 0
      BY <2>2, <3>1, FS_Subset, FS_CardinalityType, FS_EmptySet
    <3>3. from \subseteq f[0] \cup avoid /\ 0 + 1 <= Cardinality(f[0])
      BY <1>1, <3>2
    <3> QED
      BY <3>1, <3>3
  <2> QED
    BY <2>1, <2>2
<1>3. ASSUME NEW k \in S PROVE k + 1 \in S
  <2> SUFFICES ASSUME k + 1 <= n
               PROVE  /\ f[k + 1] \subseteq Node \ avoid
                      /\ from \subseteq f[k + 1] \cup avoid
                      /\ Closed(g, avoid, f[k + 1]) \/ (k + 1) + 1 <= Cardinality(f[k + 1])
    OBVIOUS
  <2>1. k \in Nat /\ k + 1 \in 1 .. n /\ (k + 1) - 1 = k /\ k <= n
    BY <1>0
  <2>2. /\ f[k] \subseteq Node \ avoid
        /\ from \subseteq f[k] \cup avoid
        /\ Closed(g, avoid, f[k]) \/ k + 1 <= Cardinality(f[k])
    BY <2>1
  <2>3. \A x : x \in f[k + 1] <=> x \in f[k] \/ (x \notin avoid /\ \E m \in f[k] : x \in g[m])
    BY <1>1, <2>1, AheadMembers
  <2>4. f[k + 1] \subseteq Node \ avoid /\ f[k] \subseteq f[k + 1] /\ from \subseteq f[k + 1] \cup avoid
    BY <2>2, <2>3
  <2>5. CASE f[k + 1] = f[k]
    <3>1. Closed(g, avoid, f[k])
      BY <2>3, <2>5 DEF Closed
    <3> QED
      BY <2>4, <2>5, <3>1
  <2>6. CASE f[k + 1] # f[k]
    <3>1. ~Closed(g, avoid, f[k])
      BY <2>3, <2>6 DEF Closed
    <3>2. IsFiniteSet(f[k + 1]) /\ IsFiniteSet(f[k])
      BY <2>2, <2>4, FS_Subset
    <3>3. Cardinality(f[k + 1]) \in Nat /\ Cardinality(f[k]) \in Nat
      BY <3>2, FS_CardinalityType
    <3>4. Cardinality(f[k]) + 1 <= Cardinality(f[k + 1])
      BY <2>4, <2>6, <3>2, Larger
    <3> QED
      BY <2>1, <2>2, <2>4, <3>1, <3>3, <3>4
  <2> QED
    BY <2>5, <2>6
<1>4. S = Nat
  <2>1. S \in SUBSET Nat
    OBVIOUS
  <2> HIDE DEF S
  <2> QED
    BY <1>2, <1>3, <2>1, AllNumbers
<1>5. /\ f[n] \subseteq Node \ avoid
      /\ from \subseteq f[n] \cup avoid
      /\ Closed(g, avoid, f[n]) \/ n + 1 <= Cardinality(f[n])
  <2>1. n \in S
    BY <1>0, <1>4
  <2> QED
    BY <1>0, <2>1
<1>6. Cardinality(f[n]) \in Nat /\ Cardinality(f[n]) <= n
  BY <1>5, FS_Subset, FS_CardinalityType
<1> QED
  BY <1>0, <1>1, <1>5, <1>6

-----------------------------------------------------------------------------
(* CFGraph._find_dominators_internal, on nodes N and entries E, tables of  *)
(* predecessors P and successors S, with the sets D and the list T.        *)

MeetOf(P, D, n) ==
    {n} \cup {d \in UNION {D[p] : p \in P[n]} : \A p \in P[n] : d \in D[p]}

TablesOK(N, E, P, S) ==
    /\ \A n \in N \cup E : P[n] \subseteq N \cup E /\ S[n] \subseteq N \cup E
    /\ \A n, m \in N \cup E : m \in S[n] <=> n \in P[m]
    /\ \A n \in N \ E : P[n] # {} => P[n] \cap N # {}

Solution(N, E, P, D) ==
    /\ \A n \in N \cup E : D[n] = IF n \in E THEN {n} ELSE MeetOf(P, D, n)
    /\ \A n \in N : D[n] \subseteq N

FirstSets(N, E) == [n \in N \cup E |-> IF n \in E THEN {n} ELSE N]

\* Looking at n turns D and T into D2 and T2.
Visited(E, P, S, D, T, n, D2, T2) ==
    \/ /\ n \in E \/ MeetOf(P, D, n) = D[n]
       /\ D2 = D /\ T2 = T \ {n}
    \/ /\ n \notin E /\ MeetOf(P, D, n) # D[n]
       /\ D2 = [D EXCEPT ![n] = MeetOf(P, D, n)]
       /\ T2 = (T \ {n}) \cup S[n]

Typed(N, E, D, T) == D \in [N \cup E -> SUBSET (N \cup E)] /\ T \subseteq N \cup E

\* The dummy exit is in no node's set, and an entry alone in its own.
Inside(N, E, D) == (\A n \in N : D[n] \subseteq N) /\ (\A n \in E : D[n] = {n})

\* The sets only shrink from here on.
Below(N, E, P, D) == \A n \in (N \cup E) \ E : MeetOf(P, D, n) \subseteq D[n]

\* A node that is not to be looked at has the set it should have.
UpToDate(N, E, P, D, T) == \A n \in (N \cup E) \ (E \cup T) : MeetOf(P, D, n) = D[n]

\* No solution has been cut.
Above(N, E, P, D) ==
    \A F \in [N \cup E -> SUBSET (N \cup E)] :
        Solution(N, E, P, F) => \A n \in N \cup E : F[n] \subseteq D[n]

DomInv(N, E, P, S, D, T) ==
    /\ TablesOK(N, E, P, S) /\ Typed(N, E, D, T) /\ Inside(N, E, D)
    /\ Below(N, E, P, D) /\ UpToDate(N, E, P, D, T) /\ Above(N, E, P, D)

\* What is computed for a node is in all its predecessors' sets.
LEMMA MeetMembers ==
    ASSUME NEW P, NEW D, NEW n, NEW d
    PROVE  d \in MeetOf(P, D, n) <=>
              \/ d = n
              \/ P[n] # {} /\ \A p \in P[n] : d \in D[p]
<1>1. ASSUME P[n] # {}, \A p \in P[n] : d \in D[p]
      PROVE  d \in UNION {D[p] : p \in P[n]}
  <2>1. PICK p \in P[n] : d \in D[p]
    BY <1>1
  <2> QED
    BY <2>1
<1>2. ASSUME d \in UNION {D[p] : p \in P[n]}
      PROVE  P[n] # {}
  BY <1>2
<1> QED
  BY <1>1, <1>2 DEF MeetOf

\* Smaller sets give smaller sets.
LEMMA MeetGrows ==
    ASSUME NEW P, NEW D, NEW F, NEW n, \A p \in P[n] : D[p] \subseteq F[p]
    PROVE  MeetOf(P, D, n) \subseteq MeetOf(P, F, n)
<1> SUFFICES ASSUME NEW d \in MeetOf(P, D, n) PROVE d \in MeetOf(P, F, n)
  OBVIOUS
<1>1. \/ d = n
      \/ P[n] # {} /\ \A p \in P[n] : d \in D[p]
  BY MeetMembers
<1>2. \/ d = n
      \/ P[n] # {} /\ \A p \in P[n] : d \in F[p]
  BY <1>1
<1> QED
  BY <1>2, MeetMembers

LEMMA DomStarts ==
    ASSUME NEW N, NEW E, NEW P, NEW S, TablesOK(N, E, P, S)
    PROVE  DomInv(N, E, P, S, FirstSets(N, E), N \ E)
<1> DEFINE D == FirstSets(N, E)
<1>1. Typed(N, E, D, N \ E) /\ Inside(N, E, D)
  BY DEF Typed, Inside, FirstSets
<1>2. Below(N, E, P, D)
  <2> SUFFICES ASSUME NEW n \in (N \cup E) \ E, NEW d \in MeetOf(P, D, n)
               PROVE  d \in D[n]
    BY DEF Below
  <2>1. n \in N /\ D[n] = N
    BY DEF FirstSets
  <2>2. CASE d = n
    BY <2>1, <2>2
  <2>3. CASE P[n] # {} /\ \A p \in P[n] : d \in D[p]
    <3>1. PICK p \in P[n] \cap N : TRUE
      BY <2>1, <2>3 DEF TablesOK
    <3>2. d \in D[p] /\ D[p] \subseteq N
      BY <2>3, <3>1 DEF FirstSets
    <3> QED
      BY <3>2, <2>1
  <2> QED
    BY <2>2, <2>3, MeetMembers
<1>3. UpToDate(N, E, P, D, N \ E)
  BY DEF UpToDate
<1>4. Above(N, E, P, D)
  BY DEF Above, Solution, FirstSets
<1> QED
  BY <1>1, <1>2, <1>3, <1>4 DEF DomInv

LEMMA DomSteps ==
    ASSUME NEW N, NEW E, NEW P, NEW S, NEW D, NEW T, NEW D2, NEW T2, NEW n \in T,
           DomInv(N, E, P, S, D, T), Visited(E, P, S, D, T, n, D2, T2)
    PROVE  DomInv(N, E, P, S, D2, T2)
<1> USE DEF DomInv
<1>1. n \in N \cup E
  BY DEF Typed
<1>2. CASE (n \in E \/ MeetOf(P, D, n) = D[n]) /\ T2 = T \ {n} /\ D2 = D
  BY <1>2 DEF Typed, UpToDate
<1>3. CASE /\ n \notin E /\ MeetOf(P, D, n) # D[n]
           /\ D2 = [D EXCEPT ![n] = MeetOf(P, D, n)]
           /\ T2 = (T \ {n}) \cup S[n]
  <2>1. MeetOf(P, D, n) \subseteq D[n]
    BY <1>1, <1>3 DEF Below
  <2>2. /\ D2 \in [N \cup E -> SUBSET (N \cup E)]
        /\ D2[n] = MeetOf(P, D, n)
        /\ \A m \in (N \cup E) \ {n} : D2[m] = D[m]
    BY <1>1, <1>3, <2>1 DEF Typed
  <2>3. \A m \in N \cup E : D2[m] \subseteq D[m]
    BY <2>1, <2>2
  <2>4. \A m \in N \cup E : MeetOf(P, D2, m) \subseteq MeetOf(P, D, m)
    <3> SUFFICES ASSUME NEW m \in N \cup E PROVE MeetOf(P, D2, m) \subseteq MeetOf(P, D, m)
      OBVIOUS
    <3>1. \A p \in P[m] : D2[p] \subseteq D[p]
      BY <2>3 DEF TablesOK
    <3> QED
      BY <3>1, MeetGrows
  <2>5. Typed(N, E, D2, T2)
    BY <1>1, <1>3, <2>2 DEF Typed, TablesOK
  <2>6. Inside(N, E, D2)
    BY <1>3, <2>2, <2>3 DEF Inside
  <2>7. Below(N, E, P, D2)
    <3> SUFFICES ASSUME NEW m \in (N \cup E) \ E PROVE MeetOf(P, D2, m) \subseteq D2[m]
      BY DEF Below
    <3>1. MeetOf(P, D2, m) \subseteq MeetOf(P, D, m) /\ MeetOf(P, D, m) \subseteq D[m]
      BY <2>4 DEF Below
    <3> QED
      BY <3>1, <2>2
  <2>8. UpToDate(N, E, P, D2, T2)
    <3> SUFFICES ASSUME NEW m \in N \cup E, m \notin E, m \notin T2
                 PROVE  MeetOf(P, D2, m) = D2[m]
      BY DEF UpToDate
    <3>1. n \notin P[m]
      BY <1>1, <1>3 DEF TablesOK
    <3>2. P[m] \subseteq (N \cup E) \ {n}
      BY <3>1 DEF TablesOK
    <3>3. \A p \in P[m] : D2[p] \subseteq D[p] /\ D[p] \subseteq D2[p]
      BY <3>2, <2>2
    <3>4. MeetOf(P, D2, m) = MeetOf(P, D, m)
      <4>1. MeetOf(P, D2, m) \subseteq MeetOf(P, D, m)
        BY <3>3, MeetGrows
      <4>2. MeetOf(P, D, m) \subseteq MeetOf(P, D2, m)
        BY <3>3, MeetGrows
      <4> QED
        BY <4>1, <4>2
    <3>5. CASE m = n
      BY <3>4, <3>5, <2>2
    <3>6. CASE m # n
      <4>1. m \notin T
        BY <1>3, <3>6
      <4> QED
        BY <4>1, <3>4, <3>6, <2>2 DEF UpToDate
    <3> QED
      BY <3>5, <3>6
  <2>9. Above(N, E, P, D2)
    <3> SUFFICES ASSUME NEW F \in [N \cup E -> SUBSET (N \cup E)], Solution(N, E, P, F),
                        NEW m \in N \cup E
                 PROVE  F[m] \subseteq D2[m]
      BY DEF Above
    <3>1. \A p \in N \cup E : F[p] \subseteq D[p]
      BY DEF Above
    <3>2. MeetOf(P, F, m) \subseteq MeetOf(P, D, m)
      <4>1. \A p \in P[m] : F[p] \subseteq D[p]
        BY <3>1 DEF TablesOK
      <4> QED
        BY <4>1, MeetGrows
    <3>3. CASE m = n
      <4>1. F[m] = MeetOf(P, F, m)
        BY <1>1, <1>3, <3>3 DEF Solution
      <4> QED
        BY <3>2, <3>3, <4>1, <2>2
    <3>4. CASE m # n
      BY <3>1, <3>4, <2>2
    <3> QED
      BY <3>3, <3>4
  <2> QED
    BY <2>5, <2>6, <2>7, <2>8, <2>9
<1> QED
  BY <1>2, <1>3 DEF Visited

\* What is left at the end is the largest solution.
LEMMA DomEnds ==
    ASSUME NEW N, NEW E, NEW P, NEW S, NEW D, DomInv(N, E, P, S, D, {})
    PROVE  /\ Solution(N, E, P, D)
           /\ Above(N, E, P, D)
<1>1. \A n \in N \cup E : D[n] = IF n \in E THEN {n} ELSE MeetOf(P, D, n)
  BY DEF DomInv, Inside, UpToDate
<1> QED
  BY <1>1 DEF DomInv, Inside, Solution

-----------------------------------------------------------------------------
(* CFGraph: what a flow graph is once its dead blocks are gone, and what   *)
(* dominates what.                                                         *)

FlowOK ==
    /\ nodes \subseteq Node /\ Entry \in nodes
    /\ graph \in [Node -> SUBSET Node]
    /\ \A n \in nodes : graph[n] \subseteq nodes
    /\ \A n \in Node \ nodes : graph[n] = {}
    /\ nodes = Reachable(graph, {Entry}, {})

\* What the entry reaches around d, as paths go.
LEMMA Around ==
    ASSUME NEW g \in [Node -> SUBSET Node], NEW d
    PROVE  LET R == Reachable(g, {Entry}, {d})
           IN  /\ R \subseteq Node /\ d \notin R
               /\ Entry # d => Entry \in R
               /\ \A n \in R : \A m \in g[n] : m = d \/ m \in R
               /\ \A Z : (Entry = d \/ Entry \in Z) /\ (\A n \in Z : \A m \in g[n] : m = d \/ m \in Z)
                           => R \subseteq Z
<1>1. {Entry} \in SUBSET Node /\ IsFiniteSet(Node) /\ \A n \in Node : g[n] \subseteq Node
  BY NodeAssumption
<1>2. Cardinality(Node) \in Nat
  BY <1>1, FS_CardinalityType
<1> DEFINE R == Reachable(g, {Entry}, {d})
<1>3. R \subseteq Node \ {d} /\ {Entry} \subseteq R \cup {d} /\ Closed(g, {d}, R)
  BY <1>1, ReachableIsClosed
<1>4. ASSUME NEW Z, Entry = d \/ Entry \in Z, \A n \in Z : \A m \in g[n] : m = d \/ m \in Z
      PROVE  R \subseteq Z
  <2>1. {Entry} \subseteq Z \cup {d} /\ Closed(g, {d}, Z)
    BY <1>4 DEF Closed
  <2> QED
    BY <1>2, <2>1, ReachableIsLeast
<1> HIDE DEF R
<1>5. /\ R \subseteq Node /\ d \notin R
      /\ Entry # d => Entry \in R
      /\ \A n \in R : \A m \in g[n] : m = d \/ m \in R
  BY <1>3 DEF Closed
<1> QED
  BY <1>4, <1>5 DEF R

\* What a set reaches with nothing to avoid.
LEMMA Everything ==
    ASSUME NEW g \in [Node -> SUBSET Node], NEW from \in SUBSET Node
    PROVE  LET R == Reachable(g, from, {})
           IN  /\ R \subseteq Node /\ from \subseteq R
               /\ \A n \in R : g[n] \subseteq R
               /\ \A Z : from \subseteq Z /\ (\A n \in Z : g[n] \subseteq Z) => R \subseteq Z
<1>1. IsFiniteSet(Node) /\ \A n \in Node : g[n] \subseteq Node
  BY NodeAssumption
<1>2. Cardinality(Node) \in Nat
  BY <1>1, FS_CardinalityType
<1> DEFINE R == Reachable(g, from, {})
<1>3. R \subseteq Node \ {} /\ from \subseteq R \cup {} /\ Closed(g, {}, R)
  BY <1>1, ReachableIsClosed
<1>4. ASSUME NEW Z, from \subseteq Z, \A n \in Z : g[n] \subseteq Z
      PROVE  R \subseteq Z
  <2>1. from \subseteq Z \cup {} /\ Closed(g, {}, Z)
    BY <1>4 DEF Closed
  <2> QED
    BY <1>2, <2>1, ReachableIsLeast
<1> HIDE DEF R
<1>5. R \subseteq Node /\ from \subseteq R /\ \A n \in R : g[n] \subseteq R
  BY <1>3 DEF Closed
<1> QED
  BY <1>4, <1>5 DEF R

\* The graph without its dead blocks, and the paths in it.
Kept(g) == [n \in Node |-> IF n \in Reachable(g, {Entry}, {}) THEN g[n] ELSE {}]

LEMMA KeptReaches ==
    ASSUME NEW g \in [Node -> SUBSET Node]
    PROVE  /\ Kept(g) \in [Node -> SUBSET Node]
           /\ Reachable(Kept(g), {Entry}, {}) = Reachable(g, {Entry}, {})
           /\ \A d : Reachable(Kept(g), {Entry}, {d}) = Reachable(g, {Entry}, {d})
<1> DEFINE L == Reachable(g, {Entry}, {})
           k == Kept(g)
<1>1. {Entry} \in SUBSET Node
  BY NodeAssumption
<1>2. k \in [Node -> SUBSET Node] /\ \A n \in Node : k[n] = IF n \in L THEN g[n] ELSE {}
  BY DEF Kept
<1>3. /\ L \subseteq Node /\ {Entry} \subseteq L
      /\ \A n \in L : g[n] \subseteq L
      /\ \A Z : {Entry} \subseteq Z /\ (\A n \in Z : g[n] \subseteq Z) => L \subseteq Z
  BY <1>1, Everything
<1> HIDE DEF L, k
<1>4. Reachable(k, {Entry}, {}) = L
  <2> DEFINE R == Reachable(k, {Entry}, {})
  <2>1. /\ R \subseteq Node /\ {Entry} \subseteq R
        /\ \A n \in R : k[n] \subseteq R
        /\ \A Z : {Entry} \subseteq Z /\ (\A n \in Z : k[n] \subseteq Z) => R \subseteq Z
    BY <1>1, <1>2, Everything
  <2> HIDE DEF R
  <2>2. R \subseteq L
    <3>1. \A n \in L : k[n] \subseteq L
      BY <1>2, <1>3
    <3> QED
      BY <1>3, <2>1, <3>1
  <2>3. L \subseteq R
    <3>1. \A n \in R : g[n] \subseteq R
      BY <1>2, <2>1, <2>2
    <3> QED
      BY <1>3, <2>1, <3>1
  <2> QED
    BY <2>2, <2>3 DEF R
<1>5. ASSUME NEW d PROVE Reachable(k, {Entry}, {d}) = Reachable(g, {Entry}, {d})
  <2> DEFINE R == Reachable(k, {Entry}, {d})
             Q == Reachable(g, {Entry}, {d})
  <2>1. /\ R \subseteq Node /\ d \notin R
        /\ Entry # d => Entry \in R
        /\ \A n \in R : \A m \in k[n] : m = d \/ m \in R
        /\ \A Z : (Entry = d \/ Entry \in Z) /\ (\A n \in Z : \A m \in k[n] : m = d \/ m \in Z)
                    => R \subseteq Z
    BY <1>2, Around
  <2>2. /\ Q \subseteq Node /\ d \notin Q
        /\ Entry # d => Entry \in Q
        /\ \A n \in Q : \A m \in g[n] : m = d \/ m \in Q
        /\ \A Z : (Entry = d \/ Entry \in Z) /\ (\A n \in Z : \A m \in g[n] : m = d \/ m \in Z)
                    => Q \subseteq Z
    BY Around
  <2> HIDE DEF R, Q
  <2>3. R \subseteq Q
    <3>1. \A n \in Q : \A m \in k[n] : m = d \/ m \in Q
      BY <1>2, <2>2
    <3> QED
      BY <2>1, <2>2, <3>1
  <2>4. R \subseteq L
    <3>1. \A n \in L : \A m \in k[n] : m = d \/ m \in L
      BY <1>2, <1>3
    <3> QED
      BY <1>3, <2>1, <3>1
  <2>5. Q \subseteq R
    <3>1. \A n \in R : \A m \in g[n] : m = d \/ m \in R
      BY <1>2, <2>1, <2>4
    <3> QED
      BY <2>1, <2>2, <3>1
  <2> QED
    BY <2>3, <2>5 DEF R, Q
<1> QED
  BY <1>2, <1>4, <1>5 DEF k, L

LEMMA EntryIsDominated ==
    ASSUME NEW g \in [Node -> SUBSET Node], NEW d
    PROVE  Dominates(g, d, Entry) <=> d = Entry
BY Around DEF Dominates

LEMMA DominatesItself ==
    ASSUME NEW g \in [Node -> SUBSET Node], NEW n
    PROVE  Dominates(g, n, n)
BY Around DEF Dominates

\* A dominator of a node other than itself dominates what leads to the node.
LEMMA DominatesStep ==
    ASSUME FlowOK, NEW n \in nodes \ {Entry}, NEW d
    PROVE  Dominates(graph, d, n) <=> d = n \/ \A p \in Preds[n] : Dominates(graph, d, p)
<1> DEFINE R == Reachable(graph, {Entry}, {d})
<1>1. /\ R \subseteq Node /\ d \notin R
      /\ Entry # d => Entry \in R
      /\ \A x \in R : \A m \in graph[x] : m = d \/ m \in R
      /\ \A Z : (Entry = d \/ Entry \in Z) /\ (\A x \in Z : \A m \in graph[x] : m = d \/ m \in Z)
                  => R \subseteq Z
  BY Around DEF FlowOK
<1>2. \A m : Dominates(graph, d, m) <=> m \notin R
  BY DEF Dominates
<1>3. n \in Node /\ Preds[n] = {p \in Node : n \in graph[p]}
  BY DEF Preds, FlowOK
<1> HIDE DEF R
<1>4. ASSUME n \notin R, d # n, NEW p \in Preds[n] PROVE p \notin R
  BY <1>1, <1>3, <1>4
<1>5. ASSUME \A p \in Preds[n] : p \notin R PROVE n \notin R
  <2> DEFINE Z == R \ {n}
  <2>1. Entry = d \/ Entry \in Z
    BY <1>1
  <2>2. \A x \in Z : \A m \in graph[x] : m = d \/ m \in Z
    BY <1>1, <1>3, <1>5
  <2> QED
    BY <1>1, <2>1, <2>2
<1> QED
  BY <1>1, <1>2, <1>4, <1>5

\* A live block other than the entry has a predecessor.
LEMMA HasPred ==
    ASSUME FlowOK, NEW n \in nodes \ {Entry}
    PROVE  Preds[n] # {} /\ Preds[n] \subseteq nodes
<1>1. /\ nodes \subseteq Node /\ Entry \in nodes
      /\ \A x \in nodes : graph[x] \subseteq nodes
      /\ \A x \in Node \ nodes : graph[x] = {}
      /\ \A Z : {Entry} \subseteq Z /\ (\A x \in Z : graph[x] \subseteq Z) => nodes \subseteq Z
  BY Everything, NodeAssumption DEF FlowOK
<1>2. n \in Node /\ Preds[n] = {p \in Node : n \in graph[p]}
  BY <1>1 DEF Preds
<1>3. Preds[n] \subseteq nodes
  BY <1>1, <1>2
<1>4. ASSUME Preds[n] = {} PROVE FALSE
  <2> DEFINE Z == nodes \ {n}
  <2>1. {Entry} \subseteq Z /\ \A x \in Z : graph[x] \subseteq Z
    BY <1>1, <1>2, <1>4
  <2> QED
    BY <1>1, <2>1
<1> QED
  BY <1>3, <1>4

\* What dominates a node, by paths.
Dominance == [n \in nodes |-> {d \in nodes : Dominates(graph, d, n)}]

\* Dominance solves the equations of _find_dominators_internal.
LEMMA DominanceSolves == ASSUME FlowOK PROVE Solution(nodes, {Entry}, Preds, Dominance)
<1>1. nodes \cup {Entry} = nodes /\ nodes \subseteq Node /\ graph \in [Node -> SUBSET Node]
  BY DEF FlowOK
<1>2. Dominance[Entry] = {Entry}
  BY <1>1, EntryIsDominated DEF Dominance
<1>3. ASSUME NEW n \in nodes \ {Entry}, NEW d
      PROVE  d \in Dominance[n] <=> d \in MeetOf(Preds, Dominance, n)
  <2>1. Preds[n] # {} /\ Preds[n] \subseteq nodes
    BY HasPred
  <2>2. Dominates(graph, d, n) <=> d = n \/ \A p \in Preds[n] : Dominates(graph, d, p)
    BY DominatesStep
  <2>3. \A p \in nodes : d \in Dominance[p] <=> d \in nodes /\ Dominates(graph, d, p)
    BY DEF Dominance
  <2>4. d \in MeetOf(Preds, Dominance, n) <=>
           d = n \/ (Preds[n] # {} /\ \A p \in Preds[n] : d \in Dominance[p])
    BY MeetMembers
  <2> QED
    BY <2>1, <2>2, <2>3, <2>4
<1>4. \A n \in nodes : Dominance[n] \subseteq nodes
  BY DEF Dominance
<1>5. \A n \in nodes \ {Entry} : Dominance[n] = MeetOf(Preds, Dominance, n)
  BY <1>3
<1> QED
  BY <1>1, <1>2, <1>4, <1>5 DEF Solution

\* So the algorithm finds what paths say.
LEMMA DominatorsFound ==
    ASSUME FlowOK, DomInv(nodes, {Entry}, Preds, graph, doms, {})
    PROVE  doms = Dominance
<1>1. /\ nodes \cup {Entry} = nodes /\ nodes \subseteq Node
      /\ \A n \in nodes : graph[n] \subseteq nodes
      /\ graph \in [Node -> SUBSET Node]
  BY DEF FlowOK
<1>2. Solution(nodes, {Entry}, Preds, doms) /\ Above(nodes, {Entry}, Preds, doms)
  BY DomEnds
<1>3. /\ \A n \in nodes : doms[n] = IF n = Entry THEN {Entry} ELSE MeetOf(Preds, doms, n)
      /\ \A n \in nodes : doms[n] \subseteq nodes
      /\ doms \in [nodes -> SUBSET nodes]
  BY <1>1, <1>2 DEF Solution, DomInv, Typed
<1>4. \A n \in nodes : Dominance[n] \subseteq doms[n]
  <2>1. Dominance \in [nodes -> SUBSET nodes]
    BY DEF Dominance
  <2> QED
    BY <1>1, <1>2, <2>1, DominanceSolves DEF Above
<1>5. ASSUME NEW n \in nodes, NEW d \in doms[n] PROVE Dominates(graph, d, n)
  <2> DEFINE R == Reachable(graph, {Entry}, {d})
             Z == {m \in nodes : d \notin doms[m]}
  <2>1. \A Y : (Entry = d \/ Entry \in Y) /\ (\A x \in Y : \A m \in graph[x] : m = d \/ m \in Y)
                  => R \subseteq Y
    BY <1>1, Around
  <2>2. Entry = d \/ Entry \in Z
    BY <1>3 DEF FlowOK
  <2>3. ASSUME NEW x \in Z, NEW m \in graph[x], m # d PROVE m \in Z
    <3>1. m \in nodes /\ x \in Preds[m]
      BY <1>1 DEF Preds
    <3>2. CASE m = Entry
      BY <1>3, <2>3, <3>1, <3>2
    <3>3. CASE m # Entry
      <4>1. d \notin MeetOf(Preds, doms, m)
        BY <2>3, <3>1, MeetMembers
      <4> QED
        BY <1>3, <3>1, <3>3, <4>1
    <3> QED
      BY <3>2, <3>3
  <2> HIDE DEF R
  <2>4. R \subseteq Z
    <3> HIDE DEF Z
    <3> QED
      BY <2>1, <2>2, <2>3
  <2> QED
    BY <2>4 DEF R, Dominates
<1>6. \A n \in nodes : doms[n] = Dominance[n]
  BY <1>3, <1>4, <1>5 DEF Dominance
<1> QED
  BY <1>3, <1>6 DEF Dominance

\* The tables of the two calls of _find_dominators_internal.
LEMMA ForwardTables == ASSUME FlowOK PROVE TablesOK(nodes, {Entry}, Preds, graph)
<1>1. /\ nodes \cup {Entry} = nodes /\ nodes \subseteq Node
      /\ \A n \in nodes : graph[n] \subseteq nodes
      /\ \A n \in Node \ nodes : graph[n] = {}
      /\ \A n \in Node : Preds[n] = {m \in Node : n \in graph[m]}
  BY DEF FlowOK, Preds
<1>2. \A n \in nodes : Preds[n] \subseteq nodes
  BY <1>1
<1> QED
  BY <1>1, <1>2 DEF TablesOK

LEMMA BackwardTables ==
    ASSUME FlowOK
    PROVE  TablesOK(nodes, ExitPoints \cup {Exit}, LinkedSuccs, Mirror(LinkedSuccs))
<1> DEFINE A == nodes \cup {Exit}
<1>1. /\ nodes \cup (ExitPoints \cup {Exit}) = A /\ Exit \notin nodes
      /\ \A n \in nodes : graph[n] \subseteq nodes
      /\ ExitPoints = {n \in nodes : graph[n] = {}}
  BY NodeAssumption DEF FlowOK, ExitPoints
<1>2. /\ LinkedSuccs[Exit] = {}
      /\ \A n \in nodes : graph[n] \subseteq LinkedSuccs[n] /\ LinkedSuccs[n] \subseteq A
      /\ DOMAIN LinkedSuccs = A
  <2>1. PICK L : LinkedSuccs = [n \in A |-> IF n = Exit THEN {} ELSE graph[n] \cup {e \in {Exit} : n \in L}]
    BY DEF LinkedSuccs
  <2> QED
    BY <1>1, <2>1
<1>3. \A n \in A : Mirror(LinkedSuccs)[n] = {m \in A : n \in LinkedSuccs[m]}
  BY <1>2 DEF Mirror
<1> HIDE DEF A
<1>4. \A n \in A : LinkedSuccs[n] \subseteq A /\ Mirror(LinkedSuccs)[n] \subseteq A
  BY <1>2, <1>3 DEF A
<1>5. \A n \in nodes \ (ExitPoints \cup {Exit}) : LinkedSuccs[n] \cap nodes # {}
  <2> SUFFICES ASSUME NEW n \in nodes, n \notin ExitPoints PROVE LinkedSuccs[n] \cap nodes # {}
    OBVIOUS
  <2>1. PICK m \in graph[n] : TRUE
    BY <1>1
  <2>2. m \in nodes /\ m \in LinkedSuccs[n]
    BY <1>1, <1>2, <2>1
  <2> QED
    BY <2>2
<1>6. \A n, m \in A : m \in Mirror(LinkedSuccs)[n] <=> n \in LinkedSuccs[m]
  BY <1>3
<1> QED
  BY <1>1, <1>4, <1>5, <1>6 DEF TablesOK

-----------------------------------------------------------------------------
(* The flow graphs of Python functions: without the edges into a dominator *)
(* no cycle is left.                                                       *)

NonBack(g) == [n \in Node |-> {m \in g[n] : ~Dominates(g, m, n)}]

Acyclic(g) ==
    \A n \in Reachable(g, {Entry}, {}) : n \notin Reachable(NonBack(g), NonBack(g)[n], {})

LEMMA KeptIsAcyclic ==
    ASSUME NEW g \in [Node -> SUBSET Node], Reducible(g)
    PROVE  Acyclic(Kept(g))
<1> DEFINE L == Reachable(g, {Entry}, {})
           ahead == [n \in Node |-> IF n \in L THEN {m \in g[n] : ~Dominates(g, m, n)} ELSE {}]
<1>1. \A n \in L : n \notin Reachable(ahead, ahead[n], {})
  BY DEF Reducible
<1>2. \A d, n : Dominates(Kept(g), d, n) <=> Dominates(g, d, n)
  BY KeptReaches DEF Dominates
<1>3. ASSUME NEW n \in Node PROVE NonBack(Kept(g))[n] = ahead[n]
  BY <1>2 DEF NonBack, Kept
<1>4. NonBack(Kept(g)) = ahead
  <2>1. NonBack(Kept(g)) = [n \in Node |-> NonBack(Kept(g))[n]]
    BY DEF NonBack
  <2> QED
    BY <1>3, <2>1
<1>5. Reachable(Kept(g), {Entry}, {}) = L
  BY KeptReaches
<1> HIDE DEF ahead, L
<1> QED
  BY <1>1, <1>4, <1>5 DEF Acyclic

-----------------------------------------------------------------------------
(* CFGraph._find_back_edges: a depth-first walk with its path.             *)

\* A path from the entry that meets no block twice.
Chain(p) ==
    /\ p \in Seq(nodes) /\ Len(p) > 0 /\ p[1] = Entry
    /\ \A i \in 1 .. Len(p) - 1 : p[i + 1] \in graph[p[i]]
    /\ \A i, j \in 1 .. Len(p) : p[i] = p[j] => i = j

\* Such a path reaches what it reaches without what is not on it.
LEMMA ChainReaches ==
    ASSUME FlowOK, NEW p, Chain(p), NEW i \in 1 .. Len(p), NEW d, \A k \in 1 .. i : p[k] # d
    PROVE  ~Dominates(graph, d, p[i])
<1> DEFINE R == Reachable(graph, {Entry}, {d})
<1>1. /\ Entry # d => Entry \in R
      /\ \A n \in R : \A m \in graph[n] : m = d \/ m \in R
  BY Around DEF FlowOK
<1> HIDE DEF R
<1> DEFINE S == {k \in Nat : k + 1 <= i => p[k + 1] \in R}
<1>2. Len(p) \in Nat /\ i \in Nat /\ i <= Len(p) /\ 1 <= i
  BY DEF Chain
<1>3. 0 \in S
  <2>1. 1 \in 1 .. i
    BY <1>2
  <2>2. p[1] = Entry /\ p[1] # d
    BY <2>1 DEF Chain
  <2> QED
    BY <1>1, <2>2
<1>4. ASSUME NEW k \in S PROVE k + 1 \in S
  <2> SUFFICES ASSUME (k + 1) + 1 <= i PROVE p[(k + 1) + 1] \in R
    OBVIOUS
  <2>1. k \in Nat /\ k + 1 <= i /\ k + 1 \in 1 .. Len(p) - 1 /\ (k + 1) + 1 \in 1 .. i
    BY <1>2
  <2>2. p[k + 1] \in R /\ p[(k + 1) + 1] \in graph[p[k + 1]] /\ p[(k + 1) + 1] # d
    BY <2>1 DEF Chain
  <2> QED
    BY <1>1, <2>2
<1>5. S = Nat
  <2>1. S \in SUBSET Nat
    OBVIOUS
  <2> HIDE DEF S
  <2> QED
    BY <1>3, <1>4, <2>1, AllNumbers
<1>6. i - 1 \in Nat /\ (i - 1) + 1 = i
  BY <1>2
<1>7. p[i] \in R
  <2>1. i - 1 \in S
    BY <1>5, <1>6
  <2> QED
    BY <1>2, <1>6, <2>1
<1> QED
  BY <1>7 DEF R, Dominates

\* An edge from the end of the path leads back to it when, and only when, it
\* leads to a dominator.
LEMMA BackIsDominance ==
    ASSUME FlowOK, Acyclic(graph), NEW p, Chain(p), NEW d \in graph[p[Len(p)]]
    PROVE  d \in Range(p) <=> Dominates(graph, d, p[Len(p)])
<1> DEFINE n == Len(p)
<1>1. /\ n \in Nat /\ 1 <= n /\ DOMAIN p = 1 .. n
      /\ \A i \in 1 .. n : p[i] \in nodes
      /\ \A i \in 1 .. n - 1 : p[i + 1] \in graph[p[i]]
      /\ \A i, j \in 1 .. n : p[i] = p[j] => i = j
  BY DEF Chain
<1>2. nodes \subseteq Node /\ graph \in [Node -> SUBSET Node] /\ nodes = Reachable(graph, {Entry}, {})
  BY DEF FlowOK
<1>3. ASSUME d \notin Range(p) PROVE ~Dominates(graph, d, p[n])
  <2>1. \A k \in 1 .. n : p[k] # d
    BY <1>1, <1>3 DEF Range
  <2>2. n \in 1 .. n
    BY <1>1
  <2> QED
    BY <2>1, <2>2, ChainReaches
<1>4. ASSUME d \in Range(p), ~Dominates(graph, d, p[n]) PROVE FALSE
  <2> DEFINE b == NonBack(graph)
             Q == Reachable(b, b[d], {})
  <2>1. PICK j \in 1 .. n : d = p[j]
    BY <1>1, <1>4 DEF Range
  <2>2. b \in [Node -> SUBSET Node] /\ \A x \in Node : b[x] = {m \in graph[x] : ~Dominates(graph, m, x)}
    BY <1>2 DEF NonBack
  <2>3. d \in nodes /\ d \in Node
    BY <1>1, <1>2, <2>1
  <2>4. d \notin Q
    BY <1>2, <2>3 DEF Acyclic
  <2>5. b[d] \subseteq Q /\ \A x \in Q : b[x] \subseteq Q
    BY <2>2, <2>3, Everything
  <2> HIDE DEF Q
  <2>6. ASSUME NEW i \in 1 .. n - 1 PROVE p[i + 1] \in b[p[i]]
    <3>1. i \in 1 .. n /\ i + 1 \in 1 .. n
      BY <1>1
    <3>2. \A k \in 1 .. i : p[k] # p[i + 1]
      <4> SUFFICES ASSUME NEW k \in 1 .. i PROVE p[k] # p[i + 1]
        OBVIOUS
      <4>1. k \in 1 .. n /\ k # i + 1
        BY <1>1, <3>1
      <4> QED
        BY <1>1, <3>1, <4>1
    <3>3. ~Dominates(graph, p[i + 1], p[i])
      BY <3>1, <3>2, ChainReaches
    <3> QED
      BY <1>1, <1>2, <2>2, <3>1, <3>3
  <2>7. p[n] \in Node /\ d \in b[p[n]]
    <3>1. n \in 1 .. n /\ d \in graph[p[n]]
      BY <1>1
    <3>2. p[n] \in Node
      BY <1>1, <1>2, <3>1
    <3> QED
      BY <1>4, <2>2, <3>1, <3>2
  <2> HIDE DEF b
  <2> DEFINE S == {k \in Nat : j + (k + 1) <= n => p[j + (k + 1)] \in Q}
  <2>8. 0 \in S
    <3> SUFFICES ASSUME j + (0 + 1) <= n PROVE p[j + (0 + 1)] \in Q
      OBVIOUS
    <3>1. j \in 1 .. n - 1 /\ j + (0 + 1) = j + 1
      BY <1>1
    <3> QED
      BY <2>1, <2>5, <2>6, <3>1
  <2>9. ASSUME NEW k \in S PROVE k + 1 \in S
    <3> SUFFICES ASSUME j + ((k + 1) + 1) <= n PROVE p[j + ((k + 1) + 1)] \in Q
      OBVIOUS
    <3>1. j + (k + 1) \in 1 .. n - 1 /\ j + ((k + 1) + 1) = (j + (k + 1)) + 1 /\ j + (k + 1) <= n
      BY <1>1
    <3>2. p[j + (k + 1)] \in Q
      BY <3>1
    <3> QED
      BY <2>5, <2>6, <3>1, <3>2
  <2>10. S = Nat
    <3>1. S \in SUBSET Nat
      OBVIOUS
    <3> HIDE DEF S
    <3> QED
      BY <2>8, <2>9, <3>1, AllNumbers
  <2>11. CASE j = n
    <3>1. Dominates(graph, p[n], p[n])
      BY <1>2, DominatesItself
    <3> QED
      BY <1>4, <2>1, <2>11, <3>1
  <2>12. CASE j # n
    <3>1. n - j - 1 \in Nat /\ j + ((n - j - 1) + 1) = n
      <4>1. \A a \in Nat : \A c \in 1 .. a : c # a => a - c - 1 \in Nat /\ c + ((a - c - 1) + 1) = a
        OBVIOUS
      <4> HIDE DEF n
      <4> QED
        BY <1>1, <2>12, <4>1
    <3>2. n - j - 1 \in S
      BY <2>10, <3>1
    <3>3. p[n] \in Q
      BY <1>1, <3>1, <3>2
    <3> QED
      BY <2>4, <2>5, <2>7, <3>3
  <2> QED
    BY <2>11, <2>12
<1> QED
  BY <1>3, <1>4

LEMMA BeforeLast == \A n \in Nat : \A i \in 1 .. n : i # n => i \in 1 .. n - 1 /\ i + 1 \in 1 .. n
OBVIOUS

LEMMA ShortOfLast ==
    \A n, i \in Nat : \A j \in i + 1 .. n : j # n => j \in i + 1 .. n - 1 /\ j \in 1 .. n - 1
OBVIOUS

\* Sequences that grow and shrink at their end.
LEMMA AppendFacts ==
    ASSUME NEW A, NEW s \in Seq(A), NEW x
    PROVE  /\ Len(Append(s, x)) = Len(s) + 1
           /\ \A i \in 1 .. Len(s) : Append(s, x)[i] = s[i]
           /\ Append(s, x)[Len(s) + 1] = x
           /\ Range(Append(s, x)) = Range(s) \cup {x}
           /\ x \in A => Append(s, x) \in Seq(A)
<1>1. s \in Seq(A \cup {x}) /\ x \in A \cup {x}
  BY SeqMonotonic
<1>2. /\ Append(s, x) \in Seq(A \cup {x})
      /\ Len(Append(s, x)) = Len(s) + 1
      /\ \A i \in 1 .. Len(s) : Append(s, x)[i] = s[i]
      /\ Append(s, x)[Len(s) + 1] = x
  BY <1>1, AppendProperties
<1>3. DOMAIN s = 1 .. Len(s) /\ DOMAIN Append(s, x) = 1 .. Len(s) + 1 /\ Len(s) \in Nat
  BY <1>1, <1>2
<1>4. Range(Append(s, x)) = Range(s) \cup {x}
  <2>1. ASSUME NEW i \in 1 .. Len(s) + 1 PROVE Append(s, x)[i] \in Range(s) \cup {x}
    BY <1>2, <1>3 DEF Range
  <2>2. ASSUME NEW i \in 1 .. Len(s) PROVE s[i] \in Range(Append(s, x))
    <3>1. i \in 1 .. Len(s) + 1 /\ s[i] = Append(s, x)[i]
      BY <1>2, <1>3
    <3> QED
      BY <1>3, <3>1 DEF Range
  <2>3. x \in Range(Append(s, x))
    <3>1. Len(s) + 1 \in 1 .. Len(s) + 1
      BY <1>3
    <3> QED
      BY <1>2, <1>3, <3>1 DEF Range
  <2>4. Range(Append(s, x)) \subseteq Range(s) \cup {x}
    BY <1>3, <2>1 DEF Range
  <2>5. Range(s) \subseteq Range(Append(s, x))
    BY <1>3, <2>2 DEF Range
  <2> QED
    BY <2>3, <2>4, <2>5
<1>5. x \in A => Append(s, x) \in Seq(A)
  BY AppendProperties
<1> QED
  BY <1>2, <1>4, <1>5

LEMMA FrontFacts ==
    ASSUME NEW A, NEW s \in Seq(A), s # <<>>
    PROVE  /\ Len(s) \in Nat \ {0} /\ Last(s) = s[Len(s)] /\ Last(s) \in A
           /\ Front(s) \in Seq(A) /\ Len(Front(s)) = Len(s) - 1
           /\ \A i \in 1 .. Len(s) - 1 : Front(s)[i] = s[i]
<1>1. Len(s) \in Nat \ {0}
  BY EmptySeq
<1> DEFINE n == Len(s) - 1
<1>2. n \in Nat /\ n \in Int /\ 1 \in Int /\ n - 1 + 1 = n /\ (IF 1 <= n THEN n - 1 + 1 ELSE 0) = n
  <2>1. n \in Nat
    BY <1>1
  <2> HIDE DEF n
  <2> QED
    BY <2>1
<1>3. \A i \in 1 .. n : s[i] \in A
  <2>1. \A i \in 1 .. n : i \in 1 .. Len(s)
    BY <1>1
  <2> QED
    BY <2>1, ElementOfSeq
<1>4. /\ SubSeq(s, 1, n) \in Seq(A)
      /\ Len(SubSeq(s, 1, n)) = n
      /\ \A i \in 1 .. n : SubSeq(s, 1, n)[i] = s[1 + i - 1]
  <2> HIDE DEF n
  <2> QED
    BY <1>2, <1>3, SubSeqProperties
<1>5. \A i \in 1 .. n : SubSeq(s, 1, n)[i] = s[i]
  BY <1>1, <1>4
<1>6. Len(s) \in 1 .. Len(s)
  BY <1>1
<1> QED
  BY <1>1, <1>4, <1>5, <1>6, ElementOfSeq DEF Front, Last

LEMMA OneFacts ==
    ASSUME NEW A, NEW x \in A
    PROVE  /\ <<x>> \in Seq(A) /\ Len(<<x>>) = 1 /\ <<x>>[1] = x
           /\ \A i \in 1 .. Len(<<x>>) : i = 1
           /\ Range(<<x>>) = {x}
BY DEF Range

\* The members of a path without its end.
LEMMA FrontRange ==
    ASSUME NEW A, NEW s \in Seq(A), s # <<>>, \A i, j \in 1 .. Len(s) : s[i] = s[j] => i = j
    PROVE  Range(Front(s)) = Range(s) \ {Last(s)}
<1>1. /\ Len(s) \in Nat \ {0} /\ Last(s) = s[Len(s)]
      /\ Front(s) \in Seq(A) /\ Len(Front(s)) = Len(s) - 1
      /\ \A i \in 1 .. Len(s) - 1 : Front(s)[i] = s[i]
  BY FrontFacts
<1>2. DOMAIN s = 1 .. Len(s) /\ DOMAIN Front(s) = 1 .. Len(s) - 1
  BY <1>1
<1>3. ASSUME NEW i \in 1 .. Len(s) - 1
      PROVE  Front(s)[i] \in Range(s) /\ Front(s)[i] # Last(s)
  <2>1. i \in 1 .. Len(s) /\ Len(s) \in 1 .. Len(s) /\ i # Len(s)
    BY <1>1
  <2> QED
    BY <1>1, <1>2, <2>1 DEF Range
<1>4. ASSUME NEW i \in 1 .. Len(s), s[i] # Last(s)
      PROVE  s[i] \in Range(Front(s))
  <2>1. i \in 1 .. Len(s) - 1
    BY <1>1, <1>4
  <2> QED
    BY <1>1, <1>2, <2>1 DEF Range
<1> QED
  BY <1>2, <1>3, <1>4 DEF Range

\* The walk: its path p, the edges l it has not followed, the blocks c it has
\* finished, and the back edges B it has found.
Walk(p, l, c, B) ==
    /\ Chain(p)
    /\ c \subseteq nodes /\ c \cap Range(p) = {}
    /\ l = [n \in c \cup Range(p) |-> l[n]]
    /\ \A n \in c \cup Range(p) : l[n] \subseteq graph[n] /\ graph[n] \ l[n] \subseteq c \cup Range(p)
    /\ \A n \in c : l[n] = {}
    /\ B \subseteq Node \X Node
    /\ \A n, m \in Node :
          <<n, m>> \in B <=> n \in c \cup Range(p) /\ m \in graph[n] \ l[n] /\ Dominates(graph, m, n)

LEMMA ChainFacts ==
    ASSUME FlowOK, NEW p, Chain(p)
    PROVE  /\ p \in Seq(nodes) /\ p # <<>> /\ Len(p) \in Nat \ {0} /\ DOMAIN p = 1 .. Len(p)
           /\ Last(p) = p[Len(p)] /\ Last(p) \in Range(p) /\ Range(p) \subseteq nodes
           /\ nodes \subseteq Node
<1>1. p \in Seq(nodes) /\ Len(p) \in Nat \ {0} /\ DOMAIN p = 1 .. Len(p)
  BY DEF Chain
<1>2. p # <<>>
  BY <1>1, EmptySeq
<1>3. \A i \in 1 .. Len(p) : p[i] \in nodes
  BY <1>1
<1>4. Len(p) \in DOMAIN p
  BY <1>1
<1>5. Last(p) \in Range(p)
  BY <1>4 DEF Last, Range
<1>6. Range(p) \subseteq nodes
  BY <1>1, <1>3 DEF Range
<1> QED
  BY <1>1, <1>2, <1>5, <1>6 DEF Last, FlowOK

\* An edge is followed, back to the path or to what is finished.
LEMMA WalkFollows ==
    ASSUME FlowOK, Acyclic(graph), NEW p, NEW l, NEW c, NEW B, Walk(p, l, c, B),
           NEW d \in l[Last(p)], d \in c \cup Range(p)
    PROVE  Walk(p, [l EXCEPT ![Last(p)] = @ \ {d}], c,
                IF d \in Range(p) THEN B \cup {<<Last(p), d>>} ELSE B)
<1> DEFINE t == Last(p)
           M == c \cup Range(p)
           k == [l EXCEPT ![t] = @ \ {d}]
           C == IF d \in Range(p) THEN B \cup {<<t, d>>} ELSE B
<1>1. /\ t = p[Len(p)] /\ t \in Range(p) /\ M \subseteq nodes /\ nodes \subseteq Node
  BY ChainFacts DEF Walk
<1>2. /\ l = [n \in M |-> l[n]] /\ c \cap Range(p) = {}
      /\ \A n \in M : l[n] \subseteq graph[n] /\ graph[n] \ l[n] \subseteq M
      /\ \A n \in c : l[n] = {}
      /\ B \subseteq Node \X Node
      /\ \A n, m \in Node :
            <<n, m>> \in B <=> n \in M /\ m \in graph[n] \ l[n] /\ Dominates(graph, m, n)
  BY DEF Walk
<1>3. d \in graph[t] /\ d \in M /\ t \in M /\ t \notin c /\ d \in Node
  BY <1>1, <1>2
<1>4. d \in Range(p) <=> Dominates(graph, d, t)
  BY <1>1, <1>3, BackIsDominance DEF Walk
<1> HIDE DEF t, M
<1>5. /\ k = [n \in M |-> k[n]]
      /\ k[t] = l[t] \ {d} /\ \A n \in M \ {t} : k[n] = l[n]
  BY <1>2, <1>3
<1> HIDE DEF k
<1>6. /\ \A n \in M : k[n] \subseteq graph[n] /\ graph[n] \ k[n] \subseteq M
      /\ \A n \in c : k[n] = {}
  BY <1>2, <1>3, <1>5 DEF M
<1>7. C \subseteq Node \X Node
  BY <1>1, <1>2, <1>3 DEF M
<1>8. ASSUME NEW n \in Node, NEW m \in Node
      PROVE  <<n, m>> \in C <=> n \in M /\ m \in graph[n] \ k[n] /\ Dominates(graph, m, n)
  <2>1. <<n, m>> \in B <=> n \in M /\ m \in graph[n] \ l[n] /\ Dominates(graph, m, n)
    BY <1>2
  <2>2. CASE n = t /\ m = d
    BY <1>2, <1>3, <1>4, <1>5, <2>1, <2>2
  <2>3. CASE ~(n = t /\ m = d)
    <3>1. <<n, m>> \in C <=> <<n, m>> \in B
      BY <2>3
    <3>2. n \in M => (m \in k[n] <=> m \in l[n])
      BY <1>5, <2>3
    <3> QED
      BY <2>1, <3>1, <3>2
  <2> QED
    BY <2>2, <2>3
<1> HIDE DEF C
<1>9. Walk(p, k, c, C)
  BY <1>2, <1>5, <1>6, <1>7, <1>8 DEF Walk, M
<1> QED
  BY <1>9 DEF k, t, C

\* A block that the walk has not met is gone into.
LEMMA WalkEnters ==
    ASSUME FlowOK, NEW p, NEW l, NEW c, NEW B, Walk(p, l, c, B),
           NEW d \in l[Last(p)], d \notin c \cup Range(p)
    PROVE  Walk(Append(p, d), With([l EXCEPT ![Last(p)] = @ \ {d}], d, graph[d]), c, B)
<1> DEFINE t == Last(p)
           M == c \cup Range(p)
           k == [l EXCEPT ![t] = @ \ {d}]
           q == Append(p, d)
           h == With(k, d, graph[d])
           W == c \cup Range(q)
<1>1. /\ p \in Seq(nodes) /\ p # <<>> /\ Len(p) \in Nat \ {0}
      /\ t = p[Len(p)] /\ t \in Range(p) /\ M \subseteq nodes /\ nodes \subseteq Node
      /\ DOMAIN p = 1 .. Len(p)
  BY ChainFacts DEF Walk
<1>2. /\ l = [n \in M |-> l[n]] /\ c \cap Range(p) = {}
      /\ \A n \in M : l[n] \subseteq graph[n] /\ graph[n] \ l[n] \subseteq M
      /\ \A n \in c : l[n] = {}
      /\ B \subseteq Node \X Node
      /\ \A n, m \in Node :
            <<n, m>> \in B <=> n \in M /\ m \in graph[n] \ l[n] /\ Dominates(graph, m, n)
      /\ Chain(p)
  BY DEF Walk
<1>3. d \in graph[t] /\ d \notin M /\ t \in M /\ t \notin c /\ d \in nodes
  <2>1. t \in M /\ t \in nodes /\ t \notin c
    BY <1>1, <1>2
  <2>2. d \in graph[t] /\ d \notin M
    BY <1>2, <2>1
  <2> QED
    BY <2>1, <2>2 DEF FlowOK
<1>4. /\ Len(q) = Len(p) + 1 /\ q \in Seq(nodes) /\ q[Len(p) + 1] = d
      /\ \A i \in 1 .. Len(p) : q[i] = p[i]
      /\ Range(q) = Range(p) \cup {d}
  BY <1>1, <1>3, AppendFacts
<1>5. \A i \in 1 .. Len(p) : p[i] # d
  BY <1>1, <1>3 DEF Range
<1> HIDE DEF q
<1>6. Chain(q)
  <2>1. q \in Seq(nodes) /\ Len(q) > 0 /\ q[1] = Entry
    BY <1>1, <1>2, <1>4 DEF Chain
  <2>2. ASSUME NEW i \in 1 .. Len(q) - 1 PROVE q[i + 1] \in graph[q[i]]
    <3>1. i \in 1 .. Len(p)
      BY <1>1, <1>4
    <3>2. CASE i = Len(p)
      BY <1>1, <1>3, <1>4, <3>1, <3>2
    <3>3. CASE i # Len(p)
      <4>1. i \in 1 .. Len(p) - 1 /\ i + 1 \in 1 .. Len(p)
        BY <1>1, <3>1, <3>3, BeforeLast
      <4> QED
        BY <1>2, <1>4, <3>1, <4>1 DEF Chain
    <3> QED
      BY <3>2, <3>3
  <2>3. ASSUME NEW i \in 1 .. Len(q), NEW j \in 1 .. Len(q), q[i] = q[j] PROVE i = j
    <3>1. \A x \in 1 .. Len(q) : x \in 1 .. Len(p) \/ x = Len(p) + 1
      BY <1>1, <1>4
    <3>2. CASE i \in 1 .. Len(p) /\ j \in 1 .. Len(p)
      BY <1>2, <1>4, <2>3, <3>2 DEF Chain
    <3>3. CASE i = Len(p) + 1 /\ j \in 1 .. Len(p)
      BY <1>4, <1>5, <2>3, <3>3
    <3>4. CASE j = Len(p) + 1 /\ i \in 1 .. Len(p)
      BY <1>4, <1>5, <2>3, <3>4
    <3> QED
      BY <3>1, <3>2, <3>3, <3>4
  <2> QED
    BY <2>1, <2>2, <2>3 DEF Chain
<1>7. W = M \cup {d}
  BY <1>4
<1> HIDE DEF M, t
<1>8. /\ DOMAIN k = M
      /\ k[t] = l[t] \ {d} /\ \A n \in M \ {t} : k[n] = l[n]
  BY <1>2, <1>3
<1> HIDE DEF k
<1>9. /\ h = [n \in W |-> h[n]]
      /\ h[d] = graph[d] /\ \A n \in M : h[n] = k[n]
  BY <1>3, <1>7, <1>8 DEF With
<1> HIDE DEF h, W
<1>10. ASSUME NEW n \in W PROVE h[n] \subseteq graph[n] /\ graph[n] \ h[n] \subseteq W
  <2>1. CASE n = d
    BY <1>9, <2>1
  <2>2. CASE n # d
    <3>1. n \in M /\ h[n] \cup {d} = l[n] \cup {d} /\ h[n] \subseteq l[n]
      BY <1>3, <1>7, <1>8, <1>9, <2>2
    <3>2. l[n] \subseteq graph[n] /\ graph[n] \ l[n] \subseteq M
      BY <1>2, <3>1
    <3> QED
      BY <1>7, <3>1, <3>2
  <2> QED
    BY <2>1, <2>2
<1>11. \A n \in c : h[n] = {}
  <2>1. c \subseteq M
    BY DEF M
  <2> QED
    BY <1>2, <1>3, <1>8, <1>9, <2>1
<1>12. ASSUME NEW n \in Node, NEW m \in Node
       PROVE  <<n, m>> \in B <=> n \in W /\ m \in graph[n] \ h[n] /\ Dominates(graph, m, n)
  <2>1. <<n, m>> \in B <=> n \in M /\ m \in graph[n] \ l[n] /\ Dominates(graph, m, n)
    BY <1>2
  <2>2. CASE n = t /\ m = d
    <3>1. ~Dominates(graph, d, t)
      <4>1. Len(p) \in 1 .. Len(p)
        BY <1>1
      <4>2. \A i \in 1 .. Len(p) : p[i] # d
        BY <1>5
      <4> QED
        BY <1>1, <1>2, <4>1, <4>2, ChainReaches
    <3> QED
      BY <2>1, <2>2, <3>1
  <2>3. CASE n # d /\ ~(n = t /\ m = d)
    <3>1. n \in W <=> n \in M
      BY <1>7, <2>3
    <3>2. n \in M => (m \in h[n] <=> m \in l[n])
      BY <1>8, <1>9, <2>3
    <3> QED
      BY <2>1, <3>1, <3>2
  <2>4. CASE n = d /\ ~(n = t /\ m = d)
    BY <1>3, <1>9, <2>1, <2>4
  <2> QED
    BY <2>2, <2>3, <2>4
<1>13. c \subseteq nodes /\ c \cap Range(q) = {}
  <2>1. c \subseteq nodes /\ d \notin c
    BY <1>1, <1>3 DEF M
  <2> QED
    BY <1>2, <1>4, <2>1
<1>14. Walk(q, h, c, B)
  BY <1>2, <1>6, <1>9, <1>10, <1>11, <1>12, <1>13 DEF Walk, W
<1> QED
  BY <1>14 DEF q, h, k, t

\* A block with nothing left to follow is finished.
LEMMA WalkLeaves ==
    ASSUME FlowOK, NEW p, NEW l, NEW c, NEW B, Walk(p, l, c, B),
           l[Last(p)] = {}, Front(p) # <<>>
    PROVE  Walk(Front(p), l, c \cup {Last(p)}, B)
<1> DEFINE t == Last(p)
           q == Front(p)
           M == c \cup Range(p)
<1>1. /\ p \in Seq(nodes) /\ p # <<>> /\ Len(p) \in Nat \ {0}
      /\ t = p[Len(p)] /\ t \in Range(p) /\ M \subseteq nodes /\ nodes \subseteq Node
  BY ChainFacts DEF Walk
<1>2. Walk(p, l, c, B) /\ Chain(p)
  BY DEF Walk
<1>3. /\ q \in Seq(nodes) /\ Len(q) = Len(p) - 1
      /\ \A i \in 1 .. Len(p) - 1 : q[i] = p[i]
  BY <1>1, FrontFacts
<1>4. Range(q) = Range(p) \ {t}
  BY <1>1, <1>2, FrontRange DEF Chain
<1>5. Len(q) > 0
  <2>1. q # <<>> /\ Len(q) \in Nat
    BY <1>3
  <2>2. Len(q) # 0
    BY <1>3, <2>1, EmptySeq
  <2> QED
    BY <2>1, <2>2
<1> HIDE DEF q
<1>6. Chain(q)
  <2>1. \A i \in 1 .. Len(q) : i \in 1 .. Len(p) /\ q[i] = p[i]
    BY <1>1, <1>3
  <2>2. \A i \in 1 .. Len(q) - 1 : i \in 1 .. Len(q) /\ i + 1 \in 1 .. Len(q) /\ i \in 1 .. Len(p) - 1
    BY <1>1, <1>3
  <2>3. q[1] = Entry
    <3>1. 1 \in 1 .. Len(q)
      BY <1>3, <1>5
    <3> QED
      BY <1>2, <2>1, <3>1 DEF Chain
  <2>4. \A i \in 1 .. Len(q) - 1 : q[i + 1] \in graph[q[i]]
    BY <1>2, <2>1, <2>2 DEF Chain
  <2>5. \A i, j \in 1 .. Len(q) : q[i] = q[j] => i = j
    BY <1>2, <2>1 DEF Chain
  <2> QED
    BY <1>3, <1>5, <2>3, <2>4, <2>5 DEF Chain
<1>7. (c \cup {t}) \cup Range(q) = M
  BY <1>1, <1>4
<1>8. c \cup {t} \subseteq nodes /\ (c \cup {t}) \cap Range(q) = {}
  BY <1>1, <1>2, <1>4 DEF Walk
<1> QED
  BY <1>2, <1>6, <1>7, <1>8 DEF Walk, q, t

\* The walk ends when it has followed every edge of a live block.
LEMMA WalkEnds ==
    ASSUME FlowOK, NEW p, NEW l, NEW c, NEW B, Walk(p, l, c, B),
           l[Last(p)] = {}, Front(p) = <<>>
    PROVE  B = {e \in Edges : Dominates(graph, e[2], e[1])}
<1> DEFINE M == c \cup Range(p)
<1>1. /\ p \in Seq(nodes) /\ p # <<>> /\ Len(p) \in Nat \ {0} /\ DOMAIN p = 1 .. Len(p)
      /\ Last(p) = p[Len(p)] /\ M \subseteq nodes
  BY ChainFacts DEF Walk
<1>2. Len(p) = 1
  <2>1. Len(Front(p)) = Len(p) - 1 /\ Len(<<>>) = 0
    BY <1>1, FrontFacts, EmptySeq
  <2>2. Len(p) - 1 = 0
    BY <2>1
  <2>3. \A x \in Nat : x - 1 = 0 => x = 1
    OBVIOUS
  <2>4. Len(p) \in Nat
    BY <1>1
  <2> QED
    BY <2>2, <2>3, <2>4
<1>3. Range(p) = {Entry} /\ Last(p) = Entry
  BY <1>1, <1>2 DEF Range, Walk, Chain
<1>4. \A n \in M : l[n] = {}
  BY <1>3 DEF Walk
<1>5. /\ \A n \in M : graph[n] \subseteq M
      /\ \A n, m \in Node : <<n, m>> \in B <=> n \in M /\ m \in graph[n] /\ Dominates(graph, m, n)
      /\ B \subseteq Node \X Node
  BY <1>4 DEF Walk
<1>6. nodes \subseteq M
  <2>1. {Entry} \in SUBSET Node /\ graph \in [Node -> SUBSET Node] /\ nodes = Reachable(graph, {Entry}, {})
    BY NodeAssumption DEF FlowOK
  <2>2. {Entry} \subseteq M
    BY <1>3
  <2> HIDE DEF M
  <2> QED
    BY <1>5, <2>1, <2>2, Everything
<1> HIDE DEF M
<1>7. \A n, m \in Node : <<n, m>> \in B <=> m \in graph[n] /\ Dominates(graph, m, n)
  BY <1>1, <1>5, <1>6 DEF FlowOK
<1>8. ASSUME NEW e \in Node \X Node
      PROVE  e \in B <=> e[2] \in graph[e[1]] /\ Dominates(graph, e[2], e[1])
  <2>1. e = <<e[1], e[2]>> /\ e[1] \in Node /\ e[2] \in Node
    OBVIOUS
  <2> QED
    BY <1>7, <2>1
<1> QED
  BY <1>5, <1>8 DEF Edges

-----------------------------------------------------------------------------
(* CFGraph._find_postorder.                                                *)

\* A closed set of blocks with the entry has them all: a path need not follow
\* edges into dominators.
LEMMA ClosedIsAll ==
    ASSUME FlowOK, NEW Y, Entry \in Y, \A n \in Y : NonBack(graph)[n] \subseteq Y
    PROVE  nodes \subseteq Y
<1> DEFINE b == NonBack(graph)
           Z == Reachable(b, {Entry}, {})
<1>1. /\ {Entry} \in SUBSET Node /\ graph \in [Node -> SUBSET Node] /\ nodes \subseteq Node
      /\ nodes = Reachable(graph, {Entry}, {})
      /\ \A n \in nodes : graph[n] \subseteq nodes
  BY NodeAssumption DEF FlowOK
<1>2. b \in [Node -> SUBSET Node] /\ \A x \in Node : b[x] = {m \in graph[x] : ~Dominates(graph, m, x)}
  BY <1>1 DEF NonBack
<1>3. /\ Z \subseteq Node /\ Entry \in Z
      /\ \A n \in Z : b[n] \subseteq Z
      /\ \A X : {Entry} \subseteq X /\ (\A n \in X : b[n] \subseteq X) => Z \subseteq X
  BY <1>1, <1>2, Everything
<1> HIDE DEF b, Z
<1>4. ASSUME NEW n \in Z, NEW m \in graph[n], m \notin Z PROVE FALSE
  <2> DEFINE R == Reachable(graph, {Entry}, {m})
  <2>1. /\ Entry # m => Entry \in R
        /\ \A x \in R : \A y \in graph[x] : y = m \/ y \in R
    BY <1>1, Around
  <2>2. n \in R <=> ~Dominates(graph, m, n)
    BY DEF Dominates
  <2> HIDE DEF R
  <2> DEFINE X == R \cap Z
  <2>3. {Entry} \subseteq X
    BY <1>3, <1>4, <2>1
  <2>4. \A x \in X : b[x] \subseteq X
    BY <1>2, <1>3, <1>4, <2>1
  <2> HIDE DEF X
  <2>5. Z \subseteq X
    BY <1>3, <2>3, <2>4
  <2>6. n \in R
    BY <2>5 DEF X
  <2>7. m \in b[n]
    BY <1>2, <1>3, <1>4, <2>2, <2>6
  <2> QED
    BY <1>3, <1>4, <2>7
<1>5. nodes \subseteq Z
  <2>1. {Entry} \subseteq Z /\ \A n \in Z : graph[n] \subseteq Z
    BY <1>3, <1>4
  <2> QED
    BY <1>1, <2>1, Everything
<1>6. Z \subseteq Y
  <2>1. {Entry} \subseteq Y /\ \A n \in Y : b[n] \subseteq Y
    BY DEF b
  <2> QED
    BY <1>3, <2>1
<1> QED
  BY <1>5, <1>6

Open(st) == {n \in nodes : \E i \in 1 .. Len(st) : st[i] = <<"append", n>>}

\* Blocks listed so far, each once and after what it leads to.
Listed(o) ==
    /\ o \in Seq(nodes)
    /\ \A i, j \in 1 .. Len(o) : o[i] = o[j] => i = j
    /\ \A i \in 1 .. Len(o) : \A m \in NonBack(graph)[o[i]] : \E k \in 1 .. i - 1 : o[k] = m

\* What an open block leads to is listed or lies above it, and all that lies
\* above it can be reached from it.
Stacked(st, o) ==
    /\ st \in Seq({"visit", "append"} \X nodes)
    /\ \A i, j \in 1 .. Len(st) : st[i][1] = "append" /\ st[i] = st[j] => i = j
    /\ \A i \in 1 .. Len(st) : st[i][1] = "append" =>
          \A m \in NonBack(graph)[st[i][2]] :
             m \in Range(o) \/ \E j \in i + 1 .. Len(st) : st[j][2] = m
    /\ \A i, j \in 1 .. Len(st) : st[i][1] = "append" /\ i < j =>
          st[j][2] \in Reachable(NonBack(graph), NonBack(graph)[st[i][2]], {})

Ordering(st, seen, o) ==
    /\ Listed(o) /\ Stacked(st, o)
    /\ seen = Range(o) \cup Open(st) /\ Range(o) \cap Open(st) = {}
    /\ Entry \in Range(o) \/ \E j \in 1 .. Len(st) : st[j][2] = Entry

LEMMA OrderingStarts == ASSUME FlowOK PROVE Ordering(<<<<"visit", Entry>>>>, {}, <<>>)
<1> DEFINE st == <<<<"visit", Entry>>>>
<1>1. /\ st \in Seq({"visit", "append"} \X nodes) /\ Len(st) = 1 /\ st[1] = <<"visit", Entry>>
      /\ \A i \in 1 .. Len(st) : i = 1
  <2> DEFINE x == <<"visit", Entry>>
  <2>1. x \in {"visit", "append"} \X nodes
    BY DEF FlowOK
  <2> HIDE DEF x
  <2>2. <<x>> \in Seq({"visit", "append"} \X nodes) /\ Len(<<x>>) = 1 /\ <<x>>[1] = x
        /\ \A i \in 1 .. Len(<<x>>) : i = 1
    BY <2>1, OneFacts
  <2> QED
    BY <2>2 DEF x
<1>2. <<>> \in Seq(nodes) /\ Len(<<>>) = 0 /\ \A i \in 1 .. 0 : FALSE
  BY EmptySeq
<1>3. Range(<<>>) = {}
  BY <1>2 DEF Range
<1> HIDE DEF st
<1>4. st[1][1] = "visit" /\ st[1][2] = Entry
  BY <1>1
<1>5. \A n : st[1] # <<"append", n>>
  BY <1>1
<1>6. Open(st) = {}
  BY <1>1, <1>5 DEF Open
<1>7. Listed(<<>>)
  BY <1>2 DEF Listed
<1>8. Stacked(st, <<>>)
  BY <1>1, <1>4 DEF Stacked
<1>9. Ordering(st, {}, <<>>)
  BY <1>1, <1>3, <1>4, <1>6, <1>7, <1>8 DEF Ordering
<1> QED
  BY <1>9 DEF st

\* What Ordering says of the top of the stack.
LEMMA TopOf ==
    ASSUME NEW st, NEW o, Stacked(st, o), st # <<>>
    PROVE  /\ Len(st) \in Nat \ {0} /\ Len(st) \in 1 .. Len(st)
           /\ Last(st) = st[Len(st)]
           /\ Last(st)[1] \in {"visit", "append"} /\ Last(st)[2] \in nodes
           /\ Last(st) = <<Last(st)[1], Last(st)[2]>>
           /\ Front(st) \in Seq({"visit", "append"} \X nodes) /\ Len(Front(st)) = Len(st) - 1
           /\ \A i \in 1 .. Len(st) - 1 : Front(st)[i] = st[i]
           /\ \A i \in 1 .. Len(st) - 1 : i \in 1 .. Len(st)
<1>1. st \in Seq({"visit", "append"} \X nodes)
  BY DEF Stacked
<1>2. /\ Len(st) \in Nat \ {0} /\ Last(st) = st[Len(st)] /\ Last(st) \in {"visit", "append"} \X nodes
      /\ Front(st) \in Seq({"visit", "append"} \X nodes) /\ Len(Front(st)) = Len(st) - 1
      /\ \A i \in 1 .. Len(st) - 1 : Front(st)[i] = st[i]
  BY <1>1, FrontFacts
<1>3. Last(st)[1] \in {"visit", "append"} /\ Last(st)[2] \in nodes /\ Last(st) = <<Last(st)[1], Last(st)[2]>>
  BY <1>2
<1>4. Len(st) \in 1 .. Len(st) /\ \A i \in 1 .. Len(st) - 1 : i \in 1 .. Len(st)
  BY <1>2
<1> QED
  BY <1>2, <1>3, <1>4

\* A block that was seen is listed, or else a cycle would lead back to it.
LEMMA OrderingSkips ==
    ASSUME FlowOK, Acyclic(graph), NEW st, NEW seen, NEW o, Ordering(st, seen, o),
           st # <<>>, NEW n, Last(st) = <<"visit", n>>, n \in seen
    PROVE  Ordering(Front(st), seen, o)
<1> DEFINE L == Len(st)
           f == Front(st)
           b == NonBack(graph)
<1>1. /\ L \in Nat \ {0} /\ L \in 1 .. L /\ Last(st) = st[L] /\ n \in nodes
      /\ f \in Seq({"visit", "append"} \X nodes) /\ Len(f) = L - 1
      /\ \A i \in 1 .. L - 1 : f[i] = st[i]
      /\ \A i \in 1 .. L - 1 : i \in 1 .. L
  BY TopOf DEF Ordering
<1>2. /\ Listed(o)
      /\ \A i, j \in 1 .. L : st[i][1] = "append" /\ st[i] = st[j] => i = j
      /\ \A i \in 1 .. L : st[i][1] = "append" =>
            \A m \in b[st[i][2]] : m \in Range(o) \/ \E j \in i + 1 .. L : st[j][2] = m
      /\ \A i, j \in 1 .. L : st[i][1] = "append" /\ i < j =>
            st[j][2] \in Reachable(b, b[st[i][2]], {})
      /\ seen = Range(o) \cup Open(st) /\ Range(o) \cap Open(st) = {}
      /\ Entry \in Range(o) \/ \E j \in 1 .. L : st[j][2] = Entry
  BY DEF Ordering, Stacked
<1>3. n \notin Reachable(b, b[n], {})
  BY <1>1 DEF Acyclic, FlowOK
<1>4. st[L][1] = "visit" /\ st[L][2] = n
  BY <1>1
<1> HIDE DEF f, b
<1>5. ASSUME NEW i \in 1 .. L, i # L PROVE i \in 1 .. L - 1 /\ i < L
  BY <1>1, <1>5
<1>6. n \in Range(o)
  <2>1. ASSUME n \in Open(st) PROVE FALSE
    <3>1. PICK i \in 1 .. L : st[i] = <<"append", n>>
      BY <2>1 DEF Open
    <3>2. st[i][1] = "append" /\ st[i][2] = n
      BY <3>1
    <3>3. i # L
      BY <1>4, <3>2
    <3> QED
      BY <1>1, <1>2, <1>3, <1>4, <1>5, <3>2, <3>3
  <2> QED
    BY <1>2, <2>1
<1>7. Open(f) = Open(st)
  <2>1. ASSUME NEW x \in nodes, NEW i \in 1 .. L, st[i] = <<"append", x>>
        PROVE  i \in 1 .. L - 1
    <3>1. st[i][1] = "append"
      BY <2>1
    <3> QED
      BY <1>4, <1>5, <3>1
  <2> HIDE DEF L
  <2> QED
    BY <1>1, <2>1 DEF Open, L
<1>8. ASSUME NEW i \in 1 .. L - 1, NEW m, m \notin Range(o), NEW j \in i + 1 .. L, st[j][2] = m
      PROVE  j \in i + 1 .. L - 1
  BY <1>1, <1>4, <1>6, <1>8
<1>9. Stacked(f, o)
  <2>1. ASSUME NEW i \in 1 .. L - 1, f[i][1] = "append", NEW m \in b[f[i][2]]
        PROVE  m \in Range(o) \/ \E j \in i + 1 .. L - 1 : f[j][2] = m
    <3>1. CASE m \in Range(o)
      BY <3>1
    <3>2. CASE m \notin Range(o)
      <4>1. PICK j \in i + 1 .. L : st[j][2] = m
        BY <1>1, <1>2, <2>1, <3>2
      <4>2. j \in i + 1 .. L - 1 /\ j \in 1 .. L - 1
        BY <1>1, <1>8, <3>2, <4>1
      <4> QED
        BY <1>1, <4>1, <4>2
    <3> QED
      BY <3>1, <3>2
  <2> HIDE DEF L
  <2>2. \A i, j \in 1 .. L - 1 : f[i][1] = "append" /\ f[i] = f[j] => i = j
    BY <1>1, <1>2
  <2>3. \A i, j \in 1 .. L - 1 : f[i][1] = "append" /\ i < j =>
           f[j][2] \in Reachable(b, b[f[i][2]], {})
    BY <1>1, <1>2
  <2>4. f \in Seq({"visit", "append"} \X nodes) /\ Len(f) = L - 1
    BY <1>1
  <2> HIDE DEF f
  <2> QED
    BY <2>1, <2>2, <2>3, <2>4 DEF Stacked, b
<1>10. Entry \in Range(o) \/ \E j \in 1 .. L - 1 : f[j][2] = Entry
  <2>1. ASSUME Entry \notin Range(o), NEW j \in 1 .. L, st[j][2] = Entry PROVE j \in 1 .. L - 1
    BY <1>4, <1>5, <1>6, <2>1
  <2> QED
    BY <1>1, <1>2, <2>1
<1>11. Ordering(f, seen, o)
  BY <1>1, <1>2, <1>7, <1>9, <1>10 DEF Ordering
<1> QED
  BY <1>11 DEF f

\* A block whose turn it is has all that it leads to before it.
LEMMA OrderingAppends ==
    ASSUME FlowOK, NEW st, NEW seen, NEW o, Ordering(st, seen, o),
           st # <<>>, NEW n, Last(st) = <<"append", n>>
    PROVE  Ordering(Front(st), seen, Append(o, n))
<1> DEFINE L == Len(st)
           f == Front(st)
           b == NonBack(graph)
           q == Append(o, n)
           K == Len(o)
<1>1. /\ L \in Nat \ {0} /\ L \in 1 .. L /\ Last(st) = st[L] /\ n \in nodes
      /\ f \in Seq({"visit", "append"} \X nodes) /\ Len(f) = L - 1
      /\ \A i \in 1 .. L - 1 : f[i] = st[i]
      /\ \A i \in 1 .. L - 1 : i \in 1 .. L
  BY TopOf DEF Ordering
<1>2. /\ \A i, j \in 1 .. L : st[i][1] = "append" /\ st[i] = st[j] => i = j
      /\ \A i \in 1 .. L : st[i][1] = "append" =>
            \A m \in b[st[i][2]] : m \in Range(o) \/ \E j \in i + 1 .. L : st[j][2] = m
      /\ \A i, j \in 1 .. L : st[i][1] = "append" /\ i < j =>
            st[j][2] \in Reachable(b, b[st[i][2]], {})
      /\ seen = Range(o) \cup Open(st) /\ Range(o) \cap Open(st) = {}
      /\ Entry \in Range(o) \/ \E j \in 1 .. L : st[j][2] = Entry
  BY DEF Ordering, Stacked
<1>3. /\ o \in Seq(nodes) /\ K \in Nat /\ DOMAIN o = 1 .. K
      /\ \A i, j \in 1 .. K : o[i] = o[j] => i = j
      /\ \A i \in 1 .. K : \A m \in b[o[i]] : \E k \in 1 .. i - 1 : o[k] = m
  <2>1. Listed(o)
    BY DEF Ordering
  <2>2. /\ o \in Seq(nodes)
        /\ \A i, j \in 1 .. Len(o) : o[i] = o[j] => i = j
        /\ \A i \in 1 .. Len(o) : \A m \in b[o[i]] : \E k \in 1 .. i - 1 : o[k] = m
    BY <2>1 DEF Listed
  <2>3. Len(o) \in Nat /\ DOMAIN o = 1 .. Len(o)
    BY <2>2
  <2> QED
    BY <2>2, <2>3
<1>4. /\ q \in Seq(nodes) /\ Len(q) = K + 1 /\ q[K + 1] = n
      /\ \A i \in 1 .. K : q[i] = o[i]
      /\ Range(q) = Range(o) \cup {n}
  BY <1>1, <1>3, AppendFacts
<1>5. st[L] = <<"append", n>> /\ st[L][1] = "append" /\ st[L][2] = n
  BY <1>1
<1>6. n \in Open(st) /\ n \notin Range(o)
  <2>1. n \in Open(st)
    BY <1>1, <1>5 DEF Open
  <2> QED
    BY <1>2, <2>1
<1> HIDE DEF f, b, q
<1>7. \A m \in b[n] : m \in Range(o)
  <2>1. \A j \in L + 1 .. L : FALSE
    BY <1>1
  <2> QED
    BY <1>1, <1>2, <1>5, <2>1
<1>8. Listed(q)
  <2>1. \A i \in 1 .. K + 1 : i \in 1 .. K \/ i = K + 1
    BY <1>3
  <2>2. \A i \in 1 .. K : o[i] # n
    BY <1>3, <1>6 DEF Range
  <2>3. ASSUME NEW i \in 1 .. K + 1, NEW j \in 1 .. K + 1, q[i] = q[j] PROVE i = j
    <3>1. CASE i \in 1 .. K /\ j \in 1 .. K
      BY <1>3, <1>4, <2>3, <3>1
    <3>2. CASE i = K + 1 /\ j \in 1 .. K
      BY <1>4, <2>2, <2>3, <3>2
    <3>3. CASE j = K + 1 /\ i \in 1 .. K
      BY <1>4, <2>2, <2>3, <3>3
    <3> QED
      BY <2>1, <3>1, <3>2, <3>3
  <2>4. ASSUME NEW i \in 1 .. K + 1, NEW m \in b[q[i]] PROVE \E k \in 1 .. i - 1 : q[k] = m
    <3>1. CASE i \in 1 .. K
      <4>1. m \in b[o[i]]
        BY <1>4, <2>4, <3>1
      <4>2. PICK k \in 1 .. i - 1 : o[k] = m
        BY <1>3, <3>1, <4>1
      <4>3. k \in 1 .. K
        BY <1>3, <3>1, <4>2
      <4> QED
        BY <1>4, <4>2, <4>3
    <3>2. CASE i = K + 1
      <4>1. m \in Range(o)
        BY <1>4, <1>7, <2>4, <3>2
      <4>2. PICK k \in 1 .. K : o[k] = m
        BY <1>3, <4>1 DEF Range
      <4>3. k \in 1 .. i - 1
        BY <1>3, <3>2, <4>2
      <4> QED
        BY <1>4, <4>2, <4>3
    <3> QED
      BY <2>1, <3>1, <3>2
  <2> HIDE DEF K
  <2> QED
    BY <1>3, <1>4, <2>3, <2>4 DEF Listed, b
<1>9. ASSUME NEW i \in 1 .. L, i # L PROVE i \in 1 .. L - 1
  BY <1>1, <1>9
<1>10. Open(f) = Open(st) \ {n}
  <2>1. ASSUME NEW x \in nodes, x # n, NEW i \in 1 .. L, st[i] = <<"append", x>>
        PROVE  i \in 1 .. L - 1
    <3>1. st[i][2] = x
      BY <2>1
    <3> QED
      BY <1>5, <1>9, <2>1, <3>1
  <2>2. ASSUME NEW i \in 1 .. L - 1, st[i] = <<"append", n>> PROVE FALSE
    <3>1. i \in 1 .. L /\ i # L
      BY <1>1
    <3> QED
      BY <1>1, <1>2, <1>5, <2>2, <3>1
  <2>3. ASSUME NEW x \in Open(f) PROVE x \in Open(st) \ {n}
    <3>1. PICK i \in 1 .. L - 1 : x \in nodes /\ f[i] = <<"append", x>>
      BY <1>1 DEF Open
    <3> QED
      BY <1>1, <2>2, <3>1 DEF Open
  <2>4. ASSUME NEW x \in Open(st), x # n PROVE x \in Open(f)
    <3>1. PICK i \in 1 .. L : x \in nodes /\ st[i] = <<"append", x>>
      BY DEF Open
    <3>2. i \in 1 .. L - 1 /\ f[i] = <<"append", x>> /\ x \in nodes
      BY <1>1, <2>1, <2>4, <3>1
    <3> QED
      BY <1>1, <3>2 DEF Open
  <2> QED
    BY <2>3, <2>4
<1>11. Stacked(f, q)
  <2>1. ASSUME NEW i \in 1 .. L - 1, f[i][1] = "append", NEW m \in b[f[i][2]]
        PROVE  m \in Range(q) \/ \E j \in i + 1 .. L - 1 : f[j][2] = m
    <3>1. CASE m \in Range(o)
      BY <1>4, <3>1
    <3>2. CASE m \notin Range(o)
      <4>1. PICK j \in i + 1 .. L : st[j][2] = m
        BY <1>1, <1>2, <2>1, <3>2
      <4>2. CASE j = L
        BY <1>4, <1>5, <4>1, <4>2
      <4>3. CASE j # L
        <5>1. i \in Nat /\ L \in Nat
          BY <1>1
        <5>2. j \in i + 1 .. L - 1 /\ j \in 1 .. L - 1
          BY <4>1, <4>3, <5>1, ShortOfLast
        <5> QED
          BY <1>1, <4>1, <5>2
      <4> QED
        BY <4>2, <4>3
    <3> QED
      BY <3>1, <3>2
  <2> HIDE DEF L
  <2>2. \A i, j \in 1 .. L - 1 : f[i][1] = "append" /\ f[i] = f[j] => i = j
    BY <1>1, <1>2
  <2>3. \A i, j \in 1 .. L - 1 : f[i][1] = "append" /\ i < j =>
           f[j][2] \in Reachable(b, b[f[i][2]], {})
    BY <1>1, <1>2
  <2>4. f \in Seq({"visit", "append"} \X nodes) /\ Len(f) = L - 1
    BY <1>1
  <2> HIDE DEF f
  <2> QED
    BY <2>1, <2>2, <2>3, <2>4 DEF Stacked, b
<1>12. Entry \in Range(q) \/ \E j \in 1 .. L - 1 : f[j][2] = Entry
  <2>1. CASE Entry \in Range(o)
    BY <1>4, <2>1
  <2>2. CASE Entry \notin Range(o)
    <3>1. PICK j \in 1 .. L : st[j][2] = Entry
      BY <1>2, <2>2
    <3>2. CASE j = L
      BY <1>4, <1>5, <3>1, <3>2
    <3>3. CASE j # L
      BY <1>1, <1>9, <3>1, <3>3
    <3> QED
      BY <3>2, <3>3
  <2> QED
    BY <2>1, <2>2
<1>13. seen = Range(q) \cup Open(f) /\ Range(q) \cap Open(f) = {}
  BY <1>2, <1>4, <1>6, <1>10
<1>14. Ordering(f, seen, q)
  BY <1>1, <1>8, <1>11, <1>12, <1>13 DEF Ordering
<1> QED
  BY <1>14 DEF f, q

\* A list of a finite set has each of its members once.
LEMMA ListFacts ==
    ASSUME NEW S, IsFiniteSet(S), NEW s \in SetToSeqs(S)
    PROVE  s \in Seq(S) /\ Range(s) = S
<1> DEFINE n == Cardinality(S)
<1>1. n \in Nat /\ IsFiniteSet(1 .. n) /\ Cardinality(1 .. n) = n
  <2>1. n \in Nat
    BY FS_CardinalityType
  <2> HIDE DEF n
  <2> QED
    BY <2>1, FS_Interval
<1>2. s \in [1 .. n -> S] /\ \A i, j \in 1 .. n : i # j => s[i] # s[j]
  BY DEF SetToSeqs
<1> HIDE DEF n
<1>3. s \in Injection(1 .. n, S)
  BY <1>2 DEF Injection, IsInjective
<1>4. s \in Surjection(1 .. n, S)
  BY <1>1, <1>3, FS_Injection DEF n
<1>5. s \in Seq(S)
  BY <1>1, <1>2
<1> QED
  BY <1>2, <1>4, <1>5 DEF Surjection, Range

\* A block met for the first time is opened below all that it leads to.
LEMMA OrderingOpens ==
    ASSUME FlowOK, NEW st, NEW seen, NEW o, Ordering(st, seen, o),
           st # <<>>, NEW n, Last(st) = <<"visit", n>>, n \notin seen,
           NEW ms \in SetToSeqs({<<"visit", m>> : m \in NonBack(graph)[n]})
    PROVE  Ordering(Front(st) \o Follow(n, ms), seen \cup {n}, o)
<1> DEFINE L == Len(st)
           f == Front(st)
           b == NonBack(graph)
           V == {<<"visit", m>> : m \in b[n]}
           K == Len(ms)
           F == Follow(n, ms)
           q == f \o F
           X == {"visit", "append"} \X nodes
<1>1. /\ L \in Nat \ {0} /\ L \in 1 .. L /\ Last(st) = st[L] /\ n \in nodes
      /\ f \in Seq(X) /\ Len(f) = L - 1
      /\ \A i \in 1 .. L - 1 : f[i] = st[i]
      /\ \A i \in 1 .. L - 1 : i \in 1 .. L
  BY TopOf DEF Ordering
<1>2. /\ Listed(o)
      /\ \A i, j \in 1 .. L : st[i][1] = "append" /\ st[i] = st[j] => i = j
      /\ \A i \in 1 .. L : st[i][1] = "append" =>
            \A m \in b[st[i][2]] : m \in Range(o) \/ \E j \in i + 1 .. L : st[j][2] = m
      /\ \A i, j \in 1 .. L : st[i][1] = "append" /\ i < j =>
            st[j][2] \in Reachable(b, b[st[i][2]], {})
      /\ seen = Range(o) \cup Open(st) /\ Range(o) \cap Open(st) = {}
      /\ Entry \in Range(o) \/ \E j \in 1 .. L : st[j][2] = Entry
      /\ \A i \in 1 .. L : st[i][2] \in nodes
  <2>1. st \in Seq({"visit", "append"} \X nodes)
    BY DEF Ordering, Stacked
  <2>2. \A i \in 1 .. L : st[i] \in {"visit", "append"} \X nodes
    BY <2>1
  <2>3. \A i \in 1 .. L : st[i][2] \in nodes
    BY <2>2
  <2> QED
    BY <2>3 DEF Ordering, Stacked
<1>3. st[L][1] = "visit" /\ st[L][2] = n /\ st[L] = <<"visit", n>>
  BY <1>1
<1>4. /\ nodes \subseteq Node /\ n \in Node /\ IsFiniteSet(nodes)
      /\ b \in [Node -> SUBSET Node] /\ \A x \in nodes : b[x] \subseteq nodes
  <2>1. nodes \subseteq Node /\ n \in Node /\ IsFiniteSet(nodes)
    BY <1>1, NodeAssumption, FS_Subset DEF FlowOK
  <2> QED
    BY <2>1 DEF FlowOK, NonBack
<1> HIDE DEF f, b
<1>5. ms \in Seq(V) /\ Range(ms) = V
  <2>1. IsFiniteSet({"visit"} \X nodes)
    BY <1>4, FS_Product, FS_Singleton
  <2>2. V \in SUBSET ({"visit"} \X nodes)
    BY <1>1, <1>4
  <2>3. IsFiniteSet(V)
    BY <2>1, <2>2, FS_Subset
  <2>4. ms \in SetToSeqs(V)
    BY DEF b
  <2> HIDE DEF V
  <2> QED
    BY <2>3, <2>4, ListFacts
<1>6. /\ K \in Nat /\ \A k \in 1 .. K : ms[k] \in V
      /\ \A v \in V : \E k \in 1 .. K : ms[k] = v
  <2> HIDE DEF V
  <2> QED
    BY <1>5 DEF Range
<1>7. /\ \A v \in V : v[1] = "visit" /\ v[2] \in b[n] /\ v \in X
      /\ \A m \in b[n] : <<"visit", m>> \in V
  BY <1>1, <1>4
<1> HIDE DEF V
<1>8. /\ F \in Seq(X) /\ Len(F) = K + 1
      /\ F[1] = <<"append", n>> /\ \A k \in 1 .. K : F[k + 1] = ms[k]
  <2> DEFINE a == <<"append", n>>
  <2>1. a \in X
    BY <1>1
  <2>2. ms \in Seq(X)
    BY <1>5, <1>7, SeqMonotonic
  <2> HIDE DEF a, X
  <2>3. <<a>> \in Seq(X) /\ Len(<<a>>) = 1 /\ <<a>>[1] = a
    BY <2>1, OneFacts
  <2>4. /\ <<a>> \o ms \in Seq(X) /\ Len(<<a>> \o ms) = 1 + K
        /\ \A i \in 1 .. 1 + K : (<<a>> \o ms)[i] = IF i <= 1 THEN <<a>>[i] ELSE ms[i - 1]
    BY <2>2, <2>3, ConcatProperties
  <2>5. F = <<a>> \o ms
    BY DEF Follow, a
  <2> HIDE DEF F
  <2>6. F[1] = a
    BY <1>6, <2>3, <2>4, <2>5
  <2>7. ASSUME NEW k \in 1 .. K PROVE F[k + 1] = ms[k]
    <3>1. k + 1 \in 1 .. 1 + K /\ ~(k + 1 <= 1) /\ (k + 1) - 1 = k
      BY <1>6
    <3> QED
      BY <2>4, <2>5, <3>1
  <2> QED
    BY <1>6, <2>4, <2>5, <2>6, <2>7 DEF a
<1> HIDE DEF F, X
<1>9. /\ q \in Seq(X) /\ Len(q) = L + K
      /\ \A i \in 1 .. L - 1 : q[i] = st[i]
      /\ q[L] = <<"append", n>> /\ \A k \in 1 .. K : q[L + k] = ms[k]
  <2>1. /\ q \in Seq(X) /\ Len(q) = (L - 1) + (K + 1)
        /\ \A i \in 1 .. (L - 1) + (K + 1) : q[i] = IF i <= L - 1 THEN f[i] ELSE F[i - (L - 1)]
    <3>1. /\ q \in Seq(X) /\ Len(q) = Len(f) + Len(F)
          /\ \A i \in 1 .. Len(f) + Len(F) : q[i] = IF i <= Len(f) THEN f[i] ELSE F[i - Len(f)]
      <4>1. f \in Seq(X) /\ F \in Seq(X)
        BY <1>1, <1>8
      <4> HIDE DEF f
      <4> QED
        BY <4>1, ConcatProperties
    <3>2. Len(f) = L - 1 /\ Len(F) = K + 1
      BY <1>1, <1>8
    <3> HIDE DEF q, L, K
    <3> QED
      BY <3>1, <3>2
  <2> HIDE DEF q
  <2>2. ASSUME NEW i \in 1 .. L - 1 PROVE q[i] = st[i]
    <3>1. i \in 1 .. (L - 1) + (K + 1) /\ i <= L - 1
      BY <1>1, <1>6
    <3> QED
      BY <1>1, <2>1, <3>1
  <2>3. q[L] = F[1]
    <3>1. L \in 1 .. (L - 1) + (K + 1) /\ ~(L <= L - 1) /\ L - (L - 1) = 1
      BY <1>1, <1>6
    <3> QED
      BY <2>1, <3>1
  <2>4. ASSUME NEW k \in 1 .. K PROVE q[L + k] = F[k + 1]
    <3>1. L + k \in 1 .. (L - 1) + (K + 1) /\ ~(L + k <= L - 1) /\ (L + k) - (L - 1) = k + 1
      BY <1>1, <1>6
    <3> QED
      BY <2>1, <3>1
  <2> QED
    BY <1>1, <1>6, <1>8, <2>1, <2>2, <2>3, <2>4
<1> HIDE DEF q
\* A place of the new stack is an old one, that of the opened block, or above.
<1>10. ASSUME NEW i \in 1 .. L + K
       PROVE  \/ i \in 1 .. L - 1 /\ i < L /\ i \in 1 .. L /\ q[i] = st[i]
              \/ i = L /\ q[i][1] = "append" /\ q[i][2] = n
              \/ i > L /\ q[i][1] = "visit" /\ q[i][2] \in b[n]
  <2>1. CASE i < L
    <3>1. i \in 1 .. L - 1 /\ i \in 1 .. L
      BY <1>1, <2>1
    <3> QED
      BY <1>9, <2>1, <3>1
  <2>2. CASE i = L
    BY <1>9, <2>2
  <2>3. CASE i > L
    <3>1. i - L \in 1 .. K /\ i = L + (i - L)
      BY <1>1, <1>6, <2>3
    <3>2. q[i] = ms[i - L]
      BY <1>9, <3>1
    <3> QED
      BY <1>6, <1>7, <2>3, <3>1, <3>2
  <2> QED
    BY <1>1, <2>1, <2>2, <2>3
<1>11. \A i \in 1 .. L : i \in 1 .. L + K /\ (i = L \/ (i \in 1 .. L - 1 /\ q[i] = st[i]))
  BY <1>1, <1>6, <1>9
<1>12. n \notin Range(o) /\ n \notin Open(st)
  BY <1>2
<1>13. Open(q) = Open(st) \cup {n}
  <2>1. ASSUME NEW x \in nodes, NEW i \in 1 .. L + K, q[i] = <<"append", x>>
        PROVE  x \in Open(st) \cup {n}
    <3>1. q[i][1] = "append" /\ q[i][2] = x
      BY <2>1
    <3>2. CASE i = L
      BY <1>10, <3>1, <3>2
    <3>3. CASE i \in 1 .. L /\ q[i] = st[i]
      BY <2>1, <3>3 DEF Open
    <3> QED
      BY <1>10, <3>1, <3>2, <3>3
  <2>2. ASSUME NEW x \in nodes, NEW i \in 1 .. L, st[i] = <<"append", x>>
        PROVE  x \in Open(q)
    <3>1. st[i][1] = "append"
      BY <2>2
    <3>2. i \in 1 .. L + K /\ q[i] = <<"append", x>>
      BY <1>3, <1>11, <2>2, <3>1
    <3> QED
      BY <1>9, <3>2 DEF Open
  <2>3. n \in Open(q)
    BY <1>1, <1>9, <1>11 DEF Open
  <2> HIDE DEF L, K
  <2>4. \A x \in Open(q) : x \in Open(st) \cup {n}
    BY <1>9, <2>1 DEF Open
  <2>5. \A x \in Open(st) : x \in Open(q)
    BY <2>2 DEF Open, L
  <2> QED
    BY <2>3, <2>4, <2>5
<1>14. ASSUME NEW i \in 1 .. L + K, NEW j \in 1 .. L + K, q[i][1] = "append", q[i] = q[j]
       PROVE  i = j
  <2>1. q[j][1] = "append"
    BY <1>14
  <2>2. ASSUME NEW k \in 1 .. L - 1, q[k] = q[L] PROVE FALSE
    <3>1. k \in 1 .. L /\ st[k] = <<"append", n>>
      BY <1>1, <1>9, <2>2
    <3> QED
      BY <1>1, <1>12, <3>1 DEF Open
  <2>3. CASE i = L /\ j = L
    BY <2>3
  <2>4. CASE i \in 1 .. L - 1 /\ j \in 1 .. L - 1
    <3>1. i \in 1 .. L /\ j \in 1 .. L /\ q[i] = st[i] /\ q[j] = st[j]
      BY <1>1, <1>9, <2>4
    <3> QED
      BY <1>2, <1>14, <3>1
  <2>5. (i = L \/ i \in 1 .. L - 1) /\ (j = L \/ j \in 1 .. L - 1)
    BY <1>10, <1>14, <2>1
  <2> QED
    BY <1>14, <2>2, <2>3, <2>4, <2>5
<1>15. ASSUME NEW i \in 1 .. L + K, q[i][1] = "append", NEW m \in b[q[i][2]], m \notin Range(o)
       PROVE  \E j \in i + 1 .. L + K : q[j][2] = m
  <2>1. CASE i = L
    <3>0. m \in b[n]
      BY <1>9, <1>15, <2>1
    <3>1. PICK k \in 1 .. K : ms[k] = <<"visit", m>>
      BY <1>6, <1>7, <3>0
    <3>2. q[L + k] = <<"visit", m>> /\ L + k \in i + 1 .. L + K
      BY <1>1, <1>6, <1>9, <2>1, <3>1
    <3>3. q[L + k][2] = m
      BY <3>2
    <3> QED
      BY <3>2, <3>3
  <2>2. CASE i \in 1 .. L /\ i < L /\ q[i] = st[i]
    <3>1. PICK j \in i + 1 .. L : st[j][2] = m
      BY <1>2, <1>15, <2>2
    <3>2. j \in 1 .. L /\ j \in i + 1 .. L + K
      BY <1>1, <1>6, <2>2, <3>1
    <3>3. q[j][2] = m
      <4>1. CASE j = L
        BY <1>3, <1>10, <3>1, <3>2, <4>1
      <4>2. CASE j # L
        BY <1>11, <3>1, <3>2, <4>2
      <4> QED
        BY <4>1, <4>2
    <3> QED
      BY <3>2, <3>3
  <2> QED
    BY <1>10, <1>15, <2>1, <2>2
<1>16. ASSUME NEW i \in 1 .. L + K, NEW j \in 1 .. L + K, q[i][1] = "append", i < j
       PROVE  q[j][2] \in Reachable(b, b[q[i][2]], {})
  <2>1. CASE i = L
    <3>0. j > L /\ q[i][2] = n
      BY <1>1, <1>9, <1>16, <2>1
    <3>1. q[j][2] \in b[n]
      BY <1>1, <1>10, <3>0
    <3>2. b[n] \subseteq Reachable(b, b[n], {})
      BY <1>4, Everything
    <3> QED
      BY <3>0, <3>1, <3>2
  <2>2. CASE i \in 1 .. L /\ i < L /\ q[i] = st[i]
    <3> DEFINE Q == Reachable(b, b[st[i][2]], {})
    <3>1. \A k \in 1 .. L : i < k => st[k][2] \in Q
      BY <1>2, <1>16, <2>2
    <3>2. \A x \in Q : b[x] \subseteq Q
      <4>1. b[st[i][2]] \in SUBSET Node
        BY <1>2, <1>4, <2>2
      <4> QED
        BY <1>4, <4>1, Everything
    <3> HIDE DEF Q
    <3>3. n \in Q
      BY <1>1, <1>3, <2>2, <3>1
    <3>4. q[j][2] \in Q
      <4>1. CASE j \in 1 .. L /\ q[j] = st[j]
        BY <1>16, <3>1, <4>1
      <4> QED
        BY <1>10, <3>2, <3>3, <4>1
    <3> QED
      BY <2>2, <3>4 DEF Q
  <2> QED
    BY <1>10, <1>16, <2>1, <2>2
<1>17. Stacked(q, o)
  <2> HIDE DEF L, K
  <2> QED
    BY <1>9, <1>14, <1>15, <1>16 DEF Stacked, b, X
<1>18. Entry \in Range(o) \/ \E j \in 1 .. L + K : q[j][2] = Entry
  <2>1. CASE Entry \in Range(o)
    BY <2>1
  <2>2. ASSUME NEW j \in 1 .. L, st[j][2] = Entry PROVE j \in 1 .. L + K /\ q[j][2] = Entry
    <3>1. CASE j = L
      BY <1>3, <1>10, <1>11, <2>2, <3>1
    <3>2. CASE j # L
      BY <1>11, <2>2, <3>2
    <3> QED
      BY <3>1, <3>2
  <2> QED
    BY <1>2, <2>1, <2>2
<1>19. seen \cup {n} = Range(o) \cup Open(q) /\ Range(o) \cap Open(q) = {}
  BY <1>2, <1>12, <1>13
<1>20. Ordering(q, seen \cup {n}, o)
  BY <1>2, <1>9, <1>17, <1>18, <1>19 DEF Ordering
<1> QED
  BY <1>20 DEF q, f, F

\* The list is complete when nothing is left on the stack.
LEMMA OrderingEnds ==
    ASSUME FlowOK, NEW seen, NEW o, Ordering(<<>>, seen, o)
    PROVE  Range(o) = nodes
<1>1. Len(<<>>) = 0 /\ \A i \in 1 .. 0 : FALSE
  BY EmptySeq
<1>2. /\ o \in Seq(nodes) /\ Entry \in Range(o)
      /\ \A i \in 1 .. Len(o) : \A m \in NonBack(graph)[o[i]] : \E k \in 1 .. i - 1 : o[k] = m
  BY <1>1 DEF Ordering, Listed
<1>3. DOMAIN o = 1 .. Len(o) /\ Len(o) \in Nat /\ \A i \in 1 .. Len(o) : o[i] \in nodes
  BY <1>2
<1>4. Range(o) \subseteq nodes
  BY <1>3 DEF Range
<1>5. ASSUME NEW n \in Range(o), NEW m \in NonBack(graph)[n] PROVE m \in Range(o)
  <2>1. PICK i \in 1 .. Len(o) : o[i] = n
    BY <1>3 DEF Range
  <2>2. PICK k \in 1 .. i - 1 : o[k] = m
    BY <1>2, <1>5, <2>1
  <2>3. k \in 1 .. Len(o)
    BY <1>3, <2>1, <2>2
  <2> QED
    BY <1>3, <2>2, <2>3 DEF Range
<1>6. nodes \subseteq Range(o)
  <2> DEFINE Y == Range(o)
  <2>1. Entry \in Y /\ \A n \in Y : NonBack(graph)[n] \subseteq Y
    BY <1>2, <1>5
  <2> HIDE DEF Y
  <2>2. nodes \subseteq Y
    BY <2>1, ClosedIsAll
  <2> QED
    BY <2>2 DEF Y
<1> QED
  BY <1>4, <1>6

\* The place of a listed block.
LEMMA IndexFacts ==
    ASSUME FlowOK, Listed(found.post), Range(found.post) = nodes, NEW n \in nodes
    PROVE  /\ Index(n) \in 1 .. Len(found.post) /\ found.post[Index(n)] = n
           /\ \A i \in 1 .. Len(found.post) : found.post[i] = n => i = Index(n)
<1>1. found.post \in Seq(nodes) /\ DOMAIN found.post = 1 .. Len(found.post)
  BY DEF Listed
<1>2. \E i \in DOMAIN found.post : found.post[i] = n
  BY DEF Range
<1>3. Index(n) \in DOMAIN found.post /\ found.post[Index(n)] = n
  BY <1>2 DEF Index
<1> QED
  BY <1>1, <1>3 DEF Listed

-----------------------------------------------------------------------------
(* Loops.                                                                  *)

BackEdges == {e \in Edges : Dominates(graph, e[2], e[1])}

\* What a set of nodes reaches around those to avoid.
LEMMA Reaches ==
    ASSUME NEW g \in [Node -> SUBSET Node], NEW from \in SUBSET Node, NEW avoid
    PROVE  LET R == Reachable(g, from, avoid)
           IN  /\ R \subseteq Node /\ R \cap avoid = {}
               /\ \A n \in from : n \in avoid \/ n \in R
               /\ \A n \in R : \A m \in g[n] : m \in avoid \/ m \in R
               /\ \A Z : (\A n \in from : n \in avoid \/ n \in Z)
                         /\ (\A n \in Z : \A m \in g[n] : m \in avoid \/ m \in Z)
                            => R \subseteq Z
<1>1. IsFiniteSet(Node) /\ \A n \in Node : g[n] \subseteq Node
  BY NodeAssumption
<1>2. Cardinality(Node) \in Nat
  BY <1>1, FS_CardinalityType
<1> DEFINE R == Reachable(g, from, avoid)
<1>3. R \subseteq Node \ avoid /\ from \subseteq R \cup avoid /\ Closed(g, avoid, R)
  BY <1>1, ReachableIsClosed
<1>4. ASSUME NEW Z, \A n \in from : n \in avoid \/ n \in Z,
             \A n \in Z : \A m \in g[n] : m \in avoid \/ m \in Z
      PROVE  R \subseteq Z
  <2>1. from \subseteq Z \cup avoid /\ Closed(g, avoid, Z)
    BY <1>4 DEF Closed
  <2> QED
    BY <1>2, <2>1, ReachableIsLeast
<1> HIDE DEF R
<1>5. /\ R \subseteq Node /\ R \cap avoid = {}
      /\ \A n \in from : n \in avoid \/ n \in R
      /\ \A n \in R : \A m \in g[n] : m \in avoid \/ m \in R
  BY <1>3 DEF Closed
<1> QED
  BY <1>4, <1>5 DEF R

\* What leads to a node that h dominates, h itself aside, is dominated by h.
LEMMA DominatedPreds ==
    ASSUME FlowOK, NEW n \in nodes, NEW h, h # n, Dominates(graph, h, n), NEW m \in Preds[n]
    PROVE  m \in nodes /\ Dominates(graph, h, m)
<1>1. graph \in [Node -> SUBSET Node]
  BY DEF FlowOK
<1>2. n \in nodes \ {Entry}
  BY <1>1, EntryIsDominated
<1> QED
  BY <1>2, HasPred, DominatesStep

\* Of two dominators of a node, one dominates the other,
LEMMA DominatorsInLine ==
    ASSUME FlowOK, NEW n \in nodes, NEW g, NEW h, Dominates(graph, g, n), Dominates(graph, h, n)
    PROVE  Dominates(graph, g, h) \/ Dominates(graph, h, g)
<1> DEFINE R(d) == Reachable(graph, {Entry}, {d})
<1>1. graph \in [Node -> SUBSET Node] /\ nodes = Reachable(graph, {Entry}, {})
      /\ {Entry} \in SUBSET Node
  BY DEF FlowOK
<1>2. \A d : /\ Entry # d => Entry \in R(d)
             /\ \A x \in R(d) : \A m \in graph[x] : m = d \/ m \in R(d)
  BY <1>1, Around
<1>3. \A Z : {Entry} \subseteq Z /\ (\A x \in Z : graph[x] \subseteq Z) => nodes \subseteq Z
  BY <1>1, Everything
<1> HIDE DEF R
<1> SUFFICES ASSUME h \in R(g), g \in R(h) PROVE n \in R(g) \cup R(h)
  BY DEF R, Dominates
<1> DEFINE Z == R(g) \cup R(h)
<1>4. Entry \in Z
  BY <1>2
<1>5. \A x \in Z : graph[x] \subseteq Z
  BY <1>2
<1> QED
  BY <1>3, <1>4, <1>5

\* but not both each other.
LEMMA DominatorsDiffer ==
    ASSUME FlowOK, NEW g \in nodes, NEW h \in nodes,
           Dominates(graph, g, h), Dominates(graph, h, g)
    PROVE  g = h
<1> DEFINE R(d) == Reachable(graph, {Entry}, {d})
<1>1. graph \in [Node -> SUBSET Node] /\ nodes = Reachable(graph, {Entry}, {})
      /\ {Entry} \in SUBSET Node
  BY DEF FlowOK
<1>2. \A d : /\ d \notin R(d)
             /\ Entry # d => Entry \in R(d)
             /\ \A x \in R(d) : \A m \in graph[x] : m = d \/ m \in R(d)
  BY <1>1, Around
<1>3. \A Z : {Entry} \subseteq Z /\ (\A x \in Z : graph[x] \subseteq Z) => nodes \subseteq Z
  BY <1>1, Everything
<1> HIDE DEF R
<1> SUFFICES ASSUME h \notin R(g), g \notin R(h), g # h PROVE FALSE
  BY DEF R, Dominates
<1> DEFINE Z == R(g) \cap R(h)
<1>4. Entry \in Z
  BY <1>2
<1>5. \A x \in Z : graph[x] \subseteq Z
  BY <1>2
<1>6. nodes \subseteq Z
  BY <1>3, <1>4, <1>5
<1> QED
  BY <1>2, <1>6

\* The sources of a header's back edges.
LEMMA LatchesAre ==
    ASSUME FlowOK, found.back = BackEdges, NEW h
    PROVE  /\ Latches(h) = {s \in nodes : h \in graph[s] /\ Dominates(graph, h, s)}
           /\ h \in Headers <=> Latches(h) # {}
           /\ h \in Headers => h \in nodes
<1>1. nodes \subseteq Node /\ graph \in [Node -> SUBSET Node]
      /\ (\A n \in nodes : graph[n] \subseteq nodes) /\ \A n \in Node \ nodes : graph[n] = {}
  BY DEF FlowOK
<1>2. \A e : e \in found.back <=> e \in Node \X Node /\ e[2] \in graph[e[1]]
                                    /\ Dominates(graph, e[2], e[1])
  BY DEF BackEdges, Edges
<1>3. \A s : <<s, h>> \in found.back <=> s \in nodes /\ h \in graph[s] /\ Dominates(graph, h, s)
  BY <1>1, <1>2
<1>4. \A e \in found.back : e = <<e[1], e[2]>>
  BY <1>2
<1>5. \A s : s \in Latches(h) <=> <<s, h>> \in found.back
  BY <1>4 DEF Latches
<1>6. h \in Headers <=> \E s : <<s, h>> \in found.back
  <2>1. h \in Headers <=> \E e \in found.back : e[2] = h
    BY DEF Headers
  <2>2. \A e \in found.back : e[2] = h => <<e[1], h>> \in found.back
    BY <1>4
  <2>3. \A s : <<s, h>>[2] = h
    OBVIOUS
  <2> QED
    BY <2>1, <2>2, <2>3
<1> QED
  BY <1>1, <1>3, <1>5, <1>6

\* The body of a loop is the least set that has the header and the sources of
\* its back edges and, the header aside, all that leads to a member; and the
\* header dominates it.
LEMMA BodyIs ==
    ASSUME FlowOK, found.back = BackEdges, NEW h \in Headers
    PROVE  /\ h \in Body(h) /\ Latches(h) \subseteq Body(h) /\ Body(h) \subseteq nodes
           /\ \A n \in Body(h) \ {h} : Preds[n] \subseteq Body(h)
           /\ \A n \in Body(h) : Dominates(graph, h, n)
           /\ \A Z : h \in Z /\ Latches(h) \subseteq Z /\ (\A n \in Z \ {h} : Preds[n] \subseteq Z)
                       => Body(h) \subseteq Z
<1> DEFINE R == Reachable(Preds, Latches(h), {h})
<1>1. /\ Latches(h) = {s \in nodes : h \in graph[s] /\ Dominates(graph, h, s)}
      /\ h \in nodes /\ nodes \subseteq Node /\ graph \in [Node -> SUBSET Node]
  BY LatchesAre DEF FlowOK
<1>2. Preds \in [Node -> SUBSET Node] /\ Latches(h) \in SUBSET Node
  BY <1>1 DEF Preds
<1>3. /\ R \subseteq Node /\ R \cap {h} = {}
      /\ \A n \in Latches(h) : n \in {h} \/ n \in R
      /\ \A n \in R : \A m \in Preds[n] : m \in {h} \/ m \in R
      /\ \A Z : (\A n \in Latches(h) : n \in {h} \/ n \in Z)
                /\ (\A n \in Z : \A m \in Preds[n] : m \in {h} \/ m \in Z)
                   => R \subseteq Z
  BY <1>2, Reaches
<1>4. Body(h) = {h} \cup R
  BY DEF Body
<1> HIDE DEF R
<1>5. ASSUME NEW Z, h \in Z, Latches(h) \subseteq Z, \A n \in Z \ {h} : Preds[n] \subseteq Z
      PROVE  Body(h) \subseteq Z
  <2> DEFINE Y == Z \ {h}
  <2>1. /\ \A n \in Latches(h) : n \in {h} \/ n \in Y
        /\ \A n \in Y : \A m \in Preds[n] : m \in {h} \/ m \in Y
    BY <1>5
  <2>2. R \subseteq Y
    BY <1>3, <2>1
  <2> QED
    BY <1>4, <1>5, <2>2
<1>6. Body(h) \subseteq {n \in nodes : Dominates(graph, h, n)}
  <2> DEFINE Z == {n \in nodes : Dominates(graph, h, n)}
  <2>1. h \in Z
    BY <1>1, DominatesItself
  <2>2. \A n \in Z \ {h} : Preds[n] \subseteq Z
    BY DominatedPreds
  <2>3. Latches(h) \subseteq Z
    BY <1>1
  <2> HIDE DEF Z
  <2>4. Body(h) \subseteq Z
    BY <1>5, <2>1, <2>2, <2>3
  <2> QED
    BY <2>4 DEF Z
<1> QED
  BY <1>3, <1>4, <1>5, <1>6

\* The header reaches what it dominates without leaving it.
LEMMA HeaderReaches ==
    ASSUME FlowOK, NEW h \in nodes, NEW below,
           below = {n \in nodes : Dominates(graph, h, n)}, NEW n \in below
    PROVE  n = h \/ n \in Reachable(graph, graph[h], nodes \ below)
<1> DEFINE A == nodes \ below
           R == Reachable(graph, graph[h], A)
           Z == (nodes \ below) \cup {h} \cup R
<1>1. /\ nodes \subseteq Node /\ Entry \in nodes /\ graph \in [Node -> SUBSET Node]
      /\ \A x \in nodes : graph[x] \subseteq nodes
      /\ nodes = Reachable(graph, {Entry}, {})
  BY DEF FlowOK
<1>2. graph[h] \in SUBSET Node
  BY <1>1
<1> HIDE DEF A, R
<1>3. /\ R \cap A = {}
      /\ \A x \in graph[h] : x \in A \/ x \in R
      /\ \A x \in R : \A m \in graph[x] : m \in A \/ m \in R
  BY <1>1, <1>2, Reaches DEF R
<1>4. Entry \in Z
  <2>1. Entry \in below => Entry = h
    BY <1>1, EntryIsDominated
  <2> QED
    BY <1>1, <2>1
<1>5. ASSUME NEW x \in nodes, x \notin below, NEW m \in graph[x] PROVE m \notin below \/ m = h
  <2>1. x \in Preds[m] /\ m \in nodes
    BY <1>1, <1>5 DEF Preds
  <2> QED
    BY <1>5, <2>1, DominatedPreds
<1>6. ASSUME NEW x \in Z PROVE graph[x] \subseteq Z
  <2>1. CASE x \in nodes \ below
    <3>1. graph[x] \subseteq nodes
      BY <1>1, <2>1
    <3> QED
      BY <1>5, <2>1, <3>1
  <2>2. CASE x = h
    BY <1>3, <2>2 DEF A
  <2>3. CASE x \in R
    BY <1>3, <2>3 DEF A
  <2> QED
    BY <2>1, <2>2, <2>3
<1>7. nodes \subseteq Z
  <2>1. {Entry} \in SUBSET Node /\ {Entry} \subseteq Z
    BY <1>1, <1>4
  <2> HIDE DEF Z
  <2> QED
    BY <1>1, <1>6, <2>1, Everything
<1>8. n \in nodes /\ n \in below
  BY <1>1
<1> QED
  BY <1>7, <1>8 DEF A, R

\* Where h leads from inside a set, a step before leads as well.
LEMMA ReachesFurther ==
    ASSUME NEW g \in [Node -> SUBSET Node], NEW avoid, NEW m \in Node, NEW n \in g[m], n \notin avoid
    PROVE  /\ n \in Reachable(g, g[m], avoid)
           /\ Reachable(g, g[n], avoid) \subseteq Reachable(g, g[m], avoid)
<1> DEFINE R == Reachable(g, g[m], avoid)
<1>1. g[m] \in SUBSET Node /\ g[n] \in SUBSET Node
  OBVIOUS
<1>2. /\ \A x \in g[m] : x \in avoid \/ x \in R
      /\ \A x \in R : \A y \in g[x] : y \in avoid \/ y \in R
  BY <1>1, Reaches
<1> HIDE DEF R
<1>3. n \in R
  BY <1>2
<1>4. \A x \in g[n] : x \in avoid \/ x \in R
  BY <1>2, <1>3
<1>5. Reachable(g, g[n], avoid) \subseteq R
  BY <1>1, <1>2, <1>4, Reaches
<1> QED
  BY <1>3, <1>5 DEF R

\* A loop is all that its header dominates and that leads back to it.
LEMMA BodyLeadsBack ==
    ASSUME FlowOK, found.back = BackEdges, NEW h \in Headers, NEW below,
           below = {n \in nodes : Dominates(graph, h, n)}
    PROVE  Body(h) = {n \in below : h \in Reachable(graph, graph[n], nodes \ below)}
<1> DEFINE R(n) == Reachable(graph, graph[n], nodes \ below)
           back == {n \in below : h \in R(n)}
<1>1. /\ nodes \subseteq Node /\ graph \in [Node -> SUBSET Node]
      /\ \A x \in nodes : graph[x] \subseteq nodes
  BY DEF FlowOK
<1>2. /\ Latches(h) = {s \in nodes : h \in graph[s] /\ Dominates(graph, h, s)}
      /\ Latches(h) # {} /\ h \in nodes
  BY LatchesAre
<1>3. /\ h \in Body(h) /\ Latches(h) \subseteq Body(h) /\ Body(h) \subseteq nodes
      /\ \A n \in Body(h) \ {h} : Preds[n] \subseteq Body(h)
      /\ \A n \in Body(h) : Dominates(graph, h, n)
      /\ \A Z : h \in Z /\ Latches(h) \subseteq Z /\ (\A n \in Z \ {h} : Preds[n] \subseteq Z)
                  => Body(h) \subseteq Z
  BY BodyIs
<1>4. Body(h) \subseteq below /\ below \subseteq nodes /\ h \in below
  BY <1>3
<1>5. \A n \in nodes : /\ \A x \in graph[n] : x \in nodes \ below \/ x \in R(n)
                       /\ \A x \in R(n) : \A y \in graph[x] : y \in nodes \ below \/ y \in R(n)
                       /\ \A Z : (\A x \in graph[n] : x \in nodes \ below \/ x \in Z)
                                 /\ (\A x \in Z : \A y \in graph[x] : y \in nodes \ below \/ y \in Z)
                                    => R(n) \subseteq Z
  BY <1>1, Reaches
<1>6. \A m \in nodes : \A n \in graph[m] : n \in below => n \in R(m) /\ R(n) \subseteq R(m)
  BY <1>1, <1>4, ReachesFurther
<1>7. \A n \in below : n = h \/ n \in R(h)
  BY <1>2, HeaderReaches
<1> HIDE DEF R
<1>8. Latches(h) \subseteq back
  <2> SUFFICES ASSUME NEW s \in Latches(h) PROVE s \in back
    OBVIOUS
  <2>1. s \in below /\ h \in graph[s]
    BY <1>2
  <2> QED
    BY <1>4, <1>6, <2>1
<1>9. h \in back
  <2>1. PICK s \in Latches(h) : TRUE
    BY <1>2
  <2>2. s \in below /\ h \in graph[s]
    BY <1>2
  <2>3. CASE s = h
    BY <1>8, <2>3
  <2>4. CASE s # h
    <3>1. s \in R(h)
      BY <1>7, <2>2, <2>4
    <3> QED
      BY <1>2, <1>4, <1>5, <2>2, <3>1
  <2> QED
    BY <2>3, <2>4
<1>10. \A n \in back \ {h} : Preds[n] \subseteq back
  <2> SUFFICES ASSUME NEW n \in back \ {h}, NEW m \in Preds[n] PROVE m \in back
    OBVIOUS
  <2>1. n \in nodes /\ Dominates(graph, h, n)
    BY <1>4
  <2>2. m \in nodes /\ m \in below
    BY <2>1, DominatedPreds
  <2>3. n \in graph[m]
    BY <1>1, <2>1 DEF Preds
  <2> QED
    BY <1>6, <2>2, <2>3
<1>11. Body(h) \subseteq back
  <2> HIDE DEF back
  <2> QED
    BY <1>3, <1>8, <1>9, <1>10
<1>12. ASSUME NEW n \in below, n \notin Body(h) PROVE h \notin R(n)
  <2> DEFINE W == below \ Body(h)
  <2>1. ASSUME NEW x \in W, NEW y \in graph[x] PROVE y \in nodes \ below \/ y \in W
    <3>1. y \in nodes /\ x \in nodes /\ x \in Preds[y] /\ Dominates(graph, h, x)
      BY <1>1, <1>4 DEF Preds
    <3>2. y \notin Body(h) \ {h}
      BY <1>3, <2>1, <3>1
    <3>3. y # h
      BY <1>2, <1>3, <2>1, <3>1
    <3> QED
      BY <3>1, <3>2, <3>3
  <2>2. \A x \in graph[n] : x \in nodes \ below \/ x \in W
    BY <1>12, <2>1
  <2>3. R(n) \subseteq W
    BY <1>4, <1>5, <2>1, <2>2
  <2> QED
    BY <1>3, <2>3
<1>13. Body(h) = back
  BY <1>4, <1>11, <1>12
<1> QED
  BY <1>13 DEF R

\* A loop whose header another loop's header dominates, and that shares a node
\* with that other loop, is inside it.
LEMMA LoopInside ==
    ASSUME FlowOK, found.back = BackEdges, NEW g \in Headers, NEW h \in Headers, g # h,
           Dominates(graph, g, h), NEW n \in Body(g), n \in Body(h)
    PROVE  Body(h) \subseteq Body(g) /\ g \notin Body(h)
<1> DEFINE below == {m \in nodes : Dominates(graph, h, m)}
           A == nodes \ below
           R == Reachable(graph, graph[h], A)
<1>1. /\ nodes \subseteq Node /\ graph \in [Node -> SUBSET Node] /\ g \in nodes /\ h \in nodes
      /\ \A x \in nodes : graph[x] \subseteq nodes
  BY LatchesAre DEF FlowOK
<1>2. /\ g \in Body(g) /\ Body(g) \subseteq nodes
      /\ \A m \in Body(g) \ {g} : Preds[m] \subseteq Body(g)
  BY BodyIs
<1>3. /\ Body(h) \subseteq nodes /\ \A m \in Body(h) : Dominates(graph, h, m)
      /\ \A Z : h \in Z /\ Latches(h) \subseteq Z /\ (\A m \in Z \ {h} : Preds[m] \subseteq Z)
                  => Body(h) \subseteq Z
      /\ h \in Body(h) /\ Latches(h) \subseteq Body(h)
      /\ \A m \in Body(h) \ {h} : Preds[m] \subseteq Body(h)
  BY BodyIs
<1>4. ~Dominates(graph, h, g)
  BY <1>1, DominatorsDiffer
<1>5. g \notin Body(h) /\ g \notin below
  BY <1>3, <1>4
<1>6. n \in below
  BY <1>3
<1>7. n = h \/ n \in R
  BY <1>1, <1>6, HeaderReaches
<1> HIDE DEF A, R
<1>8. \A Z : (\A x \in graph[h] : x \in A \/ x \in Z)
             /\ (\A x \in Z : \A y \in graph[x] : y \in A \/ y \in Z) => R \subseteq Z
  <2>1. graph[h] \in SUBSET Node
    BY <1>1
  <2> QED
    BY <1>1, <2>1, Reaches DEF R
<1>9. h \in Body(g)
  <2> SUFFICES ASSUME h \notin Body(g) PROVE FALSE
    OBVIOUS
  <2> DEFINE W == nodes \ Body(g)
  <2>1. ASSUME NEW x \in W, NEW y \in graph[x] PROVE y \in A \/ y \in W
    <3>1. y \in nodes /\ x \in nodes /\ x \in Preds[y]
      BY <1>1 DEF Preds
    <3>2. y \notin Body(g) \ {g}
      BY <1>2, <2>1, <3>1
    <3> QED
      BY <1>5, <3>1, <3>2 DEF A
  <2>2. R \subseteq W
    BY <1>1, <1>8, <2>1
  <2> QED
    BY <1>7, <2>2
<1>10. Latches(h) \subseteq Body(g)
  <2>1. Latches(h) \subseteq Preds[h]
    BY <1>1, LatchesAre DEF Preds
  <2> QED
    BY <1>2, <1>9, <2>1
<1>11. Body(h) \subseteq Body(g)
  <2> DEFINE Z == Body(h) \cap Body(g)
  <2>1. h \in Z /\ Latches(h) \subseteq Z
    BY <1>3, <1>9, <1>10
  <2>2. \A m \in Z \ {h} : Preds[m] \subseteq Z
    BY <1>2, <1>3, <1>5
  <2>3. Body(h) \subseteq Z
    <3> HIDE DEF Z
    <3> QED
      BY <1>3, <2>1, <2>2
  <2> QED
    BY <2>3
<1> QED
  BY <1>5, <1>11

\* Of two loops around a node the smaller one is inside the other.
LEMMA LoopsAround ==
    ASSUME FlowOK, found.back = BackEdges, NEW g \in Headers, NEW h \in Headers, g # h,
           NEW n \in Body(g), n \in Body(h)
    PROVE  /\ Cardinality(Body(g)) \in Nat /\ Cardinality(Body(h)) \in Nat
           /\ Cardinality(Body(g)) # Cardinality(Body(h))
           /\ Cardinality(Body(g)) < Cardinality(Body(h)) => Body(g) \subseteq Body(h)
<1>1. /\ g \in Body(g) /\ Body(g) \subseteq nodes /\ Dominates(graph, g, n)
      /\ h \in Body(h) /\ Body(h) \subseteq nodes /\ Dominates(graph, h, n)
  BY BodyIs
<1>2. IsFiniteSet(Body(g)) /\ IsFiniteSet(Body(h))
  <2>1. nodes \subseteq Node /\ IsFiniteSet(Node)
    BY NodeAssumption DEF FlowOK
  <2> QED
    BY <1>1, <2>1, FS_Subset
<1>3. Cardinality(Body(g)) \in Nat /\ Cardinality(Body(h)) \in Nat
  BY <1>2, FS_CardinalityType
<1>4. CASE Dominates(graph, g, h)
  <2>1. Body(h) \subseteq Body(g) /\ g \notin Body(h)
    BY <1>4, LoopInside
  <2>2. Cardinality(Body(h)) + 1 <= Cardinality(Body(g))
    BY <1>1, <1>2, <2>1, Larger
  <2> QED
    BY <1>3, <2>2
<1>5. CASE Dominates(graph, h, g)
  <2>1. Body(g) \subseteq Body(h) /\ h \notin Body(g)
    BY <1>5, LoopInside
  <2>2. Cardinality(Body(g)) + 1 <= Cardinality(Body(h))
    BY <1>1, <1>2, <2>1, Larger
  <2> QED
    BY <1>3, <2>1, <2>2
<1>6. n \in nodes
  BY <1>1
<1> QED
  BY <1>1, <1>4, <1>5, <1>6, DominatorsInLine

\* A finite set can be listed by ascending keys.
LEMMA SortedExists ==
    ASSUME NEW S, IsFiniteSet(S), NEW key \in [S -> Nat], \A x, y \in S : key[x] = key[y] => x = y
    PROVE  \E sorted \in [1 .. Cardinality(S) -> S] :
              \A i, j \in 1 .. Cardinality(S) : i < j => key[sorted[i]] < key[sorted[j]]
<1> DEFINE N == Cardinality(S)
           upTo(x) == {y \in S : key[y] <= key[x]}
           rank == [x \in S |-> Cardinality(upTo(x))]
<1>1. N \in Nat
  BY FS_CardinalityType
<1>2. \A x \in S : IsFiniteSet(upTo(x)) /\ Cardinality(upTo(x)) \in Nat
  <2> SUFFICES ASSUME NEW x \in S PROVE IsFiniteSet(upTo(x)) /\ Cardinality(upTo(x)) \in Nat
    OBVIOUS
  <2>1. upTo(x) \subseteq S
    OBVIOUS
  <2> QED
    BY <2>1, FS_Subset, FS_CardinalityType
<1>3. \A x \in S : rank[x] \in 1 .. N
  <2> SUFFICES ASSUME NEW x \in S PROVE Cardinality(upTo(x)) \in 1 .. N
    OBVIOUS
  <2>1. upTo(x) \subseteq S /\ x \in upTo(x)
    OBVIOUS
  <2>2. Cardinality(upTo(x)) <= N
    BY <2>1, FS_Subset
  <2>3. Cardinality(upTo(x)) # 0
    BY <1>2, <2>1, FS_EmptySet
  <2> QED
    BY <1>1, <1>2, <2>2, <2>3
<1>4. \A x, y \in S : key[x] < key[y] => rank[x] < rank[y]
  <2> SUFFICES ASSUME NEW x \in S, NEW y \in S, key[x] < key[y]
               PROVE  Cardinality(upTo(x)) < Cardinality(upTo(y))
    OBVIOUS
  <2>1. upTo(x) \subseteq upTo(y) /\ y \in upTo(y) /\ y \notin upTo(x)
    OBVIOUS
  <2>2. Cardinality(upTo(x)) + 1 <= Cardinality(upTo(y))
    BY <1>2, <2>1, Larger
  <2> QED
    BY <1>2, <2>2
<1> HIDE DEF rank
<1>5. rank \in [S -> 1 .. N]
  BY <1>3 DEF rank
<1>6. \A x, y \in S : rank[x] < rank[y] => key[x] < key[y]
  <2> SUFFICES ASSUME NEW x \in S, NEW y \in S, rank[x] < rank[y] PROVE key[x] < key[y]
    OBVIOUS
  <2>1. key[x] \in Nat /\ key[y] \in Nat /\ rank[x] \in 1 .. N /\ rank[y] \in 1 .. N
    BY <1>3
  <2>2. key[x] = key[y] => FALSE
    BY <2>1
  <2>3. key[y] < key[x] => FALSE
    BY <1>1, <1>4, <2>1
  <2> QED
    BY <2>1, <2>2, <2>3
<1>7. \A x, y \in S : rank[x] = rank[y] => x = y
  <2> SUFFICES ASSUME NEW x \in S, NEW y \in S, rank[x] = rank[y] PROVE key[x] = key[y]
    OBVIOUS
  <2>1. key[x] \in Nat /\ key[y] \in Nat /\ rank[x] \in 1 .. N
    BY <1>3
  <2> QED
    BY <1>1, <1>4, <2>1
<1>8. rank \in Surjection(S, 1 .. N)
  <2>1. rank \in Injection(S, 1 .. N)
    BY <1>5, <1>7 DEF Injection, IsInjective
  <2>2. IsFiniteSet(1 .. N) /\ Cardinality(1 .. N) = N
    BY <1>1, FS_Interval
  <2> QED
    BY <2>1, <2>2, FS_Injection
<1>9. \A i \in 1 .. N : \E x \in S : rank[x] = i
  BY <1>8 DEF Surjection
<1> DEFINE sorted == [i \in 1 .. N |-> CHOOSE x \in S : rank[x] = i]
<1>10. \A i \in 1 .. N : sorted[i] \in S /\ rank[sorted[i]] = i
  BY <1>9
<1>11. sorted \in [1 .. N -> S]
  BY <1>10
<1> HIDE DEF sorted
<1>12. \A i, j \in 1 .. N : i < j => key[sorted[i]] < key[sorted[j]]
  BY <1>6, <1>10
<1> QED
  BY <1>11, <1>12

\* The loops around a node are listed.
LEMMA LoopsListed ==
    ASSUME FlowOK, found.back = BackEdges, NEW n \in nodes, NEW around,
           around = {h \in Headers : n \in Body(h)}
    PROVE  /\ InLoops(n) \in [1 .. Cardinality(around) -> around]
           /\ \A i, j \in DOMAIN InLoops(n) :
                 i < j => /\ InLoops(n)[i] # InLoops(n)[j]
                          /\ Cardinality(Body(InLoops(n)[i])) <= Cardinality(Body(InLoops(n)[j]))
<1> DEFINE N == Cardinality(around)
           key == [h \in around |-> Cardinality(Body(h))]
           Ascending(s) ==
              \A i, j \in DOMAIN s :
                 i < j => /\ s[i] # s[j]
                          /\ Cardinality(Body(s[i])) <= Cardinality(Body(s[j]))
<1>1. IsFiniteSet(around) /\ N \in Nat
  <2>1. around \subseteq Node /\ IsFiniteSet(Node)
    BY LatchesAre, NodeAssumption DEF FlowOK
  <2> QED
    BY <2>1, FS_Subset, FS_CardinalityType
<1>2. \A h \in around : Cardinality(Body(h)) \in Nat
  <2> SUFFICES ASSUME NEW h \in around PROVE Cardinality(Body(h)) \in Nat
    OBVIOUS
  <2>1. Body(h) \subseteq Node /\ IsFiniteSet(Node)
    BY BodyIs, NodeAssumption DEF FlowOK
  <2> QED
    BY <2>1, FS_Subset, FS_CardinalityType
<1>3. \A g, h \in around : Cardinality(Body(g)) = Cardinality(Body(h)) => g = h
  <2> SUFFICES ASSUME NEW g \in around, NEW h \in around, g # h
               PROVE  Cardinality(Body(g)) # Cardinality(Body(h))
    OBVIOUS
  <2> QED
    BY LoopsAround
<1> HIDE DEF N
<1>4. PICK s \in [1 .. N -> around] : \A i, j \in 1 .. N : i < j => key[s[i]] < key[s[j]]
  <2>1. key \in [around -> Nat] /\ \A x, y \in around : key[x] = key[y] => x = y
    BY <1>2, <1>3
  <2>2. IsFiniteSet(around)
    BY <1>1
  <2> HIDE DEF key
  <2>3. \E s \in [1 .. Cardinality(around) -> around] :
           \A i, j \in 1 .. Cardinality(around) : i < j => key[s[i]] < key[s[j]]
    BY ONLY <2>1, <2>2, SortedExists
  <2> QED
    BY <2>3 DEF N
<1>5. Ascending(s)
  <2> SUFFICES ASSUME NEW i \in 1 .. N, NEW j \in 1 .. N, i < j
               PROVE  s[i] # s[j] /\ Cardinality(Body(s[i])) <= Cardinality(Body(s[j]))
    BY <1>4
  <2>1. /\ s[i] \in around /\ s[j] \in around
        /\ Cardinality(Body(s[i])) < Cardinality(Body(s[j]))
    BY <1>4
  <2>2. Cardinality(Body(s[i])) \in Nat /\ Cardinality(Body(s[j])) \in Nat
    BY <1>2, <2>1
  <2> QED
    BY <2>1, <2>2
<1>6. InLoops(n) = CHOOSE x \in [1 .. N -> around] : Ascending(x)
  BY DEF InLoops, N
<1> HIDE DEF Ascending
<1>7. InLoops(n) \in [1 .. N -> around] /\ Ascending(InLoops(n))
  BY <1>4, <1>5, <1>6
<1> QED
  BY <1>7 DEF N, Ascending

LEMMA LoopsAreNested ==
    ASSUME FlowOK, found.back = BackEdges
    PROVE  LoopsNest
<1>1. ASSUME NEW h \in Headers, NEW below, below = {n \in nodes : Dominates(graph, h, n)}
      PROVE  /\ Body(h) = {n \in below : h \in Reachable(graph, graph[n], nodes \ below)}
             /\ \A n \in Body(h) \ {h} : Preds[n] \subseteq Body(h)
  <2>1. Body(h) = {n \in below : h \in Reachable(graph, graph[n], nodes \ below)}
    BY <1>1, BodyLeadsBack, Zenon
  <2>2. \A n \in Body(h) \ {h} : Preds[n] \subseteq Body(h)
    BY BodyIs
  <2> QED
    BY <2>1, <2>2
<1>2. ASSUME NEW n \in nodes, NEW i \in DOMAIN InLoops(n), NEW j \in DOMAIN InLoops(n), i < j
      PROVE  /\ Body(InLoops(n)[i]) \subseteq Body(InLoops(n)[j])
             /\ InLoops(n)[i] # InLoops(n)[j]
  <2> DEFINE around == {h \in Headers : n \in Body(h)}
             g == InLoops(n)[i]
             k == InLoops(n)[j]
  <2>1. /\ InLoops(n) \in [1 .. Cardinality(around) -> around]
        /\ g # k /\ Cardinality(Body(g)) <= Cardinality(Body(k))
    BY <1>2, LoopsListed
  <2>2. g \in around /\ k \in around
    BY <1>2, <2>1
  <2> HIDE DEF g, k
  <2>3. g \in Headers /\ k \in Headers /\ n \in Body(g) /\ n \in Body(k)
    BY <2>2
  <2>4. /\ Cardinality(Body(g)) \in Nat /\ Cardinality(Body(k)) \in Nat
        /\ Cardinality(Body(g)) # Cardinality(Body(k))
        /\ Cardinality(Body(g)) < Cardinality(Body(k)) => Body(g) \subseteq Body(k)
    BY <2>1, <2>3, LoopsAround
  <2>5. Body(g) \subseteq Body(k)
    BY <2>1, <2>4
  <2> QED
    BY <2>1, <2>5 DEF g, k
<1> QED
  BY <1>1, <1>2 DEF LoopsNest
-----------------------------------------------------------------------------
(* Where paths end, and post-dominators.                                   *)

Endless == UNION {Body(h) : h \in {k \in Headers : LoopExits(k) = {}}}

\* The blocks can be listed such that all edges but back edges lead backwards.
Topological == \E o : Listed(o) /\ Range(o) = nodes

\* Blocks after n, which lead back to n, and all lead to the same blocks.
LEMMA AllAround ==
    ASSUME FlowOK, NEW n \in nodes, NEW T, T = Reachable(graph, graph[n], {}),
           n \in T, \A m \in T : n \in Reachable(graph, graph[m], {})
    PROVE  /\ T \subseteq nodes /\ \A m \in T : graph[m] \subseteq T
           /\ \A m \in T : Reachable(graph, graph[m], {}) = T
<1>1. /\ nodes \subseteq Node /\ graph \in [Node -> SUBSET Node]
      /\ \A x \in nodes : graph[x] \subseteq nodes
  BY DEF FlowOK
<1>2. \A x \in nodes : graph[x] \in SUBSET Node
  BY <1>1
<1>3. /\ graph[n] \subseteq T /\ \A x \in T : graph[x] \subseteq T
      /\ \A Z : graph[n] \subseteq Z /\ (\A x \in Z : graph[x] \subseteq Z) => T \subseteq Z
  BY <1>1, <1>2, Everything
<1>4. T \subseteq nodes
  BY <1>1, <1>3
<1>5. ASSUME NEW m \in T PROVE Reachable(graph, graph[m], {}) = T
  <2> DEFINE R == Reachable(graph, graph[m], {})
  <2>1. /\ graph[m] \subseteq R /\ \A x \in R : graph[x] \subseteq R
        /\ \A Z : graph[m] \subseteq Z /\ (\A x \in Z : graph[x] \subseteq Z) => R \subseteq Z
    BY <1>1, <1>2, <1>4, <1>5, Everything
  <2>2. n \in R
    BY <1>5
  <2> HIDE DEF R
  <2>3. R \subseteq T
    BY <1>3, <1>5, <2>1
  <2>4. T \subseteq R
    BY <1>3, <2>1, <2>2
  <2> QED
    BY <2>3, <2>4 DEF R
<1> QED
  BY <1>3, <1>4, <1>5

\* Blocks that lead to each other and nowhere else are a loop without exits.
LEMMA CycleIsLoop ==
    ASSUME FlowOK, found.back = BackEdges, Topological, NEW T \in SUBSET nodes, T # {},
           \A m \in T : graph[m] \subseteq T,
           \A m \in T : Reachable(graph, graph[m], {}) = T
    PROVE  \E h \in Headers : Body(h) = T /\ LoopExits(h) = {}
<1>1. /\ nodes \subseteq Node /\ graph \in [Node -> SUBSET Node]
      /\ \A x \in nodes : graph[x] \subseteq nodes
  BY DEF FlowOK
<1>2. \A m \in T : /\ graph[m] \subseteq T
                   /\ \A Z : graph[m] \subseteq Z /\ (\A x \in Z : graph[x] \subseteq Z) => T \subseteq Z
  <2> SUFFICES ASSUME NEW m \in T
               PROVE  \A Z : graph[m] \subseteq Z /\ (\A x \in Z : graph[x] \subseteq Z) => T \subseteq Z
    OBVIOUS
  <2>1. graph[m] \in SUBSET Node /\ Reachable(graph, graph[m], {}) = T
    BY <1>1
  <2> QED
    BY <1>1, <2>1, Everything
<1>3. PICK o : Listed(o) /\ Range(o) = nodes
  BY DEF Topological
<1>4. /\ o \in Seq(nodes) /\ Len(o) \in Nat
      /\ \A i \in 1 .. Len(o) : \A m \in NonBack(graph)[o[i]] : \E k \in 1 .. i - 1 : o[k] = m
      /\ \A i, j \in 1 .. Len(o) : o[i] = o[j] => i = j
      /\ \A n \in nodes : \E i \in 1 .. Len(o) : o[i] = n
  BY <1>3 DEF Listed, Range
\* The member that comes last.
<1>5. PICK i \in 1 .. Len(o) : o[i] \in T /\ \A j \in 1 .. Len(o) : o[j] \in T => j <= i
  <2> DEFINE K == {Len(o) - j : j \in {k \in 1 .. Len(o) : o[k] \in T}}
  <2>1. K # {} /\ K \subseteq Nat
    BY <1>4
  <2>3. PICK m \in K : \A k \in K : m <= k
    BY <2>1, LeastNumber
  <2>4. PICK j \in 1 .. Len(o) : o[j] \in T /\ m = Len(o) - j
    OBVIOUS
  <2>5. ASSUME NEW k \in 1 .. Len(o), o[k] \in T PROVE k <= j
    <3>1. Len(o) - k \in K
      BY <2>5
    <3>2. m <= Len(o) - k
      BY <2>3, <3>1
    <3> QED
      BY <1>4, <2>4, <3>2
  <2> QED
    BY <2>4, <2>5
<1> DEFINE h == o[i]
<1>6. ASSUME NEW m \in T, h \in graph[m] PROVE Dominates(graph, h, m)
  <2> SUFFICES ASSUME h \in NonBack(graph)[m] PROVE FALSE
    BY <1>1, <1>6 DEF NonBack
  <2>1. PICK j \in 1 .. Len(o) : o[j] = m
    BY <1>4
  <2>2. PICK k \in 1 .. j - 1 : o[k] = h
    BY <1>4, <2>1
  <2>3. k \in 1 .. Len(o) /\ k < j
    BY <1>4, <2>2
  <2>4. j <= i
    BY <1>5, <2>1
  <2>5. k = i
    BY <1>4, <1>5, <2>2, <2>3
  <2> QED
    BY <1>4, <2>3, <2>4, <2>5
<1>7. h \in T /\ h \in nodes
  BY <1>5
<1> HIDE DEF h
<1>8. PICK s \in T : h \in graph[s]
  <2> SUFFICES ASSUME \A s \in T : h \notin graph[s] PROVE FALSE
    OBVIOUS
  <2> DEFINE Z == T \ {h}
  <2>1. graph[h] \subseteq Z /\ \A x \in Z : graph[x] \subseteq Z
    BY <1>7
  <2> HIDE DEF Z
  <2>2. T \subseteq Z
    BY <1>2, <1>7, <2>1
  <2> QED
    BY <1>7, <2>2 DEF Z
<1>9. /\ Latches(h) = {x \in nodes : h \in graph[x] /\ Dominates(graph, h, x)}
      /\ h \in Headers <=> Latches(h) # {}
  BY LatchesAre
<1>10. h \in Headers
  BY <1>6, <1>8, <1>9
<1>11. /\ h \in Body(h) /\ Latches(h) \subseteq Body(h) /\ Body(h) \subseteq nodes
       /\ \A n \in Body(h) \ {h} : Preds[n] \subseteq Body(h)
       /\ \A n \in Body(h) : Dominates(graph, h, n)
  BY <1>10, BodyIs
<1>12. T \subseteq Body(h)
  <2> SUFFICES ASSUME NEW m \in T, m \notin Body(h) PROVE FALSE
    OBVIOUS
  <2> DEFINE W == T \ Body(h)
  <2>1. \A x \in W : graph[x] \subseteq W
    <3> SUFFICES ASSUME NEW x \in W, NEW y \in graph[x] PROVE y \in W
      OBVIOUS
    <3>1. y \in T /\ x \in Preds[y]
      BY <1>1 DEF Preds
    <3>2. y \notin Body(h) \ {h}
      BY <1>11, <3>1
    <3>3. y # h
      BY <1>6, <1>9, <1>11
    <3> QED
      BY <3>1, <3>2, <3>3
  <2>2. m \in W
    OBVIOUS
  <2> HIDE DEF W
  <2>3. T \subseteq W
    BY <1>2, <2>1, <2>2
  <2> QED
    BY <1>7, <1>11, <2>3 DEF W
<1>13. Body(h) \subseteq T
  <2> SUFFICES ASSUME NEW b \in Body(h) PROVE b \in T
    OBVIOUS
  <2> DEFINE below == {x \in nodes : Dominates(graph, h, x)}
             A == nodes \ below
             R == Reachable(graph, graph[h], A)
  <2>1. b \in below
    BY <1>11
  <2>2. b = h \/ b \in R
    BY <1>7, <2>1, HeaderReaches
  <2> HIDE DEF A, R
  <2>3. graph[h] \in SUBSET Node
    BY <1>1, <1>7
  <2>4. \A Z : (\A x \in graph[h] : x \in A \/ x \in Z)
               /\ (\A x \in Z : \A y \in graph[x] : y \in A \/ y \in Z) => R \subseteq Z
    BY <1>1, <2>3, Reaches DEF R
  <2>5. R \subseteq T
    BY <1>7, <2>4
  <2> QED
    BY <1>7, <2>2, <2>5
<1>14. LoopExits(h) = {}
  <2>1. Leads(graph, Body(h)) \subseteq Body(h)
    BY <1>12, <1>13 DEF Leads
  <2> QED
    BY <2>1 DEF LoopExits
<1> QED
  BY <1>10, <1>12, <1>13, <1>14

\* Paths end where there is nowhere to go and in loops without exits.
LEMMA EndsAre ==
    ASSUME FlowOK, found.back = BackEdges, Topological
    PROVE  Ends = ExitPoints \cup Endless
<1>1. /\ nodes \subseteq Node /\ graph \in [Node -> SUBSET Node]
      /\ \A x \in nodes : graph[x] \subseteq nodes
  BY DEF FlowOK
<1> DEFINE after(n) == Reachable(graph, graph[n], {})
<1>2. \A n \in nodes : /\ graph[n] \subseteq after(n)
                       /\ \A x \in after(n) : graph[x] \subseteq after(n)
                       /\ \A Z : graph[n] \subseteq Z /\ (\A x \in Z : graph[x] \subseteq Z)
                                  => after(n) \subseteq Z
  <2>1. \A n \in nodes : graph[n] \in SUBSET Node
    BY <1>1
  <2> QED
    BY <1>1, <2>1, Everything
<1>3. \A n : n \in Ends <=> n \in nodes /\ (graph[n] = {}
                \/ (n \in after(n) /\ \A m \in after(n) : n \in after(m)))
  BY DEF Ends
<1>4. ASSUME NEW n \in Ends, n \notin ExitPoints PROVE n \in Endless
  <2>1. n \in nodes /\ n \in after(n) /\ \A m \in after(n) : n \in after(m)
    BY <1>3, <1>4 DEF ExitPoints
  <2>2. PICK T : T = after(n)
    OBVIOUS
  <2>3. /\ T \subseteq nodes /\ \A m \in T : graph[m] \subseteq T
        /\ \A m \in T : after(m) = T
    BY <2>1, <2>2, AllAround
  <2>4. PICK h \in Headers : Body(h) = T /\ LoopExits(h) = {}
    BY <2>1, <2>2, <2>3, CycleIsLoop
  <2> QED
    BY <2>1, <2>2, <2>4 DEF Endless
<1>5. ASSUME NEW n \in Endless PROVE n \in Ends
  <2>1. PICK h \in Headers : LoopExits(h) = {} /\ n \in Body(h)
    BY DEF Endless
  <2> DEFINE below == {x \in nodes : Dominates(graph, h, x)}
             A == nodes \ below
  <2>2. /\ Body(h) = {x \in below : h \in Reachable(graph, graph[x], A)}
        /\ h \in Body(h) /\ Body(h) \subseteq nodes /\ \A x \in Body(h) : Dominates(graph, h, x)
    BY BodyIs, BodyLeadsBack
  <2>3. \A x \in Body(h) : graph[x] \subseteq Body(h)
    BY <2>1 DEF LoopExits, Leads
  <2>4. ASSUME NEW x \in nodes PROVE Reachable(graph, graph[x], A) \subseteq after(x)
    <3>1. graph[x] \in SUBSET Node
      BY <1>1
    <3>2. (\A y \in graph[x] : y \in A \/ y \in after(x))
          /\ (\A y \in after(x) : \A z \in graph[y] : z \in A \/ z \in after(x))
      BY <1>2
    <3> HIDE DEF after, A
    <3> QED
      BY <1>1, <3>1, <3>2, Reaches
  <2>5. \A x \in Body(h) : h \in after(x)
    BY <2>2, <2>4
  <2>6. n = h \/ n \in after(h)
    BY <2>1, <2>2, <2>4, HeaderReaches
  <2> HIDE DEF after, A, below
  <2>7. \A x \in Body(h) : after(h) \subseteq after(x) /\ after(x) \subseteq Body(h)
    BY <1>2, <2>2, <2>3, <2>5
  <2>8. \A x \in Body(h) : n \in after(x)
    BY <2>5, <2>6, <2>7
  <2> QED
    BY <1>3, <2>1, <2>2, <2>7, <2>8
<1>6. ASSUME NEW n \in ExitPoints PROVE n \in Ends
  BY <1>3 DEF ExitPoints
<1> QED
  BY <1>4, <1>5, <1>6

\* A block that another one post-dominates is not an end, and the same goes
\* for what it leads to.
LEMMA PostDominatesStep ==
    ASSUME FlowOK, NEW n \in nodes, NEW p, p # n
    PROVE  PostDominates(p, n) <=> n \notin Ends /\ \A s \in graph[n] : PostDominates(p, s)
<1> DEFINE R(x) == Reachable(graph, {x}, {p})
<1>1. /\ nodes \subseteq Node /\ graph \in [Node -> SUBSET Node]
      /\ \A x \in nodes : graph[x] \subseteq nodes
  BY DEF FlowOK
<1>2. \A x \in nodes : /\ p \notin R(x)
                       /\ x # p => x \in R(x)
                       /\ \A y \in R(x) : \A m \in graph[y] : m = p \/ m \in R(x)
                       /\ \A Z : (x = p \/ x \in Z)
                                 /\ (\A y \in Z : \A m \in graph[y] : m = p \/ m \in Z) => R(x) \subseteq Z
  <2> SUFFICES ASSUME NEW x \in nodes
               PROVE  /\ p \notin R(x)
                      /\ x # p => x \in R(x)
                      /\ \A y \in R(x) : \A m \in graph[y] : m = p \/ m \in R(x)
                      /\ \A Z : (x = p \/ x \in Z)
                                /\ (\A y \in Z : \A m \in graph[y] : m = p \/ m \in Z)
                                   => R(x) \subseteq Z
    OBVIOUS
  <2>1. {x} \in SUBSET Node
    BY <1>1
  <2>2. /\ R(x) \cap {p} = {}
        /\ \A m \in {x} : m \in {p} \/ m \in R(x)
        /\ \A y \in R(x) : \A m \in graph[y] : m \in {p} \/ m \in R(x)
        /\ \A Z : (\A m \in {x} : m \in {p} \/ m \in Z)
                  /\ (\A y \in Z : \A m \in graph[y] : m \in {p} \/ m \in Z) => R(x) \subseteq Z
    BY <1>1, <2>1, Reaches
  <2> HIDE DEF R
  <2> QED
    BY <2>2
<1>3. \A x : PostDominates(p, x) <=> p = x \/ R(x) \cap Ends = {}
  BY DEF PostDominates
<1> HIDE DEF R
<1>4. ASSUME PostDominates(p, n) PROVE n \notin Ends /\ \A s \in graph[n] : PostDominates(p, s)
  <2>1. R(n) \cap Ends = {} /\ n \in R(n)
    BY <1>2, <1>3, <1>4
  <2>2. ASSUME NEW s \in graph[n], s # p PROVE R(s) \subseteq R(n)
    <3>1. s \in R(n) /\ s \in nodes
      BY <1>1, <1>2, <2>1, <2>2
    <3> QED
      BY <1>2, <3>1
  <2> QED
    BY <1>3, <2>1, <2>2
<1>5. ASSUME n \notin Ends, \A s \in graph[n] : PostDominates(p, s) PROVE PostDominates(p, n)
  <2> DEFINE Z == {n} \cup UNION {R(s) : s \in graph[n] \ {p}}
  <2>1. \A y : y \in Z <=> y = n \/ \E s \in graph[n] \ {p} : y \in R(s)
    OBVIOUS
  <2> HIDE DEF Z
  <2>2. ASSUME NEW y \in Z, NEW m \in graph[y] PROVE m = p \/ m \in Z
    <3>1. CASE y = n
      <4>1. m \in nodes
        BY <1>1, <2>2, <3>1
      <4> QED
        BY <1>2, <2>1, <2>2, <3>1, <4>1
    <3>2. CASE \E s \in graph[n] \ {p} : y \in R(s)
      <4>1. PICK s \in graph[n] \ {p} : y \in R(s)
        BY <3>2
      <4>2. s \in nodes
        BY <1>1
      <4>3. m = p \/ m \in R(s)
        BY <1>2, <2>2, <4>1, <4>2
      <4> QED
        BY <2>1, <4>1, <4>3
    <3> QED
      BY <2>1, <3>1, <3>2
  <2>3. R(n) \subseteq Z
    BY <1>2, <2>1, <2>2
  <2>4. Z \cap Ends = {}
    <3> SUFFICES ASSUME NEW y \in Z PROVE y \notin Ends
      OBVIOUS
    <3>1. CASE y = n
      BY <1>5, <3>1
    <3>2. ASSUME NEW s \in graph[n] \ {p}, y \in R(s) PROVE y \notin Ends
      BY <1>3, <1>5, <3>2
    <3> QED
      BY <2>1, <3>1, <3>2
  <2> QED
    BY <1>3, <2>3, <2>4
<1> QED
  BY <1>4, <1>5

PostDominators == [n \in nodes |-> {p \in nodes : PostDominates(p, n)}]

PostDominance == [n \in nodes \cup {Exit} |-> IF n = Exit THEN {Exit} ELSE PostDominators[n]]

LEMMA PostDominanceSolves ==
    ASSUME FlowOK, Ends = ExitPoints \cup Endless
    PROVE  Solution(nodes, ExitPoints \cup {Exit}, LinkedSuccs, PostDominance)
<1> DEFINE E == ExitPoints \cup {Exit}
<1>1. /\ nodes \subseteq Node /\ graph \in [Node -> SUBSET Node] /\ Exit \notin nodes
      /\ \A x \in nodes : graph[x] \subseteq nodes
      /\ ExitPoints = {x \in nodes : graph[x] = {}}
  BY NodeAssumption DEF FlowOK, ExitPoints
<1>2. \A x \in nodes : LinkedSuccs[x] = graph[x] \cup {e \in {Exit} : x \in Endless}
  BY <1>1 DEF LinkedSuccs, Endless
<1>3. \A x \in nodes : PostDominance[x] = {p \in nodes : PostDominates(p, x)}
  BY <1>1 DEF PostDominance, PostDominators
<1>4. PostDominance[Exit] = {Exit}
  BY DEF PostDominance
<1>5. ASSUME NEW n \in ExitPoints PROVE PostDominance[n] = {n}
  <2>1. n \in nodes /\ n \in Ends /\ PostDominates(n, n)
    BY <1>1, <1>5 DEF PostDominates
  <2> QED
    BY <1>3, <2>1, PostDominatesStep
<1>6. ASSUME NEW n \in nodes \ ExitPoints, NEW p
      PROVE  p \in PostDominance[n] <=> p \in MeetOf(LinkedSuccs, PostDominance, n)
  <2>1. /\ graph[n] # {} /\ graph[n] \subseteq nodes /\ LinkedSuccs[n] # {}
        /\ \A s : s \in LinkedSuccs[n] <=> s \in graph[n] \/ (s = Exit /\ n \in Endless)
    BY <1>1, <1>2
  <2>2. p \in MeetOf(LinkedSuccs, PostDominance, n)
          <=> p = n \/ \A s \in LinkedSuccs[n] : p \in PostDominance[s]
    BY <2>1, MeetMembers
  <2>3. n \in PostDominance[n]
    BY <1>3 DEF PostDominates
  <2>4. ASSUME p # n, p \in PostDominance[n], NEW s \in LinkedSuccs[n] PROVE p \in PostDominance[s]
    <3>1. p \in nodes /\ n \notin Ends /\ \A m \in graph[n] : PostDominates(p, m)
      BY <1>3, <2>4, PostDominatesStep
    <3>2. s \in graph[n]
      BY <2>1, <2>4, <3>1
    <3> QED
      BY <1>3, <2>1, <3>1, <3>2
  <2>5. ASSUME p # n, \A s \in LinkedSuccs[n] : p \in PostDominance[s] PROVE p \in PostDominance[n]
    <3>1. \A m \in graph[n] : p \in nodes /\ PostDominates(p, m)
      BY <1>3, <2>1, <2>5
    <3>2. p \in nodes
      BY <2>1, <3>1
    <3>3. n \notin Endless
      BY <1>1, <1>4, <2>1, <2>5, <3>2
    <3>4. PostDominates(p, n)
      BY <2>5, <3>1, <3>3, PostDominatesStep
    <3> QED
      BY <1>3, <3>2, <3>4
  <2> QED
    BY <2>2, <2>3, <2>4, <2>5
<1>7. \A n \in nodes \cup E : PostDominance[n] = IF n \in E THEN {n}
                                ELSE MeetOf(LinkedSuccs, PostDominance, n)
  <2>1. ASSUME NEW n \in nodes \ ExitPoints
        PROVE  PostDominance[n] = MeetOf(LinkedSuccs, PostDominance, n)
    BY <1>6
  <2>2. \A n \in nodes \cup E : n \in E <=> n \in ExitPoints \/ n = Exit
    BY <1>1
  <2> QED
    BY <1>1, <1>4, <1>5, <2>1, <2>2
<1> QED
  BY <1>3, <1>7 DEF Solution

\* The todo-list algorithm ends in what paths say of post-dominators.
LEMMA PostDominatorsFound ==
    ASSUME FlowOK, Ends = ExitPoints \cup Endless,
           DomInv(nodes, ExitPoints \cup {Exit}, LinkedSuccs, Mirror(LinkedSuccs), doms, {})
    PROVE  \A n \in nodes : doms[n] = {p \in nodes : PostDominates(p, n)}
<1> DEFINE E == ExitPoints \cup {Exit}
<1>1. /\ nodes \subseteq Node /\ graph \in [Node -> SUBSET Node] /\ Exit \notin nodes
      /\ \A x \in nodes : graph[x] \subseteq nodes
      /\ ExitPoints = {x \in nodes : graph[x] = {}}
      /\ nodes \cup E = nodes \cup {Exit}
  BY NodeAssumption DEF FlowOK, ExitPoints
<1>2. \A x \in nodes : LinkedSuccs[x] = graph[x] \cup {e \in {Exit} : x \in Endless}
  BY <1>1 DEF LinkedSuccs, Endless
<1>3. Solution(nodes, E, LinkedSuccs, doms) /\ Above(nodes, E, LinkedSuccs, doms)
  BY DomEnds
<1>4. \A n \in nodes : {p \in nodes : PostDominates(p, n)} \subseteq doms[n]
  <2>1. PostDominance \in [nodes \cup E -> SUBSET (nodes \cup E)]
    BY <1>1 DEF PostDominance, PostDominators
  <2>2. Solution(nodes, E, LinkedSuccs, PostDominance)
    BY PostDominanceSolves
  <2>3. \A n \in nodes \cup E : PostDominance[n] \subseteq doms[n]
    BY <1>3, <2>1, <2>2 DEF Above
  <2>4. \A x \in nodes : PostDominance[x] = {p \in nodes : PostDominates(p, x)}
    BY <1>1 DEF PostDominance, PostDominators
  <2> QED
    BY <2>3, <2>4
<1>5. /\ \A x \in nodes \cup E : doms[x] = IF x \in E THEN {x} ELSE MeetOf(LinkedSuccs, doms, x)
      /\ \A x \in nodes : doms[x] \subseteq nodes
  BY <1>3 DEF Solution
<1>6. ASSUME NEW n \in nodes, NEW p \in doms[n] PROVE PostDominates(p, n)
  <2> SUFFICES ASSUME p # n, NEW z \in Reachable(graph, {n}, {p}), z \in Ends PROVE FALSE
    BY DEF PostDominates
  <2> DEFINE R == Reachable(graph, {n}, {p})
             Z == {x \in nodes : p \in doms[x] /\ x # p}
  <2>1. p \in nodes
    BY <1>5
  <2>2. {n} \in SUBSET Node
    BY <1>1
  <2>3. \A Y : (\A m \in {n} : m \in {p} \/ m \in Y)
               /\ (\A y \in Y : \A m \in graph[y] : m \in {p} \/ m \in Y) => R \subseteq Y
    BY <1>1, <2>2, Reaches
  <2>4. ASSUME NEW x \in Z
        PROVE  x \notin E /\ LinkedSuccs[x] # {} /\ \A s \in LinkedSuccs[x] : p \in doms[s]
    <3>1. x \notin E
      <4>1. x \in nodes /\ p \in doms[x] /\ x # p
        BY <2>4
      <4>2. x \in E => doms[x] = {x}
        BY <1>5, <4>1
      <4> QED
        BY <4>1, <4>2
    <3>2. p \in MeetOf(LinkedSuccs, doms, x)
      BY <1>1, <1>5, <2>4, <3>1
    <3> QED
      BY <2>4, <3>1, <3>2, MeetMembers
  <2>5. \A y \in Z : \A m \in graph[y] : m \in {p} \/ m \in Z
    <3> SUFFICES ASSUME NEW y \in Z, NEW m \in graph[y], m # p PROVE m \in Z
      OBVIOUS
    <3>1. m \in nodes /\ m \in LinkedSuccs[y]
      BY <1>1, <1>2
    <3> QED
      BY <2>4, <3>1
  <2>6. n \in Z
    BY <1>6
  <2> HIDE DEF Z, R
  <2>7. z \in Z
    BY <2>3, <2>5, <2>6 DEF R
  <2>8. z \notin E /\ z \in nodes
    BY <2>4, <2>7 DEF Z
  <2>9. z \in Endless
    BY <2>8
  <2>10. Exit \in LinkedSuccs[z]
    BY <1>2, <2>8, <2>9
  <2>11. p \in doms[Exit]
    BY <2>4, <2>7, <2>10
  <2> QED
    BY <1>1, <1>5, <2>1, <2>11
<1> QED
  BY <1>4, <1>5, <1>6

-----------------------------------------------------------------------------
(* Immediate dominators.                                                   *)

\* Only live blocks dominate a live block, and the entry does.
LEMMA DominatorIsLive ==
    ASSUME FlowOK, NEW n \in nodes
    PROVE  /\ Dominates(graph, Entry, n)
           /\ \A d : Dominates(graph, d, n) => d \in nodes
<1> DEFINE R(d) == Reachable(graph, {Entry}, {d})
<1>1. /\ nodes \subseteq Node /\ Entry \in nodes /\ graph \in [Node -> SUBSET Node]
      /\ {Entry} \in SUBSET Node /\ nodes = Reachable(graph, {Entry}, {})
      /\ \A x \in nodes : graph[x] \subseteq nodes
  BY DEF FlowOK
<1>2. \A d : /\ Entry # d => Entry \in R(d)
             /\ \A x \in R(d) : \A m \in graph[x] : m = d \/ m \in R(d)
  BY <1>1, Around
<1>3. \A Z : {Entry} \subseteq Z /\ (\A x \in Z : graph[x] \subseteq Z) => nodes \subseteq Z
  BY <1>1, Everything
<1>4. n \notin R(Entry)
  <2>1. \A Z : (\A x \in Z : \A m \in graph[x] : m = Entry \/ m \in Z) => R(Entry) \subseteq Z
    BY <1>1, Around
  <2> HIDE DEF R
  <2> DEFINE Z == {}
  <2>2. \A x \in Z : \A m \in graph[x] : m = Entry \/ m \in Z
    OBVIOUS
  <2> HIDE DEF Z
  <2>3. R(Entry) \subseteq Z
    BY <2>1, <2>2
  <2> QED
    BY <2>3 DEF Z
<1>5. ASSUME NEW d, d \notin nodes PROVE n \in R(d)
  <2> HIDE DEF R
  <2> DEFINE Z == R(d) \cap nodes
  <2>1. {Entry} \subseteq Z /\ \A x \in Z : graph[x] \subseteq Z
    BY <1>1, <1>2, <1>5
  <2> QED
    BY <1>3, <2>1
<1> QED
  BY <1>4, <1>5 DEF Dominates

\* A dominator's dominators are dominators.
LEMMA DominatesThrough ==
    ASSUME FlowOK, NEW n, NEW d, NEW e, Dominates(graph, d, e), Dominates(graph, e, n)
    PROVE  Dominates(graph, d, n)
<1> DEFINE R(x) == Reachable(graph, {Entry}, {x})
<1>1. graph \in [Node -> SUBSET Node]
  BY DEF FlowOK
<1>2. \A x : /\ Entry # x => Entry \in R(x)
             /\ \A y \in R(x) : \A m \in graph[y] : m = x \/ m \in R(x)
             /\ \A Z : (Entry = x \/ Entry \in Z) /\ (\A y \in Z : \A m \in graph[y] : m = x \/ m \in Z)
                         => R(x) \subseteq Z
  BY <1>1, Around
<1> HIDE DEF R
<1> SUFFICES ASSUME e \notin R(d), n \notin R(e) PROVE n \notin R(d)
  BY DEF R, Dominates
<1> DEFINE Z == R(d) \cap R(e)
<1>3. Entry = d \/ Entry \in Z
  BY <1>2
<1>4. \A y \in Z : \A m \in graph[y] : m = d \/ m \in Z
  BY <1>2
<1>5. R(d) \subseteq Z
  BY <1>2, <1>3, <1>4
<1> QED
  BY <1>5

\* A live block other than the entry is reached over an edge that is not a
\* back edge.
LEMMA AheadPred ==
    ASSUME FlowOK, NEW n \in nodes \ {Entry}
    PROVE  \E p \in nodes : p \in Preds[n] /\ n \in NonBack(graph)[p] /\ ~Dominates(graph, n, p)
<1> SUFFICES ASSUME \A p \in nodes : n \notin NonBack(graph)[p] PROVE FALSE
  BY DEF FlowOK, NonBack, Preds
<1> DEFINE Y == nodes \ {n}
<1>1. Entry \in Y /\ \A x \in Y : NonBack(graph)[x] \subseteq Y
  BY DEF FlowOK, NonBack
<1> HIDE DEF Y
<1>2. nodes \subseteq Y
  BY <1>1, ClosedIsAll
<1> QED
  BY <1>2 DEF Y

\* A block's strict dominators are the blocks that dominate whatever leads to
\* it, the sources of back edges aside.
LEMMA ThroughPreds ==
    ASSUME FlowOK, NEW n \in nodes \ {Entry}, NEW K \in SUBSET Preds[n],
           \A p \in Preds[n] : Dominates(graph, n, p) \/ p \in K, NEW d
    PROVE  StrictlyDominates(d, n) <=> \A p \in K : Dominates(graph, d, p)
<1> DEFINE R(x) == Reachable(graph, {Entry}, {x})
<1>1. graph \in [Node -> SUBSET Node] /\ n \in Node /\ Preds[n] = {p \in Node : n \in graph[p]}
  BY DEF FlowOK, Preds
<1>2. \A x : /\ R(x) \subseteq Node
             /\ Entry # x => Entry \in R(x)
             /\ x \notin R(x)
             /\ \A y \in R(x) : \A m \in graph[y] : m = x \/ m \in R(x)
             /\ \A Z : (Entry = x \/ Entry \in Z) /\ (\A y \in Z : \A m \in graph[y] : m = x \/ m \in Z)
                         => R(x) \subseteq Z
  BY <1>1, Around
<1> HIDE DEF R
<1>3. ASSUME StrictlyDominates(d, n) PROVE \A p \in K : Dominates(graph, d, p)
  BY <1>3, DominatesStep DEF StrictlyDominates
<1>4. ASSUME \A p \in K : Dominates(graph, d, p) PROVE d # n
  BY <1>4, AheadPred
<1>5. ASSUME \A p \in K : Dominates(graph, d, p), n \in R(d) PROVE FALSE
  <2>1. \A p \in K : p \notin R(d)
    BY <1>5 DEF R, Dominates
  <2>2. \A p \in Preds[n] : p \notin R(n) \/ p \in K
    BY DEF R, Dominates
  <2> DEFINE Z == R(d) \cap R(n)
  <2>3. Entry = d \/ Entry \in Z
    BY <1>2
  <2>4. \A y \in Z : \A m \in graph[y] : m = d \/ m \in Z
    BY <1>1, <1>2, <2>1, <2>2
  <2>5. Z \subseteq R(n)
    OBVIOUS
  <2> HIDE DEF Z
  <2>6. R(d) \subseteq Z
    BY <1>2, <2>3, <2>4
  <2> QED
    BY <1>2, <1>5, <2>5, <2>6
<1> QED
  BY <1>3, <1>4, <1>5 DEF R, Dominates, StrictlyDominates

\* In a post-order a block's dominators come after it.
LEMMA DominatorLater ==
    ASSUME FlowOK, NEW o, Listed(o), Range(o) = nodes, NEW i \in 1 .. Len(o), NEW j \in 1 .. Len(o),
           i # j, Dominates(graph, o[j], o[i])
    PROVE  i < j
<1>1. /\ o \in Seq(nodes) /\ Len(o) \in Nat
      /\ \A a \in 1 .. Len(o) : \A m \in NonBack(graph)[o[a]] : \E k \in 1 .. a - 1 : o[k] = m
      /\ \A a, b \in 1 .. Len(o) : o[a] = o[b] => a = b
      /\ \A n \in nodes : \E a \in 1 .. Len(o) : o[a] = n
      /\ \A a \in 1 .. Len(o) : o[a] \in nodes
  <2>1. o \in Seq(nodes) /\ \A a, b \in 1 .. Len(o) : o[a] = o[b] => a = b
    BY DEF Listed
  <2>2. /\ DOMAIN o = 1 .. Len(o) /\ Len(o) \in Nat
        /\ \A a \in 1 .. Len(o) : o[a] \in nodes
    BY <2>1
  <2> QED
    BY <2>1, <2>2 DEF Listed, Range
<1> SUFFICES ASSUME j < i PROVE FALSE
  OBVIOUS
<1> DEFINE d == o[j]
           S == {k \in 1 .. Len(o) : j < k /\ Dominates(graph, d, o[k])}
           K == {Len(o) - k : k \in S}
<1>2. K # {} /\ K \subseteq Nat
  <2>1. i \in S
    OBVIOUS
  <2>2. Len(o) \in Nat
    BY <1>1
  <2>3. \A k \in 1 .. Len(o) : Len(o) - k \in Nat
    BY <2>2
  <2> QED
    BY <2>1, <2>3
<1>3. PICK m \in K : \A k \in K : m <= k
  BY <1>2, LeastNumber
<1>4. PICK a \in S : m = Len(o) - a
  OBVIOUS
<1>5. ASSUME NEW k \in S PROVE k <= a
  <2>1. Len(o) - k \in K
    OBVIOUS
  <2>2. m <= Len(o) - k
    BY <1>3, <2>1
  <2> QED
    BY <1>1, <1>4, <2>2
<1> HIDE DEF K
<1>6. a \in 1 .. Len(o) /\ j < a /\ o[a] # d /\ Dominates(graph, d, o[a])
  <2>1. \A b \in 1 .. Len(o) : o[b] = o[j] => b = j
    BY <1>1
  <2>2. a # j
    OBVIOUS
  <2> QED
    BY <2>1, <2>2
<1> HIDE DEF d
<1>7. o[a] \in nodes \ {Entry}
  <2>1. o[a] \in nodes /\ d \in nodes
    BY <1>1, <1>6 DEF d
  <2>2. Dominates(graph, d, Entry) <=> d = Entry
    BY EntryIsDominated DEF FlowOK
  <2> QED
    BY <1>6, <2>1, <2>2
<1>8. PICK p \in nodes : p \in Preds[o[a]] /\ o[a] \in NonBack(graph)[p]
  BY <1>7, AheadPred
<1>9. Dominates(graph, d, p)
  BY <1>6, <1>7, <1>8, DominatesStep
<1>10. PICK b \in 1 .. Len(o) : o[b] = p
  BY <1>1
<1>11. PICK k \in 1 .. b - 1 : o[k] = o[a]
  BY <1>1, <1>8, <1>10
<1>12. k = a
  BY <1>1, <1>6, <1>10, <1>11
<1>13. a < b
  BY <1>10, <1>11, <1>12
<1>14. b \in S
  BY <1>6, <1>9, <1>10, <1>13
<1> QED
  BY <1>5, <1>6, <1>13, <1>14

\* Among any live blocks there is one that no other one dominates,
\* and one that dominates no other one.
LEMMA OutermostExists ==
    ASSUME FlowOK, Topological, NEW T \in SUBSET nodes, T # {}
    PROVE  /\ \E t \in T : \A s \in T : Dominates(graph, s, t) => s = t
           /\ \E t \in T : \A s \in T : Dominates(graph, t, s) => s = t
<1>1. PICK o : Listed(o) /\ Range(o) = nodes
  BY DEF Topological
<1>2. /\ o \in Seq(nodes) /\ Len(o) \in Nat
      /\ \A n \in nodes : \E a \in 1 .. Len(o) : o[a] = n
  BY <1>1 DEF Listed, Range
<1> DEFINE I == {a \in 1 .. Len(o) : o[a] \in T}
<1>3. I # {} /\ I \subseteq Nat
  BY <1>2
<1>4. \E t \in T : \A s \in T : Dominates(graph, t, s) => s = t
  <2>1. PICK a \in I : \A b \in I : a <= b
    BY <1>3, LeastNumber
  <2>2. ASSUME NEW s \in T, Dominates(graph, o[a], s), s # o[a] PROVE FALSE
    <3>1. PICK b \in I : o[b] = s
      BY <1>2
    <3>2. b < a
      BY <1>1, <2>2, <3>1, DominatorLater
    <3> QED
      BY <2>1, <3>2
  <2> QED
    BY <2>1, <2>2
<1>5. \E t \in T : \A s \in T : Dominates(graph, s, t) => s = t
  <2> DEFINE K == {Len(o) - a : a \in I}
  <2>1. \A a \in 1 .. Len(o) : Len(o) - a \in Nat
    BY <1>2
  <2>2. PICK m \in K : \A k \in K : m <= k
    <3>1. K # {} /\ K \subseteq Nat
      BY <1>3, <2>1
    <3> HIDE DEF K
    <3> QED
      BY <3>1, LeastNumber
  <2>3. PICK a \in I : m = Len(o) - a
    OBVIOUS
  <2>4. ASSUME NEW s \in T, Dominates(graph, s, o[a]), s # o[a] PROVE FALSE
    <3>1. PICK b \in I : o[b] = s
      BY <1>2
    <3>2. a < b
      BY <1>1, <2>4, <3>1, DominatorLater
    <3>3. m <= Len(o) - b
      BY <2>2
    <3> QED
      BY <1>2, <2>3, <3>2, <3>3
  <2> QED
    BY <2>3, <2>4
<1> QED
  BY <1>4, <1>5

\* The common dominator of T that all its common dominators dominate.
Nearest(c, T) ==
    /\ c \in nodes /\ \A t \in T : Dominates(graph, c, t)
    /\ \A d \in nodes : (\A t \in T : Dominates(graph, d, t)) => Dominates(graph, d, c)

LEMMA NearestExists ==
    ASSUME FlowOK, Topological, NEW T \in SUBSET nodes, T # {}
    PROVE  \E c : Nearest(c, T)
<1> DEFINE C == {c \in nodes : \A t \in T : Dominates(graph, c, t)}
<1>1. Entry \in C
  BY DominatorIsLive DEF FlowOK
<1>2. PICK c \in C : \A d \in C : Dominates(graph, c, d) => c = d
  BY <1>1, OutermostExists
<1>3. PICK t \in T : TRUE
  OBVIOUS
<1>4. ASSUME NEW d \in C PROVE Dominates(graph, d, c)
  BY <1>2, <1>3, DominatorsInLine
<1> QED
  BY <1>4 DEF Nearest

LEMMA NearestIsOne ==
    ASSUME FlowOK, NEW T, NEW c, NEW d, Nearest(c, T), Nearest(d, T)
    PROVE  c = d
BY DominatorsDiffer DEF Nearest

\* A block's immediate dominator.
Immediate(i, n) ==
    /\ i \in nodes /\ StrictlyDominates(i, n)
    /\ \A d \in nodes : StrictlyDominates(d, n) => Dominates(graph, d, i)

\* The dictionary of immediate dominators as far as the sweeps have filled
\* it, with the post-order that they go by.
Climbable ==
    /\ Listed(found.post) /\ Range(found.post) = nodes
    /\ DOMAIN found.idom \subseteq nodes
    /\ \A n \in DOMAIN found.idom :
          /\ \A d \in nodes : Dominates(graph, d, n) => d \in DOMAIN found.idom
          /\ n = Entry => found.idom[n] = Entry
          /\ n # Entry => Immediate(found.idom[n], n)

\* A block's immediate dominator has its dominators, itself aside.
LEMMA ImmediateHas ==
    ASSUME FlowOK, NEW n \in nodes, NEW i, Immediate(i, n), NEW d
    PROVE  Dominates(graph, d, n) <=> d = n \/ Dominates(graph, d, i)
<1>1. graph \in [Node -> SUBSET Node]
  BY DEF FlowOK
<1>2. Dominates(graph, n, n)
  BY <1>1, DominatesItself
<1>3. Dominates(graph, d, n) => d \in nodes
  BY DominatorIsLive
<1> QED
  BY <1>2, <1>3, DominatesThrough DEF Immediate, StrictlyDominates

\* One step up from the block that comes first.
LEMMA ClimbOnce ==
    ASSUME FlowOK, Climbable, NEW x \in DOMAIN found.idom, NEW y \in DOMAIN found.idom,
           Index(x) < Index(y)
    PROVE  /\ found.idom[x] \in DOMAIN found.idom
           /\ Index(x) < Index(found.idom[x])
           /\ \A c : Nearest(c, {found.idom[x], y}) <=> Nearest(c, {x, y})
<1> DEFINE i == found.idom[x]
<1>1. x \in nodes /\ y \in nodes
  BY DEF Climbable
<1>2. \A n \in nodes : Index(n) \in 1 .. Len(found.post) /\ found.post[Index(n)] = n
  BY IndexFacts DEF Climbable
<1>3. Len(found.post) \in Nat
  BY DEF Climbable, Listed
<1>4. \A n, d \in nodes : Dominates(graph, d, n) /\ d # n => Index(n) < Index(d)
  BY <1>2, DominatorLater DEF Climbable
<1>5. x # Entry
  <2>1. Dominates(graph, Entry, y) /\ Entry \in nodes
    BY <1>1, DominatorIsLive DEF FlowOK
  <2>2. x # y
    BY <1>1, <1>2
  <2>3. x = Entry => Index(y) < Index(x)
    BY <1>1, <1>4, <2>1, <2>2
  <2> QED
    BY <1>1, <1>2, <1>3, <2>3
<1>6. i \in nodes /\ i # x /\ Dominates(graph, i, x) /\ Immediate(i, x)
  BY <1>5 DEF Climbable, Immediate, StrictlyDominates
<1>7. i \in DOMAIN found.idom /\ Index(x) < Index(i)
  BY <1>1, <1>4, <1>6 DEF Climbable
<1>8. ~Dominates(graph, x, y)
  <2>1. x # y
    BY <1>1, <1>2
  <2>2. Dominates(graph, x, y) => Index(y) < Index(x)
    BY <1>1, <1>4, <2>1
  <2> QED
    BY <1>1, <1>2, <1>3, <2>2
<1> HIDE DEF i
<1>9. \A d : Dominates(graph, d, x) <=> d = x \/ Dominates(graph, d, i)
  BY <1>1, <1>6, ImmediateHas
<1>10. \A d : (\A t \in {i, y} : Dominates(graph, d, t)) <=> (\A t \in {x, y} : Dominates(graph, d, t))
  BY <1>8, <1>9
<1>11. \A c : Nearest(c, {i, y}) <=> Nearest(c, {x, y})
  BY <1>10 DEF Nearest
<1> QED
  BY <1>7, <1>11 DEF i

\* Where two blocks meet.
LEMMA IntersectIs ==
    ASSUME FlowOK, Climbable, NEW a \in DOMAIN found.idom, NEW b \in DOMAIN found.idom
    PROVE  Nearest(Intersect(a, b), {a, b})
<1> DEFINE D == DOMAIN found.idom
           up(x) == found.idom[x]
           solves(f) == f = [w \in D \X D |->
                                IF w[1] = w[2] THEN w[1]
                                ELSE IF Index(w[1]) < Index(w[2]) THEN f[<<up(w[1]), w[2]>>]
                                                                  ELSE f[<<w[1], up(w[2])>>]]
           meet == CHOOSE f : solves(f)
           near(x, y) == CHOOSE c : Nearest(c, {x, y})
           N == Len(found.post)
<1>1. Intersect(a, b) = meet[<<a, b>>]
  BY DEF Intersect
<1>2. /\ D \subseteq nodes /\ N \in Nat
      /\ \A n \in nodes : Index(n) \in 1 .. N /\ found.post[Index(n)] = n
  <2>1. N \in Nat
    BY DEF Climbable, Listed
  <2> QED
    BY <2>1, IndexFacts DEF Climbable
<1>3. Topological
  BY DEF Climbable, Topological
<1>4. \A x, y \in D : Nearest(near(x, y), {x, y})
  <2> SUFFICES ASSUME NEW x \in D, NEW y \in D PROVE Nearest(near(x, y), {x, y})
    OBVIOUS
  <2>1. {x, y} \in SUBSET nodes /\ {x, y} # {}
    BY <1>2
  <2>2. \E c : Nearest(c, {x, y})
    BY <1>3, <2>1, NearestExists
  <2> QED
    BY <2>2
<1>5. \A x \in D : \A c : Nearest(c, {x, x}) <=> c = x
  <2> SUFFICES ASSUME NEW x \in D PROVE Nearest(x, {x, x})
    BY NearestIsOne
  <2>1. Dominates(graph, x, x)
    BY DominatesItself DEF FlowOK
  <2> QED
    BY <1>2, <2>1 DEF Nearest
<1>6. \A x, y \in D : Index(x) < Index(y) =>
         /\ up(x) \in D /\ Index(x) < Index(up(x))
         /\ \A c : Nearest(c, {up(x), y}) <=> Nearest(c, {x, y})
  BY ClimbOnce
<1>7. \A x, y \in D : x = y \/ Index(x) < Index(y) \/ Index(y) < Index(x)
  <2> SUFFICES ASSUME NEW x \in D, NEW y \in D, x # y PROVE Index(x) < Index(y) \/ Index(y) < Index(x)
    OBVIOUS
  <2>1. Index(x) \in Nat /\ Index(y) \in Nat /\ Index(x) # Index(y)
    BY <1>2
  <2> QED
    BY <2>1
<1>8. \A x, y \in D : Index(x) < Index(y) => ~(Index(y) < Index(x)) /\ x # y
  BY <1>2
<1>9. \A x, y : {x, y} = {y, x}
  OBVIOUS
<1>10. \E f : solves(f)
  <2> DEFINE f == [w \in D \X D |-> near(w[1], w[2])]
  <2>1. \A x, y \in D : f[<<x, y>>] = near(x, y)
    <3> HIDE DEF near, D
    <3> QED
      OBVIOUS
  <2>2. f = [w \in D \X D |-> f[w]]
    OBVIOUS
  <2> HIDE DEF f
  <2>3. ASSUME NEW x \in D, NEW y \in D
        PROVE  f[<<x, y>>] = IF x = y THEN x ELSE IF Index(x) < Index(y) THEN f[<<up(x), y>>]
                                                                         ELSE f[<<x, up(y)>>]
    <3>1. CASE x = y
      BY <1>4, <1>5, <2>1, <3>1
    <3>2. CASE Index(x) < Index(y)
      <4>1. up(x) \in D /\ x # y
        BY <1>6, <1>8, <3>2
      <4>2. near(x, y) = near(up(x), y)
        BY <1>4, <1>6, <3>2, <4>1, NearestIsOne
      <4> QED
        BY <2>1, <3>2, <4>1, <4>2
    <3>3. CASE Index(y) < Index(x)
      <4>1. up(y) \in D /\ x # y /\ ~(Index(x) < Index(y))
        BY <1>6, <1>8, <3>3
      <4>2. near(x, y) = near(x, up(y))
        BY <1>4, <1>6, <1>9, <3>3, <4>1, NearestIsOne
      <4> QED
        BY <2>1, <4>1, <4>2
    <3> QED
      BY <1>7, <3>1, <3>2, <3>3
  <2> HIDE DEF up, near, D
  <2>4. solves(f)
    <3>1. ASSUME NEW w \in D \X D
          PROVE  f[w] = IF w[1] = w[2] THEN w[1]
                        ELSE IF Index(w[1]) < Index(w[2]) THEN f[<<up(w[1]), w[2]>>]
                                                          ELSE f[<<w[1], up(w[2])>>]
      <4>1. PICK x \in D, y \in D : w = <<x, y>>
        OBVIOUS
      <4> QED
        BY <2>3, <4>1
    <3> QED
      BY <2>2, <3>1
  <2> HIDE DEF solves
  <2> QED
    BY <2>4
<1>11. solves(meet)
  <2> HIDE DEF solves
  <2> QED
    BY <1>10
<1> HIDE DEF meet, near
<1>12. \A x, y \in D : meet[<<x, y>>] = IF x = y THEN x
                                          ELSE IF Index(x) < Index(y) THEN meet[<<up(x), y>>]
                                                                      ELSE meet[<<x, up(y)>>]
  <2> HIDE DEF D, up
  <2> SUFFICES ASSUME NEW x \in D, NEW y \in D
               PROVE  meet[<<x, y>>] = IF x = y THEN x
                                       ELSE IF Index(x) < Index(y) THEN meet[<<up(x), y>>]
                                                                   ELSE meet[<<x, up(y)>>]
    OBVIOUS
  <2> DEFINE w == <<x, y>>
  <2>1. w \in D \X D /\ w[1] = x /\ w[2] = y
    OBVIOUS
  <2>2. meet[w] = IF w[1] = w[2] THEN w[1]
                  ELSE IF Index(w[1]) < Index(w[2]) THEN meet[<<up(w[1]), w[2]>>]
                                                    ELSE meet[<<w[1], up(w[2])>>]
    <3> HIDE DEF w
    <3> QED
      BY <1>11, <2>1
  <2> QED
    BY <2>1, <2>2
<1> HIDE DEF D, up, solves
<1> DEFINE bad(x, y) == ~Nearest(meet[<<x, y>>], {x, y})
           S == {2 * N - Index(w[1]) - Index(w[2]) : w \in {z \in D \X D : bad(z[1], z[2])}}
<1>13. \A x, y \in D : 2 * N - Index(x) - Index(y) \in Nat
  <2> SUFFICES ASSUME NEW x \in D, NEW y \in D PROVE 2 * N - Index(x) - Index(y) \in Nat
    OBVIOUS
  <2>1. Index(x) \in 1 .. N /\ Index(y) \in 1 .. N
    BY <1>2
  <2> HIDE DEF N
  <2> QED
    BY <1>2, <2>1
<1>14. S = {}
  <2> SUFFICES ASSUME S # {} PROVE FALSE
    OBVIOUS
  <2>1. S \subseteq Nat
    BY <1>13
  <2>2. PICK m \in S : \A k \in S : m <= k
    <3> HIDE DEF S
    <3> QED
      BY <2>1, LeastNumber
  <2>3. PICK x \in D, y \in D : bad(x, y) /\ m = 2 * N - Index(x) - Index(y)
    BY <2>2
  <2>4. ASSUME NEW u \in D, NEW v \in D, bad(u, v) PROVE 2 * N - Index(u) - Index(v) \in S
    <3> HIDE DEF bad
    <3>1. <<u, v>> \in D \X D /\ <<u, v>>[1] = u /\ <<u, v>>[2] = v
      OBVIOUS
    <3> QED
      BY <2>4, <3>1
  <2> HIDE DEF S, bad
  <2>5. \A u, v \in D : bad(u, v) => 2 * N - Index(x) - Index(y) <= 2 * N - Index(u) - Index(v)
    BY <2>2, <2>3, <2>4
  <2>6. ASSUME NEW u \in D, NEW v \in D, Index(u) >= Index(x), Index(v) >= Index(y),
               Index(u) > Index(x) \/ Index(v) > Index(y)
        PROVE  ~bad(u, v)
    <3>1. Index(x) \in 1 .. N /\ Index(y) \in 1 .. N /\ Index(u) \in 1 .. N /\ Index(v) \in 1 .. N
      BY <1>2
    <3> HIDE DEF N
    <3> QED
      BY <1>2, <2>5, <2>6, <3>1
  <2>7. \A u \in D : Index(u) \in Nat
    BY <1>2
  <2>8. CASE x = y
    BY <1>5, <1>12, <2>3, <2>8 DEF bad
  <2>9. CASE Index(x) < Index(y)
    <3>1. up(x) \in D /\ x # y /\ Index(x) < Index(up(x))
      BY <1>6, <1>8, <2>9
    <3>2. ~bad(up(x), y)
      BY <2>6, <2>7, <3>1
    <3>3. meet[<<x, y>>] = meet[<<up(x), y>>]
      BY <1>12, <2>9, <3>1
    <3> QED
      BY <1>6, <2>3, <2>9, <3>2, <3>3 DEF bad
  <2>10. CASE Index(y) < Index(x)
    <3>1. up(y) \in D /\ x # y /\ ~(Index(x) < Index(y)) /\ Index(y) < Index(up(y))
      BY <1>6, <1>8, <2>10
    <3>2. ~bad(x, up(y))
      BY <2>6, <2>7, <3>1
    <3>3. meet[<<x, y>>] = meet[<<x, up(y)>>]
      BY <1>12, <3>1
    <3> QED
      BY <1>6, <1>9, <2>3, <2>10, <3>2, <3>3 DEF bad
  <2> QED
    BY <1>7, <2>8, <2>9, <2>10
<1>15. a \in D /\ b \in D
  BY DEF D
<1>16. ~bad(a, b)
  <2>1. <<a, b>> \in D \X D /\ <<a, b>>[1] = a /\ <<a, b>>[2] = b
    BY <1>15
  <2> HIDE DEF bad
  <2> QED
    BY <1>14, <2>1
<1> QED
  BY <1>1, <1>16

\* What holds of two blocks holds of a nearest common dominator and a block.
LEMMA NearestJoins ==
    ASSUME FlowOK, NEW T, NEW x, NEW c, NEW d, Nearest(c, T), Nearest(d, {x, c})
    PROVE  Nearest(d, T \cup {x})
<1>1. \A e \in nodes : Dominates(graph, e, c) <=> \A t \in T : Dominates(graph, e, t)
  BY DominatesThrough DEF Nearest
<1> QED
  BY <1>1 DEF Nearest

\* functools.reduce over intersect: the nearest common dominator of them all.
LEMMA FoldIs ==
    ASSUME FlowOK, Climbable, NEW V \in SUBSET DOMAIN found.idom, NEW base \in DOMAIN found.idom
    PROVE  Nearest(FoldSet(Intersect, base, V), V \cup {base})
<1> DEFINE D == DOMAIN found.idom
           first(s) == CHOOSE x \in s : TRUE
           solves(f) == f = [s \in SUBSET V |->
                                IF s = {} THEN base
                                ELSE Intersect(first(s), f[s \ {first(s)}])]
           iter == CHOOSE f : solves(f)
           near(s) == CHOOSE c : Nearest(c, s \cup {base})
<1>1. FoldSet(Intersect, base, V) = iter[V]
  BY DEF FoldSet, MapThenFoldSet
<1>2. D \subseteq nodes /\ Topological
  BY DEF Climbable, Topological
<1>3. \A s \in SUBSET V : Nearest(near(s), s \cup {base})
  <2> SUFFICES ASSUME NEW s \in SUBSET V PROVE Nearest(near(s), s \cup {base})
    OBVIOUS
  <2>1. s \cup {base} \in SUBSET nodes /\ s \cup {base} # {}
    BY <1>2
  <2>2. \E c : Nearest(c, s \cup {base})
    BY <1>2, <2>1, NearestExists
  <2> QED
    BY <2>2
<1>4. Nearest(base, {} \cup {base})
  <2>1. Dominates(graph, base, base)
    BY DominatesItself DEF FlowOK
  <2> QED
    BY <1>2, <2>1 DEF Nearest
<1>5. \A s \in SUBSET V : s # {} => first(s) \in s
  OBVIOUS
<1> HIDE DEF first
<1>6. ASSUME NEW s \in SUBSET V, s # {}, NEW c, Nearest(c, (s \ {first(s)}) \cup {base})
      PROVE  Nearest(Intersect(first(s), c), s \cup {base})
  <2>1. first(s) \in D /\ ((s \ {first(s)}) \cup {base}) \cup {first(s)} = s \cup {base}
    BY <1>5, <1>6
  <2>2. c \in D
    BY <1>6 DEF Climbable, Nearest
  <2>3. Nearest(Intersect(first(s), c), {first(s), c})
    BY <2>1, <2>2, IntersectIs
  <2> QED
    BY <1>6, <2>1, <2>3, NearestJoins
<1>7. \E f : solves(f)
  <2> DEFINE f == [s \in SUBSET V |-> near(s)]
  <2>1. ASSUME NEW s \in SUBSET V
        PROVE  f[s] = IF s = {} THEN base ELSE Intersect(first(s), f[s \ {first(s)}])
    <3>1. CASE s = {}
      BY <1>3, <1>4, <3>1, NearestIsOne
    <3>2. CASE s # {}
      <4>1. s \ {first(s)} \in SUBSET V
        OBVIOUS
      <4>2. Nearest(Intersect(first(s), near(s \ {first(s)})), s \cup {base})
        BY <1>3, <1>6, <3>2, <4>1
      <4>3. near(s) = Intersect(first(s), near(s \ {first(s)}))
        BY <1>3, <4>2, NearestIsOne
      <4> HIDE DEF near
      <4> QED
        BY <3>2, <4>1, <4>3
    <3> QED
      BY <3>1, <3>2
  <2>2. f = [s \in SUBSET V |-> f[s]]
    <3> HIDE DEF near
    <3> QED
      OBVIOUS
  <2> HIDE DEF f
  <2>3. solves(f)
    BY <2>1, <2>2
  <2> HIDE DEF solves
  <2> QED
    BY <2>3
<1>8. solves(iter)
  <2> HIDE DEF solves
  <2> QED
    BY <1>7
<1> HIDE DEF iter, near
<1>9. \A s \in SUBSET V : iter[s] = IF s = {} THEN base ELSE Intersect(first(s), iter[s \ {first(s)}])
  BY <1>8
<1> HIDE DEF solves
<1> DEFINE bad(s) == ~Nearest(iter[s], s \cup {base})
           S == {Cardinality(s) : s \in {t \in SUBSET V : bad(t)}}
<1>10. \A s \in SUBSET V : /\ IsFiniteSet(s) /\ Cardinality(s) \in Nat
                           /\ \A x \in s : Cardinality(s \ {x}) < Cardinality(s)
  <2> SUFFICES ASSUME NEW s \in SUBSET V
               PROVE  /\ IsFiniteSet(s) /\ Cardinality(s) \in Nat
                      /\ \A x \in s : Cardinality(s \ {x}) < Cardinality(s)
    OBVIOUS
  <2>1. s \subseteq Node
    BY <1>2 DEF FlowOK
  <2>2. IsFiniteSet(s)
    BY <2>1, NodeAssumption, FS_Subset
  <2>3. Cardinality(s) \in Nat
    BY <2>2, FS_CardinalityType
  <2>4. \A x \in s : Cardinality(s \ {x}) = Cardinality(s) - 1
    BY <2>2, FS_RemoveElement
  <2> QED
    BY <2>2, <2>3, <2>4
<1>11. S = {}
  <2> SUFFICES ASSUME S # {} PROVE FALSE
    OBVIOUS
  <2>1. S \subseteq Nat
    BY <1>10
  <2>2. PICK m \in S : \A k \in S : m <= k
    <3> HIDE DEF S
    <3> QED
      BY <2>1, LeastNumber
  <2>3. PICK s \in SUBSET V : bad(s) /\ m = Cardinality(s)
    BY <2>2
  <2>4. \A t \in SUBSET V : bad(t) => Cardinality(s) <= Cardinality(t)
    BY <2>2, <2>3
  <2> HIDE DEF S
  <2>5. CASE s = {}
    BY <1>4, <1>9, <2>3, <2>5
  <2>6. CASE s # {}
    <3>1. s \ {first(s)} \in SUBSET V /\ first(s) \in s
      BY <1>5, <2>6
    <3>2. ~bad(s \ {first(s)})
      <4>1. /\ Cardinality(s \ {first(s)}) < Cardinality(s)
            /\ Cardinality(s \ {first(s)}) \in Nat /\ Cardinality(s) \in Nat
        BY <1>10, <3>1
      <4> HIDE DEF bad
      <4> QED
        BY <2>4, <3>1, <4>1
    <3>3. Nearest(Intersect(first(s), iter[s \ {first(s)}]), s \cup {base})
      BY <1>6, <2>6, <3>2
    <3>4. iter[s] = Intersect(first(s), iter[s \ {first(s)}])
      BY <1>9, <2>6
    <3> QED
      BY <2>3, <3>3, <3>4
  <2> QED
    BY <2>5, <2>6
<1>12. ~bad(V)
  <2>1. V \in SUBSET V
    OBVIOUS
  <2> HIDE DEF bad
  <2> QED
    BY <1>11, <2>1
<1> QED
  BY <1>1, <1>12

\* What a sweep finds for a block is its immediate dominator, as soon as all
\* that leads to the block, the sources of back edges aside, has one.
LEMMA NewIdomIs ==
    ASSUME FlowOK, Climbable, NEW u \in nodes \ {Entry},
           \A p \in Preds[u] : Dominates(graph, u, p) \/ p \in DOMAIN found.idom
    PROVE  Immediate(NewIdom(u), u)
<1> DEFINE K == Known(u)
           base == CHOOSE v \in K : TRUE
<1>1. K \in SUBSET Preds[u] /\ K \in SUBSET DOMAIN found.idom
      /\ \A p \in Preds[u] : Dominates(graph, u, p) \/ p \in K
  BY DEF Known
<1>2. K # {}
  BY <1>1, AheadPred
<1>3. base \in K /\ K \cup {base} = K
  BY <1>2
<1>4. NewIdom(u) = FoldSet(Intersect, base, K)
  BY DEF NewIdom
<1> HIDE DEF K, base
<1>5. Nearest(NewIdom(u), K)
  BY <1>1, <1>3, <1>4, FoldIs
<1>6. \A d : StrictlyDominates(d, u) <=> \A p \in K : Dominates(graph, d, p)
  BY <1>1, ThroughPreds
<1> QED
  BY <1>5, <1>6 DEF Nearest, Immediate

-----------------------------------------------------------------------------
(* The dominance frontier.                                                 *)

IdomsFound ==
    \A n \in nodes : /\ n = Entry => found.idom[n] = Entry
                     /\ n # Entry => Immediate(found.idom[n], n)

\* What lies between a block and one of its dominators.
LEMMA ClimbIs ==
    ASSUME FlowOK, Topological, IdomsFound, NEW v \in nodes, NEW top, Dominates(graph, top, v)
    PROVE  Climb(v, top) = {y \in nodes : Dominates(graph, y, v) /\ StrictlyDominates(top, y)}
<1> DEFINE idom(x) == found.idom[x]
           solves(f) == f = [x \in nodes |-> IF x = top THEN {} ELSE {x} \cup f[idom(x)]]
           up == CHOOSE f : solves(f)
           all(x) == {y \in nodes : Dominates(graph, y, x)}
           short(x) == {y \in nodes : Dominates(graph, y, x) /\ StrictlyDominates(top, y)}
<1>1. Climb(v, top) = up[v]
  BY DEF Climb
<1>2. graph \in [Node -> SUBSET Node] /\ Entry \in nodes
  BY DEF FlowOK
<1>3. \A x \in nodes : idom(x) \in nodes
  BY DEF IdomsFound, Immediate
<1>4. \A x \in nodes \ {Entry} : \A d : Dominates(graph, d, x) <=> d = x \/ Dominates(graph, d, idom(x))
  BY ImmediateHas DEF IdomsFound
<1>5. \A x \in nodes \ {Entry} : idom(x) # x /\ Dominates(graph, idom(x), x)
  BY DEF IdomsFound, Immediate, StrictlyDominates
<1>6. \A d : Dominates(graph, d, Entry) <=> d = Entry
  BY <1>2, EntryIsDominated
<1>7. \A x : Dominates(graph, x, x)
  BY <1>2, DominatesItself
<1>8. \A x \in nodes : Dominates(graph, top, x) => top \in nodes
  BY DominatorIsLive
<1>9. idom(Entry) = Entry
  BY <1>2 DEF IdomsFound
<1> HIDE DEF idom
<1>10. ASSUME NEW x \in nodes, x # top, Dominates(graph, top, x)
       PROVE  Dominates(graph, top, idom(x)) /\ short(x) = {x} \cup short(idom(x))
  <2>1. x # Entry
    BY <1>6, <1>10
  <2>2. Dominates(graph, top, idom(x))
    BY <1>4, <1>10, <2>1
  <2>3. StrictlyDominates(top, x)
    BY <1>10 DEF StrictlyDominates
  <2>4. \A y : y \in short(x) <=> y = x \/ y \in short(idom(x))
    BY <1>4, <2>1, <2>3
  <2> HIDE DEF short
  <2> QED
    BY <2>2, <2>4
<1>11. Dominates(graph, top, top) /\ short(top) = {}
  <2> SUFFICES ASSUME NEW y \in short(top) PROVE FALSE
    BY <1>7
  <2>1. y \in nodes /\ Dominates(graph, y, top) /\ Dominates(graph, top, y) /\ top # y
    BY DEF StrictlyDominates
  <2>2. top \in nodes
    BY <1>8, <2>1
  <2> QED
    BY <2>1, <2>2, DominatorsDiffer
<1>12. ASSUME NEW x \in nodes, ~Dominates(graph, top, x)
       PROVE  x # top /\ ~Dominates(graph, top, idom(x)) /\ all(x) = {x} \cup all(idom(x))
  <2>1. x # top
    BY <1>7, <1>12
  <2>2. CASE x = Entry
    BY <1>2, <1>6, <1>9, <1>12, <2>1, <2>2
  <2>3. CASE x # Entry
    <3>1. \A d : Dominates(graph, d, x) <=> d = x \/ Dominates(graph, d, idom(x))
      BY <1>4, <2>3
    <3>2. \A y : y \in all(x) <=> y = x \/ y \in all(idom(x))
      BY <3>1
    <3> HIDE DEF all
    <3> QED
      BY <1>12, <2>1, <3>1, <3>2
  <2> QED
    BY <2>2, <2>3
<1>13. \E f : solves(f)
  <2> DEFINE f == [x \in nodes |-> IF Dominates(graph, top, x) THEN short(x) ELSE all(x)]
  <2> HIDE DEF short, all
  <2>1. ASSUME NEW x \in nodes PROVE f[x] = IF x = top THEN {} ELSE {x} \cup f[idom(x)]
    <3>1. CASE x = top
      BY <1>11, <3>1
    <3>2. CASE x # top /\ Dominates(graph, top, x)
      BY <1>3, <1>10, <3>2
    <3>3. CASE ~Dominates(graph, top, x)
      BY <1>3, <1>12, <3>3
    <3> QED
      BY <3>1, <3>2, <3>3
  <2>2. f = [x \in nodes |-> f[x]]
    OBVIOUS
  <2> HIDE DEF f
  <2>3. solves(f)
    BY <2>1, <2>2
  <2> HIDE DEF solves
  <2> QED
    BY <2>3
<1>14. solves(up)
  <2> HIDE DEF solves
  <2> QED
    BY <1>13
<1> HIDE DEF up, all, short
<1>15. \A x \in nodes : up[x] = IF x = top THEN {} ELSE {x} \cup up[idom(x)]
  BY <1>14
<1> HIDE DEF solves
<1> DEFINE T == {x \in nodes : Dominates(graph, top, x) /\ up[x] # short(x)}
<1>16. T = {}
  <2> SUFFICES ASSUME T # {} PROVE FALSE
    OBVIOUS
  <2>1. PICK x \in T : \A y \in T : Dominates(graph, y, x) => y = x
    <3>1. T \in SUBSET nodes
      OBVIOUS
    <3> HIDE DEF T
    <3> QED
      BY <3>1, OutermostExists
  <2>2. x \in nodes /\ Dominates(graph, top, x) /\ up[x] # short(x)
    OBVIOUS
  <2>3. x # top
    BY <1>11, <1>15, <2>2
  <2>4. Dominates(graph, top, idom(x)) /\ short(x) = {x} \cup short(idom(x)) /\ x # Entry
    BY <1>6, <1>10, <2>2, <2>3
  <2>5. idom(x) \notin T
    BY <1>5, <2>1, <2>2, <2>4
  <2>6. up[idom(x)] = short(idom(x))
    BY <1>3, <2>2, <2>4, <2>5
  <2> QED
    BY <1>15, <2>2, <2>3, <2>4, <2>6
<1>17. up[v] = short(v)
  BY <1>16
<1> QED
  BY <1>1, <1>17 DEF short

\* The frontier of a block is where its dominance ends.
LEMMA FrontierIs ==
    ASSUME FlowOK, Topological, IdomsFound, NEW n \in nodes
    PROVE  Frontier(n) \ {Entry} =
              {u \in nodes \ {Entry} :
                  (\E p \in Preds[u] : Dominates(graph, n, p)) /\ ~StrictlyDominates(n, u)}
<1>1. ASSUME NEW u \in nodes \ {Entry}, NEW p \in Preds[u]
      PROVE  n \in Climb(p, found.idom[u]) <=> Dominates(graph, n, p) /\ ~StrictlyDominates(n, u)
  <2> DEFINE top == found.idom[u]
  <2>1. Immediate(top, u) /\ p \in nodes
    BY HasPred DEF IdomsFound
  <2> HIDE DEF top
  <2>2. /\ top \in nodes /\ top # u /\ Dominates(graph, top, u)
        /\ \A d \in nodes : StrictlyDominates(d, u) => Dominates(graph, d, top)
    BY <2>1 DEF Immediate, StrictlyDominates
  <2>3. Dominates(graph, top, p)
    BY <2>2, DominatesStep
  <2>4. n \in Climb(p, top) <=> Dominates(graph, n, p) /\ StrictlyDominates(top, n)
    BY <2>1, <2>3, ClimbIs
  <2>5. ASSUME StrictlyDominates(top, n), StrictlyDominates(n, u) PROVE FALSE
    BY <2>2, <2>5, DominatorsDiffer DEF StrictlyDominates
  <2>6. ASSUME Dominates(graph, n, p), ~StrictlyDominates(n, u) PROVE StrictlyDominates(top, n)
    <3>1. Dominates(graph, n, top) \/ Dominates(graph, top, n)
      BY <2>1, <2>3, <2>6, DominatorsInLine
    <3>2. ~Dominates(graph, n, top)
      <4> SUFFICES ASSUME Dominates(graph, n, top) PROVE FALSE
        OBVIOUS
      <4>1. Dominates(graph, n, u)
        BY <2>2, DominatesThrough
      <4>2. n # u
        BY <2>2, DominatorsDiffer
      <4> QED
        BY <2>6, <4>1, <4>2 DEF StrictlyDominates
    <3>3. Dominates(graph, n, n)
      BY DominatesItself DEF FlowOK
    <3> QED
      BY <3>1, <3>2, <3>3 DEF StrictlyDominates
  <2> QED
    BY <2>4, <2>5, <2>6 DEF top
<1>2. ASSUME NEW u \in nodes \ {Entry}, NEW p \in Preds[u],
             Dominates(graph, n, p), ~StrictlyDominates(n, u)
      PROVE  Cardinality(Preds[u]) >= 2
  <2>1. Preds[u] \subseteq nodes /\ nodes \subseteq Node
    BY HasPred DEF FlowOK
  <2>2. IsFiniteSet(Preds[u])
    BY <2>1, NodeAssumption, FS_Subset
  <2>3. PICK q \in Preds[u] : q # p
    <3> SUFFICES ASSUME Preds[u] = {p} PROVE FALSE
      OBVIOUS
    <3>1. Dominates(graph, n, u)
      BY <1>2, DominatesStep
    <3>2. n = u
      BY <1>2, <3>1 DEF StrictlyDominates
    <3> QED
      BY <1>2, <3>2, AheadPred
  <2>4. {p, q} \subseteq Preds[u] /\ IsFiniteSet({p, q}) /\ Cardinality({p, q}) = 2
    <3>1. IsFiniteSet({p}) /\ Cardinality({p}) = 1
      BY FS_Singleton
    <3>2. {p, q} = {p} \cup {q} /\ q \notin {p}
      BY <2>3
    <3>3. IsFiniteSet({p} \cup {q}) /\ Cardinality({p} \cup {q}) = 1 + 1
      BY <3>1, <3>2, FS_AddElement
    <3> QED
      BY <3>2, <3>3
  <2> QED
    BY <2>2, <2>4, FS_Subset, FS_CardinalityType
<1>3. \A u \in nodes \ {Entry} : u \in Frontier(n) <=>
         (\E p \in Preds[u] : Dominates(graph, n, p)) /\ ~StrictlyDominates(n, u)
  BY <1>1, <1>2 DEF Frontier
<1> QED
  BY <1>3 DEF Frontier

-----------------------------------------------------------------------------
(* CFGraph from its dead blocks to its post-dominators.                    *)

Walking ==
    \E p, l, c, B :
        /\ work = [path |-> p, left |-> l, checked |-> c] /\ found.back = B
        /\ Walk(p, l, c, B)

Sorting ==
    \E st, seen, o :
        /\ work = [stack |-> st, seen |-> seen] /\ found.post = o
        /\ Ordering(st, seen, o)

\* A sweep goes through the post-order from its end; it has been through what
\* lies behind the rest.
Sweeping ==
    /\ Climbable
    /\ work.rest \in Seq(nodes) /\ Len(work.rest) < Len(found.post)
    /\ \A k \in 1 .. Len(work.rest) : work.rest[k] = found.post[Len(work.rest) + 1 - k]
    /\ \A j \in Len(work.rest) + 1 .. Len(found.post) : found.post[j] \in DOMAIN found.idom

Linked ==
    /\ work.entries = ExitPoints \cup {Exit}
    /\ work.succs = LinkedSuccs /\ work.preds = Mirror(LinkedSuccs)

CFInv ==
    /\ stage \in {"dead", "back", "post", "idom", "doms", "pdoms", "done"}
    /\ found = [back |-> found.back, post |-> found.post, idom |-> found.idom,
                doms |-> found.doms, pdoms |-> found.pdoms]
    /\ stage = "dead" => /\ graph \in [Node -> SUBSET Node] /\ Reducible(graph)
                         /\ found.back = {} /\ found.post = <<>>
    /\ stage # "dead" => FlowOK /\ Acyclic(graph)
    /\ stage = "back" => Walking /\ found.post = <<>>
    /\ stage \notin {"dead", "back"} => found.back = BackEdges
    /\ stage = "post" => Sorting
    /\ stage = "idom" => Sweeping
    /\ stage \in {"doms", "pdoms", "done"} => Topological /\ IdomsFound
    /\ stage = "doms" => DomInv(nodes, {Entry}, Preds, graph, doms, todo)
    /\ stage = "pdoms" => Linked /\ DomInv(nodes, work.entries, work.succs, work.preds, doms, todo)
    /\ stage \in {"pdoms", "done"} => found.doms = Dominance
    /\ stage = "done" => found.pdoms = PostDominators

LEMMA CFStarts == Init => CFInv
<1> SUFFICES ASSUME Init PROVE CFInv
  OBVIOUS
<1>1. graph \in [Node -> SUBSET Node] /\ Reducible(graph)
  BY DEF Init
<1>2. /\ stage = "dead"
      /\ found = [back |-> {}, post |-> <<>>, idom |-> Nothing, doms |-> Nothing, pdoms |-> Nothing]
  BY DEF Init
<1> QED
  BY <1>1, <1>2 DEF CFInv

\* While the graph stays as it is, so does what is said of it.
LEMMA GraphStays ==
    ASSUME nodes' = nodes, graph' = graph
    PROVE  /\ FlowOK' <=> FlowOK
           /\ Acyclic(graph)' <=> Acyclic(graph)
           /\ \A p, l, c, B : Walk(p, l, c, B)' <=> Walk(p, l, c, B)
           /\ \A st, seen, o : Ordering(st, seen, o)' <=> Ordering(st, seen, o)
           /\ \A o : Listed(o)' <=> Listed(o)
           /\ BackEdges' = BackEdges /\ Edges' = Edges /\ Preds' = Preds /\ Dominance' = Dominance
           /\ \A d, n : Dominates(graph, d, n)' <=> Dominates(graph, d, n)
           /\ \A i, n : Immediate(i, n)' <=> Immediate(i, n)
           /\ (Topological' <=> Topological) /\ PostDominators' = PostDominators
<1>1. FlowOK' <=> FlowOK
  BY DEF FlowOK
<1>2. Acyclic(graph)' <=> Acyclic(graph)
  BY DEF Acyclic, NonBack, Dominates
<1>3. BackEdges' = BackEdges /\ Edges' = Edges /\ Preds' = Preds /\ Dominance' = Dominance
  BY DEF BackEdges, Edges, Preds, Dominance, Dominates
<1>4. \A p, l, c, B : Walk(p, l, c, B)' <=> Walk(p, l, c, B)
  BY DEF Walk, Chain, Dominates
<1>5. \A o : Listed(o)' <=> Listed(o)
  BY DEF Listed, NonBack, Dominates
<1>6. \A st, o : Stacked(st, o)' <=> Stacked(st, o)
  BY DEF Stacked, NonBack, Dominates
<1>7. \A st : Open(st)' = Open(st)
  BY DEF Open
<1>8. \A st, seen, o : Ordering(st, seen, o)' <=> Ordering(st, seen, o)
  BY <1>5, <1>6, <1>7 DEF Ordering
<1>9. \A d, n : Dominates(graph, d, n)' <=> Dominates(graph, d, n)
  BY DEF Dominates
<1>10. \A i, n : Immediate(i, n)' <=> Immediate(i, n)
  BY DEF Immediate, StrictlyDominates, Dominates
<1>11. Topological' <=> Topological
  BY <1>5 DEF Topological
<1>12. PostDominators' = PostDominators
  BY DEF PostDominators, PostDominates, Ends
<1> QED
  BY <1>1, <1>2, <1>3, <1>4, <1>5, <1>8, <1>9, <1>10, <1>11, <1>12

\* And while the back edges do, what is said of the linked graph.
LEMMA TablesStay ==
    ASSUME nodes' = nodes, graph' = graph, found'.back = found.back
    PROVE  LinkedSuccs' = LinkedSuccs /\ ExitPoints' = ExitPoints
<1>1. Preds' = Preds
  BY DEF Preds
<1>2. \A h : Body(h)' = Body(h)
  BY <1>1 DEF Body, Latches
<1>3. Headers' = Headers /\ \A h : LoopExits(h)' = LoopExits(h)
  BY <1>2 DEF Headers, LoopExits, Leads
<1>4. ExitPoints' = ExitPoints
  BY DEF ExitPoints
<1>5. LinkedSuccs' = LinkedSuccs
  BY <1>2, <1>3 DEF LinkedSuccs
<1> QED
  BY <1>4, <1>5

LEMMA WalkStarts == FlowOK => Walk(<<Entry>>, [n \in {Entry} |-> graph[n]], {}, {})
<1> SUFFICES ASSUME FlowOK PROVE Walk(<<Entry>>, [n \in {Entry} |-> graph[n]], {}, {})
  OBVIOUS
<1> DEFINE p == <<Entry>>
           l == [n \in {Entry} |-> graph[n]]
<1>1. /\ p \in Seq(nodes) /\ Len(p) = 1 /\ p[1] = Entry
      /\ \A i \in 1 .. Len(p) : i = 1
      /\ Range(p) = {Entry}
  BY OneFacts DEF FlowOK
<1> HIDE DEF p
<1>2. Chain(p)
  <2>1. \A i \in 1 .. Len(p) - 1 : FALSE
    BY <1>1
  <2> QED
    BY <1>1, <2>1 DEF Chain
<1>3. /\ {} \cup Range(p) = {Entry} /\ {} \cap Range(p) = {}
      /\ l = [n \in {Entry} |-> l[n]] /\ l[Entry] = graph[Entry]
  BY <1>1
<1> HIDE DEF l
<1>4. Walk(p, l, {}, {})
  BY <1>2, <1>3 DEF Walk
<1> QED
  BY <1>4 DEF p, l

LEMMA WalkStartsNext == (FlowOK => Walk(<<Entry>>, [n \in {Entry} |-> graph[n]], {}, {}))'
BY WalkStarts, PTL

LEMMA DeadSteps == ASSUME CFInv, EliminateDeadBlocks PROVE CFInv'
<1>1. /\ graph \in [Node -> SUBSET Node] /\ Reducible(graph)
      /\ found.back = {} /\ found.post = <<>>
  BY DEF CFInv, EliminateDeadBlocks
<1>2. /\ nodes' = Reachable(graph, {Entry}, {}) /\ graph' = Kept(graph)
      /\ stage' = "back" /\ found' = found
      /\ work' = [path |-> <<Entry>>, left |-> [n \in {Entry} |-> Kept(graph)[n]], checked |-> {}]
  BY DEF EliminateDeadBlocks, Kept
<1>3. FlowOK'
  <2>1. {Entry} \in SUBSET Node
    BY NodeAssumption
  <2>2. /\ nodes' \subseteq Node /\ {Entry} \subseteq nodes'
        /\ \A n \in nodes' : graph[n] \subseteq nodes'
    BY <1>1, <1>2, <2>1, Everything
  <2>3. /\ graph' \in [Node -> SUBSET Node] /\ nodes' = Reachable(graph', {Entry}, {})
    BY <1>1, <1>2, KeptReaches
  <2>4. \A n \in Node : graph'[n] = IF n \in nodes' THEN graph[n] ELSE {}
    BY <1>2 DEF Kept
  <2> QED
    BY <2>2, <2>3, <2>4 DEF FlowOK
<1>4. Acyclic(graph)'
  <2>1. Acyclic(Kept(graph))
    BY <1>1, KeptIsAcyclic
  <2>2. Acyclic(graph')
    BY <1>2, <2>1
  <2> QED
    BY <2>2 DEF Acyclic, NonBack, Dominates
<1>5. Walking'
  <2>1. Walk(<<Entry>>, [n \in {Entry} |-> graph[n]], {}, {})'
    BY <1>3, WalkStartsNext
  <2>2. work' = [path |-> <<Entry>>, left |-> [n \in {Entry} |-> graph'[n]], checked |-> {}]
    BY <1>2
  <2>3. found'.back = {}
    BY <1>1, <1>2
  <2> QED
    BY <2>1, <2>2, <2>3 DEF Walking
<1> QED
  BY <1>1, <1>2, <1>3, <1>4, <1>5 DEF CFInv

LEMMA BackSteps == ASSUME CFInv, BackEdgeNext \/ BackEdgePop PROVE CFInv'
<1>1. /\ stage = "back" /\ FlowOK /\ Acyclic(graph) /\ found.post = <<>>
      /\ found = [back |-> found.back, post |-> found.post, idom |-> found.idom,
                  doms |-> found.doms, pdoms |-> found.pdoms]
  BY DEF CFInv, BackEdgeNext, BackEdgePop
<1>2. PICK p, l, c, B : /\ work = [path |-> p, left |-> l, checked |-> c]
                        /\ found.back = B /\ Walk(p, l, c, B)
  BY <1>1 DEF CFInv, Walking
<1>3. work.path = p /\ work.left = l /\ work.checked = c
  BY <1>2
<1>4. graph' = graph /\ nodes' = nodes
  BY DEF BackEdgeNext, BackEdgePop
<1>5. FlowOK' /\ Acyclic(graph)'
  BY <1>1, <1>4, GraphStays
<1>6. ASSUME NEW q, NEW h, NEW k, NEW C, stage' = "back",
             work' = [path |-> q, left |-> h, checked |-> k], Walk(q, h, k, C), found'.back = C,
             found'.post = <<>>,
             found' = [back |-> found'.back, post |-> found'.post, idom |-> found'.idom,
                       doms |-> found'.doms, pdoms |-> found'.pdoms]
      PROVE  CFInv'
  <2>1. Walk(q, h, k, C)'
    BY <1>4, <1>6, GraphStays
  <2>2. Walking'
    BY <1>6, <2>1 DEF Walking
  <2> QED
    BY <1>5, <1>6, <2>2 DEF CFInv
<1>7. CASE BackEdgeNext
  <2>1. PICK d \in l[Last(p)] :
          \/ /\ d \in Range(p)
             /\ found' = [found EXCEPT !.back = found.back \cup {<<Last(p), d>>}]
             /\ work' = [work EXCEPT !.left[Last(p)] = @ \ {d}]
          \/ /\ d \notin Range(p) /\ d \in c
             /\ found' = found
             /\ work' = [work EXCEPT !.left[Last(p)] = @ \ {d}]
          \/ /\ d \notin Range(p) /\ d \notin c
             /\ found' = found
             /\ work' = [path |-> Append(p, d),
                         left |-> With([work EXCEPT !.left[Last(p)] = @ \ {d}].left, d, graph[d]),
                         checked |-> c]
    BY <1>3, <1>7 DEF BackEdgeNext, OnPath
  <2>2. [work EXCEPT !.left[Last(p)] = @ \ {d}] =
          [path |-> p, left |-> [l EXCEPT ![Last(p)] = @ \ {d}], checked |-> c]
    BY <1>2
  <2>3. [work EXCEPT !.left[Last(p)] = @ \ {d}].left = [l EXCEPT ![Last(p)] = @ \ {d}]
    BY <2>2
  <2>4. stage' = "back"
    BY <1>1, <1>7 DEF BackEdgeNext
  <2>5. CASE /\ d \in Range(p)
             /\ found' = [found EXCEPT !.back = found.back \cup {<<Last(p), d>>}]
             /\ work' = [work EXCEPT !.left[Last(p)] = @ \ {d}]
    <3>1. Walk(p, [l EXCEPT ![Last(p)] = @ \ {d}], c, B \cup {<<Last(p), d>>})
      BY <1>1, <1>2, <2>5, WalkFollows
    <3>2. /\ found' = [back |-> found.back \cup {<<Last(p), d>>}, post |-> found.post,
                       idom |-> found.idom, doms |-> found.doms, pdoms |-> found.pdoms]
      BY <1>1, <2>5
    <3>3. /\ found'.back = B \cup {<<Last(p), d>>} /\ found'.post = found.post
          /\ found'.idom = found.idom /\ found'.doms = found.doms /\ found'.pdoms = found.pdoms
      BY <1>2, <3>2
    <3> QED
      BY <1>1, <1>6, <2>2, <2>4, <2>5, <3>1, <3>2, <3>3
  <2>6. CASE /\ d \notin Range(p) /\ d \in c /\ found' = found
             /\ work' = [work EXCEPT !.left[Last(p)] = @ \ {d}]
    <3>1. Walk(p, [l EXCEPT ![Last(p)] = @ \ {d}], c, B)
      BY <1>1, <1>2, <2>6, WalkFollows
    <3> QED
      BY <1>1, <1>6, <2>2, <1>2, <2>4, <2>6, <3>1
  <2>7. CASE /\ d \notin Range(p) /\ d \notin c /\ found' = found
             /\ work' = [path |-> Append(p, d),
                         left |-> With([work EXCEPT !.left[Last(p)] = @ \ {d}].left, d, graph[d]),
                         checked |-> c]
    <3>1. Walk(Append(p, d), With([l EXCEPT ![Last(p)] = @ \ {d}], d, graph[d]), c, B)
      BY <1>1, <1>2, <2>7, WalkEnters
    <3>2. work' = [path |-> Append(p, d),
                   left |-> With([l EXCEPT ![Last(p)] = @ \ {d}], d, graph[d]), checked |-> c]
      BY <2>3, <2>7
    <3> QED
      BY <1>1, <1>6, <1>2, <2>4, <2>7, <3>1, <3>2
  <2> QED
    BY <2>1, <2>5, <2>6, <2>7
<1>8. CASE BackEdgePop
  <2>1. l[Last(p)] = {} /\ found' = found
    BY <1>3, <1>8 DEF BackEdgePop
  <2>2. CASE Front(p) # <<>>
    <3>1. /\ stage' = "back"
          /\ work' = [path |-> Front(p), left |-> l, checked |-> c \cup {Last(p)}]
      BY <1>1, <1>3, <1>8, <2>2 DEF BackEdgePop
    <3>2. Walk(Front(p), l, c \cup {Last(p)}, B)
      BY <1>1, <1>2, <2>1, <2>2, WalkLeaves
    <3> QED
      BY <1>1, <1>2, <1>6, <2>1, <3>1, <3>2
  <2>3. CASE Front(p) = <<>>
    <3>1. /\ stage' = "post"
          /\ work' = [stack |-> <<<<"visit", Entry>>>>, seen |-> {}]
      BY <1>3, <1>8, <2>3 DEF BackEdgePop
    <3>2. found'.back = BackEdges'
      <4>1. found.back = BackEdges
        BY <1>1, <1>2, <2>1, <2>3, WalkEnds DEF BackEdges
      <4> QED
        BY <1>4, <2>1, <4>1, GraphStays
    <3>3. Sorting'
      <4>1. Ordering(<<<<"visit", Entry>>>>, {}, <<>>)'
        BY <1>1, <1>4, OrderingStarts, GraphStays
      <4> QED
        BY <1>1, <2>1, <3>1, <4>1 DEF Sorting
    <3> QED
      BY <1>1, <1>5, <2>1, <3>1, <3>2, <3>3 DEF CFInv
  <2> QED
    BY <2>2, <2>3
<1> QED
  BY <1>7, <1>8

\* Every sweep is to go through all blocks but the entry.
LEMMA SweepIs ==
    ASSUME FlowOK, Listed(found.post), Range(found.post) = nodes
    PROVE  /\ Sweep \in Seq(nodes) /\ Len(found.post) \in Nat \ {0}
           /\ Len(Sweep) = Len(found.post) - 1
           /\ \A k \in 1 .. Len(Sweep) : Sweep[k] = found.post[Len(Sweep) + 1 - k]
           /\ found.post[Len(found.post)] = Entry
<1> DEFINE o == found.post
           N == Len(o)
           b == Reverse(o)
<1>1. o \in Seq(nodes) /\ N \in Nat /\ DOMAIN o = 1 .. N /\ \A i \in 1 .. N : o[i] \in nodes
  <2>1. o \in Seq(nodes)
    BY DEF Listed
  <2> QED
    BY <2>1
<1>2. PICK e \in 1 .. N : o[e] = Entry
  <2>1. Entry \in Range(o)
    BY DEF FlowOK
  <2> QED
    BY <1>1, <2>1 DEF Range
<1>3. N \in Nat \ {0} /\ N \in 1 .. N
  <2> HIDE DEF N
  <2> QED
    BY <1>1, <1>2
<1>4. e = N
  <2>1. Dominates(graph, Entry, o[N])
    BY <1>1, <1>3, DominatorIsLive
  <2>2. e # N => N < e
    BY <1>2, <1>3, <2>1, DominatorLater
  <2> HIDE DEF N
  <2> QED
    BY <1>1, <1>2, <2>2
<1>5. b \in Seq(nodes) /\ Len(b) = N /\ \A i \in 1 .. N : b[i] = o[(N - i) + 1]
  <2>1. b = [i \in 1 .. N |-> o[(N - i) + 1]]
    BY DEF Reverse
  <2>2. \A i \in 1 .. N : (N - i) + 1 \in 1 .. N
    <3> HIDE DEF N
    <3> QED
      BY <1>1
  <2> HIDE DEF b, N, o
  <2> QED
    BY <1>1, <2>1, <2>2
<1> HIDE DEF b
<1>6. /\ Tail(b) \in Seq(nodes) /\ Len(Tail(b)) = N - 1
      /\ \A k \in 1 .. N - 1 : Tail(b)[k] = b[k + 1]
  <2>1. b # <<>>
    BY <1>3, <1>5
  <2> QED
    BY <1>5, <2>1, HeadTailProperties
<1>7. \A k \in 1 .. N - 1 : Tail(b)[k] = o[(N - 1) + 1 - k]
  <2> SUFFICES ASSUME NEW k \in 1 .. N - 1 PROVE Tail(b)[k] = o[(N - 1) + 1 - k]
    OBVIOUS
  <2>1. k + 1 \in 1 .. N /\ (N - (k + 1)) + 1 = (N - 1) + 1 - k
    <3> HIDE DEF N
    <3> QED
      BY <1>3
  <2> QED
    BY <1>5, <1>6, <2>1
<1>8. Sweep = Tail(b)
  BY DEF Sweep, b
<1> QED
  BY <1>2, <1>3, <1>4, <1>6, <1>7, <1>8

\* The dictionary of immediate dominators after a step.
LEMMA ClimbableNext ==
    ASSUME nodes' = nodes, graph' = graph,
           Listed(found'.post), Range(found'.post) = nodes, DOMAIN found'.idom \subseteq nodes,
           \A n \in DOMAIN found'.idom :
              /\ \A d \in nodes : Dominates(graph, d, n) => d \in DOMAIN found'.idom
              /\ n = Entry => found'.idom[n] = Entry
              /\ n # Entry => Immediate(found'.idom[n], n)
    PROVE  Climbable'
<1>1. /\ \A o : Listed(o)' <=> Listed(o)
      /\ \A d, n : Dominates(graph, d, n)' <=> Dominates(graph, d, n)
      /\ \A i, n : Immediate(i, n)' <=> Immediate(i, n)
  BY GraphStays
<1>2. Listed(found.post)'
  BY <1>1
<1>3. Range(found'.post) = nodes'
  OBVIOUS
<1>4. \A n \in DOMAIN found'.idom :
         /\ \A d \in nodes' : Dominates(graph, d, n)' => d \in DOMAIN found'.idom
         /\ n = Entry => found'.idom[n] = Entry
         /\ n # Entry => Immediate(found.idom[n], n)'
  BY <1>1
<1> QED
  BY <1>2, <1>3, <1>4 DEF Climbable

LEMMA PostSteps == ASSUME CFInv, PostOrder \/ PostOrderEnds PROVE CFInv'
<1>1. /\ stage = "post" /\ FlowOK /\ Acyclic(graph) /\ found.back = BackEdges
      /\ found = [back |-> found.back, post |-> found.post, idom |-> found.idom,
                  doms |-> found.doms, pdoms |-> found.pdoms]
  BY DEF CFInv, PostOrder, PostOrderEnds
<1>2. PICK st, seen, o : /\ work = [stack |-> st, seen |-> seen]
                         /\ found.post = o /\ Ordering(st, seen, o)
  BY <1>1 DEF CFInv, Sorting
<1>3. work.stack = st /\ work.seen = seen
  BY <1>2
<1>4. graph' = graph /\ nodes' = nodes
  BY DEF PostOrder, PostOrderEnds
<1>5. FlowOK' /\ Acyclic(graph)' /\ BackEdges' = BackEdges
  BY <1>1, <1>4, GraphStays
<1>6. ASSUME NEW q, NEW s, NEW t, stage' = "post",
             work' = [stack |-> q, seen |-> s], Ordering(q, s, t),
             found' = [back |-> found.back, post |-> t, idom |-> found.idom,
                       doms |-> found.doms, pdoms |-> found.pdoms]
      PROVE  CFInv'
  <2>1. Ordering(q, s, t)'
    BY <1>4, <1>6, GraphStays
  <2>2. /\ found'.back = found.back /\ found'.post = t /\ found'.idom = found.idom
        /\ found'.doms = found.doms /\ found'.pdoms = found.pdoms
    BY <1>6
  <2>3. Sorting'
    BY <1>6, <2>1, <2>2 DEF Sorting
  <2>4. found'.back = BackEdges'
    BY <1>1, <1>5, <2>2
  <2> QED
    BY <1>5, <1>6, <2>2, <2>3, <2>4 DEF CFInv
<1>7. CASE PostOrder
  <2> DEFINE n == Last(st)[2]
  <2>1. st # <<>> /\ stage' = "post"
    BY <1>1, <1>3, <1>7 DEF PostOrder
  <2>2. Last(st) = <<Last(st)[1], n>> /\ n \in nodes
    BY <1>2, <2>1, TopOf DEF Ordering
  <2>3. \/ /\ Last(st)[1] = "append"
           /\ found' = [found EXCEPT !.post = Append(@, n)]
           /\ work' = [work EXCEPT !.stack = Front(st)]
        \/ /\ Last(st)[1] = "visit" /\ n \in seen
           /\ found' = found
           /\ work' = [work EXCEPT !.stack = Front(st)]
        \/ /\ Last(st)[1] = "visit" /\ n \notin seen
           /\ found' = found
           /\ \E ms \in SetToSeqs({<<"visit", m>> : m \in Ahead(n)}) :
                 work' = [stack |-> Front(st) \o Follow(n, ms), seen |-> seen \cup {n}]
    BY <1>3, <1>7 DEF PostOrder
  <2>4. [work EXCEPT !.stack = Front(st)] = [stack |-> Front(st), seen |-> seen]
    BY <1>2
  <2> HIDE DEF n
  <2>5. CASE /\ Last(st)[1] = "append"
             /\ found' = [found EXCEPT !.post = Append(@, n)]
             /\ work' = [work EXCEPT !.stack = Front(st)]
    <3>1. Ordering(Front(st), seen, Append(o, n))
      BY <1>1, <1>2, <2>1, <2>2, <2>5, OrderingAppends
    <3>2. found' = [back |-> found.back, post |-> Append(o, n), idom |-> found.idom,
                    doms |-> found.doms, pdoms |-> found.pdoms]
      BY <1>1, <1>2, <2>5
    <3> QED
      BY <1>6, <2>1, <2>4, <2>5, <3>1, <3>2
  <2>6. CASE /\ Last(st)[1] = "visit" /\ n \in seen
             /\ found' = found
             /\ work' = [work EXCEPT !.stack = Front(st)]
    <3>1. Ordering(Front(st), seen, o)
      BY <1>1, <1>2, <2>1, <2>2, <2>6, OrderingSkips
    <3> QED
      BY <1>1, <1>2, <1>6, <2>1, <2>4, <2>6, <3>1
  <2>7. CASE /\ Last(st)[1] = "visit" /\ n \notin seen
             /\ found' = found
             /\ \E ms \in SetToSeqs({<<"visit", m>> : m \in Ahead(n)}) :
                   work' = [stack |-> Front(st) \o Follow(n, ms), seen |-> seen \cup {n}]
    <3>1. Ahead(n) = NonBack(graph)[n]
      <4>1. n \in Node /\ graph[n] \subseteq Node
        BY <1>1, <2>2 DEF FlowOK
      <4>2. \A m \in graph[n] : <<n, m>> \in BackEdges <=> Dominates(graph, m, n)
        BY <4>1 DEF BackEdges, Edges
      <4> QED
        BY <1>1, <4>1, <4>2 DEF Ahead, NonBack
    <3>2. PICK ms \in SetToSeqs({<<"visit", m>> : m \in NonBack(graph)[n]}) :
             work' = [stack |-> Front(st) \o Follow(n, ms), seen |-> seen \cup {n}]
      BY <2>7, <3>1
    <3>3. Ordering(Front(st) \o Follow(n, ms), seen \cup {n}, o)
      BY <1>1, <1>2, <2>1, <2>2, <2>7, OrderingOpens
    <3> QED
      BY <1>1, <1>2, <1>6, <2>1, <2>7, <3>2, <3>3
  <2> QED
    BY <2>3, <2>5, <2>6, <2>7
<1>8. CASE PostOrderEnds
  <2>1. st = <<>> /\ stage' = "idom"
        /\ found' = [found EXCEPT !.idom = [x \in {Entry} |-> Entry]]
    BY <1>3, <1>8 DEF PostOrderEnds
  <2>2. Listed(o) /\ Range(o) = nodes
    BY <1>1, <1>2, <2>1, OrderingEnds DEF Ordering
  <2>3. found' = [back |-> found.back, post |-> o, idom |-> [x \in {Entry} |-> Entry],
                  doms |-> found.doms, pdoms |-> found.pdoms]
    BY <1>1, <1>2, <2>1
  <2>4. /\ found'.back = found.back /\ found'.post = o
        /\ found' = [back |-> found'.back, post |-> found'.post, idom |-> found'.idom,
                     doms |-> found'.doms, pdoms |-> found'.pdoms]
    BY <2>3
  <2>5. Sweeping'
    <3>1. found'.post = o /\ found'.idom = [x \in {Entry} |-> Entry]
      BY <2>3
    <3>2. Climbable'
      <4>1. graph \in [Node -> SUBSET Node] /\ Entry \in nodes
        BY <1>1 DEF FlowOK
      <4>2. \A d : Dominates(graph, d, Entry) <=> d = Entry
        BY <4>1, EntryIsDominated
      <4> QED
        BY <1>4, <2>2, <3>1, <4>1, <4>2, ClimbableNext
    <3>3. work'.rest = Sweep
      BY <1>8 DEF PostOrderEnds
    <3>4. /\ Sweep \in Seq(nodes) /\ Len(o) \in Nat \ {0} /\ Len(Sweep) = Len(o) - 1
          /\ \A k \in 1 .. Len(Sweep) : Sweep[k] = o[Len(Sweep) + 1 - k]
          /\ o[Len(o)] = Entry
      BY <1>1, <1>2, <2>2, SweepIs
    <3>5. \A j \in Len(Sweep) + 1 .. Len(o) : o[j] \in DOMAIN found'.idom
      BY <3>1, <3>4
    <3>6. Len(Sweep) < Len(o)
      BY <3>4
    <3> QED
      BY <1>4, <3>1, <3>2, <3>3, <3>4, <3>5, <3>6 DEF Sweeping
  <2>6. found'.back = BackEdges'
    BY <1>1, <1>5, <2>4
  <2> QED
    BY <1>5, <2>1, <2>4, <2>5, <2>6 DEF CFInv
<1> QED
  BY <1>7, <1>8

\* A sweep gives one block more its immediate dominator.
LEMMA SweepGoesOn ==
    ASSUME FlowOK, Sweeping, SweepNext,
           found = [back |-> found.back, post |-> found.post, idom |-> found.idom,
                    doms |-> found.doms, pdoms |-> found.pdoms]
    PROVE  Sweeping'
<1> DEFINE o == found.post
           D == DOMAIN found.idom
           rest == work.rest
           r == Len(rest)
           u == Head(rest)
           new == NewIdom(u)
<1>1. graph' = graph /\ nodes' = nodes /\ rest # <<>> /\ work'.rest = Tail(rest)
      /\ found' = [found EXCEPT !.idom = With(@, u, new)]
  BY DEF SweepNext
<1>2. /\ Climbable /\ rest \in Seq(nodes) /\ r < Len(o)
      /\ \A k \in 1 .. r : rest[k] = o[r + 1 - k]
      /\ \A j \in r + 1 .. Len(o) : o[j] \in D
  BY DEF Sweeping
<1>3. /\ Listed(o) /\ Range(o) = nodes /\ D \subseteq nodes
      /\ \A n \in D : /\ \A d \in nodes : Dominates(graph, d, n) => d \in D
                      /\ n = Entry => found.idom[n] = Entry
                      /\ n # Entry => Immediate(found.idom[n], n)
  BY <1>2 DEF Climbable
<1>4. /\ o \in Seq(nodes) /\ Len(o) \in Nat
      /\ \A i, j \in 1 .. Len(o) : o[i] = o[j] => i = j
      /\ \A n \in nodes : \E i \in 1 .. Len(o) : o[i] = n
  <2>1. o \in Seq(nodes) /\ \A i, j \in 1 .. Len(o) : o[i] = o[j] => i = j
    BY <1>3 DEF Listed
  <2>2. Len(o) \in Nat /\ DOMAIN o = 1 .. Len(o)
    BY <2>1
  <2> QED
    BY <1>3, <2>1, <2>2 DEF Range
<1>5. /\ r \in Nat \ {0} /\ u = rest[1] /\ u \in nodes
      /\ Tail(rest) \in Seq(nodes) /\ Len(Tail(rest)) = r - 1
      /\ \A k \in 1 .. r - 1 : Tail(rest)[k] = rest[k + 1]
  <2>1. r \in Nat \ {0} /\ u = rest[1] /\ u \in nodes
    BY <1>1, <1>2
  <2>2. /\ Tail(rest) \in Seq(nodes) /\ Len(Tail(rest)) = r - 1
        /\ \A k \in 1 .. r - 1 : Tail(rest)[k] = rest[k + 1]
    BY <1>1, <1>2, HeadTailProperties
  <2> QED
    BY <2>1, <2>2
<1> HIDE DEF u, new, r, rest, D
<1>6. u = o[r] /\ r \in 1 .. Len(o)
  <2>1. r \in 1 .. Len(o) /\ 1 \in 1 .. r /\ r + 1 - 1 = r
    <3>1. r \in Nat \ {0} /\ Len(o) \in Nat /\ r < Len(o)
      BY <1>2, <1>4, <1>5
    <3> QED
      BY <3>1
  <2> QED
    BY <1>2, <1>5, <2>1
<1>7. u # Entry
  <2>1. o[Len(o)] = Entry /\ Len(o) \in 1 .. Len(o)
    BY <1>3, <1>4, <1>6, SweepIs
  <2>2. r # Len(o)
    BY <1>2, <1>5
  <2>3. o[r] # o[Len(o)]
    BY <1>4, <1>6, <2>1, <2>2
  <2> QED
    BY <1>6, <2>1, <2>3
<1>8. \A i \in 1 .. Len(o) : i > r => o[i] \in D
  BY <1>2, <1>4, <1>5
<1>9. ASSUME NEW p \in Preds[u] PROVE Dominates(graph, u, p) \/ p \in D
  <2> SUFFICES ASSUME ~Dominates(graph, u, p) PROVE p \in D
    OBVIOUS
  <2>1. p \in nodes /\ p \in Node /\ u \in graph[p]
    BY <1>5, <1>7, HasPred DEF Preds, FlowOK
  <2>2. u \in NonBack(graph)[p]
    BY <2>1 DEF NonBack
  <2>3. PICK i \in 1 .. Len(o) : o[i] = p
    BY <1>4, <2>1
  <2>4. PICK k \in 1 .. i - 1 : o[k] = u
    BY <1>3, <2>2, <2>3 DEF Listed
  <2>5. k = r /\ k < i
    <3>1. i \in 1 .. Len(o) /\ Len(o) \in Nat
      BY <1>4
    <3>2. k \in 1 .. Len(o) /\ k < i
      BY <3>1
    <3> QED
      BY <1>4, <1>6, <2>4, <3>2
  <2> QED
    BY <1>8, <2>3, <2>5
<1>10. Immediate(new, u)
  BY <1>2, <1>5, <1>7, <1>9, NewIdomIs DEF new, D
<1>11. ASSUME NEW d \in nodes, Dominates(graph, d, u), d # u PROVE d \in D
  <2>1. PICK i \in 1 .. Len(o) : o[i] = d
    BY <1>4
  <2>2. r < i
    BY <1>3, <1>6, <1>11, <2>1, DominatorLater
  <2> QED
    BY <1>4, <1>5, <1>8, <2>1, <2>2
<1>12. /\ found'.post = o /\ found'.idom = With(found.idom, u, new)
  <2>1. found' = [back |-> found.back, post |-> found.post, idom |-> With(found.idom, u, new),
                  doms |-> found.doms, pdoms |-> found.pdoms]
    BY <1>1
  <2> QED
    BY <2>1
<1>13. /\ DOMAIN found'.idom = D \cup {u}
       /\ \A n \in D \cup {u} : found'.idom[n] = IF n = u THEN new ELSE found.idom[n]
  BY <1>12 DEF With, D
<1>14. Climbable'
  <2>1. \A n \in D \cup {u} :
           /\ \A d \in nodes : Dominates(graph, d, n) => d \in D \cup {u}
           /\ n = Entry => found'.idom[n] = Entry
           /\ n # Entry => Immediate(found'.idom[n], n)
    <3> SUFFICES ASSUME NEW n \in D \cup {u}
                 PROVE  /\ \A d \in nodes : Dominates(graph, d, n) => d \in D \cup {u}
                        /\ n = Entry => found'.idom[n] = Entry
                        /\ n # Entry => Immediate(found'.idom[n], n)
      OBVIOUS
    <3>1. CASE n = u
      <4>1. \A d \in nodes : Dominates(graph, d, n) => d \in D \cup {u}
        BY <1>11, <3>1
      <4>2. found'.idom[n] = new
        BY <1>13, <3>1
      <4> QED
        BY <1>7, <1>10, <3>1, <4>1, <4>2
    <3>2. CASE n # u
      <4>1. n \in D /\ found'.idom[n] = found.idom[n]
        BY <1>13, <3>2
      <4> QED
        BY <1>3, <4>1
    <3> QED
      BY <3>1, <3>2
  <2> QED
    BY <1>1, <1>3, <1>5, <1>12, <1>13, <2>1, ClimbableNext
<1>15. \A k \in 1 .. r - 1 : Tail(rest)[k] = o[(r - 1) + 1 - k]
  <2> SUFFICES ASSUME NEW k \in 1 .. r - 1 PROVE Tail(rest)[k] = o[(r - 1) + 1 - k]
    OBVIOUS
  <2>1. k + 1 \in 1 .. r /\ r + 1 - (k + 1) = (r - 1) + 1 - k
    BY <1>5
  <2> QED
    BY <1>2, <1>5, <2>1
<1>16. \A j \in (r - 1) + 1 .. Len(o) : o[j] \in D \cup {u}
  <2> SUFFICES ASSUME NEW j \in (r - 1) + 1 .. Len(o) PROVE o[j] \in D \cup {u}
    OBVIOUS
  <2>1. j = r \/ (j \in 1 .. Len(o) /\ j > r)
    BY <1>5
  <2> QED
    BY <1>6, <1>8, <2>1
<1>17. r - 1 < Len(o)
  BY <1>2, <1>4, <1>5
<1> QED
  BY <1>1, <1>5, <1>12, <1>13, <1>14, <1>15, <1>16, <1>17 DEF Sweeping

LEMMA SweepSteps == ASSUME CFInv, SweepNext \/ SweepEnds PROVE CFInv'
<1>1. /\ stage = "idom" /\ FlowOK /\ Acyclic(graph) /\ found.back = BackEdges /\ Sweeping
      /\ found = [back |-> found.back, post |-> found.post, idom |-> found.idom,
                  doms |-> found.doms, pdoms |-> found.pdoms]
  BY DEF CFInv, SweepNext, SweepEnds
<1>2. graph' = graph /\ nodes' = nodes
  BY DEF SweepNext, SweepEnds
<1>3. FlowOK' /\ Acyclic(graph)' /\ BackEdges' = BackEdges
  BY <1>1, <1>2, GraphStays
<1>4. /\ Listed(found.post) /\ Range(found.post) = nodes /\ Topological
      /\ work.rest \in Seq(nodes) /\ Len(work.rest) < Len(found.post)
      /\ \A j \in Len(work.rest) + 1 .. Len(found.post) : found.post[j] \in DOMAIN found.idom
  BY <1>1 DEF Sweeping, Climbable, Topological
<1>5. CASE SweepNext
  <2>1. PICK i : found' = [found EXCEPT !.idom = i]
    BY <1>5 DEF SweepNext
  <2>2. found' = [back |-> found.back, post |-> found.post, idom |-> i,
                  doms |-> found.doms, pdoms |-> found.pdoms]
    BY <1>1, <2>1
  <2>3. stage' = "idom"
    BY <1>1, <1>5 DEF SweepNext
  <2>4. Sweeping'
    BY <1>1, <1>5, SweepGoesOn
  <2>5. /\ found'.back = BackEdges'
        /\ found' = [back |-> found'.back, post |-> found'.post, idom |-> found'.idom,
                     doms |-> found'.doms, pdoms |-> found'.pdoms]
    BY <1>1, <1>3, <2>2
  <2> QED
    BY <1>3, <2>3, <2>4, <2>5 DEF CFInv
<1>6. CASE SweepEnds /\ stage' = "idom"
  <2>1. found' = found /\ work'.rest = Sweep /\ work.rest = <<>>
    BY <1>6 DEF SweepEnds
  <2>2. /\ Sweep \in Seq(nodes) /\ Len(found.post) \in Nat \ {0}
        /\ Len(Sweep) = Len(found.post) - 1
        /\ \A k \in 1 .. Len(Sweep) : Sweep[k] = found.post[Len(Sweep) + 1 - k]
    BY <1>1, <1>4, SweepIs
  <2>3. \A j \in 1 .. Len(found.post) : found.post[j] \in DOMAIN found.idom
    BY <1>4, <2>1
  <2>4. /\ Len(Sweep) < Len(found.post)
        /\ \A j \in Len(Sweep) + 1 .. Len(found.post) : found.post[j] \in DOMAIN found.idom
    BY <2>2, <2>3
  <2>5. Climbable'
    <3>1. Climbable
      BY <1>1 DEF Sweeping
    <3> QED
      BY <1>2, <2>1, <3>1, ClimbableNext DEF Climbable
  <2>6. Sweeping'
    BY <1>2, <2>1, <2>2, <2>4, <2>5 DEF Sweeping
  <2>7. found'.back = BackEdges'
    BY <1>1, <1>3, <2>1
  <2> QED
    BY <1>1, <1>3, <1>6, <2>1, <2>6, <2>7 DEF CFInv
<1>7. CASE SweepEnds /\ stage' = "doms"
  <2>1. /\ found' = [found EXCEPT !.post = <<>>]
        /\ doms' = FirstSets(nodes, {Entry}) /\ todo' = nodes \ {Entry}
    BY <1>1, <1>7 DEF SweepEnds, Forward!StartSets, Forward!All, FirstSets
  <2>2. TablesOK(nodes, {Entry}, Preds, graph)
    BY <1>1, ForwardTables
  <2>3. DomInv(nodes, {Entry}, Preds, graph, FirstSets(nodes, {Entry}), nodes \ {Entry})
    BY <2>2, DomStarts
  <2>4. DomInv(nodes, {Entry}, Preds, graph, doms, todo)'
    <3>1. Preds' = Preds
      BY <1>2, GraphStays
    <3>2. DomInv(nodes', {Entry}, Preds', graph', doms', todo')
      BY <1>2, <2>1, <2>3, <3>1
    <3> QED
      BY <3>2
  <2>5. found' = [back |-> found'.back, post |-> found'.post, idom |-> found'.idom,
                  doms |-> found'.doms, pdoms |-> found'.pdoms]
    <3>1. found' = [back |-> found.back, post |-> <<>>, idom |-> found.idom,
                    doms |-> found.doms, pdoms |-> found.pdoms]
      BY <1>1, <2>1
    <3> QED
      BY <3>1
  <2>6. found'.back = BackEdges' /\ found'.idom = found.idom
    BY <1>1, <1>2, <2>1, GraphStays
  <2>7. Topological'
    BY <1>2, <1>4, GraphStays
  <2>8. IdomsFound'
    <3>1. work.rest = <<>>
      BY <1>7 DEF SweepEnds
    <3>2. \A j \in 1 .. Len(found.post) : found.post[j] \in DOMAIN found.idom
      BY <1>4, <3>1
    <3>3. found.post \in Seq(nodes)
      BY <1>4 DEF Listed
    <3>4. nodes \subseteq DOMAIN found.idom
      <4>1. DOMAIN found.post = 1 .. Len(found.post)
        BY <3>3
      <4> QED
        BY <1>4, <3>2, <4>1 DEF Range
    <3>5. Climbable
      BY <1>1 DEF Sweeping
    <3>6. \A n \in nodes : /\ n = Entry => found.idom[n] = Entry
                           /\ n # Entry => Immediate(found.idom[n], n)
      BY <3>4, <3>5 DEF Climbable
    <3> QED
      BY <1>2, <2>6, <3>6, GraphStays DEF IdomsFound
  <2> QED
    BY <1>3, <1>7, <2>4, <2>5, <2>6, <2>7, <2>8 DEF CFInv
<1> QED
  <2>1. SweepEnds => stage' \in {"idom", "doms"}
    BY <1>1 DEF SweepEnds
  <2> QED
    BY <1>5, <1>6, <1>7, <2>1

LEMMA DominateSteps == ASSUME CFInv, Dominate \/ DominateEnds PROVE CFInv'
<1>1. /\ stage = "doms" /\ FlowOK /\ Acyclic(graph) /\ found.back = BackEdges
      /\ Topological /\ IdomsFound
      /\ DomInv(nodes, {Entry}, Preds, graph, doms, todo)
      /\ found = [back |-> found.back, post |-> found.post, idom |-> found.idom,
                  doms |-> found.doms, pdoms |-> found.pdoms]
  BY DEF CFInv, Dominate, DominateEnds
<1>2. graph' = graph /\ nodes' = nodes
  BY DEF Dominate, DominateEnds
<1>3. /\ FlowOK' /\ Acyclic(graph)' /\ Preds' = Preds /\ Dominance' = Dominance
      /\ BackEdges' = BackEdges /\ Topological'
      /\ found'.idom = found.idom => IdomsFound'
  BY <1>1, <1>2, GraphStays DEF IdomsFound
<1>4. CASE Dominate
  <2>1. PICK n \in todo : Forward!Visit(n)
    BY <1>4 DEF Dominate
  <2>2. Visited({Entry}, Preds, graph, doms, todo, n, doms', todo')
    BY <2>1 DEF Forward!Visit, Forward!Settled, Forward!Meet, Visited, MeetOf
  <2>3. DomInv(nodes, {Entry}, Preds, graph, doms', todo')
    BY <1>1, <2>2, DomSteps
  <2>4. DomInv(nodes, {Entry}, Preds, graph, doms, todo)'
    <3>1. DomInv(nodes', {Entry}, Preds', graph', doms', todo')
      BY <1>2, <1>3, <2>3
    <3> QED
      BY <3>1
  <2>5. stage' = "doms" /\ found' = found
    BY <1>1, <1>4 DEF Dominate
  <2> QED
    BY <1>1, <1>3, <2>4, <2>5 DEF CFInv
<1>5. CASE DominateEnds
  <2>1. /\ todo = {} /\ stage' = "pdoms" /\ found' = [found EXCEPT !.doms = doms]
        /\ work' = [entries |-> ExitPoints \cup {Exit}, succs |-> LinkedSuccs,
                    preds |-> Mirror(LinkedSuccs)]
        /\ doms' = Backward!StartSets' /\ todo' = nodes \ work'.entries
    BY <1>5 DEF DominateEnds
  <2>2. /\ work'.entries = ExitPoints \cup {Exit} /\ work'.succs = LinkedSuccs
        /\ work'.preds = Mirror(LinkedSuccs)
    BY <2>1
  <2>3. doms = Dominance
    BY <1>1, <2>1, DominatorsFound
  <2>4. TablesOK(nodes, ExitPoints \cup {Exit}, LinkedSuccs, Mirror(LinkedSuccs))
    BY <1>1, BackwardTables
  <2>5. DomInv(nodes, ExitPoints \cup {Exit}, LinkedSuccs, Mirror(LinkedSuccs),
               FirstSets(nodes, ExitPoints \cup {Exit}), nodes \ (ExitPoints \cup {Exit}))
    BY <2>4, DomStarts
  <2>6. doms' = FirstSets(nodes', work'.entries)
    BY <2>1 DEF Backward!StartSets, Backward!All, FirstSets
  <2>7. DomInv(nodes, work.entries, work.succs, work.preds, doms, todo)'
    <3>1. DomInv(nodes', work'.entries, work'.succs, work'.preds, doms', todo')
      BY <1>2, <2>1, <2>2, <2>5, <2>6
    <3> QED
      BY <3>1
  <2>8. found' = [back |-> found.back, post |-> found.post, idom |-> found.idom,
                  doms |-> Dominance, pdoms |-> found.pdoms]
    BY <1>1, <2>1, <2>3
  <2>9. /\ found'.doms = Dominance' /\ found'.back = BackEdges'
        /\ found'.idom = found.idom /\ found'.back = found.back
        /\ found' = [back |-> found'.back, post |-> found'.post, idom |-> found'.idom,
                     doms |-> found'.doms, pdoms |-> found'.pdoms]
    BY <1>1, <1>3, <2>8
  <2>10. Linked'
    BY <1>2, <2>2, <2>9, TablesStay DEF Linked, Mirror
  <2> QED
    BY <1>3, <2>1, <2>7, <2>9, <2>10 DEF CFInv
<1> QED
  BY <1>4, <1>5

LEMMA PostDominateSteps == ASSUME CFInv, PostDominate \/ PostDominateEnds PROVE CFInv'
<1>1. /\ stage = "pdoms" /\ FlowOK /\ Acyclic(graph) /\ Topological /\ IdomsFound /\ Linked
      /\ found.doms = Dominance /\ found.back = BackEdges
      /\ DomInv(nodes, work.entries, work.succs, work.preds, doms, todo)
      /\ found = [back |-> found.back, post |-> found.post, idom |-> found.idom,
                  doms |-> found.doms, pdoms |-> found.pdoms]
  BY DEF CFInv, PostDominate, PostDominateEnds
<1>2. graph' = graph /\ nodes' = nodes
  BY DEF PostDominate, PostDominateEnds
<1>3. /\ FlowOK' /\ Acyclic(graph)' /\ Dominance' = Dominance /\ BackEdges' = BackEdges
      /\ Topological' /\ (found'.idom = found.idom => IdomsFound')
      /\ PostDominators' = PostDominators
  BY <1>1, <1>2, GraphStays DEF IdomsFound
<1>4. CASE PostDominate
  <2>1. PICK n \in todo : Backward!Visit(n)
    BY <1>4 DEF PostDominate
  <2>2. Visited(work.entries, work.succs, work.preds, doms, todo, n, doms', todo')
    BY <2>1 DEF Backward!Visit, Backward!Settled, Backward!Meet, Visited, MeetOf
  <2>3. DomInv(nodes, work.entries, work.succs, work.preds, doms', todo')
    BY <1>1, <2>2, DomSteps
  <2>4. stage' = "pdoms" /\ found' = found /\ work' = work
    BY <1>1, <1>4 DEF PostDominate
  <2>5. DomInv(nodes, work.entries, work.succs, work.preds, doms, todo)'
    <3>1. DomInv(nodes', work'.entries, work'.succs, work'.preds, doms', todo')
      BY <1>2, <2>3, <2>4
    <3> QED
      BY <3>1
  <2>6. Linked'
    BY <1>1, <1>2, <2>4, TablesStay DEF Linked, Mirror
  <2> QED
    BY <1>1, <1>3, <2>4, <2>5, <2>6 DEF CFInv
<1>5. CASE PostDominateEnds
  <2> DEFINE D == [n \in nodes |-> doms[n] \ {Exit}]
  <2>1. found' = [found EXCEPT !.pdoms = D] /\ todo = {}
    BY <1>5 DEF PostDominateEnds
  <2>5. D = PostDominators
    <3>1. DomInv(nodes, ExitPoints \cup {Exit}, LinkedSuccs, Mirror(LinkedSuccs), doms, {})
      BY <1>1, <2>1 DEF Linked
    <3>2. Ends = ExitPoints \cup Endless
      BY <1>1, EndsAre
    <3>3. \A n \in nodes : doms[n] = {p \in nodes : PostDominates(p, n)}
      BY <1>1, <3>1, <3>2, PostDominatorsFound
    <3>4. Exit \notin nodes
      BY <1>1, NodeAssumption DEF FlowOK
    <3>5. \A n \in nodes : doms[n] \ {Exit} = {p \in nodes : PostDominates(p, n)}
      BY <3>3, <3>4
    <3> QED
      BY <3>5 DEF PostDominators
  <2> HIDE DEF D
  <2>2. found' = [back |-> found.back, post |-> found.post, idom |-> found.idom,
                  doms |-> found.doms, pdoms |-> D]
    BY <1>1, <2>1
  <2>3. /\ found'.doms = found.doms /\ found'.back = found.back
        /\ found'.idom = found.idom /\ found'.pdoms = PostDominators
        /\ found' = [back |-> found'.back, post |-> found'.post, idom |-> found'.idom,
                     doms |-> found'.doms, pdoms |-> found'.pdoms]
    BY <2>2, <2>5
  <2>4. stage' = "done"
    BY <1>5 DEF PostDominateEnds
  <2> QED
    BY <1>1, <1>3, <2>3, <2>4 DEF CFInv
<1> QED
  BY <1>4, <1>5

LEMMA CFInvariant == Spec => []CFInv
<1>1. CFInv /\ [Next]_vars => CFInv'
  <2> SUFFICES ASSUME CFInv, [Next]_vars PROVE CFInv'
    OBVIOUS
  <2>1. CASE UNCHANGED vars
    <3>1. /\ graph' = graph /\ nodes' = nodes /\ stage' = stage /\ work' = work
          /\ doms' = doms /\ todo' = todo /\ found' = found
      BY <2>1 DEF vars
    <3>2. /\ FlowOK' <=> FlowOK
          /\ Acyclic(graph)' <=> Acyclic(graph)
          /\ \A p, l, c, B : Walk(p, l, c, B)' <=> Walk(p, l, c, B)
          /\ \A st, seen, o : Ordering(st, seen, o)' <=> Ordering(st, seen, o)
          /\ \A o : Listed(o)' <=> Listed(o)
          /\ BackEdges' = BackEdges /\ Preds' = Preds /\ Dominance' = Dominance
          /\ \A d, n : Dominates(graph, d, n)' <=> Dominates(graph, d, n)
          /\ \A i, n : Immediate(i, n)' <=> Immediate(i, n)
          /\ (Topological' <=> Topological) /\ PostDominators' = PostDominators
      BY <3>1, GraphStays
    <3>3. (Walking' <=> Walking) /\ (Sorting' <=> Sorting)
      BY <3>1, <3>2 DEF Walking, Sorting
    <3>6. Climbable' <=> Climbable
      BY <3>1, <3>2 DEF Climbable
    <3>7. Sweeping' <=> Sweeping
      BY <3>1, <3>6 DEF Sweeping
    <3>8. IdomsFound' <=> IdomsFound
      BY <3>1, <3>2 DEF IdomsFound
    <3>9. Linked' <=> Linked
      BY <3>1, TablesStay DEF Linked, Mirror
    <3>4. Reducible(graph)' <=> Reducible(graph)
      BY <3>1 DEF Reducible, Dominates
    <3>5. /\ DomInv(nodes, {Entry}, Preds, graph, doms, todo)'
                <=> DomInv(nodes, {Entry}, Preds, graph, doms, todo)
          /\ DomInv(nodes, work.entries, work.succs, work.preds, doms, todo)'
                <=> DomInv(nodes, work.entries, work.succs, work.preds, doms, todo)
      <4>1. /\ DomInv(nodes', {Entry}, Preds', graph', doms', todo')
                  <=> DomInv(nodes, {Entry}, Preds, graph, doms, todo)
            /\ DomInv(nodes', work'.entries, work'.succs, work'.preds, doms', todo')
                  <=> DomInv(nodes, work.entries, work.succs, work.preds, doms, todo)
        BY <3>1, <3>2
      <4> QED
        BY <4>1
    <3> QED
      BY <3>1, <3>2, <3>3, <3>4, <3>5, <3>7, <3>8, <3>9 DEF CFInv
  <2>2. CASE Next
    BY <2>2, DeadSteps, BackSteps, PostSteps, SweepSteps, DominateSteps, PostDominateSteps DEF Next
  <2> QED
    BY <2>1, <2>2
<1> QED
  BY <1>1, CFStarts, PTL DEF Spec

\* The depth-first walk of _find_back_edges finds the edges into a dominator
\* and no other, whichever successor it tries first.
THEOREM BackEdgesFound == Spec => []BackEdgesAreDominance
<1>1. CFInv => BackEdgesAreDominance
  BY DEF CFInv, BackEdgesAreDominance, BackEdges
<1> QED
  BY <1>1, CFInvariant, PTL

\* _find_postorder lists every live block once, after all blocks that it
\* leads to over an edge that is not a back edge.
THEOREM OrderAlwaysTopological == Spec => []OrderIsTopological
<1>1. CFInv => OrderIsTopological
  <2> SUFFICES ASSUME CFInv, stage = "idom" PROVE OrderIsTopological
    BY DEF OrderIsTopological
  <2> DEFINE o == found.post
             N == Len(o)
  <2>1. /\ FlowOK /\ found.back = BackEdges /\ Listed(o) /\ Range(o) = nodes
    BY DEF CFInv, Sweeping, Climbable
  <2>2. /\ o \in Seq(nodes) /\ N \in Nat /\ DOMAIN o = 1 .. N /\ o \in [1 .. N -> nodes]
        /\ \A i, j \in 1 .. N : o[i] = o[j] => i = j
        /\ \A i \in 1 .. N : \A m \in NonBack(graph)[o[i]] : \E k \in 1 .. i - 1 : o[k] = m
    <3>1. /\ o \in Seq(nodes)
          /\ \A i, j \in 1 .. N : o[i] = o[j] => i = j
          /\ \A i \in 1 .. N : \A m \in NonBack(graph)[o[i]] : \E k \in 1 .. i - 1 : o[k] = m
      BY <2>1 DEF Listed
    <3>2. N \in Nat /\ DOMAIN o = 1 .. N /\ o \in [1 .. N -> nodes]
      BY <3>1
    <3> QED
      BY <3>1, <3>2
  <2>3. ToSet(o) = nodes
    BY <2>1, <2>2 DEF ToSet, Range
  <2>4. N = Cardinality(nodes)
    <3>1. o \in Bijection(1 .. N, nodes)
      BY <2>1, <2>2 DEF Bijection, Injection, Surjection, IsInjective, Range
    <3>2. IsFiniteSet(1 .. N) /\ Cardinality(1 .. N) = N
      <4> HIDE DEF N
      <4> QED
        BY <2>2, FS_Interval
    <3> HIDE DEF N
    <3>3. \E f : f \in Bijection(1 .. N, nodes)
      BY <3>1
    <3> QED
      BY <3>2, <3>3, FS_Bijection DEF ExistsBijection
  <2>5. ASSUME NEW e \in Edges \ found.back PROVE Index(e[2]) < Index(e[1])
    <3>1. /\ e[1] \in Node /\ e[2] \in graph[e[1]] /\ ~Dominates(graph, e[2], e[1])
      BY <2>1 DEF BackEdges, Edges
    <3>2. e[1] \in nodes /\ e[2] \in nodes
      BY <2>1, <3>1 DEF FlowOK
    <3>3. e[2] \in NonBack(graph)[e[1]]
      BY <3>1 DEF NonBack
    <3>4. Index(e[1]) \in 1 .. N /\ o[Index(e[1])] = e[1]
      BY <2>1, <3>2, IndexFacts
    <3>5. PICK k \in 1 .. Index(e[1]) - 1 : o[k] = e[2]
      BY <2>2, <3>3, <3>4
    <3> HIDE DEF N
    <3>6. k \in 1 .. N /\ k < Index(e[1])
      BY <2>2, <3>4, <3>5
    <3>7. k = Index(e[2])
      BY <2>1, <3>2, <3>5, <3>6, IndexFacts DEF N
    <3> QED
      BY <3>6, <3>7
  <2> QED
    BY <2>3, <2>4, <2>5 DEF OrderIsTopological
<1> QED
  BY <1>1, CFInvariant, PTL

\* The assertion of _find_dominators_internal holds whenever either of its
\* callers runs it, and what it takes for granted of their tables is true.
THEOREM AssertionAlwaysHolds == Spec => []AssertionHolds
<1>1. CFInv => AssertionHolds
  <2> SUFFICES ASSUME CFInv PROVE AssertionHolds
    OBVIOUS
  <2>1. ASSUME stage = "doms" PROVE Forward!GraphOK /\ Forward!Shrinks
    <3>1. DomInv(nodes, {Entry}, Preds, graph, doms, todo)
      BY <2>1 DEF CFInv
    <3>2. Forward!GraphOK
      BY <3>1 DEF DomInv, TablesOK, Forward!GraphOK, Forward!All
    <3>3. \A n \in todo \ {Entry} : MeetOf(Preds, doms, n) \subseteq doms[n]
      BY <3>1 DEF DomInv, Typed, Below
    <3>4. Forward!Shrinks
      BY <3>3 DEF Forward!Shrinks, Forward!Meet, MeetOf
    <3> QED
      BY <3>2, <3>4
  <2>2. ASSUME stage = "pdoms" PROVE Backward!GraphOK /\ Backward!Shrinks
    <3>1. DomInv(nodes, work.entries, work.succs, work.preds, doms, todo)
      BY <2>2 DEF CFInv
    <3>2. Backward!GraphOK
      BY <3>1 DEF DomInv, TablesOK, Backward!GraphOK, Backward!All
    <3>3. \A n \in todo \ work.entries : MeetOf(work.succs, doms, n) \subseteq doms[n]
      BY <3>1 DEF DomInv, Typed, Below
    <3>4. Backward!Shrinks
      BY <3>3 DEF Backward!Shrinks, Backward!Meet, MeetOf
    <3> QED
      BY <3>2, <3>4
  <2> QED
    BY <2>1, <2>2 DEF AssertionHolds
<1> QED
  BY <1>1, CFInvariant, PTL

\* A loop is all that its header dominates and that leads back to it, it is
\* entered at its header only, and the loops around a node that in_loops lists
\* contain each other, the innermost first.
THEOREM LoopsAlwaysNest == Spec => []LoopsNest
<1>1. CFInv => LoopsNest
  <2>1. ASSUME CFInv, stage = "done" PROVE LoopsNest
    BY <2>1, LoopsAreNested DEF CFInv
  <2>2. ASSUME stage # "done" PROVE LoopsNest
    BY <2>2 DEF LoopsNest
  <2> QED
    BY <2>1, <2>2
<1> QED
  BY <1>1, CFInvariant, PTL

\* Dominators and post-dominators are what paths say they are, the immediate
\* dominator is the closest one, and the frontier of a block is where its
\* dominance ends.
THEOREM DominanceAlwaysExact == Spec => []DominanceIsExact
<1>1. CFInv => DominanceIsExact
  <2> SUFFICES ASSUME CFInv, stage = "done" PROVE DominanceIsExact
    BY DEF DominanceIsExact
  <2>1. FlowOK /\ Topological /\ IdomsFound /\ found.doms = Dominance /\ found.pdoms = PostDominators
    BY DEF CFInv
  <2>2. ASSUME NEW n \in nodes
        PROVE  /\ found.doms[n] = {d \in nodes : Dominates(graph, d, n)}
               /\ found.pdoms[n] = {p \in nodes : PostDominates(p, n)}
    BY <2>1 DEF Dominance, PostDominators
  <2>3. ASSUME NEW n \in nodes, n # Entry
        PROVE  /\ StrictlyDominates(found.idom[n], n)
               /\ \A d \in nodes : StrictlyDominates(d, n) => Dominates(graph, d, found.idom[n])
    BY <2>1, <2>3 DEF IdomsFound, Immediate
  <2>4. ASSUME NEW n \in nodes
        PROVE  Frontier(n) \ {Entry} =
                  {u \in nodes \ {Entry} :
                      /\ \E p \in Preds[u] : Dominates(graph, n, p)
                      /\ ~StrictlyDominates(n, u)}
    BY <2>1, FrontierIs
  <2> QED
    BY <2>2, <2>3, <2>4 DEF DominanceIsExact
<1> QED
  BY <1>1, CFInvariant, PTL

-----------------------------------------------------------------------------
(* The todo-list algorithm by itself.                                      *)

LEMMA TodoListInvariant == Dom!Spec => []DomInv(nodes, entries, preds, succs, doms, todo)
<1> DEFINE Inv == DomInv(nodes, entries, preds, succs, doms, todo)
<1>1. Dom!Init => Inv
  <2> SUFFICES ASSUME Dom!Init PROVE Inv
    OBVIOUS
  <2>1. TablesOK(nodes, entries, preds, succs)
    BY DEF Dom!Init, Dom!GraphOK, Dom!All, TablesOK
  <2>2. doms = FirstSets(nodes, entries) /\ todo = nodes \ entries
    BY DEF Dom!Init, Dom!Start, Dom!StartSets, Dom!All, FirstSets
  <2> QED
    BY <2>1, <2>2, DomStarts
<1>2. Inv /\ [Dom!Next]_Dom!vars => Inv'
  <2> SUFFICES ASSUME Inv, [Dom!Next]_Dom!vars PROVE Inv'
    OBVIOUS
  <2>1. /\ nodes' = nodes /\ entries' = entries /\ preds' = preds /\ succs' = succs
        /\ \/ doms' = doms /\ todo' = todo
           \/ \E n \in todo : Visited(entries, preds, succs, doms, todo, n, doms', todo')
    BY DEF Dom!Next, Dom!Visit, Dom!Settled, Dom!Meet, Dom!vars, Dom!graph, Visited, MeetOf
  <2>2. DomInv(nodes, entries, preds, succs, doms', todo')
    BY <2>1, DomSteps
  <2>3. DomInv(nodes', entries', preds', succs', doms', todo')
    BY <2>1, <2>2
  <2> QED
    BY <2>3
<1> QED
  BY <1>1, <1>2, PTL DEF Dom!Spec

\* "assert len(new_doms) < len(doms[n])" never fails: what is computed for a
\* node that may come next is part of what it has, on every graph.
THEOREM AssertionNeverFails == Dom!Spec => []Dom!Shrinks
<1>1. DomInv(nodes, entries, preds, succs, doms, todo) => Dom!Shrinks
  BY DEF DomInv, Dom!Shrinks, Dom!Meet, MeetOf, Below, Typed
<1> QED
  BY <1>1, TodoListInvariant, PTL

\* _find_dominators_internal ends in the largest solution of the equations of
\* dominance, whatever order the nodes are looked at in.
THEOREM EndsGreatest == Dom!Spec => []Dom!Greatest
<1>1. DomInv(nodes, entries, preds, succs, doms, todo) => Dom!Greatest
  <2> SUFFICES ASSUME DomInv(nodes, entries, preds, succs, doms, {}), todo = {}
               PROVE  Dom!Greatest
    BY DEF Dom!Greatest
  <2>1. Solution(nodes, entries, preds, doms) /\ Above(nodes, entries, preds, doms)
    BY DomEnds
  <2>2. \A D : Dom!Solves(D) <=> Solution(nodes, entries, preds, D)
    BY DEF Dom!Solves, Dom!Meet, Dom!All, MeetOf, Solution
  <2> QED
    BY <2>1, <2>2 DEF Above, Dom!Greatest, Dom!All
<1> QED
  BY <1>1, TodoListInvariant, PTL

-----------------------------------------------------------------------------
(* Powers of two, products and quotients.                                  *)

LEMMA Powers == \A n \in 0 .. Log : 2^n \in Nat \ {0}
<1> DEFINE S == {n \in Nat : n <= Log => 2^n \in Nat \ {0}}
<1>1. 0 \in S
  BY PowerAssumption
<1>2. ASSUME NEW n \in S PROVE n + 1 \in S
  <2>1. n \in Nat /\ n + 1 \in Nat /\ (n <= Log => 2^n \in Nat \ {0})
    OBVIOUS
  <2>2. ASSUME n + 1 <= Log PROVE 2^(n + 1) \in Nat \ {0}
    <3>1. n \in 0 .. Log - 1 /\ n <= Log
      BY <2>1, <2>2, GeometryAssumption
    <3>2. 2^(n + 1) = 2 * 2^n
      BY <3>1, PowerAssumption
    <3> QED
      BY <2>1, <3>1, <3>2
  <2> QED
    BY <2>1, <2>2
<1>3. S = Nat
  <2> HIDE DEF S
  <2>1. S \in SUBSET Nat
    BY DEF S
  <2> QED
    BY <1>1, <1>2, <2>1, AllNumbers
<1>4. \A n \in Nat : n <= Log => 2^n \in Nat \ {0}
  BY <1>3
<1> QED
  BY <1>4, GeometryAssumption

\* A larger power is at least twice as large.
LEMMA PowersGrow == \A m, n \in 0 .. Log : m < n => 2 * 2^m <= 2^n
<1> DEFINE S == {n \in Nat : \A m \in 0 .. Log : m < n /\ n <= Log => 2 * 2^m <= 2^n}
<1>1. 0 \in S
  BY GeometryAssumption
<1>2. ASSUME NEW n \in S PROVE n + 1 \in S
  <2>1. n \in Nat /\ n + 1 \in Nat /\ \A m \in 0 .. Log : m < n /\ n <= Log => 2 * 2^m <= 2^n
    OBVIOUS
  <2>2. ASSUME NEW m \in 0 .. Log, m < n + 1, n + 1 <= Log PROVE 2 * 2^m <= 2^(n + 1)
    <3>1. n \in 0 .. Log - 1 /\ n \in 0 .. Log /\ m \in Nat
      BY <2>1, <2>2, GeometryAssumption
    <3>2. 2^(n + 1) = 2 * 2^n
      BY <3>1, PowerAssumption
    <3>3. 2^n \in Nat /\ 2^m \in Nat
      BY <3>1, Powers
    <3>4. m = n \/ 2 * 2^m <= 2^n
      BY <2>1, <2>2, <3>1
    <3> QED
      BY <3>2, <3>3, <3>4
  <2> QED
    BY <2>1, <2>2
<1>3. S = Nat
  <2> HIDE DEF S
  <2>1. S \in SUBSET Nat
    BY DEF S
  <2> QED
    BY <1>1, <1>2, <2>1, AllNumbers
<1>4. \A n \in Nat : \A m \in 0 .. Log : m < n /\ n <= Log => 2 * 2^m <= 2^n
  BY <1>3
<1> QED
  BY <1>4, GeometryAssumption

LEMMA WarpSizes == WarpSize \in Nat \ {0, 1}
<1>1. /\ Log \in Nat /\ 0 < Log
      /\ 0 \in 0 .. Log /\ Log \in 0 .. Log
  BY GeometryAssumption
<1>2. 2^0 = 1 /\ 2 * 2^0 <= 2^Log /\ 2^Log \in Nat
  BY <1>1, PowerAssumption, PowersGrow, Powers
<1> QED
  BY <1>2 DEF WarpSize

\* Each stage of the halving has at most half the width of the one before.
LEMMA Widths ==
    /\ \A k \in 2 .. Log + 1 : Width(k) \in Nat \ {0} /\ 2 * Width(k) <= WarpSize
    /\ \A j, k \in 2 .. Log + 1 : j < k => 2 * Width(k) <= Width(j)
<1>1. Log \in Nat
  BY GeometryAssumption
<1>2. \A k \in 2 .. Log + 1 : Log + 1 - k \in 0 .. Log /\ Log + 1 - k < Log
  BY <1>1
<1>3. \A k \in 2 .. Log + 1 : Width(k) \in Nat \ {0} /\ 2 * Width(k) <= WarpSize
  <2>1. Log \in 0 .. Log
    BY <1>1
  <2> QED
    BY <1>2, <2>1, Powers, PowersGrow DEF Width, WarpSize
<1>4. \A j, k \in 2 .. Log + 1 : j < k => Log + 1 - k < Log + 1 - j
  BY <1>1
<1> QED
  BY <1>2, <1>3, <1>4, PowersGrow DEF Width

\* The widths of the halving take in every lane but the first.
LEMMA LaneIsTaken ==
    ASSUME NEW l \in 1 .. WarpSize - 1
    PROVE  \E k \in 2 .. Log + 1 : Width(k) <= l /\ l < 2 * Width(k)
<1> DEFINE S == {n \in 0 .. Log : l < 2^n}
<1>1. Log \in Nat /\ WarpSize \in Nat /\ l \in Nat /\ l >= 1 /\ l < WarpSize
  BY GeometryAssumption, WarpSizes
<1>2. Log \in S
  BY <1>1 DEF WarpSize
<1>3. PICK n \in S : \A m \in S : n <= m
  <2>1. S \in SUBSET Nat /\ S # {}
    BY <1>1, <1>2
  <2> HIDE DEF S
  <2> QED
    BY <2>1, LeastNumber
<1>4. n \in 0 .. Log /\ l < 2^n
  BY <1>3
<1>5. n # 0
  <2> SUFFICES ASSUME n = 0 PROVE FALSE
    OBVIOUS
  <2>1. l < 2^0
    BY <1>4
  <2> QED
    BY <1>1, <2>1, PowerAssumption
<1>6. n - 1 \in 0 .. Log - 1 /\ n - 1 \in 0 .. Log /\ (n - 1) + 1 = n
  BY <1>1, <1>4, <1>5
<1>7. 2^n = 2 * 2^(n - 1)
  BY <1>6, PowerAssumption
<1>8. ~(l < 2^(n - 1))
  <2>1. n - 1 \notin S
    <3> HIDE DEF S
    <3> QED
      BY <1>3, <1>4, <1>6
  <2> QED
    BY <2>1, <1>6
<1>9. 2^(n - 1) \in Nat
  BY <1>6, Powers
<1> DEFINE k == Log + 2 - n
<1>10. k \in 2 .. Log + 1 /\ Log + 1 - k = n - 1
  BY <1>1, <1>4, <1>5
<1>11. Width(k) = 2^(n - 1)
  BY <1>10 DEF Width
<1> QED
  BY <1>1, <1>4, <1>7, <1>8, <1>9, <1>10, <1>11

-----------------------------------------------------------------------------
LEMMA Division ==
    ASSUME NEW d \in Nat \ {0}, NEW a \in Nat
    PROVE  /\ a \div d \in Nat /\ a % d \in 0 .. d - 1
           /\ a = d * (a \div d) + (a % d)
<1>1. \A D \in Nat \ {0}, n \in Nat :
          n \div D \in Nat /\ n % D \in 0 .. D - 1 /\ n = D * (n \div D) + (n % D)
  BY SMT
<1> QED
  BY <1>1

LEMMA Products ==
    ASSUME NEW d \in Nat, NEW p \in Nat, NEW q \in Nat
    PROVE  /\ d * p \in Nat
           /\ p <= q => d * p <= d * q
           /\ p < q => d * p + d <= d * q
<1>1. d * p \in Nat
  BY SMT
<1>2. ASSUME p <= q PROVE d * p <= d * q
  <2>1. q - p \in Nat /\ q = p + (q - p)
    BY <1>2
  <2>2. d * (q - p) \in Nat
    BY <2>1, SMT
  <2>3. d * q = d * p + d * (q - p)
    BY <2>1, SMT
  <2> QED
    BY <1>1, <2>2, <2>3
<1>3. ASSUME p < q PROVE d * p + d <= d * q
  <2>1. q - p - 1 \in Nat /\ q = p + 1 + (q - p - 1)
    BY <1>3
  <2>2. d * (q - p - 1) \in Nat
    BY <2>1, SMT
  <2>3. d * q = d * p + d + d * (q - p - 1)
    BY <2>1, SMT
  <2> QED
    BY <1>1, <2>2, <2>3
<1> QED
  BY <1>1, <1>2, <1>3

\* A number is a multiple and a remainder in one way.
LEMMA OneWay ==
    ASSUME NEW d \in Nat \ {0}, NEW p \in Nat, NEW q \in Nat,
           NEW r \in 0 .. d - 1, NEW s \in 0 .. d - 1, d * p + r = d * q + s
    PROVE  p = q /\ r = s
<1>1. ~(p < q)
  <2> SUFFICES ASSUME p < q PROVE FALSE
    OBVIOUS
  <2>1. d * p + d <= d * q /\ d * p \in Nat /\ d * q \in Nat
    BY Products
  <2> QED
    BY <2>1
<1>2. ~(q < p)
  <2> SUFFICES ASSUME q < p PROVE FALSE
    OBVIOUS
  <2>1. d * q + d <= d * p /\ d * p \in Nat /\ d * q \in Nat
    BY Products
  <2> QED
    BY <2>1
<1>3. p = q
  BY <1>1, <1>2
<1> QED
  BY <1>3, Products

LEMMA Quotient ==
    ASSUME NEW d \in Nat \ {0}, NEW q \in Nat, NEW r \in 0 .. d - 1
    PROVE  (d * q + r) \div d = q /\ (d * q + r) % d = r
<1>1. d * q + r \in Nat
  BY Products
<1> QED
  BY <1>1, Division, OneWay

-----------------------------------------------------------------------------
(* Bags that are sets, and their folds.                                    *)

LEMMA SetBags ==
    ASSUME NEW A, NEW B
    PROVE  /\ DOMAIN SetToBag(A) = A
           /\ A \cap B = {} => SetToBag(A) (+) SetToBag(B) = SetToBag(A \cup B)
<1>1. DOMAIN SetToBag(A) = A /\ DOMAIN SetToBag(B) = B
  BY DEF SetToBag
<1>2. ASSUME A \cap B = {} PROVE SetToBag(A) (+) SetToBag(B) = SetToBag(A \cup B)
  <2> DEFINE sum(e) == (IF e \in A THEN SetToBag(A)[e] ELSE 0)
                       + (IF e \in B THEN SetToBag(B)[e] ELSE 0)
  <2>1. SetToBag(A) (+) SetToBag(B) = [e \in A \cup B |-> sum(e)]
    BY <1>1 DEF (+)
  <2>2. \A e \in A \cup B : sum(e) = 1
    BY <1>2 DEF SetToBag
  <2> HIDE DEF sum
  <2> QED
    BY <2>1, <2>2 DEF SetToBag
<1> QED
  BY <1>1, <1>2

\* The members of S hold sets that have nothing in common and make up U.
Split(h, S, U) ==
    /\ \A i \in S : h[i] = SetToBag(DOMAIN h[i])
    /\ \A i, j \in S : i # j => DOMAIN h[i] \cap DOMAIN h[j] = {}
    /\ UNION {DOMAIN h[i] : i \in S} = U

\* Folding bags of sets that have nothing in common makes the bag of them all.
LEMMA BagFoldIs ==
    ASSUME NEW h, IsFiniteSet(DOMAIN h), NEW U, Split(h, DOMAIN h, U), NEW A, A \cap U = {}
    PROVE  BagFold(SetToBag(A), h) = SetToBag(A \cup U)
<1> DEFINE V == DOMAIN h
           first(s) == CHOOSE x \in s : TRUE
           base == SetToBag(A)
           solves(f) == f = [s \in SUBSET V |->
                                IF s = {} THEN base
                                ELSE f[s \ {first(s)}] (+) h[first(s)]]
           iter == CHOOSE f : solves(f)
           all(s) == A \cup UNION {DOMAIN h[i] : i \in s}
<1>1. BagFold(base, h) = iter[V]
  BY DEF BagFold, FoldSet, MapThenFoldSet
<1>2. \A s \in SUBSET V : s # {} => first(s) \in s
  OBVIOUS
<1> HIDE DEF first
<1>3. ASSUME NEW s \in SUBSET V, NEW x \in s
      PROVE  SetToBag(all(s \ {x})) (+) h[x] = SetToBag(all(s))
  <2>1. h[x] = SetToBag(DOMAIN h[x])
    BY DEF Split
  <2>2. all(s \ {x}) \cup DOMAIN h[x] = all(s)
    OBVIOUS
  <2>3. all(s \ {x}) \cap DOMAIN h[x] = {}
    BY DEF Split
  <2> HIDE DEF all
  <2> QED
    BY <2>1, <2>2, <2>3, SetBags
<1>4. all({}) = A /\ all(V) = A \cup U
  BY DEF Split
<1>5. \E f : solves(f)
  <2> DEFINE f == [s \in SUBSET V |-> SetToBag(all(s))]
  <2>1. ASSUME NEW s \in SUBSET V
        PROVE  f[s] = IF s = {} THEN base ELSE f[s \ {first(s)}] (+) h[first(s)]
    <3>1. CASE s = {}
      <4> HIDE DEF all
      <4> QED
        BY <1>4, <3>1
    <3>2. CASE s # {}
      <4>1. s \ {first(s)} \in SUBSET V /\ first(s) \in s
        BY <1>2, <3>2
      <4>2. SetToBag(all(s \ {first(s)})) (+) h[first(s)] = SetToBag(all(s))
        BY <1>3, <4>1
      <4> HIDE DEF all
      <4> QED
        BY <3>2, <4>1, <4>2
    <3> QED
      BY <3>1, <3>2
  <2>2. f = [s \in SUBSET V |-> f[s]]
    <3> HIDE DEF all
    <3> QED
      OBVIOUS
  <2> HIDE DEF f
  <2>3. solves(f)
    BY <2>1, <2>2
  <2> HIDE DEF solves
  <2> QED
    BY <2>3
<1>6. solves(iter)
  <2> HIDE DEF solves
  <2> QED
    BY <1>5
<1> HIDE DEF iter
<1>7. \A s \in SUBSET V : iter[s] = IF s = {} THEN base ELSE iter[s \ {first(s)}] (+) h[first(s)]
  BY <1>6
<1> HIDE DEF solves
<1> DEFINE N == {n \in Nat : \A s \in SUBSET V : Cardinality(s) = n => iter[s] = SetToBag(all(s))}
<1>8. \A s \in SUBSET V : /\ IsFiniteSet(s) /\ Cardinality(s) \in Nat
                          /\ Cardinality(s) = 0 => s = {}
                          /\ \A x \in s : Cardinality(s \ {x}) = Cardinality(s) - 1
  <2> SUFFICES ASSUME NEW s \in SUBSET V
               PROVE  /\ IsFiniteSet(s) /\ Cardinality(s) \in Nat
                      /\ Cardinality(s) = 0 => s = {}
                      /\ \A x \in s : Cardinality(s \ {x}) = Cardinality(s) - 1
    OBVIOUS
  <2>1. IsFiniteSet(s)
    BY FS_Subset
  <2> QED
    BY <2>1, FS_CardinalityType, FS_EmptySet, FS_RemoveElement
<1>9. 0 \in N
  <2> SUFFICES ASSUME NEW s \in SUBSET V, Cardinality(s) = 0 PROVE iter[s] = SetToBag(all(s))
    OBVIOUS
  <2>1. s = {}
    BY <1>8
  <2>2. all(s) = A
    BY <1>4, <2>1
  <2> HIDE DEF all
  <2> QED
    BY <1>7, <2>1, <2>2
<1>10. ASSUME NEW n \in N PROVE n + 1 \in N
  <2>1. n \in Nat /\ \A s \in SUBSET V : Cardinality(s) = n => iter[s] = SetToBag(all(s))
    OBVIOUS
  <2>2. ASSUME NEW s \in SUBSET V, Cardinality(s) = n + 1 PROVE iter[s] = SetToBag(all(s))
    <3>1. s # {}
      <4>1. Cardinality({}) = 0
        BY FS_EmptySet
      <4> QED
        BY <2>1, <2>2, <4>1
    <3>2. first(s) \in s /\ s \ {first(s)} \in SUBSET V
      BY <1>2, <3>1
    <3>3. Cardinality(s \ {first(s)}) = n
      BY <1>8, <2>1, <2>2, <3>2
    <3>4. iter[s \ {first(s)}] = SetToBag(all(s \ {first(s)}))
      BY <2>1, <3>2, <3>3
    <3>5. iter[s] = iter[s \ {first(s)}] (+) h[first(s)]
      BY <1>7, <3>1
    <3>6. SetToBag(all(s \ {first(s)})) (+) h[first(s)] = SetToBag(all(s))
      BY <1>3, <3>2
    <3> HIDE DEF all
    <3> QED
      BY <3>4, <3>5, <3>6
  <2>3. n + 1 \in Nat
    BY <2>1
  <2> HIDE DEF all
  <2> QED
    BY <2>2, <2>3
<1>11. N = Nat
  <2>1. N \in SUBSET Nat
    OBVIOUS
  <2> HIDE DEF N
  <2> QED
    BY <1>9, <1>10, <2>1, AllNumbers
<1>12. iter[V] = SetToBag(all(V))
  <2>1. Cardinality(V) \in N /\ V \in SUBSET V
    BY <1>8, <1>11
  <2> HIDE DEF all
  <2> QED
    BY <2>1
<1> HIDE DEF all
<1> QED
  BY <1>1, <1>4, <1>12

LEMMA NoBag == EmptyBag = SetToBag({})
  BY DEF EmptyBag

\* When the members of R are folded into one of them, nothing is lost.
LEMMA Merging ==
    ASSUME NEW h, NEW S, NEW U, Split(h, S, U), NEW R \in SUBSET S, NEW o \in R, NEW g,
           g[o] = SetToBag(UNION {DOMAIN h[i] : i \in R}),
           \A i \in S \ R : g[i] = h[i]
    PROVE  Split(g, (S \ R) \cup {o}, U)
<1> DEFINE T == (S \ R) \cup {o}
           W == UNION {DOMAIN h[i] : i \in R}
<1>1. DOMAIN g[o] = W
  BY SetBags
<1>2. \A i \in T : g[i] = SetToBag(DOMAIN g[i])
  <2>1. g[o] = SetToBag(DOMAIN g[o])
    BY <1>1
  <2>2. \A i \in S \ R : g[i] = SetToBag(DOMAIN g[i])
    BY DEF Split
  <2> QED
    BY <2>1, <2>2
<1>3. \A i \in S \ R : DOMAIN g[i] \cap W = {}
  BY DEF Split
<1>4. \A i, j \in T : i # j => DOMAIN g[i] \cap DOMAIN g[j] = {}
  <2>1. \A i, j \in S \ R : i # j => DOMAIN g[i] \cap DOMAIN g[j] = {}
    BY DEF Split
  <2> HIDE DEF W
  <2> QED
    BY <1>1, <1>3, <2>1
<1>5. UNION {DOMAIN g[i] : i \in T} = U
  <2>1. U = UNION {DOMAIN h[i] : i \in S}
    BY DEF Split
  <2>2. ASSUME NEW e \in U PROVE \E i \in T : e \in DOMAIN g[i]
    <3>1. PICK i \in S : e \in DOMAIN h[i]
      BY <2>1
    <3> QED
      BY <1>1, <3>1
  <2>3. ASSUME NEW i \in T, NEW e \in DOMAIN g[i] PROVE e \in U
    <3>1. CASE i = o
      BY <1>1, <2>1, <3>1
    <3>2. CASE i # o
      BY <2>1, <3>2
    <3> QED
      BY <3>1, <3>2
  <2> QED
    BY <2>2, <2>3
<1> QED
  BY <1>2, <1>4, <1>5 DEF Split

-----------------------------------------------------------------------------
(* cuda.reduce: threads, stages and warps.                                 *)

\* A warp and a lane are one thread.
LEMMA OneThread ==
    ASSUME NEW t \in Nat, NEW u \in Nat, Warp(t) = Warp(u), Lane(t) = Lane(u)
    PROVE  t = u
<1>1. WarpSize \in Nat \ {0}
  BY WarpSizes
<1>2. \A W \in Nat \ {0}, n \in Nat : n = W * (n \div W) + (n % W)
  BY SMT
<1>3. /\ t = WarpSize * Warp(t) + Lane(t)
      /\ u = WarpSize * Warp(u) + Lane(u)
  BY <1>1, <1>2 DEF Warp, Lane
<1> QED
  BY <1>3

LEMMA LanesAndWarps ==
    ASSUME NEW t \in Nat
    PROVE  Warp(t) \in Nat /\ Lane(t) \in Nat
<1>1. \A W \in Nat \ {0} : t \div W \in Nat /\ t % W \in Nat
  BY SMT
<1> QED
  BY <1>1, WarpSizes DEF Warp, Lane

\* The two threads that pair the warps are of the first warp.
LEMMA FirstWarp == Warp(0) = 0 /\ Warp(1) = 0
<1>1. \A W \in Nat : W >= 2 => 0 \div W = 0 /\ 1 \div W = 0
  BY SMT
<1>2. WarpSize \in Nat /\ WarpSize >= 2
  BY WarpSizes
<1> QED
  BY <1>1, <1>2 DEF Warp

\* What a set of stages that reaches to the last one has a first of.
LEMMA FirstWork ==
    ASSUME NEW t, NEW k \in 0 .. Out
    PROVE  /\ NextWork(t, k) \in k .. Out
           /\ Works(t, NextWork(t, k))
           /\ \A j \in k .. Out : Works(t, j) => NextWork(t, k) <= j
<1> DEFINE S == {j \in k .. Out : Works(t, j)}
<1>1. Log \in Nat /\ Out \in Nat
  BY GeometryAssumption DEF Out
<1>2. Works(t, Out)
  BY <1>1, GeometryAssumption DEF Works, Out, Store, Seed, Pairs, Total
<1>3. S \in SUBSET Nat /\ Out \in S
  BY <1>1, <1>2
<1>4. \E n \in S : \A m \in S : n <= m
  <2>1. PICK n \in S : \A m \in S : <<m, n>> \notin OpToRel(<, Nat)
    BY <1>3, NatLessThanWellFounded, WFMin
  <2>2. \A m \in S : <<m, n>> \in Nat \X Nat /\ ~(m < n)
    BY <1>3, <2>1 DEF OpToRel
  <2>3. n \in Nat /\ \A m \in S : m \in Nat
    BY <1>3
  <2>4. ASSUME NEW m \in S PROVE n <= m
    <3>1. ~(m < n)
      BY <2>2
    <3>2. n \in Nat /\ m \in Nat
      BY <2>3
    <3> QED
      BY <3>1, <3>2
  <2> QED
    BY <2>4
<1>5. Min(S) \in S /\ \A m \in S : Min(S) <= m
  BY <1>4 DEF Min
<1> QED
  BY <1>5 DEF NextWork

-----------------------------------------------------------------------------
(* The invariant.                                                          *)

\* The threads of the running block stand before stages they have work in.
Stages ==
    \/ at = <<>>
    \/ /\ DOMAIN at = Thread /\ Thread \subseteq Nat
       /\ at \in [Thread -> 0 .. Out]
       /\ \A t \in Thread : Works(t, at[t])

\* Nobody totals a full block before every warp is done with its row.
RowsDone ==
    IsFullBlock /\ 0 \in DOMAIN at /\ at[0] > Pairs
        => \A t \in DOMAIN at : at[t] >= Pairs

IInv == size \in Nat /\ Stages /\ RowsDone

LEMMA ThreadsAreNaturals == Thread \subseteq Nat
  BY DEF Thread

LEMMA StageNumbers ==
    /\ Log \in Nat /\ Log > 0
    /\ Store = 0 /\ Seed = 1 /\ Pairs = Log + 2 /\ Total = Log + 3 /\ Out = Log + 4
    /\ Pairs \in Nat /\ Total \in Nat /\ Out \in Nat
  BY GeometryAssumption DEF Store, Seed, Pairs, Total, Out

LEMMA NoThreads == DOMAIN <<>> = {}
  OBVIOUS

LEMMA Starts == ReduceInit => IInv
  BY NoThreads, GeometryAssumption DEF ReduceInit, IInv, Stages, RowsDone

LEMMA StepPreserves ==
    ASSUME IInv, NEW t \in DOMAIN at, Step(t)
    PROVE  IInv'
<1>1. /\ DOMAIN at = Thread /\ Thread \subseteq Nat
      /\ at \in [Thread -> 0 .. Out]
      /\ \A u \in Thread : Works(u, at[u])
  BY NoThreads DEF IInv, Stages
<1>2. /\ Ready(t) /\ t \in Thread
      /\ at' = [at EXCEPT ![t] = NextWork(t, at[t] + 1)]
      /\ size' = size /\ launch' = launch /\ block' = block
  BY <1>1 DEF Step
<1>3. /\ Thread' = Thread /\ IsFullBlock' = IsFullBlock
      /\ \A u, k : Works(u, k)' = Works(u, k)
  BY <1>2 DEF Thread, IsFullBlock, BlockDim, SizePartial, SizeFull, PartialsSize,
              FullBlocks, Works, FullyPopulated
<1>4. at[t] + 1 \in 0 .. Out
  BY <1>1, <1>2, StageNumbers DEF Ready
<1> DEFINE k == NextWork(t, at[t] + 1)
<1>5. /\ k \in at[t] + 1 .. Out
      /\ Works(t, k)
      /\ \A j \in at[t] + 1 .. Out : Works(t, j) => k <= j
  BY <1>4, FirstWork
<1>6. at' \in [Thread -> 0 .. Out] /\ at'[t] = k /\ \A u \in Thread \ {t} : at'[u] = at[u]
  BY <1>1, <1>2, <1>4, <1>5
<1>7. Stages'
  BY <1>1, <1>2, <1>3, <1>5, <1>6 DEF Stages
<1>8. RowsDone'
  <2> SUFFICES ASSUME IsFullBlock, 0 \in Thread, at'[0] > Pairs, NEW u \in Thread
               PROVE  at'[u] >= Pairs
    BY <1>3, <1>6 DEF RowsDone
  <2>1. CASE at[0] > Pairs
    <3>1. at[u] >= Pairs
      BY <1>1, <2>1 DEF IInv, RowsDone
    <3> QED
      BY <3>1, <1>1, <1>5, <1>6, StageNumbers
  <2>2. CASE ~(at[0] > Pairs)
    <3>1. t = 0
      BY <1>6, <2>2
    <3>2. Works(0, Pairs)
      BY StageNumbers DEF Works
    <3>3. at[0] = Pairs
      BY <3>1, <3>2, <2>2, <1>1, <1>5, <1>6, StageNumbers
    <3>4. \A v \in Thread : ~(at[v] < Pairs)
      BY <3>1, <3>3, <1>1, <1>2 DEF Ready, Awaits
    <3>5. at[u] >= Pairs
      BY <3>4, <1>1, StageNumbers
    <3> QED
      BY <3>1, <3>5, <1>6, StageNumbers
  <2> QED
    BY <2>1, <2>2
<1> QED
  BY <1>2, <1>7, <1>8 DEF IInv

LEMMA BeginPreserves == ASSUME IInv, BeginBlock PROVE IInv'
<1>1. /\ at' = [t \in Thread |-> NextWork(t, Store)]
      /\ size' = size /\ launch' = launch
  BY DEF BeginBlock
<1>2. /\ Thread' = Thread /\ IsFullBlock' = IsFullBlock
      /\ \A u, k : Works(u, k)' = Works(u, k)
  BY <1>1 DEF Thread, IsFullBlock, BlockDim, SizePartial, SizeFull, PartialsSize,
              FullBlocks, Works, FullyPopulated
<1>3. \A t : /\ NextWork(t, Store) \in 0 .. Out
             /\ Works(t, NextWork(t, Store))
             /\ \A j \in 0 .. Out : Works(t, j) => NextWork(t, Store) <= j
  BY FirstWork, StageNumbers
<1>4. Stages'
  BY <1>1, <1>2, <1>3, ThreadsAreNaturals DEF Stages
<1>5. RowsDone'
  <2> SUFFICES ASSUME IsFullBlock, 0 \in Thread, at'[0] > Pairs PROVE FALSE
    BY <1>1, <1>2 DEF RowsDone
  <2>1. Works(0, Pairs)
    BY StageNumbers DEF Works
  <2>2. at'[0] <= Pairs
    BY <1>1, <1>3, <2>1, StageNumbers
  <2> QED
    BY <2>2, <1>1, <1>3, StageNumbers
<1> QED
  BY <1>1, <1>4, <1>5 DEF IInv

LEMMA Steps == IInv /\ [ReduceNext]_reduceVars => IInv'
<1> SUFFICES ASSUME IInv, [ReduceNext]_reduceVars PROVE IInv'
  OBVIOUS
<1>1. ASSUME NEW t \in DOMAIN at, Step(t) PROVE IInv'
  BY <1>1, StepPreserves
<1>2. CASE BeginBlock
  BY <1>2, BeginPreserves
<1>3. CASE Launch \/ Return
  BY <1>3, NoThreads DEF Launch, Return, IInv, Stages, RowsDone
<1>4. CASE UNCHANGED reduceVars
  <2>1. /\ size' = size /\ launch' = launch /\ at' = at
    BY <1>4 DEF reduceVars
  <2>2. /\ Thread' = Thread /\ IsFullBlock' = IsFullBlock
        /\ \A u, k : Works(u, k)' = Works(u, k)
    BY <2>1 DEF Thread, IsFullBlock, BlockDim, SizePartial, SizeFull, PartialsSize,
                FullBlocks, Works, FullyPopulated
  <2> QED
    BY <2>1, <2>2 DEF IInv, Stages, RowsDone
<1> QED
  BY <1>1, <1>2, <1>3, <1>4 DEF ReduceNext

-----------------------------------------------------------------------------
(* The invariant leaves no race.                                           *)

\* Before the warps are combined, a thread stays in its warp's row.
LEMMA OwnRow ==
    ASSUME NEW u, at[u] \in Nat, at[u] < Pairs, NEW c \in Reads(u) \cup Writes(u)
    PROVE  \E l : c = <<Warp(u), l>>
<1>1. at[u] # Pairs /\ at[u] # Total
  BY StageNumbers
<1>2. Writes(u) = {<<Warp(u), Lane(u)>>}
  BY <1>1 DEF Writes, Own
<1>3. ASSUME c \in Reads(u) PROVE \E l : c = <<Warp(u), l>>
  <2>1. CASE at[u] \in 2 .. Log + 1
    <3>1. Reads(u) = {<<Warp(u), Lane(u)>>, <<Warp(u), Lane(u) + Width(at[u])>>}
      BY <2>1, StageNumbers DEF Reads, Row
    <3> QED
      BY <1>3, <3>1
  <2>2. CASE at[u] \notin 2 .. Log + 1
    BY <1>1, <1>3, <2>2 DEF Reads, Row
  <2> QED
    BY <2>1, <2>2
<1> QED
  BY <1>2, <1>3

\* Two threads of a warp at one stage touch cells of their own.
LEMMA SameStage ==
    ASSUME NEW t \in Nat, NEW u \in Nat, t # u, Warp(t) = Warp(u),
           at[t] = at[u], at[t] \in Nat, at[t] < Pairs,
           Works(t, at[t]), Works(u, at[u])
    PROVE  <<Warp(t), Lane(t)>> \notin Reads(u) \cup Writes(u)
<1> DEFINE k == at[u]
<1>1. Lane(t) # Lane(u)
  BY OneThread
<1>2. k # Pairs /\ k # Total
  BY StageNumbers
<1>3. Writes(u) = {<<Warp(u), Lane(u)>>}
  BY <1>2 DEF Writes, Own
<1>4. Lane(t) \in Nat /\ Lane(u) \in Nat
  BY LanesAndWarps
<1>5. FullyPopulated(t) <=> FullyPopulated(u)
  BY DEF FullyPopulated
<1>6. CASE k = Store
  <2>1. Reads(u) = {}
    BY <1>6, <1>2, StageNumbers DEF Reads
  <2> QED
    BY <2>1, <1>1, <1>3
<1>7. CASE k = Seed
  <2>1. FullyPopulated(t)
    BY <1>1, <1>5, <1>7, StageNumbers DEF Works
  <2>2. Reads(u) = {}
    BY <2>1, <1>2, <1>5, <1>7, StageNumbers DEF Reads
  <2> QED
    BY <2>2, <1>1, <1>3
<1>8. CASE k \in 2 .. Log + 1
  <2>1. Lane(t) < Width(k) /\ Lane(u) < Width(k)
    BY <1>8, StageNumbers DEF Works
  <2>2. Width(k) \in Int
    <3>1. \A n \in Int : 2^n \in Int
      BY SMT
    <3>2. Log + 1 - k \in Int
      BY <1>8, StageNumbers
    <3> QED
      BY <3>1, <3>2 DEF Width
  <2>3. Reads(u) = {<<Warp(u), Lane(u)>>, <<Warp(u), Lane(u) + Width(k)>>}
    BY <1>8, StageNumbers DEF Reads, Row
  <2>4. Lane(t) # Lane(u) + Width(k)
    BY <1>4, <2>1, <2>2
  <2> QED
    BY <1>1, <1>3, <2>3, <2>4
<1> QED
  BY <1>6, <1>7, <1>8, StageNumbers

\* No two threads that may both run touch one cell, one of them writing: for
\* every warp size, every limit on the blocks and arrays of every size.
THEOREM NoRaces == ReduceSpec => []RaceFree
<1>1. ASSUME IInv, NEW t \in DOMAIN at, NEW u \in DOMAIN at, t # u,
             Ready(t), Ready(u), NEW c \in Writes(t)
      PROVE  c \notin Reads(u) \cup Writes(u)
  <2>1. /\ DOMAIN at = Thread /\ Thread \subseteq Nat
        /\ at \in [Thread -> 0 .. Out]
        /\ \A v \in Thread : Works(v, at[v])
    BY <1>1, NoThreads DEF IInv, Stages
  <2>2. /\ t \in Nat /\ u \in Nat /\ at[t] \in Nat /\ at[u] \in Nat
        /\ Works(t, at[t]) /\ Works(u, at[u])
        /\ at[t] < Out /\ at[u] < Out
    BY <1>1, <2>1, StageNumbers DEF Ready
  <2>3. at[t] # Total /\ c = Own(t)
    BY <1>1 DEF Writes
  <2>4. /\ at[u] < at[t] => ~Awaits(t, at[t], u)
        /\ at[t] < at[u] => ~Awaits(u, at[u], t)
    BY <1>1 DEF Ready
  <2>5. CASE at[t] = Pairs
    <3>1. IsFullBlock /\ t < 2 /\ c = <<t, 0>>
      BY <2>2, <2>3, <2>5, StageNumbers DEF Works, Own
    <3>2. at[u] >= Pairs
      BY <2>2, <2>4, <2>5, StageNumbers DEF Awaits
    <3>3. CASE at[u] = Pairs
      <4>1. u < 2
        BY <2>2, <3>3, StageNumbers DEF Works
      <4>2. Reads(u) = {<<u, 0>>, <<u + 2, 0>>} /\ Writes(u) = {<<u, 0>>}
        BY <3>3, StageNumbers DEF Reads, Writes, Own
      <4>3. t # u + 2
        BY <2>2, <3>1
      <4> QED
        BY <1>1, <3>1, <4>2, <4>3
    <3>4. CASE at[u] = Total
      <4>1. u = 0
        BY <2>2, <3>4, StageNumbers DEF Works
      <4>2. t = 0 \/ t = 1
        BY <2>2, <3>1
      <4>3. Warp(t) = Warp(u)
        BY <4>1, <4>2, FirstWarp
      <4> QED
        BY <4>3, <2>4, <2>5, <3>4, StageNumbers DEF Awaits
    <3> QED
      BY <2>2, <3>2, <3>3, <3>4, StageNumbers
  <2>6. CASE at[t] < Pairs
    <3>1. c = <<Warp(t), Lane(t)>>
      BY <2>2, <2>3, <2>6, StageNumbers DEF Own
    <3>2. at[u] # Pairs
      BY <2>4, <2>6 DEF Awaits
    <3>3. at[u] # Total
      <4>1. CASE IsFullBlock
        <5>1. ASSUME at[u] = Total PROVE FALSE
          <6>1. u = 0 /\ at[0] > Pairs
            BY <2>2, <5>1, StageNumbers DEF Works
          <6>2. at[t] >= Pairs
            BY <1>1, <4>1, <6>1 DEF IInv, RowsDone
          <6> QED
            BY <6>2, <2>2, <2>6, StageNumbers
        <5> QED
          BY <5>1
      <4>2. CASE ~IsFullBlock
        <5>1. ASSUME at[u] = Total PROVE FALSE
          <6>1. at[t] < at[u]
            BY <5>1, <2>2, <2>6, StageNumbers
          <6>2. Awaits(u, at[u], t)
            BY <4>2, <5>1 DEF Awaits
          <6> QED
            BY <6>1, <6>2, <2>4
        <5> QED
          BY <5>1
      <4> QED
        BY <4>1, <4>2
    <3>4. at[u] < Pairs
      BY <2>2, <3>2, <3>3, StageNumbers
    <3>5. CASE Warp(t) # Warp(u)
      BY <2>2, <3>1, <3>4, <3>5, OwnRow
    <3>6. CASE Warp(t) = Warp(u)
      <4>1. at[t] = at[u]
        BY <2>2, <2>4, <3>6 DEF Awaits
      <4> QED
        BY <1>1, <2>2, <2>6, <3>1, <3>6, <4>1, SameStage
    <3> QED
      BY <3>5, <3>6
  <2> QED
    BY <2>2, <2>3, <2>5, <2>6, StageNumbers
<1>2. IInv => RaceFree
  BY <1>1 DEF RaceFree
<1> QED
  BY <1>2, Starts, Steps, PTL DEF ReduceSpec

-----------------------------------------------------------------------------
(* The shapes of the three launches.                                       *)

LEMMA Arrays ==
    ASSUME size \in Nat
    PROVE  /\ BlockSize \in Nat \ {0} /\ WarpSize < BlockSize
           /\ size \div BlockSize \in Nat
           /\ SizeFull = BlockSize * (size \div BlockSize) /\ SizeFull \in Nat
           /\ SizePartial \in 0 .. BlockSize - 1 /\ SizeFull + SizePartial = size
           /\ FullBlocks \in Nat /\ FullBlocks <= size \div BlockSize
           /\ FullBlocks = 0 <=> SizeFull = 0
           /\ BlockSize * FullBlocks <= SizeFull
           /\ PartialsSize \in Nat /\ PartialsSize < BlockSize
           /\ PartialsSize = FullBlocks + (IF SizePartial > 0 THEN 1 ELSE 0)
<1> DEFINE chunks == size \div BlockSize
<1>1. BlockSize \in Nat \ {0} /\ WarpSize \in Nat /\ WarpSize < BlockSize /\ BlockSize = 4 * WarpSize
  BY WarpSizes DEF BlockSize, NumWarps
<1>2. chunks \in Nat /\ size % BlockSize \in 0 .. BlockSize - 1
      /\ size = BlockSize * chunks + (size % BlockSize)
  BY <1>1, Division
<1> HIDE DEF chunks
<1>3. BlockSize * chunks \in Nat /\ chunks * BlockSize = BlockSize * chunks
  <2>1. \A a, b \in Nat : a * b \in Nat /\ a * b = b * a
    BY SMT
  <2> QED
    BY <1>1, <1>2, <2>1
<1>4. SizeFull = BlockSize * chunks
  BY <1>3 DEF SizeFull, chunks
<1>5. SizePartial = size % BlockSize
  BY <1>2, <1>3, <1>4 DEF SizePartial
<1>6. MaxBlocks \in Nat \ {0} /\ MaxBlocks + 1 < BlockSize
  BY GeometryAssumption, PartialsAssumption
<1>7. FullBlocks = IF chunks < MaxBlocks THEN chunks ELSE MaxBlocks
  BY DEF FullBlocks, chunks
<1>8. FullBlocks \in Nat /\ FullBlocks <= chunks /\ FullBlocks <= MaxBlocks
  BY <1>2, <1>6, <1>7
<1>9. FullBlocks = 0 <=> chunks = 0
  BY <1>2, <1>6, <1>7
<1>10. chunks = 0 <=> SizeFull = 0
  <2>1. BlockSize * 0 = 0
    BY <1>1
  <2>2. 0 < chunks => BlockSize * 0 + BlockSize <= BlockSize * chunks
    BY <1>1, <1>2, Products
  <2> QED
    BY <1>1, <1>2, <1>3, <1>4, <2>1, <2>2
<1>11. BlockSize * FullBlocks <= SizeFull
  BY <1>1, <1>2, <1>4, <1>8, Products
<1>12. PartialsSize = FullBlocks + (IF SizePartial > 0 THEN 1 ELSE 0)
  BY DEF PartialsSize
<1>13. PartialsSize \in Nat /\ PartialsSize < BlockSize
  BY <1>1, <1>6, <1>8, <1>12
<1>14. SizePartial \in 0 .. BlockSize - 1 /\ SizeFull + SizePartial = size
  BY <1>2, <1>3, <1>4, <1>5
<1> QED
  BY <1>1, <1>2, <1>3, <1>4, <1>8, <1>9, <1>10, <1>11, <1>12, <1>13, <1>14 DEF chunks

\* A launch has work.
Shaped ==
    /\ launch \in {"start", "full", "partial", "finish", "done"}
    /\ launch = "full" => SizeFull > 0
    /\ launch = "partial" => SizePartial > 0
    /\ launch = "finish" => PartialsSize > 1

Running == size \in Nat /\ Shaped /\ launch \in {"full", "partial", "finish"}

LEMMA Shapes ==
    ASSUME Running
    PROVE  /\ BlockDim \in 1 .. BlockSize /\ GridDim \in Nat \ {0}
           /\ IsFullBlock <=> launch = "full"
           /\ 0 \in Thread /\ Thread \subseteq Nat
           /\ launch = "full" => GridDim = FullBlocks /\ BlockDim = BlockSize
<1>1. /\ BlockDim = IF launch = "full" THEN BlockSize
                    ELSE IF launch = "partial" THEN SizePartial ELSE PartialsSize
      /\ GridDim = IF launch = "full" THEN FullBlocks ELSE 1
  BY DEF BlockDim, GridDim, Running
<1>2. /\ BlockSize \in Nat \ {0} /\ SizePartial \in 0 .. BlockSize - 1
      /\ PartialsSize \in Nat /\ PartialsSize < BlockSize /\ FullBlocks \in Nat
      /\ FullBlocks = 0 <=> SizeFull = 0
  BY Arrays DEF Running
<1>3. /\ launch = "full" => SizeFull > 0
      /\ launch = "partial" => SizePartial > 0
      /\ launch = "finish" => PartialsSize > 1
      /\ launch \in {"full", "partial", "finish"}
  BY DEF Running, Shaped
<1>4. SizeFull \in Nat
  BY Arrays DEF Running
<1> QED
  BY <1>1, <1>2, <1>3, <1>4 DEF IsFullBlock, Thread

-----------------------------------------------------------------------------
(* What a thread takes over from others.                                   *)

LEMMA Coordinates ==
    ASSUME NEW t \in Nat
    PROVE  Warp(t) \in Nat /\ Lane(t) \in 0 .. WarpSize - 1 /\ t = WarpSize * Warp(t) + Lane(t)
  BY WarpSizes, Division DEF Warp, Lane

LEMMA ThreadAt ==
    ASSUME NEW w \in Nat, NEW l \in 0 .. WarpSize - 1
    PROVE  /\ WarpSize * w + l \in Nat
           /\ Warp(WarpSize * w + l) = w /\ Lane(WarpSize * w + l) = l
<1>1. WarpSize \in Nat \ {0}
  BY WarpSizes
<1>2. WarpSize * w \in Nat
  BY <1>1, Products
<1> QED
  BY <1>1, <1>2, Quotient DEF Warp, Lane

\* The first lane of a warp.
LEMMA FirstLane ==
    ASSUME NEW w \in Nat
    PROVE  WarpSize * w \in Nat /\ Warp(WarpSize * w) = w /\ Lane(WarpSize * w) = 0
<1>1. WarpSize \in Nat /\ 0 \in 0 .. WarpSize - 1 /\ WarpSize * w \in Nat
  BY WarpSizes, Products
<1>2. WarpSize * w + 0 = WarpSize * w
  BY <1>1
<1> QED
  BY <1>1, <1>2, ThreadAt

\* At stage k thread u folds in what thread t has come to.
Takes(u, k, t) ==
    \/ k \in 2 .. Log + 1 /\ Works(u, k) /\ t = u + Width(k)
    \/ k = Seed /\ ~FullyPopulated(u) /\ Lane(u) = 0 /\ t # u /\ Warp(t) = Warp(u)
    \/ k = Pairs /\ Works(u, k) /\ t = WarpSize * (u + 2)

LEMMA StageCases ==
    /\ \A k \in 2 .. Log + 1 : k \in Nat /\ Seed < k /\ k < Pairs /\ k # Store /\ k # Total
    /\ \A k \in 0 .. Out : k \in {Store, Seed, Pairs, Total, Out} \cup 2 .. Log + 1
    /\ 0 < Seed /\ Seed < Pairs /\ Pairs < Total /\ Total < Out
    /\ Seed \in 0 .. Out /\ Pairs \in 0 .. Out /\ Total \in 0 .. Out /\ 2 .. Log + 1 \subseteq 0 .. Out
  BY StageNumbers

\* A lane that works at a halving stage takes over from one of its own warp.
LEMMA Halving ==
    ASSUME Running, NEW u \in Thread, NEW k \in 2 .. Log + 1, Works(u, k)
    PROVE  /\ FullyPopulated(u) /\ Lane(u) < Width(k)
           /\ u + Width(k) \in Thread /\ u + Width(k) # u
           /\ Warp(u + Width(k)) = Warp(u) /\ Lane(u + Width(k)) = Lane(u) + Width(k)
<1> DEFINE w == Warp(u)
           l == Lane(u) + Width(k)
<1>1. u \in Nat /\ WarpSize \in Nat \ {0} /\ u < BlockDim /\ BlockDim \in Nat
  BY Shapes, WarpSizes DEF Thread
<1>2. w \in Nat /\ Lane(u) \in 0 .. WarpSize - 1 /\ u = WarpSize * w + Lane(u)
  BY <1>1, Coordinates
<1>3. FullyPopulated(u) /\ Lane(u) < Width(k)
  BY StageCases DEF Works
<1>4. Width(k) \in Nat \ {0} /\ 2 * Width(k) <= WarpSize
  BY Widths
<1>5. l \in 0 .. WarpSize - 1
  BY <1>1, <1>2, <1>3, <1>4
<1>6. WarpSize * w \in Nat /\ u + Width(k) = WarpSize * w + l
  BY <1>1, <1>2, <1>4, Products
<1>7. Warp(u + Width(k)) = w /\ Lane(u + Width(k)) = l
  BY <1>2, <1>5, <1>6, ThreadAt
<1>8. WarpSize * w + WarpSize <= BlockDim
  <2>1. WarpSize * (w + 1) = WarpSize * w + WarpSize /\ WarpSize * (w + 1) = (w + 1) * WarpSize
    <3>1. \A a, b \in Nat : a * (b + 1) = a * b + a /\ a * (b + 1) = (b + 1) * a
      BY SMT
    <3> QED
      BY <1>1, <1>2, <3>1
  <2>2. CASE IsFullBlock
    <3>1. BlockDim = 4 * WarpSize /\ BlockDim = WarpSize * 4
      BY <1>1, <2>2 DEF IsFullBlock, BlockSize, NumWarps
    <3>2. ~(4 <= w)
      <4>1. 4 <= w => WarpSize * 4 <= WarpSize * w
        BY <1>1, <1>2, Products
      <4> QED
        BY <1>1, <1>2, <1>6, <3>1, <4>1
    <3>3. w < 4 => WarpSize * w + WarpSize <= WarpSize * 4
      BY <1>1, <1>2, Products
    <3> QED
      BY <1>2, <3>1, <3>2, <3>3
  <2>3. CASE ~IsFullBlock
    BY <1>1, <1>3, <1>6, <2>1, <2>3 DEF FullyPopulated
  <2> QED
    BY <2>2, <2>3
<1>9. u + Width(k) \in Thread /\ u + Width(k) # u
  BY <1>1, <1>4, <1>5, <1>6, <1>8 DEF Thread
<1> QED
  BY <1>3, <1>7, <1>9

\* The first two threads of a full block each take over from a first lane.
LEMMA Pairing ==
    ASSUME Running, NEW u \in Thread, Works(u, Pairs)
    PROVE  /\ launch = "full" /\ IsFullBlock /\ u \in {0, 1}
           /\ WarpSize * u \in Thread /\ Warp(WarpSize * u) = u /\ Lane(WarpSize * u) = 0
           /\ WarpSize * (u + 2) \in Thread /\ WarpSize * (u + 2) # u
           /\ Warp(WarpSize * (u + 2)) = u + 2 /\ Lane(WarpSize * (u + 2)) = 0
<1>1. u \in Nat /\ WarpSize \in Nat \ {0, 1}
  BY Shapes, WarpSizes
<1>2. IsFullBlock /\ u < 2
  BY StageNumbers DEF Works
<1>3. launch = "full" /\ u \in {0, 1} /\ BlockDim = BlockSize
  BY <1>1, <1>2, Shapes
<1>4. BlockDim = 4 * WarpSize /\ BlockDim = WarpSize * 4
  BY <1>1, <1>3 DEF BlockSize, NumWarps
<1>5. ASSUME NEW w \in 0 .. 3
      PROVE  /\ WarpSize * w \in Thread
             /\ Warp(WarpSize * w) = w /\ Lane(WarpSize * w) = 0
  <2>1. w \in Nat /\ w < 4
    OBVIOUS
  <2>2. WarpSize * w \in Nat /\ WarpSize * w + WarpSize <= WarpSize * 4
    BY <1>1, <2>1, Products
  <2>3. WarpSize * w \in 0 .. BlockDim - 1
    BY <1>1, <1>4, <2>2
  <2> QED
    BY <2>1, <2>3, FirstLane DEF Thread
<1>6. u \in 0 .. 3 /\ u + 2 \in 0 .. 3
  BY <1>3
<1>7. WarpSize * (u + 2) # u
  <2>1. Warp(0) = 0 /\ Warp(1) = 0
    BY FirstWarp
  <2>2. Warp(u) = 0
    BY <1>3, <2>1
  <2>3. Warp(WarpSize * (u + 2)) = u + 2
    BY <1>5, <1>6
  <2> QED
    BY <1>1, <2>2, <2>3
<1> QED
  BY <1>2, <1>3, <1>5, <1>6, <1>7

LEMMA TakesIs ==
    ASSUME Running, NEW u \in Thread, NEW k, NEW t \in Thread, Takes(u, k, t)
    PROVE  /\ Works(u, k) /\ t # u /\ Awaits(u, k, t) /\ k \in {Seed, Pairs} \cup 2 .. Log + 1
           /\ k = Seed => ~FullyPopulated(t) /\ Lane(u) = 0 /\ Warp(t) = Warp(u)
           /\ k \in 2 .. Log + 1 => /\ FullyPopulated(t) /\ Lane(u) < Width(k)
                                    /\ t = u + Width(k)
                                    /\ Lane(t) = Lane(u) + Width(k) /\ Warp(t) = Warp(u)
           /\ k = Pairs => /\ FullyPopulated(t) /\ u \in {0, 1} /\ t = WarpSize * (u + 2)
                           /\ Lane(t) = 0 /\ Warp(t) = u + 2
<1>1. CASE k \in 2 .. Log + 1
  <2>1. Works(u, k) /\ t = u + Width(k)
    BY <1>1, StageCases DEF Takes
  <2>2. /\ FullyPopulated(u) /\ Lane(u) < Width(k) /\ t # u
        /\ Warp(t) = Warp(u) /\ Lane(t) = Lane(u) + Width(k)
    BY <1>1, <2>1, Halving
  <2>3. FullyPopulated(t) /\ Awaits(u, k, t)
    BY <2>2 DEF FullyPopulated, Awaits
  <2> QED
    BY <1>1, <2>1, <2>2, <2>3, StageCases
<1>2. CASE k = Seed
  <2>1. ~FullyPopulated(u) /\ Lane(u) = 0 /\ t # u /\ Warp(t) = Warp(u)
    BY <1>2, StageCases, StageNumbers DEF Takes
  <2>2. ~FullyPopulated(t) /\ Works(u, k) /\ Awaits(u, k, t)
    BY <1>2, <2>1, StageNumbers DEF FullyPopulated, Awaits, Works
  <2> QED
    BY <1>2, <2>1, <2>2, StageCases, StageNumbers
<1>3. CASE k = Pairs
  <2>1. Works(u, k) /\ t = WarpSize * (u + 2)
    BY <1>3, StageCases, StageNumbers DEF Takes
  <2>2. IsFullBlock /\ u \in {0, 1} /\ t # u /\ Warp(t) = u + 2 /\ Lane(t) = 0
    BY <1>3, <2>1, Pairing
  <2>3. FullyPopulated(t) /\ Awaits(u, k, t)
    BY <1>3, <2>2 DEF FullyPopulated, Awaits
  <2> QED
    BY <1>3, <2>1, <2>2, <2>3, StageCases, StageNumbers
<1> QED
  BY <1>1, <1>2, <1>3 DEF Takes

\* What a thread has come to is taken once.
LEMMA TakenOnce ==
    ASSUME Running, NEW u \in Thread, NEW v \in Thread, NEW j, NEW k, NEW t \in Thread,
           Takes(u, j, t), Takes(v, k, t)
    PROVE  u = v /\ j = k
<1>1. /\ Lane(t) \in Nat /\ Lane(u) \in Nat /\ Lane(v) \in Nat /\ u \in Nat /\ v \in Nat
  BY Shapes, LanesAndWarps
<1>2. j \in {Seed, Pairs} \cup 2 .. Log + 1 /\ k \in {Seed, Pairs} \cup 2 .. Log + 1
  BY TakesIs
<1>3. CASE j = Seed
  <2>1. ~FullyPopulated(t) /\ Lane(u) = 0 /\ Warp(t) = Warp(u)
    BY <1>3, TakesIs
  <2>2. k = Seed
    BY <1>2, <2>1, TakesIs
  <2>3. Lane(v) = 0 /\ Warp(t) = Warp(v)
    BY <2>2, TakesIs
  <2> QED
    BY <1>1, <1>3, <2>1, <2>2, <2>3, OneThread
<1>4. CASE j = Pairs
  <2>1. FullyPopulated(t) /\ u \in {0, 1} /\ Lane(t) = 0 /\ Warp(t) = u + 2
    BY <1>4, TakesIs
  <2>2. k # Seed
    BY <2>1, TakesIs
  <2>3. k \notin 2 .. Log + 1
    <3> SUFFICES ASSUME k \in 2 .. Log + 1 PROVE FALSE
      OBVIOUS
    <3>1. Lane(t) = Lane(v) + Width(k)
      BY TakesIs
    <3>2. Width(k) \in Nat \ {0}
      BY Widths
    <3> QED
      BY <1>1, <2>1, <3>1, <3>2
  <2>4. k = Pairs /\ v \in {0, 1} /\ Warp(t) = v + 2
    BY <1>2, <2>2, <2>3, TakesIs
  <2> QED
    BY <1>1, <1>4, <2>1, <2>4
<1>5. CASE j \in 2 .. Log + 1
  <2>1. FullyPopulated(t) /\ Lane(u) < Width(j) /\ t = u + Width(j) /\ Lane(t) = Lane(u) + Width(j)
    BY <1>5, TakesIs
  <2>2. Width(j) \in Nat \ {0}
    BY <1>5, Widths
  <2>3. k # Seed
    BY <2>1, TakesIs
  <2>4. k # Pairs
    <3>1. k = Pairs => Lane(t) = 0
      BY TakesIs
    <3> QED
      BY <1>1, <2>1, <2>2, <3>1
  <2>5. k \in 2 .. Log + 1
    BY <1>2, <2>3, <2>4
  <2>6. Lane(v) < Width(k) /\ t = v + Width(k) /\ Lane(t) = Lane(v) + Width(k) /\ Width(k) \in Nat
    BY <2>5, TakesIs, Widths
  <2>7. ~(j < k)
    <3>1. j < k => 2 * Width(k) <= Width(j)
      BY <1>5, <2>5, Widths
    <3> QED
      BY <1>1, <2>1, <2>2, <2>6, <3>1
  <2>8. ~(k < j)
    <3>1. k < j => 2 * Width(j) <= Width(k)
      BY <1>5, <2>5, Widths
    <3> QED
      BY <1>1, <2>1, <2>2, <2>6, <3>1
  <2>9. j = k
    BY <1>5, <2>5, <2>7, <2>8, StageCases
  <2> QED
    BY <1>1, <2>1, <2>2, <2>6, <2>9
<1> QED
  BY <1>2, <1>3, <1>4, <1>5

\* The thread whose cell is written at stage k of thread t.
Owner(t, k) == IF k = Pairs THEN WarpSize * t ELSE t

\* It is taken over from only at a later stage, which waits for t.
LEMMA TakenLater ==
    ASSUME Running, NEW t \in Thread, NEW k \in 0 .. Pairs, Works(t, k),
           NEW u \in Thread, NEW j, Takes(u, j, Owner(t, k))
    PROVE  j > k /\ Awaits(u, j, t) /\ j \in Nat
<1> DEFINE o == Owner(t, k)
<1>1. /\ t \in Nat /\ u \in Nat /\ Lane(t) \in Nat /\ Lane(u) \in Nat
  BY Shapes, LanesAndWarps
<1>2. k # Pairs
  <2> SUFFICES ASSUME k = Pairs PROVE FALSE
    OBVIOUS
  <2>1. IsFullBlock /\ t \in {0, 1} /\ o \in Thread /\ Warp(o) = t /\ Lane(o) = 0
    BY Pairing DEF Owner
  <2>2. Takes(u, j, o)
    OBVIOUS
  <2> HIDE DEF o
  <2>3. j \in {Seed, Pairs} \cup 2 .. Log + 1
    BY <2>1, <2>2, TakesIs
  <2>4. j # Seed
    BY <2>1, <2>2, TakesIs DEF FullyPopulated
  <2>5. j # Pairs
    <3> SUFFICES ASSUME j = Pairs PROVE FALSE
      OBVIOUS
    <3>1. u \in {0, 1} /\ Warp(o) = u + 2
      BY <2>1, <2>2, TakesIs
    <3> QED
      BY <2>1, <3>1
  <2>6. j \notin 2 .. Log + 1
    <3> SUFFICES ASSUME j \in 2 .. Log + 1 PROVE FALSE
      OBVIOUS
    <3>1. Lane(o) = Lane(u) + Width(j) /\ Width(j) \in Nat \ {0}
      BY <2>1, <2>2, TakesIs, Widths
    <3> QED
      BY <1>1, <2>1, <3>1
  <2> QED
    BY <2>3, <2>4, <2>5, <2>6
<1>3. o = t
  BY <1>2 DEF Owner
<1>4. Takes(u, j, t)
  BY <1>3
<1>5. j \in {Seed, Pairs} \cup 2 .. Log + 1 /\ Awaits(u, j, t) /\ t # u
  BY <1>4, TakesIs
<1>6. k \in {Store, Seed} \cup 2 .. Log + 1
  BY <1>2, StageNumbers
<1>7. CASE k = Store
  BY <1>5, <1>7, StageNumbers
<1>8. CASE k = Seed
  <2>1. j # Seed
    <3> SUFFICES ASSUME j = Seed PROVE FALSE
      OBVIOUS
    <3>1. ~FullyPopulated(t) /\ Lane(u) = 0 /\ Warp(t) = Warp(u)
      BY <1>4, TakesIs
    <3>2. Lane(t) = 0
      BY <1>8, <3>1, StageNumbers DEF Works
    <3> QED
      BY <1>1, <1>5, <3>1, <3>2, OneThread
  <2> QED
    BY <1>5, <1>8, <2>1, StageNumbers
<1>9. CASE k \in 2 .. Log + 1
  <2>1. FullyPopulated(t) /\ Lane(t) < Width(k) /\ Width(k) \in Nat
    BY <1>9, StageCases, Widths DEF Works
  <2>2. j # Seed
    BY <1>4, <2>1, TakesIs
  <2>3. ASSUME j \in 2 .. Log + 1 PROVE j > k
    <3>1. Lane(t) = Lane(u) + Width(j) /\ Width(j) \in Nat
      BY <1>4, <2>3, TakesIs, Widths
    <3>2. j # k
      BY <1>1, <2>1, <3>1
    <3>3. j < k => 2 * Width(k) <= Width(j)
      BY <1>9, <2>3, Widths
    <3> QED
      BY <1>1, <1>9, <2>1, <2>3, <3>1, <3>2, <3>3, StageCases
  <2> QED
    BY <1>5, <1>9, <2>2, <2>3, StageNumbers
<1> QED
  BY <1>5, <1>6, <1>7, <1>8, <1>9, StageNumbers

-----------------------------------------------------------------------------
(* What the threads and the cells of a running block hold.                 *)

\* The cell of a thread.
Spot(t) == <<Warp(t), Lane(t)>>

\* A thread that did its work at a stage had waited for the others to come to it.
Passed ==
    \A u, v \in DOMAIN at : \A j \in 0 .. Out :
        Works(v, j) /\ at[v] > j /\ Awaits(v, j, u) => at[u] >= j

\* A block is running.
Placed ==
    /\ Running
    /\ DOMAIN at = Thread /\ at \in [Thread -> 0 .. Out]
    /\ \A t \in Thread : Works(t, at[t])
    /\ Passed
    /\ DOMAIN sm = Cell

\* The thread is yet to store its own value for good.
Pending(t) == at[t] <= (IF FullyPopulated(t) THEN Seed ELSE Store)

Holds(t) == IF Pending(t) THEN Value(t) ELSE sm[Spot(t)]

Holding == [t \in Thread |-> Holds(t)]

\* A thread is taken over from once the one that takes has gone on.
Taken(t) == \E u \in Thread, k \in 0 .. Out : at[u] > k /\ Takes(u, k, t)

Live == {t \in Thread : ~Taken(t)}

\* The threads whose values thread t folds into one.
Group(t) == {Owner(t, at[t])} \cup {u \in Thread : Takes(t, at[t], u)}

LEMMA Cells ==
    ASSUME Running
    PROVE  /\ \A t \in Thread : Spot(t) \in Cell
           /\ \A t, u \in Thread : Spot(t) = Spot(u) => t = u
           /\ IsFiniteSet(Cell)
<1>1. /\ WarpSize \in Nat \ {0} /\ Thread \subseteq Nat
      /\ BlockDim \in 1 .. BlockSize /\ BlockSize = 4 * WarpSize
  BY WarpSizes, Shapes DEF BlockSize, NumWarps
<1>2. ASSUME NEW t \in Thread PROVE Spot(t) \in Cell
  <2>1. t \in Nat /\ t < WarpSize * 4
    BY <1>1 DEF Thread
  <2>2. Warp(t) \in Nat /\ Lane(t) \in 0 .. WarpSize - 1 /\ t = WarpSize * Warp(t) + Lane(t)
    BY <2>1, Coordinates
  <2>3. ~(4 <= Warp(t))
    <3>1. 4 <= Warp(t) => WarpSize * 4 <= WarpSize * Warp(t)
      BY <1>1, <2>2, Products
    <3>2. WarpSize * Warp(t) \in Nat
      BY <1>1, <2>2, Products
    <3> QED
      BY <1>1, <2>1, <2>2, <3>1, <3>2
  <2> QED
    BY <2>2, <2>3 DEF Spot, Cell, NumWarps
<1>3. \A t, u \in Thread : Spot(t) = Spot(u) => t = u
  BY <1>1, OneThread DEF Spot
<1>4. IsFiniteSet(Cell)
  <2>1. IsFiniteSet(0 .. NumWarps - 1) /\ IsFiniteSet(0 .. WarpSize - 1)
    <3>1. NumWarps - 1 \in Int /\ WarpSize - 1 \in Int
      BY <1>1 DEF NumWarps
    <3> QED
      BY <3>1, FS_Interval
  <2> QED
    BY <2>1, FS_Product DEF Cell
<1> QED
  BY <1>2, <1>3, <1>4

LEMMA ReadsAre ==
    ASSUME Placed, NEW t \in Thread, at[t] < Total
    PROVE  /\ Owner(t, at[t]) \in Thread /\ Own(t) = Spot(Owner(t, at[t]))
           /\ Group(t) \subseteq Thread
           /\ Reads(t) = {} => Pending(t) /\ Group(t) = {t} /\ Owner(t, at[t]) = t
           /\ Reads(t) # {} => /\ Reads(t) = {Spot(u) : u \in Group(t)}
                               /\ at[t] >= Seed
                               /\ at[t] = Seed => \A u \in Group(t) : ~FullyPopulated(u)
<1> DEFINE k == at[t]
<1>1. Running /\ k \in 0 .. Out /\ Works(t, k) /\ t \in Nat
  BY Shapes DEF Placed
<1>2. k \in {Store, Seed, Pairs} \cup 2 .. Log + 1
  BY <1>1, StageNumbers
<1>3. CASE k = Store
  <2>1. Reads(t) = {} /\ Own(t) = Spot(t) /\ Owner(t, k) = t
    BY <1>3, StageNumbers DEF Reads, Own, Spot, Owner
  <2>2. Pending(t)
    BY <1>3, StageNumbers DEF Pending
  <2>3. \A u \in Thread : ~Takes(t, k, u)
    BY <1>3, StageNumbers DEF Takes
  <2> QED
    BY <2>1, <2>2, <2>3 DEF Group
<1>4. CASE k = Seed
  <2>1. Own(t) = Spot(t) /\ Owner(t, k) = t
    BY <1>4, StageNumbers DEF Own, Spot, Owner
  <2>2. CASE FullyPopulated(t)
    <3>1. Reads(t) = {}
      BY <1>4, <2>2, StageNumbers DEF Reads
    <3>2. Pending(t)
      BY <1>4, <2>2, StageNumbers DEF Pending
    <3>3. \A u \in Thread : ~Takes(t, k, u)
      BY <1>4, <2>2, StageNumbers DEF Takes
    <3> QED
      BY <2>1, <3>1, <3>2, <3>3 DEF Group
  <2>3. CASE ~FullyPopulated(t)
    <3> DEFINE w == Warp(t)
    <3>1. Lane(t) = 0
      BY <1>1, <1>4, <2>3, StageNumbers DEF Works
    <3>2. Reads(t) = Row(w, Populated(w))
      BY <1>4, <2>3, StageNumbers DEF Reads
    <3>3. Group(t) = {u \in Thread : Warp(u) = w}
      <4>1. \A u \in Thread : Takes(t, k, u) <=> u # t /\ Warp(u) = w
        BY <1>4, <2>3, <3>1, StageNumbers DEF Takes
      <4> QED
        BY <2>1, <4>1 DEF Group
    <3>4. \A u \in Group(t) : ~FullyPopulated(u)
      BY <2>3, <3>3 DEF FullyPopulated
    <3>5. /\ WarpSize \in Nat \ {0} /\ BlockDim \in Nat /\ w \in Nat /\ WarpSize * w \in Nat
          /\ w * WarpSize = WarpSize * w /\ (w + 1) * WarpSize = WarpSize * w + WarpSize
      <4>1. WarpSize \in Nat \ {0} /\ BlockDim \in Nat /\ w \in Nat
        BY <1>1, WarpSizes, Shapes, LanesAndWarps
      <4>2. \A a, b \in Nat : a * b \in Nat /\ b * a = a * b /\ (b + 1) * a = a * b + a
        BY SMT
      <4> QED
        BY <4>1, <4>2
    <3>6. BlockDim <= WarpSize * w + WarpSize
      BY <2>3, <3>5 DEF FullyPopulated
    <3>7. ASSUME NEW u \in Thread, Warp(u) = w PROVE Lane(u) \in Populated(w)
      <4>1. u \in Nat /\ u < BlockDim
        BY <1>1, <3>5, Shapes DEF Thread
      <4>2. Lane(u) \in Nat /\ u = WarpSize * w + Lane(u)
        BY <3>7, <4>1, Coordinates, LanesAndWarps
      <4> QED
        BY <3>5, <4>1, <4>2 DEF Populated
    <3>8. ASSUME NEW l \in Populated(w) PROVE \E u \in Group(t) : Spot(u) = <<w, l>>
      <4>1. l \in Nat /\ l < BlockDim - WarpSize * w
        BY <3>5 DEF Populated
      <4>2. l \in 0 .. WarpSize - 1
        BY <3>5, <3>6, <4>1
      <4>3. WarpSize * w + l \in Thread
        BY <3>5, <4>1 DEF Thread
      <4> QED
        BY <3>3, <3>5, <4>2, <4>3, ThreadAt DEF Spot
    <3>9. Reads(t) = {Spot(u) : u \in Group(t)}
      BY <3>2, <3>3, <3>7, <3>8 DEF Row, Spot
    <3>10. Group(t) \subseteq Thread /\ t \in Group(t)
      BY <3>3
    <3> QED
      BY <1>4, <2>1, <3>4, <3>9, <3>10, StageNumbers
  <2> QED
    BY <2>2, <2>3
<1>5. CASE k \in 2 .. Log + 1
  <2>1. k # Pairs /\ k >= Seed /\ k # Seed
    BY <1>5, StageNumbers
  <2>2. Own(t) = Spot(t) /\ Owner(t, k) = t
    BY <2>1 DEF Own, Spot, Owner
  <2>3. t + Width(k) \in Thread /\ Spot(t + Width(k)) = <<Warp(t), Lane(t) + Width(k)>>
    BY <1>1, <1>5, Halving DEF Spot
  <2>4. Group(t) = {t, t + Width(k)}
    <3>1. \A u \in Thread : Takes(t, k, u) <=> u = t + Width(k)
      BY <1>1, <1>5, <2>1 DEF Takes
    <3> QED
      BY <2>2, <2>3, <3>1 DEF Group
  <2>5. Reads(t) = {<<Warp(t), Lane(t)>>, <<Warp(t), Lane(t) + Width(k)>>}
    BY <1>5, StageNumbers DEF Reads, Row
  <2> QED
    BY <2>1, <2>2, <2>3, <2>4, <2>5 DEF Spot
<1>6. CASE k = Pairs
  <2>1. k >= Seed /\ k # Seed /\ k \notin 2 .. Log + 1
    BY <1>6, StageNumbers
  <2>2. /\ WarpSize * t \in Thread /\ Spot(WarpSize * t) = <<t, 0>>
        /\ WarpSize * (t + 2) \in Thread /\ Spot(WarpSize * (t + 2)) = <<t + 2, 0>>
    BY <1>1, <1>6, Pairing DEF Spot
  <2>3. Own(t) = <<t, 0>> /\ Owner(t, k) = WarpSize * t
    BY <1>6 DEF Own, Owner
  <2>4. Group(t) = {WarpSize * t, WarpSize * (t + 2)}
    <3>1. \A u \in Thread : Takes(t, k, u) <=> u = WarpSize * (t + 2)
      BY <1>1, <1>6, <2>1 DEF Takes
    <3> QED
      BY <2>2, <2>3, <3>1 DEF Group
  <2>5. Reads(t) = {<<t, 0>>, <<t + 2, 0>>}
    BY <1>6, <2>1, StageNumbers DEF Reads
  <2> QED
    BY <2>1, <2>2, <2>3, <2>4, <2>5
<1> QED
  BY <1>2, <1>3, <1>4, <1>5, <1>6

\* What a thread folds is still there, and nobody is going to store over it.
LEMMA GroupIsLive ==
    ASSUME Placed, NEW t \in Thread, at[t] < Total, Ready(t)
    PROVE  /\ Group(t) \subseteq Live
           /\ ~Takes(t, at[t], Owner(t, at[t]))
           /\ \A u \in Group(t) : at[t] >= Seed => at[u] >= at[t]
           /\ Reads(t) # {} => \A u \in Group(t) : ~Pending(u)
<1> DEFINE k == at[t]
           o == Owner(t, k)
<1>1. /\ Running /\ k \in 0 .. Pairs /\ Works(t, k)
      /\ o \in Thread /\ Group(t) \subseteq Thread
      /\ \A u \in Thread : at[u] \in 0 .. Out /\ at[u] \in Nat
      /\ DOMAIN at = Thread
  BY ReadsAre, StageNumbers DEF Placed
<1>2. \A u \in Thread : Awaits(t, k, u) => ~(at[u] < k)
  BY <1>1 DEF Ready
<1>3. ASSUME NEW u \in Thread, NEW j, Takes(u, j, o) PROVE j > k /\ ~(at[u] > j)
  <2>1. j > k /\ Awaits(u, j, t) /\ j \in Nat
    BY <1>1, <1>3, TakenLater
  <2>2. Works(u, j) /\ j \in 0 .. Out
    <3>1. Works(u, j) /\ j \in {Seed, Pairs} \cup 2 .. Log + 1
      BY <1>1, <1>3, TakesIs
    <3> QED
      BY <3>1, StageCases
  <2>3. at[u] > j => at[t] >= j
    BY <1>1, <2>1, <2>2 DEF Placed, Passed
  <2> QED
    BY <1>1, <2>1, <2>3
<1>4. ~Taken(o) /\ ~Takes(t, k, o)
  <2>1. ~Takes(t, k, o)
    <3> SUFFICES ASSUME Takes(t, k, o) PROVE FALSE
      OBVIOUS
    <3>1. k > k
      BY <1>3
    <3> QED
      BY <1>1, <3>1
  <2> QED
    BY <1>3, <2>1 DEF Taken
<1>5. ASSUME NEW u \in Thread, Takes(t, k, u) PROVE ~Taken(u)
  <2> SUFFICES ASSUME NEW v \in Thread, NEW j \in 0 .. Out, at[v] > j, Takes(v, j, u)
               PROVE  FALSE
    BY DEF Taken
  <2>1. v = t /\ j = k
    BY <1>1, <1>5, TakenOnce
  <2> QED
    BY <1>1, <2>1
<1>6. ASSUME NEW u \in Group(t), k >= Seed PROVE at[u] >= k
  <2>1. CASE Takes(t, k, u)
    <3>1. Awaits(t, k, u) /\ u \in Thread
      BY <1>1, <1>6, <2>1, TakesIs
    <3> QED
      BY <1>1, <1>2, <3>1
  <2>2. CASE u = o
    <3>1. CASE k = Pairs
      BY <1>1, <1>2, <2>2, <3>1 DEF Awaits
    <3>2. CASE k # Pairs
      BY <1>1, <2>2, <3>2 DEF Owner
    <3> QED
      BY <3>1, <3>2
  <2> QED
    BY <2>1, <2>2 DEF Group
<1>7. ASSUME Reads(t) # {}, NEW u \in Group(t) PROVE ~Pending(u)
  <2>1. k >= Seed /\ (k = Seed => ~FullyPopulated(u)) /\ at[u] >= k /\ at[u] \in Nat
    BY <1>1, <1>6, <1>7, ReadsAre
  <2> QED
    BY <1>1, <2>1, StageNumbers DEF Pending
<1> QED
  BY <1>1, <1>4, <1>5, <1>6, <1>7 DEF Group, Live

\* The fold of the cells of some threads is the bag of all that they hold.
LEMMA CellsFolded ==
    ASSUME Placed, NEW t \in Thread, NEW U, Split(Holding, Live, U), NEW G \in SUBSET Live,
           Reads(t) # {}, Reads(t) = {Spot(u) : u \in G}, \A u \in G : ~Pending(u)
    PROVE  Computed(t) = SetToBag(UNION {DOMAIN Holding[u] : u \in G})
<1> DEFINE h == [c \in Reads(t) |-> sm[c]]
           W == UNION {DOMAIN Holding[u] : u \in G}
<1>1. \A u \in G : u \in Thread /\ u \in Live
  BY DEF Live
<1>2. \A u \in G : Spot(u) \in Cell /\ Spot(u) \in Reads(t) /\ h[Spot(u)] = Holding[u]
  <2>1. \A u \in G : Spot(u) \in Cell
    BY <1>1, Cells DEF Placed
  <2>2. \A u \in G : Spot(u) \in Reads(t) /\ ~Pending(u)
    OBVIOUS
  <2>3. \A u \in G : Holding[u] = sm[Spot(u)]
    BY <1>1, <2>2 DEF Holding, Holds
  <2> QED
    BY <2>1, <2>2, <2>3
<1>3. IsFiniteSet(DOMAIN h)
  <2>1. Reads(t) \subseteq Cell
    BY <1>2
  <2> QED
    BY <2>1, Cells, FS_Subset DEF Placed
<1>4. Split(h, DOMAIN h, W)
  <2>1. \A c \in DOMAIN h : \E u \in G : c = Spot(u) /\ h[c] = Holding[u]
    BY <1>2
  <2>2. \A u \in G : Spot(u) \in DOMAIN h /\ h[Spot(u)] = Holding[u]
    BY <1>2
  <2> HIDE DEF h
  <2>3. \A c \in DOMAIN h : h[c] = SetToBag(DOMAIN h[c])
    BY <1>1, <2>1 DEF Split
  <2>4. ASSUME NEW c \in DOMAIN h, NEW d \in DOMAIN h, c # d PROVE DOMAIN h[c] \cap DOMAIN h[d] = {}
    <3>1. PICK u \in G : c = Spot(u) /\ h[c] = Holding[u]
      BY <2>1
    <3>2. PICK v \in G : d = Spot(v) /\ h[d] = Holding[v]
      BY <2>1
    <3>3. u # v /\ u \in Live /\ v \in Live
      BY <1>1, <2>4, <3>1, <3>2
    <3> QED
      BY <3>1, <3>2, <3>3 DEF Split
  <2>5. UNION {DOMAIN h[c] : c \in DOMAIN h} = W
    BY <2>1, <2>2
  <2> QED
    BY <2>3, <2>4, <2>5 DEF Split
<1>5. Computed(t) = BagFold(EmptyBag, h)
  BY DEF Computed
<1>6. BagFold(SetToBag({}), h) = SetToBag({} \cup W)
  <2> HIDE DEF h, W
  <2> QED
    BY <1>3, <1>4, BagFoldIs
<1>7. {} \cup W = W
  OBVIOUS
<1> HIDE DEF h
<1> QED
  BY <1>5, <1>6, <1>7, NoBag

LEMMA ComputedIs ==
    ASSUME Placed, NEW t \in Thread, at[t] < Total, Ready(t),
           NEW U, Split(Holding, Live, U)
    PROVE  Computed(t) = SetToBag(UNION {DOMAIN Holding[u] : u \in Group(t)})
<1>1. Group(t) \in SUBSET Live
  BY GroupIsLive
<1>2. CASE Reads(t) = {}
  <2>1. Pending(t) /\ Group(t) = {t}
    BY <1>2, ReadsAre
  <2>2. Computed(t) = Holding[t]
    BY <1>2, <2>1 DEF Computed, Holding, Holds
  <2>3. Holding[t] = SetToBag(DOMAIN Holding[t])
    BY <1>1, <2>1 DEF Split
  <2>4. UNION {DOMAIN Holding[u] : u \in Group(t)} = DOMAIN Holding[t]
    BY <2>1
  <2> QED
    BY <2>2, <2>3, <2>4
<1>3. CASE Reads(t) # {}
  <2>1. Reads(t) = {Spot(u) : u \in Group(t)} /\ \A u \in Group(t) : ~Pending(u)
    BY <1>3, ReadsAre, GroupIsLive
  <2> QED
    BY <1>1, <1>3, <2>1, CellsFolded
<1> QED
  BY <1>2, <1>3

\* While a block runs, what it computes with stays as it is.
LEMMA ShapeStays ==
    ASSUME UNCHANGED <<size, launch, left, block>>
    PROVE  /\ Thread' = Thread /\ IsFullBlock' = IsFullBlock /\ GridDim' = GridDim
           /\ SizeFull' = SizeFull /\ SizePartial' = SizePartial
           /\ PartialsSize' = PartialsSize /\ FullBlocks' = FullBlocks
           /\ \A u, k : Works(u, k)' = Works(u, k)
           /\ \A u : FullyPopulated(u)' = FullyPopulated(u)
           /\ \A u, k, t : Takes(u, k, t)' = Takes(u, k, t)
           /\ \A u, k, t : Awaits(u, k, t)' = Awaits(u, k, t)
           /\ Running' = Running
           /\ partials' = partials => \A t : Value(t)' = Value(t)
<1>1. /\ SizeFull' = SizeFull /\ SizePartial' = SizePartial
      /\ PartialsSize' = PartialsSize /\ FullBlocks' = FullBlocks
  BY DEF SizeFull, SizePartial, PartialsSize, FullBlocks
<1>2. BlockDim' = BlockDim /\ GridDim' = GridDim
  BY <1>1 DEF BlockDim, GridDim
<1>3. /\ Thread' = Thread /\ IsFullBlock' = IsFullBlock
      /\ \A u : FullyPopulated(u)' = FullyPopulated(u)
  BY <1>2 DEF Thread, IsFullBlock, FullyPopulated
<1>4. /\ \A u, k : Works(u, k)' = Works(u, k)
      /\ \A u, k, t : Awaits(u, k, t)' = Awaits(u, k, t)
  BY <1>3 DEF Works, Awaits
<1>5. \A u, k, t : Takes(u, k, t)' = Takes(u, k, t)
  BY <1>3, <1>4 DEF Takes
<1>6. Running' = Running
  BY <1>1 DEF Running, Shaped
<1>7. ASSUME partials' = partials PROVE \A t : Value(t)' = Value(t)
  <2>1. \A i : Arr(i)' = Arr(i)
    BY <1>1, <1>7 DEF Arr
  <2> QED
    BY <1>1, <1>2, <1>3, <2>1 DEF Value
<1> QED
  BY <1>1, <1>2, <1>3, <1>4, <1>5, <1>6, <1>7

\* A thread goes from its stage to the next one it has work in.
LEMMA StepGoes ==
    ASSUME Placed, NEW t \in Thread, Step(t)
    PROVE  /\ Ready(t) /\ at[t] \in 0 .. Total /\ at \in [Thread -> 0 .. Out]
           /\ UNCHANGED <<size, launch, left, block>>
           /\ at' \in [Thread -> 0 .. Out] /\ at'[t] > at[t] /\ Works(t, at'[t])
           /\ \A j \in 0 .. Out : Works(t, j) /\ at'[t] > j => at[t] >= j
           /\ \A u \in Thread \ {t} : at'[u] = at[u]
           /\ \A u \in Thread : at'[u] >= at[u]
<1>1. /\ Ready(t) /\ at' = [at EXCEPT ![t] = NextWork(t, at[t] + 1)]
      /\ UNCHANGED <<size, launch, left, block>>
  BY DEF Step
<1>2. at \in [Thread -> 0 .. Out] /\ at[t] \in 0 .. Out /\ at[t] < Out
  BY <1>1 DEF Placed, Ready
<1>3. at[t] \in 0 .. Total /\ at[t] + 1 \in 0 .. Out
  BY <1>2, StageNumbers
<1> DEFINE n == NextWork(t, at[t] + 1)
<1>4. /\ n \in at[t] + 1 .. Out /\ Works(t, n)
      /\ \A j \in at[t] + 1 .. Out : Works(t, j) => n <= j
  BY <1>3, FirstWork
<1> HIDE DEF n
<1>5. n \in 0 .. Out /\ n > at[t]
  BY <1>3, <1>4, StageNumbers
<1>6. at' \in [Thread -> 0 .. Out] /\ at'[t] = n /\ \A u \in Thread \ {t} : at'[u] = at[u]
  BY <1>1, <1>2, <1>5 DEF n
<1>7. \A j \in 0 .. Out : Works(t, j) /\ n > j => at[t] >= j
  BY <1>3, <1>4, StageNumbers
<1>8. ASSUME NEW u \in Thread PROVE at'[u] >= at[u]
  <2>1. at[u] \in Nat
    BY <1>2, StageNumbers
  <2>2. CASE u = t
    BY <1>3, <1>5, <1>6, <2>2
  <2>3. CASE u # t
    BY <1>6, <2>1, <2>3
  <2> QED
    BY <2>2, <2>3
<1> QED
  BY <1>1, <1>2, <1>3, <1>4, <1>5, <1>6, <1>7, <1>8

LEMMA StaysPlaced ==
    ASSUME Placed, NEW t \in Thread, Step(t)
    PROVE  Placed'
<1>1. /\ Ready(t) /\ at[t] \in 0 .. Total /\ at \in [Thread -> 0 .. Out] /\ DOMAIN at = Thread
      /\ UNCHANGED <<size, launch, left, block>>
      /\ at' \in [Thread -> 0 .. Out] /\ at'[t] > at[t] /\ Works(t, at'[t])
      /\ \A j \in 0 .. Out : Works(t, j) /\ at'[t] > j => at[t] >= j
      /\ \A u \in Thread \ {t} : at'[u] = at[u]
      /\ \A u \in Thread : at'[u] >= at[u]
  BY StepGoes DEF Placed
<1>2. /\ Thread' = Thread /\ Running' = Running
      /\ \A u, k : Works(u, k)' = Works(u, k)
      /\ \A u, k, v : Awaits(u, k, v)' = Awaits(u, k, v)
  BY <1>1, ShapeStays
<1>3. ASSUME NEW u \in Thread, NEW v \in Thread, NEW j \in 0 .. Out,
             Works(v, j), at'[v] > j, Awaits(v, j, u)
      PROVE  at'[u] >= j
  <2>1. /\ at[u] \in Nat /\ at[v] \in Nat /\ at'[u] \in Nat /\ at'[v] \in Nat /\ j \in Nat
        /\ at'[u] >= at[u]
    BY <1>1, StageNumbers
  <2>2. at[u] >= j
    <3>1. CASE at[v] > j
      BY <1>1, <1>3, <3>1 DEF Placed, Passed
    <3>2. CASE ~(at[v] > j)
      <4>1. v = t /\ j = at[t]
        <5>1. v = t
          BY <1>1, <1>3, <3>2
        <5> QED
          BY <1>1, <1>3, <2>1, <3>2, <5>1
      <4>2. ~(at[u] < j)
        BY <1>1, <1>3, <4>1 DEF Ready
      <4> QED
        BY <2>1, <4>2
    <3> QED
      BY <3>1, <3>2
  <2> QED
    BY <2>1, <2>2
<1>4. Passed'
  <2>1. DOMAIN at' = Thread
    BY <1>1
  <2> QED
    BY <1>2, <1>3, <2>1 DEF Passed
<1>5. \A u \in Thread : Works(u, at'[u])
  BY <1>1 DEF Placed
<1>6. DOMAIN sm' = Cell /\ Cell' = Cell
  BY DEF Step, Placed, Cell
<1> QED
  BY <1>1, <1>2, <1>4, <1>5, <1>6 DEF Placed

LEMMA LiveNext ==
    ASSUME Placed, NEW t \in Thread, Step(t), at[t] < Total
    PROVE  Live' = (Live \ Group(t)) \cup {Owner(t, at[t])}
<1> DEFINE k == at[t]
           o == Owner(t, k)
<1>1. /\ Ready(t) /\ k \in 0 .. Total /\ at \in [Thread -> 0 .. Out]
      /\ UNCHANGED <<size, launch, left, block>>
      /\ at' \in [Thread -> 0 .. Out] /\ at'[t] > k
      /\ \A j \in 0 .. Out : Works(t, j) /\ at'[t] > j => k >= j
      /\ \A u \in Thread \ {t} : at'[u] = at[u]
      /\ \A u \in Thread : at'[u] >= at[u]
  BY StepGoes
<1>2. Thread' = Thread /\ \A u, j, v : Takes(u, j, v)' = Takes(u, j, v)
  BY <1>1, ShapeStays
<1>3. Group(t) \subseteq Live /\ ~Takes(t, k, o) /\ o \in Group(t)
  BY <1>1, GroupIsLive DEF Group
<1>4. ASSUME NEW u \in Thread PROVE Taken(u)' <=> Taken(u) \/ Takes(t, k, u)
  <2>1. ASSUME Taken(u) PROVE Taken(u)'
    <3>1. PICK v \in Thread, j \in 0 .. Out : at[v] > j /\ Takes(v, j, u)
      BY <2>1 DEF Taken
    <3>2. at'[v] > j
      <4>1. at[v] \in Nat /\ at'[v] \in Nat /\ j \in Nat /\ at'[v] >= at[v]
        BY <1>1, StageNumbers
      <4> QED
        BY <3>1, <4>1
    <3> QED
      BY <1>2, <3>1, <3>2 DEF Taken
  <2>2. ASSUME Takes(t, k, u) PROVE Taken(u)'
    <3>1. k \in 0 .. Out
      BY <1>1, StageNumbers
    <3> QED
      BY <1>1, <1>2, <2>2, <3>1 DEF Taken
  <2>3. ASSUME Taken(u)' PROVE Taken(u) \/ Takes(t, k, u)
    <3>1. PICK v \in Thread, j \in 0 .. Out : at'[v] > j /\ Takes(v, j, u)
      BY <1>2, <2>3 DEF Taken
    <3>2. CASE at[v] > j
      BY <3>1, <3>2 DEF Taken
    <3>3. CASE ~(at[v] > j)
      <4>1. v = t
        BY <1>1, <3>1, <3>3
      <4>2. Works(t, j)
        BY <3>1, <4>1, TakesIs DEF Placed
      <4>3. k >= j
        BY <1>1, <3>1, <4>1, <4>2
      <4>4. k = j
        BY <1>1, <3>3, <4>1, <4>3, StageNumbers
      <4> QED
        BY <3>1, <4>1, <4>4
    <3> QED
      BY <3>2, <3>3
  <2> QED
    BY <2>1, <2>2, <2>3
<1>5. o \in Thread
  BY <1>3 DEF Live
<1> QED
  BY <1>2, <1>3, <1>4, <1>5 DEF Live, Group

LEMMA HoldsNext ==
    ASSUME Placed, NEW t \in Thread, Step(t), at[t] < Total
    PROVE  /\ Holding'[Owner(t, at[t])] = Computed(t)
           /\ \A u \in Thread \ Group(t) : Holding'[u] = Holding[u]
<1> DEFINE k == at[t]
           o == Owner(t, k)
<1>1. /\ Ready(t) /\ k \in 0 .. Total /\ at \in [Thread -> 0 .. Out]
      /\ UNCHANGED <<size, launch, left, block>>
      /\ at' \in [Thread -> 0 .. Out] /\ at'[t] > k
      /\ \A j \in 0 .. Out : Works(t, j) /\ at'[t] > j => k >= j
      /\ \A u \in Thread \ {t} : at'[u] = at[u]
      /\ \A u \in Thread : at'[u] >= at[u]
  BY StepGoes
<1>2. sm' = [sm EXCEPT ![Own(t)] = Computed(t)] /\ partials' = partials
  <2>1. at[t] # Total
    BY <1>1, StageNumbers
  <2> QED
    BY <2>1 DEF Step
<1>3. /\ Thread' = Thread
      /\ \A u : FullyPopulated(u)' = FullyPopulated(u)
      /\ \A u : Value(u)' = Value(u)
  BY <1>1, <1>2, ShapeStays
<1>4. /\ o \in Thread /\ Own(t) = Spot(o) /\ o \in Group(t)
      /\ DOMAIN sm = Cell
      /\ \A u \in Thread : Spot(u) \in Cell
      /\ \A u, v \in Thread : Spot(u) = Spot(v) => u = v
  BY ReadsAre, Cells DEF Placed, Group
<1>5. \A u : Spot(u)' = Spot(u)
  BY DEF Spot, Warp, Lane
<1>6. \A u \in Thread : /\ Holding[u] = IF Pending(u) THEN Value(u) ELSE sm[Spot(u)]
                        /\ Holding'[u] = IF Pending(u)' THEN Value(u) ELSE sm'[Spot(u)]
  BY <1>3, <1>5 DEF Holding, Holds
<1>7. \A u \in Thread : Pending(u)' <=> at'[u] <= (IF FullyPopulated(u) THEN Seed ELSE Store)
  <2>1. Seed' = Seed /\ Store' = Store
    BY DEF Seed, Store
  <2> QED
    BY <1>3, <2>1 DEF Pending
<1>8. /\ sm'[Spot(o)] = Computed(t)
      /\ \A u \in Thread : u # o => sm'[Spot(u)] = sm[Spot(u)]
  BY <1>2, <1>4
<1>9. ASSUME NEW u \in Thread, u \notin Group(t) PROVE Holding'[u] = Holding[u]
  <2>1. u # o /\ sm'[Spot(u)] = sm[Spot(u)]
    BY <1>4, <1>8, <1>9
  <2>2. Pending(u)' <=> Pending(u)
    <3>1. CASE u # t
      BY <1>1, <1>7, <3>1 DEF Pending
    <3>2. CASE u = t
      <4>1. k = Pairs
        BY <2>1, <3>2 DEF Owner
      <4> QED
        BY <1>1, <1>7, <3>2, <4>1, StageNumbers DEF Pending
    <3> QED
      BY <3>1, <3>2
  <2> QED
    BY <1>6, <2>1, <2>2
<1>10. ASSUME NEW u \in Thread, u = o PROVE Holding'[u] = Computed(t)
  <2>1. u \in Group(t) /\ sm'[Spot(u)] = Computed(t)
    BY <1>4, <1>8, <1>10
  <2>2. CASE Pending(u)'
    <3>1. Reads(t) = {}
      <4> SUFFICES ASSUME Reads(t) # {} PROVE FALSE
        OBVIOUS
      <4>1. ~Pending(u) /\ at'[u] >= at[u] /\ at[u] \in Nat /\ at'[u] \in Nat
        BY <1>1, <2>1, GroupIsLive, StageNumbers
      <4> QED
        BY <1>7, <2>2, <4>1, StageNumbers DEF Pending
    <3>2. u = t
      BY <1>10, <3>1, ReadsAre
    <3>3. Holding'[u] = Value(t)
      BY <1>6, <2>2, <3>2
    <3> QED
      BY <3>1, <3>3 DEF Computed
  <2>3. CASE ~Pending(u)'
    BY <1>6, <2>1, <2>3
  <2> QED
    BY <2>2, <2>3
<1> QED
  BY <1>4, <1>9, <1>10

\* Before the total, no step loses an element or folds it in twice.
LEMMA SplitGoesOn ==
    ASSUME Placed, NEW t \in Thread, Step(t), at[t] < Total, NEW U, Split(Holding, Live, U)
    PROVE  Split(Holding', Live', U)
<1> DEFINE o == Owner(t, at[t])
<1>1. Ready(t)
  BY DEF Step
<1>2. Group(t) \in SUBSET Live /\ o \in Group(t) /\ Live \subseteq Thread
  BY <1>1, GroupIsLive DEF Group, Live
<1>3. Computed(t) = SetToBag(UNION {DOMAIN Holding[u] : u \in Group(t)})
  BY <1>1, ComputedIs
<1>4. /\ Holding'[o] = SetToBag(UNION {DOMAIN Holding[u] : u \in Group(t)})
      /\ \A u \in Live \ Group(t) : Holding'[u] = Holding[u]
  BY <1>2, <1>3, HoldsNext
<1>5. Split(Holding', (Live \ Group(t)) \cup {o}, U)
  BY <1>2, <1>4, Merging
<1> QED
  BY <1>5, LiveNext

\* Every lane of a fully populated warp but the first is taken over from.
LEMMA HalvedAway ==
    ASSUME Running, NEW t \in Thread, FullyPopulated(t), Lane(t) # 0
    PROVE  \E u \in Thread, k \in 2 .. Log + 1 : Takes(u, k, t)
<1> DEFINE w == Warp(t)
<1>1. t \in Nat /\ t < BlockDim /\ BlockDim \in Nat /\ WarpSize \in Nat \ {0}
  BY Shapes, WarpSizes DEF Thread
<1>2. w \in Nat /\ Lane(t) \in 1 .. WarpSize - 1 /\ t = WarpSize * w + Lane(t) /\ WarpSize * w \in Nat
  <2>1. w \in Nat /\ Lane(t) \in 0 .. WarpSize - 1 /\ t = WarpSize * w + Lane(t)
    BY <1>1, Coordinates
  <2>2. WarpSize * w \in Nat
    BY <1>1, <2>1, Products
  <2>3. Lane(t) \in 1 .. WarpSize - 1
    BY <1>1, <2>1
  <2> QED
    BY <2>1, <2>2, <2>3
<1>3. PICK k \in 2 .. Log + 1 : Width(k) <= Lane(t) /\ Lane(t) < 2 * Width(k)
  BY <1>2, LaneIsTaken
<1>4. Width(k) \in Nat \ {0}
  BY Widths
<1> DEFINE l == Lane(t) - Width(k)
           u == WarpSize * w + l
<1>5. l \in 0 .. WarpSize - 1 /\ l < Width(k)
  BY <1>1, <1>2, <1>3, <1>4
<1>6. u \in Nat /\ Warp(u) = w /\ Lane(u) = l
  BY <1>2, <1>5, ThreadAt
<1>7. u \in Thread /\ t = u + Width(k)
  BY <1>1, <1>2, <1>3, <1>4, <1>5 DEF Thread
<1>8. FullyPopulated(u) /\ Works(u, k)
  <2>1. FullyPopulated(u)
    BY <1>6 DEF FullyPopulated
  <2> QED
    BY <1>5, <1>6, <2>1, StageCases DEF Works
<1>9. Takes(u, k, t)
  BY <1>7, <1>8 DEF Takes
<1> QED
  BY <1>7, <1>9

\* A first lane is taken over from when the warps are paired only.
LEMMA FirstsStay ==
    ASSUME Running, NEW t \in Thread, Lane(t) = 0, NEW u \in Thread, NEW k, Takes(u, k, t)
    PROVE  k = Pairs /\ IsFullBlock /\ Warp(t) \notin {0, 1}
<1>1. t \in Nat /\ u \in Nat /\ Lane(u) \in Nat
  BY Shapes, LanesAndWarps
<1>2. Works(u, k) /\ k \in {Seed, Pairs} \cup 2 .. Log + 1 /\ t # u
  BY TakesIs
<1>3. k # Seed
  BY <1>1, <1>2, TakesIs, OneThread
<1>4. k \notin 2 .. Log + 1
  <2> SUFFICES ASSUME k \in 2 .. Log + 1 PROVE FALSE
    OBVIOUS
  <2>1. Lane(t) = Lane(u) + Width(k) /\ Width(k) \in Nat \ {0}
    BY TakesIs, Widths
  <2> QED
    BY <1>1, <2>1
<1>5. k = Pairs
  BY <1>2, <1>3, <1>4
<1>6. u \in {0, 1} /\ Warp(t) = u + 2
  BY <1>5, TakesIs
<1>7. IsFullBlock
  BY <1>2, <1>5, Pairing
<1> QED
  BY <1>5, <1>6, <1>7

\* Half of the block's lanes after half are gone, the first of a warp excepted.
LEMMA LanesGone ==
    ASSUME Placed, NEW t \in Live, \A u \in Thread : at[u] >= Pairs
    PROVE  Lane(t) = 0
<1> SUFFICES ASSUME Lane(t) # 0 PROVE Taken(t)
  BY DEF Live
<1>1. t \in Thread /\ t \in Nat /\ Running /\ Lane(t) \in Nat
  BY Shapes, LanesAndWarps DEF Live, Placed
<1>2. \A u \in Thread : at[u] \in Nat /\ at[u] >= Pairs
  BY StageNumbers DEF Placed
<1>3. CASE FullyPopulated(t)
  <2>1. PICK u \in Thread, k \in 2 .. Log + 1 : Takes(u, k, t)
    BY <1>1, <1>3, HalvedAway
  <2>2. k \in 0 .. Out /\ at[u] > k
    BY <1>2, StageCases, StageNumbers
  <2> QED
    BY <2>1, <2>2 DEF Taken
<1>4. CASE ~FullyPopulated(t)
  <2> DEFINE u == WarpSize * Warp(t)
  <2>1. /\ u \in Nat /\ Warp(u) = Warp(t) /\ Lane(u) = 0
        /\ t = u + Lane(t) /\ t < BlockDim /\ BlockDim \in Nat
    BY <1>1, FirstLane, Coordinates, Shapes DEF Thread
  <2>2. u \in Thread
    BY <1>1, <2>1 DEF Thread
  <2>3. ~FullyPopulated(u)
    BY <1>4, <2>1 DEF FullyPopulated
  <2>4. Takes(u, Seed, t)
    BY <1>1, <2>1, <2>3 DEF Takes
  <2>5. Seed \in 0 .. Out /\ at[u] > Seed
    BY <1>2, <2>2, StageNumbers
  <2> QED
    BY <2>2, <2>4, <2>5 DEF Taken
<1> QED
  BY <1>3, <1>4

\* Before thread 0 makes the total, every warp is through with its row; what
\* is left is in the first cells of the rows it reads.
LEMMA TotalReads ==
    ASSUME Placed, NEW t \in Thread, at[t] = Total, Ready(t)
    PROVE  /\ t = 0
           /\ \A u \in Thread : at[u] >= Pairs
           /\ Reads(t) = {Spot(u) : u \in Live}
<1>1. /\ Running /\ Thread \subseteq Nat /\ 0 \in Thread /\ DOMAIN at = Thread
      /\ WarpSize \in Nat \ {0, 1} /\ BlockDim \in Nat
      /\ \A u \in Thread : at[u] \in 0 .. Out /\ at[u] \in Nat
  BY Shapes, WarpSizes, StageNumbers DEF Placed
<1>2. t = 0
  <2>1. Works(t, Total)
    BY DEF Placed
  <2> QED
    BY <2>1, StageNumbers DEF Works
<1>3. \A u \in Thread : Awaits(0, Total, u) => at[u] >= Total
  <2>1. \A u \in Thread : at[u] < Total => ~Awaits(0, Total, u)
    BY <1>1, <1>2 DEF Ready
  <2> QED
    BY <1>1, <2>1, StageNumbers
<1>4. \A u \in Thread : at[u] >= Pairs
  <2>1. CASE IsFullBlock
    <3>1. Works(0, Pairs) /\ at[0] > Pairs /\ Pairs \in 0 .. Out
      BY <1>2, <2>1, StageNumbers DEF Works
    <3>2. \A u \in Thread : Awaits(0, Pairs, u)
      BY DEF Awaits
    <3> QED
      BY <1>1, <3>1, <3>2 DEF Placed, Passed
  <2>2. CASE ~IsFullBlock
    <3>1. \A u \in Thread : at[u] >= Total
      BY <1>3, <2>2 DEF Awaits
    <3> QED
      BY <1>1, <3>1, StageNumbers
  <2> QED
    BY <2>1, <2>2
<1>5. \A u \in Live : u \in Thread /\ u \in Nat /\ Lane(u) = 0 /\ u = WarpSize * Warp(u) /\ Warp(u) \in Nat
  <2> SUFFICES ASSUME NEW u \in Live
               PROVE  u \in Thread /\ u \in Nat /\ Lane(u) = 0 /\ u = WarpSize * Warp(u) /\ Warp(u) \in Nat
    OBVIOUS
  <2>1. u \in Thread /\ u \in Nat /\ Lane(u) = 0
    BY <1>1, <1>4, LanesGone DEF Live
  <2>2. u = WarpSize * Warp(u) + Lane(u) /\ Warp(u) \in Nat /\ WarpSize * Warp(u) \in Nat
    BY <1>1, <2>1, Coordinates, Products
  <2> QED
    BY <2>1, <2>2
<1>6. CASE IsFullBlock
  <2>1. BlockDim = WarpSize * 4
    BY <1>1, <1>6 DEF IsFullBlock, BlockSize, NumWarps
  <2>2. Reads(t) = {<<0, 0>>, <<1, 0>>}
    BY <1>6, StageNumbers DEF Reads
  <2>3. 1 \in Thread /\ at[0] > Pairs /\ at[1] > Pairs
    <3>1. 1 \in Thread
      BY <1>1, <2>1 DEF Thread
    <3>2. Awaits(0, Total, 1)
      BY FirstWarp DEF Awaits
    <3> QED
      BY <1>1, <1>2, <1>3, <3>1, <3>2, StageNumbers
  <2>4. ASSUME NEW u \in Live PROVE Warp(u) \in {0, 1}
    <3>1. u \in Thread /\ u = WarpSize * Warp(u) /\ Warp(u) \in Nat
      BY <1>5
    <3>2. Warp(u) < 4
      <4>1. 4 <= Warp(u) => WarpSize * 4 <= WarpSize * Warp(u)
        BY <1>1, <3>1, Products
      <4>2. WarpSize * Warp(u) < WarpSize * 4
        BY <1>1, <2>1, <3>1 DEF Thread
      <4>3. WarpSize * Warp(u) \in Nat
        BY <1>1, <3>1
      <4> QED
        BY <1>1, <3>1, <4>1, <4>2, <4>3
    <3>3. ASSUME NEW v \in {0, 1}, Warp(u) = v + 2 PROVE FALSE
      <4>1. Works(v, Pairs)
        BY <1>6, StageNumbers DEF Works
      <4>2. Takes(v, Pairs, u)
        BY <3>1, <3>3, <4>1 DEF Takes
      <4>3. v \in Thread /\ at[v] > Pairs /\ Pairs \in 0 .. Out
        BY <1>1, <2>3, StageNumbers
      <4>4. Taken(u)
        BY <4>2, <4>3 DEF Taken
      <4> QED
        BY <4>4 DEF Live
    <3> QED
      BY <3>1, <3>2, <3>3
  <2>5. ASSUME NEW w \in {0, 1} PROVE \E u \in Live : Spot(u) = <<w, 0>>
    <3> DEFINE u == WarpSize * w
    <3>1. u \in Nat /\ Warp(u) = w /\ Lane(u) = 0
      BY FirstLane
    <3>2. WarpSize * w + WarpSize <= WarpSize * 4
      BY <1>1, Products
    <3>3. u \in Thread
      BY <1>1, <2>1, <3>1, <3>2 DEF Thread
    <3>4. u \in Live
      BY <1>1, <3>1, <3>3, FirstsStay DEF Live, Taken
    <3> QED
      BY <3>1, <3>4 DEF Spot
  <2>6. \A u \in Live : Spot(u) \in {<<0, 0>>, <<1, 0>>}
    BY <1>5, <2>4 DEF Spot
  <2> QED
    BY <1>2, <1>4, <2>2, <2>5, <2>6
<1>7. CASE ~IsFullBlock
  <2>1. Reads(t) = {<<w, 0>> : w \in 0 .. ActiveWarps - 1}
    BY <1>7, StageNumbers DEF Reads
  <2> DEFINE n == BlockDim + WarpSize - 1
  <2>2. /\ ActiveWarps \in Nat /\ n \in Nat /\ WarpSize * ActiveWarps \in Nat
        /\ WarpSize * ActiveWarps <= n /\ n < WarpSize * ActiveWarps + WarpSize
    <3>1. n \in Nat /\ ActiveWarps = n \div WarpSize
      BY <1>1 DEF ActiveWarps
    <3>2. /\ n \div WarpSize \in Nat /\ n % WarpSize \in 0 .. WarpSize - 1
          /\ n = WarpSize * (n \div WarpSize) + (n % WarpSize)
      BY <1>1, <3>1, Division
    <3>3. WarpSize * ActiveWarps \in Nat
      BY <1>1, <3>1, <3>2, Products
    <3> QED
      BY <1>1, <3>1, <3>2, <3>3
  <2>3. ASSUME NEW u \in Live PROVE Spot(u) \in Reads(t)
    <3>1. u \in Thread /\ u = WarpSize * Warp(u) /\ Warp(u) \in Nat /\ Lane(u) = 0
      BY <1>5
    <3>2. WarpSize * Warp(u) \in Nat /\ WarpSize * Warp(u) < BlockDim
      BY <1>1, <3>1 DEF Thread
    <3>3. ~(ActiveWarps <= Warp(u))
      <4>1. ActiveWarps <= Warp(u) => WarpSize * ActiveWarps <= WarpSize * Warp(u)
        BY <1>1, <2>2, <3>1, Products
      <4> QED
        BY <1>1, <2>2, <3>2, <4>1
    <3>4. Warp(u) \in 0 .. ActiveWarps - 1
      BY <2>2, <3>1, <3>3
    <3> QED
      BY <2>1, <3>1, <3>4 DEF Spot
  <2>4. ASSUME NEW w \in 0 .. ActiveWarps - 1 PROVE \E u \in Live : Spot(u) = <<w, 0>>
    <3> DEFINE u == WarpSize * w
    <3>1. w \in Nat /\ w < ActiveWarps
      BY <2>2
    <3>2. u \in Nat /\ Warp(u) = w /\ Lane(u) = 0
      BY <3>1, FirstLane
    <3>3. u + WarpSize <= WarpSize * ActiveWarps
      BY <1>1, <2>2, <3>1, Products
    <3>4. u \in Thread
      BY <1>1, <2>2, <3>2, <3>3 DEF Thread
    <3>5. u \in Live
      BY <1>1, <1>7, <3>2, <3>4, FirstsStay DEF Live, Taken
    <3> QED
      BY <3>2, <3>5 DEF Spot
  <2> QED
    BY <1>2, <1>4, <2>1, <2>3, <2>4
<1> QED
  BY <1>6, <1>7

\* The total is all that the block is due.
LEMMA TotalIs ==
    ASSUME Placed, NEW t \in Thread, at[t] = Total, Ready(t), NEW U, Split(Holding, Live, U)
    PROVE  t = 0 /\ Computed(t) = SetToBag(U)
<1>1. /\ t = 0 /\ \A u \in Thread : at[u] >= Pairs
      /\ Reads(t) = {Spot(u) : u \in Live}
  BY TotalReads
<1>2. Live \in SUBSET Live /\ Live \subseteq Thread
  BY DEF Live
<1>3. \A u \in Live : ~Pending(u)
  <2>1. \A u \in Thread : at[u] \in Nat /\ at[u] > Seed
    BY <1>1, StageNumbers DEF Placed
  <2> QED
    BY <1>2, <2>1, StageNumbers DEF Pending
<1>4. Reads(t) # {}
  <2>1. 0 \in Thread /\ Lane(0) = 0 /\ Warp(0) = 0 /\ Running
    <3>1. WarpSize \in Nat /\ WarpSize * 0 = 0
      BY WarpSizes
    <3> QED
      BY <3>1, Shapes, FirstLane DEF Placed
  <2>2. 0 \in Live
    BY <2>1, FirstsStay DEF Live, Taken
  <2> QED
    BY <1>1, <2>2
<1>5. Computed(t) = SetToBag(UNION {DOMAIN Holding[u] : u \in Live})
  BY <1>1, <1>2, <1>3, <1>4, CellsFolded
<1> QED
  BY <1>1, <1>5 DEF Split

-----------------------------------------------------------------------------
(* What the blocks are to fold.                                            *)

\* The elements that the strided loop from index s reads.
Reached(s) == {e \in 1 .. SizeFull : \E n \in Nat : e = BlockSize * FullBlocks * n + s + 1}

FullPart(b) == UNION {Reached(BlockSize * b + t) : t \in 0 .. BlockSize - 1}

\* What a partial result is to be the bag of.
Part(i) ==
    IF i < FullBlocks THEN FullPart(i) \cup {e \in {0} : i = 0}
                      ELSE SizeFull + 1 .. size \cup {e \in {0} : FullBlocks = 0}

\* What the running block is to fold, the initial value aside.
Due ==
    CASE launch = "full" -> FullPart(block)
      [] launch = "partial" -> SizeFull + 1 .. size
      [] OTHER -> 0 .. size

\* The loops that start at different threads of the grid share no element.
LEMMA ReachedOnce ==
    ASSUME size \in Nat, FullBlocks > 0
    PROVE  LET step == BlockSize * FullBlocks
           IN  /\ step \in Nat \ {0} /\ step <= SizeFull
               /\ \A s, r \in 0 .. step - 1 : s # r => Reached(s) \cap Reached(r) = {}
               /\ \A e \in 1 .. SizeFull : \E s \in 0 .. step - 1 : e \in Reached(s)
<1> DEFINE step == BlockSize * FullBlocks
<1>1. BlockSize \in Nat \ {0} /\ FullBlocks \in Nat /\ SizeFull \in Nat /\ step <= SizeFull
  BY Arrays
<1>2. step \in Nat \ {0}
  <2>1. BlockSize * 0 + BlockSize <= BlockSize * FullBlocks /\ BlockSize * 0 = 0 /\ step \in Nat
    BY <1>1, Products
  <2> QED
    BY <1>1, <2>1
<1>3. \A s : Reached(s) = {e \in 1 .. SizeFull : \E n \in Nat : e = step * n + s + 1}
  BY DEF Reached
<1> HIDE DEF step
<1>4. ASSUME NEW s \in 0 .. step - 1, NEW r \in 0 .. step - 1, NEW e \in Reached(s), e \in Reached(r)
      PROVE  s = r
  <2>1. PICK n \in Nat : e = step * n + s + 1
    BY <1>3
  <2>2. PICK m \in Nat : e = step * m + r + 1
    BY <1>3, <1>4
  <2>3. step * n \in Nat /\ step * m \in Nat
    BY <1>2, Products
  <2>4. step * n + s = step * m + r
    BY <1>2, <2>1, <2>2, <2>3
  <2> QED
    BY <1>2, <2>4, OneWay
<1>5. ASSUME NEW e \in 1 .. SizeFull PROVE \E s \in 0 .. step - 1 : e \in Reached(s)
  <2> DEFINE n == (e - 1) \div step
             s == (e - 1) % step
  <2>1. e - 1 \in Nat
    BY <1>1
  <2>2. n \in Nat /\ s \in 0 .. step - 1 /\ e - 1 = step * n + s
    BY <1>2, <2>1, Division
  <2>3. step * n \in Nat
    BY <1>2, <2>2, Products
  <2> HIDE DEF n, s
  <2>4. e = step * n + s + 1
    BY <1>1, <1>2, <2>2, <2>3
  <2> QED
    BY <1>3, <2>2, <2>4
<1> QED
  BY <1>1, <1>2, <1>4, <1>5 DEF step

\* Every element is in the part of one full block.
LEMMA FullParts ==
    ASSUME size \in Nat
    PROVE  /\ \A b, c \in 0 .. FullBlocks - 1 : b # c => FullPart(b) \cap FullPart(c) = {}
           /\ UNION {FullPart(b) : b \in 0 .. FullBlocks - 1} = 1 .. SizeFull
<1>1. /\ BlockSize \in Nat \ {0} /\ FullBlocks \in Nat /\ SizeFull \in Nat
      /\ FullBlocks = 0 <=> SizeFull = 0
  BY Arrays
<1> DEFINE step == BlockSize * FullBlocks
<1>2. ASSUME NEW b \in 0 .. FullBlocks - 1, NEW t \in 0 .. BlockSize - 1
      PROVE  BlockSize * b + t \in 0 .. step - 1
  <2>1. b \in Nat /\ b < FullBlocks
    BY <1>1
  <2>2. BlockSize * b \in Nat /\ BlockSize * b + BlockSize <= step /\ step \in Nat
    BY <1>1, <2>1, Products
  <2> HIDE DEF step
  <2> QED
    BY <1>1, <2>2
<1>3. ASSUME NEW b \in 0 .. FullBlocks - 1, NEW c \in 0 .. FullBlocks - 1,
             NEW e \in FullPart(b), e \in FullPart(c)
      PROVE  b = c
  <2>1. PICK t \in 0 .. BlockSize - 1 : e \in Reached(BlockSize * b + t)
    BY DEF FullPart
  <2>2. PICK u \in 0 .. BlockSize - 1 : e \in Reached(BlockSize * c + u)
    BY <1>3 DEF FullPart
  <2>3. FullBlocks > 0
    BY <1>1
  <2>4. BlockSize * b + t \in 0 .. step - 1 /\ BlockSize * c + u \in 0 .. step - 1
    BY <1>2
  <2>5. BlockSize * b + t = BlockSize * c + u
    BY <2>1, <2>2, <2>3, <2>4, ReachedOnce
  <2>6. b \in Nat /\ c \in Nat
    BY <1>1
  <2> QED
    BY <1>1, <2>5, <2>6, OneWay
<1>4. ASSUME NEW e \in 1 .. SizeFull PROVE \E b \in 0 .. FullBlocks - 1 : e \in FullPart(b)
  <2>1. FullBlocks > 0
    BY <1>1
  <2>2. PICK s \in 0 .. step - 1 : e \in Reached(s)
    BY <2>1, ReachedOnce
  <2> DEFINE b == s \div BlockSize
             t == s % BlockSize
  <2>3. step \in Nat /\ s \in Nat /\ s < step
    <3>1. step \in Nat
      BY <1>1, Products
    <3> HIDE DEF step
    <3> QED
      BY <3>1
  <2>4. b \in Nat /\ t \in 0 .. BlockSize - 1 /\ s = BlockSize * b + t
    BY <1>1, <2>3, Division
  <2> HIDE DEF b, t
  <2>5. ~(FullBlocks <= b)
    <3>1. FullBlocks <= b => step <= BlockSize * b
      BY <1>1, <2>4, Products
    <3>2. BlockSize * b \in Nat
      BY <1>1, <2>4, Products
    <3> HIDE DEF step
    <3> QED
      BY <1>1, <2>3, <2>4, <3>1, <3>2
  <2>6. b \in 0 .. FullBlocks - 1
    BY <1>1, <2>4, <2>5
  <2> QED
    BY <2>2, <2>4, <2>6 DEF FullPart
<1>5. \A b : FullPart(b) \subseteq 1 .. SizeFull
  BY DEF FullPart, Reached
<1> QED
  BY <1>3, <1>4, <1>5

\* The partial results are to share the array and the initial value out.
LEMMA Parts ==
    ASSUME size \in Nat \ {0}
    PROVE  /\ PartialsSize > 0
           /\ \A i, j \in 0 .. PartialsSize - 1 : i # j => Part(i) \cap Part(j) = {}
           /\ UNION {Part(i) : i \in 0 .. PartialsSize - 1} = 0 .. size
<1>1. /\ FullBlocks \in Nat /\ SizeFull \in Nat /\ SizePartial \in Nat /\ SizeFull + SizePartial = size
      /\ FullBlocks = 0 <=> SizeFull = 0
      /\ PartialsSize = FullBlocks + (IF SizePartial > 0 THEN 1 ELSE 0)
  BY Arrays
<1>2. /\ \A b, c \in 0 .. FullBlocks - 1 : b # c => FullPart(b) \cap FullPart(c) = {}
      /\ UNION {FullPart(b) : b \in 0 .. FullBlocks - 1} = 1 .. SizeFull
  BY FullParts
<1>3. \A b \in 0 .. FullBlocks - 1 : FullPart(b) \subseteq 1 .. SizeFull
  BY <1>2
<1>4. PartialsSize \in Nat /\ PartialsSize > 0
  BY <1>1
<1>5. \A i \in 0 .. PartialsSize - 1 :
          \/ i \in 0 .. FullBlocks - 1 /\ i < FullBlocks
          \/ i = FullBlocks /\ ~(i < FullBlocks) /\ SizePartial > 0
  BY <1>1
<1>6. \A i \in 0 .. FullBlocks - 1 : Part(i) = FullPart(i) \cup {e \in {0} : i = 0}
  BY <1>1 DEF Part
<1>7. Part(FullBlocks) = SizeFull + 1 .. size \cup {e \in {0} : FullBlocks = 0}
  BY <1>1 DEF Part
<1>8. ASSUME NEW i \in 0 .. PartialsSize - 1, NEW j \in 0 .. PartialsSize - 1, i # j,
             NEW e \in Part(i), e \in Part(j)
      PROVE  FALSE
  <2>1. CASE i < FullBlocks /\ j < FullBlocks
    <3>1. i \in 0 .. FullBlocks - 1 /\ j \in 0 .. FullBlocks - 1
      BY <1>1, <2>1
    <3>2. e \in 1 .. SizeFull \/ (e = 0 /\ i = 0)
      BY <1>3, <1>6, <1>8, <3>1
    <3>3. e \in 1 .. SizeFull \/ (e = 0 /\ j = 0)
      BY <1>3, <1>6, <1>8, <3>1
    <3>4. e # 0
      BY <1>1, <1>8, <3>2, <3>3
    <3>5. e \in FullPart(i) /\ e \in FullPart(j)
      BY <1>6, <1>8, <3>1, <3>4
    <3> QED
      BY <1>2, <1>8, <3>1, <3>5
  <2>2. ASSUME NEW a \in 0 .. FullBlocks - 1, e \in Part(a), e \in Part(FullBlocks) PROVE FALSE
    <3>1. e \in 1 .. SizeFull \/ e = 0
      BY <1>3, <1>6, <2>2
    <3>2. e \in SizeFull + 1 .. size \/ (e = 0 /\ FullBlocks = 0)
      BY <1>7, <2>2
    <3> QED
      BY <1>1, <3>1, <3>2
  <2>3. CASE ~(i < FullBlocks)
    <3>1. i = FullBlocks /\ j \in 0 .. FullBlocks - 1
      BY <1>5, <1>8, <2>3
    <3> QED
      BY <1>8, <2>2, <3>1
  <2>4. CASE ~(j < FullBlocks)
    <3>1. j = FullBlocks /\ i \in 0 .. FullBlocks - 1
      BY <1>5, <1>8, <2>4
    <3> QED
      BY <1>8, <2>2, <3>1
  <2> QED
    BY <2>1, <2>3, <2>4
<1>9. ASSUME NEW e \in 0 .. size PROVE \E i \in 0 .. PartialsSize - 1 : e \in Part(i)
  <2>1. CASE e \in 1 .. SizeFull
    <3>1. PICK b \in 0 .. FullBlocks - 1 : e \in FullPart(b)
      BY <1>2, <2>1
    <3>2. b \in 0 .. PartialsSize - 1
      BY <1>1
    <3> QED
      BY <1>6, <3>1, <3>2
  <2>2. CASE e \in SizeFull + 1 .. size
    <3>1. SizePartial > 0
      BY <1>1, <2>2
    <3>2. FullBlocks \in 0 .. PartialsSize - 1
      BY <1>1, <3>1
    <3> QED
      BY <1>7, <2>2, <3>2
  <2>3. CASE e = 0
    <3>1. 0 \in 0 .. PartialsSize - 1
      BY <1>4
    <3>2. 0 \in Part(0)
      <4>1. CASE FullBlocks = 0
        BY <1>7, <4>1
      <4>2. CASE FullBlocks # 0
        BY <1>1, <1>6, <4>2
      <4> QED
        BY <4>1, <4>2
    <3> QED
      BY <2>3, <3>1, <3>2
  <2> QED
    BY <1>1, <2>1, <2>2, <2>3
<1>10. ASSUME NEW i \in 0 .. PartialsSize - 1, NEW e \in Part(i) PROVE e \in 0 .. size
  <2>1. CASE i < FullBlocks
    <3>1. i \in 0 .. FullBlocks - 1
      BY <1>1, <2>1
    <3>2. e \in 1 .. SizeFull \/ e = 0
      BY <1>3, <1>6, <3>1
    <3> QED
      BY <1>1, <3>2
  <2>2. CASE ~(i < FullBlocks)
    <3>1. i = FullBlocks
      BY <1>5, <2>2
    <3>2. e \in SizeFull + 1 .. size \/ e = 0
      BY <1>7, <3>1
    <3> QED
      BY <1>1, <3>2
  <2> QED
    BY <2>1, <2>2
<1>11. UNION {Part(i) : i \in 0 .. PartialsSize - 1} = 0 .. size
  BY <1>9, <1>10
<1> QED
  BY <1>4, <1>8, <1>11

\* The strided loop folds what can be reached from where it starts.
LEMMA FullValue ==
    ASSUME Running, launch = "full", block \in 0 .. FullBlocks - 1, NEW t \in Thread
    PROVE  Value(t) = SetToBag(Reached(BlockSize * block + t))
<1> DEFINE step == BlockSize * FullBlocks
           s == BlockSize * block + t
           m == (SizeFull - 1 - s) \div step
           h == [n \in 1 .. m |-> Unit(step * n + s + 1)]
           U == {step * n + s + 1 : n \in 1 .. m}
<1>1. /\ BlockSize \in Nat \ {0} /\ FullBlocks \in Nat /\ SizeFull \in Nat /\ step <= SizeFull
      /\ IsFullBlock /\ GridDim = FullBlocks /\ t \in 0 .. BlockSize - 1
  BY Arrays, Shapes DEF Running, Thread
<1>2. block \in Nat /\ block < FullBlocks /\ FullBlocks > 0
  BY <1>1
<1>3. BlockSize * block \in Nat /\ BlockSize * block + BlockSize <= step /\ step \in Nat
  BY <1>1, <1>2, Products
<1> HIDE DEF step
<1>4. s \in Nat /\ s < step /\ step \in Nat \ {0} /\ SizeFull - 1 - s \in Nat
  BY <1>1, <1>3
<1>5. t + BlockSize * block = s /\ BlockSize * GridDim = step
  BY <1>1, <1>3 DEF step
<1> HIDE DEF s
<1>6. Value(t) = BagFold(Arr(s), [n \in 1 .. m |-> Arr(s + n * step)])
  BY <1>1, <1>5 DEF Value
<1>7. m \in Nat /\ step * m <= SizeFull - 1 - s /\ SizeFull - 1 - s < step * m + step /\ step * m \in Nat
  <2> DEFINE r == (SizeFull - 1 - s) % step
  <2>1. m \in Nat /\ r \in 0 .. step - 1 /\ SizeFull - 1 - s = step * m + r
    BY <1>4, Division
  <2>2. step * m \in Nat
    BY <1>4, <2>1, Products
  <2> HIDE DEF m, r
  <2> QED
    BY <1>4, <2>1, <2>2
<1> HIDE DEF m
<1>8. \A n \in Nat : step * n \in Nat /\ n * step = step * n
  <2>1. \A a, b \in Nat : a * b \in Nat /\ b * a = a * b
    BY SMT
  <2> QED
    BY <1>4, <2>1
<1>9. /\ Arr(s) = SetToBag({s + 1})
      /\ \A n \in 1 .. m : Arr(s + n * step) = Unit(step * n + s + 1)
  <2>1. \A i : Arr(i) = Unit(i + 1)
    BY DEF Arr
  <2>2. \A n \in 1 .. m : s + n * step + 1 = step * n + s + 1
    BY <1>4, <1>7, <1>8
  <2> QED
    BY <2>1, <2>2 DEF Unit
<1>10. Value(t) = BagFold(SetToBag({s + 1}), h)
  <2>1. [n \in 1 .. m |-> Arr(s + n * step)] = h
    BY <1>9
  <2> HIDE DEF h
  <2> QED
    BY <1>6, <1>9, <2>1
<1>11. Split(h, DOMAIN h, U)
  <2>1. DOMAIN h = 1 .. m /\ \A n \in 1 .. m : h[n] = SetToBag({step * n + s + 1})
    BY DEF Unit
  <2> HIDE DEF h
  <2>2. \A n \in 1 .. m : DOMAIN h[n] = {step * n + s + 1}
    BY <2>1, SetBags
  <2>3. ASSUME NEW n \in 1 .. m, NEW p \in 1 .. m, n # p PROVE step * n + s + 1 # step * p + s + 1
    <3>1. n \in Nat /\ p \in Nat /\ step * n \in Nat /\ step * p \in Nat
      BY <1>7, <1>8
    <3>2. n < p => step * n + step <= step * p
      BY <1>4, <3>1, Products
    <3>3. p < n => step * p + step <= step * n
      BY <1>4, <3>1, Products
    <3> QED
      BY <1>4, <2>3, <3>1, <3>2, <3>3
  <2>4. \A n, p \in 1 .. m : n # p => DOMAIN h[n] \cap DOMAIN h[p] = {}
    BY <2>2, <2>3
  <2>5. UNION {DOMAIN h[n] : n \in 1 .. m} = U
    BY <2>2
  <2> QED
    BY <2>1, <2>2, <2>4, <2>5 DEF Split
<1>12. IsFiniteSet(DOMAIN h)
  <2>1. IsFiniteSet(1 .. m)
    BY <1>7, FS_Interval
  <2> QED
    BY <2>1
<1>13. {s + 1} \cap U = {}
  <2>1. ASSUME NEW n \in 1 .. m PROVE s + 1 # step * n + s + 1
    <3>1. n \in Nat /\ n > 0 /\ step * 0 = 0
      BY <1>4, <1>7
    <3>2. step * 0 + step <= step * n /\ step * n \in Nat
      BY <1>4, <3>1, Products
    <3> QED
      BY <1>4, <3>1, <3>2
  <2> QED
    BY <2>1
<1>14. Value(t) = SetToBag({s + 1} \cup U)
  <2> HIDE DEF h, U
  <2> QED
    BY <1>10, <1>11, <1>12, <1>13, BagFoldIs
<1>15. {s + 1} \cup U = Reached(s)
  <2>1. Reached(s) = {e \in 1 .. SizeFull : \E n \in Nat : e = step * n + s + 1}
    BY DEF Reached, step
  <2>2. ASSUME NEW e \in {s + 1} \cup U PROVE e \in Reached(s)
    <3>1. PICK n \in 0 .. m : e = step * n + s + 1
      <4>1. CASE e = s + 1
        <5>1. step * 0 = 0 /\ 0 \in 0 .. m
          BY <1>4, <1>7
        <5>2. e = step * 0 + s + 1
          BY <1>4, <4>1, <5>1
        <5> QED
          BY <5>1, <5>2
      <4>2. CASE e \in U
        <5>1. PICK n \in 1 .. m : e = step * n + s + 1
          BY <4>2
        <5>2. n \in 0 .. m
          BY <1>7
        <5> QED
          BY <5>1, <5>2
      <4> QED
        BY <4>1, <4>2
    <3>2. n \in Nat /\ n <= m /\ step * n \in Nat
      BY <1>7, <1>8
    <3>3. step * n <= step * m
      BY <1>4, <1>7, <3>2, Products
    <3>4. e \in 1 .. SizeFull
      BY <1>1, <1>4, <1>7, <3>1, <3>2, <3>3
    <3> QED
      BY <2>1, <3>1, <3>2, <3>4
  <2>3. ASSUME NEW e \in Reached(s) PROVE e \in {s + 1} \cup U
    <3>1. PICK n \in Nat : e = step * n + s + 1
      BY <2>1
    <3>2. e \in 1 .. SizeFull /\ step * n \in Nat
      BY <1>8, <2>1
    <3>3. n <= m
      <4>1. m < n => step * m + step <= step * n
        BY <1>4, <1>7, Products
      <4> QED
        BY <1>1, <1>4, <1>7, <3>1, <3>2, <4>1
    <3>4. CASE n = 0
      <4>1. step * n = 0
        BY <1>4, <3>4
      <4> QED
        BY <1>4, <3>1, <4>1
    <3>5. CASE n # 0
      <4>1. n \in 1 .. m
        BY <1>7, <3>3, <3>5
      <4> QED
        BY <3>1, <4>1
    <3> QED
      BY <3>4, <3>5
  <2> HIDE DEF U
  <2> QED
    BY <2>2, <2>3
<1> QED
  BY <1>14, <1>15 DEF s

\* The partial results that the last launch starts from.
PartsRight == \A i \in 0 .. PartialsSize - 1 : partials[i] = SetToBag(Part(i))

\* The threads' own values are what the block is due, each of it once.
LEMMA ValuesSplit ==
    ASSUME Running, block \in 0 .. GridDim - 1, launch = "finish" => PartsRight
    PROVE  Split([t \in Thread |-> Value(t)], Thread, Due)
<1> DEFINE h == [t \in Thread |-> Value(t)]
<1>1. CASE launch = "full"
  <2>1. /\ IsFullBlock /\ GridDim = FullBlocks /\ Thread = 0 .. BlockSize - 1
        /\ size \in Nat /\ FullBlocks \in Nat /\ BlockSize \in Nat \ {0}
    BY <1>1, Arrays, Shapes DEF Running, Thread
  <2>2. \A t \in Thread : h[t] = SetToBag(Reached(BlockSize * block + t))
    BY <1>1, <2>1, FullValue
  <2>3. \A t \in Thread : DOMAIN h[t] = Reached(BlockSize * block + t)
    BY <2>2, SetBags
  <2> HIDE DEF h
  <2>4. ASSUME NEW t \in Thread, NEW u \in Thread, t # u
        PROVE  Reached(BlockSize * block + t) \cap Reached(BlockSize * block + u) = {}
    <3> DEFINE step == BlockSize * FullBlocks
    <3>1. block \in Nat /\ block < FullBlocks
      BY <2>1
    <3>2. BlockSize * block \in Nat /\ BlockSize * block + BlockSize <= step /\ step \in Nat
      BY <2>1, <3>1, Products
    <3>3. FullBlocks > 0
      BY <2>1
    <3>4. \A s, r \in 0 .. step - 1 : s # r => Reached(s) \cap Reached(r) = {}
      BY <2>1, <3>3, ReachedOnce
    <3> HIDE DEF step
    <3>5. /\ BlockSize * block + t \in 0 .. step - 1
          /\ BlockSize * block + u \in 0 .. step - 1
          /\ BlockSize * block + t # BlockSize * block + u
      BY <2>1, <2>4, <3>2
    <3> QED
      BY <3>4, <3>5
  <2>5. UNION {DOMAIN h[t] : t \in Thread} = FullPart(block)
    BY <2>1, <2>3 DEF FullPart
  <2>6. Due = FullPart(block)
    BY <1>1 DEF Due
  <2>7. Split(h, Thread, Due)
    BY <2>2, <2>3, <2>4, <2>5, <2>6 DEF Split
  <2> QED
    BY <2>7 DEF h
<1>2. CASE launch = "partial"
  <2>1. /\ ~IsFullBlock /\ Thread = 0 .. SizePartial - 1
        /\ SizeFull \in Nat /\ SizePartial \in Nat /\ SizeFull + SizePartial = size
    <3>1. BlockDim = SizePartial
      BY <1>2 DEF BlockDim
    <3> QED
      BY <1>2, <3>1, Arrays, Shapes DEF Running, Thread
  <2>2. \A t \in Thread : h[t] = SetToBag({SizeFull + t + 1})
    BY <1>2, <2>1 DEF Value, Arr, Unit
  <2>3. \A t \in Thread : DOMAIN h[t] = {SizeFull + t + 1}
    BY <2>2, SetBags
  <2> HIDE DEF h
  <2>4. \A t, u \in Thread : t # u => DOMAIN h[t] \cap DOMAIN h[u] = {}
    BY <2>1, <2>3
  <2>5. UNION {DOMAIN h[t] : t \in Thread} = SizeFull + 1 .. size
    <3>1. \A t \in Thread : SizeFull + t + 1 \in SizeFull + 1 .. size
      BY <2>1
    <3>2. \A e \in SizeFull + 1 .. size : e - SizeFull - 1 \in Thread /\ e = SizeFull + (e - SizeFull - 1) + 1
      BY <2>1
    <3> QED
      BY <2>3, <3>1, <3>2
  <2>6. Due = SizeFull + 1 .. size
    BY <1>2 DEF Due
  <2>7. Split(h, Thread, Due)
    BY <2>2, <2>3, <2>4, <2>5, <2>6 DEF Split
  <2> QED
    BY <2>7 DEF h
<1>3. CASE launch = "finish"
  <2>1. ~IsFullBlock /\ Thread = 0 .. PartialsSize - 1 /\ size \in Nat \ {0}
    <3>1. BlockDim = PartialsSize
      BY <1>3 DEF BlockDim
    <3>2. PartialsSize > 1 /\ size \in Nat
      BY <1>3 DEF Running, Shaped
    <3>3. size # 0
      <4>1. /\ SizeFull \in Nat /\ SizePartial \in Nat /\ SizeFull + SizePartial = size
            /\ FullBlocks = 0 <=> SizeFull = 0
            /\ PartialsSize = FullBlocks + (IF SizePartial > 0 THEN 1 ELSE 0)
        BY <3>2, Arrays
      <4> QED
        BY <3>2, <4>1
    <3> QED
      BY <1>3, <3>1, <3>2, <3>3, Shapes DEF Thread
  <2>2. \A t \in Thread : h[t] = SetToBag(Part(t))
    BY <1>3, <2>1 DEF Value, Arr, PartsRight
  <2>3. \A t \in Thread : DOMAIN h[t] = Part(t)
    BY <2>2, SetBags
  <2> HIDE DEF h
  <2>4. Due = 0 .. size
    BY <1>3 DEF Due
  <2>5. Split(h, Thread, Due)
    BY <2>1, <2>2, <2>3, <2>4, Parts DEF Split
  <2> QED
    BY <2>5 DEF h
<1> QED
  BY <1>1, <1>2, <1>3 DEF Running

-----------------------------------------------------------------------------
(* The call: its launches, one after the other.                            *)

Ended == 0 \in DOMAIN at /\ at[0] = Out

\* What the launches have made of partial result i is what it should be.
Written(i) ==
    \/ launch = "full" /\ i < FullBlocks /\ i \notin left /\ (i = block => Ended)
    \/ launch = "partial" /\ i < FullBlocks
    \/ launch = "partial" /\ Ended
    \/ launch = "finish" /\ ~Ended

\* The running block is one of its grid; until it ends, what its threads and
\* cells hold is what it is due.
BlockRuns ==
    /\ Placed
    /\ block \in 0 .. GridDim - 1 /\ left \subseteq (0 .. GridDim - 1) \ {block}
    /\ ~Ended => Split(Holding, Live, Due)

CallInv ==
    /\ size \in Nat /\ Shaped
    /\ DOMAIN partials = 0 .. PartialsSize - 1
    /\ ~Running => left = {} /\ at = <<>>
    /\ Running => BlockRuns \/ (at = <<>> /\ left = 0 .. GridDim - 1)
    /\ \A i \in 0 .. PartialsSize - 1 : Written(i) => partials[i] = SetToBag(Part(i))
    /\ launch = "finish" /\ Ended => partials[0] = SetToBag(0 .. size)
    /\ launch = "done" => result = SetToBag(0 .. size)

LEMMA PartStays ==
    ASSUME size' = size
    PROVE  /\ SizeFull' = SizeFull /\ SizePartial' = SizePartial
           /\ PartialsSize' = PartialsSize /\ FullBlocks' = FullBlocks
           /\ \A b : FullPart(b)' = FullPart(b)
           /\ \A i : Part(i)' = Part(i)
<1>1. /\ SizeFull' = SizeFull /\ SizePartial' = SizePartial
      /\ PartialsSize' = PartialsSize /\ FullBlocks' = FullBlocks
  BY DEF SizeFull, SizePartial, PartialsSize, FullBlocks
<1>2. \A b : FullPart(b)' = FullPart(b)
  BY <1>1 DEF FullPart, Reached
<1> QED
  BY <1>1, <1>2 DEF Part

LEMMA DueStays ==
    ASSUME size' = size, launch' = launch, block' = block
    PROVE  Due' = Due
<1>1. SizeFull' = SizeFull /\ FullPart(block)' = FullPart(block)
  <2>1. SizeFull' = SizeFull /\ FullBlocks' = FullBlocks
    BY DEF SizeFull, FullBlocks
  <2> QED
    BY <2>1 DEF FullPart, Reached
<1> QED
  BY <1>1 DEF Due

\* A block begins with every thread before its own value.
LEMMA BlockBegins ==
    ASSUME Running, BeginBlock, block' \in 0 .. GridDim - 1, launch = "finish" => PartsRight
    PROVE  /\ Placed' /\ ~Ended' /\ Running' /\ GridDim' = GridDim
           /\ Split(Holding', Live', Due')
<1>1. /\ at' = [t \in Thread |-> NextWork(t, Store)]
      /\ sm' = [c \in Cell |-> Unwritten]
      /\ size' = size /\ launch' = launch /\ partials' = partials
  BY DEF BeginBlock
<1>2. /\ SizeFull' = SizeFull /\ SizePartial' = SizePartial
      /\ PartialsSize' = PartialsSize /\ FullBlocks' = FullBlocks
      /\ BlockDim' = BlockDim /\ GridDim' = GridDim
  <2>1. /\ SizeFull' = SizeFull /\ SizePartial' = SizePartial
        /\ PartialsSize' = PartialsSize /\ FullBlocks' = FullBlocks
    BY <1>1, PartStays
  <2> QED
    BY <1>1, <2>1 DEF BlockDim, GridDim
<1>3. /\ Thread' = Thread /\ IsFullBlock' = IsFullBlock /\ Running' = Running
      /\ \A u : FullyPopulated(u)' = FullyPopulated(u)
  BY <1>1, <1>2 DEF Thread, IsFullBlock, FullyPopulated, Running, Shaped
<1>4. \A u, k : Works(u, k)' = Works(u, k)
  BY <1>3 DEF Works
<1>5. \A u, k, t : Takes(u, k, t)' = Takes(u, k, t)
  BY <1>3, <1>4 DEF Takes
<1>6. \A t \in Thread : /\ at'[t] \in 0 .. Out /\ Works(t, at'[t])
                        /\ \A j \in 0 .. Out : Works(t, j) => at'[t] <= j
  BY <1>1, FirstWork, StageNumbers
<1>7. DOMAIN at' = Thread /\ at' \in [Thread -> 0 .. Out]
  BY <1>1, <1>6
<1>8. ASSUME NEW t \in Thread, NEW j \in 0 .. Out, at'[t] > j PROVE ~Works(t, j)
  BY <1>6, <1>8, StageNumbers
<1>9. Placed'
  <2>1. Passed'
    BY <1>3, <1>4, <1>7, <1>8 DEF Passed
  <2>2. DOMAIN sm' = Cell /\ Cell' = Cell
    BY <1>1 DEF Cell
  <2> QED
    BY <1>3, <1>4, <1>6, <1>7, <2>1, <2>2 DEF Placed
<1>10. Running'
  BY <1>3
<1>11. 0 \in Thread
  BY Shapes
<1>12. ASSUME NEW t \in Thread PROVE Pending(t)'
  <2>1. CASE FullyPopulated(t)
    <3>1. Works(t, Seed) /\ Seed \in 0 .. Out
      BY <2>1, StageNumbers DEF Works
    <3>2. at'[t] <= Seed
      BY <1>6, <3>1
    <3> QED
      BY <1>3, <2>1, <3>2 DEF Pending, Seed
  <2>2. CASE ~FullyPopulated(t)
    <3>1. Works(t, Store) /\ Store \in 0 .. Out
      BY <2>2, StageNumbers DEF Works, FullyPopulated
    <3>2. at'[t] <= Store
      BY <1>6, <3>1
    <3> QED
      BY <1>3, <2>2, <3>2 DEF Pending, Store
  <2> QED
    BY <2>1, <2>2
<1>13. Live' = Thread
  <2>1. ASSUME NEW t \in Thread PROVE ~Taken(t)'
    <3> SUFFICES ASSUME NEW u \in Thread, NEW k \in 0 .. Out, at'[u] > k, Takes(u, k, t)
                 PROVE  FALSE
      BY <1>3, <1>5 DEF Taken
    <3>1. Works(u, k)
      BY TakesIs
    <3> QED
      BY <1>8, <3>1
  <2> QED
    BY <1>3, <2>1 DEF Live
<1>14. ~Ended'
  <2>1. Pending(0)'
    BY <1>11, <1>12
  <2>2. Store' = Store /\ Seed' = Seed /\ Out' = Out
    BY DEF Store, Seed, Out
  <2>3. at'[0] <= (IF FullyPopulated(0) THEN Seed ELSE Store)
    BY <1>3, <2>1, <2>2 DEF Pending
  <2>4. at'[0] \in Nat
    BY <1>6, <1>11, StageNumbers
  <2> QED
    BY <2>2, <2>3, <2>4, StageNumbers DEF Ended
<1>15. Holding' = [t \in Thread |-> Value(t)']
  BY <1>3, <1>12 DEF Holding, Holds
<1>16. Split([t \in Thread |-> Value(t)], Thread, Due)'
  <2>1. (block \in 0 .. GridDim - 1)'
    BY <1>2
  <2>2. (launch = "finish" => PartsRight)'
    <3>1. PartsRight' = PartsRight
      BY <1>1, <1>2, PartStays DEF PartsRight
    <3> QED
      BY <1>1, <3>1
  <2> QED
    BY <1>10, <2>1, <2>2, ValuesSplit, PTL
<1>17. Split(Holding', Live', Due')
  <2>1. Split([t \in Thread |-> Value(t)'], Thread, Due')
    BY <1>3, <1>16 DEF Split
  <2> QED
    BY <1>13, <1>15, <2>1
<1> QED
  BY <1>2, <1>9, <1>10, <1>14, <1>17

\* The call: every action keeps CallInv.
LEMMA CallStarts == ReduceInit => CallInv
<1> SUFFICES ASSUME ReduceInit PROVE CallInv
  OBVIOUS
<1>1. size \in Nat /\ launch = "start" /\ left = {} /\ at = <<>> /\ DOMAIN partials = 0 .. PartialsSize - 1
  BY GeometryAssumption DEF ReduceInit
<1>2. Shaped /\ ~Running /\ \A i : ~Written(i)
  BY <1>1 DEF Shaped, Running, Written
<1> QED
  BY <1>1, <1>2 DEF CallInv

\* A thread of the running block goes on.
LEMMA CallSteps == ASSUME CallInv, NEW t \in DOMAIN at, Step(t) PROVE CallInv'
<1>1. Running /\ BlockRuns /\ Placed /\ DOMAIN at = Thread /\ t \in Thread
  <2>1. at # <<>>
    BY NoThreads
  <2> QED
    BY <2>1 DEF CallInv, BlockRuns, Placed
<1>2. /\ Ready(t) /\ at[t] \in 0 .. Total /\ at \in [Thread -> 0 .. Out]
      /\ UNCHANGED <<size, launch, left, block>>
      /\ at' \in [Thread -> 0 .. Out] /\ at'[t] > at[t] /\ Works(t, at'[t])
      /\ \A j \in 0 .. Out : Works(t, j) /\ at'[t] > j => at[t] >= j
      /\ \A u \in Thread \ {t} : at'[u] = at[u]
      /\ \A u \in Thread : at'[u] >= at[u]
  BY <1>1, StepGoes
<1>3. /\ Thread' = Thread /\ GridDim' = GridDim /\ Running' = Running
      /\ SizeFull' = SizeFull /\ SizePartial' = SizePartial
      /\ PartialsSize' = PartialsSize /\ FullBlocks' = FullBlocks
      /\ \A i : Part(i)' = Part(i)
      /\ Due' = Due /\ result' = result
  <2>1. result' = result
    BY DEF Step
  <2> QED
    BY <1>2, <2>1, ShapeStays, PartStays, DueStays
<1>4. Placed' /\ DOMAIN at' = Thread /\ 0 \in Thread
  BY <1>1, <1>2, StaysPlaced, Shapes
<1>5. Shaped' = Shaped
  BY <1>2, <1>3 DEF Shaped
<1>6. /\ at[0] \in 0 .. Out /\ at[0] \in Nat /\ at'[0] \in 0 .. Out /\ at'[0] \in Nat
      /\ at'[0] >= at[0] /\ Out' = Out
      /\ Ended <=> at[0] = Out
      /\ Ended' <=> at'[0] = Out
  <2>1. Out' = Out
    BY DEF Out
  <2> QED
    BY <1>1, <1>2, <1>4, <2>1, StageNumbers DEF Ended
<1>7. CASE at[t] < Total
  <2>1. partials' = partials
    BY <1>7, StageNumbers DEF Step
  <2>2. Ended' <=> Ended
    <3>1. CASE t = 0
      <4>1. Works(0, Total) /\ Total \in 0 .. Out
        BY StageNumbers DEF Works
      <4>2. ~(at'[0] > Total)
        BY <1>2, <1>6, <1>7, <3>1, <4>1, StageNumbers
      <4> QED
        BY <1>6, <1>7, <3>1, <4>2, StageNumbers
    <3>2. CASE t # 0
      BY <1>2, <1>4, <1>6, <3>2
    <3> QED
      BY <3>1, <3>2
  <2>3. ~Ended' => Split(Holding', Live', Due')
    <3> SUFFICES ASSUME ~Ended PROVE Split(Holding', Live', Due)
      BY <1>3, <2>2
    <3>1. Split(Holding, Live, Due)
      BY <1>1 DEF BlockRuns
    <3> QED
      BY <1>1, <1>7, <3>1, SplitGoesOn
  <2>4. BlockRuns'
    BY <1>1, <1>2, <1>3, <1>4, <2>3 DEF BlockRuns
  <2>5. \A i : Written(i)' <=> Written(i)
    BY <1>2, <1>3, <2>2 DEF Written
  <2> QED
    BY <1>1, <1>2, <1>3, <1>5, <2>1, <2>2, <2>4, <2>5 DEF CallInv
<1>8. CASE at[t] = Total
  <2>1. ~Ended /\ Split(Holding, Live, Due)
    <3>1. t = 0
      BY <1>8, StageNumbers, <1>1 DEF Placed, Works
    <3> QED
      BY <1>1, <1>6, <1>8, <3>1, StageNumbers DEF BlockRuns
  <2>2. t = 0 /\ Computed(t) = SetToBag(Due)
    BY <1>1, <1>2, <1>8, <2>1, TotalIs
  <2>3. Ended'
    BY <1>2, <1>6, <1>8, <2>2, StageNumbers
  <2>4. BlockRuns'
    BY <1>1, <1>2, <1>3, <1>4, <2>3 DEF BlockRuns
  <2> DEFINE i == OutBase + block
             v == IF UseInit /\ block = 0 THEN Computed(t) (+) InitValue ELSE Computed(t)
  <2>5. partials' = [partials EXCEPT ![i] = v]
    BY <1>8 DEF Step
  <2>6. /\ FullBlocks \in Nat /\ SizeFull \in Nat /\ SizePartial \in Nat /\ PartialsSize \in Nat
        /\ PartialsSize = FullBlocks + (IF SizePartial > 0 THEN 1 ELSE 0)
        /\ size \in Nat
    BY <1>1, Arrays DEF Running
  <2>7. /\ block \in 0 .. GridDim - 1 /\ left \subseteq (0 .. GridDim - 1) \ {block}
        /\ DOMAIN partials = 0 .. PartialsSize - 1
    BY <1>1 DEF BlockRuns, CallInv
  <2>8. \A A : 0 \notin A => SetToBag(A) (+) InitValue = SetToBag(A \cup {0})
    BY SetBags DEF InitValue, Unit
  <2>9. \A A, c : A \cup {e \in {0} : c} = IF c THEN A \cup {0} ELSE A
    OBVIOUS
  <2>10. CASE launch = "full"
    <3>1. GridDim = FullBlocks /\ OutBase = 0 /\ UseInit /\ Due = FullPart(block)
      BY <1>1, <2>10, Shapes DEF OutBase, UseInit, Due
    <3>2. i = block /\ block \in 0 .. FullBlocks - 1 /\ block \in 0 .. PartialsSize - 1 /\ block < FullBlocks
      BY <2>6, <2>7, <3>1
    <3>3. Part(block) = FullPart(block) \cup {e \in {0} : block = 0}
      BY <3>2 DEF Part
    <3>4. 0 \notin FullPart(block)
      BY <2>6 DEF FullPart, Reached
    <3>5. v = SetToBag(Part(block))
      <4>1. CASE block = 0
        BY <2>2, <2>8, <2>9, <3>1, <3>3, <3>4, <4>1
      <4>2. CASE block # 0
        <5>1. v = Computed(t)
          BY <4>2
        <5>2. Part(block) = FullPart(block)
          BY <3>3, <4>2
        <5> QED
          BY <2>2, <3>1, <5>1, <5>2
      <4> QED
        BY <4>1, <4>2
    <3> HIDE DEF v
    <3>6. ASSUME NEW p \in 0 .. PartialsSize - 1, Written(p)' PROVE partials'[p] = SetToBag(Part(p))
      <4>1. CASE p = block
        BY <2>5, <2>7, <3>2, <3>5, <4>1
      <4>2. CASE p # block
        <5>1. Written(p) /\ partials'[p] = partials[p]
          BY <1>2, <1>3, <2>5, <2>10, <3>2, <3>6, <4>2 DEF Written
        <5> QED
          BY <5>1 DEF CallInv
      <4> QED
        BY <4>1, <4>2
    <3> QED
      BY <1>1, <1>2, <1>3, <1>5, <2>4, <2>5, <2>10, <3>6 DEF CallInv
  <2>11. CASE launch = "partial"
    <3>1. GridDim = 1 /\ OutBase = FullBlocks /\ Due = SizeFull + 1 .. size /\ (UseInit <=> FullBlocks = 0)
      BY <2>11 DEF GridDim, OutBase, Due, UseInit
    <3>2. SizePartial > 0
      BY <1>1, <2>11 DEF Running, Shaped
    <3>3. block = 0 /\ i = FullBlocks /\ i \in 0 .. PartialsSize - 1
      BY <2>6, <2>7, <3>1, <3>2
    <3>4. Part(FullBlocks) = SizeFull + 1 .. size \cup {e \in {0} : FullBlocks = 0}
      BY <2>6 DEF Part
    <3>5. 0 \notin SizeFull + 1 .. size
      BY <2>6
    <3>6. v = SetToBag(Part(FullBlocks))
      <4>1. CASE FullBlocks = 0
        <5>1. v = Computed(t) (+) InitValue
          BY <3>1, <3>3, <4>1
        <5>2. Part(FullBlocks) = SizeFull + 1 .. size \cup {0}
          BY <3>4, <4>1
        <5>3. SetToBag(Due) (+) InitValue = SetToBag(Due \cup {0})
          BY <2>8, <3>1, <3>5
        <5> QED
          BY <2>2, <3>1, <5>1, <5>2, <5>3
      <4>2. CASE FullBlocks # 0
        BY <2>2, <2>9, <3>1, <3>4, <4>2
      <4> QED
        BY <4>1, <4>2
    <3> HIDE DEF v
    <3>7. ASSUME NEW p \in 0 .. PartialsSize - 1 PROVE partials'[p] = SetToBag(Part(p))
      <4>1. CASE p = FullBlocks
        BY <2>5, <2>7, <3>3, <3>6, <4>1
      <4>2. CASE p # FullBlocks
        <5>1. p < FullBlocks /\ partials'[p] = partials[p]
          BY <2>5, <2>6, <3>2, <3>3, <4>2
        <5>2. Written(p)
          BY <2>11, <5>1 DEF Written
        <5> QED
          BY <5>1, <5>2 DEF CallInv
      <4> QED
        BY <4>1, <4>2
    <3> QED
      BY <1>1, <1>2, <1>3, <1>5, <2>4, <2>5, <2>11, <3>7 DEF CallInv
  <2>12. CASE launch = "finish"
    <3>1. GridDim = 1 /\ OutBase = 0 /\ Due = 0 .. size /\ ~UseInit /\ PartialsSize > 1
      BY <1>1, <2>12 DEF GridDim, OutBase, Due, UseInit, Running, Shaped
    <3>2. i = 0 /\ 0 \in 0 .. PartialsSize - 1
      BY <2>6, <2>7, <3>1
    <3>3. v = SetToBag(0 .. size)
      BY <2>2, <3>1
    <3> HIDE DEF v
    <3>4. partials'[0] = SetToBag(0 .. size)
      BY <2>5, <2>7, <3>2, <3>3
    <3>5. \A p : ~Written(p)'
      BY <1>2, <2>3, <2>12 DEF Written
    <3> QED
      BY <1>1, <1>2, <1>3, <1>5, <2>4, <2>5, <2>12, <3>4, <3>5 DEF CallInv
  <2> QED
    BY <1>1, <2>10, <2>11, <2>12 DEF Running
<1> QED
  BY <1>2, <1>7, <1>8, StageNumbers

LEMMA CallBegins == ASSUME CallInv, BeginBlock PROVE CallInv'
<1>1. /\ launch \notin {"start", "done"} /\ BlockEnds
      /\ block' \in left /\ left' = left \ {block'}
      /\ size' = size /\ launch' = launch /\ partials' = partials /\ result' = result
  BY DEF BeginBlock
<1>2. Running /\ GridDim \in Nat \ {0} /\ 0 \in Thread
  <2>1. Running
    BY <1>1 DEF CallInv, Running, Shaped
  <2> QED
    BY <2>1, Shapes
<1>3. /\ left \subseteq 0 .. GridDim - 1
      /\ \/ at = <<>> /\ left = 0 .. GridDim - 1
         \/ Ended /\ block \in (0 .. GridDim - 1) \ left
  <2>1. CASE BlockRuns
    <3>1. Ended
      BY <1>1, <1>2, <2>1 DEF BlockRuns, Placed, BlockEnds, Ended
    <3> QED
      BY <2>1, <3>1 DEF BlockRuns
  <2>2. CASE ~BlockRuns
    BY <1>2, <2>2 DEF CallInv
  <2> QED
    BY <2>1, <2>2
<1>4. launch \in {"partial", "finish"} => GridDim = 1 /\ ~Ended
  <2> SUFFICES ASSUME launch \in {"partial", "finish"} PROVE GridDim = 1 /\ ~Ended
    OBVIOUS
  <2>1. GridDim = 1
    BY DEF GridDim
  <2>2. at = <<>>
    BY <1>1, <1>3, <2>1
  <2> QED
    BY <2>1, <2>2, NoThreads DEF Ended
<1>5. launch = "finish" => PartsRight
  BY <1>4 DEF CallInv, Written, PartsRight
<1>6. /\ Placed' /\ ~Ended' /\ Running' /\ GridDim' = GridDim
      /\ Split(Holding', Live', Due')
  <2>1. block' \in 0 .. GridDim - 1
    BY <1>1, <1>3
  <2> QED
    BY <1>2, <1>5, <2>1, BlockBegins
<1>7. BlockRuns'
  BY <1>1, <1>3, <1>6 DEF BlockRuns
<1>8. /\ PartialsSize' = PartialsSize /\ FullBlocks' = FullBlocks /\ SizeFull' = SizeFull
      /\ SizePartial' = SizePartial /\ \A i : Part(i)' = Part(i)
  BY <1>1, PartStays
<1>9. Shaped'
  BY <1>6 DEF Running
<1>10. ASSUME NEW i \in 0 .. PartialsSize - 1, Written(i)' PROVE Written(i)
  <2>1. CASE launch = "full"
    <3>1. i < FullBlocks /\ i \notin left' /\ i # block'
      BY <1>1, <1>6, <1>8, <1>10, <2>1 DEF Written
    <3>2. i \notin left /\ GridDim = FullBlocks /\ FullBlocks \in Nat
      BY <1>1, <1>2, <2>1, <3>1, Shapes, Arrays DEF Running
    <3>3. at # <<>>
      <4>1. i \in 0 .. GridDim - 1
        <5>1. i \in Nat
          BY <1>2, Arrays DEF Running
        <5> QED
          BY <3>1, <3>2, <5>1
      <4> QED
        BY <1>3, <3>2, <4>1, NoThreads DEF Ended
    <3>4. Ended
      BY <1>3, <3>3
    <3> QED
      BY <2>1, <3>1, <3>2, <3>4 DEF Written
  <2>2. CASE launch = "partial"
    BY <1>1, <1>6, <1>8, <1>10, <2>2 DEF Written
  <2>3. CASE launch = "finish"
    BY <1>4, <2>3 DEF Written
  <2> QED
    BY <1>2, <2>1, <2>2, <2>3 DEF Running
<1> QED
  BY <1>1, <1>6, <1>7, <1>8, <1>9, <1>10 DEF CallInv

\* The launches in their order, those without work left out.
LEMMA NextLaunchIs ==
    ASSUME CallInv
    PROVE  LET finish == IF PartialsSize > 1 THEN "finish" ELSE "done"
               partial == IF SizePartial > 0 THEN "partial" ELSE finish
           IN  /\ launch = "start" => NextLaunch = IF SizeFull > 0 THEN "full" ELSE partial
               /\ launch = "full" => NextLaunch = partial
               /\ launch = "partial" => NextLaunch = finish
               /\ launch = "finish" => NextLaunch = "done"
<1> DEFINE now == CHOOSE i \in DOMAIN Order : Order[i] = launch
           S == {i \in now + 1 .. 5 : HasWork(Order[i])}
<1>1. /\ DOMAIN Order = 1 .. 5
      /\ Order[1] = "start" /\ Order[2] = "full" /\ Order[3] = "partial"
      /\ Order[4] = "finish" /\ Order[5] = "done"
  BY DEF Order
<1>2. NextLaunch = Order[Min(S)]
  BY DEF NextLaunch
<1>3. ASSUME NEW n \in 1 .. 5, Order[n] = launch PROVE now = n
  <2>1. \A i \in 1 .. 5 : Order[i] = launch => i = n
    BY <1>1, <1>3
  <2> QED
    BY <1>1, <1>3, <2>1
<1> HIDE DEF now
<1>4. ASSUME NEW m \in S, \A i \in S : m <= i PROVE Min(S) = m
  <2>1. \A i \in S : i \in Int
    OBVIOUS
  <2>2. \A i \in S : (\A j \in S : i <= j) => i = m
    BY <1>4, <2>1
  <2> HIDE DEF S
  <2> QED
    BY <1>4, <2>2 DEF Min
<1>5. /\ HasWork("full") <=> SizeFull > 0
      /\ HasWork("partial") <=> SizePartial > 0
      /\ HasWork("finish") <=> PartialsSize > 1
      /\ HasWork("done")
  BY DEF HasWork
<1>6. launch = "start" => now = 1
  BY <1>1, <1>3
<1>7. launch = "full" => now = 2
  BY <1>1, <1>3
<1>8. launch = "partial" => now = 3
  BY <1>1, <1>3
<1>9. launch = "finish" => now = 4
  BY <1>1, <1>3
<1>10. ASSUME NEW n \in 1 .. 4, now = n, NEW m \in n + 1 .. 5, HasWork(Order[m]),
              \A i \in n + 1 .. m - 1 : ~HasWork(Order[i])
       PROVE  NextLaunch = Order[m]
  <2>1. m \in S
    BY <1>10
  <2>2. \A i \in S : m <= i
    BY <1>10
  <2>3. Min(S) = m
    BY <1>4, <2>1, <2>2
  <2> HIDE DEF S
  <2> QED
    BY <1>2, <2>3
<1> HIDE DEF S
<1>11. CASE launch = "start"
  <2>1. CASE SizeFull > 0
    BY <1>1, <1>5, <1>6, <1>10, <1>11, <2>1
  <2>2. CASE ~(SizeFull > 0) /\ SizePartial > 0
    BY <1>1, <1>5, <1>6, <1>10, <1>11, <2>2
  <2>3. CASE ~(SizeFull > 0) /\ ~(SizePartial > 0) /\ PartialsSize > 1
    BY <1>1, <1>5, <1>6, <1>10, <1>11, <2>3
  <2>4. CASE ~(SizeFull > 0) /\ ~(SizePartial > 0) /\ ~(PartialsSize > 1)
    BY <1>1, <1>5, <1>6, <1>10, <1>11, <2>4
  <2> QED
    BY <1>11, <2>1, <2>2, <2>3, <2>4
<1>12. CASE launch = "full"
  <2>1. CASE SizePartial > 0
    BY <1>1, <1>5, <1>7, <1>10, <1>12, <2>1
  <2>2. CASE ~(SizePartial > 0) /\ PartialsSize > 1
    BY <1>1, <1>5, <1>7, <1>10, <1>12, <2>2
  <2>3. CASE ~(SizePartial > 0) /\ ~(PartialsSize > 1)
    BY <1>1, <1>5, <1>7, <1>10, <1>12, <2>3
  <2> QED
    BY <1>12, <2>1, <2>2, <2>3
<1>13. CASE launch = "partial"
  <2>1. CASE PartialsSize > 1
    BY <1>1, <1>5, <1>8, <1>10, <1>13, <2>1
  <2>2. CASE ~(PartialsSize > 1)
    BY <1>1, <1>5, <1>8, <1>10, <1>13, <2>2
  <2> QED
    BY <1>13, <2>1, <2>2
<1>14. CASE launch = "finish"
  BY <1>1, <1>5, <1>9, <1>10, <1>14
<1> QED
  BY <1>11, <1>12, <1>13, <1>14

\* When a launch is over, all it was to write is written.
LEMMA LaunchIsOver ==
    ASSUME CallInv, launch # "done", left = {}, BlockEnds
    PROVE  /\ launch = "start" \/ (Running /\ Ended)
           /\ launch = "full" => \A i \in 0 .. FullBlocks - 1 : Written(i)
           /\ launch = "partial" => \A i : Written(i)
<1>1. Running => Ended /\ BlockRuns /\ 0 \in Thread
  <2> SUFFICES ASSUME Running PROVE Ended /\ BlockRuns /\ 0 \in Thread
    OBVIOUS
  <2>1. GridDim \in Nat \ {0} /\ 0 \in Thread
    BY Shapes
  <2>2. BlockRuns
    BY <2>1 DEF CallInv
  <2> QED
    BY <2>1, <2>2 DEF BlockRuns, Placed, BlockEnds, Ended
<1>2. launch = "start" \/ Running
  BY DEF CallInv, Shaped, Running
<1>3. launch = "full" => \A i \in 0 .. FullBlocks - 1 : Written(i)
  <2> SUFFICES ASSUME launch = "full", NEW i \in 0 .. FullBlocks - 1 PROVE Written(i)
    OBVIOUS
  <2>1. FullBlocks \in Nat
    BY Arrays DEF CallInv
  <2> QED
    BY <1>1, <1>2, <2>1 DEF Written
<1>4. launch = "partial" => \A i : Written(i)
  BY <1>1, <1>2 DEF Written
<1> QED
  BY <1>1, <1>2, <1>3, <1>4

\* A launch finds the partial results that the ones before it were to write.
LEMMA CallLaunches == ASSUME CallInv, Launch PROVE CallInv'
<1>1. /\ launch # "done" /\ left = {} /\ BlockEnds /\ NextLaunch # "done"
      /\ launch' = NextLaunch /\ at' = <<>>
      /\ left' = 0 .. (IF NextLaunch = "full" THEN FullBlocks ELSE 1) - 1
      /\ size' = size /\ partials' = partials /\ result' = result
  BY DEF Launch
<1>2. /\ PartialsSize' = PartialsSize /\ FullBlocks' = FullBlocks /\ SizeFull' = SizeFull
      /\ SizePartial' = SizePartial /\ \A i : Part(i)' = Part(i)
  BY <1>1, PartStays
<1>3. /\ size \in Nat /\ Shaped
      /\ FullBlocks \in Nat /\ SizeFull \in Nat /\ SizePartial \in Nat
      /\ FullBlocks = 0 <=> SizeFull = 0
      /\ PartialsSize = FullBlocks + (IF SizePartial > 0 THEN 1 ELSE 0)
  BY Arrays DEF CallInv
<1>4. /\ launch' \in {"full", "partial", "finish"} /\ launch' # launch
      /\ launch' = "full" => launch = "start" /\ SizeFull > 0
      /\ launch' = "partial" => SizePartial > 0 /\ (launch = "full" \/ (launch = "start" /\ ~(SizeFull > 0)))
      /\ launch' = "finish" =>
            /\ PartialsSize > 1
            /\ \/ launch = "partial"
               \/ launch = "full" /\ ~(SizePartial > 0)
  <2>1. CASE launch = "start"
    <3>1. CASE SizeFull > 0
      BY <1>1, <2>1, <3>1, NextLaunchIs
    <3>2. CASE ~(SizeFull > 0)
      <4>1. launch' = IF SizePartial > 0 THEN "partial" ELSE IF PartialsSize > 1 THEN "finish" ELSE "done"
        BY <1>1, <2>1, <3>2, NextLaunchIs
      <4>2. ~(PartialsSize > 1)
        BY <1>3, <3>2
      <4> QED
        BY <1>1, <2>1, <3>2, <4>1, <4>2
    <3> QED
      BY <3>1, <3>2
  <2>2. CASE launch = "full"
    BY <1>1, <2>2, NextLaunchIs
  <2>3. CASE launch = "partial"
    BY <1>1, <2>3, NextLaunchIs
  <2>4. CASE launch = "finish"
    BY <1>1, <2>4, NextLaunchIs
  <2> QED
    BY <1>1, <1>3, <2>1, <2>2, <2>3, <2>4 DEF Shaped
<1>5. Shaped' /\ Running'
  BY <1>1, <1>2, <1>3, <1>4 DEF Shaped, Running
<1>6. left' = 0 .. GridDim' - 1
  BY <1>1, <1>2 DEF GridDim
<1>7. ~Ended'
  BY <1>1, NoThreads DEF Ended
<1>8. ASSUME NEW i \in 0 .. PartialsSize - 1, Written(i)' PROVE Written(i)
  <2>1. CASE launch' = "full"
    <3>1. i < FullBlocks /\ i \notin 0 .. FullBlocks - 1
      BY <1>1, <1>2, <1>7, <1>8, <2>1 DEF Written
    <3> QED
      BY <1>3, <3>1
  <2>2. CASE launch' = "partial"
    <3>1. i \in 0 .. FullBlocks - 1
      <4>1. i < FullBlocks
        BY <1>2, <1>7, <1>8, <2>2 DEF Written
      <4> QED
        BY <1>3, <4>1
    <3>2. launch = "full"
      BY <1>3, <1>4, <2>2, <3>1
    <3> QED
      BY <1>1, <3>1, <3>2, LaunchIsOver
  <2>3. CASE launch' = "finish" /\ launch = "full"
    <3>1. i \in 0 .. FullBlocks - 1
      BY <1>3, <1>4, <2>3
    <3> QED
      BY <1>1, <2>3, <3>1, LaunchIsOver
  <2>4. CASE launch' = "finish" /\ launch = "partial"
    BY <1>1, <2>4, LaunchIsOver
  <2> QED
    BY <1>4, <2>1, <2>2, <2>3, <2>4
<1>9. \A i \in 0 .. PartialsSize - 1 : Written(i)' => partials[i] = SetToBag(Part(i))
  BY <1>8 DEF CallInv
<1> QED
  BY <1>1, <1>2, <1>3, <1>4, <1>5, <1>6, <1>7, <1>9 DEF CallInv

LEMMA CallReturns == ASSUME CallInv, Return PROVE CallInv'
<1>1. /\ launch # "done" /\ left = {} /\ BlockEnds /\ NextLaunch = "done"
      /\ launch' = "done" /\ at' = <<>> /\ left' = left
      /\ result' = (IF size = 0 THEN InitValue ELSE partials[0])
      /\ size' = size /\ partials' = partials
  BY DEF Return
<1>2. /\ PartialsSize' = PartialsSize /\ FullBlocks' = FullBlocks /\ SizeFull' = SizeFull
      /\ SizePartial' = SizePartial /\ \A i : Part(i)' = Part(i)
  BY <1>1, PartStays
<1>3. /\ size \in Nat /\ Shaped
      /\ FullBlocks \in Nat /\ SizeFull \in Nat /\ SizePartial \in Nat
      /\ SizeFull + SizePartial = size
      /\ FullBlocks = 0 <=> SizeFull = 0
      /\ PartialsSize = FullBlocks + (IF SizePartial > 0 THEN 1 ELSE 0)
  BY Arrays DEF CallInv
<1>4. result' = SetToBag(0 .. size)
  <2>1. CASE size = 0
    <3>1. 0 .. 0 = {0}
      OBVIOUS
    <3> QED
      BY <1>1, <2>1, <3>1 DEF InitValue, Unit
  <2>2. CASE size # 0
    <3>1. /\ PartialsSize > 0
          /\ PartialsSize = 1 => Part(0) = 0 .. size
      <4>1. size \in Nat \ {0}
        BY <1>3, <2>2
      <4>2. PartialsSize > 0 /\ UNION {Part(i) : i \in 0 .. PartialsSize - 1} = 0 .. size
        BY <4>1, Parts
      <4>3. PartialsSize = 1 => 0 .. PartialsSize - 1 = {0}
        OBVIOUS
      <4> QED
        BY <4>2, <4>3
    <3>2. ASSUME launch \in {"full", "partial"}, PartialsSize = 1, Written(0)
          PROVE  partials[0] = SetToBag(0 .. size)
      <4>1. 0 \in 0 .. PartialsSize - 1
        BY <3>2
      <4> QED
        BY <3>1, <3>2, <4>1 DEF CallInv
    <3>3. CASE launch = "start"
      <4>1. ~(SizeFull > 0) /\ ~(SizePartial > 0)
        BY <1>1, <3>3, NextLaunchIs
      <4> QED
        BY <1>3, <2>2, <4>1
    <3>4. CASE launch = "full"
      <4>1. ~(SizePartial > 0) /\ ~(PartialsSize > 1)
        BY <1>1, <3>4, NextLaunchIs
      <4>2. PartialsSize = 1 /\ 0 \in 0 .. FullBlocks - 1
        BY <1>3, <3>1, <4>1
      <4>3. Written(0)
        BY <1>1, <3>4, <4>2, LaunchIsOver
      <4> QED
        BY <1>1, <2>2, <3>2, <3>4, <4>2, <4>3
    <3>5. CASE launch = "partial"
      <4>1. ~(PartialsSize > 1)
        BY <1>1, <3>5, NextLaunchIs
      <4>2. PartialsSize = 1
        BY <1>3, <3>1, <4>1
      <4>3. Written(0)
        BY <1>1, <3>5, LaunchIsOver
      <4> QED
        BY <1>1, <2>2, <3>2, <3>5, <4>2, <4>3
    <3>6. CASE launch = "finish"
      BY <1>1, <2>2, <3>6, LaunchIsOver DEF CallInv
    <3> QED
      BY <1>1, <1>3, <3>3, <3>4, <3>5, <3>6 DEF Shaped
  <2> QED
    BY <2>1, <2>2
<1>5. Shaped' /\ ~Running' /\ \A i : ~Written(i)'
  BY <1>1 DEF Shaped, Running, Written
<1> QED
  BY <1>1, <1>2, <1>3, <1>4, <1>5 DEF CallInv

LEMMA CallGoesOn == CallInv /\ [ReduceNext]_reduceVars => CallInv'
<1> SUFFICES ASSUME CallInv, [ReduceNext]_reduceVars PROVE CallInv'
  OBVIOUS
<1>1. ASSUME NEW t \in DOMAIN at, Step(t) PROVE CallInv'
  BY <1>1, CallSteps
<1>2. CASE BeginBlock
  BY <1>2, CallBegins
<1>3. CASE Launch
  BY <1>3, CallLaunches
<1>4. CASE Return
  BY <1>4, CallReturns
<1>5. CASE UNCHANGED reduceVars
  <2>1. /\ size' = size /\ launch' = launch /\ left' = left /\ block' = block
        /\ at' = at /\ sm' = sm /\ partials' = partials /\ result' = result
    BY <1>5 DEF reduceVars
  <2>2. /\ PartialsSize' = PartialsSize /\ FullBlocks' = FullBlocks /\ SizeFull' = SizeFull
        /\ SizePartial' = SizePartial /\ \A i : Part(i)' = Part(i)
    BY <2>1, PartStays
  <2>3. Shaped' = Shaped /\ Running' = Running /\ Ended' = Ended /\ GridDim' = GridDim
    BY <2>1, <2>2 DEF Shaped, Running, Ended, Out, GridDim
  <2>4. \A i : Written(i)' = Written(i)
    BY <2>1, <2>2, <2>3 DEF Written
  <2>5. BlockRuns => BlockRuns'
    <3> SUFFICES ASSUME BlockRuns PROVE BlockRuns'
      OBVIOUS
    <3>1. Due' = Due
      BY <2>1, DueStays
    <3>2. Placed' /\ Holding' = Holding /\ Live' = Live
      <4>1. /\ Thread' = Thread /\ \A u : FullyPopulated(u)' = FullyPopulated(u)
            /\ \A u, k : Works(u, k)' = Works(u, k)
            /\ \A u, k, t : Takes(u, k, t)' = Takes(u, k, t)
            /\ \A u, k, t : Awaits(u, k, t)' = Awaits(u, k, t)
            /\ \A t : Value(t)' = Value(t)
        BY <2>1, ShapeStays
      <4>2. Placed'
        <5>1. Passed' = Passed
          BY <2>1, <4>1 DEF Passed
        <5> QED
          BY <2>1, <2>3, <4>1, <5>1 DEF BlockRuns, Placed, Cell
      <4>3. Live' = Live
        BY <2>1, <4>1 DEF Live, Taken
      <4>4. Holding' = Holding
        <5>1. \A t : Holds(t)' = Holds(t)
          BY <2>1, <4>1 DEF Holds, Pending
        <5> QED
          BY <4>1, <5>1 DEF Holding
      <4> QED
        BY <4>2, <4>3, <4>4
    <3>3. Split(Holding, Live, Due)' = Split(Holding, Live, Due)
      BY <3>1, <3>2 DEF Split
    <3> QED
      BY <2>1, <2>3, <3>1, <3>2, <3>3 DEF BlockRuns
  <2> QED
    BY <2>1, <2>2, <2>3, <2>4, <2>5 DEF CallInv
<1> QED
  BY <1>1, <1>2, <1>3, <1>4, <1>5 DEF ReduceNext

(* For every array, every warp size and every grid, whatever the order in  *)
(* which threads and blocks run: the call returns each element once and    *)
(* the initial value once.                                                 *)
THEOREM FoldsEachOnce == ReduceSpec => []Exact
<1>1. CallInv => Exact
  BY DEF CallInv, Exact
<1> QED
  BY <1>1, CallStarts, CallGoesOn, PTL DEF ReduceSpec
==============================================================================
