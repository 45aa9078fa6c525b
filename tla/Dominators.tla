----------------------------- MODULE Dominators -----------------------------
(***************************************************************************)
(* core/controlflow.py, CFGraph._find_dominators_internal: the todo-list   *)
(* algorithm that finds dominators, and post-dominators when it is given   *)
(* the graph's exits as entries and its edges reversed.  The code pops the *)
(* last node of a list it filled from sets; here any node of the list may  *)
(* come next.                                                              *)
(***************************************************************************)
EXTENDS Naturals

VARIABLES
    nodes,    \* self._nodes
    entries,  \* the entry point, or the exit points and the dummy exit
    preds,    \* preds_table, over the nodes and the entries
    succs,    \* succs_table, its mirror image
    doms,     \* node -> the set found so far
    todo      \* nodes to look at

graph == <<nodes, entries, preds, succs>>

vars == <<graph, doms, todo>>

All == nodes \cup entries

\* {n} and what every predecessor has; {n} alone where there is none.
Meet(D, n) ==
    {n} \cup {d \in UNION {D[p] : p \in preds[n]} : \A p \in preds[n] : d \in D[p]}

\* Every set starts from nothing and is to grow.
StartFromNothing == [n \in All |-> {n}]

\* An entry is dominated by itself alone, every other node by all of them.
StartSets == [n \in All |-> IF n \in entries THEN {n} ELSE nodes]

Start ==
    /\ doms = StartSets
    /\ todo = nodes \ entries

\* The tables mirror each other, and no node leads to the dummy exit alone.
GraphOK ==
    /\ \A n \in All : preds[n] \subseteq All /\ succs[n] \subseteq All
    /\ \A n, m \in All : m \in succs[n] <=> n \in preds[m]
    /\ \A n \in nodes \ entries : preds[n] # {} => preds[n] \cap nodes # {}

Init == GraphOK /\ Start

Settled(n) == n \in entries \/ Meet(doms, n) = doms[n]

Visit(n) ==
    /\ \/ /\ Settled(n)
          /\ todo' = todo \ {n}
          /\ doms' = doms
       \/ /\ ~Settled(n)
          /\ doms' = [doms EXCEPT ![n] = Meet(doms, n)]
          /\ todo' = (todo \ {n}) \cup succs[n]
    /\ UNCHANGED graph

Next == \E n \in todo : Visit(n)

Spec == Init /\ [][Next]_vars

-----------------------------------------------------------------------------
(* Properties.                                                             *)

\* assert len(new_doms) < len(doms[n]), of every node that may come next:
\* what is computed for it is part of what it has, whatever the order.
Shrinks == \A n \in todo \ entries : Meet(doms, n) \subseteq doms[n]

\* The equations of dominance, solved by sets of nodes.
Solves(D) ==
    /\ \A n \in All : D[n] = IF n \in entries THEN {n} ELSE Meet(D, n)
    /\ \A n \in nodes : D[n] \subseteq nodes

\* When nothing is left to look at, the sets solve the equations, and no
\* solution gives any node more: the largest solution, in every order.
Greatest ==
    todo = {} =>
        /\ Solves(doms)
        /\ \A D \in [All -> SUBSET All] :
              Solves(D) => \A n \in All : D[n] \subseteq doms[n]
=============================================================================
