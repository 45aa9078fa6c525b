---------------------------- MODULE ControlFlow ----------------------------
(***************************************************************************)
(* core/controlflow.py: CFGraph, the analyses the compiler runs on a       *)
(* function's flow graph.  process() removes the dead blocks; the other    *)
(* results are computed on demand and here one after another: back edges,  *)
(* post-order, immediate dominators, dominators, post-dominators.  Each    *)
(* algorithm is stepped through in every order in which Python may list    *)
(* the members of a set.  What has no loop of its own that matters (loops  *)
(* and the nodes' places in them, descendants, the dominance frontier) is  *)
(* an operator over the results.                                           *)
(***************************************************************************)
EXTENDS Integers, Sequences, FiniteSets, SequencesExt, FiniteSetsExt

CONSTANTS
    Node,       \* the blocks of a function
    Entry,      \* _entry_point
    Exit,       \* the dummy exit of _find_post_dominators
    MaxSuccs    \* how many blocks a block may branch to

ASSUME NodeAssumption ==
    /\ IsFiniteSet(Node)
    /\ Entry \in Node
    /\ Exit \notin Node
    /\ MaxSuccs \in Nat

VARIABLES
    graph,   \* _succs: node -> the nodes it leads to
    nodes,   \* _nodes
    stage,   \* the analysis under way
    work,    \* what that analysis keeps on its stacks
    doms,    \* the sets of _find_dominators_internal
    todo,    \* and its list
    found    \* the results: back edges, post-order, idom, doms, pdoms

vars == <<graph, nodes, stage, work, doms, todo, found>>

\* What a set of nodes leads to.
Leads(g, R) == UNION {g[n] : n \in R}

\* A set of nodes and what one step from it reaches.
Further(g, avoid, R) == R \cup (Leads(g, R) \ avoid)

\* Nodes that paths from a set of nodes reach without touching avoided ones.
Reachable(g, from, avoid) ==
    LET reach[k \in 0 .. Cardinality(Node)] ==
            IF k = 0 THEN from \ avoid ELSE Further(g, avoid, reach[k - 1])
    IN  reach[Cardinality(Node)]

\* D dominates N when no path leads from the entry to N without D.
Dominates(g, d, n) == n \notin Reachable(g, {Entry}, {d})

\* Without the edges into a dominator no cycle is left: every flow graph of
\* a function is such a graph, since Python has no goto.
Reducible(g) ==
    LET live == Reachable(g, {Entry}, {})
        ahead == [n \in Node |->
                    IF n \in live THEN {m \in g[n] : ~Dominates(g, m, n)} ELSE {}]
    IN  \A n \in live : n \notin Reachable(ahead, ahead[n], {})

Preds == [n \in Node |-> {m \in Node : n \in graph[m]}]

Edges == {e \in Node \X Node : e[2] \in graph[e[1]]}

Nothing == <<>>

\* The table with an entry for x.
With(table, x, v) == [y \in DOMAIN table \cup {x} |-> IF y = x THEN v ELSE table[y]]

Init ==
    /\ graph \in [Node -> {S \in SUBSET Node : Cardinality(S) <= MaxSuccs}]
    /\ Reducible(graph)
    /\ nodes = Node
    /\ stage = "dead"
    /\ work = Nothing
    /\ doms = Nothing
    /\ todo = {}
    /\ found = [back |-> {}, post |-> <<>>, idom |-> Nothing,
                doms |-> Nothing, pdoms |-> Nothing]

-----------------------------------------------------------------------------
(* _eliminate_dead_blocks, then the walk of _find_back_edges begins.       *)

EliminateDeadBlocks ==
    LET live == Reachable(graph, {Entry}, {})
        kept == [n \in Node |-> IF n \in live THEN graph[n] ELSE {}]
    IN  /\ stage = "dead"
        /\ nodes' = live
        /\ graph' = kept
        /\ stage' = "back"
        /\ work' = [path |-> <<Entry>>, left |-> [n \in {Entry} |-> kept[n]], checked |-> {}]
        /\ UNCHANGED <<doms, todo, found>>

\* Every node the walk has met stands for one on its path.
MetBefore(d) == d \in work.checked \cup Range(work.path)

OnPath(d) == d \in Range(work.path)

BackEdgeNext ==
    LET tos == Last(work.path)
    IN  /\ stage = "back"
        /\ \E d \in work.left[tos] :
              LET rest == [work EXCEPT !.left[tos] = @ \ {d}]
              IN  \/ /\ OnPath(d)
                     /\ found' = [found EXCEPT !.back = @ \cup {<<tos, d>>}]
                     /\ work' = rest
                  \/ /\ ~OnPath(d)
                     /\ work' = IF d \in work.checked
                                THEN rest
                                ELSE [path |-> Append(work.path, d),
                                      left |-> With(rest.left, d, graph[d]),
                                      checked |-> work.checked]
                     /\ UNCHANGED found
        /\ UNCHANGED <<graph, nodes, stage, doms, todo>>

BackEdgePop ==
    LET tos == Last(work.path)
        popped == [path |-> Front(work.path), left |-> work.left,
                   checked |-> work.checked \cup {tos}]
    IN  /\ stage = "back"
        /\ work.left[tos] = {}
        /\ IF popped.path = <<>>
           THEN /\ stage' = "post"
                /\ work' = [stack |-> <<<<"visit", Entry>>>>, seen |-> {}]
           ELSE work' = popped /\ UNCHANGED stage
        /\ UNCHANGED <<graph, nodes, doms, todo, found>>

-----------------------------------------------------------------------------
(* _find_postorder, and _find_topo_order, which returns it reversed.       *)

Ahead(n) == {m \in graph[n] : <<n, m>> \notin found.back}

\* A node comes before what it leads to.
Precede(n, ms) == ms \o <<<<"append", n>>>>

\* The node is appended after the nodes it leads to, which lie above it.
Follow(n, ms) == <<<<"append", n>>>> \o ms

PostOrder ==
    LET top == Last(work.stack)
        n == top[2]
        rest == Front(work.stack)
    IN  /\ stage = "post"
        /\ work.stack # <<>>
        /\ \/ /\ top[1] = "append"
              /\ found' = [found EXCEPT !.post = Append(@, n)]
              /\ work' = [work EXCEPT !.stack = rest]
           \/ /\ top[1] = "visit"
              /\ n \in work.seen
              /\ work' = [work EXCEPT !.stack = rest]
              /\ UNCHANGED found
           \/ /\ top[1] = "visit"
              /\ n \notin work.seen
              /\ \E ms \in SetToSeqs({<<"visit", m>> : m \in Ahead(n)}) :
                    work' = [stack |-> rest \o Follow(n, ms), seen |-> work.seen \cup {n}]
              /\ UNCHANGED found
        /\ UNCHANGED <<graph, nodes, stage, doms, todo>>

\* order.pop(); order.reverse(): every node but the entry, the entry's
\* neighbours first.
Sweep == Tail(Reverse(found.post))

PostOrderEnds ==
    /\ stage = "post"
    /\ work.stack = <<>>
    /\ stage' = "idom"
    /\ work' = [rest |-> Sweep, changed |-> FALSE]
    /\ found' = [found EXCEPT !.idom = [n \in {Entry} |-> Entry]]
    /\ UNCHANGED <<graph, nodes, doms, todo>>

-----------------------------------------------------------------------------
(* _find_immediate_dominators: sweeps until one changes nothing.           *)

Index(n) == CHOOSE i \in DOMAIN found.post : found.post[i] = n

\* Climb from both until they meet.
Intersect(u, v) ==
    LET seen == DOMAIN found.idom
        meet[pair \in seen \X seen] ==
            LET a == pair[1]
                b == pair[2]
            IN  IF a = b THEN a
                ELSE IF Index(a) < Index(b) THEN meet[<<found.idom[a], b>>]
                                            ELSE meet[<<a, found.idom[b]>>]
    IN  meet[<<u, v>>]

Known(u) == {v \in Preds[u] : v \in DOMAIN found.idom}

NewIdom(u) == FoldSet(Intersect, CHOOSE v \in Known(u) : TRUE, Known(u))

SweepNext ==
    LET u == Head(work.rest)
        new == NewIdom(u)
        same == u \in DOMAIN found.idom /\ found.idom[u] = new
    IN  /\ stage = "idom"
        /\ work.rest # <<>>
        /\ found' = [found EXCEPT !.idom = With(@, u, new)]
        /\ work' = [rest |-> Tail(work.rest), changed |-> work.changed \/ ~same]
        /\ UNCHANGED <<graph, nodes, stage, doms, todo>>

Forward == INSTANCE Dominators WITH entries <- {Entry}, preds <- Preds, succs <- graph

SweepEnds ==
    /\ stage = "idom"
    /\ work.rest = <<>>
    /\ IF work.changed
       THEN /\ work' = [rest |-> Sweep, changed |-> FALSE]
            /\ UNCHANGED <<graph, nodes, stage, doms, todo, found>>
       ELSE /\ stage' = "doms"
            /\ work' = Nothing
            /\ found' = [found EXCEPT !.post = <<>>]
            /\ doms' = Forward!StartSets
            /\ todo' = nodes \ {Entry}
            /\ UNCHANGED <<graph, nodes>>

-----------------------------------------------------------------------------
(* _find_dominators, _find_loops, _find_post_dominators.                   *)

Dominate ==
    /\ stage = "doms"
    /\ UNCHANGED <<graph, nodes, stage, work, found>>
    /\ \E n \in todo : Forward!Visit(n)

Headers == {e[2] : e \in found.back}

Latches(h) == {e[1] : e \in {f \in found.back : f[2] = h}}

\* The body of one of the header's back edges only.
BodyOfOne(h) ==
    {h} \cup Reachable(Preds, {CHOOSE s \in Latches(h) : TRUE}, {h})

\* What reaches a back edge's source without passing the header.
Body(h) == {h} \cup Reachable(Preds, Latches(h), {h})

LoopExits(h) == Leads(graph, Body(h)) \ Body(h)

ExitPoints == {n \in nodes : graph[n] = {}}

\* The graph as it is, whether or not a loop ever ends.
UnlinkedSuccs == [n \in nodes \cup {Exit} |-> IF n = Exit THEN {} ELSE graph[n]]

\* The members of a loop without an exit are linked to the dummy exit.
LinkedSuccs ==
    LET endless == UNION {Body(h) : h \in {k \in Headers : LoopExits(k) = {}}}
    IN  [n \in nodes \cup {Exit} |->
            IF n = Exit THEN {} ELSE graph[n] \cup {e \in {Exit} : n \in endless}]

Mirror(g) == [n \in DOMAIN g |-> {m \in DOMAIN g : n \in g[m]}]

Backward ==
    INSTANCE Dominators WITH entries <- work.entries, preds <- work.succs,
                             succs <- work.preds

DominateEnds ==
    /\ stage = "doms"
    /\ todo = {}
    /\ stage' = "pdoms"
    /\ found' = [found EXCEPT !.doms = doms]
    /\ work' = [entries |-> ExitPoints \cup {Exit},
                succs |-> LinkedSuccs,
                preds |-> Mirror(LinkedSuccs)]
    /\ UNCHANGED <<graph, nodes>>
    /\ doms' = Backward!StartSets'
    /\ todo' = nodes \ work'.entries

PostDominate ==
    /\ stage = "pdoms"
    /\ UNCHANGED <<graph, nodes, stage, work, found>>
    /\ \E n \in todo : Backward!Visit(n)

\* The dummy exit leaves the table and the graph again.
PostDominateEnds ==
    /\ stage = "pdoms"
    /\ todo = {}
    /\ stage' = "done"
    /\ found' = [found EXCEPT !.pdoms = [n \in nodes |-> doms[n] \ {Exit}]]
    /\ work' = Nothing
    /\ doms' = Nothing
    /\ UNCHANGED <<graph, nodes, todo>>

Next ==
    \/ EliminateDeadBlocks
    \/ BackEdgeNext \/ BackEdgePop
    \/ PostOrder \/ PostOrderEnds
    \/ SweepNext \/ SweepEnds
    \/ Dominate \/ DominateEnds
    \/ PostDominate \/ PostDominateEnds

Spec == Init /\ [][Next]_vars

-----------------------------------------------------------------------------
(* _find_dominance_frontier and _find_in_loops.                            *)

\* The nodes from v up the dominator tree, short of top.
Climb(v, top) ==
    LET up[x \in nodes] == IF x = top THEN {} ELSE {x} \cup up[found.idom[x]]
    IN  up[v]

Frontier(n) ==
    {u \in nodes :
        /\ Cardinality(Preds[u]) >= 2
        /\ \E p \in Preds[u] : n \in Climb(p, found.idom[u])}

\* The headers of the loops around a node, those of small loops first.
InLoops(n) ==
    LET around == {h \in Headers : n \in Body(h)}
    IN  CHOOSE sorted \in [1 .. Cardinality(around) -> around] :
           \A i, j \in DOMAIN sorted :
              i < j => /\ sorted[i] # sorted[j]
                       /\ Cardinality(Body(sorted[i])) <= Cardinality(Body(sorted[j]))

-----------------------------------------------------------------------------
(* Properties.                                                             *)

\* "An edge (src, dest) is a back edge if and only if dest dominates src":
\* the depth-first walk finds these edges and no other, whichever successor
\* it tries first.
BackEdgesAreDominance ==
    stage = "post" => found.back = {e \in Edges : Dominates(graph, e[2], e[1])}

\* The post-order that the topological order and the descendants are read
\* off: every live node once, and after all that it leads to.
OrderIsTopological ==
    stage = "idom" =>
        /\ Len(found.post) = Cardinality(nodes)
        /\ ToSet(found.post) = nodes
        /\ \A e \in Edges \ found.back : Index(e[2]) < Index(e[1])

\* assert len(new_doms) < len(doms[n]), in both directions, on tables that
\* are what the algorithm takes for granted.
AssertionHolds ==
    /\ stage = "doms" => Forward!GraphOK /\ Forward!Shrinks
    /\ stage = "pdoms" => Backward!GraphOK /\ Backward!Shrinks

\* A path that leaves N has ended where there is nowhere to go, or once it
\* goes round a cycle that it cannot leave.
Ends ==
    {n \in nodes :
        LET after == Reachable(graph, graph[n], {})
        IN  graph[n] = {} \/ (n \in after /\ \A m \in after : n \in Reachable(graph, graph[m], {}))}

PostDominates(p, n) == p = n \/ Reachable(graph, {n}, {p}) \cap Ends = {}

StrictlyDominates(d, n) == d # n /\ Dominates(graph, d, n)

\* Dominators and post-dominators are what paths say they are; the immediate
\* dominator is the strict one that all strict ones dominate; the frontier of
\* N is where N's dominance ends (the entry aside, which has no frontier to
\* be in unless two edges lead to it).
DominanceIsExact ==
    stage = "done" =>
        \A n \in nodes :
           /\ found.doms[n] = {d \in nodes : Dominates(graph, d, n)}
           /\ found.pdoms[n] = {p \in nodes : PostDominates(p, n)}
           /\ n # Entry =>
                /\ StrictlyDominates(found.idom[n], n)
                /\ \A d \in nodes : StrictlyDominates(d, n) => Dominates(graph, d, found.idom[n])
           /\ Frontier(n) \ {Entry} =
                {u \in nodes \ {Entry} :
                    /\ \E p \in Preds[u] : Dominates(graph, n, p)
                    /\ ~StrictlyDominates(n, u)}

\* A loop is all that its header dominates and that leads back to it; only
\* the header is entered from outside; and the loops around a node contain
\* each other, the innermost first.
LoopsNest ==
    stage = "done" =>
        /\ \A h \in Headers :
              LET below == {n \in nodes : Dominates(graph, h, n)}
              IN  /\ Body(h) = {n \in below : h \in Reachable(graph, graph[n], nodes \ below)}
                  /\ \A n \in Body(h) \ {h} : Preds[n] \subseteq Body(h)
        /\ \A n \in nodes : \A i, j \in DOMAIN InLoops(n) :
              i < j => /\ Body(InLoops(n)[i]) \subseteq Body(InLoops(n)[j])
                       /\ InLoops(n)[i] # InLoops(n)[j]
=============================================================================
