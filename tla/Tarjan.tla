-------------------------------- MODULE Tarjan --------------------------------
(***************************************************************************)
(* tarjan_sccs of src/utils/scc.rs: the iterative algorithm with an        *)
(* explicit work stack of (node, next child) that every loop detection of  *)
(* the engine shares.  Schedule calls it and relies on what it returns and *)
(* on the order it returns it in.                                          *)
(***************************************************************************)
EXTENDS Integers, FiniteSets, SequencesExt

CONSTANT N  \* number of nodes; node i here is node i - 1 of the code

Node == 1 .. N

VARIABLES
    adj,        \* the graph: an adjacency list for each node
    index,      \* visiting order, N when not visited (usize::MAX)
    lowlink,
    stack,      \* visited nodes of components not closed yet
    work,       \* <<node, next child>>; next child 0 is the pre-visit
    next,       \* next_index
    sccs        \* the closed components, in the order they were closed

vars == <<adj, index, lowlink, stack, work, next, sccs>>

-----------------------------------------------------------------------------
Unvisited == N
OnStack(v) == v \in ToSet(stack)

Top == work[Len(work)]
Below == SubSeq(work, 1, Len(work) - 1)
\* (Mutant: the cursor stays.)
Unadvanced == Append(Below, <<Top[1], IF Top[2] = 0 THEN 1 ELSE Top[2]>>)
Advanced == Append(Below, <<Top[1], Top[2] + 1>>)

AtChild == work # <<>> /\ Top[2] \in 1 .. Len(adj[Top[1]])
AtEnd == work # <<>> /\ Top[2] > Len(adj[Top[1]])
Child == adj[Top[1]][Top[2]]

\* Nothing called yet.
Init ==
    /\ adj = [v \in Node |-> <<>>]
    /\ index = [v \in Node |-> Unvisited] /\ lowlink = [v \in Node |-> 0]
    /\ stack = <<>> /\ work = <<>> /\ next = 0 /\ sccs = <<>>

\* A call for the graph g.
Call(g) ==
    /\ adj' = g
    /\ index' = [v \in Node |-> Unvisited] /\ lowlink' = [v \in Node |-> 0]
    /\ stack' = <<>> /\ work' = <<>> /\ next' = 0 /\ sccs' = <<>>

\* The next start node is the first one not visited yet.
Start ==
    /\ work = <<>>
    /\ \E v \in Node :
          /\ index[v] = Unvisited
          /\ \A w \in 1 .. (v - 1) : index[w] # Unvisited
          /\ work' = <<<<v, 0>>>>
    /\ UNCHANGED <<adj, index, lowlink, stack, next, sccs>>

PreVisit ==
    /\ work # <<>> /\ Top[2] = 0
    /\ index' = [index EXCEPT ![Top[1]] = next]
    /\ lowlink' = [lowlink EXCEPT ![Top[1]] = next]
    /\ next' = next + 1
    /\ stack' = Append(stack, Top[1])
    /\ work' = Advanced
    /\ UNCHANGED <<adj, sccs>>

Descend ==
    /\ AtChild /\ index[Child] = Unvisited
    /\ work' = Append(Advanced, <<Child, 0>>)
    /\ UNCHANGED <<adj, index, lowlink, stack, next, sccs>>

\* The neighbour has been seen before: it counts while it is on the stack.
Link ==
    /\ AtChild /\ index[Child] # Unvisited
    /\ lowlink' = IF OnStack(Child) /\ index[Child] < lowlink[Top[1]]
                  THEN [lowlink EXCEPT ![Top[1]] = index[Child]] ELSE lowlink
    /\ work' = Advanced
    /\ UNCHANGED <<adj, index, stack, next, sccs>>

\* The component a root closes: the stack popped down to the root.
Position(v) == CHOOSE i \in DOMAIN stack : stack[i] = v
Component(v) == Reverse(SubSeq(stack, Position(v), Len(stack)))

\* Leaving v: its lowlink is folded into its parent's.
\* (Mutant: the fold is forgotten.)
NoFold == lowlink' = lowlink
Fold ==
    LET v == Top[1]
        p == Below[Len(Below)][1]
    IN  lowlink' = IF Below # <<>> /\ lowlink[v] < lowlink[p]
                   THEN [lowlink EXCEPT ![p] = lowlink[v]] ELSE lowlink

Close ==
    /\ AtEnd /\ lowlink[Top[1]] = index[Top[1]]
    /\ sccs' = Append(sccs, Component(Top[1]))
    /\ stack' = SubSeq(stack, 1, Position(Top[1]) - 1)
    /\ Fold
    /\ work' = Below
    /\ UNCHANGED <<adj, index, next>>

Leave ==
    /\ AtEnd /\ lowlink[Top[1]] # index[Top[1]]
    /\ Fold
    /\ work' = Below
    /\ UNCHANGED <<adj, index, stack, next, sccs>>

Done == work = <<>> /\ \A v \in Node : index[v] # Unvisited

Next == Start \/ PreVisit \/ Descend \/ Link \/ Close \/ Leave

-----------------------------------------------------------------------------
\* What a node leads to, itself included, and the nodes on a cycle with it.
Closed(S) == \A u \in S : ToSet(adj[u]) \subseteq S
Reach(v) == {w \in Node : \A S \in SUBSET Node : v \in S /\ Closed(S) => w \in S}
Class(v) == {w \in Reach(v) : v \in Reach(w)}

TypeOK ==
    /\ adj \in [Node -> Seq(Node)]
    /\ index \in [Node -> 0 .. N]
    /\ lowlink \in [Node -> 0 .. N]
    /\ stack \in Seq(Node)
    /\ work \in Seq(Node \X Nat)
    /\ next \in 0 .. N
    /\ sccs \in Seq(Seq(Node))

\* The components returned are the classes of mutually reachable nodes, each
\* exactly once: what "on a true cycle" means for every caller of scc.rs.
ComponentsAreClasses ==
    Done => LET classes == {Class(v) : v \in Node}
            IN  /\ {ToSet(sccs[i]) : i \in DOMAIN sccs} = classes
                /\ Len(sccs) = Cardinality(classes)

\* A component is closed only after everything it leads to: the "finalization
\* order" the scheduler walks its loops in is downstream first.
DownstreamFirst ==
    \A i \in DOMAIN sccs : \A u \in ToSet(sccs[i]) : \A w \in ToSet(adj[u]) :
        \E j \in 1 .. i : w \in ToSet(sccs[j])

=============================================================================
