------------------------------- MODULE Tearing -------------------------------
(***************************************************************************)
(* els_feedback_conns of src/utils/schedule.rs: the Eades-Lin-Smyth        *)
(* ordering of the blocks of one algebraic loop.  Sinks are peeled to the  *)
(* back, sources to the front, and when a cyclic core is left the block of *)
(* largest out-degree minus in-degree goes to the front.  The connections  *)
(* with an arc that runs backward in the ordering are torn: they are the   *)
(* residuals the loop solver iterates on.                                  *)
(***************************************************************************)
EXTENDS Integers, FiniteSets

VARIABLES
    size,           \* number of blocks of the loop; block i is local index i - 1
    arcs,           \* the arcs inside the loop, a connection may have several
    outdeg, indeg,  \* live degrees, maintained as blocks are dropped
    removed,        \* blocks already ordered
    pos,            \* their places
    left, right,    \* next place from the front, last place taken at the back
    pc,             \* "sinks", "sources", "core", "done"
    cursor,         \* the block the scan has come to
    progressed      \* something was peeled in this round

vars == <<size, arcs, outdeg, indeg, removed, pos, left, right, pc, cursor, progressed>>

-----------------------------------------------------------------------------
Block == 1 .. size
Live == Block \ removed
Outs(v, w) == Cardinality({a \in arcs : a[1] = v /\ a[2] = w})

\* Nothing called yet.
Init ==
    /\ size = 0 /\ arcs = {}
    /\ outdeg = <<>> /\ indeg = <<>> /\ removed = {} /\ pos = <<>>
    /\ left = 0 /\ right = 0
    /\ pc = "done" /\ cursor = 1 /\ progressed = FALSE

\* A call for a loop of n blocks, some n > 0.
Call(n, loopArcs) ==
    /\ size' = n /\ arcs' = loopArcs
    /\ outdeg' = [v \in 1 .. n |-> Cardinality({a \in loopArcs : a[1] = v})]
    /\ indeg' = [v \in 1 .. n |-> Cardinality({a \in loopArcs : a[2] = v})]
    /\ removed' = {} /\ pos' = [v \in 1 .. n |-> 0]
    /\ left' = 0 /\ right' = n
    /\ pc' = "sinks" /\ cursor' = 1 /\ progressed' = FALSE

\* drop_vertex: the live neighbours lose the arcs to and from u.
Drop(u) ==
    /\ removed' = removed \cup {u}
    /\ indeg' = [v \in Block |-> IF v \in Live \ {u} THEN indeg[v] - Outs(u, v) ELSE indeg[v]]
    /\ outdeg' = [v \in Block |-> IF v \in Live \ {u} THEN outdeg[v] - Outs(v, u) ELSE outdeg[v]]

ToFront(u) ==
    /\ pos' = [pos EXCEPT ![u] = left]
    /\ left' = left + 1
    /\ right' = right
    /\ Drop(u)

ToBack(u) ==
    /\ pos' = [pos EXCEPT ![u] = right - 1]
    /\ right' = right - 1
    /\ left' = left
    /\ Drop(u)

\* The next block of the scan that qualifies.
Scanned(deg) ==
    {u \in Live : /\ u >= cursor /\ deg[u] = 0
                  /\ \A v \in Live : v \in cursor .. (u - 1) => deg[v] # 0}

PeelSink ==
    /\ pc = "sinks"
    /\ \E u \in Scanned(outdeg) : ToBack(u) /\ cursor' = u + 1
    /\ progressed' = TRUE
    /\ UNCHANGED <<size, arcs, pc>>

SinksScanned ==
    /\ pc = "sinks" /\ Scanned(outdeg) = {}
    /\ pc' = "sources" /\ cursor' = 1
    /\ UNCHANGED <<size, arcs, outdeg, indeg, removed, pos, left, right, progressed>>

PeelSource ==
    /\ pc = "sources"
    /\ \E u \in Scanned(indeg) : ToFront(u) /\ cursor' = u + 1
    /\ progressed' = TRUE
    /\ UNCHANGED <<size, arcs, pc>>

\* Another round while something was peeled.
SourcesScanned ==
    /\ pc = "sources" /\ Scanned(indeg) = {}
    /\ pc' = IF progressed THEN "sinks" ELSE IF Live # {} THEN "core" ELSE "done"
    /\ cursor' = 1 /\ progressed' = FALSE
    /\ UNCHANGED <<size, arcs, outdeg, indeg, removed, pos, left, right>>

\* The first block of maximum out - in degree.
Surplus(u) == outdeg[u] - indeg[u]
Best == {u \in Live : \A v \in Live : Surplus(v) < Surplus(u) \/ (Surplus(v) = Surplus(u) /\ u <= v)}

TakeBest ==
    /\ pc = "core"
    /\ \E u \in Best : ToFront(u)
    /\ pc' = IF removed' = Block THEN "done" ELSE "sinks"
    /\ UNCHANGED <<size, arcs, cursor, progressed>>

Next == PeelSink \/ SinksScanned \/ PeelSource \/ SourcesScanned \/ TakeBest

\* The torn connections: those with an arc that runs backward, or a self-arc.
\* (Mutant: self-arcs are kept.)
TornStrictly == {a[3] : a \in {b \in arcs : pos[b[1]] > pos[b[2]]}}
Torn == {a[3] : a \in {b \in arcs : b[1] = b[2] \/ pos[b[1]] > pos[b[2]]}}

-----------------------------------------------------------------------------
TypeOK ==
    /\ size \in Nat
    /\ outdeg \in [Block -> Nat] /\ indeg \in [Block -> Nat]
    /\ removed \subseteq Block
    /\ pos \in [Block -> 0 .. (size - 1)]
    /\ left \in 0 .. size /\ right \in 0 .. size
    /\ pc \in {"sinks", "sources", "core", "done"}
    /\ cursor \in 1 .. (size + 1) /\ progressed \in BOOLEAN

\* From some blocks one can go on for ever.
Cyclic(rest) ==
    \E S \in (SUBSET Block) \ {{}} : \A v \in S : \E a \in rest : a[1] = v /\ a[2] \in S

Kept == {a \in arcs : a[3] \notin Torn}

\* Without the torn connections the loop is acyclic, so it can be layered.
TornBreaksAllCycles == pc = "done" => removed = Block /\ ~Cyclic(Kept)

\* The incrementally maintained degrees are those of the arcs between live
\* blocks, so a block peeled as a sink or source is one (drop_vertex, also with
\* parallel connections and self-arcs).
DegreesAreLive ==
    \A v \in Live :
        /\ outdeg[v] = Cardinality({a \in arcs : a[1] = v /\ a[2] \in Live})
        /\ indeg[v] = Cardinality({a \in arcs : a[2] = v /\ a[1] \in Live})

\* The places handed out from both ends never meet: no two blocks share one.
OrderIsLinear ==
    /\ right - left = Cardinality(Live)
    /\ \A v, w \in removed : pos[v] = pos[w] => v = w
    /\ \A v \in removed : pos[v] \in (0 .. (left - 1)) \cup (right .. (size - 1))

=============================================================================
