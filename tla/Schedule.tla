------------------------------- MODULE Schedule -------------------------------
(***************************************************************************)
(* The evaluation order of a block diagram (Schedule in                    *)
(* src/utils/schedule.rs) and one _update of the system along it           *)
(* (src/simulation.rs).  Blocks whose outputs need none of their inputs    *)
(* come first, the others by the depth of what they read; the rest is      *)
(* split into algebraic loops by Tarjan, each loop is torn by Tearing and  *)
(* layered, and the loops are iterated to a fixed point.                   *)
(*                                                                         *)
(* Values are abstracted to whether they are up to date: a block that is   *)
(* updated is up to date if everything it reads is, and a connection       *)
(* carries what its source had when it last fired.  What a torn            *)
(* connection carries counts as good enough: it is the guess the boosters  *)
(* improve.                                                                *)
(***************************************************************************)
EXTENDS Integers, FiniteSets, SequencesExt

CONSTANTS
    N,              \* number of blocks
    Nets,           \* diagrams to start from, see below
    MaxIterations   \* iterations_max

Block == 1 .. N

\* A diagram: the blocks with feedthrough, and its arcs in the order of the
\* connections they belong to; an arc ends in an input its target reads or not.
ASSUME NetAssumption ==
    /\ N \in Nat /\ MaxIterations \in Nat
    /\ \A net \in Nets :
          /\ net.alg \subseteq Block /\ net.arcs \in Seq(ToSet(net.arcs))
          /\ \A a \in ToSet(net.arcs) :
                /\ a.src \in Block /\ a.tgt \in Block
                /\ a.read \in BOOLEAN /\ (a.read => a.tgt \in net.alg)
          /\ \A a, b \in ToSet(net.arcs) : a.conn = b.conn => a.src = b.src

VARIABLES
    net,
    phase,      \* "layer", "cycles", "loops", "tear", "dag", "iterate", "done", "failed"
    dag,        \* blocks of the DAG pass by depth (a function from depths)
    open,       \* loops not placed yet
    loop,       \* blocks of the loop pass by depth, a sequence
    loops,      \* number of loops placed
    torn,       \* loop-closing connections
    depth,      \* the depth the pass under way has come to
    iteration,
    fresh,      \* blocks whose outputs are up to date
    carried,    \* connections whose targets hold an up-to-date value
    \* the state of a call of tarjan_sccs
    adj, index, lowlink, stack, work, next, sccs,
    \* the state of a call of els_feedback_conns
    size, arcs, outdeg, indeg, removed, pos, left, right, tearing, cursor, progressed

T == INSTANCE Tarjan
E == INSTANCE Tearing WITH pc <- tearing

layout == <<dag, open, loop, loops, torn>>
values == <<depth, iteration, fresh, carried>>
cycleSearch == <<adj, index, lowlink, stack, work, next, sccs>>
ordering == <<size, arcs, outdeg, indeg, removed, pos, left, right, tearing, cursor, progressed>>
vars == <<net, phase, layout, values, cycleSearch, ordering>>

Arcs == ToSet(net.arcs)
Connections == {a.conn : a \in Arcs}
SourceOf(c) == (CHOOSE a \in Arcs : a.conn = c).src

-----------------------------------------------------------------------------
(* assemble *)

\* The blocks each block leads to along some arcs.
Leads(some) ==
    LET r[k \in 0 .. N] ==
            IF k = 0 THEN [b \in Block |-> {}]
            ELSE LET shorter == r[k - 1]
                 IN  [b \in Block |-> UNION {{a.tgt} \cup shorter[a.tgt] :
                                                a \in {e \in some : e.src = b}}]
    IN  r[N]

\* compute_depths gives no depth to blocks on a cycle of read inputs, or
\* fed by one.
Blocked ==
    LET leads == Leads({a \in Arcs : a.read})
    IN  UNION {{b} \cup leads[b] : b \in {c \in Block : c \in leads[c]}}

\* Longest path of feedthrough steps; a block without feedthrough is at 0.
\* (Mutant: the first input decides.)
DepthsOfFirst(blocked) ==
    LET d[b \in Block] ==
            IF b \in blocked \/ b \notin net.alg THEN 0
            ELSE 1 + Min({0} \cup {d[a.src] : a \in {e \in Arcs : e.read /\ e.tgt = b}})
    IN  d
Depths(blocked) ==
    LET d[b \in Block] ==
            IF b \in blocked \/ b \notin net.alg THEN 0
            ELSE 1 + Max({0} \cup {d[a.src] : a \in {e \in Arcs : e.read /\ e.tgt = b}})
    IN  d

\* The k-th of some positions in a list, and what the list has there.
Nth(P, k) == CHOOSE i \in P : Cardinality({j \in P : j <= i}) = k
Picked(l, P) == [k \in 1 .. Cardinality(P) |-> l[Nth(P, k)]]

\* find_sccs: the graph of the blocks S, along all arcs, each target once.
First(i) ==
    \A k \in 1 .. (i - 1) : <<net.arcs[k].src, net.arcs[k].tgt>> # <<net.arcs[i].src, net.arcs[i].tgt>>
Succ(S) ==
    LET from(b) == {i \in DOMAIN net.arcs : net.arcs[i].src = b /\ net.arcs[i].tgt \in S /\ First(i)}
        targets == [i \in DOMAIN net.arcs |-> net.arcs[i].tgt]
    IN  [b \in Block |-> IF b \in S THEN Picked(targets, from(b)) ELSE <<>>]

\* Components that are cycles.
IsCycle(component) ==
    Len(component) > 1 \/ component[1] \in ToSet(adj[component[1]])

Init ==
    /\ net \in Nets
    /\ phase = "layer"
    /\ dag = <<>> /\ open = <<>> /\ loop = <<>> /\ loops = 0 /\ torn = {}
    /\ depth = 0 /\ iteration = 0 /\ fresh = {} /\ carried = {}
    /\ T!Init /\ E!Init

Layer ==
    /\ phase = "layer"
    /\ LET blocked == Blocked
           d == Depths(blocked)
       IN  /\ dag' = [k \in 0 .. N |-> {b \in Block \ blocked : d[b] = k}]
           /\ IF blocked = {} THEN phase' = "dag" /\ UNCHANGED cycleSearch
              ELSE phase' = "cycles" /\ T!Call(Succ(blocked))
    /\ UNCHANGED <<net, open, loop, loops, torn, values, ordering>>

FindCycles ==
    /\ phase = "cycles"
    /\ T!Next
    /\ UNCHANGED <<net, phase, layout, values, ordering>>

CyclesFound ==
    /\ phase = "cycles" /\ T!Done
    /\ open' = Picked(sccs, {i \in DOMAIN sccs : IsCycle(sccs[i])})
    /\ phase' = "loops"
    /\ UNCHANGED <<net, dag, loop, loops, torn, values, cycleSearch, ordering>>

Inside(S) == {a \in Arcs : a.src \in S /\ a.tgt \in S}

\* els_feedback_conns is called for the next loop, with local indices.
LocalArcs(l) ==
    LET at(b) == CHOOSE i \in DOMAIN l : l[i] = b
    IN  {<<at(a.src), at(a.tgt), a.conn>> : a \in Inside(ToSet(l))}

NextLoop ==
    /\ phase = "loops" /\ open # <<>>
    /\ E!Call(Len(Head(open)), LocalArcs(Head(open)))
    /\ phase' = "tear"
    /\ UNCHANGED <<net, layout, values, cycleSearch>>

Tear ==
    /\ phase = "tear"
    /\ E!Next
    /\ UNCHANGED <<net, phase, layout, values, cycleSearch>>

\* Longest path inside the loop without the torn connections.
\* (Mutant: predecessors share the level.)
LevelTogether(l) == [b \in Block |-> 0]
LocalDepths(l) ==
    LET d[b \in Block] ==
            Max({0} \cup {d[a.src] + 1 : a \in {e \in Inside(l) : e.tgt = b /\ e.conn \notin E!Torn}})
    IN  [b \in l |-> d[b]]

\* The loop is layered and put below the loops placed before.
PlaceLoop ==
    /\ phase = "tear" /\ tearing = "done"
    /\ LET l == ToSet(Head(open))
           d == LocalDepths(l)
       IN  loop' = loop \o [k \in 1 .. (Max({d[b] : b \in l}) + 1) |-> {b \in l : d[b] = k - 1}]
    /\ torn' = torn \cup E!Torn
    /\ open' = Tail(open)
    /\ loops' = loops + 1
    /\ phase' = "loops"
    /\ UNCHANGED <<net, dag, values, cycleSearch, ordering>>

Assembled ==
    /\ phase = "loops" /\ open = <<>>
    /\ phase' = "dag"
    /\ UNCHANGED <<net, layout, values, cycleSearch, ordering>>

-----------------------------------------------------------------------------
(* _update *)

ReadBy(b) == {a.conn : a \in {e \in Arcs : e.tgt = b /\ e.read}}
UpToDate(B, good) == {b \in B : ReadBy(b) \subseteq good}
FiredBy(B) == {c \in Connections : SourceOf(c) \in B}

\* The blocks B are updated, then the connections C fire.
Evaluate(B, C, good) ==
    /\ fresh' = (fresh \ B) \cup UpToDate(B, good)
    /\ carried' = (carried \ C) \cup {c \in C : SourceOf(c) \in fresh'}

\* _dag, one depth.
DagLevel ==
    /\ phase = "dag" /\ depth <= N
    /\ Evaluate(dag[depth], FiredBy(dag[depth]), carried)
    /\ depth' = depth + 1
    /\ UNCHANGED <<net, phase, layout, iteration, cycleSearch, ordering>>

\* has_loops: some block got no depth.
HasLoops == UNION {dag[k] : k \in DOMAIN dag} # Block

DagDone ==
    /\ phase = "dag" /\ depth > N
    /\ phase' = IF HasLoops THEN "iterate" ELSE "done"
    /\ depth' = 1 /\ iteration' = 1
    /\ UNCHANGED <<net, layout, fresh, carried, cycleSearch, ordering>>

\* The iteration counts from one and stops at its bound.
IterationsLeft == iteration < MaxIterations

\* _loops, one depth of one iteration.
LoopLevel ==
    /\ phase = "iterate" /\ IterationsLeft /\ depth <= Len(loop)
    /\ Evaluate(loop[depth], FiredBy(loop[depth]) \ torn, carried \cup torn)
    /\ depth' = depth + 1
    /\ UNCHANGED <<net, phase, layout, iteration, cycleSearch, ordering>>

\* The boosters step; they may be satisfied after any iteration, and are if
\* there are none.
Boost ==
    /\ phase = "iterate" /\ IterationsLeft /\ depth > Len(loop)
    /\ Evaluate({}, torn, carried)
    /\ \/ phase' = "done" /\ UNCHANGED <<iteration, depth>>
       \/ torn # {} /\ phase' = "iterate" /\ iteration' = iteration + 1 /\ depth' = 1
    /\ UNCHANGED <<net, layout, cycleSearch, ordering>>

\* Out of iterations: not converged.
GiveUp ==
    /\ phase = "iterate" /\ ~IterationsLeft
    /\ phase' = "failed"
    /\ UNCHANGED <<net, layout, values, cycleSearch, ordering>>

Next ==
    \/ Layer \/ FindCycles \/ CyclesFound \/ NextLoop \/ Tear \/ PlaceLoop \/ Assembled
    \/ DagLevel \/ DagDone \/ LoopLevel \/ Boost \/ GiveUp
Spec == Init /\ [][Next]_vars

-----------------------------------------------------------------------------
\* The blocks that _update evaluates at all.
Scheduled == (UNION {dag[k] : k \in DOMAIN dag}) \cup (UNION {loop[k] : k \in DOMAIN loop})
Phases == {"layer", "cycles", "loops", "tear", "dag", "iterate", "done", "failed"}

\* The first iteration is counted even where the bound allows none.
TypeOK ==
    /\ net \in Nets /\ phase \in Phases
    /\ phase # "layer" => dag \in [0 .. N -> SUBSET Block]
    /\ open \in Seq(Seq(Block)) /\ loop \in Seq(SUBSET Block) /\ loops \in 0 .. N
    /\ torn \subseteq Connections /\ carried \subseteq Connections
    /\ fresh \subseteq Block
    /\ depth \in Nat /\ iteration \in 0 .. (MaxIterations + 1)
    /\ T!TypeOK /\ E!TypeOK

\* tarjan_sccs returns the classes of mutually reachable blocks, each once, and
\* closes a component after all that it leads to: process_loops walks the loops
\* in this order, and the loop pass needs as many iterations as it is wrong.
ComponentsInOrder ==
    phase = "cycles" => T!ComponentsAreClasses /\ T!DownstreamFirst

\* els_feedback_conns tears every cycle of a loop, with degrees that stay those
\* of the live blocks (also with parallel connections) and with places handed
\* out from both ends that never meet.
LoopsAreTorn ==
    phase = "tear" => E!TornBreaksAllCycles /\ E!DegreesAreLive /\ E!OrderIsLinear

DagPartSettles ==
    phase \in {"iterate", "done"} =>
        LET part == UNION {dag[k] : k \in DOMAIN dag}
        IN  part \subseteq fresh /\ FiredBy(part) \subseteq carried

LoopsSettle ==
    phase = "done" /\ Scheduled = Block /\ iteration >= loops =>
        fresh = Block /\ carried = Connections

\* One DAG pass is enough for everything outside the loops and what they feed:
\* each such block is updated after all it reads, and its outputs passed on.
\* Where every block is scheduled, the loops settle: after as many iterations
\* as there are loops (they are walked downstream first) all is up to date.
UpdateSettles == DagPartSettles /\ LoopsSettle

\* The evaluation order covers every block (topo_order).
EveryBlockEvaluated == phase = "done" => Scheduled = Block

=============================================================================
