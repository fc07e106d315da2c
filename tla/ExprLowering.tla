----------------------------- MODULE ExprLowering -----------------------------
(***************************************************************************)
(* The lowering pipeline lower_for_tape of src/ssa/optimize.rs: the live   *)
(* graph is rebuilt through a fresh hash-consing map (canonicalize),       *)
(* accumulation chains become one Sum or Dot node (reassociate_chains),    *)
(* and a second rebuild restores the order the tape evaluates in.          *)
(***************************************************************************)
EXTENDS ExprGraph

CONSTANTS
    MaxPasses,          \* COMPILE_OPTIMIZE_MAX_PASSES (8)
    ReassocMinTerms     \* JIT_REASSOC_MIN_TERMS (4)

-----------------------------------------------------------------------------
(* canonicalize *)

\* (Mutant: any two operands.)
SortedAlways(node) ==
    IF Len(node.args) = 2 /\ node.args[1] > node.args[2] THEN [node EXCEPT !.args = Reverse(@)] ELSE node

Sorted(node) ==
    IF node.op \in Commutative /\ node.args[1] > node.args[2]
    THEN [node EXCEPT !.args = Reverse(@)] ELSE node

\* insert_canonical: operands in order, then the structural folds.
RECURSIVE InsertCanonical(_, _)
InsertSorted(g, node) ==
    LET arg(i) == node.args[i]
        id(i) == [g |-> g, id |-> arg(i)]
        constants == node.args # <<>> /\ AllConst(g, node.args)
        value == NodeValue(node, [i \in Ids(g) |-> ConstOf(g, i)], [in |-> <<>>, par |-> <<>>])
    IN  CASE node.op = "select" /\ ConstOf(g, arg(1)) # {} ->
                IF IsConst(g, arg(1), 0) THEN id(3) ELSE id(2)
          [] node.op = "select" /\ ConstOf(g, arg(1)) = {} /\ arg(2) = arg(3) -> id(2)
          [] node.op # "select" /\ constants /\ value # {} -> Add(g, Const(The(value)))
          [] node.op = "fma" /\ ~constants /\ (IsConst(g, arg(1), 1) \/ IsConst(g, arg(2), 1)) ->
                InsertCanonical(g, Op("add", <<IF IsConst(g, arg(1), 1) THEN arg(2) ELSE arg(1), arg(3)>>))
          [] node.op = "prod" /\ Len(node.args) = 1 -> id(1)
          [] OTHER -> Add(g, node)
InsertCanonical(g, unsorted) == InsertSorted(g, Sorted(unsorted))

\* Post-order from a node: r.new is the graph rebuilt so far and r.remap the
\* new id of every node already rebuilt.
Placed(id, ins, remap) == [new |-> ins.g, remap |-> (id :> ins.id) @@ remap]
Above(below, id, node) ==
    Placed(id, InsertCanonical(below.new, [node EXCEPT !.args = [i \in DOMAIN @ |-> below.remap[@[i]]]]),
           below.remap)
RECURSIVE Rebuild(_, _, _)
Rebuild(g, r, id) ==
    IF id \in DOMAIN r.remap THEN r
    ELSE Above(FoldLeft(LAMBDA s, c : Rebuild(g, s, c), r, g.nodes[id].args), id, g.nodes[id])

CanonicalizeOnce(g) ==
    LET r == FoldLeft(LAMBDA s, o : Rebuild(g, s, o), [new |-> EmptyGraph, remap |-> <<>>], g.outputs)
    IN  [r.new EXCEPT !.outputs = [o \in DOMAIN g.outputs |-> r.remap[g.outputs[o]]]]

SameGraph(g, h) == g.nodes = h.nodes /\ g.outputs = h.outputs

\* Repeated while a pass changes something, up to the cap.
RECURSIVE Passes(_, _)
Passed(g, h, left) == IF left = 1 \/ SameGraph(g, h) THEN h ELSE Passes(h, left - 1)
Passes(g, left) == Passed(g, CanonicalizeOnce(g), left)

Canonicalized(g) == Passes(g, MaxPasses)

-----------------------------------------------------------------------------
(* reassociate_chains *)

UseCount(g, id) ==
    FoldLeft(LAMBDA n, node : n + Cardinality({i \in DOMAIN node.args : node.args[i] = id}), 0, g.nodes)

Chained == {"add", "fma"}
Private(g, id) == UseCount(g, id) = 1 /\ id \notin ToSet(g.outputs)
Interior(g, id) == g.nodes[id].op \in Chained /\ Private(g, id)
Roots(g) == SelectSeq([i \in Ids(g) |-> i],
                      LAMBDA i : g.nodes[i].op \in Chained /\ ~Interior(g, i))

\* What a discretizing operation reads: a shift of one ULP jumps there.
Discretized(node) ==
    CASE node.op \in {"lt", "gt", "eq", "mod"} -> {node.args[1], node.args[2]}
      [] node.op \in {"select", "sign"} -> {node.args[1]}
      [] OTHER -> {}
Sensitive(g) == Reached(g, UNION {Discretized(g.nodes[i]) : i \in Ids(g)})

\* The walk from a root: a stack of ids (the last one is next), the products
\* and the plain terms found so far.  Uses and interiors are those of g0, the
\* graph at the start of the pass.
RECURSIVE Walk(_, _, _, _)
Walk(g0, g, root, w) ==
    IF w.stack = <<>> THEN w
    ELSE LET id == Last(w.stack)
             rest == Front(w.stack)
             node == g.nodes[id]
             inChain == id = root \/ Interior(g0, id)
         IN  Walk(g0, g, root,
                  CASE node.op = "add" /\ inChain -> [w EXCEPT !.stack = rest \o node.args]
                    [] node.op = "fma" /\ inChain ->
                        [w EXCEPT !.stack = Append(rest, node.args[3]),
                                  !.products = Append(@, SubSeq(node.args, 1, 2))]
                    [] node.op = "mul" /\ Private(g0, id) ->
                        [w EXCEPT !.stack = rest, !.products = Append(@, node.args)]
                    [] OTHER -> [w EXCEPT !.stack = rest, !.plains = Append(@, id)])

\* All products: one Dot.  Otherwise a Sum, the products added as Mul nodes,
\* above the root that reads them.
Bundle(g, root, w) ==
    LET dot == Op("dot", [i \in DOMAIN w.products |-> w.products[i][1]]
                         \o [i \in DOMAIN w.products |-> w.products[i][2]])
        muls == FoldLeft(LAMBDA s, p : LET r == Add(s.g, Op("mul", p))
                                       IN  [g |-> r.g, terms |-> Append(s.terms, r.id)],
                         [g |-> g, terms |-> w.plains], w.products)
    IN  CASE Len(w.products) + Len(w.plains) < ReassocMinTerms -> g
          [] Len(w.products) + Len(w.plains) >= ReassocMinTerms /\ w.plains = <<>> -> Rewrite(g, root, dot)
          [] OTHER -> Rewrite(muls.g, root, Op("sum", muls.terms))

Reassociated(g0) ==
    LET sensitive == Sensitive(g0)
        chain(g, root) ==
            IF root \in sensitive THEN g
            ELSE Bundle(g, root, Walk(g0, g, root, [stack |-> <<root>>, products |-> <<>>, plains |-> <<>>]))
    IN  FoldLeft(chain, g0, Roots(g0))

-----------------------------------------------------------------------------
\* canonicalize, the bundling of sums, and canonicalize again if that changed it.
CanonicalizedIfChanged(a, b) == IF b = a THEN a ELSE Canonicalized(b)
BundledCanonical(a) == CanonicalizedIfChanged(a, Reassociated(a))
LowerForTape(g) == BundledCanonical(Canonicalized(g))

-----------------------------------------------------------------------------
(* The flat evaluator of src/ssa/tape.rs: one operation per node in index  *)
(* order, each writing a work slot that is reused as soon as the node in it*)
(* is dead.  The work buffer outlives a call and is not cleared.           *)

\* (Mutant: the first operation that reads a node.)
FirstUse(g, id) ==
    IF id \in ToSet(g.outputs) THEN Len(g.nodes) + 1
    ELSE LET readers == {i \in Ids(g) : id \in ToSet(g.nodes[i].args)}
         IN  IF readers = {} THEN id ELSE Min(readers)

\* The last operation that reads a node; outputs are never freed.
LastUse(g, id) ==
    IF id \in ToSet(g.outputs) THEN Len(g.nodes) + 1
    ELSE LET readers == {i \in Ids(g) : id \in ToSet(g.nodes[i].args)}
         IN  IF readers = {} THEN id ELSE Max(readers \cup {id})

\* Operand ids in the order of their first occurrence, each once.
Once(s) == FoldLeft(LAMBDA t, e : IF Contains(t, e) THEN t ELSE Append(t, e), <<>>, s)

\* The operands that die at node i, freed before its own slot is chosen.
Dying(g, i) == SelectSeq(Once(g.nodes[i].args), LAMBDA c : LastUse(g, c) = i)

\* allocate_work_slots: the free list is last in, first out.
Allocate(g) ==
    LET place(a, i) ==
            LET dying == Dying(g, i)
                free == a.free \o [k \in DOMAIN dying |-> a.slot[dying[k]]]
            IN  IF free = <<>>
                THEN [slot |-> Append(a.slot, a.count + 1), free |-> free, count |-> a.count + 1]
                ELSE [slot |-> Append(a.slot, Last(free)), free |-> Front(free), count |-> a.count]
    IN  FoldLeftDomain(place, [slot |-> <<>>, free |-> <<>>, count |-> 0], g.nodes)

\* Tape::from_graph: the operations with slots for operands, and the outputs.
Tape(g) ==
    LET a == Allocate(g)
    IN  [ops |-> [i \in Ids(g) |->
                    [dst |-> a.slot[i],
                     node |-> [g.nodes[i] EXCEPT !.args = [k \in DOMAIN @ |-> a.slot[@[k]]]]]],
         outputs |-> [o \in DOMAIN g.outputs |-> a.slot[g.outputs[o]]],
         count |-> a.count]

\* Tape::eval: from the buffer a call found to the one it leaves.
Eval(tape, work, at) ==
    FoldLeft(LAMBDA w, op : [w EXCEPT ![op.dst] = NodeValue(op.node, w, at)], work, tape.ops)

=============================================================================
