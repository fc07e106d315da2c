----------------------------- MODULE ExprCompiler -----------------------------
(***************************************************************************)
(* The life of a compiled expression: it is traced node by node into a     *)
(* graph, which may be optimized and differentiated, is lowered, and is    *)
(* evaluated from a tape as often as wanted (src/ssa/*; the sequences are  *)
(* those of lazy.rs, jit.rs and helpers.rs: a block's function is lowered  *)
(* as traced or after optimize, a Jacobian after optimize).                *)
(*                                                                         *)
(* Scripts bounds the expressions traced: the first nodes, then for every  *)
(* further one the operators it may be.  Inputs and Params count the flat  *)
(* inputs and the parameters, Points are the values they are given.        *)
(***************************************************************************)
EXTENDS ExprDiff, ExprLowering

CONSTANTS Scripts, Inputs, Params, Points

VARIABLES
    todo,       \* what is left to trace: a sequence of sets of operators
    source,     \* the graph as it was traced
    graph,      \* the graph now
    column,     \* what it computes: "value", "jacobian" or "param"
    stage,
    tape,       \* once lowered
    work,       \* the work buffer between calls
    called      \* the point of the last call and what it returned

vars == <<todo, source, graph, column, stage, tape, work, called>>

-----------------------------------------------------------------------------
Arity(op) ==
    CASE op \in {"neg", "abs", "sign", "sqrt", "smooth"} -> {1}
      [] op = "select" -> {3}
      [] op \in {"sum", "prod", "least"} -> {3}
      [] op = "dot" -> {2, 4}
      [] OTHER -> {2}

NoTape == [ops |-> <<>>, outputs |-> <<>>, count |-> 0]
NoCall == <<>>

Init ==
    /\ \E s \in Scripts :
        /\ todo = s.ops
        /\ graph = FoldLeft(LAMBDA g, leaf : Add(g, leaf).g, EmptyGraph, s.start)
    /\ source = EmptyGraph
    /\ column = "value"
    /\ stage = "tracing"
    /\ tape = NoTape
    /\ work = <<>>
    /\ called = NoCall

\* One traced operation.
Trace ==
    /\ stage = "tracing"
    /\ todo # <<>>
    /\ todo' = Tail(todo)
    /\ \E op \in Head(todo) : \E n \in Arity(op) : \E args \in [1 .. n -> Ids(graph)] :
            graph' = Add(graph, Op(op, args)).g
    /\ UNCHANGED <<source, column, stage, tape, work, called>>

\* The outputs are the nodes nothing reads.
Finish ==
    /\ stage = "tracing"
    /\ todo = <<>>
    /\ graph' = [graph EXCEPT !.outputs = SelectSeq([i \in Ids(graph) |-> i],
                    LAMBDA i : graph.nodes[i].args # <<>> /\ UseCount(graph, i) = 0)]
    /\ source' = graph'
    /\ stage' = "traced"
    /\ UNCHANGED <<todo, column, tape, work, called>>

\* optimize.
Optimize ==
    /\ stage \in {"traced", "derived"}
    /\ graph' = Optimized(graph)
    /\ stage' = "optimized"
    /\ UNCHANGED <<todo, source, column, tape, work, called>>

\* jacobian_wrt_slot, jacobian_wrt_param.
Derive ==
    /\ stage \in {"traced", "optimized"}
    /\ column = "value"
    /\ \/ /\ column' = "jacobian"
          /\ graph' = Jacobian(graph, Inputs)
       \/ /\ Params > 0
          /\ column' = "param"
          /\ graph' = ParamColumn(graph, 1)
    /\ stage' = "derived"
    /\ UNCHANGED <<todo, source, tape, work, called>>

\* InterpretedFn::from_graph: lowers a copy and allocates the buffer.
Lower ==
    /\ stage \in {"traced", "optimized"}
    /\ graph' = LowerForTape(graph)
    /\ tape' = Tape(graph')
    /\ work' = [s \in 1 .. tape'.count |-> {0}]
    /\ stage' = "lowered"
    /\ UNCHANGED <<todo, source, column, called>>

\* call, call_into: the buffer is used as the last call left it.
Call ==
    /\ stage = "lowered"
    /\ \E at \in Points :
        /\ work' = Eval(tape, work, at)
        /\ called' = [at |-> at, out |-> [o \in DOMAIN tape.outputs |-> work'[tape.outputs[o]]]]
    /\ UNCHANGED <<todo, source, graph, column, stage, tape>>

Next == Trace \/ Finish \/ Optimize \/ Derive \/ Lower \/ Call
Spec == Init /\ [][Next]_vars

-----------------------------------------------------------------------------
(* Reference: what the traced expression, or its derivative with respect   *)
(* to one leaf, is worth at a point, by forward mode on pairs of a value   *)
(* and a derivative, none at a kink or a jump.                             *)

Scale(k, D) == UNION {Known(k * d) : d \in D}
Ratio(N, b) == UNION {Quotient(n, b) : n \in N}
Minus(A, B) == Plus(A, Scale(-1, B))
Either(a, b, A, B) == IF a < b THEN A ELSE IF a > b THEN B ELSE A \cap B
TotalOf(s) == FoldLeft(Plus, {0}, s)

Slope(g, node, v, d) ==
    LET k == Len(node.args) \div 2
        others(i) == FoldLeft(LAMBDA p, j : IF j = i THEN p ELSE Times(p, {v[j]}), {1},
                              [j \in DOMAIN v |-> j])
        low == {i \in DOMAIN v : \A j \in DOMAIN v : v[i] <= v[j]}
    IN  CASE node.op = "add" -> Plus(d[1], d[2])
          [] node.op = "sub" -> Minus(d[1], d[2])
          [] node.op = "mul" -> Plus(Scale(v[1], d[2]), Scale(v[2], d[1]))
          [] node.op = "div" -> Ratio(Minus(d[1], Scale(The(Quotient(v[1], v[2])), d[2])), v[2])
          [] node.op = "mod" ->
                IF d[2] = {0} /\ Remainder(v[1], v[2]) # {0} THEN d[1] ELSE {}
          [] node.op = "pow" ->
                IF AllConst(g, <<node.args[2]>>)
                THEN UNION {Scale(v[2] * p, d[1]) : p \in Power(v[1], v[2] - 1)}
                ELSE IF v[1] = 1 THEN Scale(v[2], d[1]) ELSE {}
          [] node.op = "min" -> Either(v[1], v[2], d[1], d[2])
          [] node.op = "max" -> Either(v[2], v[1], d[1], d[2])
          [] node.op = "neg" -> Scale(-1, d[1])
          [] node.op = "abs" -> IF v[1] = 0 THEN {} ELSE Scale(Sign(v[1]), d[1])
          [] node.op = "sqrt" -> IF v[1] = 0 THEN {} ELSE Ratio(d[1], 2 * The(Root(v[1])))
          [] node.op = "smooth" -> Scale(2 * v[1], d[1])
          [] node.op = "sign" -> IF v[1] = 0 THEN {} ELSE {0}
          [] node.op \in {"lt", "gt", "eq"} -> IF v[1] = v[2] THEN {} ELSE {0}
          [] node.op = "sum" -> TotalOf(d)
          [] node.op = "prod" ->
                TotalOf([i \in DOMAIN v |-> UNION {Scale(p, d[i]) : p \in others(i)}])
          [] node.op = "least" ->
                {s \in UNION {d[i] : i \in low} : \A i \in low : s \in d[i]}
          [] node.op = "dot" ->
                TotalOf([i \in 1 .. k |-> Plus(Scale(v[i], d[k + i]), Scale(v[k + i], d[i]))])

Tangent(g, node, vals, ds, at, leaf) ==
    LET v == [i \in DOMAIN node.args |-> The(vals[node.args[i]])]
        d == [i \in DOMAIN node.args |-> ds[node.args[i]]]
    IN  CASE node.args = <<>> -> IF node = leaf THEN {1} ELSE {0}
          [] node.op = "select" ->
                IF vals[node.args[1]] = {} \/ d[1] # {0} THEN {}
                ELSE IF v[1] # 0 THEN d[2] ELSE d[3]
          [] OTHER ->
                IF \E i \in DOMAIN node.args : vals[node.args[i]] = {} \/ d[i] = {} THEN {}
                ELSE IF NodeValue(node, vals, at) = {} THEN {} ELSE Slope(g, node, v, d)

Tangents(g, at, leaf) ==
    LET vals == Values(g, at)
        ds == FoldLeft(LAMBDA s, node : Append(s, Tangent(g, node, vals, s, at, leaf)), <<>>, g.nodes)
    IN  [o \in DOMAIN g.outputs |-> ds[g.outputs[o]]]

\* What the outputs of the graph should be at a point.
Expected(at) ==
    CASE column = "value" -> Interpret(source, at)
      [] column = "param" -> Tangents(source, at, Leaf("param", 1))
      [] column = "jacobian" ->
            LET t == [x \in 1 .. Inputs |-> Tangents(source, at, Leaf("input", x))]
            IN  [k \in 1 .. (Len(source.outputs) * Inputs) |->
                    t[((k - 1) % Inputs) + 1][((k - 1) \div Inputs) + 1]]

\* A result agrees with a reference wherever the reference has a value.
Agrees(want, have) == \A o \in DOMAIN want : want[o] = {} \/ have[o] = want[o]
AgreesEverywhere(g) == \A at \in Points : Agrees(Expected(at), Interpret(g, at))

-----------------------------------------------------------------------------
(* Type invariant.  The tape and the interpreter evaluate in index order,  *)
(* so every operand lies below its consumer, in the lowered graph too,     *)
(* though reassociation adds products above the sum that reads them.       *)
TypeOK ==
    /\ stage \in {"tracing", "traced", "optimized", "derived", "lowered"}
    /\ column \in {"value", "jacobian", "param"}
    /\ Ordered(graph)
    /\ ToSet(graph.outputs) \subseteq Ids(graph)
    /\ tape.count = Len(work)

\* Folding, strength reduction, identities and fused multiply-adds, in place
\* and in any order the fixpoint takes, leave every output its value.
OptimizeKeepsMeaning == stage = "optimized" => AgreesEverywhere(graph)

\* The rebuild, the reassociation and the second rebuild keep every output, also
\* in floating point where it matters: no sum that a comparison, a select
\* condition, a sign or a remainder depends on has been regrouped, since those
\* jump where a sum shifts by one ULP.
LoweringKeepsMeaning ==
    LET bundled(g) == {i \in Ids(g) : g.nodes[i].op \in {"sum", "dot"}}
        jumps == UNION {Discretized(graph.nodes[i]) : i \in Ids(graph)}
    IN  stage = "lowered" =>
            /\ AgreesEverywhere(graph)
            /\ bundled(source) = {} => bundled(graph) \cap Reached(graph, jumps) = {}

\* A call returns what the traced expression is worth at its arguments,
\* whatever the calls before left in the shared work slots.
CallsReturnTheValue ==
    called # NoCall => Agrees(Expected(called.at), called.out)

StructureIsSound ==
    stage = "optimized" =>
        /\ column = "value" =>
            \A at, bt \in Points : \A o \in DOMAIN source.outputs :
                LET a == Interpret(source, at)[o]
                    b == Interpret(source, bt)[o]
                IN  /\ at.par = bt.par
                    /\ \A x \in Feedthrough(graph, o) : at.in[x] = bt.in[x]
                    /\ a # {} /\ b # {}
                    => a = b
        /\ column = "jacobian" =>
            \A at, bt \in Points :
                /\ \A k \in DOMAIN graph.outputs \ KeptEntries(graph) : Expected(at)[k] \subseteq {0}
                /\ IsConstantJacobian(graph) /\ at.par = bt.par =>
                    \A k \in DOMAIN graph.outputs :
                        Expected(at)[k] # {} /\ Expected(bt)[k] # {} => Expected(at)[k] = Expected(bt)[k]

\* The symbolic Jacobian is the derivative, at every point that is no kink,
\* also of a graph whose input the optimizer has copied to several ids; and
\* what the solver reads off an optimized graph is true: an input an output is
\* not said to read cannot change it, a dropped Jacobian entry is zero, and a
\* Jacobian said to be constant is the same at any two points.
JacobianIsDerivative ==
    /\ stage = "derived" => AgreesEverywhere(graph)
    /\ StructureIsSound

=============================================================================
