------------------------------ MODULE ExprGraph ------------------------------
(***************************************************************************)
(* The expression graph of src/ssa/graph.rs and the meaning of its         *)
(* operations (src/ssa/op.rs): a list of nodes, each one value, where      *)
(* identical nodes share an id (hash-consing), and the passes below        *)
(* rewrite it in place.                                                    *)
(*                                                                         *)
(* Data abstraction: a value is an integer.  What has no integer value (a  *)
(* NaN, an inexact quotient or root, a magnitude above MaxMagnitude) has   *)
(* none at all: the value of a node is the set of the integers it can be,  *)
(* one or none.  "smooth" stands for every differentiable unary function   *)
(* whose rule is f'(a) * da (sin, exp, tanh, ...), here the square, and    *)
(* "slope" for its derivative.                                             *)
(***************************************************************************)
EXTENDS Integers, FiniteSets, SequencesExt, TLC

MaxMagnitude == 30000

\* A node: the operator, its operands (ids), and for a leaf the literal, the
\* flat input index or the parameter index.
Leaf(op, v) == [op |-> op, args |-> <<>>, val |-> v]
Const(v) == Leaf("const", v)
Op(op, args) == [op |-> op, args |-> args, val |-> 0]

EmptyGraph == [nodes |-> <<>>, dedup |-> <<>>, outputs |-> <<>>]
Ids(g) == DOMAIN g.nodes

\* A node is added once: an identical one already inserted gives its id.
Add(g, node) ==
    IF node \in DOMAIN g.dedup
    THEN [g |-> g, id |-> g.dedup[node]]
    ELSE LET id == Len(g.nodes) + 1
         IN  [g |-> [g EXCEPT !.nodes = Append(@, node), !.dedup = (node :> id) @@ @],
              id |-> id]

\* The content of a node is overwritten; the hash-consing map is not told.
Rewrite(g, id, node) == [g EXCEPT !.nodes[id] = node]

IsConst(g, id, v) == g.nodes[id].op = "const" /\ g.nodes[id].val = v
ConstOf(g, id) == IF g.nodes[id].op = "const" THEN {g.nodes[id].val} ELSE {}
AllConst(g, ids) == \A i \in DOMAIN ids : g.nodes[ids[i]].op = "const"

-----------------------------------------------------------------------------
(* The operations.                                                          *)

Magnitude(a) == IF a < 0 THEN -a ELSE a
Sign(a) == IF a > 0 THEN 1 ELSE IF a < 0 THEN -1 ELSE 0
Known(v) == IF Magnitude(v) <= MaxMagnitude THEN {v} ELSE {}

Quotient(a, b) ==
    IF b # 0 /\ Magnitude(a) % Magnitude(b) = 0
    THEN {Sign(a) * Sign(b) * (Magnitude(a) \div Magnitude(b))} ELSE {}
\* The remainder takes the sign of the dividend.
Remainder(a, b) == IF b = 0 THEN {} ELSE {Sign(a) * (Magnitude(a) % Magnitude(b))}
Times(A, B) == UNION {Known(a * b) : a \in A, b \in B}
Plus(A, B) == UNION {Known(a + b) : a \in A, b \in B}
Power(a, k) ==
    CASE k = 0 -> {1}
      [] k > 0 -> FoldLeftDomain(LAMBDA p, i : Times(p, {a}), {1}, [i \in 1 .. k |-> a])
      [] OTHER -> IF k = -1 THEN Quotient(1, a) ELSE {}
Root(a) == {r \in 0 .. 60 : r * r = a}
Truth(p) == IF p THEN {1} ELSE {0}
Least(a, b) == IF a < b THEN a ELSE b
Most(a, b) == IF a > b THEN a ELSE b

\* apply_binary, apply_unary, apply_cmp, reduce and dot on values x.
Apply(op, x) ==
    CASE op = "add" -> Known(x[1] + x[2])
      [] op = "sub" -> Known(x[1] - x[2])
      [] op = "mul" -> Known(x[1] * x[2])
      [] op = "div" -> Quotient(x[1], x[2])
      [] op = "mod" -> Remainder(x[1], x[2])
      [] op = "pow" -> IF x[2] \in -1 .. 5 THEN Power(x[1], x[2]) ELSE {}
      [] op = "min" -> {Least(x[1], x[2])}
      [] op = "max" -> {Most(x[1], x[2])}
      [] op = "neg" -> {-x[1]}
      [] op = "abs" -> {Magnitude(x[1])}
      [] op = "sign" -> {Sign(x[1])}
      [] op = "sqrt" -> Root(x[1])
      [] op = "log" -> IF x[1] = 1 THEN {0} ELSE {}
      [] op = "smooth" -> Known(x[1] * x[1])
      [] op = "slope" -> Known(2 * x[1])
      [] op = "lt" -> Truth(x[1] < x[2])
      [] op = "gt" -> Truth(x[1] > x[2])
      [] op = "le" -> Truth(x[1] <= x[2])
      [] op = "ge" -> Truth(x[1] >= x[2])
      [] op = "ne" -> Truth(x[1] # x[2])
      [] op = "eq" -> Truth(x[1] = x[2])
      [] op = "fma" -> Plus(Known(x[1] * x[2]), {x[3]})
      [] op = "sum" -> FoldLeft(LAMBDA s, v : Plus(s, {v}), {0}, x)
      [] op = "prod" -> FoldLeft(LAMBDA s, v : Times(s, {v}), {1}, x)
      [] op = "least" -> FoldLeft(LAMBDA s, v : {Least(w, v) : w \in s}, {x[1]}, x)
      [] op = "most" -> FoldLeft(LAMBDA s, v : {Most(w, v) : w \in s}, {x[1]}, x)
      [] op = "dot" ->
            LET k == Len(x) \div 2
            IN  FoldLeftDomain(LAMBDA s, i : Plus(s, Known(x[i] * x[k + i])), {0}, SubSeq(x, 1, k))

Commutative == {"add", "mul", "eq"}
The(v) == CHOOSE a \in v : TRUE

\* The value of a node given those of the nodes below it, at a point: the
\* inputs and the parameters.  Only the chosen branch of a select counts.
NodeValue(node, vals, at) ==
    LET arg(i) == vals[node.args[i]]
    IN  CASE node.op = "const" -> {node.val}
          [] node.op = "input" -> {at.in[node.val]}
          [] node.op = "param" -> {at.par[node.val]}
          [] node.op = "select" ->
                UNION {IF c # 0 THEN arg(2) ELSE arg(3) : c \in arg(1)}
          [] OTHER ->
                IF \E i \in DOMAIN node.args : arg(i) = {} THEN {}
                ELSE Apply(node.op, [i \in DOMAIN node.args |-> The(arg(i))])

\* Evaluation in index order: an operand has to be below its consumer.
Values(g, at) ==
    FoldLeft(LAMBDA vals, node : Append(vals, NodeValue(node, vals, at)), <<>>, g.nodes)
Interpret(g, at) ==
    LET vals == Values(g, at) IN [o \in DOMAIN g.outputs |-> vals[g.outputs[o]]]

Ordered(g) == \A i \in Ids(g) : \A a \in ToSet(g.nodes[i].args) : a < i

\* The nodes the given ones read, with themselves (collect_reached_inputs,
\* the liveness sweep and the sensitivity closure are this closure).
Reached(g, roots) ==
    FoldLeft(LAMBDA S, node : S \cup UNION {ToSet(g.nodes[i].args) : i \in S}, roots, g.nodes)
ReadsInputs(g, roots) == {g.nodes[i].val : i \in {j \in Reached(g, roots) : g.nodes[j].op = "input"}}

=============================================================================
