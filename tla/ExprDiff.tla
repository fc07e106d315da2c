------------------------------- MODULE ExprDiff -------------------------------
(***************************************************************************)
(* The two passes of src/ssa that work inside one expression graph.        *)
(*                                                                         *)
(* optimize.rs rewrites in place: constant folding, strength reduction and *)
(* algebraic identities node by node until nothing changes, then fused     *)
(* multiply-adds.  A rewrite copies a node's content over another's, so one*)
(* value ends up under several ids and the hash-consing map names nodes    *)
(* that are gone.                                                          *)
(*                                                                         *)
(* autodiff.rs differentiates: derivatives are built as new nodes of the   *)
(* same graph, and the structure of a Jacobian (which entries are zero,    *)
(* whether it is constant, which inputs an output reads) is read off the   *)
(* optimized graph.  The memo table of the code only saves work:           *)
(* differentiating a node again finds every node it added.                 *)
(***************************************************************************)
EXTENDS ExprGraph

\* Operands of node id, and the test for an operator.
Arg(g, id, i) == g.nodes[id].args[i]
Is(g, id, op) == g.nodes[id].op = op
Copy(g, id, from) == Rewrite(g, id, g.nodes[from])

\* constant_fold: only where the operation is defined at the constants.
ConstantFold(g, id) ==
    LET node == g.nodes[id]
        folds == node.op \in {"add", "sub", "mul", "div", "mod", "pow", "min", "max", "neg",
                              "abs", "sign", "sqrt", "log", "smooth", "slope"}
        value == Apply(node.op, [i \in DOMAIN node.args |-> g.nodes[node.args[i]].val])
    IN  IF folds /\ AllConst(g, node.args) /\ value # {} THEN Rewrite(g, id, Const(The(value)))
        ELSE g

\* A node inserted earlier with this content, below id.
EarlierTwin(g, id, node) == {t \in {g.dedup[n] : n \in {node} \cap DOMAIN g.dedup} : t < id}

\* (Mutant: the square x * x is taken for x ^ 3.)
CubeAsSquare(g, id) ==
    IF Is(g, id, "pow") /\ IsConst(g, Arg(g, id, 2), 3)
    THEN Rewrite(g, id, Op("mul", <<Arg(g, id, 1), Arg(g, id, 1)>>)) ELSE g

\* strength_reduce.  (x^0.5 -> sqrt(x) needs a literal that is no integer.)
StrengthReduce(g, id) ==
    LET x == Arg(g, id, 1)
        power(k) == Is(g, id, "pow") /\ IsConst(g, Arg(g, id, 2), k)
        square == EarlierTwin(g, id, Op("mul", <<x, x>>))
        one == EarlierTwin(g, id, Const(1))
    IN  CASE power(2) -> Rewrite(g, id, Op("mul", <<x, x>>))
          [] power(3) /\ square # {} -> Rewrite(g, id, Op("mul", <<The(square), x>>))
          [] power(1) -> Copy(g, id, x)
          [] power(0) -> Rewrite(g, id, Const(1))
          [] power(-1) /\ one # {} -> Rewrite(g, id, Op("div", <<The(one), x>>))
          [] Is(g, id, "neg") /\ Is(g, x, "neg") -> Copy(g, id, Arg(g, x, 1))
          [] OTHER -> g

\* algebraic_simplify.
AlgebraicSimplify(g, id) ==
    LET x == Arg(g, id, 1)
        y == Arg(g, id, 2)
        left(op, k) == Is(g, id, op) /\ IsConst(g, x, k)
        right(op, k) == Is(g, id, op) /\ IsConst(g, y, k)
    IN  CASE right("add", 0) \/ right("sub", 0) \/ right("mul", 1) \/ right("div", 1) -> Copy(g, id, x)
          [] left("add", 0) \/ left("mul", 1) -> Copy(g, id, y)
          [] Is(g, id, "sub") /\ x = y -> Rewrite(g, id, Const(0))
          [] left("mul", 0) \/ right("mul", 0) -> Rewrite(g, id, Const(0))
          [] Is(g, id, "neg") /\ Is(g, x, "neg") -> Copy(g, id, Arg(g, x, 1))
          [] Is(g, id, "abs") /\ g.nodes[x].op \in {"abs", "sqrt"} -> Copy(g, id, x)
          [] Is(g, id, "abs") /\ Is(g, x, "neg") -> Rewrite(g, id, Op("abs", <<Arg(g, x, 1)>>))
          [] Is(g, id, "mul") /\ x = y /\ Is(g, x, "sqrt") -> Copy(g, id, Arg(g, x, 1))
          [] OTHER -> g

\* One sweep over the ids, in order; each node sees the rewrites before it.
Sweep(g) ==
    FoldLeftDomain(LAMBDA h, id : AlgebraicSimplify(StrengthReduce(ConstantFold(h, id), id), id),
                   g, g.nodes)

\* detect_fma: (a * b) + c and c + (a * b), the left product first.
FuseMultiplyAdd(g, id) ==
    LET product(i) == Is(g, id, "add") /\ Is(g, Arg(g, id, i), "mul")
        fused(i, c) == Op("fma", g.nodes[Arg(g, id, i)].args \o <<Arg(g, id, c)>>)
    IN  CASE product(1) -> Rewrite(g, id, fused(1, 2))
          [] ~product(1) /\ product(2) -> Rewrite(g, id, fused(2, 1))
          [] OTHER -> g

RECURSIVE Simplified(_)
Simplified(g) == LET h == Sweep(g) IN IF h = g THEN g ELSE Simplified(h)

Optimized(g) == FoldLeftDomain(FuseMultiplyAdd, Simplified(g), g.nodes)

-----------------------------------------------------------------------------

\* The rule of an operator: the nodes to add, in order, over a list of ids
\* that starts with the operands, then their derivatives; the last one added
\* is the derivative.
Step(op, refs) == [op |-> op, refs |-> refs, val |-> 0]
Lit(v) == [op |-> "const", refs |-> <<>>, val |-> v]

Emit(g, ids, steps) ==
    LET one(s, t) ==
            LET r == Add(s.g, [op |-> t.op, val |-> t.val,
                               args |-> [i \in DOMAIN t.refs |-> s.ids[t.refs[i]]]])
            IN  [g |-> r.g, ids |-> Append(s.ids, r.id)]
        all == FoldLeft(one, [g |-> g, ids |-> ids], steps)
    IN  [g |-> all.g, id |-> Last(all.ids)]

\* Binary: 1 = a, 2 = b, 3 = da, 4 = db.  (atan2 and hypot have no integer
\* values and are left out.)
BinaryRule(op) ==
    CASE op \in {"add", "sub"} -> <<Step(op, <<3, 4>>)>>
      [] op = "mul" -> <<Step("mul", <<1, 4>>), Step("mul", <<2, 3>>), Step("add", <<5, 6>>)>>
      [] op = "div" -> <<Step("mul", <<2, 3>>), Step("mul", <<1, 4>>), Step("sub", <<5, 6>>),
                         Step("mul", <<2, 2>>), Step("div", <<7, 8>>)>>
      [] op = "min" -> <<Step("lt", <<1, 2>>), Step("select", <<5, 3, 4>>)>>
      [] op = "max" -> <<Step("gt", <<1, 2>>), Step("select", <<5, 3, 4>>)>>
      [] op = "pow" -> <<Step("pow", <<1, 2>>), Step("log", <<1>>), Step("mul", <<4, 6>>),
                         Step("div", <<3, 1>>), Step("mul", <<2, 8>>), Step("add", <<7, 9>>),
                         Step("mul", <<5, 10>>)>>
\* The exponent is the literal c; 1 = a, 2 = da.
PowerRule(c) == <<Lit(c), Lit(c - 1), Step("pow", <<1, 4>>), Step("mul", <<3, 5>>), Step("mul", <<6, 2>>)>>

\* Unary: 1 = a, 2 = da.
UnaryRule(op) ==
    CASE op = "neg" -> <<Step("neg", <<2>>)>>
      [] op = "smooth" -> <<Step("slope", <<1>>), Step("mul", <<3, 2>>)>>
      [] op = "log" -> <<Step("div", <<2, 1>>)>>
      [] op = "abs" -> <<Step("sign", <<1>>), Step("mul", <<3, 2>>)>>
      [] op = "sqrt" -> <<Step("sqrt", <<1>>), Lit(2), Step("mul", <<4, 3>>), Step("div", <<2, 5>>)>>

\* Fused multiply-add: 1, 2, 3 = a, b, c and 4, 5, 6 their derivatives.
FmaRule == <<Step("mul", <<1, 5>>), Step("mul", <<2, 4>>), Step("add", <<7, 8>>), Step("add", <<9, 6>>)>>

Smooth == {"neg", "smooth", "log", "abs", "sqrt"}
Flat == {"sign", "lt", "gt", "eq", "slope"}   \* piecewise constant, or taken so

\* (Mutant: only the node itself, not a copy of its content.)
TargetById(g, id, wrt) == id = wrt
Target(g, id, wrt) == id = wrt \/ (g.nodes[id].op \in {"input", "param"} /\ g.nodes[id] = g.nodes[wrt])

\* reduce_or_collapse.
Reduce(g, op, ids) ==
    IF ids = <<>> THEN Add(g, Const(IF op = "prod" THEN 1 ELSE 0))
    ELSE IF Len(ids) = 1 THEN [g |-> g, id |-> ids[1]] ELSE Add(g, Op(op, ids))

\* Every operand's derivative in turn: the graph and the ids.
RECURSIVE Differentiate(_, _, _)
Derivatives(g, args, wrt) ==
    FoldLeft(LAMBDA s, a : LET r == Differentiate(s.g, a, wrt)
                           IN  [g |-> r.g, ids |-> Append(s.ids, r.id)],
             [g |-> g, ids |-> <<>>], args)

\* Each factor's derivative times the product of the others.
ProductRule(g, args, wrt) ==
    LET term(s, i) ==
            LET d == Differentiate(s.g, args[i], wrt)
                others == Reduce(d.g, "prod", RemoveAt(args, i))
                r == Add(others.g, Op("mul", <<d.id, others.id>>))
            IN  [g |-> r.g, ids |-> Append(s.ids, r.id)]
        terms == FoldLeftDomain(term, [g |-> g, ids |-> <<>>], args)
    IN  Reduce(terms.g, "sum", terms.ids)

\* The running extremum, and the derivative of the operand that gives it.
LeastRule(g, args, wrt) ==
    LET first == Differentiate(g, args[1], wrt)
        next(s, a) ==
            LET d == Differentiate(s.g, a, wrt)
                c == Add(d.g, Op("lt", <<a, s.run>>))
                w == Add(c.g, Op("select", <<c.id, d.id, s.id>>))
                m == Add(w.g, Op("min", <<s.run, a>>))
            IN  [g |-> m.g, id |-> w.id, run |-> m.id]
    IN  FoldLeft(next, [g |-> first.g, id |-> first.id, run |-> args[1]], Tail(args))

\* A sum of a * db + da * b, left to right.
DotRule(g, args, wrt) ==
    LET k == Len(args) \div 2
        term(s, i) ==
            LET da == Differentiate(s.g, args[i], wrt)
                db == Differentiate(da.g, args[k + i], wrt)
                t == Emit(db.g, <<args[i], args[k + i], da.id, db.id>>,
                          <<Step("mul", <<1, 4>>), Step("mul", <<3, 2>>), Step("add", <<5, 6>>)>>)
            IN  IF i = 1 THEN t ELSE Add(t.g, Op("add", <<s.id, t.id>>))
    IN  FoldLeft(term, [g |-> g, id |-> 0], [i \in 1 .. k |-> i])

\* The modulus has to be constant; a varying one gives 0.
ModRule(g, args, wrt) ==
    LET db == Differentiate(g, args[2], wrt)
        da == Differentiate(db.g, args[1], wrt)
    IN  IF IsConst(da.g, db.id, 0) THEN da ELSE Add(da.g, Const(0))

\* diff_node.
Differentiate(g, id, wrt) ==
    LET node == g.nodes[id]
        args == node.args
        d == Derivatives(g, IF node.op = "select" THEN Tail(args) ELSE args, wrt)
        rule(r) == Emit(d.g, args \o d.ids, r)
    IN  CASE Target(g, id, wrt) -> Add(g, Const(1))
          [] ~Target(g, id, wrt) /\ (args = <<>> \/ node.op \in Flat) -> Add(g, Const(0))
          [] node.op = "pow" /\ ConstOf(g, args[2]) # {} ->
                LET da == Differentiate(g, args[1], wrt)
                IN  Emit(da.g, <<args[1], da.id>>, PowerRule(The(ConstOf(g, args[2]))))
          [] node.op \in {"add", "sub", "mul", "div", "min", "max"}
             \/ (node.op = "pow" /\ ConstOf(g, args[2]) = {}) ->
                rule(BinaryRule(node.op))
          [] node.op = "mod" -> ModRule(g, args, wrt)
          [] node.op \in Smooth -> rule(UnaryRule(node.op))
          [] node.op = "select" -> Add(d.g, Op("select", <<args[1]>> \o d.ids))
          [] node.op = "fma" -> rule(FmaRule)
          [] node.op = "sum" -> Reduce(d.g, "sum", d.ids)
          [] node.op = "prod" -> ProductRule(g, args, wrt)
          [] node.op = "least" -> LeastRule(g, args, wrt)
          [] node.op = "dot" -> DotRule(g, args, wrt)

-----------------------------------------------------------------------------
(* The Jacobian with respect to the inputs 1 .. inputs (jacobian), row by  *)
(* row; an entry whose output does not reach the input is the shared zero. *)

Jacobian(g, inputs) ==
    LET bare == [g EXCEPT !.outputs = <<>>]
        leaves == FoldLeft(LAMBDA s, x : LET r == Add(s.g, Leaf("input", x))
                                         IN  [g |-> r.g, ids |-> Append(s.ids, r.id)],
                           [g |-> bare, ids |-> <<>>], [x \in 1 .. inputs |-> x])
        zero == Add(leaves.g, Const(0))
        entry(h, k) ==
            LET out == g.outputs[((k - 1) \div inputs) + 1]
                x == ((k - 1) % inputs) + 1
                r == IF x \in ReadsInputs(h, {out}) THEN Differentiate(h, out, leaves.ids[x])
                     ELSE [g |-> h, id |-> zero.id]
            IN  [r.g EXCEPT !.outputs = Append(@, r.id)]
    IN  FoldLeft(entry, zero.g, [k \in 1 .. (Len(g.outputs) * inputs) |-> k])

\* jacobian_wrt_param: the column of one parameter.
ParamColumn(g, p) ==
    LET leaf == Add([g EXCEPT !.outputs = <<>>], Leaf("param", p))
        entry(h, out) == LET r == Differentiate(h, out, leaf.id)
                         IN  [r.g EXCEPT !.outputs = Append(@, r.id)]
    IN  FoldLeft(entry, leaf.g, g.outputs)

\* What is read off the optimized graph: the entries that are kept, whether
\* the Jacobian is constant, and the inputs an output reads.
KeptEntries(jac) == {k \in DOMAIN jac.outputs : ~IsConst(jac, jac.outputs[k], 0)}
IsConstantJacobian(jac) == ReadsInputs(jac, ToSet(jac.outputs)) = {}
Feedthrough(g, out) == ReadsInputs(g, {g.outputs[out]})

=============================================================================
