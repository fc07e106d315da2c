----------------------------- MODULE TracedArrays -----------------------------
(***************************************************************************)
(* The symbolic arrays of src/src/tracer/frontend/array.rs: a flat         *)
(* row-major list of nodes and a shape, and what the functions and         *)
(* operators of numpy do with them while a user function is traced.        *)
(*                                                                         *)
(* A node is represented by its value at the point of interest, as in      *)
(* ExprGraph.  An operation gives the set of its results: one, or none     *)
(* where it raises or returns NotImplemented, which ends the trace (the    *)
(* function then runs as an opaque callback).                              *)
(***************************************************************************)
EXTENDS ExprGraph

\* A value of the traced program: an array tracer, a scalar tracer, or a
\* number, list or nested list that is not traced.
Value(kind, shape, el) == [kind |-> kind, shape |-> shape, el |-> el]
Traced(shape, el) == Value("array", shape, el)
Tracer(v) == Value("tracer", <<>>, <<v>>)
Result(shape, el) == IF shape = <<>> THEN Tracer(el[1]) ELSE Traced(shape, el)
OneAxis(el) == Traced(<<Len(el)>>, el)

-----------------------------------------------------------------------------
(* Nodes: Graph::binary, unary, cmp, select and the composites of several. *)

Emitted(op, x) ==
    IF op = "select" THEN UNION {IF c # 0 THEN x[2] ELSE x[3] : c \in x[1]}
    ELSE IF \E i \in DOMAIN x : x[i] = {} THEN {}
    ELSE Apply(op, [i \in DOMAIN x |-> The(x[i])])
Zero == {0}
UnitValue == {1}

\* The raw remainder has the sign of the dividend: moved by the divisor where
\* the signs differ and it is not zero.
FlooredMod(a, b) ==
    LET m == Emitted("mod", <<a, b>>)
        differ == Emitted("ne", <<Emitted("lt", <<m, Zero>>), Emitted("lt", <<b, Zero>>)>>)
        nonzero == Emitted("gt", <<Emitted("abs", <<m>>), Zero>>)
    IN  Emitted("select", <<Emitted("mul", <<nonzero, differ>>), Emitted("add", <<m, b>>), m>>)
Heaviside(a, b) ==
    Emitted("select", <<Emitted("gt", <<a, Zero>>), UnitValue,
                     Emitted("select", <<Emitted("lt", <<a, Zero>>), Zero, b>>)>>)
EmitBinary(op, a, b) ==
    CASE op = "remainder" -> FlooredMod(a, b)
      [] op = "heaviside" -> Heaviside(a, b)
      [] OTHER -> Emitted(op, <<a, b>>)
EmitUnary(op, a) == IF op = "square" THEN Emitted("mul", <<a, a>>) ELSE Emitted(op, <<a>>)

\* The line of every segment in turn, chosen while x is not below its start.
EmitInterp(x, xp, fp) ==
    LET slope(k) == Quotient(fp[k + 1] - fp[k], xp[k + 1] - xp[k])
        line(k) == Emitted("add", <<{fp[k]}, Emitted("mul", <<Emitted("sub", <<x, {xp[k]}>>), slope(k)>>)>>)
        from(k, then, else) == Emitted("select", <<Emitted("ge", <<x, {xp[k]}>>), then, else>>)
        n == Len(xp)
    IN  from(n, {fp[n]},
             FoldLeft(LAMBDA y, k : from(k, line(k), y), {fp[1]}, [k \in 1 .. n - 1 |-> k]))

-----------------------------------------------------------------------------
(* Strides and the walk over an index space (ndshape.rs).                  *)

Product(shape) == FoldLeft(LAMBDA p, n : p * n, 1, shape)
Total(s) == FoldLeft(LAMBDA t, n : t + n, 0, s)

Strides(shape) == [d \in DOMAIN shape |-> Product(SubSeq(shape, d + 1, Len(shape)))]
FlatAt(idx, strides) == Total([d \in DOMAIN strides |-> idx[d] * strides[d]])
\* The element of a broadcast operand: axes aligned at the end, size-1 axes at 0.
SourceFlat(idx, shape) ==
    LET pad == Len(idx) - Len(shape)
    IN  FlatAt([d \in DOMAIN shape |-> IF shape[d] = 1 THEN 0 ELSE idx[d + pad]], Strides(shape))

\* The next index in row-major order: the last axis that is not at its end.
Advance(idx, shape) ==
    LET live == {d \in DOMAIN shape : idx[d] + 1 < shape[d]}
        d == Max(live)
    IN  [e \in DOMAIN shape |->
            IF live = {} THEN 0
            ELSE IF e < d THEN idx[e] ELSE IF e = d THEN idx[e] + 1 ELSE 0]
Odometer(shape, count) ==
    IF count = 0 THEN <<>>
    ELSE FoldLeft(LAMBDA w, k : Append(w, Advance(Last(w), shape)),
                  <<[d \in DOMAIN shape |-> 0]>>, [k \in 1 .. count - 1 |-> k])
OverWalk(shape, count, at(_)) ==
    LET w == Odometer(shape, count) IN [k \in DOMAIN w |-> at(w[k])]

\* A negative axis counts from the end; none is out of bounds.
AxisOf(rank, axis) ==
    LET a == IF axis < 0 THEN rank + axis ELSE axis IN IF a \in 0 .. rank - 1 THEN {a + 1} ELSE {}

BroadcastNd(a, b) ==
    LET n == Most(Len(a), Len(b))
        at(s, d) == IF d <= n - Len(s) THEN 1 ELSE s[d - (n - Len(s))]
        size(d) == IF at(a, d) = 1 THEN at(b, d) ELSE at(a, d)
    IN  IF \E d \in 1 .. n : at(a, d) # at(b, d) /\ 1 \notin {at(a, d), at(b, d)} THEN {}
        ELSE {[d \in 1 .. n |-> size(d)]}

-----------------------------------------------------------------------------
(* Elementwise operations.                                                 *)

\* array_elementwise: with a scalar the shape is kept, else it is broadcast.
ArrayElementwise(op, self, other, swap) ==
    LET pair(x, y) == IF swap THEN EmitBinary(op, y, x) ELSE EmitBinary(op, x, y)
    IN  IF other.shape = <<>>
        THEN {Traced(self.shape, [k \in DOMAIN self.el |-> pair(self.el[k], other.el[1])])}
        ELSE {Traced(shape, OverWalk(shape, Product(shape), LAMBDA i :
                    pair(self.el[SourceFlat(i, self.shape) + 1], other.el[SourceFlat(i, other.shape) + 1])))
                : shape \in BroadcastNd(self.shape, other.shape)}

\* A nested list is no operand of an elementwise function.
IsMatrix(x) == x.kind = "const" /\ Len(x.shape) = 2
BinaryUfunc(op, x, y) ==
    IF IsMatrix(x) \/ IsMatrix(y) THEN {}
    ELSE IF x.kind = "array" THEN ArrayElementwise(op, x, y, FALSE)
    ELSE IF y.kind = "array" THEN ArrayElementwise(op, y, x, TRUE)
    ELSE IF x.shape # <<>> THEN ArrayElementwise(op, x, y, FALSE)
    ELSE IF y.shape # <<>> THEN ArrayElementwise(op, y, x, TRUE)
    ELSE {Tracer(EmitBinary(op, x.el[1], y.el[1]))}
UnaryUfunc(op, x) == {Result(x.shape, [k \in DOMAIN x.el |-> EmitUnary(op, x.el[k])])}

\* np.clip: a bound that is None is infinite.
Clip(x, lo, hi) ==
    LET over(v) == IF lo = <<>> THEN v ELSE Emitted("max", <<v, lo[1]>>)
        under(v) == IF hi = <<>> THEN v ELSE Emitted("min", <<v, hi[1]>>)
    IN  {Result(x.shape, [k \in DOMAIN x.el |-> under(over(x.el[k]))])}

\* np.where: a condition that is not traced picks its branch at once.
NpWhere(c, x, y) ==
    LET at(v, i) == v.el[SourceFlat(i, v.shape) + 1]
        pick(i) == IF c.kind = "const"
                   THEN (IF at(c, i) # Zero THEN at(x, i) ELSE at(y, i))
                   ELSE Emitted("select", <<at(c, i), at(x, i), at(y, i)>>)
    IN  IF IsMatrix(c) \/ IsMatrix(x) \/ IsMatrix(y) THEN {}
        ELSE UNION {{Result(shape, OverWalk(shape, Most(Product(shape), 1), pick))
                        : shape \in BroadcastNd(s, y.shape)}
                    : s \in BroadcastNd(c.shape, x.shape)}

\* np.select: a right fold over flat operands of one size or of size one.
NpSelect(conds, choices, default) ==
    LET operands == conds \o choices \o <<default>>
        sizes == {Len(v.el) : v \in ToSet(operands)} \ {1}
        n == Max(sizes \cup {1})
        at(v, k) == v.el[IF Len(v.el) = 1 THEN 1 ELSE k]
        node(k) == FoldRight(LAMBDA c, acc : Emitted("select", <<at(conds[c], k), at(choices[c], k), acc>>),
                             [c \in DOMAIN conds |-> c], at(default, k))
        out == [k \in 1 .. n |-> node(k)]
    IN  IF Cardinality(sizes) > 1 THEN {}
        ELSE {IF \A v \in ToSet(operands) : v.shape = <<>> THEN Tracer(out[1]) ELSE OneAxis(out)}

NpInterp(x, xp, fp) == {Result(x.shape, [k \in DOMAIN x.el |-> EmitInterp(x.el[k], xp, fp)])}
\* np.searchsorted: the count of the grid points below.
NpSearchSorted(grid, x, right) ==
    LET below(v) == [g \in DOMAIN grid |-> Emitted(IF right THEN "le" ELSE "lt", <<{grid[g]}, v>>)]
    IN  {Result(x.shape, [k \in DOMAIN x.el |-> Emitted("sum", below(x.el[k]))])}

-----------------------------------------------------------------------------
(* Reductions.                                                             *)

ReduceOp(op) == CASE op = "add" -> "sum" [] op = "mul" -> "prod" [] op = "min" -> "least" [] op = "max" -> "most"
Identity(op) == CASE op = "add" -> {0} [] op = "mul" -> {1} [] OTHER -> {}
FoldNodes(op, nodes) ==
    CASE Len(nodes) = 0 -> Identity(op)
      [] Len(nodes) = 1 -> nodes[1]
      [] OTHER -> Emitted(ReduceOp(op), nodes)

\* (Mutant: the result is walked with its own strides.)
ReduceAlongOwnStrides(op, a, axis) ==
    {LET shape == RemoveAt(a.shape, ax)
         terms(i) == [k \in 1 .. a.shape[ax] |->
                        a.el[FlatAt(i, Strides(shape)) + (k - 1) * Strides(a.shape)[ax] + 1]]
     IN  [shape |-> shape,
          el |-> OverWalk(shape, Most(Product(shape), 1), LAMBDA i : FoldNodes(op, terms(i)))]
     : ax \in AxisOf(Len(a.shape), axis)}
ReduceAlongAxis(op, a, axis) ==
    {LET strides == Strides(a.shape)
         shape == RemoveAt(a.shape, ax)
         base(i) == FlatAt(i, RemoveAt(strides, ax))
         terms(i) == [k \in 1 .. a.shape[ax] |-> a.el[base(i) + (k - 1) * strides[ax] + 1]]
     IN  [shape |-> shape,
          el |-> OverWalk(shape, Most(Product(shape), 1), LAMBDA i : FoldNodes(op, terms(i)))]
     : ax \in AxisOf(Len(a.shape), axis)}
\* shape_with_kept_axis.
KeptAxis(shape, rank, axis) == InsertAt(shape, (IF axis < 0 THEN rank + axis ELSE axis) + 1, 1)
AllKept(a) == [d \in 1 .. Most(Len(a.shape), 1) |-> 1]

\* reduce_dispatch; an axis argument is <<>> (None) or <<axis>>.
ReduceDispatch(op, a, axis, keep) ==
    IF axis = <<>>
    THEN {Result(IF keep THEN AllKept(a) ELSE <<>>, <<FoldNodes(op, a.el)>>)}
    ELSE {Result(IF keep THEN KeptAxis(r.shape, Len(a.shape), axis[1]) ELSE r.shape, r.el)
            : r \in ReduceAlongAxis(op, a, axis[1])}
\* mean_dispatch: the sum over the count of what was summed.
MeanDispatch(a, axis, keep) ==
    LET over(v, n) == Emitted("div", <<v, {n}>>)
        mean(r) == [k \in DOMAIN r.el |-> over(r.el[k], a.shape[The(AxisOf(Len(a.shape), axis[1]))])]
    IN  IF axis = <<>>
        THEN {Result(IF keep THEN AllKept(a) ELSE <<>>, <<over(FoldNodes("add", a.el), Len(a.el))>>)}
        ELSE {Result(IF keep THEN KeptAxis(r.shape, Len(a.shape), axis[1]) ELSE r.shape, mean(r))
                : r \in ReduceAlongAxis("add", a, axis[1])}

NodeDot(s, t) ==
    CASE Len(s) = 0 -> Zero
      [] Len(s) = 1 -> Emitted("mul", <<s[1], t[1]>>)
      [] OTHER -> Emitted("dot", s \o t)
VarStd(a, ddof, isStd) ==
    LET n == Len(a.el)
        mean == Emitted("div", <<FoldNodes("add", a.el), {n}>>)
        diffs == [k \in 1 .. n |-> Emitted("sub", <<a.el[k], mean>>)]
        variance == Emitted("div", <<NodeDot(diffs, diffs), {n - ddof}>>)
    IN  IF ddof >= n THEN {} ELSE {Tracer(IF isStd THEN Emitted("sqrt", <<variance>>) ELSE variance)}

\* The best so far and its position; strictly better replaces it.
ArgReduce(a, isMax) ==
    LET better(x, best) == Emitted(IF isMax THEN "gt" ELSE "lt", <<x, best.val>>)
        next(best, k) ==
            LET b == better(a.el[k], best)
            IN  [val |-> Emitted("select", <<b, a.el[k], best.val>>),
                 idx |-> Emitted("select", <<b, {k - 1}, best.idx>>)]
        first == [val |-> a.el[1], idx |-> Zero]
    IN  IF a.el = <<>> THEN {}
        ELSE {Tracer(FoldLeft(next, first, [k \in 1 .. Len(a.el) - 1 |-> k + 1]).idx)}

\* cumsum, cumprod and diff take vectors only; the first two raise on none.
Cumulative(op, a) ==
    IF Len(a.shape) > 1 \/ a.el = <<>> THEN {}
    ELSE {OneAxis(FoldLeft(LAMBDA s, x : Append(s, Emitted(op, <<Last(s), x>>)), <<a.el[1]>>, Tail(a.el)))}
Diff(a, order) ==
    LET step(s) == [k \in 1 .. Most(Len(s) - 1, 0) |-> Emitted("sub", <<s[k + 1], s[k]>>)]
    IN  IF Len(a.shape) > 1 \/ a.el = <<>> THEN {}
        ELSE {OneAxis(FoldLeft(LAMBDA s, k : step(s), a.el, [k \in 1 .. order |-> k]))}

NpNorm(a, ord) ==
    LET size == [k \in DOMAIN a.el |-> Emitted("abs", <<a.el[k]>>)]
    IN  {Tracer(CASE ord = "2" -> Emitted("sqrt", <<NodeDot(a.el, a.el)>>)
                  [] ord = "1" -> FoldNodes("add", size)
                  [] ord = "inf" -> FoldNodes("max", size)
                  [] ord = "-inf" -> FoldNodes("min", size))}

-----------------------------------------------------------------------------
(* Products.                                                               *)

Part(v, base, len) == SubSeq(v, base + 1, base + len)
Column(v, j, rows, cols) == [i \in 1 .. rows |-> v[(i - 1) * cols + j + 1]]
\* Both operands traced: rows of the first with columns of the second.
SymbolicMatmul(a, b) ==
    LET m == a.shape[1]
        k == Last(a.shape)
        n == Last(b.shape)
        row(i) == Part(a.el, i * k, k)
        col(j) == Column(b.el, j, b.shape[1], n)
    IN  CASE Len(a.shape) = 1 /\ Len(b.shape) = 1 ->
                IF Len(a.el) # Len(b.el) THEN {} ELSE {Tracer(NodeDot(a.el, b.el))}
          [] Len(a.shape) = 2 /\ Len(b.shape) = 1 ->
                IF k # Len(b.el) THEN {}
                ELSE {OneAxis([i \in 1 .. m |-> NodeDot(row(i - 1), b.el)])}
          [] Len(a.shape) = 1 /\ Len(b.shape) = 2 ->
                IF Len(a.el) # b.shape[1] THEN {}
                ELSE {OneAxis([j \in 1 .. n |-> NodeDot(a.el, col(j - 1))])}
          [] Len(a.shape) = 2 /\ Len(b.shape) = 2 ->
                IF k # b.shape[1] THEN {}
                ELSE {Traced(<<m, n>>, [e \in 1 .. m * n |-> NodeDot(row((e - 1) \div n), col((e - 1) % n))])}
          [] OTHER -> {}

\* coeff_dot: the terms with a coefficient of zero are left out.
CoeffDot(coeffs, nodes) ==
    LET terms == SelectSeq([k \in DOMAIN nodes |-> k], LAMBDA k : coeffs[k] # Zero)
    IN  NodeDot([k \in DOMAIN terms |-> coeffs[terms[k]]], [k \in DOMAIN terms |-> nodes[terms[k]]])
\* A constant on the left (__rmatmul__) or on the right (__matmul__): the
\* traced operand counts as one vector, whatever its shape.
RMatmul(self, other) ==
    CASE other.kind = "array" -> SymbolicMatmul(other, self)
      [] IsMatrix(other) ->
            IF other.shape[2] # Len(self.el) THEN {}
            ELSE {OneAxis([r \in 1 .. other.shape[1] |->
                        CoeffDot(Part(other.el, (r - 1) * other.shape[2], other.shape[2]), self.el)])}
      [] other.kind = "const" /\ Len(other.shape) = 1 ->
            IF other.shape[1] # Len(self.el) THEN {} ELSE {Tracer(CoeffDot(other.el, self.el))}
      [] OTHER -> {}
LMatmul(self, other) ==
    CASE other.kind = "array" -> SymbolicMatmul(self, other)
      [] IsMatrix(other) ->
            IF other.shape[1] # Len(self.el) THEN {}
            ELSE {OneAxis([c \in 1 .. other.shape[2] |->
                        CoeffDot(Column(other.el, c - 1, other.shape[1], other.shape[2]), self.el)])}
      [] OTHER -> {}
NpMatmul(x, y) ==
    IF y.kind = "array" THEN RMatmul(y, x) ELSE IF x.kind = "array" THEN LMatmul(x, y) ELSE {}

IsVector(x) == x.kind = "array" \/ (x.kind = "const" /\ Len(x.shape) = 1)
FlatDot(x, y) == IF Len(x.el) # Len(y.el) THEN {} ELSE {Tracer(NodeDot(x.el, y.el))}
\* np.dot: matrices first, then anything of one size as two vectors.
NpDot(x, y) ==
    CASE y.kind = "array" /\ IsMatrix(x) -> RMatmul(y, x)
      [] x.kind = "array" /\ Len(x.shape) = 2 /\ IsVector(y) -> SymbolicMatmul(x, y)
      [] x.kind = "array" /\ IsMatrix(y) -> LMatmul(x, y)
      [] IsVector(x) /\ IsVector(y) -> FlatDot(x, y)
      [] OTHER -> {}
\* x.dot(y), which multiplies where y is a scalar.
DotMethod(x, y) ==
    CASE IsVector(y) -> SymbolicMatmul(x, y)
      [] IsMatrix(y) -> LMatmul(x, y)
      [] OTHER -> ArrayElementwise("mul", x, y, FALSE)
NpVdot(x, y) == IF IsVector(x) /\ IsVector(y) THEN FlatDot(x, y) ELSE {}
NpOuter(x, y) ==
    LET n == Len(y.el)
    IN  IF IsMatrix(x) \/ IsMatrix(y) THEN {}
        ELSE {Traced(<<Len(x.el), n>>, [e \in 1 .. Len(x.el) * n |->
                Emitted("mul", <<x.el[((e - 1) \div n) + 1], y.el[((e - 1) % n) + 1]>>)])}
NpCross(x, y) ==
    LET at(k) == (k % 3) + 1
        term(k) == Emitted("sub", <<Emitted("mul", <<x.el[at(k)], y.el[at(k + 1)]>>),
                                 Emitted("mul", <<x.el[at(k + 1)], y.el[at(k)]>>)>>)
    IN  IF ~IsVector(x) \/ ~IsVector(y) THEN {} ELSE IF Len(x.el) # 3 \/ Len(y.el) # 3 THEN {}
        ELSE {OneAxis([k \in 1 .. 3 |-> term(k)])}

\* Gauss-Jordan on [A | I] with the largest pivot, when A is traced over.
InvertMatrix(A) ==
    LET n == Len(A)
        size(v) == IF v = {} THEN 0 ELSE Magnitude(The(v))
        start == [i \in 1 .. n |-> [j \in 1 .. 2 * n |->
                    IF j <= n THEN {A[i][j]} ELSE IF j = n + i THEN UnitValue ELSE Zero]]
        Eliminate(M, c) ==
            LET p == CHOOSE r \in c .. n : \A q \in c .. n : size(M[q][c]) <= size(M[r][c])
                S == [M EXCEPT ![c] = M[p], ![p] = M[c]]
                pivot == [j \in 1 .. 2 * n |-> Emitted("div", <<S[c][j], S[c][c]>>)]
                less(r, j) == Emitted("sub", <<S[r][j], Emitted("mul", <<S[r][c], pivot[j]>>)>>)
            IN  IF M = <<>> \/ size(M[p][c]) = 0 THEN <<>>
                ELSE [r \in 1 .. n |-> IF r = c THEN pivot ELSE [j \in 1 .. 2 * n |-> less(r, j)]]
        done == FoldLeft(Eliminate, start, [c \in 1 .. n |-> c])
    IN  IF done = <<>> THEN {} ELSE {[i \in 1 .. n |-> Part(done[i], n, n)]}
\* np.linalg.solve with a constant matrix: a product with its inverse.
NpSolve(A, b) ==
    IF b.kind # "array" \/ Len(A) # Len(b.el) THEN {}
    ELSE {OneAxis([i \in DOMAIN inv |-> CoeffDot(inv[i], b.el)]) : inv \in InvertMatrix(A)}

-----------------------------------------------------------------------------
(* Indexing.  An index entry is as in NumpyArrays; parsed it is the        *)
(* positions on one axis ("int" drops the axis) or a new axis.             *)

\* PySlice::indices: start, length and step on an axis of n elements.
SliceInfo(n, e) ==
    LET lowest == IF e.step > 0 THEN 0 ELSE -1
        highest == IF e.step > 0 THEN n ELSE n - 1
        bound(v) == Most(lowest, Least(highest, IF v < 0 THEN v + n ELSE v))
        from == IF e.start # <<>> THEN bound(e.start[1]) ELSE IF e.step > 0 THEN 0 ELSE n - 1
        to == IF e.stop # <<>> THEN bound(e.stop[1]) ELSE IF e.step > 0 THEN n ELSE -1
        len == IF e.step > 0 THEN (to - from + e.step - 1) \div e.step
               ELSE (from - to - e.step - 1) \div (-e.step)
    IN  [start |-> from, len |-> Most(len, 0), step |-> e.step]

AxisIdx(kind, picks, slice) == [kind |-> kind, picks |-> picks, slice |-> slice]
NoSlice == [start |-> 0, len |-> 0, step |-> 1]
SliceIdx(info) == AxisIdx("slice", <<>>, info)
FullIdx(n) == SliceIdx([start |-> 0, len |-> n, step |-> 1])
\* One entry on an axis of n elements; picks out of range raise.
ParseEntry(n, e) ==
    IF e.kind = "slice" THEN {SliceIdx(SliceInfo(n, e))}
    ELSE LET picks == [k \in DOMAIN e.num |-> IF e.num[k] < 0 THEN n + e.num[k] ELSE e.num[k]]
         IN  IF \A k \in DOMAIN picks : picks[k] \in 0 .. n - 1
             THEN {AxisIdx(e.kind, picks, NoSlice)} ELSE {}

\* parse_indexers: the axes are taken in order; the ellipsis and the end
\* leave alone the axes no entry covers.
ParseIndexers(shape, items) ==
    LET rank == Len(shape)
        consuming == Cardinality({k \in DOMAIN items : items[k].kind \notin {"rest", "new"}})
        full(axis, n) == [k \in 1 .. n |-> FullIdx(shape[axis + k])]
        Entry(acc, e) ==
            CASE e.kind = "rest" -> [axis |-> acc.axis + rank - consuming,
                                     out |-> {o \o full(acc.axis, rank - consuming) : o \in acc.out}]
              [] e.kind = "new" -> [acc EXCEPT !.out = {Append(o, AxisIdx("new", <<>>, NoSlice)) : o \in @}]
              [] OTHER -> [axis |-> acc.axis + 1,
                           out |-> UNION {{Append(o, i) : i \in ParseEntry(shape[acc.axis + 1], e)} : o \in acc.out}]
        parsed == FoldLeft(Entry, [axis |-> 0, out |-> {<<>>}], items)
    IN  IF consuming > rank \/ Cardinality({k \in DOMAIN items : items[k].kind = "rest"}) > 1 THEN {}
        ELSE {o \o full(parsed.axis, rank - parsed.axis) : o \in parsed.out}

Extent(i) == CASE i.kind = "slice" -> i.slice.len [] i.kind = "fancy" -> Len(i.picks) [] i.kind = "new" -> 1
IndexedShape(idx) ==
    LET kept == SelectSeq(idx, LAMBDA i : i.kind # "int") IN [d \in DOMAIN kept |-> Extent(kept[d])]
\* The flat positions in row-major order of the result.
IndexedPositions(shape, idx) ==
    LET strides == Strides(shape)
        out == IndexedShape(idx)
        \* The input axis and the output axis entry k stands at.
        axis(k) == Cardinality({j \in 1 .. k : idx[j].kind # "new"})
        made(k) == Cardinality({j \in 1 .. k : idx[j].kind # "int"})
        step(k, o) ==
            CASE idx[k].kind = "int" -> idx[k].picks[1] * strides[axis(k)]
              [] idx[k].kind = "slice" ->
                    (idx[k].slice.start + o[made(k)] * idx[k].slice.step) * strides[axis(k)]
              [] idx[k].kind = "fancy" -> idx[k].picks[o[made(k)] + 1] * strides[axis(k)]
              [] idx[k].kind = "new" -> 0
    IN  OverWalk(out, Most(Product(out), 1), LAMBDA o : Total([k \in DOMAIN idx |-> step(k, o)]))

GetItem(a, items) ==
    {LET at == IndexedPositions(a.shape, idx)
     IN  Result(IndexedShape(idx), [k \in DOMAIN at |-> a.el[at[k] + 1]])
     : idx \in ParseIndexers(a.shape, items)}

\* coerce_value_nodes: sizes are compared, not shapes; one element fills all.
CoerceValue(v, count) ==
    IF Len(v.el) = 1 THEN {[k \in 1 .. count |-> v.el[1]]}
    ELSE IF Len(v.el) = count /\ ~IsMatrix(v) THEN {v.el} ELSE {}
\* __setitem__: the positions are written in order, the array stays its own.
SetItem(a, items, v) ==
    UNION {LET at == IndexedPositions(a.shape, idx)
           IN  {[a EXCEPT !.el = FoldLeft(LAMBDA el, k : [el EXCEPT ![at[k] + 1] = nodes[k]],
                                          @, [k \in DOMAIN at |-> k])]
                : nodes \in CoerceValue(v, Len(at))}
           : idx \in ParseIndexers(a.shape, items)}

-----------------------------------------------------------------------------
(* Views: the same nodes in another shape or order, always copied.         *)

Reshape(a, shape) ==
    LET free == {d \in DOMAIN shape : shape[d] = -1}
        known == Product(SelectSeq(shape, LAMBDA n : n # -1))
        filled == [d \in DOMAIN shape |-> IF d \in free THEN Len(a.el) \div known ELSE shape[d]]
    IN  IF Cardinality(free) > 1 \/ (free # {} /\ (known = 0 \/ Len(a.el) % known # 0)) THEN {}
        ELSE IF Product(filled) # Len(a.el) THEN {} ELSE {Traced(filled, a.el)}
\* Axis d of the result walks with the stride of axis order[d].
Transpose(a, axes) ==
    LET n == Len(a.shape)
        order == IF axes = <<>> THEN [d \in 1 .. n |-> n + 1 - d]
                 ELSE [d \in DOMAIN axes[1] |-> (IF axes[1][d] < 0 THEN n + axes[1][d] ELSE axes[1][d]) + 1]
        strides == Strides(a.shape)
        shape == [d \in 1 .. n |-> a.shape[order[d]]]
    IN  IF Len(order) # n \/ ToSet(order) # 1 .. n THEN {}
        ELSE IF n <= 1 THEN {a}
        ELSE {Traced(shape, OverWalk(shape, Len(a.el), LAMBDA i :
                a.el[FlatAt(i, [d \in 1 .. n |-> strides[order[d]]]) + 1]))}
\* Where no axis is left the result keeps one.
Squeeze(a, axis) ==
    LET kept(shape) == IF shape = <<>> THEN <<1>> ELSE shape
    IN  IF axis = <<>> THEN {Traced(kept(SelectSeq(a.shape, LAMBDA n : n # 1)), a.el)}
        ELSE {Traced(kept(RemoveAt(a.shape, ax)), a.el)
                : ax \in {ax \in AxisOf(Len(a.shape), axis[1]) : a.shape[ax] = 1}}
Unsqueeze(a, axis) ==
    {Traced(InsertAt(a.shape, ax, 1), a.el) : ax \in AxisOf(Len(a.shape) + 1, axis)}
Flatten(a) == {OneAxis(a.el)}

\* np.flip and np.roll move the coordinate on one axis inside the flat order.
OnAxis(a, ax, source(_, _)) ==
    LET st == Strides(a.shape)[ax]
        sh == a.shape[ax]
        from(flat) == LET i == (flat \div st) % sh IN flat - i * st + source(i, sh) * st
    IN  Traced(a.shape, [k \in DOMAIN a.el |-> a.el[from(k - 1) + 1]])
Flip(a, axis) ==
    IF axis = <<>> THEN {Traced(a.shape, Reverse(a.el))}
    ELSE {OnAxis(a, ax, LAMBDA i, sh : sh - 1 - i) : ax \in AxisOf(Len(a.shape), axis[1])}
Roll(a, shift, axis) ==
    LET n == Len(a.el)
    IN  IF axis = <<>> THEN {Traced(a.shape, [k \in 1 .. n |-> a.el[((k - 1 - shift) % n) + 1]])}
        ELSE {OnAxis(a, ax, LAMBDA i, sh : (i - shift) % sh) : ax \in AxisOf(Len(a.shape), axis[1])}

-----------------------------------------------------------------------------
(* Joins and constructors.                                                 *)

ConcatNd(items, axis) ==
    LET ref == items[1].shape
        offset(k, ax) == Total([j \in 1 .. k - 1 |-> items[j].shape[ax]])
        fits(ax) == \A k \in DOMAIN items :
            Len(items[k].shape) = Len(ref) /\ \A d \in DOMAIN ref \ {ax} : items[k].shape[d] = ref[d]
        \* The last item whose offset is not beyond the position.
        from(ax, i) == Max({k \in DOMAIN items : offset(k, ax) <= i[ax] /\ items[k].shape[ax] > 0})
        at(ax, i) == LET k == from(ax, i)
                     IN  items[k].el[FlatAt([i EXCEPT ![ax] = @ - offset(k, ax)], Strides(items[k].shape)) + 1]
    IN  {LET shape == [ref EXCEPT ![ax] = offset(Len(items) + 1, ax)]
         IN  Traced(shape, OverWalk(shape, Product(shape), LAMBDA i : at(ax, i)))
         : ax \in {ax \in AxisOf(Len(ref), axis) : fits(ax)}}

\* Scalars and vectors are put end to end, whatever the axis.
JoinFlat(items) == {OneAxis(FlattenSeq([k \in DOMAIN items |-> items[k].el]))}
AllFlat(items) == \A k \in DOMAIN items : Len(items[k].shape) <= 1
Concatenate(items, axis) ==
    IF \E k \in DOMAIN items : IsMatrix(items[k]) THEN {}
    ELSE IF AllFlat(items) THEN JoinFlat(items) ELSE ConcatNd(items, axis)
HStack(items) == Concatenate(items, 1)
VStack(items) ==
    LET promote(v) == CASE Len(v.shape) = 0 -> Traced(<<1, 1>>, v.el)
                        [] Len(v.shape) = 1 -> Traced(<<1>> \o v.shape, v.el)
                        [] OTHER -> v
    IN  IF \E k \in DOMAIN items : IsMatrix(items[k]) THEN {}
        ELSE ConcatNd([k \in DOMAIN items |-> promote(items[k])], 0)
\* The new axis counts the items.
Stack(items, axis) ==
    LET ref == items[1].shape
        at(ax, i) == items[i[ax] + 1].el[FlatAt(RemoveAt(i, ax), Strides(ref)) + 1]
    IN  IF \E k \in DOMAIN items : items[k].shape # ref THEN {}
        ELSE {LET shape == InsertAt(ref, ax, Len(items))
              IN  Traced(shape, OverWalk(shape, Product(shape), LAMBDA i : at(ax, i)))
              : ax \in AxisOf(Len(ref) + 1, axis)}
\* The constructors numpy is patched with during a trace, and the *_like forms.
Full(shape, v) == {Traced(shape, [k \in 1 .. Product(shape) |-> v])}
FullLike(a, v) == Full(a.shape, v)
Arange(start, stop, step) ==
    LET up(p, q) == IF q > 0 THEN (p + q - 1) \div q ELSE ((-p) - q - 1) \div (-q)
    IN  {OneAxis([k \in 1 .. Most(up(stop - start, step), 0) |-> {start + (k - 1) * step}])}
Linspace(start, stop, num) ==
    LET at(k) == UNION {Known(start + (k - 1) * s) : s \in Quotient(stop - start, num - 1)}
    IN  {OneAxis([k \in 1 .. num |-> IF num > 1 /\ k = num THEN {stop} ELSE IF num = 1 THEN {start} ELSE at(k)])}
Eye(n, m) ==
    {Traced(<<n, m>>, [e \in 1 .. n * m |->
        IF \E i \in 0 .. Least(n, m) - 1 : e = i * m + i + 1 THEN UnitValue ELSE Zero])}
Diag(v) ==
    LET n == Len(v.el)
        on(e) == {i \in 1 .. n : e = (i - 1) * n + i}
    IN  {Traced(<<n, n>>, [e \in 1 .. n * n |-> IF on(e) = {} THEN Zero ELSE v.el[The(on(e))]])}

\* extract_outputs: what the function returns, element by element.
Outputs(v) == v.el
=============================================================================
