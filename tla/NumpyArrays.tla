----------------------------- MODULE NumpyArrays -----------------------------
(***************************************************************************)
(* What the functions of numpy return that the tracer takes over           *)
(* (src/src/tracer/frontend/array.rs), told without strides: an array is   *)
(* its shape and its elements by multi-index.  A function returns the set  *)
(* of the arrays it can return: one, or none where numpy raises.           *)
(*                                                                         *)
(* Elements are sets of integers as in ExprGraph: {v}, or {} for a value   *)
(* the integers cannot express.  The functions that only rearrange         *)
(* elements do not look at them, so they also rearrange memory cells:      *)
(* these are the functions that return views.                              *)
(***************************************************************************)
EXTENDS ExprGraph

\* The indices in row-major order: the last axis runs fastest.
Listing(shape) ==
    FoldLeft(LAMBDA list, n :
                FlattenSeq([k \in DOMAIN list |-> [p \in 1 .. n |-> Append(list[k], p - 1)]]),
             <<<<>>>>, shape)

Indices(shape) == ToSet(Listing(shape))
Array(shape, at(_)) == [shape |-> shape, at |-> [i \in Indices(shape) |-> at(i)]]
OfList(shape, s) ==
    LET list == Listing(shape)
    IN  Array(shape, LAMBDA i : s[CHOOSE k \in DOMAIN list : list[k] = i])
Listed(a) == LET s == Listing(a.shape) IN [k \in DOMAIN s |-> a.at[s[k]]]
Size(a) == Cardinality(DOMAIN a.at)
Scalar(v) == [shape |-> <<>>, at |-> [i \in {<<>>} |-> v]]
Vector(s) == OfList(<<Len(s)>>, s)

\* The axis an argument names, counted from the front or the back.
Axes(rank, k) == {d \in 1 .. rank : d = k + 1 \/ d = rank + k + 1}

-----------------------------------------------------------------------------
(* Elementwise functions.                                                  *)

Padded(s, n) == [d \in 1 .. n |-> IF d <= n - Len(s) THEN 1 ELSE s[d - (n - Len(s))]]
Extents(shapes, d) ==
    LET n == Max({Len(s) : s \in shapes}) IN {Padded(s, n)[d] : s \in shapes} \ {1}
Common(shapes) ==
    LET n == Max({Len(s) : s \in shapes})
    IN  IF \A d \in 1 .. n : Cardinality(Extents(shapes, d)) <= 1
        THEN {[d \in 1 .. n |->
                IF Extents(shapes, d) = {} THEN 1 ELSE The(Extents(shapes, d))]}
        ELSE {}
\* The element a broadcast array shows at an index of the common shape.
Seen(a, i) ==
    a.at[[d \in DOMAIN a.shape |->
            IF a.shape[d] = 1 THEN 0 ELSE i[d + Len(i) - Len(a.shape)]]]

Floored(a, b) == IF b > 0 THEN {a % b} ELSE IF b < 0 THEN {-((-a) % (-b))} ELSE {}
Pair(op, a, b) ==
    CASE op = "add" -> Known(a + b)
      [] op = "sub" -> Known(a - b)
      [] op = "mul" -> Known(a * b)
      [] op = "div" -> Quotient(a, b)
      [] op = "remainder" -> Floored(a, b)
      [] op = "min" -> {IF a < b THEN a ELSE b}
      [] op = "max" -> {IF a > b THEN a ELSE b}
      [] op = "heaviside" -> {IF a < 0 THEN 0 ELSE IF a > 0 THEN 1 ELSE b}
      [] op = "lt" -> Truth(a < b)
      [] op = "ge" -> Truth(a >= b)
      [] op = "ne" -> Truth(a # b)
Join(op, A, B) == UNION {Pair(op, a, b) : a \in A, b \in B}
Binary(op, x, y) ==
    {Array(s, LAMBDA i : Join(op, Seen(x, i), Seen(y, i))) : s \in Common({x.shape, y.shape})}

One(op, a) ==
    CASE op = "neg" -> {-a}
      [] op = "abs" -> {IF a < 0 THEN -a ELSE a}
      [] op = "square" -> Known(a * a)
Each(op, x) == {Array(x.shape, LAMBDA i : UNION {One(op, a) : a \in x.at[i]})}
Clipped(x, lo, hi) ==
    LET over(v) == IF lo = <<>> THEN v ELSE Join("max", v, lo[1])
        under(v) == IF hi = <<>> THEN v ELSE Join("min", v, hi[1])
    IN  {Array(x.shape, LAMBDA i : under(over(x.at[i])))}

Chosen(C, t, e) == UNION {IF c # 0 THEN t ELSE e : c \in C}
Where(c, x, y) ==
    {Array(s, LAMBDA i : Chosen(Seen(c, i), Seen(x, i), Seen(y, i)))
        : s \in Common({c.shape, x.shape, y.shape})}
\* The first condition that holds chooses.
Select(conds, choices, default) ==
    {Array(s, LAMBDA i :
        FoldRight(LAMBDA k, rest : Chosen(Seen(conds[k], i), Seen(choices[k], i), rest),
                  [k \in DOMAIN conds |-> k], Seen(default, i)))
        : s \in Common({a.shape : a \in ToSet(conds) \cup ToSet(choices) \cup {default}})}

\* The polygon through (xp, fp), constant outside.
Interp(x, xp, fp) ==
    LET n == Len(xp)
        inside(v, k) ==
            Plus({fp[k]}, Quotient((v - xp[k]) * (fp[k + 1] - fp[k]), xp[k + 1] - xp[k]))
        at(v) == IF v <= xp[1] THEN {fp[1]} ELSE IF v >= xp[n] THEN {fp[n]}
                 ELSE inside(v, CHOOSE k \in 1 .. n - 1 : xp[k] <= v /\ v < xp[k + 1])
    IN  {Array(x.shape, LAMBDA i : UNION {at(v) : v \in x.at[i]})}
\* Where a value belongs in a sorted grid.
SearchSorted(grid, x, right) ==
    LET below(v) == {k \in DOMAIN grid : grid[k] < v \/ (right /\ grid[k] = v)}
    IN  {Array(x.shape, LAMBDA i : {Cardinality(below(v)) : v \in x.at[i]})}

-----------------------------------------------------------------------------
(* Reductions, of all elements (axis <<>>) or along one axis.              *)

Collapse(op, s) ==
    IF s = <<>> THEN CASE op = "add" -> {0} [] op = "mul" -> {1} [] OTHER -> {}
    ELSE FoldLeft(LAMBDA x, y : Join(op, x, y), Head(s), Tail(s))
\* The elements along axis d behind an index of the other axes.
Line(a, d, i) == [k \in 1 .. a.shape[d] |-> a.at[InsertAt(i, d, k - 1)]]

Along(f(_), a, axis, keep) ==
    IF axis = <<>>
    THEN {Array(IF keep THEN [d \in DOMAIN a.shape |-> 1] ELSE <<>>, LAMBDA i : f(Listed(a)))}
    ELSE {LET others == Array(RemoveAt(a.shape, d), LAMBDA i : f(Line(a, d, i)))
          IN  IF keep
              THEN Array([a.shape EXCEPT ![d] = 1], LAMBDA i : others.at[RemoveAt(i, d)])
              ELSE others
          : d \in Axes(Len(a.shape), axis[1])}
Reduced(op, a, axis, keep) == Along(LAMBDA s : Collapse(op, s), a, axis, keep)

Over(A, n) == UNION {Quotient(a, n) : a \in A}
Average(s) == Over(Collapse("add", s), Len(s))
Mean(a, axis, keep) == Along(Average, a, axis, keep)
Variance(a, ddof) ==
    LET s == Listed(a)
        square(k) == UNION {Known(d * d) : d \in Join("sub", s[k], Average(s))}
    IN  IF ddof >= Len(s) THEN {}
        ELSE {Scalar(Over(Collapse("add", [k \in DOMAIN s |-> square(k)]), Len(s) - ddof))}
\* The first position of the extreme element.
Position(a, greatest) ==
    LET s == Listed(a)
        v(k) == The(s[k])
        wins(k) == \A j \in DOMAIN s \ {k} : IF greatest THEN v(k) >= v(j) ELSE v(k) <= v(j)
    IN  {Scalar(IF Len(s) > 1 /\ {} \in ToSet(s) THEN {}
                ELSE {Min({k - 1 : k \in {k \in DOMAIN s : wins(k)}})})}

\* Vectors only: running totals and differences.
Running(op, a) ==
    LET s == Listed(a) IN {Vector([k \in DOMAIN s |-> Collapse(op, SubSeq(s, 1, k))])}
Step(s) == [k \in 1 .. Len(s) - 1 |-> Join("sub", s[k + 1], s[k])]
Differences(a, n) ==
    {Vector(FoldLeft(LAMBDA s, k : IF s = <<>> THEN s ELSE Step(s), Listed(a), [k \in 1 .. n |-> k]))}

Norm(a, ord) ==
    LET s == Listed(a)
        size == [k \in DOMAIN s |-> UNION {One("abs", v) : v \in s[k]}]
        squares == [k \in DOMAIN s |-> UNION {One("square", v) : v \in s[k]}]
    IN  {Scalar(CASE ord = "2" -> UNION {Root(v) : v \in Collapse("add", squares)}
                  [] ord = "1" -> Collapse("add", size)
                  [] ord = "inf" -> Collapse("max", size)
                  [] ord = "-inf" -> Collapse("min", size))}

-----------------------------------------------------------------------------
(* Products.                                                               *)

Contracted(s, t) == Collapse("add", [k \in DOMAIN s |-> Join("mul", s[k], t[k])])
MatMul(x, y) ==
    LET m == Len(x.shape)
        n == Len(y.shape)
        d == IF n = 1 THEN 1 ELSE n - 1
        rest == RemoveAt(x.shape, m) \o RemoveAt(y.shape, d)
    IN  IF ~({m, n} \subseteq {1, 2}) \/ x.shape[m] # y.shape[d] THEN {}
        ELSE {Array(rest, LAMBDA i :
                Contracted(Line(x, m, SubSeq(i, 1, m - 1)), Line(y, d, SubSeq(i, m, Len(i)))))}
VDot(x, y) ==
    IF Size(x) # Size(y) THEN {} ELSE {Scalar(Contracted(Listed(x), Listed(y)))}
Outer(x, y) ==
    LET s == Listed(x)
        t == Listed(y)
    IN  {Array(<<Len(s), Len(t)>>, LAMBDA i : Join("mul", s[i[1] + 1], t[i[2] + 1]))}
Cross(x, y) ==
    LET s == Listed(x)
        t == Listed(y)
        minor(i, j) == Join("sub", Join("mul", s[i], t[j]), Join("mul", s[j], t[i]))
    IN  IF x.shape # <<3>> \/ y.shape # <<3>> THEN {}
        ELSE {Vector(<<minor(2, 3), minor(3, 1), minor(1, 2)>>)}
\* Two equations by Cramer's rule.
Solve(A, b) ==
    LET s == Listed(b)
        det == A[1][1] * A[2][2] - A[1][2] * A[2][1]
        part(p, q, r, t) == Over(Join("sub", Join("mul", {p}, q), Join("mul", {r}, t)), det)
    IN  IF b.shape # <<2>> \/ det = 0 THEN {}
        ELSE {Vector(<<part(A[2][2], s[1], A[1][2], s[2]), part(A[1][1], s[2], A[2][1], s[1])>>)}

-----------------------------------------------------------------------------
(* Arrays from arrays: views, which show the elements of another array,    *)
(* and joins, which copy them.                                             *)

\* slice.indices of Python: the positions a slice selects on an axis.
SlicePositions(n, start, stop, step) ==
    LET clamp(v, lo, hi) == LET w == IF v < 0 THEN v + n ELSE v IN Max({lo, Min({hi, w})})
        from == IF step > 0 THEN (IF start = <<>> THEN 0 ELSE clamp(start[1], 0, n))
                ELSE (IF start = <<>> THEN n - 1 ELSE clamp(start[1], -1, n - 1))
        to == IF step > 0 THEN (IF stop = <<>> THEN n ELSE clamp(stop[1], 0, n))
              ELSE (IF stop = <<>> THEN -1 ELSE clamp(stop[1], -1, n - 1))
        inside(p) == IF step > 0 THEN p < to ELSE p > to
    IN  SelectSeq([k \in 1 .. n |-> from + (k - 1) * step], inside)

\* An index: one entry per axis, an axis added (new), or all axes left (rest).
Entry(kind, num, start, stop, step) ==
    [kind |-> kind, num |-> num, start |-> start, stop |-> stop, step |-> step]
Single(i) == Entry("int", <<i>>, <<>>, <<>>, 1)
Slice(start, stop, step) == Entry("slice", <<>>, start, stop, step)
Fancy(picks) == Entry("fancy", picks, <<>>, <<>>, 1)
NewAxis == Entry("new", <<>>, <<>>, <<>>, 1)
Ellipsis == Entry("rest", <<>>, <<>>, <<>>, 1)
All == Slice(<<>>, <<>>, 1)

Index(a, items) ==
    LET rank == Len(a.shape)
        used == Len(SelectSeq(items, LAMBDA e : e.kind \in {"int", "slice", "fancy"}))
        fill == [k \in 1 .. rank - used |-> All]
        full == IF \E k \in DOMAIN items : items[k].kind = "rest"
                THEN FlattenSeq([k \in DOMAIN items |->
                        IF items[k].kind = "rest" THEN fill ELSE <<items[k]>>])
                ELSE items \o fill
        \* The entries that take an axis of a, and those that make one.
        taking == SelectSeq([k \in DOMAIN full |-> k], LAMBDA k : full[k].kind # "new")
        making == SelectSeq([k \in DOMAIN full |-> k], LAMBDA k : full[k].kind # "int")
        positions(d) ==
            LET e == full[taking[d]]
                n == a.shape[d]
            IN  IF e.kind = "slice" THEN SlicePositions(n, e.start, e.stop, e.step)
                ELSE [k \in DOMAIN e.num |-> IF e.num[k] < 0 THEN e.num[k] + n ELSE e.num[k]]
        extent(k) == IF full[k].kind = "new" THEN 1 ELSE Len(positions(CHOOSE d \in 1 .. rank : taking[d] = k))
        source(i) == [d \in 1 .. rank |->
            IF full[taking[d]].kind = "int" THEN positions(d)[1]
            ELSE positions(d)[1 + i[CHOOSE o \in DOMAIN making : making[o] = taking[d]]]]
        inRange == \A d \in 1 .. rank : \A p \in ToSet(positions(d)) : p \in 0 .. a.shape[d] - 1
    IN  IF used > rank THEN {} ELSE IF ~inRange THEN {}
        ELSE {Array([o \in DOMAIN making |-> extent(making[o])], LAMBDA i : a.at[source(i)])}

Reshaped(a, shape) ==
    LET known == FoldLeft(LAMBDA p, n : IF n = -1 THEN p ELSE p * n, 1, shape)
        free == {d \in DOMAIN shape : shape[d] = -1}
        whole == IF free = {} THEN known = Size(a)
                 ELSE Cardinality(free) = 1 /\ known > 0 /\ Size(a) % known = 0
    IN  IF ~whole THEN {}
        ELSE {OfList([d \in DOMAIN shape |-> IF d \in free THEN Size(a) \div known ELSE shape[d]], Listed(a))}
\* Axis d of the result is axis order[d] of the array.
Permuted(a, order) ==
    Array([d \in DOMAIN order |-> a.shape[order[d]]],
          LAMBDA i : a.at[[e \in DOMAIN order |-> i[CHOOSE d \in DOMAIN order : order[d] = e]]])
Transposed(a, axes) ==
    LET n == Len(a.shape)
        order == IF axes = <<>> THEN [d \in 1 .. n |-> n + 1 - d]
                 ELSE [d \in DOMAIN axes[1] |-> IF axes[1][d] < 0 THEN axes[1][d] + n + 1 ELSE axes[1][d] + 1]
    IN  IF Len(order) = n /\ ToSet(order) = 1 .. n THEN {Permuted(a, order)} ELSE {}
Squeezed(a, axis) ==
    IF axis = <<>> THEN {OfList(SelectSeq(a.shape, LAMBDA n : n # 1), Listed(a))}
    ELSE {OfList(RemoveAt(a.shape, d), Listed(a))
            : d \in {d \in Axes(Len(a.shape), axis[1]) : a.shape[d] = 1}}
Expanded(a, axis) ==
    {OfList(InsertAt(a.shape, d, 1), Listed(a)) : d \in Axes(Len(a.shape) + 1, axis)}
Flipped(a, axis) ==
    LET over == IF axis = <<>> THEN DOMAIN a.shape ELSE Axes(Len(a.shape), axis[1])
        mirror(i) == [d \in DOMAIN i |-> IF d \in over THEN a.shape[d] - 1 - i[d] ELSE i[d]]
    IN  IF over = {} THEN {} ELSE {Array(a.shape, LAMBDA i : a.at[mirror(i)])}
Rolled(a, shift, axis) ==
    IF axis = <<>>
    THEN LET s == Listed(a)
         IN  {OfList(a.shape, [k \in DOMAIN s |-> s[((k - 1 - shift) % Len(s)) + 1]])}
    ELSE {Array(a.shape, LAMBDA i : a.at[[i EXCEPT ![d] = (@ - shift) % a.shape[d]]])
            : d \in Axes(Len(a.shape), axis[1])}
Diagonal(a) ==
    {Array(<<Size(a), Size(a)>>, LAMBDA i : IF i[1] = i[2] THEN a.at[<<i[1]>>] ELSE {0})}

Concatenated(items, axis) ==
    LET shape == items[1].shape
        \* The item a position on axis d falls into, and where in it.
        before(k, d) == FoldLeft(LAMBDA n, a : n + a.shape[d], 0, SubSeq(items, 1, k - 1))
        owner(p, d) == CHOOSE k \in DOMAIN items : p >= before(k, d) /\ p < before(k + 1, d)
        fits(d) == \A k \in DOMAIN items :
            Len(items[k].shape) = Len(shape) /\ RemoveAt(items[k].shape, d) = RemoveAt(shape, d)
    IN  {Array([shape EXCEPT ![d] = before(Len(items) + 1, d)], LAMBDA i :
            LET k == owner(i[d], d) IN items[k].at[[i EXCEPT ![d] = @ - before(k, d)]])
            : d \in {d \in Axes(Len(shape), axis) : fits(d)}}
Stacked(items, axis) ==
    IF \E k \in DOMAIN items : items[k].shape # items[1].shape THEN {}
    ELSE {Array(InsertAt(items[1].shape, d, Len(items)), LAMBDA i : items[i[d] + 1].at[RemoveAt(i, d)])
            : d \in Axes(Len(items[1].shape) + 1, axis)}
AtLeast1D(a) == IF a.shape = <<>> THEN Vector(Listed(a)) ELSE a
AtLeast2D(a) == IF Len(a.shape) < 2 THEN OfList(<<1, Size(a)>>, Listed(a)) ELSE a
HStacked(items) ==
    LET s == [k \in DOMAIN items |-> AtLeast1D(items[k])]
    IN  Concatenated(s, IF Len(s[1].shape) = 1 THEN 0 ELSE 1)
VStacked(items) == Concatenated([k \in DOMAIN items |-> AtLeast2D(items[k])], 0)

=============================================================================
