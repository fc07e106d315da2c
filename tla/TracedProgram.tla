---------------------------- MODULE TracedProgram ----------------------------
(***************************************************************************)
(* A user function run twice, side by side: traced (TracedArrays) and by   *)
(* numpy (NumpyArrays).  It begins with its arguments, reshaped, and       *)
(* assigns one result after another to new variables, or stores into one   *)
(* it has.  A call the tracer raises on ends the trace: the function then  *)
(* stays a callback, and nothing is said of it.                            *)
(*                                                                         *)
(* Programs bounds what is run: the variables at the start and, for every  *)
(* statement, the functions it may call.  Literals are the constants in    *)
(* the text, Indexers the indexes and Shapes the shapes they may name.     *)
(***************************************************************************)
EXTENDS TracedArrays

Np == INSTANCE NumpyArrays

CONSTANTS Programs, Literals, Indexers, Shapes

VARIABLES
    calls,       \* for each statement left, the functions it may call
    traced,     \* the variables of the traced function
    eager,      \* the same variables when numpy runs it
    owner,      \* the variable whose memory each one shows
    status      \* "tracing", "opaque", or "diverged": only numpy raised

programVars == <<calls, traced, eager, owner, status>>

-----------------------------------------------------------------------------
ProgramInit ==
    \E p \in Programs :
        /\ calls = p.calls
        /\ traced = [v \in DOMAIN p.vars |-> Result(p.vars[v].shape, p.vars[v].el)]
        /\ eager = [v \in DOMAIN p.vars |-> Np!OfList(p.vars[v].shape, p.vars[v].el)]
        /\ owner = [v \in DOMAIN p.vars |-> v]
        /\ status = "tracing"

\* Operands: what the variables hold, and literals.
Held(v) == [t |-> traced[v], n |-> eager[v], var |-> v]
Variables == {Held(v) : v \in DOMAIN traced}
ArrayVariables == {x \in Variables : x.t.kind = "array"}
Written ==
    {[t |-> Value("const", l.shape, l.el), n |-> Np!OfList(l.shape, l.el), var |-> 0] : l \in Literals}
Latest == {x \in Variables : x.var = Len(traced)}
LatestArray == Latest \cap ArrayVariables
Operands == Variables \cup Written
\* Operand lists around the latest variable.
Pairs == {<<x, y>> : x \in Latest, y \in Operands} \cup {<<x, y>> : x \in Operands, y \in Latest}
Triples == {<<p[1], p[2], z>> : p \in Pairs, z \in Operands}
           \cup {<<z, p[1], p[2]>> : p \in Pairs, z \in Operands}
Scalars == {x \in Operands : x.t.shape = <<>>}
Bounds == {<<>>} \cup {<<x>> : x \in Scalars}
AxisArguments == {<<>>} \cup {<<k>> : k \in -3 .. 2}

Tr(xs) == [k \in DOMAIN xs |-> xs[k].t]
Nu(xs) == [k \in DOMAIN xs |-> xs[k].n]

May(f) == status = "tracing" /\ calls # <<>> /\ f \in Head(calls)
\* The result t of the tracer and n of numpy, in the memory of variable own
\* or its own.
Assign(t, n, own) ==
    /\ calls' = Tail(calls)
    /\ IF t = {}
       THEN status' = "opaque" /\ UNCHANGED <<traced, eager, owner>>
       ELSE IF n = {}
       THEN status' = "diverged" /\ UNCHANGED <<traced, eager, owner>>
       ELSE /\ traced' = Append(traced, The(t))
            /\ eager' = Append(eager, The(n))
            /\ owner' = Append(owner, IF own = 0 THEN Len(owner) + 1 ELSE owner[own])
            /\ UNCHANGED status
New(t, n) == Assign(t, n, 0)

-----------------------------------------------------------------------------
Binary == May("binary") /\ \E op \in {"sub", "div", "remainder", "min", "lt", "ne", "heaviside"}, p \in Pairs :
    New(BinaryUfunc(op, p[1].t, p[2].t), Np!Binary(op, p[1].n, p[2].n))
Unary == May("unary") /\ \E op \in {"neg", "abs", "square"}, x \in Latest :
    New(UnaryUfunc(op, x.t), Np!Each(op, x.n))
Clipped == May("clip") /\ \E x \in Latest, lo, hi \in Bounds :
    New(Clip(x.t, IF lo = <<>> THEN lo ELSE lo[1].t.el, IF hi = <<>> THEN hi ELSE hi[1].t.el),
        Np!Clipped(x.n, IF lo = <<>> THEN lo ELSE lo[1].t.el, IF hi = <<>> THEN hi ELSE hi[1].t.el))
Chosen == May("where") /\ \E p \in Triples :
    New(NpWhere(p[1].t, p[2].t, p[3].t), Np!Where(p[1].n, p[2].n, p[3].n))
\* numpy broadcasts; the tracer flattens: vectors and scalars only.
Selected == May("select") /\ \E p, q \in Pairs, d \in Scalars :
    /\ \A k \in 1 .. 2 : Len(p[k].t.shape) <= 1 /\ Len(q[k].t.shape) <= 1
    /\ New(NpSelect(Tr(<<p[1], q[1]>>), Tr(<<p[2], q[2]>>), d.t),
           Np!Select(Nu(<<p[1], q[1]>>), Nu(<<p[2], q[2]>>), d.n))
Looked == May("grid") /\ \E x \in Latest :
    \/ New(NpInterp(x.t, <<-2, 0, 3>>, <<4, 0, 6>>), Np!Interp(x.n, <<-2, 0, 3>>, <<4, 0, 6>>))
    \/ \E right \in BOOLEAN :
        New(NpSearchSorted(<<-1, 0, 4>>, x.t, right), Np!SearchSorted(<<-1, 0, 4>>, x.n, right))

Reduced == May("reduce") /\ \E x \in LatestArray, axis \in AxisArguments, keep \in BOOLEAN :
    \/ \E op \in {"add", "mul", "min", "max"} :
        New(ReduceDispatch(op, x.t, axis, keep), Np!Reduced(op, x.n, axis, keep))
    \/ New(MeanDispatch(x.t, axis, keep), Np!Mean(x.n, axis, keep))
Measured == May("measure") /\ \E x \in LatestArray :
    \/ \E ddof \in 0 .. 2 : New(VarStd(x.t, ddof, FALSE), Np!Variance(x.n, ddof))
    \/ \E isMax \in BOOLEAN : New(ArgReduce(x.t, isMax), Np!Position(x.n, isMax))
    \/ \E ord \in {"1", "2", "inf", "-inf"} : New(NpNorm(x.t, ord), Np!Norm(x.n, ord))
Accumulated == May("running") /\ \E x \in LatestArray :
    /\ Len(x.t.shape) = 1
    /\ \/ \E op \in {"add", "mul"} : New(Cumulative(op, x.t), Np!Running(op, x.n))
       \/ \E n \in 0 .. 3 : New(Diff(x.t, n), Np!Differences(x.n, n))

\* A constant matrix, and a constant vector on the left, meet a traced vector
\* only: of a traced matrix the code takes the elements for a vector.
MeetsVector(x, y) ==
    /\ x.t.kind = "const" => Len(y.t.shape) <= 1
    /\ IsMatrix(y.t) => Len(x.t.shape) <= 1
Multiplied == May("matmul") /\ \E p \in Pairs :
    LET x == p[1]
        y == p[2]
    IN  /\ MeetsVector(x, y)
        /\ \/ x.t.shape # <<>> /\ y.t.shape # <<>> /\ New(NpMatmul(x.t, y.t), Np!MatMul(x.n, y.n))
           \* A vector and a traced matrix of one size are taken for two vectors.
           \/ /\ x.t.shape # <<>> /\ y.t.shape # <<>>
              /\ Len(x.t.shape) <= 2
              /\ Len(x.t.shape) = 2 \/ Len(y.t.shape) = 1 \/ IsMatrix(y.t)
              /\ New(NpDot(x.t, y.t), Np!MatMul(x.n, y.n))
           \/ /\ x.t.kind = "array"
              /\ New(DotMethod(x.t, y.t), IF y.t.shape = <<>> THEN Np!Binary("mul", x.n, y.n) ELSE Np!MatMul(x.n, y.n))
           \/ New(NpVdot(x.t, y.t), Np!VDot(x.n, y.n))
           \/ New(NpOuter(x.t, y.t), Np!Outer(x.n, y.n))
           \/ Len(x.t.shape) = 1 /\ Len(y.t.shape) = 1 /\ New(NpCross(x.t, y.t), Np!Cross(x.n, y.n))
Solved == May("solve") /\ \E x \in LatestArray, A \in {<<<<0, 1>>, <<1, 2>>>>, <<<<1, 2>>, <<-1, -3>>>>, <<<<1, 2>>, <<1, 2>>>>} :
    Len(x.t.shape) = 1 /\ New(NpSolve(A, x.t), Np!Solve(A, x.n))

\* An index selects something: of nothing the tracer takes one element.
Selects(x, items) == \A a \in Np!Index(x.n, items) : Np!Size(a) > 0
Got == May("get") /\ \E x \in LatestArray, items \in Indexers :
    Selects(x, items) /\ Assign(GetItem(x.t, items), Np!Index(x.n, items), x.var)
\* A store changes the variable in place.  numpy shows it in every view; the
\* tracer copies: it is made where no other variable shows the memory.
Stored == May("set") /\ \E x \in ArrayVariables, items \in Indexers, v \in Operands :
    LET at == Np!Index(x.n, items)
        value == v.n
        after == SetItem(x.t, items, v.t)
        \* The positions of x, indexed as x is, and what goes there.
        where == Np!Index([x.n EXCEPT !.at = [i \in DOMAIN @ |-> i]], items)
        \* A position written twice keeps the last value.
        put(w, i) == LET writes == SelectSeq(Np!Listing(w.shape), LAMBDA o : w.at[o] = i)
                     IN  IF writes = <<>> THEN x.n.at[i] ELSE Np!Seen(value, Last(writes))
    IN  /\ \A w \in DOMAIN owner : w # x.var => owner[w] # owner[x.var]
        /\ Selects(x, items) /\ after # {} /\ at # {}
        /\ calls' = Tail(calls)
        /\ \A a \in at : value.shape = <<>> \/ value.shape = a.shape \/ value.shape = <<1>>
        /\ traced' = [traced EXCEPT ![x.var] = The(after)]
        /\ eager' = [eager EXCEPT ![x.var] = [x.n EXCEPT !.at = [i \in DOMAIN @ |-> put(The(where), i)]]]
        /\ UNCHANGED <<owner, status>>

Viewed == May("view") /\ \E x \in LatestArray :
    \/ \E shape \in Shapes : Assign(Reshape(x.t, shape), Np!Reshaped(x.n, shape), x.var)
    \/ \E axes \in {<<>>, <<<<0, 1>>>>, <<<<1, 0>>>>, <<<<-1, -2>>>>, <<<<1, 2, 0>>>>, <<<<2, -3, 1>>>>, <<<<0, 0>>>>} :
        Assign(Transpose(x.t, axes), Np!Transposed(x.n, axes), x.var)
    \/ \E axis \in AxisArguments :
        \* Of axes of size one, one is kept.
        /\ \E d \in DOMAIN x.t.shape : x.t.shape[d] # 1
        /\ Assign(Squeeze(x.t, axis), Np!Squeezed(x.n, axis), x.var)
    \/ \E axis \in -4 .. 3 : Assign(Unsqueeze(x.t, axis), Np!Expanded(x.n, axis), x.var)
    \/ Assign(Flatten(x.t), {Np!Vector(Np!Listed(x.n))}, x.var)
    \/ \E axis \in AxisArguments : Assign(Flip(x.t, axis), Np!Flipped(x.n, axis), x.var)
    \/ \E axis \in AxisArguments, shift \in {-1, 2} : New(Roll(x.t, shift, axis), Np!Rolled(x.n, shift, axis))
Joined == May("join") /\ \E p \in Pairs \cup {<<x, y, z>> : x, z \in Variables, y \in Latest} :
    \/ \E axis \in -3 .. 2 :
        /\ \A k \in DOMAIN p : p[k].t.shape # <<>>
        /\ AllFlat(Tr(p)) => axis = 0
        /\ New(Concatenate(Tr(p), axis), Np!Concatenated(Nu(p), axis))
    \/ \E axis \in -3 .. 2 : New(Stack(Tr(p), axis), Np!Stacked(Nu(p), axis))
    \/ New(HStack(Tr(p)), Np!HStacked(Nu(p)))
    \/ New(VStack(Tr(p)), Np!VStacked(Nu(p)))
Made == May("make") /\
    \/ \E x \in LatestArray :
        \/ \E v \in Scalars : New(FullLike(x.t, v.t.el[1]), {Np!Array(x.t.shape, LAMBDA i : v.t.el[1])})
        \/ Len(x.t.shape) = 1 /\ New(Diag(x.t), Np!Diagonal(x.n))
    \/ \E shape \in {s \in Shapes : -1 \notin ToSet(s)}, v \in Scalars :
        New(Full(shape, v.t.el[1]), {Np!Array(shape, LAMBDA i : v.t.el[1])})
    \/ \E start \in {0, 3}, stop \in {4, -3}, step \in {1, 2, -3} :
        LET n == CHOOSE n \in 0 .. 9 : \A k \in 0 .. 9 :
                    k < n <=> (IF step > 0 THEN start + k * step < stop ELSE start + k * step > stop)
        IN  New(Arange(start, stop, step), {Np!Array(<<n>>, LAMBDA i : {start + i[1] * step})})
    \/ \E n \in 1 .. 4 :
        New(Linspace(2, 8, n), {Np!Array(<<n>>, LAMBDA i : IF n = 1 THEN {2} ELSE Plus({2}, Quotient(6 * i[1], n - 1)))})
    \/ \E n, m \in 1 .. 3 : New(Eye(n, m), {Np!Array(<<n, m>>, LAMBDA i : Truth(i[1] = i[2]))})

ProgramNext ==
    \/ Binary \/ Unary \/ Clipped \/ Chosen \/ Selected \/ Looked
    \/ Reduced \/ Measured \/ Accumulated \/ Multiplied \/ Solved
    \/ Got \/ Stored \/ Viewed \/ Joined \/ Made
ProgramSpec == ProgramInit /\ [][ProgramNext]_programVars

-----------------------------------------------------------------------------
ProgramTypeOK ==
    /\ Len(eager) = Len(traced) /\ Len(owner) = Len(traced)
    /\ \A v \in DOMAIN traced : Len(traced[v].el) = Product(traced[v].shape)
    /\ status \in {"tracing", "opaque", "diverged"}

\* The graph a trace records is the function: as long as no call raises,
\* every variable has the shape and the elements numpy gives it, in the
\* same order, and where numpy raises the tracer raises too (array.rs: "a
\* value that diverges from eager numpy with no error (a silent miscompile)").
TracedIsEager ==
    /\ status # "diverged"
    /\ \A v \in DOMAIN traced :
        /\ traced[v].shape = eager[v].shape
        /\ Outputs(traced[v]) = Np!Listed(eager[v])

=============================================================================
