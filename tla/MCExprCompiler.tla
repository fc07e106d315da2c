---------------------------- MODULE MCExprCompiler ----------------------------
(* Two subjects, a behaviour being of one of them: small expressions for     *)
(* ExprCompiler, a script for each kind of rewrite; and, for TracedProgram,  *)
(* programs over small arrays of one, two and three axes.                    *)
EXTENDS ExprCompiler, TracedProgram

X == Leaf("input", 1)
Y == Leaf("input", 2)
P == Leaf("param", 1)

Script(start, ops) == [start |-> start, ops |-> ops]

MCScripts ==
    {   \* identities with 0 and 1, inputs the optimizer copies, divisions
        Script(<<X, Y, Const(0)>>, <<{"add", "sub", "mul"}, {"mul", "sub", "neg"}>>),
        Script(<<X, P, Const(1)>>, <<{"mul", "div", "sub"}, {"mul", "div", "add"}>>),
        Script(<<X, Y, Const(0)>>, <<{"sub"}, {"mul"}, {"neg", "abs"}>>),
        \* powers, roots, signs
        Script(<<X, Const(2), Const(3)>>, <<{"pow", "mul"}, {"pow", "mul"}>>),
        Script(<<X, Const(0), Const(-1), Const(1)>>, <<{"pow"}, {"pow", "neg"}>>),
        Script(<<X, Y>>, <<{"sqrt", "neg", "abs", "smooth"}, {"abs", "neg", "mul"}, {"abs", "sign"}>>),
        \* branches, comparisons and remainders
        Script(<<X, Y>>, <<{"lt"}, {"select"}, {"mul"}>>),
        Script(<<X, Const(0), Const(1)>>, <<{"select", "eq"}, {"select", "min", "max"}>>),
        Script(<<X, Y, Const(2)>>, <<{"mod"}, {"mul", "add"}>>),
        \* reductions and dot products
        Script(<<X, Y, P>>, <<{"sum", "prod", "least"}, {"mul"}>>),
        Script(<<X, P>>, <<{"dot"}, {"mul", "add"}>>),
        \* chains of sums and products, and what reads them
        Script(<<X, Y, Op("mul", <<1, 1>>), Op("mul", <<1, 2>>), Op("mul", <<2, 2>>)>>,
               <<{"add"}, {"add"}>>),
        Script(<<X, Y, Op("add", <<1, 2>>)>>, <<{"add"}, {"neg", "add"}, {"sign"}>>),
        Script(<<X, Y>>, <<{"sub"}, {"add", "mul"}, {"add"}>>)
    }

MCPoints == {[in |-> v, par |-> <<3>>] : v \in {<<4, 3>>, <<-1, 0>>}}

-----------------------------------------------------------------------------
Elements(s) == [k \in DOMAIN s |-> {s[k]}]
Of(shape, s) == [shape |-> shape, el |-> Elements(s)]

Number == Of(<<>>, <<3>>)
Vector2 == Of(<<2>>, <<4, -2>>)
Vector3 == Of(<<3>>, <<-3, 6, 6>>)
Matrix22 == Of(<<2, 2>>, <<1, -4, 0, 5>>)
Matrix23 == Of(<<2, 3>>, <<2, 0, -1, 3, 7, 5>>)
Row == Of(<<1, 3>>, <<6, -6, 1>>)
Upright == Of(<<2, 1>>, <<-1, 3>>)
Box == Of(<<2, 1, 3>>, <<0, 5, 2, -4, 1, 7>>)

Program(arrays, statements) == [vars |-> arrays, calls |-> statements]
MCPrograms ==
    {Program(a, <<f>>) : a \in {<<Number, Vector2>>, <<Vector2, Matrix22>>, <<Vector3, Matrix23>>,
                                <<Upright, Row>>, <<Row, Box>>},
                         f \in {{"binary"}, {"unary", "clip", "grid"}, {"reduce", "measure"},
                                {"view"}, {"get"}, {"join"}, {"make"}}}
    \cup
    {Program(a, <<f>>) : a \in {<<Number, Vector2>>, <<Vector3, Vector3>>, <<Matrix22, Vector2>>,
                                <<Upright, Matrix22>>, <<Matrix23, Vector3>>},
                         f \in {{"where"}, {"matmul"}, {"running", "solve"}, {"set"}}}
    \cup
    {Program(<<Number, Vector2>>, <<{"select"}>>), Program(<<Vector3, Vector3>>, <<{"select"}>>)}
    \cup
    {Program(<<a>>, <<{f}, g>>) : a \in {Vector3, Row, Matrix22, Matrix23, Box},
                                  f \in {"view", "get", "join"},
                                  g \in {{"binary"}, {"reduce", "measure", "running"}, {"matmul"},
                                         {"view"}, {"get"}, {"join"}}}
    \cup
    {Program(<<Vector3>>, <<{f}, {"reduce", "measure", "view"}>>) :
        f \in {"running", "where", "join", "make", "binary"}}
    \cup
    {Program(<<Number, Matrix22>>, <<{"get", "make"}, {"set"}, {"reduce"}>>)}

MCLiterals == {Of(<<>>, <<2>>), Of(<<>>, <<0>>), Of(<<2>>, <<1, 0>>), Of(<<3>>, <<0, -2, 6>>),
               Of(<<2, 2>>, <<1, 0, -1, 3>>)}

MCShapes == {<<-1>>, <<6>>, <<2, -1>>, <<3, 2>>, <<1, 2, 2>>, <<-1, 2, -1>>, <<4, -1>>}

Some(i) == <<i>>
MCIndexers ==
    LET I(i) == Np!Single(i)
        S(a, b, step) == Np!Slice(a, b, step)
        all == Np!All
        back == S(<<>>, <<>>, -1)
    IN  {<<I(0)>>, <<I(-1)>>, <<I(2)>>, <<I(0), I(1)>>, <<I(-1), all>>, <<all, I(-2)>>,
         <<back>>, <<all, back>>, <<S(Some(1), <<>>, 1)>>, <<S(<<>>, Some(-1), 2), I(0)>>,
         <<S(Some(-1), Some(-4), -2)>>, <<Np!Fancy(<<1, 0, 1>>)>>, <<all, Np!Fancy(<<-1, 0>>)>>,
         <<Np!NewAxis, I(1)>>, <<all, Np!NewAxis, back>>, <<Np!Ellipsis, I(0)>>,
         <<I(1), Np!Ellipsis, Np!NewAxis>>,
         <<Np!Ellipsis, S(<<>>, <<>>, 2)>>}


-----------------------------------------------------------------------------
NoProgram ==
    calls = <<>> /\ traced = <<>> /\ eager = <<>> /\ owner = <<>> /\ status = "opaque"
NoExpression ==
    /\ todo = <<>> /\ source = EmptyGraph /\ graph = EmptyGraph
    /\ column = "value" /\ stage = "none" /\ tape = NoTape /\ work = <<>> /\ called = NoCall

MCInit == (Init /\ NoProgram) \/ (ProgramInit /\ NoExpression)

MCNext ==
    \/ Trace /\ UNCHANGED programVars
    \/ Finish /\ UNCHANGED programVars
    \/ Optimize /\ UNCHANGED programVars
    \/ Derive /\ UNCHANGED programVars
    \/ Lower /\ UNCHANGED programVars
    \/ Call /\ UNCHANGED programVars
    \/ Binary /\ UNCHANGED vars
    \/ Unary /\ UNCHANGED vars
    \/ Clipped /\ UNCHANGED vars
    \/ Chosen /\ UNCHANGED vars
    \/ Selected /\ UNCHANGED vars
    \/ Looked /\ UNCHANGED vars
    \/ Reduced /\ UNCHANGED vars
    \/ Measured /\ UNCHANGED vars
    \/ Accumulated /\ UNCHANGED vars
    \/ Multiplied /\ UNCHANGED vars
    \/ Solved /\ UNCHANGED vars
    \/ Got /\ UNCHANGED vars
    \/ Stored /\ UNCHANGED vars
    \/ Viewed /\ UNCHANGED vars
    \/ Joined /\ UNCHANGED vars
    \/ Made /\ UNCHANGED vars

MCSpec == MCInit /\ [][MCNext]_<<vars, programVars>>

=============================================================================
