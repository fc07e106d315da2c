----------------------------- MODULE Coefficients -----------------------------
(***************************************************************************)
(* The Runge-Kutta tableaus of src/solvers/tableaus.rs whose coefficients  *)
(* are written as fractions, and the two Euler methods as tableaus.        *)
(*                                                                         *)
(* Numbers are residues modulo the prime P: a fraction of two integers is  *)
(* the quotient of their residues, and no denominator of the tables is a   *)
(* multiple of P.  An identity between fractions holds of the residues,    *)
(* and one that fails goes unnoticed only when P divides the difference.   *)
(***************************************************************************)
EXTENDS Integers, Sequences

P == 46337

Plus(a, b) == (a + b) % P
Minus(a, b) == (a - b) % P
Times(a, b) == (a * b) % P

\* Raised to any power, by squaring.
Power(a, e) ==
    LET power[n \in Nat] ==
            IF n = 0 THEN 1
            ELSE LET root == power[n \div 2]
                     square == Times(root, root)
                 IN  IF n % 2 = 0 THEN square ELSE Times(square, a)
    IN  power[e]

Over(a, b) == Times(a, Power(b, P - 2))

\* A whole number; a fraction; a number of more than nine digits.
Z(n) == n % P
Q(n, d) == Over(Z(n), Z(d))
Long(high, low) == (Z(high) * 1000 + low) % P

\* The sum of the products of two sequences, as far as both go.
Dot(a, b) ==
    LET n == IF Len(a) < Len(b) THEN Len(a) ELSE Len(b)
        sum[i \in 0 .. n] == IF i = 0 THEN 0 ELSE Plus(sum[i - 1], Times(a[i], b[i]))
    IN  sum[n]

\* The sequence with elements f[1], f[2], ..., each evaluated now.
Vector(f) == f \o <<>>

-----------------------------------------------------------------------------
(* kind; the order n and the embedded order m; the stage times c; the rows *)
(* bt, an empty one for an explicit first stage; the weights tr of the     *)
(* error estimate; the output row final when it is not the last of bt; the *)
(* interpolant di.                                                         *)
Adaptive(kind, n, m, c, bt, tr) ==
    [kind |-> kind, n |-> n, m |-> m, c |-> c, bt |-> bt, tr |-> tr, final |-> <<>>, di |-> <<>>]
Fixed(kind, n, c, bt) == Adaptive(kind, n, 0, c, bt, <<>>)

SSPRK22 ==
    Fixed("ExplicitRK", 2,
        <<0, 1>>,
        <<<<1>>, <<Q(1, 2), Q(1, 2)>>>>)

RK4 ==
    Fixed("ExplicitRK", 4,
        <<0, Q(1, 2), Q(1, 2), 1>>,
        <<<<Q(1, 2)>>, <<0, Q(1, 2)>>, <<0, 0, 1>>, <<Q(1, 6), Q(2, 6), Q(2, 6), Q(1, 6)>>>>)

SSPRK33 ==
    Fixed("ExplicitRK", 3,
        <<0, 1, Q(1, 2)>>,
        <<<<1>>, <<Q(1, 4), Q(1, 4)>>, <<Q(1, 6), Q(1, 6), Q(2, 3)>>>>)

SSPRK34 ==
    Fixed("ExplicitRK", 3,
        <<0, Q(1, 2), 1, Q(1, 2)>>,
        <<<<Q(1, 2)>>, <<Q(1, 2), Q(1, 2)>>, <<Q(1, 6), Q(1, 6), Q(1, 6)>>,
          <<Q(1, 6), Q(1, 6), Q(1, 6), Q(1, 2)>>>>)

RKF21 ==
    Adaptive("ExplicitRK", 2, 1,
        <<0, Q(1, 2), 1>>,
        <<<<Q(1, 2)>>, <<Q(1, 256), Q(255, 256)>>, <<Q(1, 512), Q(255, 256), Q(1, 512)>>>>,
        <<Q(1, 512), 0, Q(-1, 512)>>)

RKBS32 ==
   [Adaptive("ExplicitRK", 3, 2,
        <<0, Q(1, 2), Q(3, 4), 1>>,
        <<<<Q(1, 2)>>, <<0, Q(3, 4)>>, <<Q(2, 9), Q(1, 3), Q(4, 9)>>,
          <<Q(2, 9), Q(1, 3), Q(4, 9)>>>>,
        <<Q(-5, 72), Q(1, 12), Q(1, 9), Q(-1, 8)>>)
        EXCEPT !.di =
        <<<<1, Q(-4, 3), Q(5, 9)>>, <<0, 1, Q(-2, 3)>>, <<0, Q(4, 3), Q(-8, 9)>>, <<0, Z(-1), 1>>>>]

RKF45 ==
    Adaptive("ExplicitRK", 5, 4,
        <<0, Q(1, 4), Q(3, 8), Q(12, 13), 1, Q(1, 2)>>,
        <<<<Q(1, 4)>>, <<Q(3, 32), Q(9, 32)>>, <<Q(1932, 2197), Q(-7200, 2197), Q(7296, 2197)>>,
          <<Q(439, 216), Z(-8), Q(3680, 513), Q(-845, 4104)>>,
          <<Q(-8, 27), 2, Q(-3544, 2565), Q(1859, 4104), Q(-11, 40)>>,
          <<Q(16, 135), 0, Q(6656, 12825), Q(28561, 56430), Q(-9, 50), Q(2, 55)>>>>,
        <<Q(1, 360), 0, Q(-128, 4275), Q(-2197, 75240), Q(1, 50), Q(2, 55)>>)

RKCK54 ==
    Adaptive("ExplicitRK", 5, 4,
        <<0, Q(1, 5), Q(3, 10), Q(3, 5), 1, Q(7, 8)>>,
        <<<<Q(1, 5)>>, <<Q(3, 40), Q(9, 40)>>, <<Q(3, 10), Q(-9, 10), Q(6, 5)>>,
          <<Q(-11, 54), Q(5, 2), Q(-70, 27), Q(35, 27)>>,
          <<Q(1631, 55296), Q(175, 512), Q(575, 13824), Q(44275, 110592), Q(253, 4096)>>,
          <<Q(37, 378), 0, Q(250, 621), Q(125, 594), 0, Q(512, 1771)>>>>,
        <<Q(-277, 64512), 0, Q(6925, 370944), Q(-6925, 202752), Q(-277, 14336), Q(277, 7084)>>)

RKDP54 ==
   [Adaptive("ExplicitRK", 5, 4,
        <<0, Q(1, 5), Q(3, 10), Q(4, 5), Q(8, 9), 1, 1>>,
        <<<<Q(1, 5)>>, <<Q(3, 40), Q(9, 40)>>, <<Q(44, 45), Q(-56, 15), Q(32, 9)>>,
          <<Q(19372, 6561), Q(-25360, 2187), Q(64448, 6561), Q(-212, 729)>>,
          <<Q(9017, 3168), Q(-355, 33), Q(46732, 5247), Q(49, 176), Q(-5103, 18656)>>,
          <<Q(35, 384), 0, Q(500, 1113), Q(125, 192), Q(-2187, 6784), Q(11, 84)>>,
          <<Q(35, 384), 0, Q(500, 1113), Q(125, 192), Q(-2187, 6784), Q(11, 84)>>>>,
        <<Q(71, 57600), 0, Q(-71, 16695), Q(71, 1920), Q(-17253, 339200), Q(22, 525), Q(-1, 40)>>)
        EXCEPT !.di =
        <<<<1, Over(Long(-8048581, -381), Long(2820520, 608)),
            Over(Long(8663915, 743), Long(2820520, 608)),
            Over(Long(-12715105, -75), Long(11282082, 432))>>,
          <<0, 0, 0, 0>>,
          <<0, Over(Long(131558114, 200), Long(32700410, 799)),
            Over(Long(-68118460, -800), Long(10900136, 933)),
            Over(Long(87487479, 700), Long(32700410, 799))>>,
          <<0, Q(-1754552775, 470086768), Over(Long(14199869, 525), Z(1410260304)),
            Over(Long(-10690763, -975), Z(1880347072))>>,
          <<0, Over(Long(127303824, 393), Long(49829197, 408)),
            Over(Long(-318862633, -887), Long(49829197, 408)),
            Over(Long(701980252, 875), Long(199316789, 632))>>,
          <<0, Q(-282668133, 205662961), Q(2019193451, 616988883), Q(-1453857185, 822651844)>>,
          <<0, Q(40617522, 29380423), Q(-110615467, 29380423), Q(69997945, 29380423)>>>>]

RKV65 ==
    Adaptive("ExplicitRK", 6, 5,
        <<0, Q(9, 50), Q(1, 6), Q(1, 4), Q(53, 100), Q(3, 5), Q(4, 5), 1, 1>>,
        <<<<Q(9, 50)>>, <<Q(29, 324), Q(25, 324)>>, <<Q(1, 16), 0, Q(3, 16)>>,
          <<Q(79129, 250000), 0, Q(-261237, 250000), Q(19663, 15625)>>,
          <<Q(1336883, 4909125), 0, Q(-25476, 30875), Q(194159, 185250), Q(8225, 78546)>>,
          <<Q(-2459386, 14727375), 0, Q(19504, 30875), Q(2377474, 13615875), Q(-6157250, 5773131),
            Q(902, 735)>>,
          <<Q(2699, 7410), 0, Q(-252, 1235), Q(-1393253, 3993990), Q(236875, 72618), Q(-135, 49),
            Q(15, 22)>>, <<Q(11, 144), 0, 0, Q(256, 693), 0, Q(125, 504), Q(125, 528), Q(5, 72)>>,
          <<Q(11, 144), 0, 0, Q(256, 693), 0, Q(125, 504), Q(125, 528), Q(5, 72)>>>>,
        <<Minus(Q(11, 144), Q(28, 477)), 0, 0, Minus(Q(256, 693), Q(212, 441)), Q(312500, 366177),
          Minus(Q(125, 504), Q(2125, 1764)), Q(125, 528), Minus(Q(5, 72), Q(-2105, 35532)),
          Q(-2995, 17766)>>)

RKF78 ==
    Adaptive("ExplicitRK", 7, 8,
        <<0, Q(2, 27), Q(1, 9), Q(1, 6), Q(5, 12), Q(1, 2), Q(5, 6), Q(1, 6), Q(2, 3), Q(1, 3), 1,
          0, 1>>,
        <<<<Q(2, 27)>>, <<Q(1, 36), Q(1, 12)>>, <<Q(1, 24), 0, Q(1, 8)>>,
          <<Q(5, 12), 0, Q(-25, 16), Q(25, 16)>>, <<Q(1, 20), 0, 0, Q(1, 4), Q(1, 5)>>,
          <<Q(-25, 108), 0, 0, Q(125, 108), Q(-65, 27), Q(125, 54)>>,
          <<Q(31, 300), 0, 0, 0, Q(61, 225), Q(-2, 9), Q(13, 900)>>,
          <<2, 0, 0, Q(-53, 6), Q(704, 45), Q(-107, 9), Q(67, 90), 3>>,
          <<Q(-91, 108), 0, 0, Q(23, 108), Q(-976, 135), Q(311, 54), Q(-19, 60), Q(17, 6),
            Q(-1, 12)>>,
          <<Q(2383, 4100), 0, 0, Q(-341, 164), Q(4496, 1025), Q(-301, 82), Q(2133, 4100),
            Q(45, 82), Q(45, 164), Q(18, 41)>>,
          <<Q(3, 205), 0, 0, 0, 0, Q(-6, 41), Q(-3, 205), Q(-3, 41), Q(3, 41), Q(6, 41)>>,
          <<Q(-1777, 4100), 0, 0, Q(-341, 164), Q(4496, 1025), Q(-289, 82), Q(2193, 4100),
            Q(51, 82), Q(33, 164), Q(12, 41), 0, 1>>,
          <<Q(41, 840), 0, 0, 0, 0, Q(34, 105), Q(9, 35), Q(9, 35), Q(9, 280), Q(9, 280),
            Q(41, 840)>>>>,
        <<Q(41, 840), 0, 0, 0, 0, 0, 0, 0, 0, 0, Q(41, 840), Q(-41, 840), Q(-41, 840)>>)

DIRK2 ==
   [Fixed("DIRK", 2,
        <<Q(1, 4), Q(3, 4)>>,
        <<<<Q(1, 4)>>, <<Q(1, 2), Q(1, 4)>>>>)
        EXCEPT !.final = <<Q(1, 2), Q(1, 2)>>]

DIRK3 ==
    Fixed("DIRK", 3,
        <<Q(1, 2), Q(2, 3), Q(1, 2), 1>>,
        <<<<Q(1, 2)>>, <<Q(1, 6), Q(1, 2)>>, <<Q(-1, 2), Q(1, 2), Q(1, 2)>>,
          <<Q(3, 2), Q(-3, 2), Q(1, 2), Q(1, 2)>>>>)

ESDIRK4 ==
    Fixed("ESDIRK", 4,
        <<0, Q(1, 2), Q(1, 6), Q(37, 40), Q(1, 2), 1>>,
        <<<<>>, <<Q(1, 4), Q(1, 4)>>, <<Q(-1, 36), Q(-1, 18), Q(1, 4)>>,
          <<Q(-21283, 32000), Q(-5143, 64000), Q(90909, 64000), Q(1, 4)>>,
          <<Q(46010759, 749250000), Q(-737693, 40500000), Q(10931269, 45500000),
            Q(-1140071, 34090875), Q(1, 4)>>,
          <<Q(89, 444), Q(89, 804756), Q(-27, 364), Q(-20000, 171717), Q(843750, 1140071),
            Q(1, 4)>>>>)

ESDIRK32 ==
    Adaptive("ESDIRK", 3, 2,
        <<0, 1, Q(3, 2), 1>>,
        <<<<>>, <<Q(1, 2), Q(1, 2)>>, <<Q(5, 8), Q(3, 8), Q(1, 2)>>,
          <<Q(7, 18), Q(1, 3), Q(-2, 9), Q(1, 2)>>>>,
        <<Q(-1, 9), Q(-1, 6), Q(-2, 9), Q(1, 2)>>)


\* The forward and the backward Euler method, as the code generator writes them.
EUF == Fixed("ExplicitRK", 1, <<0>>, <<<<1>>>>)
EUB == Fixed("DIRK", 1, <<1>>, <<<<1>>>>)

IsExplicit(t) == t.kind = "ExplicitRK"
IsAdaptive(t) == t.tr # <<>>
Stages(t) == Len(t.c)

-----------------------------------------------------------------------------
(* GEAR52A over a ring of past values and step widths with any ratios      *)
(* (src/solvers/bdf.rs, and the buffer, solve and step of gear52a_factory  *)
(* in src/solvers/factories.rs), and the interpolant through the same      *)
(* values (src/solvers/dense.rs).  past and dts list the newest first, as  *)
(* the rings do.                                                           *)

\* The solution of a regular linear system, the rows of A against b.
Solution(A, b) ==
    LET n == Len(b)
        Cleared(M, k) ==
            LET p == CHOOSE i \in k .. n : M[i][k] # 0
                inverse == Power(M[p][k], P - 2)
                pivot == Vector([j \in 1 .. n + 1 |-> Times(M[p][j], inverse)])
                Row(i) == IF i = p THEN M[k] ELSE M[i]
            IN  Vector([i \in 1 .. n |->
                    IF i = k THEN pivot
                    ELSE Vector([j \in 1 .. n + 1 |->
                         Minus(Row(i)[j], Times(Row(i)[k], pivot[j]))])])
        eliminated[k \in 0 .. n] ==
            IF k = 0 THEN Vector([i \in 1 .. n |-> Append(A[i], b[i])])
            ELSE Cleared(eliminated[k - 1], k)
        solved == eliminated[n]
    IN  Vector([i \in 1 .. n |-> solved[i][n + 1]])

\* A mutant of Distance: widths taken for equal.
EqualSteps(dts, i) == Z(i - 1)

\* How far the i-th past value is from the newest one, in units of the step.
Distance(dts, i) ==
    LET back[j \in 1 .. i] == IF j = 1 THEN 0 ELSE Plus(back[j - 1], dts[j])
    IN  Over(back[i], dts[1])

-----------------------------------------------------------------------------
\* Where the formula of an order reads the solution: now, and back to that many
\* past values, in units of the step.
Nodes(order, dts) ==
    Vector([j \in 1 .. order + 1 |-> IF j = 1 THEN 0 ELSE Minus(Z(-1), Distance(dts, j - 1))])

\* compute_bdf_alphas: the weights of those values in the slope at the end.
ComputeBdfAlphas(order, dts) ==
    IF Len(dts) < 2 THEN <<1, Z(-1)>>
    ELSE LET theta == Nodes(order, dts)
         IN  Solution(Vector([k \in 1 .. order + 1 |->
                                  Vector([j \in 1 .. order + 1 |-> Power(theta[j], k - 1)])]),
                      Vector([k \in 1 .. order + 1 |-> IF k = 2 THEN 1 ELSE 0]))

\* compute_bdf_coefficients: the same formula solved for the new value.
ComputeBdfCoefficients(order, dts) ==
    LET alphas == ComputeBdfAlphas(order, dts)
    IN  [beta |-> Over(1, alphas[1]),
         k    |-> Vector([j \in 1 .. order |-> Minus(0, Over(alphas[j + 1], alphas[1]))])]

NdfKappa == <<Q(-185, 1000), Q(-1, 9), Q(-823, 10000), Q(-415, 10000), 0>>

\* The weight of the slope in the corrector, the first element of its l-vector.
BetaNdf(order, dts) ==
    LET alphas == ComputeBdfAlphas(order, dts)
    IN  Over(1, Minus(alphas[1], Times(NdfKappa[order], alphas[order + 1])))

\* Nordsieck::init_from_history: the Taylor coefficients of the polynomial
\* through the newest order values; for order 1 init_first_step's constant.
FittedNordsieck(order, past, dts) ==
    IF order = 1 THEN <<past[1], 0>>
    ELSE Solution(Vector([j \in 1 .. order |->
                              Vector([i \in 1 .. order |->
                                         Power(Minus(0, Distance(dts, j)), i - 1)])]),
                  SubSeq(past, 1, order))

\* Nordsieck::predict: the i-th pass replaces what is behind i by suffix sums.
Predicted(z) ==
    LET n == Len(z)
        suffix(y) == LET s[j \in 1 .. n] == IF j = n THEN y[n] ELSE Plus(y[j], s[j + 1]) IN s
        passed[i \in 0 .. n] ==
            IF i = 0 THEN z
            ELSE LET before == passed[i - 1]
                     sums == suffix(before)
                 IN  Vector([j \in 1 .. n |-> IF j >= i THEN sums[j] ELSE before[j]])
    IN  passed[n - 1]

-----------------------------------------------------------------------------
\* What the corrector's equation leaves of the value x with the slope f.
CorrectorResidual(order, past, dts, x, f) ==
    LET z == IF order = 1 THEN FittedNordsieck(1, past, dts)
             ELSE Predicted(FittedNordsieck(order, past, dts))
        beta == BetaNdf(order, dts)
        g == Plus(Minus(z[1], Times(beta, z[2])), Times(Times(beta, dts[1]), f))
    IN  Minus(x, g)

\* The truncation residual of a plain formula, tr_m or tr_p.
TruncationResidual(order, past, dts, x, f) ==
    LET c == ComputeBdfCoefficients(order, dts)
    IN  Minus(x, Plus(Times(Times(c.beta, dts[1]), f), Dot(c.k, past)))

\* The step's own error: the slope against the predicted one.
StepError(order, past, dts, f) ==
    LET z == IF order = 1 THEN FittedNordsieck(1, past, dts)
             ELSE Predicted(FittedNordsieck(order, past, dts))
    IN  Times(Plus(NdfKappa[order], Q(1, order + 1)), Minus(Times(dts[1], f), z[2]))

\* interp_history: at the part theta of the step, on the polynomial through its
\* end x and the newest order values.
InterpHistory(order, past, dts, x, theta) ==
    LET tau == <<1>> \o Vector([j \in 1 .. order |-> Minus(0, Distance(dts, j))])
        value == <<x>> \o past
        weight(k) ==
            LET w[i \in 0 .. order + 1] ==
                    IF i = 0 THEN 1
                    ELSE IF i = k THEN w[i - 1]
                    ELSE Times(w[i - 1], Over(Minus(theta, tau[i]), Minus(tau[k], tau[i])))
            IN  w[order + 1]
    IN  Dot(Vector([k \in 1 .. order + 1 |-> weight(k)]), value)

=============================================================================
