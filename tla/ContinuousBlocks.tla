--------------------------- MODULE ContinuousBlocks ---------------------------
(***************************************************************************)
(* Blocks between events: those whose output is a formula in their input   *)
(* (core.rs, math_logic.rs and table.rs of src/blocks/constructors), the   *)
(* linear blocks (lti.rs, filters.rs), the other blocks with a state       *)
(* (core.rs, ctrl.rs, nonlinear.rs, sources.rs), and those whose memory    *)
(* only the closures have (discrete.rs, noise.rs, scope.rs).  Where there  *)
(* are two formulas, ...Native is the closure's and ...Build the region's; *)
(* ...Dyn is dx/dt.                                                        *)
(***************************************************************************)
EXTENDS DiscreteBlocks

Total(u) == FoldLeft(LAMBDA a, v : a + v, 0, u)
Multiplied(u) == FoldLeft(LAMBDA a, v : a * v, 1, u)
Elementwise(Op(_), u) == [i \in DOMAIN u |-> Op(u[i])]

-----------------------------------------------------------------------------
AmplifierEval(b, u) == Elementwise(LAMBDA v : v * b.gain, u)

\* Without operations a sum, else weighted, inputs beyond them by zero.
AdderEval(b, u) ==
    IF b.ops = <<>> THEN <<Total(u)>>
    ELSE <<Weighted([i \in DOMAIN u |-> IF i <= Len(b.ops) THEN b.ops[i] ELSE 0], u)>>

MultiplierEval(u) == <<Multiplied(u)>>

-----------------------------------------------------------------------------
(* Divider.  A quotient is kept as the pair of its terms; b.epsilon is the *)
(* machine's, in the unit the inputs are counted in.                       *)

OperationAt(b, i) == IF i <= Len(b.ops) THEN b.ops[i] ELSE 1

DividerBuild(b, u) ==
    LET of(sign) == LET chosen == SelectSeq([i \in DOMAIN u |-> <<OperationAt(b, i), u[i]>>],
                                            LAMBDA e : e[1] * sign > 0)
                    IN  Multiplied([i \in DOMAIN chosen |-> chosen[i][2]])
        num == IF b.ops = <<>> THEN Multiplied(u) ELSE of(1)
        raw == IF b.ops = <<>> THEN 1 ELSE of(-1)
        signed == IF raw < 0 THEN -b.epsilon ELSE b.epsilon
        small == raw < b.epsilon /\ -raw < b.epsilon
    IN  <<<<num, IF b.zeroDiv = "clamp" /\ small THEN signed ELSE raw>>>>

\* The closure goes through the inputs once; "raise" records a fault, asks the
\* run to stop and goes on with one.
DividerNative(b, u) ==
    LET step(acc, i) ==
            CASE OperationAt(b, i) > 0 -> [acc EXCEPT !.num = @ * u[i]]
              [] OperationAt(b, i) < 0 -> [acc EXCEPT !.den = @ * u[i]]
              [] OTHER -> acc
        parts == FoldLeft(step, [num |-> 1, den |-> 1], [i \in DOMAIN u |-> i])
        den == CASE b.zeroDiv = "raise" /\ parts.den = 0 -> 1
                 [] b.zeroDiv = "clamp" /\ parts.den = 0 -> b.epsilon
                 [] b.zeroDiv = "clamp" /\ parts.den > 0 -> Larger(parts.den, b.epsilon)
                 [] b.zeroDiv = "clamp" /\ parts.den < 0 -> Smaller(parts.den, -b.epsilon)
                 [] OTHER -> parts.den
    IN  IF b.ops = <<>> THEN <<<<Multiplied(u), 1>>>> ELSE <<<<parts.num, den>>>>

DividerFaults(b, u) ==
    /\ b.zeroDiv = "raise"
    /\ \E i \in DOMAIN u : OperationAt(b, i) < 0 /\ u[i] = 0

-----------------------------------------------------------------------------
(* Elementwise functions of math_logic.rs, over integers.  A remainder has *)
(* the sign of the dividend, as in the processor.                          *)

Magnitude(v) == IF v < 0 THEN -v ELSE v
Remainder(v, m) ==
    LET r == Magnitude(v) % Magnitude(m) IN IF v < 0 THEN -r ELSE r

AbsEval(u) == Elementwise(Magnitude, u)
PowEval(b, u) == Elementwise(LAMBDA v : v ^ b.exponent, u)
ClipEval(b, u) == Elementwise(LAMBDA v : Clamp(v, b.min, b.max), u)
RescaleEval(b, u) ==
    Elementwise(LAMBDA v : LET y == v * b.scale + b.offset
                           IN  IF b.saturate THEN Clamp(y, b.outLo, b.outHi) ELSE y, u)
ModBlock(u) == <<IF u[2] # 0 THEN Remainder(u[1], u[2]) ELSE 0>>
ModSingleEval(b, u) ==
    Elementwise(LAMBDA v : LET r == Remainder(v, b.modulus)
                           IN  IF r < 0 THEN r + Magnitude(b.modulus) ELSE r, u)

\* The square of the norm: the root is monotone.
NormEval(u) == <<Weighted(u, u)>>

PolynomialEval(b, u) ==
    Elementwise(LAMBDA v : FoldLeft(LAMBDA y, c : y * v + c, 0, b.coeffs), u)

PowProdEval(b, u) ==
    <<Multiplied([i \in 1 .. Smaller(Len(u), Len(b.powers)) |-> u[i] ^ b.powers[i]])>>

\* The region skips coefficients that are zero.
MatrixEval(b, u) ==
    [r \in DOMAIN b.M |->
        LET used == SelectSeq([c \in 1 .. Smaller(Len(b.M[r]), Len(u)) |-> c],
                              LAMBDA c : b.M[r][c] # 0)
        IN  Weighted([k \in DOMAIN used |-> b.M[r][used[k]]], [k \in DOMAIN used |-> u[used[k]]])]
MatrixInto(b, u) ==
    [r \in DOMAIN b.M |->
        LET cc == Smaller(Len(b.M[r]), Len(u))
        IN  Weighted(SubSeq(b.M[r], 1, cc), SubSeq(u, 1, cc))]

-----------------------------------------------------------------------------
(* Logic: true is one; an input is true when it is not zero.               *)

One(c) == IF c THEN 1 ELSE 0
GreaterThan(u) == <<One(u[1] > u[2])>>
LessThan(u) == <<One(u[1] < u[2])>>
LogicAnd(u) == <<One(Magnitude(u[1]) > 0) * One(Magnitude(u[2]) > 0)>>
LogicOr(u) == <<Larger(One(Magnitude(u[1]) > 0), One(Magnitude(u[2]) > 0))>>
EqualBuild(b, u) == <<One(Magnitude(u[1] - u[2]) < b.tolerance)>>
LogicNot(u) == <<1 - One(Magnitude(u[1]) > 0)>>
AliasEval(u) == <<u[1]>>

-----------------------------------------------------------------------------
(* LUT1D.  Slopes are whole numbers here, so that lines are exact.         *)

Segment(b, i, x) ==
    b.values[i]
        + ((x - b.points[i]) * (b.values[i + 1] - b.values[i])) \div (b.points[i + 1] - b.points[i])

\* The last segment whose left end is not beyond x.
Lut1dBuild(b, x) ==
    LET n == Len(b.points)
        y == FoldLeft(LAMBDA a, j : IF x >= b.points[j] THEN Segment(b, j, x) ELSE a,
                      Segment(b, 1, x), [j \in 1 .. n - 2 |-> j + 1])
    IN  CASE b.clamp /\ x > b.points[n] -> b.values[n]
          [] b.clamp /\ x < b.points[1] -> b.values[1]
          [] OTHER -> y

Lut1dFresh == [last |-> 1]

\* The segment used last is tried first; it is a hint that survives a reset.
Lut1dNative(b, m, x) ==
    LET n == Len(b.points)
        hit == x >= b.points[m.last] /\ x <= b.points[m.last + 1]
        upTo == Cardinality({k \in 1 .. n : b.points[k] <= x})
        i == IF hit THEN m.last ELSE Clamp(upTo, 1, n - 1)
        y == CASE b.clamp /\ x < b.points[1] -> b.values[i]
               [] b.clamp /\ x > b.points[n] -> b.values[n - 1] + (b.values[n] - b.values[n - 1])
               [] OTHER -> Segment(b, i, x)
    IN  [mem |-> [last |-> i], y |-> <<y>>]

-----------------------------------------------------------------------------
(* Linear blocks: how a transfer function, given as two polynomials, by its*)
(* roots or by poles and residues, becomes matrices A, B, C and D, and what*)
(* a StateSpace does with them.  Complex numbers are pairs of integers;    *)
(* polynomials have the highest power first.                               *)

RealPart(z) == z[1]
ImagPart(z) == z[2]
Conj(z) == <<z[1], -z[2]>>
CAdd(z, w) == <<z[1] + w[1], z[2] + w[2]>>
CMul(z, w) == <<z[1] * w[1] - z[2] * w[2], z[1] * w[2] + z[2] * w[1]>>

-----------------------------------------------------------------------------
\* normalize_tf: monic denominator, numerator padded to its length.
NormalizeTf(num, den) ==
    [den |-> [i \in DOMAIN den |-> den[i] \div den[1]],
     num |-> Zeros(Len(den) - Len(num)) \o [i \in DOMAIN num |-> num[i] \div den[1]]]

\* tf2ss_scipy_raw: the controllable form, the newest state first.
Tf2ss(num, den) ==
    LET n == Len(den) - 1
    IN  [A |-> [i \in 1 .. n |-> [j \in 1 .. n |->
                   IF i = 1 THEN -den[j + 1] ELSE IF j = i - 1 THEN 1 ELSE 0]],
         B |-> [i \in 1 .. n |-> <<IF i = 1 THEN 1 ELSE 0>>],
         C |-> <<[i \in 1 .. n |-> num[i + 1] - num[1] * den[i + 1]]>>,
         D |-> <<<<num[1]>>>>]

\* transfer_function_num_den; without a pole it is a gain, on no state.
TransferFunctionNumDen(num, den) ==
    IF Len(den) = 1
    THEN [A |-> <<>>, B |-> <<>>, C |-> <<<<>>>>,
          D |-> <<<<IF den[1] # 0 THEN num[1] \div den[1] ELSE 0>>>>]
    ELSE LET tf == NormalizeTf(num, den) IN Tf2ss(tf.num, tf.den)

\* discrete_transfer_function: a gain keeps one idle state.
DiscreteTransferFunction(num, den) ==
    IF Len(den) = 1
    THEN [A |-> <<<<0>>>>, B |-> <<<<0>>>>, C |-> <<<<0>>>>,
          D |-> <<<<IF den[1] # 0 THEN num[1] \div den[1] ELSE 0>>>>]
    ELSE LET tf == NormalizeTf(num, den) IN Tf2ss(tf.num, tf.den)

\* poly_from_complex_roots, for roots whose conjugates are among them.
PolyFromComplexRoots(roots) ==
    LET times(poly, r) ==
            [i \in 1 .. Len(poly) + 1 |->
                CAdd(IF i <= Len(poly) THEN poly[i] ELSE <<0, 0>>,
                     IF i > 1 THEN CMul(<<-r[1], -r[2]>>, poly[i - 1]) ELSE <<0, 0>>)]
        poly == FoldLeft(times, <<<<1, 0>>>>, roots)
    IN  [i \in DOMAIN poly |-> RealPart(poly[i])]

TransferFunctionZpg(zeros, poles, gain) ==
    LET num == PolyFromComplexRoots(zeros)
    IN  TransferFunctionNumDen([i \in DOMAIN num |-> num[i] * gain],
                               PolyFromComplexRoots(poles))

-----------------------------------------------------------------------------
(* gilbert_realization: poles and residue matrices.                        *)

\* Real poles as they come, complex ones once, each followed by its conjugate.
NormalizedPoles(poles, residues) ==
    LET known(acc, z) == \E k \in DOMAIN acc : acc[k].pole = z
        real(r) == [row \in DOMAIN r |-> [c \in DOMAIN r[row] |-> <<RealPart(r[row][c]), 0>>]]
        conj(r) == [row \in DOMAIN r |-> [c \in DOMAIN r[row] |-> Conj(r[row][c])]]
        added(acc, z, r) == IF known(acc, z) THEN acc ELSE Append(acc, [pole |-> z, residue |-> r])
    IN  FoldLeft(LAMBDA acc, k :
            LET p == poles[k]
                r == residues[k]
            IN  IF ImagPart(p) = 0 THEN Append(acc, [pole |-> p, residue |-> real(r)])
                ELSE added(added(acc, p, r), Conj(p), conj(r)),
            <<>>, [k \in DOMAIN poles |-> k])

\* One copy of the poles for every input; a conjugate pair is a block of two.
GilbertRealization(poles, residues, constant, rows, ins) ==
    LET modes == NormalizedPoles(poles, residues)
        N == Len(modes)
        pole(k) == modes[k].pole
        second(k) == /\ k > 1
                     /\ ImagPart(pole(k)) # 0
                     /\ pole(k) = Conj(pole(k - 1))
        first(k) == k < N /\ second(k + 1)
        small(i, j) ==
            CASE i = j -> RealPart(pole(i))
              [] j = i - 1 /\ second(i) -> -ImagPart(pole(i))
              [] j = i + 1 /\ second(j) -> ImagPart(pole(j))
              [] OTHER -> 0
        weight(k) == IF second(k) THEN 0 ELSE IF first(k) THEN 2 ELSE 1
        copy(s) == ((s - 1) \div N) + 1
        mode(s) == ((s - 1) % N) + 1
    IN  [A |-> [s \in 1 .. ins * N |-> [z \in 1 .. ins * N |->
                   IF copy(s) = copy(z) THEN small(mode(s), mode(z)) ELSE 0]],
         B |-> [s \in 1 .. ins * N |-> [i \in 1 .. ins |->
                   IF copy(s) = i THEN weight(mode(s)) ELSE 0]],
         C |-> [r \in 1 .. rows |-> [s \in 1 .. ins * N |->
                   LET e == modes[mode(s)].residue[r][copy(s)]
                   IN  IF second(mode(s)) THEN ImagPart(e) ELSE RealPart(e)]],
         D |-> [r \in 1 .. rows |-> [i \in 1 .. ins |->
                   IF Len(constant) = 1 THEN constant[1] ELSE constant[(r - 1) * ins + i]]]]

-----------------------------------------------------------------------------
(* StateSpace: what the closures compute streams over whole rows, the      *)
(* region collects the coefficients that are not zero.                     *)

AffineInto(M, N, x, u) == [r \in DOMAIN M |-> Weighted(M[r], x) + Weighted(N[r], u)]

AffineEval(M, N, x, u) ==
    LET terms(m, v) == SelectSeq([j \in DOMAIN m |-> <<m[j], v[j]>>], LAMBDA p : p[1] # 0)
        row(r) == terms(M[r], x) \o terms(N[r], u)
    IN  [r \in DOMAIN M |-> FoldLeft(LAMBDA a, p : a + p[1] * p[2], 0, row(r))]

-----------------------------------------------------------------------------
(* Blocks with a state.                                                    *)

IntegratorDyn(u) == u

RateLimiterDyn(b, x, u) == <<Clamp(b.fmax * (u[1] - x[1]), -b.rate, b.rate)>>

BacklashDyn(b, x, u) ==
    LET gap == u[1] - x[1]
    IN  <<b.fmax * (gap - Clamp(gap, -b.half, b.half))>>

\* Differentiator: the state chases the input, its rate is the output.
DiffEval(b, x, u) == <<b.fmax * (u[1] - x[1])>>

AwpidY(b, x, u) == b.kp * u[1] + b.ki * x[2] + b.kd * b.fmax * (u[1] - x[1])

\* What the limits cut off is fed back into the integral.
AwpidDyn(b, x, u) ==
    LET y == AwpidY(b, x, u)
    IN  <<b.fmax * (u[1] - x[1]), u[1] - b.ks * (y - Clamp(y, b.lo, b.hi))>>

\* The chirp's frequency, a triangle in the time, times two periods.
ChirpDyn(b, t) ==
    LET part == t % b.period
    IN  <<2 * b.period * b.f0 + b.bw * 2 * Smaller(part, b.period - part)>>

\* The output is the sinusoid of the phase, kept as its argument.
ChirpAlg(b, x) == <<<<"sine", b.amplitude, x[1]>>>>

-----------------------------------------------------------------------------
(* Named linear blocks as matrices.  b.rate is 1/T, a whole number.        *)

LeadLag(b) ==
    [A |-> <<<<-b.rate>>>>, B |-> <<<<b.rate>>>>,
     C |-> <<<<b.gain * (1 - b.t1 * b.rate)>>>>, D |-> <<<<b.gain * b.t1 * b.rate>>>>]

Pid(b) ==
    [A |-> <<<<-b.fmax, 0>>, <<0, 0>>>>, B |-> <<<<b.fmax>>, <<1>>>>,
     C |-> <<<<-b.kd * b.fmax, b.ki>>>>, D |-> <<<<b.kd * b.fmax + b.kp>>>>]

Pt1(b) == [A |-> <<<<-b.rate>>>>, B |-> <<<<b.gain * b.rate>>>>, C |-> <<<<1>>>>, D |-> <<<<0>>>>]

Pt2(b) ==
    [A |-> <<<<0, 1>>, <<-b.rate * b.rate, -2 * b.damping * b.rate>>>>,
     B |-> <<<<0>>, <<b.gain * b.rate * b.rate>>>>, C |-> <<<<1, 0>>>>, D |-> <<<<0>>>>]

\* A prototype for the frequency one, then A and B times the frequency.
ProtoThenScale(num, den, omega) ==
    IF Len(den) = 1 THEN TransferFunctionNumDen(num, den)
    ELSE LET tf == NormalizeTf(num, den)
             ss == Tf2ss(tf.num, tf.den)
             scaled(M) == [r \in DOMAIN M |-> [c \in DOMAIN M[r] |-> omega * M[r][c]]]
         IN  [ss EXCEPT !.A = scaled(ss.A), !.B = scaled(ss.B)]

Convolve(p, q) ==
    [k \in 1 .. Len(p) + Len(q) - 1 |->
        Weighted([i \in DOMAIN p |-> p[i]],
                 [i \in DOMAIN p |-> IF k - i + 1 \in DOMAIN q THEN q[k - i + 1] ELSE 0])]

\* Filters of the first order, whose prototype has the one pole -1; poles of
\* a higher order are not whole numbers.
ButterLowpass(omega) == ProtoThenScale(<<1>>, PolyFromComplexRoots(<<<<-1, 0>>>>), omega)
ButterHighpass(omega) == ProtoThenScale(<<1, 0>>, PolyFromComplexRoots(<<<<-1, 0>>>>), omega)

\* A root of the discriminant must be whole for the poles to be.
ButterBandpass(lo, hi) ==
    LET half == (hi - lo) \div 2
        disc == CHOOSE d \in 0 .. half : d * d = half * half - lo * hi
    IN  TransferFunctionNumDen(<<0, hi - lo, 0>>,
            PolyFromComplexRoots(<<<<-half + disc, 0>>, <<-half - disc, 0>>>>))

AllpassFilter(omega, n) ==
    LET power(p) == FoldLeft(LAMBDA q, i : Convolve(q, p), p, [i \in 1 .. n - 1 |-> i])
    IN  ProtoThenScale(power(<<-1, 1>>), power(<<1, 1>>), omega)

-----------------------------------------------------------------------------
(* AdaptiveBuffer, the history of a Delay without a sampling period.       *)

Safety == 5         \* DELAY_BUFFER_SAFETY

BufferFresh == [times |-> <<>>, frames |-> <<>>]

\* A sample of another width begins anew; of those older than the delay,
\* Safety are kept.
BufferAdd(b, m, u, t) ==
    LET same == m.frames # <<>> /\ Len(Head(m.frames)) = Len(u)
        times == Append(IF same THEN m.times ELSE <<>>, t)
        frames == Append(IF same THEN m.frames ELSE <<>>, u)
        droppable(k) == Len(times) - k > Safety /\ t - times[k + Safety + 1] > b.tau
        drop == CHOOSE k \in 0 .. Len(times) : /\ ~droppable(k)
                                               /\ \A j \in 0 .. k - 1 : droppable(j)
    IN  [times |-> SubSeq(times, drop + 1, Len(times)),
         frames |-> SubSeq(frames, drop + 1, Len(frames))]

\* The signal at t - tau: zero, on the first channel, up to the first sample,
\* the last sample after the last, linear in between.
BufferGet(b, m, out, t) ==
    LET target == t - b.tau
        n == Len(m.times)
        i == CHOOSE k \in 1 .. n : m.times[k] >= target /\ \A j \in 1 .. k - 1 : m.times[j] < target
        between(v, w) == v + ((w - v) * (target - m.times[i - 1])) \div (m.times[i] - m.times[i - 1])
    IN  IF n = 0 THEN HeldVecUpdate(out, <<0>>)
        ELSE IF target <= m.times[1] THEN HeldVecUpdate(out, <<0>>)
        ELSE IF target >= m.times[n] THEN HeldVecUpdate(out, m.frames[n])
        ELSE HeldVecUpdate(out, [c \in DOMAIN m.frames[i] |->
                                    between(m.frames[i - 1][c], m.frames[i][c])])

-----------------------------------------------------------------------------
(* PinkNoise, sampled.  Draw(k) stands for the k-th number of the stream,  *)
(* which repeats after Stream numbers; the scale of the sum is left out.   *)

Stream == 11
Draw(k) == ((7 * k * k + 3 * k) % Stream) - 5

\* WhiteNoise and RandomNumberGenerator, sampled: a number for each interval.
KeyedNoise(b, t) == Draw(t \div b.period + b.phase)

TrailingZeros(n, most) ==
    CHOOSE z \in 0 .. most : n % 2^z = 0 /\ (z = most \/ n % 2^(z + 1) # 0)

Octaves(b, drawn) == [k \in 1 .. b.octaves |-> Draw(drawn + k)]

\* generate_pink_sample: one octave is drawn again, the sum is the sample.
PinkSample(b, m) ==
    LET k == TrailingZeros(m.samples + 1, b.octaves - 1) + 1
        octaves == [m.octaves EXCEPT ![k] = Draw(m.drawn + 1)]
    IN  [octaves |-> octaves, samples |-> m.samples + 1, drawn |-> (m.drawn + 1) % Stream,
         held |-> <<FoldLeft(LAMBDA a, v : a + v, 0, octaves)>>]

\* A constructed source has already taken one sample, a reset one has not.
PinkFresh(b) ==
    PinkSample(b, [octaves |-> Octaves(b, 0), samples |-> 0, drawn |-> b.octaves, held |-> <<0>>])

PinkReset(b, m) ==
    [octaves |-> Octaves(b, m.drawn), samples |-> 0, drawn |-> (m.drawn + b.octaves) % Stream, held |-> <<0>>]

-----------------------------------------------------------------------------
(* Scope: the recording and the place the next incremental read begins.    *)

ScopeFresh == [times |-> <<>>, frames |-> <<>>, read |-> 0, given |-> <<>>]

\* record: no two samples of one time.
Record(m, u, t) ==
    IF m.times # <<>> /\ Last(m.times) = t THEN m
    ELSE [m EXCEPT !.times = Append(@, t), !.frames = Append(@, u)]

\* scope_read_incremental; given is what its callers have got so far.
ReadIncremental(m) ==
    LET from == Smaller(m.read, Len(m.times))
    IN  [m EXCEPT !.read = Len(m.times),
                  !.given = @ \o SubSeq(m.frames, from + 1, Len(m.frames))]

===============================================================================
