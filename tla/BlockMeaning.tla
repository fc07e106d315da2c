------------------------------ MODULE BlockMeaning ------------------------------
(***************************************************************************)
(* What the blocks of BlockRun are for: each output as a function of the   *)
(* whole history of the input, without any memory in between.              *)
(***************************************************************************)
EXTENDS BlockRun

Latest == Len(log)
Y == log[Latest].y
T == log[Latest].t
U(j) == IF j \in 1 .. Latest THEN log[j].u ELSE Zeros(Width(b))
Out(j) == IF j \in 1 .. Latest THEN log[j].y[1] ELSE 0

\* The sum of f over a stretch of integers, which may be empty.
Sum1(f) == MapThenSumSet(LAMBDA i : f[i], DOMAIN f)

\* The inputs at a sampled block's ticks, and zero before the first.
Samples == SelectSeq(log, LAMBDA e : TickAt(Periodic(b.period, b.phase), e.t))
Ticks == Len(Samples)
S(j) == IF j \in 1 .. Ticks THEN Samples[j].u ELSE Zeros(Width(b))

\* A block whose output is, channel by channel, a function of the samples.
Channelwise(f) == Widened(Y, Width(b)) = [c \in 1 .. Width(b) |-> f[c]]

-----------------------------------------------------------------------------
Nearest(t, period) == Smaller(t % period, period - (t % period))

\* Sampled blocks.
DelayMeaning == Channelwise([c \in 1 .. Width(b) |-> S(Ticks - DelayFrames(b))[c]])
SampleHoldMeaning == Channelwise(S(Ticks))
WrapperMeaning == Y = IF Ticks = 0 THEN <<0>> ELSE Wrapped(S(Ticks))

FirMeaning ==
    Channelwise([c \in 1 .. Width(b) |->
        Sum1([i \in DOMAIN b.coeffs |-> b.coeffs[i] * S(Ticks + 1 - i)[c]])])

\* The code is the number of levels at or below the input.
AdcMeaning ==
    LET span == b.hi - b.lo
        code == Cardinality({c \in 1 .. 2^b.bits - 1 : 2^b.bits * (S(Ticks)[1] - b.lo) >= c * span})
    IN  /\ Len(Y) = b.bits
        /\ \A i \in 1 .. b.bits : Y[i] \in {0, 1}
        /\ Ticks > 0 => Sum1([i \in 1 .. b.bits |-> Y[i] * 2^(i - 1)]) = code

DacMeaning ==
    LET code == Sum1([i \in 1 .. b.bits |-> IF S(Ticks)[i] > 0 THEN 2^(i - 1) ELSE 0])
    IN  Ticks > 0 => (Y[1] - b.lo) * (2^b.bits - 1) = (b.hi - b.lo) * code

FirstOrderHoldMeaning ==
    LET line(p, q) == q + ((q - p) * (T - Samples[Ticks].t)) \div b.period
    IN  Channelwise([c \in 1 .. Width(b) |->
            IF Ticks < 2 THEN S(Ticks)[c] ELSE line(S(Ticks - 1)[c], S(Ticks)[c])])

IntegratorZMeaning ==
    Channelwise([c \in 1 .. Width(b) |->
        b.initial[c] + b.period * Sum1([i \in 1 .. Ticks - 1 |-> S(i)[c]])])

DerivativeZMeaning ==
    Channelwise([c \in 1 .. Width(b) |-> (S(Ticks)[c] - S(Ticks - 1)[c]) \div b.period])

TappedDelayMeaning == \A i \in 1 .. b.taps : Y[i] = S(Ticks + 1 - i)[1]

\* The difference equation of a transfer function, between the ticks' outputs.
StateSpaceZMeaning ==
    LET ticks == SelectSeq(log, LAMBDA e : TickAt(Periodic(b.period, b.phase), e.t))
        y(j) == IF j \in 1 .. Ticks THEN ticks[j].y[1] ELSE 0
        order == Len(b.den)
        padded == Zeros(order - Len(b.num)) \o b.num
    IN  Ticks > 0 => Sum1([i \in 1 .. order |-> b.den[i] * y(Ticks + 1 - i)])
                     = Sum1([i \in 1 .. order |-> padded[i] * S(Ticks + 1 - i)[1]])

-----------------------------------------------------------------------------
\* Switched blocks.

SwitchMeaning ==
    LET p == log[Latest].route + 1
    IN  Y[1] = IF p \in DOMAIN U(Latest) THEN U(Latest)[p] ELSE 0

\* On since the input last went above the upper threshold, having been below.
RelayMeaning ==
    LET on == \E j \in 2 .. Latest : /\ U(j)[1] > b.up
                                /\ U(j - 1)[1] < b.up
                                /\ \A l \in j .. Latest : U(l)[1] > b.down
    IN  Y[1] = IF on THEN b.valueUp ELSE b.valueDown

CounterMeaning ==
    LET r(j) == U(j)[1] - b.threshold
        up(j) == r(j - 1) < 0 /\ r(j) >= 0
        down(j) == r(j - 1) > 0 /\ r(j) <= 0
        counted(j) == (b.direction # "down" /\ up(j)) \/ (b.direction # "up" /\ down(j))
    IN  Y[1] = b.start + Cardinality({j \in 2 .. Latest : counted(j)})

StepSourceMeaning ==
    LET passed == {i \in DOMAIN b.times : b.times[i] <= T}
    IN  Y[1] = IF passed = {} THEN 0 ELSE b.amplitudes[Cardinality(passed)]

\* A trapezoid: the lower of the rising and the falling line, within 0 and 1.
PulseSourceMeaning ==
    LET p == (T - b.tau) % b.period
        off == b.rise + b.plateau + b.fall
        up == IF b.rise = 0 THEN b.amplitude ELSE (b.amplitude * p) \div b.rise
        down == IF p >= off THEN 0
                ELSE IF b.fall = 0 THEN b.amplitude ELSE (b.amplitude * (off - p)) \div b.fall
    IN  Y[1] = IF T < b.tau THEN 0 ELSE Smaller(b.amplitude, Smaller(up, down))

\* The second half of a period is the first turned over.
SquareMeaning == \E i \in 0 .. T + b.tau :
    LET p == T + b.tau - i * b.period
    IN  \/ 0 <= 2 * p /\ 2 * p < b.period /\ Y[1] = b.amplitude
        \/ b.period <= 2 * p /\ p < b.period /\ Y[1] = -b.amplitude

TriangleMeaning == b.period * (Y[1] + b.amplitude) = 2 * b.amplitude * Nearest(T + b.tau, b.period)

-----------------------------------------------------------------------------
\* Blocks with a state, under explicit Euler with the step one.

\* The m-th difference of a sequence given as a function, from its place j.
Binomial == [m \in 0 .. 4 |-> [i \in 0 .. m |->
    CASE m = 0 -> 1 [] i = 0 \/ i = m -> 1
      [] m = 2 -> 2 [] m = 3 -> 3 [] m = 4 -> IF i = 2 THEN 6 ELSE 4]]
Difference(f, m, j) ==
    Sum1([i \in 0 .. m |-> (IF (m - i) % 2 = 0 THEN 1 ELSE -1) * Binomial[m][i] * f[j + i]])

\* den(d/dt) y = sum of num_c(d/dt) u_c, with a difference for d/dt.
LinearMeaning ==
    LET order == Len(b.den) - 1
        past == [y |-> [j \in -order .. Latest |-> [r \in 1 .. Len(b.ss.C) |->
                           IF j >= 1 THEN log[j].y[r] ELSE 0]],
                 u |-> [j \in -order .. Latest |-> U(j)]]
        side(poly, f) == Sum1([i \in 1 .. order + 1 |->
                                  poly[i] * Difference(f, order + 1 - i, Latest - order)])
    IN  \A r \in 1 .. Len(b.ss.C) :
            side(b.den, [j \in -order .. Latest |-> past.y[j][r]])
                = Sum1([c \in 1 .. Width(b) |->
                          side(b.nums[r][c], [j \in -order .. Latest |-> past.u[j][c]])])

IntegratorMeaning ==
    \A c \in 1 .. Width(b) : Y[c] = b.initial[c] + Sum1([j \in 1 .. Latest - 1 |-> U(j)[c]])

\* One step: all the way to the input, or as far as the rate allows.
RateLimiterMeaning ==
    LET gap == U(Latest - 1)[1] - Out(Latest - 1)
        reached == Magnitude(gap) <= b.rate /\ Out(Latest) = U(Latest - 1)[1]
        rising == gap > b.rate /\ Out(Latest) = Out(Latest - 1) + b.rate
        falling == -gap > b.rate /\ Out(Latest) = Out(Latest - 1) - b.rate
    IN  Latest > 1 => reached \/ rising \/ falling

\* Pushed along by the edge of the play, and otherwise at rest.
BacklashMeaning ==
    LET gap == U(Latest - 1)[1] - Out(Latest - 1)
    IN  Latest > 1 => IF Magnitude(gap) <= b.half THEN Out(Latest) = Out(Latest - 1)
                 ELSE Magnitude(U(Latest - 1)[1] - Out(Latest)) = b.half

DifferentiatorMeaning == Out(Latest) = U(Latest)[1] - U(Latest - 1)[1]

AntiWindupMeaning ==
    LET excess(j) == Out(j) - Clamp(Out(j), b.lo, b.hi)
        integral == Sum1([j \in 1 .. Latest - 1 |-> U(j)[1] - b.ks * excess(j)])
    IN  Out(Latest) = b.kp * U(Latest)[1] + b.ki * integral + b.kd * (U(Latest)[1] - U(Latest - 1)[1])

\* Equal to the signal tau ago, on the line between two samples.
DelayContinuousMeaning ==
    LET target == T - b.tau
        hits(j) == log[j].t <= target /\ target < log[j].t + b.dt
        value(j, c) == U(j)[c] + ((U(j + 1)[c] - U(j)[c]) * (target - log[j].t)) \div b.dt
    IN  Channelwise([c \in 1 .. Width(b) |->
            IF target <= 0 THEN 0 ELSE value(CHOOSE j \in 1 .. Latest : hits(j), c)])

-----------------------------------------------------------------------------
\* Tables, noise and recordings.

\* On the line through two neighbouring points, the outer ones prolonged.
Lut1dMeaning ==
    LET last == Len(b.points)
        x == IF b.clamp THEN Clamp(U(Latest)[1], b.points[1], b.points[last]) ELSE U(Latest)[1]
    IN  \E i \in 1 .. last - 1 :
            /\ x >= b.points[i] \/ i = 1
            /\ x <= b.points[i + 1] \/ i = last - 1
            /\ (Y[1] - b.values[i]) * (b.points[i + 1] - b.points[i])
                   = (x - b.points[i]) * (b.values[i + 1] - b.values[i])

\* Each octave shows the number drawn at the latest sample that was its turn,
\* counted back from the end of the stream; never drawn since, its first one.
PinkNoiseMeaning ==
    LET m == native.m
        turn(j) == TrailingZeros(j, b.octaves - 1) + 1
        drawn(o) == {j \in 1 .. m.samples : turn(j) = o}
        start == m.drawn - m.samples
        value(o) == IF drawn(o) = {} THEN Draw(start - b.octaves + o)
                    ELSE Draw(start + (CHOOSE j \in drawn(o) : \A i \in drawn(o) : i <= j))
    IN  /\ m.samples >= Ticks
        /\ Y[1] = Sum1([o \in 1 .. b.octaves |-> value(o)])

\* A recording is the log from the waiting time on, one entry per time, and
\* whoever reads it piece by piece gets every entry once and in order.
ScopeMeaning ==
    LET due(e) == IF b.kind = "scope" THEN e.t >= b.wait
                  ELSE TickAt(Periodic(b.period, b.phase), e.t)
        expected == SelectSeq(log, due)
        m == native.m
    IN  /\ m.times = [i \in DOMAIN expected |-> expected[i].t]
        /\ m.frames = [i \in DOMAIN expected |-> expected[i].u]
        /\ m.given = SubSeq(m.frames, 1, m.read)

Meaning ==
    CASE b.kind = "delay" -> DelayMeaning
      [] b.kind = "sample_hold" -> SampleHoldMeaning
      [] b.kind = "wrapper" -> WrapperMeaning
      [] b.kind = "fir" -> FirMeaning
      [] b.kind = "adc" -> AdcMeaning
      [] b.kind = "dac" -> DacMeaning
      [] b.kind = "first_order_hold" -> FirstOrderHoldMeaning
      [] b.kind = "integrator_z" -> IntegratorZMeaning
      [] b.kind = "derivative_z" -> DerivativeZMeaning
      [] b.kind = "state_space_z" -> StateSpaceZMeaning
      [] b.kind = "tapped_delay" -> TappedDelayMeaning
      [] b.kind = "switch" -> SwitchMeaning
      [] b.kind = "relay" -> RelayMeaning
      [] b.kind = "counter" -> CounterMeaning
      [] b.kind = "step_source" -> StepSourceMeaning
      [] b.kind = "pulse_source" -> PulseSourceMeaning
      [] b.kind = "square" -> SquareMeaning
      [] b.kind = "triangle" -> TriangleMeaning
      [] b.kind = "linear" -> LinearMeaning
      [] b.kind = "integrator" -> IntegratorMeaning
      [] b.kind = "rate_limiter" -> RateLimiterMeaning
      [] b.kind = "backlash" -> BacklashMeaning
      [] b.kind = "differentiator" -> DifferentiatorMeaning
      [] b.kind = "anti_windup" -> AntiWindupMeaning
      [] b.kind = "delay_continuous" -> DelayContinuousMeaning
      [] b.kind = "lut1d" -> Lut1dMeaning
      [] b.kind = "pink_noise" -> PinkNoiseMeaning
      [] b.kind \in {"scope", "scope_sampled"} -> ScopeMeaning
      [] OTHER -> TRUE

-----------------------------------------------------------------------------
(* What the closures show and what the compiled program shows are the same *)
(* at the end of every step, unless the block is one a compiled program    *)
(* has no regions of, a division has faulted, or a Switch has been moved   *)
(* by the user.                                                            *)
CompiledBlocksAgree ==
    (/\ Latest > 0
     /\ b.kind \notin NativeOnly
     /\ ~native.fault
     /\ (b.kind = "switch" => log[Latest].route = b.initial))
        => Widened(native.out, Len(compiled.out)) = compiled.out

(* At the end of every step the output is what the block is for, as a      *)
(* function of all inputs since the last reset, whatever the closures had  *)
(* kept when the reset came.                                               *)
OutputsMeetDefinition == Latest > 0 => Meaning

=============================================================================
