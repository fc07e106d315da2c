------------------------------- MODULE MCBlockRun -------------------------------
(***************************************************************************)
(* The blocks of one model-checking run, and the inputs each is driven     *)
(* with.  Values are scaled so that every quotient is whole.               *)
(***************************************************************************)
EXTENDS BlockMeaning

One1 == {<<-4>>, <<0>>, <<8>>}
Two2 == {<<0, 0>>, <<4, -4>>, <<-8, 4>>}
Pairs == {<<i, j>> : i \in -2 .. 2, j \in -2 .. 2}
NoInput == {<<>>}

With(kind, inputs, until) == [kind |-> kind, dt |-> 1, until |-> until, inputs |-> inputs]

\* Blocks that have a formula and no memory.
Formulas == <<
    [constant |-> 0, value |-> <<3>>] @@ With("constant", NoInput, 1),
    [gain |-> 3] @@ With("amplifier", Two2, 1),
    [ops |-> <<>>] @@ With("adder", Pairs, 1),
    [ops |-> <<1, -1>>] @@ With("adder", Pairs, 1),
    [ops |-> <<-1>>] @@ With("adder", Pairs, 1),
    With("multiplier", Pairs, 1),
    [ops |-> <<>>, zeroDiv |-> "warn", epsilon |-> 2] @@ With("divider", Pairs, 1),
    [ops |-> <<1, -1>>, zeroDiv |-> "warn", epsilon |-> 2] @@ With("divider", Pairs, 1),
    [ops |-> <<-1>>, zeroDiv |-> "clamp", epsilon |-> 2] @@ With("divider", Pairs, 1),
    [ops |-> <<-1, -1>>, zeroDiv |-> "clamp", epsilon |-> 2] @@ With("divider", Pairs, 1),
    [ops |-> <<1, -1>>, zeroDiv |-> "raise", epsilon |-> 2] @@ With("divider", Pairs, 1),
    With("abs", Two2, 1),
    [exponent |-> 2] @@ With("pow", Pairs, 1),
    [min |-> -2, max |-> 5] @@ With("clip", Two2, 1),
    [scale |-> 2, offset |-> 1, saturate |-> TRUE, outLo |-> -6, outHi |-> 9] @@ With("rescale", Two2, 1),
    With("mod", Pairs, 1),
    [modulus |-> 3] @@ With("mod_single", Two2, 1),
    With("norm", Pairs, 1),
    [coeffs |-> <<1, -2, 3>>] @@ With("polynomial", Pairs, 1),
    [powers |-> <<2, 1, 3>>] @@ With("pow_prod", Pairs, 1),
    [M |-> <<<<1, 0>>, <<2, -1>>, <<0, 0>>>>] @@ With("matrix", Pairs, 1),
    [M |-> <<<<1, 2, 3>>>>] @@ With("matrix", Pairs, 1),
    With("gt", Pairs, 1), With("lt", Pairs, 1), With("and", Pairs, 1), With("or", Pairs, 1),
    With("not", One1, 1), [tolerance |-> 2] @@ With("equal", Pairs, 1), With("alias", One1, 1),
    [lower |-> -2, upper |-> 3] @@ With("deadband", One1, 1),
    [threshold |-> 0, high |-> 5, low |-> -5] @@ With("comparator", One1, 1)>>

\* Sampled blocks, some with ticks at every second step and a late first one.
SampledBlocks == <<
    [tau |-> 2, period |-> 1, phase |-> 0] @@ With("delay", One1, 5),
    [tau |-> 3, period |-> 2, phase |-> 0] @@ With("delay", Two2, 6),
    [period |-> 2, phase |-> 1] @@ With("sample_hold", Two2, 4),
    [period |-> 2, phase |-> 0] @@ With("wrapper", Two2, 4),
    [coeffs |-> <<1, 2, -1>>, period |-> 1, phase |-> 0] @@ With("fir", Two2, 4),
    [lo |-> -8, hi |-> 8, bits |-> 2, period |-> 1, phase |-> 1] @@ With("adc", One1, 3),
    [lo |-> -3, hi |-> 6, bits |-> 2, period |-> 1, phase |-> 1] @@ With("dac", Two2, 3),
    [period |-> 2, phase |-> 1] @@ With("first_order_hold", Two2, 6),
    [initial |-> <<5>>, period |-> 2, phase |-> 0] @@ With("integrator_z", One1, 5),
    [period |-> 2, phase |-> 1] @@ With("derivative_z", Two2, 5),
    [taps |-> 3, period |-> 1, phase |-> 0] @@ With("tapped_delay", One1, 5),
    [num |-> <<1, 3>>, den |-> <<1, -2, 2>>, initial |-> <<0, 0>>, period |-> 1, phase |-> 0]
        @@ DiscreteTransferFunction(<<1, 3>>, <<1, -2, 2>>) @@ With("state_space_z", One1, 5),
    [num |-> <<6>>, den |-> <<2>>, initial |-> <<0>>, period |-> 1, phase |-> 1]
        @@ DiscreteTransferFunction(<<6>>, <<2>>) @@ With("state_space_z", One1, 3)>>

Switched == <<
    [initial |-> 0] @@ With("switch", Two2, 2),
    [up |-> 4, down |-> -2, valueUp |-> 1, valueDown |-> -1] @@ With("relay", {<<-4>>, <<0>>, <<8>>}, 6),
    [direction |-> "both", threshold |-> 0, start |-> 7] @@ With("counter", One1, 6),
    [direction |-> "up", threshold |-> 0, start |-> 0] @@ With("counter", One1, 5),
    [direction |-> "down", threshold |-> 2, start |-> 0] @@ With("counter", One1, 5),
    [times |-> <<0, 2, 5>>, amplitudes |-> <<3, -1, 4>>] @@ With("step_source", NoInput, 8),
    [amplitude |-> 4, tau |-> 1, rise |-> 2, plateau |-> 1, fall |-> 2, period |-> 8]
        @@ With("pulse_source", NoInput, 20),
    [amplitude |-> 4, tau |-> 0, rise |-> 0, plateau |-> 3, fall |-> 0, period |-> 5]
        @@ With("pulse_source", NoInput, 14),
    [amplitude |-> 3, tau |-> 1, period |-> 4] @@ With("square", NoInput, 10),
    [period |-> 4] @@ With("clock", NoInput, 10),
    [amplitude |-> 4, tau |-> 1, period |-> 8] @@ With("triangle", NoInput, 20),
    [period |-> 3, phase |-> 2] @@ With("keyed_noise", NoInput, 10)>>

Linear(ss, nums, den, inputs, until) ==
    [ss |-> ss, nums |-> nums, den |-> den] @@ With("linear", inputs, until)

Pt1Block == [rate |-> 2, gain |-> 3]
Pt2Block == [rate |-> 2, gain |-> 3, damping |-> 1]
LeadLagBlock == [rate |-> 2, gain |-> 1, t1 |-> 3]
PidBlock == [kp |-> 2, ki |-> 1, kd |-> 3, fmax |-> 2]

Dynamic == <<
    [initial |-> <<3, -1>>] @@ With("integrator", Two2, 4),
    [fmax |-> 1, rate |-> 3] @@ With("rate_limiter", One1, 5),
    [fmax |-> 1, half |-> 3] @@ With("backlash", One1, 5),
    [fmax |-> 1] @@ With("differentiator", One1, 4),
    [fmax |-> 1, kp |-> 2, ki |-> 1, kd |-> 1, ks |-> 1, lo |-> -6, hi |-> 6]
        @@ With("anti_windup", One1, 5),
    [amplitude |-> 2, f0 |-> 1, bw |-> 3, period |-> 4] @@ With("chirp", NoInput, 10),
    Linear(Pt1(Pt1Block), <<<<<<0, 6>>>>>>, <<1, 2>>, One1, 4),
    Linear(Pt2(Pt2Block), <<<<<<0, 0, 12>>>>>>, <<1, 4, 4>>, One1, 4),
    Linear(LeadLag(LeadLagBlock), <<<<<<6, 2>>>>>>, <<1, 2>>, One1, 4),
    Linear(Pid(PidBlock), <<<<<<8, 5, 2>>>>>>, <<1, 2, 0>>, One1, 4),
    Linear(ButterLowpass(3), <<<<<<0, 3>>>>>>, <<1, 3>>, One1, 4),
    Linear(ButterHighpass(3), <<<<<<1, 0>>>>>>, <<1, 3>>, One1, 4),
    Linear(ButterBandpass(2, 12), <<<<<<0, 10, 0>>>>>>, <<1, 10, 24>>, One1, 4),
    Linear(AllpassFilter(2, 2), <<<<<<1, -4, 4>>>>>>, <<1, 4, 4>>, One1, 4),
    Linear(TransferFunctionNumDen(<<2, 4>>, <<2, 4, 2>>), <<<<<<0, 1, 2>>>>>>, <<1, 2, 1>>, One1, 4),
    Linear(TransferFunctionZpg(<<<<-1, 0>>>>, <<<<-1, 2>>, <<-1, -2>>>>, 3),
           <<<<<<0, 3, 3>>>>>>, <<1, 2, 5>>, One1, 4),
    Linear(TransferFunctionNumDen(<<6>>, <<3>>), <<<<<<2>>>>>>, <<1>>, One1, 3),
    \* Two real poles, two inputs and two outputs.
    Linear(GilbertRealization(<<<<-1, 0>>, <<-2, 0>>>>,
               <<<<<<<<1, 0>>, <<0, 0>>>>, <<<<2, 0>>, <<1, 0>>>>>>,
                 <<<<<<0, 0>>, <<3, 0>>>>, <<<<1, 0>>, <<0, 0>>>>>>>>, <<1>>, 2, 2),
           <<<<<<1, 4, 4>>, <<1, 6, 5>>>>, <<<<1, 6, 7>>, <<1, 4, 4>>>>>>, <<1, 3, 2>>, Two2, 4),
    \* A pair of complex poles, given once and given twice.
    Linear(GilbertRealization(<<<<-1, 2>>>>, <<<<<<<<2, -1>>>>>>>>, <<0>>, 1, 1),
           <<<<<<0, 4, 8>>>>>>, <<1, 2, 5>>, One1, 4),
    Linear(GilbertRealization(<<<<-1, 2>>, <<-1, -2>>>>,
               <<<<<<<<2, -1>>>>>>, <<<<<<2, 1>>>>>>>>, <<0>>, 1, 1),
           <<<<<<0, 4, 8>>>>>>, <<1, 2, 5>>, One1, 4)>>

Remembering == <<
    [tau |-> 3] @@ [With("delay_continuous", {<<0, 8>>, <<4, -4>>}, 20) EXCEPT !.dt = 2],
    [points |-> <<0, 2, 4>>, values |-> <<1, 5, -1>>, clamp |-> FALSE]
        @@ With("lut1d", {<<x>> : x \in -1 .. 5}, 2),
    [points |-> <<0, 2, 4>>, values |-> <<1, 5, -1>>, clamp |-> TRUE]
        @@ With("lut1d", {<<x>> : x \in -1 .. 5}, 2),
    [octaves |-> 3, period |-> 2, phase |-> 0] @@ With("pink_noise", NoInput, 24),
    [wait |-> 2] @@ With("scope", One1, 4),
    [period |-> 2, phase |-> 1] @@ With("scope_sampled", One1, 4)>>

MCBlocks == Formulas \o SampledBlocks \o Switched \o Dynamic \o Remembering

=============================================================================
