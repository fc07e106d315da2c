-------------------------------- MODULE BlockRun --------------------------------
(***************************************************************************)
(* One block with an input that the rest of a diagram may drive at will,   *)
(* run side by side as the interpreted simulation runs its closures        *)
(* (Simulation::run, timestep, reset) and as a compiled program runs its   *)
(* regions (CompiledSimulation::run).  Steps have the fixed width b.dt of  *)
(* the block's descriptor and go with explicit Euler; events lie on the    *)
(* grid of the steps.  Solvers, step sizes, many blocks and events within  *)
(* a step are the subjects of other modules.                               *)
(***************************************************************************)
EXTENDS ContinuousBlocks

CONSTANT Blocks     \* descriptors: kind, dt, until, inputs, and its parameters

VARIABLES
    b,              \* the descriptor of the block
    begun,          \* a run has been started
    now,            \* the time, in ticks
    native,         \* what the closures hold: [x, m, out, fired, fault]
    compiled,       \* what the compiled program holds: [x, mem, out]
    log             \* the run so far: time, input, output and Switch at steps' ends

vars == <<b, begun, now, native, compiled, log>>

Width(d) == Len(CHOOSE u \in d.inputs : TRUE)

-----------------------------------------------------------------------------
(* Events.  A crossing compares the input before and after the step.       *)

Sampled == {"delay", "sample_hold", "wrapper", "fir", "adc", "dac", "first_order_hold",
            "integrator_z", "derivative_z", "state_space_z", "tapped_delay"}

EventsOf(d) ==
    CASE d.kind \in Sampled \cup {"pink_noise", "scope_sampled"} -> <<Periodic(d.period, d.phase)>>
      [] d.kind = "relay" -> RelayEvents(d)
      [] d.kind = "counter" -> CounterEvents(d)
      [] d.kind = "step_source" -> StepSourceEvents(d)
      [] d.kind = "pulse_source" -> PulseSourceEvents(d)
      [] OTHER -> <<>>

Crosses(direction, before, after) ==
    \/ direction \in {"both", "up"} /\ before < 0 /\ after >= 0
    \/ direction \in {"both", "down"} /\ before > 0 /\ after <= 0

TickAt(e, t) ==
    \/ e.kind = "periodic" /\ t >= e.phase /\ (t - e.phase) % e.period = 0
    \/ e.kind = "list" /\ t \in Range(e.times)

DueAt(e, t, before, after) ==
    \/ TickAt(e, t)
    \/ e.kind = "crossing" /\ Crosses(e.direction, before[1] - e.threshold, after[1] - e.threshold)

DueEvents(d, t, before, after) ==
    SelectSeq([i \in DOMAIN EventsOf(d) |-> i], LAMBDA i : DueAt(EventsOf(d)[i], t, before, after))

\* Before the first step only ticks can be due, no guard has a history yet.
InitialEvents(d) == SelectSeq([i \in DOMAIN EventsOf(d) |-> i], LAMBDA i : TickAt(EventsOf(d)[i], 0))

-----------------------------------------------------------------------------
(* Formulas that closure and region share.                                 *)

SharedAlg(d, x, u, t) ==
    CASE d.kind = "constant" -> d.value
      [] d.kind = "amplifier" -> AmplifierEval(d, u)
      [] d.kind = "adder" -> AdderEval(d, u)
      [] d.kind = "multiplier" -> MultiplierEval(u)
      [] d.kind = "abs" -> AbsEval(u)
      [] d.kind = "pow" -> PowEval(d, u)
      [] d.kind = "clip" -> ClipEval(d, u)
      [] d.kind = "rescale" -> RescaleEval(d, u)
      [] d.kind = "mod" -> ModBlock(u)
      [] d.kind = "mod_single" -> ModSingleEval(d, u)
      [] d.kind = "norm" -> NormEval(u)
      [] d.kind = "polynomial" -> PolynomialEval(d, u)
      [] d.kind = "pow_prod" -> PowProdEval(d, u)
      [] d.kind = "gt" -> GreaterThan(u)
      [] d.kind = "lt" -> LessThan(u)
      [] d.kind = "and" -> LogicAnd(u)
      [] d.kind = "or" -> LogicOr(u)
      [] d.kind = "not" -> LogicNot(u)
      [] d.kind = "equal" -> EqualBuild(d, u)
      [] d.kind = "alias" -> AliasEval(u)
      [] d.kind = "deadband" -> <<DeadbandEval(d, u)>>
      [] d.kind = "square" -> <<SquareEval(d, t)>>
      [] d.kind = "clock" -> <<ClockEval(d, t)>>
      [] d.kind = "triangle" -> <<TriangleEval(d, t)>>
      [] d.kind = "keyed_noise" -> <<KeyedNoise(d, t)>>
      [] d.kind \in {"integrator", "rate_limiter", "backlash"} -> x
      [] d.kind = "differentiator" -> DiffEval(d, x, u)
      [] d.kind = "anti_windup" -> <<AwpidY(d, x, u)>>
      [] d.kind = "chirp" -> ChirpAlg(d, x)

InitialState(d) ==
    CASE d.kind \in {"rate_limiter", "backlash", "differentiator", "chirp"} -> <<0>>
      [] d.kind = "integrator" -> d.initial
      [] d.kind = "anti_windup" -> <<0, 0>>
      [] d.kind = "linear" -> Zeros(Len(d.ss.A))
      [] OTHER -> <<>>

SharedDyn(d, x, u, t) ==
    CASE d.kind = "integrator" -> IntegratorDyn(u)
      [] d.kind = "rate_limiter" -> RateLimiterDyn(d, x, u)
      [] d.kind = "backlash" -> BacklashDyn(d, x, u)
      [] d.kind = "differentiator" -> DiffEval(d, x, u)
      [] d.kind = "anti_windup" -> AwpidDyn(d, x, u)
      [] d.kind = "chirp" -> ChirpDyn(d, t)
      [] OTHER -> <<>>

Advanced(x, dx, dt) == [i \in DOMAIN x |-> x[i] + dt * dx[i]]

-----------------------------------------------------------------------------
(* The interpreted block.                                                  *)

NativeFresh(d) ==
    CASE d.kind = "delay" -> DelayFresh(d)
      [] d.kind \in {"sample_hold", "wrapper", "adc", "dac"} ->
            [held |-> IF d.kind \in {"sample_hold", "wrapper"} THEN <<>>
                      ELSE Zeros(IF d.kind = "adc" THEN d.bits ELSE 1)]
      [] d.kind = "fir" -> FirFresh(d)
      [] d.kind = "first_order_hold" -> FirstOrderHoldFresh(d)
      [] d.kind = "integrator_z" -> DiscreteIntegratorFresh(d)
      [] d.kind = "derivative_z" -> DiscreteDerivativeFresh
      [] d.kind = "state_space_z" -> DiscreteStateSpaceFresh(d)
      [] d.kind = "tapped_delay" -> TappedDelayFresh(d)
      [] d.kind = "delay_continuous" -> BufferFresh
      [] d.kind = "pink_noise" -> PinkFresh(d)
      [] d.kind \in {"scope", "scope_sampled"} -> ScopeFresh
      [] d.kind = "switch" -> SwitchFresh(d)
      [] d.kind = "relay" -> RelayFresh(d)
      [] d.kind = "step_source" -> StepSourceFresh
      [] d.kind = "pulse_source" -> PulseSourceFresh(d)
      [] d.kind = "lut1d" -> Lut1dFresh
      [] OTHER -> <<>>

\* (Mutant: a reset leaves the closures' cells as they are.)
NativeResetForgotten(d, m) == m

NativeReset(d, m) ==
    CASE d.kind = "delay" -> DelayReset(d, m)
      [] d.kind = "pink_noise" -> PinkReset(d, m)
      [] d.kind \in {"switch", "lut1d"} -> m
      [] OTHER -> NativeFresh(d)

NativeAlg(d, n, u, t) ==
    CASE d.kind = "delay" -> DelayUpdate(n.m, n.out)
      [] d.kind = "first_order_hold" -> FirstOrderHoldUpdate(d, n.m, n.out, t)
      [] d.kind \in (Sampled \cup {"pink_noise", "relay", "step_source"})
                        \ {"delay", "first_order_hold"} -> HeldVecUpdate(n.out, n.m.held)
      [] d.kind = "delay_continuous" -> BufferGet(d, n.m, n.out, t)
      [] d.kind = "counter" -> CounterUpdate(d, n.out, n.fired)
      [] d.kind = "pulse_source" -> PulseSourceUpdate(d, n.m, n.out, t)
      [] d.kind = "switch" -> SwitchUpdate(n.m, n.out, u)
      [] d.kind = "comparator" -> ComparatorUpdate(d, n.out, u)
      [] d.kind = "linear" -> AffineInto(d.ss.C, d.ss.D, n.x, u)
      [] d.kind = "matrix" -> MatrixInto(d, u)
      [] d.kind = "divider" -> DividerNative(d, u)
      [] d.kind = "lut1d" -> Lut1dNative(d, n.m, u[1]).y
      [] d.kind \in {"scope", "scope_sampled"} -> n.out
      [] OTHER -> SharedAlg(d, n.x, u, t)

\* An evaluation may also leave a hint or a fault behind.
NativeUpdate(d, n, u, t) ==
    [n EXCEPT !.out = NativeAlg(d, n, u, t),
              !.m = IF d.kind = "lut1d" THEN Lut1dNative(d, n.m, u[1]).mem ELSE @,
              !.fault = @ \/ (d.kind = "divider" /\ DividerFaults(d, u))]

NativeDyn(d, x, u, t) ==
    IF d.kind = "linear" THEN AffineInto(d.ss.A, d.ss.B, x, u) ELSE SharedDyn(d, x, u, t)

NativeFire(d, e, m, u, t) ==
    CASE d.kind = "delay" -> DelayFire(d, m)
      [] d.kind = "sample_hold" -> SampleHoldFire(u)
      [] d.kind = "wrapper" -> WrapperFire(u)
      [] d.kind = "fir" -> FirFire(d, m, u)
      [] d.kind = "adc" -> AdcFire(d, u)
      [] d.kind = "dac" -> DacFire(d, u)
      [] d.kind = "first_order_hold" -> FirstOrderHoldFire(m, u, t)
      [] d.kind = "integrator_z" -> DiscreteIntegratorFire(d, m, u)
      [] d.kind = "derivative_z" -> DiscreteDerivativeFire(d, m, u)
      [] d.kind = "state_space_z" -> DiscreteStateSpaceFire(d, m, u)
      [] d.kind = "tapped_delay" -> TappedDelayFire(d, m, u)
      [] d.kind = "pink_noise" -> PinkSample(d, m)
      [] d.kind = "scope_sampled" -> Record(m, u, t)
      [] d.kind = "relay" -> RelayFire(d, e)
      [] d.kind = "step_source" -> StepSourceFire(d, m)
      [] d.kind = "pulse_source" -> PulseSourceFire(e, t)
      [] OTHER -> m

NativeSample(d, m, u, t) ==
    CASE d.kind = "delay" -> DelaySample(m, u)
      [] d.kind = "delay_continuous" -> BufferAdd(d, m, u, t)
      [] d.kind = "scope" /\ t >= d.wait -> Record(m, u, t)
      [] OTHER -> m

\* Update, resolve what is due, update, and sample at the end.
NativeEvaluated(d, n, u, t, due) ==
    LET updated == NativeUpdate(d, n, u, t)
        resolved == FoldLeft(LAMBDA a, e : [a EXCEPT !.m = NativeFire(d, e, @, u, t),
                                                     !.fired = @ + 1], updated, due)
        final == NativeUpdate(d, resolved, u, t)
    IN  [final EXCEPT !.m = NativeSample(d, @, u, t)]

-----------------------------------------------------------------------------
(* The compiled block: memory slots, an output region, event effects.      *)

\* Blocks that a compiled program has no regions of.
NativeOnly == {"delay_continuous", "pink_noise", "scope", "scope_sampled"}

CompiledMemory(d) ==
    CASE d.kind = "delay" -> DelayMemory(d, Width(d))
      [] d.kind = "sample_hold" -> <<Zeros(Width(d))>>
      [] d.kind \in {"wrapper", "dac"} -> <<<<0>>>>
      [] d.kind = "fir" -> FirMemory(d, Width(d))
      [] d.kind = "adc" -> <<Zeros(d.bits)>>
      [] d.kind = "first_order_hold" -> FirstOrderHoldMemory(d, Width(d))
      [] d.kind = "integrator_z" -> DiscreteIntegratorMemory(d)
      [] d.kind = "derivative_z" -> DiscreteDerivativeMemory(Width(d))
      [] d.kind = "state_space_z" -> DiscreteStateSpaceMemory(d)
      [] d.kind = "tapped_delay" -> TappedDelayMemory(d)
      [] d.kind = "switch" -> SwitchMemory(d)
      [] d.kind = "relay" -> RelayMemory(d)
      [] d.kind = "counter" -> CounterMemory
      [] d.kind = "step_source" -> StepSourceMemory
      [] d.kind = "pulse_source" -> PulseSourceMemory(d)
      [] OTHER -> <<>>

CompiledAlg(d, mem, x, u, t) ==
    CASE d.kind = "delay" -> SubSeq(mem[1], 1, Width(d))
      [] d.kind \in {"sample_hold", "wrapper", "adc", "dac", "derivative_z", "tapped_delay",
                     "relay", "step_source"} -> mem[1]
      [] d.kind \in {"fir", "integrator_z", "state_space_z"} -> mem[2]
      [] d.kind = "first_order_hold" -> FirstOrderHoldAlg(d, mem, t)
      [] d.kind = "counter" -> CounterAlg(d, mem)
      [] d.kind = "pulse_source" -> PulseSourceAlg(d, mem, t)
      [] d.kind = "switch" -> SwitchAlg(mem, u)
      [] d.kind = "comparator" -> ComparatorAlg(d, u)
      [] d.kind = "linear" -> AffineEval(d.ss.C, d.ss.D, x, u)
      [] d.kind = "matrix" -> MatrixEval(d, u)
      [] d.kind = "divider" -> DividerBuild(d, u)
      [] d.kind = "lut1d" -> <<Lut1dBuild(d, u[1])>>
      [] d.kind \in NativeOnly -> <<>>
      [] OTHER -> SharedAlg(d, x, u, t)

CompiledDyn(d, x, u, t) ==
    IF d.kind = "linear" THEN AffineEval(d.ss.A, d.ss.B, x, u) ELSE SharedDyn(d, x, u, t)

Effect(d, e, mem, u, t) ==
    CASE d.kind = "delay" -> DelayEffect(mem, u)
      [] d.kind = "sample_hold" -> SampleHoldEffect(u)
      [] d.kind = "wrapper" -> <<Wrapped(u)>>
      [] d.kind = "fir" -> FirEffect(d, mem, u)
      [] d.kind = "adc" -> AdcEffect(d, u)
      [] d.kind = "dac" -> DacEffect(d, u)
      [] d.kind = "first_order_hold" -> FirstOrderHoldEffect(mem, u, t)
      [] d.kind = "integrator_z" -> DiscreteIntegratorEffect(d, mem, u)
      [] d.kind = "derivative_z" -> DiscreteDerivativeEffect(d, mem, u)
      [] d.kind = "state_space_z" -> DiscreteStateSpaceEffect(d, mem, u)
      [] d.kind = "tapped_delay" -> TappedDelayEffect(d, mem, u)
      [] d.kind = "relay" -> RelayEffect(d, e)
      [] d.kind = "counter" -> CounterEffect(mem)
      [] d.kind = "step_source" -> StepSourceEffect(d, mem)
      [] d.kind = "pulse_source" -> PulseSourceEffect(e, t)
      [] OTHER -> mem

CompiledEvaluated(d, c, u, t, due) ==
    LET mem == FoldLeft(LAMBDA a, e : Effect(d, e, a, u, t), c.mem, due)
    IN  [x |-> c.x, mem |-> mem, out |-> CompiledAlg(d, mem, c.x, u, t)]

-----------------------------------------------------------------------------
Init ==
    /\ b \in Range(Blocks)
    /\ begun = FALSE
    /\ now = 0
    /\ native = [x |-> InitialState(b), m |-> NativeFresh(b), out |-> <<0>>, fired |-> 0,
                 fault |-> FALSE]
    /\ compiled = [x |-> InitialState(b), mem |-> CompiledMemory(b), out |-> <<>>]
    /\ log = <<>>

Position(d, m) == IF d.kind = "switch" THEN m.position ELSE 0

Evaluate(n, c, u, t, due) ==
    /\ native' = NativeEvaluated(b, n, u, t, due)
    /\ compiled' = CompiledEvaluated(b, c, u, t, due)
    /\ log' = Append(log, [t |-> t, u |-> u, y |-> native'.out, route |-> Position(b, n.m)])

\* The beginning of a run: the initial evaluation, and the ticks due at once.
Begin(u) ==
    /\ ~begun
    /\ begun' = TRUE
    /\ Evaluate(native, compiled, u, 0, InitialEvents(b))
    /\ UNCHANGED <<b, now>>

\* A step from the input it began with to the input it ends with.
Step(u) ==
    LET before == Last(log).u
        t == now + b.dt
    IN  /\ begun
        /\ ~native.fault
        /\ now < b.until
        /\ now' = t
        /\ Evaluate([native EXCEPT !.x = Advanced(@, NativeDyn(b, @, before, now), b.dt)],
                    [compiled EXCEPT !.x = Advanced(@, CompiledDyn(b, @, before, now), b.dt)],
                    u, t, DueEvents(b, t, before, u))
        /\ UNCHANGED <<b, begun>>

\* Simulation::reset and CompiledSimulation::reset.
Reset ==
    /\ begun
    /\ begun' = FALSE
    /\ now' = 0
    /\ native' = [x |-> InitialState(b), m |-> NativeReset(b, native.m),
                  out |-> Zeros(Len(native.out)), fired |-> 0, fault |-> FALSE]
    /\ compiled' = [x |-> InitialState(b), mem |-> CompiledMemory(b), out |-> <<>>]
    /\ log' = <<>>
    /\ UNCHANGED b

\* Between steps the user may move a Switch, or read on from a Scope.
Route(p) ==
    /\ b.kind = "switch"
    /\ native' = [native EXCEPT !.m.position = p]
    /\ UNCHANGED <<b, begun, now, compiled, log>>

Read ==
    /\ b.kind \in {"scope", "scope_sampled"}
    /\ native' = [native EXCEPT !.m = ReadIncremental(@)]
    /\ UNCHANGED <<b, begun, now, compiled, log>>

Next ==
    \/ \E u \in b.inputs : Begin(u)
    \/ \E u \in b.inputs : Step(u)
    \/ Reset
    \/ \E p \in {-1, 0, 1} : Route(p)
    \/ Read

Spec == Init /\ [][Next]_vars

=============================================================================
