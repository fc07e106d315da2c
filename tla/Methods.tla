-------------------------------- MODULE Methods --------------------------------
(***************************************************************************)
(* The numbers a dynamic block's engine computes: the stages of the        *)
(* Runge-Kutta methods (src/solvers/factories.rs, stage.rs, solver.rs),    *)
(* the DAE blocks they solve (src/blocks/constructors/dae.rs), the dense   *)
(* output (src/solvers/dense.rs), the integrator emitted as C              *)
(* (src/codegen/solver.rs), and, over the engine of Gear, the formulas of  *)
(* the multistep method.                                                   *)
(*                                                                         *)
(* The right-hand side is the one every other one is made of: a component  *)
(* for every rooted tree, whose slope is the product of what hangs on its  *)
(* root.  The component of a tree with n nodes is a multiple of t^n, so a  *)
(* method of order p must follow the trees of at most p nodes exactly,     *)
(* and only such a method does.                                            *)
(*                                                                         *)
(* A converged Newton iteration is the exact solution of the stage, a      *)
(* diverged one leads to a revert.  Whether an error estimate is within    *)
(* the tolerance is a choice, as in the run loop.                          *)
(***************************************************************************)
EXTENDS Coefficients, FiniteSets

CONSTANTS
    Names,          \* the methods
    Forms,          \* the blocks they integrate
    Widths,         \* the step widths
    MaxAttempts,    \* of steps, by a Runge-Kutta method
    MaxGearSteps    \* of steps, by GEAR52A

ASSUME MethodsAssumption ==
    /\ Forms \subseteq {"ode", "semi", "mass", "implicit"}
    /\ Widths \subseteq 1 .. P - 1
    /\ MaxAttempts \in Nat /\ MaxGearSteps \in Nat

VARIABLES
    name,       \* the method
    tab,        \* its tableau
    form,       \* the block
    t,          \* the time of the last commit
    dt,         \* the width of the step
    phase,      \* "idle", "stages", "verdict" or "rejected"
    engine,
    probe,      \* <<part>> of the last step the engine is moved to, or <<>>
    attempts

vars == <<name, tab, form, t, dt, phase, engine, probe, attempts>>

Gear == INSTANCE Gear WITH MinOrder <- 2, MaxOrder <- 5, HistoryLen <- 6

-----------------------------------------------------------------------------
(* Trees: the one with a single node, and every one that is another with a *)
(* branch more, grown at the root in the order of the list.                *)
Trees ==
    LET Pairs(m) == [k \in 1 .. m * m |-> <<((k - 1) \div m) + 1, ((k - 1) % m) + 1>>]
        Grown(pair, n) == [order |-> n, root |-> pair[1], branch |-> pair[2]]
        Larger(s, n) ==
            SelectSeq([k \in 1 .. Len(s) * Len(s) |-> Grown(Pairs(Len(s))[k], n)],
                      LAMBDA r : /\ s[r.root].order + s[r.branch].order = n
                                 /\ s[r.root].branch <= r.branch)
        upTo[n \in 1 .. 8] ==
            IF n = 1 THEN <<[order |-> 1, root |-> 0, branch |-> 0]>>
            ELSE upTo[n - 1] \o Larger(upTo[n - 1], n)
    IN  upTo[8]

TreesUpTo == Vector([n \in 1 .. 8 |-> Cardinality({i \in DOMAIN Trees : Trees[i].order <= n})])

\* The solution through 0 at time 0: time^order over the density of the tree.
Density(i) ==
    LET density[j \in 1 .. i] ==
            IF j = 1 THEN 1
            ELSE LET r == Trees[j]
                 IN  Over(Times(Times(density[r.root], density[r.branch]), r.order),
                          Trees[r.root].order)
    IN  density[i]
Sparsities == Vector([i \in DOMAIN Trees |-> Over(1, Density(i))])
Exact(i, time) == Times(Power(time, Trees[i].order), Sparsities[i])

-----------------------------------------------------------------------------
Table(m) ==
    CASE m = "SSPRK22" -> SSPRK22 [] m = "RK4" -> RK4 [] m = "SSPRK33" -> SSPRK33
      [] m = "SSPRK34" -> SSPRK34 [] m = "RKF21" -> RKF21 [] m = "RKBS32" -> RKBS32
      [] m = "RKF45" -> RKF45 [] m = "RKCK54" -> RKCK54 [] m = "RKDP54" -> RKDP54
      [] m = "RKV65" -> RKV65 [] m = "RKF78" -> RKF78 [] m = "DIRK2" -> DIRK2
      [] m = "DIRK3" -> DIRK3 [] m = "ESDIRK4" -> ESDIRK4 [] m = "ESDIRK32" -> ESDIRK32
      [] m = "EUF" -> EUF [] m = "EUB" -> EUB
      [] m = "GEAR52A" -> EUB

Multistep == name = "GEAR52A"
Components ==
    TreesUpTo[IF tab.n < tab.m THEN tab.m ELSE IF tab.n = 1 THEN 2 ELSE tab.n]

\* The Euler methods of the runtime have no tableau: no slopes are kept for the
\* dense output, and no stage builder of a block is asked.
IsEuler == name \in {"EUF", "EUB"}
Solvable ==
    CASE form = "ode"  -> TRUE
      [] form = "semi" -> ~Multistep
      [] form = "mass" -> ~Multistep /\ ~IsEuler /\ ~IsExplicit(tab) /\ tab.final = <<>>
      [] form = "implicit" -> ~Multistep /\ ~IsEuler /\ ~IsExplicit(tab)

\* A fully implicit block with an algebraic row needs a first stage to solve.
WithConstraint == form = "mass" \/ (form = "implicit" /\ tab.bt[1] # <<>>)

-----------------------------------------------------------------------------
(* The blocks.  In the DAEs the second tree hangs on others as the         *)
(* algebraic unknown z, which is bound to equal it: 0 = x[2] - z.  In the  *)
(* mass matrix, and in F(x, dx), the slopes are weighted by 2.             *)
Rate(i, x, z, time) ==
    LET Hanging(b) == IF b = 1 THEN time ELSE IF b = 2 THEN z ELSE x[b]
        rate[j \in Nat] ==
            IF j = 1 THEN 1 ELSE Times(Hanging(Trees[j].branch), rate[Trees[j].root])
    IN  rate[i]

\* semi_explicit_dae's inner Newton finds z for every evaluation.
InnerNewton(x) == x[2]

\* The block's f_dyn; for the fully implicit one, the slopes F determines.
FDyn(x, time) ==
    LET n == Components
        z == IF WithConstraint THEN x[n + 1] ELSE InnerNewton(x)
        weight == IF form = "mass" THEN 2 ELSE 1
        slopes == [i \in 1 .. n |-> Times(weight, Rate(i, x, z, time))]
    IN  IF WithConstraint THEN Vector(slopes) \o <<Minus(x[2], z)>> ELSE Vector(slopes)

\* The weighted sum of the slopes stored so far, by component.
Weighted(row, ks, n) ==
    Vector([i \in 1 .. n |->
        Dot(row, [j \in 1 .. (IF Len(row) < Len(ks) THEN Len(row) ELSE Len(ks)) |-> ks[j][i]])])

\* x0 + dt * sums
Advanced(x0, h, sums) == Vector([i \in DOMAIN x0 |-> Plus(x0[i], Times(h, sums[i]))])

\* A stage builder's converged stage: the state x and the slope k that satisfy
\* x = x0 + h * (before + a * k) for the differential components, k weighted by
\* the mass for a mass matrix, and the constraint.
SolvedStage(x0, before, a, h, time) ==
    LET n == Components
        weight == IF form = "mass" THEN 2 ELSE 1
        \* What earlier stages have left of the constraint.
        left == IF form = "mass" THEN Over(before[n + 1], a) ELSE 0
        Slope(x, i) ==
            Times(weight, Rate(i, x, IF i > 2 THEN Plus(x[2], left) ELSE 0, time))
        Value(x, i) ==
            Plus(x0[i], Over(Times(h, Plus(before[i], Times(a, Slope(x, i)))), weight))
        grown[i \in 0 .. n] ==
            IF i = 0 THEN <<>> ELSE LET y == grown[i - 1] IN Append(y, Value(y, i))
        x == grown[n]
        z == IF WithConstraint THEN Plus(x[2], left) ELSE InnerNewton(x)
        kz == IF form = "mass" THEN Minus(0, left)
              ELSE Over(Minus(z, Plus(x0[n + 1], Times(h, before[n + 1]))), Times(h, a))
        slopes == Vector([i \in 1 .. n |-> Times(weight, Rate(i, x, z, time))])
    IN  IF WithConstraint
        THEN [x |-> Append(x, z), k |-> Append(slopes, kz)]
        ELSE [x |-> x, k |-> slopes]

-----------------------------------------------------------------------------
\* A new engine over the block's initial state.
FreshEngine(time) ==
    [x |-> LET trees == Vector([i \in 1 .. Components |-> Exact(i, time)])
           IN  IF WithConstraint THEN Append(trees, trees[2]) ELSE trees,
     history |-> <<>>, ks |-> <<>>, stage |-> 0,
     open |-> FALSE, span |-> 0, seeking |-> FALSE, stash |-> <<>>]

Closed(e) == [e EXCEPT !.open = FALSE, !.seeking = FALSE]

\* buffer: a Runge-Kutta method keeps the last state only.
Buffered(e) == [Closed(e) EXCEPT !.history = <<e.x>>, !.stage = 0]

\* The slopes after a stage has stored its own.
Stored(ks, stage, k) == IF stage <= Len(ks) THEN [ks EXCEPT ![stage] = k] ELSE Append(ks, k)

\* The state and the slopes after a stage.
StageOf(e, time, h, stage) ==
    LET x0 == e.history[1]
        n == Len(x0)
        at == Plus(time, Times(tab.c[stage], h))
        row == tab.bt[stage]
        explicit == Stored(e.ks, stage, FDyn(e.x, at))
        solved == SolvedStage(x0, Weighted(SubSeq(row, 1, stage - 1), e.ks, n), row[stage], h, at)
    IN  IF IsExplicit(tab)
        THEN [x |-> Advanced(x0, h, Weighted(row, explicit, n)), ks |-> explicit]
        ELSE IF row = <<>> THEN [x |-> e.x, ks |-> explicit]
        ELSE [x |-> solved.x, ks |-> Stored(e.ks, stage, solved.k)]

\* The output row of a method that is not stiffly accurate.
Finished(s, x0, h) ==
    IF tab.final = <<>> THEN s
    ELSE [s EXCEPT !.x = Advanced(x0, h, Weighted(tab.final, s.ks, Len(x0)))]

Reverted(e) ==
    [Closed(e) EXCEPT !.x = IF e.history = <<>> THEN @ ELSE Head(e.history),
                      !.history = IF @ = <<>> THEN @ ELSE Tail(@)]

ErrorEstimate(ks, h) ==
    LET sums == Weighted(tab.tr, ks, Components)
    IN  Vector([i \in DOMAIN sums |-> Times(h, sums[i])])

-----------------------------------------------------------------------------
(* Dense output.                                                           *)
DenseF0 ==
    /\ ~IsEuler
    /\ tab.c[1] = 0
    /\ IsExplicit(tab) \/ tab.bt[1] = <<>>

DenseF1 ==
    LET a == tab
        s == Stages(a)
    IN  /\ ~IsEuler
        /\ a.c[s] = 1
        /\ IF IsExplicit(tab) THEN s >= 2 /\ a.bt[s] = a.bt[s - 1] ELSE a.final = <<>>

DenseOrder ==
    IF tab.di # <<>> THEN Len(tab.di[1]) + 1
    ELSE 2 + Cardinality({f \in {"f0", "f1"} : IF f = "f0" THEN DenseF0 ELSE DenseF1})

CanInterpolate(e) == e.open /\ e.history # <<>>

\* Hermite, on the slopes there are at the ends; the line without any.
Hermite(x0, x1, h, ks, theta, i) ==
    LET t2 == Times(theta, theta)
        t3 == Times(t2, theta)
        slope0 == Times(h, ks[1][i])
        slope1 == Times(h, ks[Stages(tab)][i])
        rise == Minus(x1[i], x0[i])
        u == Minus(theta, 1)
    IN  CASE DenseF0 /\ DenseF1 ->
                LET h01 == Minus(Times(3, t2), Times(2, t3))
                IN  Plus(Plus(x0[i], Times(h01, rise)),
                         Plus(Times(Plus(Minus(t3, Times(2, t2)), theta), slope0),
                              Times(Minus(t3, t2), slope1)))
          [] DenseF0 /\ ~DenseF1 ->
                Plus(x0[i], Times(theta, Plus(slope0, Times(theta, Minus(rise, slope0)))))
          [] ~DenseF0 /\ DenseF1 ->
                Plus(x1[i], Times(u, Plus(slope1, Times(u, Minus(slope1, rise)))))
          [] ~DenseF0 /\ ~DenseF1 -> Plus(x0[i], Times(theta, rise))

\* The interpolant of a tableau, row by row a polynomial in theta.
InterpTableau(x0, h, ks, theta, i) ==
    LET di == tab.di
        weight(row) == Dot(row, [q \in DOMAIN row |-> Power(theta, q)])
        sum == Dot([j \in DOMAIN di |-> weight(di[j])], [j \in DOMAIN di |-> ks[j][i]])
    IN  Plus(x0[i], Times(h, sum))

Interpolated(e, theta) ==
    LET x0 == Head(e.history)
        x1 == IF e.seeking THEN e.stash ELSE e.x
    IN  Vector([i \in DOMAIN x1 |->
            IF tab.di # <<>> THEN InterpTableau(x0, e.span, e.ks, theta, i)
            ELSE Hermite(x0, x1, e.span, e.ks, theta, i)])

\* A mutant of DenseSeek: every seek stashes the state it moves away from.
SeekAndStash(e, theta) ==
    [e EXCEPT !.stash = e.x, !.x = Interpolated(e, theta), !.seeking = TRUE]

DenseSeek(e, theta) ==
    [e EXCEPT !.stash = IF e.seeking THEN @ ELSE e.x,
              !.x = Interpolated(e, theta),
              !.seeking = TRUE]

DenseSeekEnd(e) == IF e.seeking THEN [e EXCEPT !.x = e.stash, !.seeking = FALSE] ELSE e

-----------------------------------------------------------------------------
(* The step function emitted as C, one loop over square, zero-padded rows. *)
\* A mutant of PaddedRow: the zeros in front.
PaddedInFront(row) == [j \in 1 .. Stages(tab) - Len(row) |-> 0] \o row

PaddedRow(row) == row \o [j \in 1 .. Stages(tab) - Len(row) |-> 0]

\* One implicit stage: Newton on its slope, none where the diagonal is zero.
KernelStage(x0, row, ks, stage, h, at) ==
    LET before == Weighted(SubSeq(row, 1, stage - 1), ks, Len(x0))
    IN  IF row[stage] = 0 THEN FDyn(Advanced(x0, h, before), at)
        ELSE SolvedStage(x0, before, row[stage], h, at).k

KernelStep(x0, time, h) ==
    LET After(ks) ==
            IF ks = <<>> THEN x0
            ELSE Advanced(x0, h, Weighted(PaddedRow(tab.bt[Len(ks)]), ks, Len(x0)))
        Slope(ks, stage, at) ==
            IF IsExplicit(tab) THEN FDyn(After(ks), at)
            ELSE KernelStage(x0, PaddedRow(tab.bt[stage]), ks, stage, h, at)
        slopes[stage \in 0 .. Stages(tab)] ==
            IF stage = 0 THEN <<>>
            ELSE LET ks == slopes[stage - 1]
                 IN  Append(ks, Slope(ks, stage, Plus(time, Times(tab.c[stage], h))))
        all == slopes[Stages(tab)]
    IN  [x |-> After(all), ks |-> all]

-----------------------------------------------------------------------------
Init ==
    /\ name \in Names /\ tab = Table(name)
    /\ form \in Forms /\ Solvable
    /\ t = 3 /\ dt = 0 /\ attempts = 0
    /\ phase = "idle" /\ probe = <<>>
    /\ engine = IF Multistep THEN Gear!Fresh ELSE FreshEngine(t)

Buffer ==
    /\ phase = "idle" /\ probe = <<>> /\ ~Multistep
    /\ attempts < MaxAttempts
    /\ dt' \in Widths
    /\ engine' = Buffered(engine)
    /\ phase' = "stages" /\ attempts' = attempts + 1
    /\ UNCHANGED <<name, tab, form, t, probe>>

\* A stage before the last one.
EvaluateStage ==
    /\ phase = "stages" /\ engine.stage + 1 < Stages(tab)
    /\ LET s == StageOf(engine, t, dt, engine.stage + 1)
       IN  engine' = [engine EXCEPT !.x = s.x, !.ks = s.ks, !.stage = @ + 1]
    /\ UNCHANGED <<name, tab, form, t, dt, phase, probe, attempts>>

\* The last one, and the verdict of the error estimate, if there is one.
FinishStep ==
    /\ phase = "stages" /\ engine.stage + 1 = Stages(tab)
    /\ \E ok \in IF IsAdaptive(tab) THEN BOOLEAN ELSE {TRUE} :
        LET s == Finished(StageOf(engine, t, dt, Stages(tab)), engine.history[1], dt)
        IN  /\ engine' = [engine EXCEPT !.x = s.x, !.ks = s.ks, !.stage = Stages(tab),
                                         !.open = ok, !.span = IF ok THEN dt ELSE @]
            /\ phase' = IF ok THEN "verdict" ELSE "rejected"
    /\ UNCHANGED <<name, tab, form, t, dt, probe, attempts>>

\* An implicit stage does not converge: it leaves what the last iteration made
\* of the state and the slope.
Diverge ==
    /\ phase = "stages" /\ ~IsExplicit(tab) /\ tab.bt[engine.stage + 1] # <<>>
    /\ LET lost == [i \in DOMAIN engine.x |-> 0]
       IN  engine' = [engine EXCEPT !.x = lost, !.ks = Stored(@, engine.stage + 1, lost)]
    /\ phase' = "rejected"
    /\ UNCHANGED <<name, tab, form, t, dt, probe, attempts>>

\* The step is kept, or an event inside it takes it back.
Commit ==
    /\ phase = "verdict" /\ probe = <<>> /\ ~Multistep
    /\ phase' = "idle" /\ t' = Plus(t, dt)
    /\ UNCHANGED <<name, tab, form, dt, engine, probe, attempts>>

Revert ==
    /\ phase \in {"verdict", "rejected"} /\ probe = <<>> /\ ~Multistep
    /\ phase' = "idle" /\ engine' = Reverted(engine)
    /\ UNCHANGED <<name, tab, form, t, dt, probe, attempts>>

\* Dense output: of a step under examination for events, and of a kept one.
Seek ==
    /\ phase \in {"verdict", "idle"} /\ ~Multistep
    /\ form # "mass" /\ CanInterpolate(engine)
    /\ \E theta \in {Q(1, 2), Q(2, 3)} :
        /\ probe # <<theta>>
        /\ engine' = DenseSeek(engine, theta)
        /\ probe' = <<theta>>
    /\ UNCHANGED <<name, tab, form, t, dt, phase, attempts>>

SeekEnd ==
    /\ probe # <<>>
    /\ engine' = DenseSeekEnd(engine) /\ probe' = <<>>
    /\ UNCHANGED <<name, tab, form, t, dt, phase, attempts>>

\* GEAR52A, whose orders and ring are those of Gear.
GearBuffer ==
    /\ phase = "idle" /\ Multistep
    /\ attempts < MaxGearSteps
    /\ dt' \in Widths
    /\ engine' = Gear!Solved(Gear!Buffered(engine, dt'), FALSE)
    /\ phase' = "verdict" /\ attempts' = attempts + 1
    /\ UNCHANGED <<name, tab, form, t, probe>>

GearStep ==
    /\ phase = "verdict" /\ Multistep
    /\ \E v \in Gear!Verdict :
        /\ engine' = Gear!Stepped(engine, v)
        /\ phase' = IF v.ok THEN "idle" ELSE "rejected"
        /\ t' = IF v.ok THEN Plus(t, dt) ELSE t
    /\ UNCHANGED <<name, tab, form, dt, probe, attempts>>

GearRevert ==
    /\ phase = "rejected" /\ Multistep
    /\ engine' = Gear!Reverted(engine) /\ phase' = "idle"
    /\ UNCHANGED <<name, tab, form, t, dt, probe, attempts>>

Next ==
    \/ Buffer \/ EvaluateStage \/ FinishStep \/ Diverge \/ Commit \/ Revert
    \/ Seek \/ SeekEnd
    \/ GearBuffer \/ GearStep \/ GearRevert

Spec == Init /\ [][Next]_vars

-----------------------------------------------------------------------------
Follows(x, order, from, to) ==
    \A i \in 1 .. TreesUpTo[order] :
        Minus(x[i], engine.history[1][i]) = Minus(Exact(i, to), Exact(i, from))

(* A ring of exact past values of t^d, and its value and slope at the end of *)
(* the step, dt times as long as the unit.                                   *)
Past(d) ==
    [j \in DOMAIN engine.history |-> Power(Plus(3, engine.history[j].at), d)]
EndOf(d) == Power(Plus(t, dt), d)
SlopeOf(d) == IF d = 0 THEN 0 ELSE Times(d, Power(Plus(t, dt), d - 1))

\* Every method has the order it claims, whatever the width and whatever came
\* before (tableaus.rs: "Classical order", "Embedded order"): a step follows
\* every right-hand side to the order n, its error estimate is the distance to
\* a solution of order m, and is there where the two differ; a commit, a
\* rejection or a probe changes nothing of it.  An algebraic unknown satisfies
\* its equation.  GEAR52A's plain formulas have their order; its corrector,
\* with the coefficients of an NDF, and the error it estimates, see the next
\* lower one (see the README).
StepsHaveTheirOrder ==
    /\ phase = "verdict" /\ probe = <<>> /\ ~Multistep =>
        LET end == Plus(t, dt)
            estimate == ErrorEstimate(engine.ks, dt)
            lower == [i \in 1 .. Components |-> Minus(engine.x[i], estimate[i])]
        IN  /\ Follows(engine.x, tab.n, t, end)
            /\ IsAdaptive(tab) /\ form # "mass" =>
                /\ Follows(lower, tab.m, t, end)
                /\ \E i \in 1 .. Components :
                    /\ Trees[i].order = (IF tab.m < tab.n THEN tab.m ELSE tab.n) + 1
                    /\ estimate[i] # 0
            /\ WithConstraint /\ tab.final = <<>> => engine.x[2] = engine.x[Components + 1]
    /\ phase = "idle" /\ probe = <<>> /\ ~Multistep =>
        \A i \in 1 .. TreesUpTo[tab.n] : engine.x[i] = Exact(i, t)
    /\ phase = "verdict" /\ Multistep =>
        \A d \in 0 .. 6 :
            LET q == engine.order
                past == Past(d)
                residual == CorrectorResidual(q, past, engine.dts, EndOf(d), SlopeOf(d))
            IN  /\ d < q \/ (d = 5 /\ q = 5) => residual = 0
                /\ q > 1 /\ d <= q - 1 =>
                    TruncationResidual(q - 1, past, engine.dts, EndOf(d), SlopeOf(d)) = 0
                /\ Gear!HaveUp(engine) /\ d <= q + 1 =>
                    TruncationResidual(q + 1, past, engine.dts, EndOf(d), SlopeOf(d)) = 0
                /\ (StepError(q, past, engine.dts, SlopeOf(d)) = 0) <=> d < q

\* The continuous extension (dense.rs) follows the solution inside the step to
\* the order it reports, as far as the method does, at every point and however
\* often it is moved; after a GEAR52A step it lies on the polynomial the
\* formula fits.
DenseOutputIsExact ==
    /\ probe # <<>> =>
        LET from == IF phase = "idle" THEN Minus(t, dt) ELSE t
            order == IF DenseOrder - 1 < tab.n THEN DenseOrder - 1 ELSE tab.n
        IN  Follows(engine.x, order, from, Plus(from, Times(probe[1], dt)))
    /\ phase = "idle" /\ Multistep /\ engine.open =>
        \A d \in 0 .. Gear!ActiveOrder([engine EXCEPT !.target = engine.order]),
           theta \in {Q(1, 2), Q(2, 3)} :
            InterpHistory(engine.order, Past(d), engine.dts, Power(t, d), theta)
                = Power(Minus(t, Times(Minus(1, theta), dt)), d)

\* The emitted C takes the step of the runtime, to the same state and with the
\* same error estimate (codegen/solver.rs: "numerically identical"), except
\* under DIRK2 (see the README).
GeneratedStepsAgree ==
    phase \in {"verdict", "rejected"} /\ probe = <<>> /\ form = "ode" /\ ~Multistep
            /\ tab.final = <<>> /\ engine.stage = Stages(tab)
        => LET kernel == KernelStep(engine.history[1], t, dt)
           IN  /\ kernel.x = engine.x
               /\ IsAdaptive(tab) => ErrorEstimate(kernel.ks, dt) = ErrorEstimate(engine.ks, dt)

=============================================================================
