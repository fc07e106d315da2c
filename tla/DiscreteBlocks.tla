---------------------------- MODULE DiscreteBlocks ----------------------------
(***************************************************************************)
(* The sampled blocks of src/blocks/constructors/discrete.rs, and those of *)
(* nonlinear.rs and sources.rs that events switch, each written twice      *)
(* there: as closures over shared cells, which the interpreted run calls,  *)
(* and as memory slots, an output region and an event effect, which the    *)
(* compiler reads.  For a block b                                          *)
(*                                                                         *)
(*   ...Fresh, ...Reset   what the closures keep, when built and on reset  *)
(*   ...Fire, ...Sample   the event's action and the sample at a step's    *)
(*                        end                                              *)
(*   ...Memory, ...Effect the slots and what an event assigns to them      *)
(*                                                                         *)
(* A frame is the sequence of a port's channels.  Times are counted in     *)
(* ticks and values are integers; b.period is a divisor of the values that *)
(* a block divides by it.                                                  *)
(***************************************************************************)
EXTENDS Integers, Sequences, SequencesExt

Zeros(n) == [i \in 1 .. n |-> 0]
Larger(a, b) == IF a > b THEN a ELSE b
Smaller(a, b) == IF a < b THEN a ELSE b
Clamp(v, lo, hi) == Smaller(Larger(v, lo), hi)

\* A frame read as one of width w or more: missing channels are zero.
Widened(s, w) == [i \in 1 .. Larger(Len(s), w) |-> IF i <= Len(s) THEN s[i] ELSE 0]

\* Register::set_single on each channel of a held frame.
HeldVecUpdate(out, held) ==
    [i \in 1 .. Larger(Len(out), Len(held)) |-> IF i <= Len(held) THEN held[i] ELSE out[i]]

Weighted(c, s) == FoldLeft(LAMBDA a, i : a + c[i] * s[i], 0, [i \in DOMAIN c |-> i])
Matvec(M, v) == [r \in DOMAIN M |-> Weighted(M[r], v)]
Added(v, w) == [i \in DOMAIN v |-> v[i] + w[i]]

-----------------------------------------------------------------------------
(* Delay, with a sampling period: frames one longer than the delay.        *)

DelayFrames(b) == Larger(1, (2 * b.tau + b.period) \div (2 * b.period))

DelayFresh(b) == [ring |-> [i \in 1 .. DelayFrames(b) |-> <<0>>], sampling |-> FALSE]

DelayReset(b, m) == [m EXCEPT !.ring = DelayFresh(b).ring]

DelayUpdate(m, out) == IF m.ring = <<>> THEN out ELSE HeldVecUpdate(out, Head(m.ring))

\* (Mutant: a frame is dropped before the ring is one longer than the delay.)
DelayFireEarly(b, m) == [ring |-> Tail(m.ring), sampling |-> TRUE]

\* The event publishes the oldest frame that is due, the sample appends.
DelayFire(b, m) ==
    [ring |-> IF Len(m.ring) > DelayFrames(b) THEN Tail(m.ring) ELSE m.ring,
     sampling |-> TRUE]

DelaySample(m, u) ==
    IF m.sampling THEN [ring |-> Append(m.ring, u), sampling |-> FALSE] ELSE m

DelayMemory(b, w) == <<Zeros((DelayFrames(b) + 1) * w)>>
DelayEffect(mem, u) == <<SubSeq(mem[1], Len(u) + 1, Len(mem[1])) \o u>>

-----------------------------------------------------------------------------
(* SampleHold and Wrapper: a frame kept from one event to the next.        *)

SampleHoldFire(u) == [held |-> u]
SampleHoldEffect(u) == <<u>>

\* The wrapped function is the user's; Wrapped stands for it.
Wrapped(u) == <<Weighted([i \in DOMAIN u |-> i], u)>>
WrapperFire(u) == [held |-> Wrapped(u)]

-----------------------------------------------------------------------------
(* FIR: the newest frame first.                                            *)

FirFresh(b) == [held |-> <<>>, buffer |-> [i \in DOMAIN b.coeffs |-> <<>>]]

FirFire(b, m, u) ==
    LET past == [i \in DOMAIN m.buffer |->
                    IF Len(m.buffer[i]) = Len(u) THEN m.buffer[i] ELSE Zeros(Len(u))]
        buffer == SubSeq(<<u>> \o past, 1, Len(b.coeffs))
    IN  [buffer |-> buffer,
         held |-> [i \in DOMAIN u |->
                      Weighted(b.coeffs, [k \in DOMAIN buffer |-> buffer[k][i]])]]

FirMemory(b, w) == <<Zeros(Len(b.coeffs) * w), Zeros(w)>>

FirEffect(b, mem, u) ==
    LET w == Len(u)
        old == mem[1]
    IN  <<u \o SubSeq(old, 1, Len(old) - w),
          [i \in 1 .. w |-> Weighted(b.coeffs,
              [k \in DOMAIN b.coeffs |-> IF k = 1 THEN u[i] ELSE old[(k - 2) * w + i]])]>>

-----------------------------------------------------------------------------
(* ADC and DAC: bit i on port i.  Floating-point floor and division here   *)
(* are exact on the codes, the closure shifts an integer.                  *)

Bit(code, i) == (code \div 2^i) % 2
AdcCode(b, u) ==
    Smaller(((Clamp(u, b.lo, b.hi) - b.lo) * 2^b.bits) \div (b.hi - b.lo), 2^b.bits - 1)

AdcFire(b, u) == [held |-> [i \in 1 .. b.bits |-> Bit(AdcCode(b, u[1]), i - 1)]]

AdcEffect(b, u) ==
    LET code == AdcCode(b, u[1])
    IN  <<[i \in 1 .. b.bits |-> code \div 2^(i - 1) - 2 * (code \div 2^i)]>>

DacValue(b, code) == b.lo + ((b.hi - b.lo) * code) \div (2^b.bits - 1)

DacFire(b, u) ==
    LET set == {i \in 1 .. b.bits : u[i] > 0}
    IN  [held |-> <<DacValue(b, SumSet({2^(i - 1) : i \in set}))>>]

DacEffect(b, u) ==
    <<<<DacValue(b, Weighted([i \in 1 .. b.bits |-> 2^(i - 1)],
                             [i \in 1 .. b.bits |-> IF u[i] > 0 THEN 1 ELSE 0]))>>>>

-----------------------------------------------------------------------------
(* FirstOrderHold: a line through the two latest frames.                   *)

FirstOrderHoldFresh(b) == [prev |-> <<>>, curr |-> <<>>, at |-> b.phase, taken |-> 0]

Line(prev, curr, period, dt) ==
    [i \in DOMAIN curr |-> curr[i] + ((curr[i] - prev[i]) * dt) \div period]

FirstOrderHoldUpdate(b, m, out, t) ==
    HeldVecUpdate(out, IF m.taken < 2 THEN m.curr
                       ELSE Line(m.prev, m.curr, b.period, t - m.at))

FirstOrderHoldFire(m, u, t) ==
    [prev |-> m.curr, curr |-> u, at |-> t, taken |-> m.taken + 1]

FirstOrderHoldMemory(b, w) == <<Zeros(w), Zeros(w), <<b.phase>>, <<0>>>>

FirstOrderHoldAlg(b, mem, t) ==
    IF mem[4][1] >= 2 THEN Line(mem[1], mem[2], b.period, t - mem[3][1]) ELSE mem[2]

FirstOrderHoldEffect(mem, u, t) == <<mem[2], u, <<t>>, <<mem[4][1] + 1>>>>

-----------------------------------------------------------------------------
(* DiscreteIntegrator: the state as it was is held, then advanced.         *)

DiscreteIntegratorFresh(b) == [held |-> b.initial, state |-> b.initial]

DiscreteIntegratorFire(b, m, u) ==
    LET state == Widened(m.state, Len(u))
    IN  [held |-> state,
         state |-> [i \in DOMAIN state |->
                       IF i <= Len(u) THEN state[i] + b.period * u[i] ELSE state[i]]]

DiscreteIntegratorMemory(b) == <<b.initial, b.initial>>

DiscreteIntegratorEffect(b, mem, u) ==
    <<[i \in DOMAIN mem[1] |-> mem[1][i] + b.period * u[i]], mem[1]>>

(* DiscreteDerivative: the difference to the previous frame.               *)

DiscreteDerivativeFresh == [held |-> <<>>, prev |-> <<>>]

DiscreteDerivativeFire(b, m, u) ==
    LET prev == Widened(m.prev, Len(u))
    IN  [held |-> [i \in DOMAIN u |-> (u[i] - prev[i]) \div b.period], prev |-> u]

DiscreteDerivativeMemory(w) == <<Zeros(w), Zeros(w)>>

DiscreteDerivativeEffect(b, mem, u) ==
    <<[i \in DOMAIN u |-> (u[i] - mem[2][i]) \div b.period], u>>

-----------------------------------------------------------------------------
(* DiscreteStateSpace, and DiscreteTransferFunction by its realization.    *)

DiscreteStateSpaceFresh(b) == [held |-> Zeros(Len(b.C)), state |-> b.initial]

DiscreteStateSpaceFire(b, m, u0) ==
    LET u == Widened(u0, Len(b.D[1]))
    IN  [held |-> Added(Matvec(b.C, m.state), Matvec(b.D, u)),
         state |-> Added(Matvec(b.A, m.state), Matvec(b.B, u))]

DiscreteStateSpaceMemory(b) == <<b.initial, Zeros(Len(b.C))>>

DiscreteStateSpaceEffect(b, mem, u) ==
    <<Added(Matvec(b.A, mem[1]), Matvec(b.B, u)),
      Added(Matvec(b.C, mem[1]), Matvec(b.D, u))>>

-----------------------------------------------------------------------------
(* TappedDelay: the present and the past samples side by side.             *)

TappedDelayFresh(b) == [held |-> Zeros(b.taps), buffer |-> Zeros(b.taps)]

TappedDelayFire(b, m, u) ==
    LET buffer == SubSeq(<<u[1]>> \o m.buffer, 1, b.taps)
    IN  [held |-> buffer, buffer |-> buffer]

TappedDelayMemory(b) == <<Zeros(b.taps)>>
TappedDelayEffect(b, mem, u) == <<[i \in 1 .. b.taps |-> IF i = 1 THEN u[1] ELSE mem[1][i - 1]]>>

-----------------------------------------------------------------------------
(* Events.  The blocks of nonlinear.rs and sources.rs whose output is      *)
(* switched by events or by the time alone, written twice like the others. *)

Periodic(period, phase) == [kind |-> "periodic", period |-> period, phase |-> phase]
FixedTimes(times) == [kind |-> "list", times |-> times]
Crossing(direction, threshold) ==
    [kind |-> "crossing", direction |-> direction, threshold |-> threshold]

-----------------------------------------------------------------------------
(* Comparator and Switch select; the Comparator's own crossing has no      *)
(* action, it only makes an adaptive run stop there.                       *)

ComparatorUpdate(b, out, u) ==
    [out EXCEPT ![1] = IF u[1] >= b.threshold THEN b.high ELSE b.low]
ComparatorAlg(b, u) == <<IF u[1] >= b.threshold THEN b.high ELSE b.low>>

\* The position is the user's to change, -1 when open.
SwitchFresh(b) == [position |-> b.initial]

SwitchUpdate(m, out, u) ==
    [out EXCEPT ![1] = IF m.position >= 0 /\ m.position < Len(u) THEN u[m.position + 1] ELSE 0]

SwitchMemory(b) == <<<<b.initial>>>>
SwitchAlg(mem, u) ==
    LET hit == {k \in DOMAIN u : mem[1][1] = k - 1}
    IN  <<IF hit = {} THEN 0 ELSE u[CHOOSE k \in hit : TRUE]>>

-----------------------------------------------------------------------------
(* Relay: up at one threshold, down at the other.                          *)

RelayEvents(b) == <<Crossing("up", b.up), Crossing("down", b.down)>>
RelayFresh(b) == [held |-> <<b.valueDown>>]
RelayFire(b, e) == [held |-> <<IF e = 1 THEN b.valueUp ELSE b.valueDown>>]

RelayMemory(b) == <<<<b.valueDown>>>>
RelayEffect(b, e) == <<<<IF e = 1 THEN b.valueUp ELSE b.valueDown>>>>

(* Counter, CounterUp, CounterDown: the interpreted block shows how often  *)
(* its event has been resolved, the compiled one counts.                   *)

CounterEvents(b) == <<Crossing(b.direction, b.threshold)>>
CounterUpdate(b, out, fired) == [out EXCEPT ![1] = b.start + fired]

CounterMemory == <<<<0>>>>
CounterAlg(b, mem) == <<b.start + mem[1][1]>>
CounterEffect(mem) == <<<<mem[1][1] + 1>>>>

-----------------------------------------------------------------------------
(* StepSource: the next amplitude at each of its times.                    *)

StepSourceEvents(b) == <<FixedTimes(b.times)>>
StepSourceFresh == [held |-> <<0>>, next |-> 1]

StepSourceFire(b, m) ==
    IF m.next <= Len(b.amplitudes)
    THEN [held |-> <<b.amplitudes[m.next]>>, next |-> m.next + 1]
    ELSE m

StepSourceMemory == <<<<0>>, <<0>>>>

StepSourceEffect(b, mem) ==
    LET hit == {k \in DOMAIN b.amplitudes : mem[2][1] = k - 1}
    IN  <<IF hit = {} THEN mem[1] ELSE <<b.amplitudes[CHOOSE k \in hit : TRUE]>>,
          <<mem[2][1] + 1>>>>

-----------------------------------------------------------------------------
(* PulseSource: four phases, each begun by an event of its own.            *)

PulsePhases == <<"rising", "high", "falling", "low">>

PulseStarts(b) ==
    LET high == b.tau + b.rise
        fall == high + b.plateau
    IN  <<b.tau, high, fall, fall + b.fall>>

PulseSourceEvents(b) ==
    [p \in 1 .. 4 |-> Periodic(b.period, Larger(PulseStarts(b)[p], 0))]

PulseSourceFresh(b) == [phase |-> "low", since |-> b.tau]

PulseSourceFire(p, t) == [phase |-> PulsePhases[p], since |-> t]

PulseSourceUpdate(b, m, out, t) ==
    LET dt == t - m.since
        ramp(edge) == (b.amplitude * Clamp(dt, 0, edge)) \div edge
    IN  [out EXCEPT ![1] =
            CASE m.phase = "rising" -> IF b.rise > 0 THEN ramp(b.rise) ELSE b.amplitude
              [] m.phase = "high" -> b.amplitude
              [] m.phase = "falling" -> IF b.fall > 0 THEN b.amplitude - ramp(b.fall) ELSE 0
              [] m.phase = "low" -> 0]

\* Phases by number: 0 low, 1 rising, 2 high, 3 falling.  With no edge the
\* quotient is not a number or infinite, and its minimum with one is one.
PulseSourceMemory(b) == <<<<0>>, <<b.tau>>>>

PulseSourceAlg(b, mem, t) ==
    LET dt == t - mem[2][1]
        part(edge) == IF edge = 0 THEN b.amplitude
                      ELSE Smaller((b.amplitude * dt) \div edge, b.amplitude)
    IN  <<CASE mem[1][1] = 1 -> part(b.rise)
            [] mem[1][1] = 2 -> b.amplitude
            [] mem[1][1] = 3 -> b.amplitude - part(b.fall)
            [] OTHER -> 0>>

PulseSourceEffect(p, t) == <<<<p % 4>>, <<t>>>>

-----------------------------------------------------------------------------
(* Sources that are a formula in the time, shared by closure and region.   *)
(* A period is a whole number of ticks, so the phase never lies a rounding *)
(* error below a boundary and the correction for that adds nothing.        *)

SquareEval(b, t) == IF 2 * ((t + b.tau) % b.period) < b.period THEN b.amplitude ELSE -b.amplitude
ClockEval(b, t) == IF 2 * (t % b.period) < b.period THEN 1 ELSE 0
TriangleEval(b, t) ==
    LET part == (t + b.tau) % b.period
    IN  (b.amplitude * (2 * Smaller(part, b.period - part) - b.period)) \div b.period

\* Deadband is a formula in its input.
DeadbandEval(b, u) == u[1] - Clamp(u[1], b.lower, b.upper)

=============================================================================
