----------------------------- MODULE Simulation -----------------------------
(***************************************************************************)
(* The run loop of src/simulation.rs: run / run_begin / run_until / run_end *)
(* drive timestep(), which buffers, lets the solver stages advance the     *)
(* state, detects events over the step, and then either commits the step   *)
(* (resolve, sample, advance time) or reverts it for a retry with another  *)
(* dt (_advance_dt).                                                       *)
(*                                                                         *)
(* The numerics are abstracted to their outcomes: an accepted step moves   *)
(* each active block to any level within dt of the old one, a rejected     *)
(* step or a Newton failure only yields a scale factor.  User callbacks    *)
(* may do what the API lets them: stop the run, set a state, switch an     *)
(* event or a block.                                                       *)
(***************************************************************************)
EXTENDS Events, FiniteSets

CONSTANTS
    Block,          \* the dynamic blocks
    Level,          \* the grid of state values, a finite set of integers
    InitialLevel,   \* [Block -> Level], the initial values
    Owner,          \* [Event -> Block \cup {NoValue}]: whose internal event it is
    Dt, DtMin, DtMax,
    Implicit,       \* the solver runs Newton iterations that may fail
    DenseEvents,    \* the solvers expose a dense output to localize events with
    FloorFails,     \* a step of width DtMin may still be rejected
    Scales,         \* step-size factors an accepted step may return
    Durations,      \* run lengths
    Modes,          \* the values of run's adaptive flag
    Chunked,        \* the values of "driven by run_begin / run_until"
    Resets,         \* the values of run's reset flag
    Effects,        \* subset of {"set", "switch", "block", "stop"}
    MaxRuns         \* bound on the number of runs

ASSUME SourceAssumption ==
    /\ Source \in [Event -> Block \cup {Clock}]
    /\ Owner \in [Event -> Block \cup {NoValue}]

ASSUME NameAssumption ==
    /\ NoValue \notin Int
    /\ NoValue \notin Block
    /\ Clock \notin Block

ASSUME StepAssumption ==
    /\ Level \subseteq Int /\ 0 \in Level
    /\ InitialLevel \in [Block -> Level]
    /\ Dt \in Nat \ {0} /\ DtMin \in Nat \ {0} /\ DtMax \in Nat
    /\ DtMin <= DtMax
    /\ Scales \subseteq Nat \X (Nat \ {0})
    /\ Durations \subseteq Nat
    /\ MaxRuns \in Nat
    /\ Modes \subseteq BOOLEAN /\ Chunked \subseteq BOOLEAN /\ Resets \subseteq BOOLEAN

VARIABLES
    pc,         \* where the run loop stands
    time,       \* Simulation.time
    dt,         \* the working timestep (run's local dt, _run_dt when chunked)
    active,     \* Simulation._active
    stop,       \* the thread-local STOP_REQUESTED
    run,        \* the current run: start, end, target of the chunk, adaptive
    runs,       \* number of runs begun
    x,          \* engine state of each block
    hist,       \* the state buffered for a revert, NoValue when none
    on,         \* Block._active
    out,        \* block outputs, as of the last _update
    ev,         \* event states: active flag, history, recorded times
    pending,    \* detected events still to be resolved
    result,     \* what timestep returned: zero error?, scale, rejected?
    sampled,    \* time and outputs of the last sample
    base        \* history variable: state, outputs and event times at _buffer

vars == <<pc, time, dt, active, stop, run, runs, x, hist, on, out, ev, pending,
          result, sampled, base>>

-----------------------------------------------------------------------------
(* _update: every active block's outputs follow its state; switching a     *)
(* block off has reset its outputs.                                        *)
Outputs(s, a) == [b \in Block |-> IF a[b] THEN s[b] ELSE 0]

Scaled(d, p) == (d * p[1]) \div p[2]

NoTimes == [e \in Event |-> <<>>]
Times(evs) == [e \in Event |-> evs[e].times]

Dynamic == {b \in Block : on[b]}

-----------------------------------------------------------------------------
(* _detect_into_scratch *)

Detected(evs, o, t) ==
    {e \in Event : evs[e].active /\ Due(e, evs[e], Reading(e, o, t), t)}

DetectedAll(evs) ==
    [e \in Event |-> IF evs[e].active THEN AfterDetect(e, evs[e]) ELSE evs[e]]

IsClose(e, o, t) == Close(e, ev[e], Reading(e, o, t), t)
RatioOf(e, evs, o, t) == Ratio(e, evs[e], Reading(e, o, t), t)

\* The order of the sorted scratch: by ratio, then by position.
Precedes(d, f) ==
    \/ Earlier(d.ratio, f.ratio)
    \/ ~Earlier(f.ratio, d.ratio) /\ d.evt < f.evt

Earliest(D) == {d \in D : \A f \in D \ {d} : Precedes(d, f)}

-----------------------------------------------------------------------------
(* A user callback: what an event action, called with the events evs, may  *)
(* leave behind.                                                           *)
SwitchedOff(evs, b) ==
    [e \in Event |-> IF Owner[e] = b THEN [evs[e] EXCEPT !.active = FALSE] ELSE evs[e]]

May(effect, S) == IF effect \in Effects THEN S ELSE {}

Idle(evs) == [x |-> x, on |-> on, ev |-> evs, stop |-> stop]

SetsState(evs) ==
    {[Idle(evs) EXCEPT !.x = [x EXCEPT ![b] = v]] : b \in May("set", Block), v \in Level}

SwitchesEvent(evs) ==
    {[Idle(evs) EXCEPT !.ev = [evs EXCEPT ![f].active = a]] :
        f \in May("switch", Event), a \in BOOLEAN}

Switched(evs, b, a) ==
    [x |-> x, on |-> [on EXCEPT ![b] = a],
     ev |-> IF a THEN evs ELSE SwitchedOff(evs, b), stop |-> stop]

SwitchesBlock(evs) == {Switched(evs, b, a) : b \in May("block", Block), a \in BOOLEAN}

StopsRun(evs) == {[Idle(evs) EXCEPT !.stop = s] : s \in May("stop", {TRUE})}

Callback(evs) ==
    {Idle(evs)} \cup SetsState(evs) \cup SwitchesEvent(evs) \cup SwitchesBlock(evs)
                \cup StopsRun(evs)

\* resolve of event e at time t: record, call the action, disarm a Condition.
Resolve(e, t) ==
    \E c \in Callback([ev EXCEPT ![e] = Recorded(e, @, t)]) :
        /\ x' = c.x
        /\ on' = c.on
        /\ stop' = c.stop
        /\ ev' = [c.ev EXCEPT ![e] = Disarmed(e, @)]

\* A block update may request a stop whenever the system is evaluated.
UpdateMayStop == stop' \in {stop} \cup May("stop", {TRUE})

\* Mutant: the request is observed but not taken.
PeekStop ==
    /\ active' = (active /\ ~stop)
    /\ stop' = stop

\* take_stop_requested: observe and clear the request.
TakeStop ==
    /\ active' = (active /\ ~stop)
    /\ stop' = FALSE

-----------------------------------------------------------------------------
(* Starting a run *)

Init ==
    /\ pc = "idle"
    /\ time = 0
    /\ dt = Dt
    /\ active = TRUE
    /\ stop = FALSE
    /\ run = [start |-> 0, end |-> 0, target |-> 0, adaptive |-> FALSE, chunked |-> FALSE]
    /\ runs = 0
    /\ x = InitialLevel
    /\ hist = [b \in Block |-> NoValue]
    /\ on = [b \in Block |-> TRUE]
    /\ out = [b \in Block |-> 0]
    /\ ev = [e \in Event |-> FreshEvent]
    /\ pending = {}
    /\ result = [noError |-> TRUE, scale |-> <<1, 1>>, rejected |-> FALSE]
    /\ sampled = [t |-> 0, out |-> [b \in Block |-> 0]]
    /\ base = [x |-> InitialLevel, out |-> [b \in Block |-> 0], times |-> NoTimes]

\* The event states a run starts from.
ResetEvents(reset) == IF reset THEN [e \in Event |-> FreshEvent] ELSE ev

\* run or run_begin, as the Python wrapper calls it: clear the stop signal,
\* reset if asked to, evaluate the system, detect the events of this instant.
Begin(duration, adaptive, reset, chunked) ==
    LET t  == IF reset THEN 0 ELSE time
        s  == IF reset THEN InitialLevel ELSE x
        es == ResetEvents(reset)
        o  == Outputs(s, on)
    IN  /\ pc = "idle" /\ runs < MaxRuns
        /\ pc' = "initial"
        /\ runs' = runs + 1
        /\ time' = t
        /\ dt' = Dt
        /\ active' = TRUE
        /\ stop' \in {FALSE} \cup May("stop", {TRUE})
        /\ run' = [start |-> t, end |-> t + duration,
                   target |-> IF chunked THEN t ELSE t + duration,
                   adaptive |-> adaptive, chunked |-> chunked]
        /\ x' = s
        /\ hist' = IF reset THEN [b \in Block |-> NoValue] ELSE hist
        /\ out' = o
        /\ ev' = DetectedAll(es)
        /\ pending' = {[evt |-> e, ratio |-> RatioOf(e, es, o, t), at |-> t] :
                          e \in Detected(es, o, t)}
        /\ UNCHANGED <<on, result, sampled, base>>

\* _resolve_initial_events: resolve at the start time, one _update after each.
ResolveInitial ==
    /\ pc = "initial"
    /\ \E d \in Earliest(pending) :
          /\ Resolve(d.evt, d.at)
          /\ pending' = pending \ {d}
    /\ out' = Outputs(x', on')
    /\ UNCHANGED <<pc, time, dt, active, run, runs, hist, result, sampled, base>>

InitialDone ==
    /\ pc = "initial" /\ pending = {}
    /\ TakeStop
    /\ sampled' = [t |-> time, out |-> out]
    /\ pc' = IF run.chunked THEN "paused" ELSE "loop"
    /\ UNCHANGED <<time, dt, run, runs, x, hist, on, out, ev, pending, result, base>>

-----------------------------------------------------------------------------
(* The loop bound *)

\* run_continues; on the grid the rounding clause of fixed steps is exact.
RunContinues == active /\ time < run.end

\* run_until also stops at the boundary of its chunk.
Continues == RunContinues /\ (run.chunked => time < run.target)

LoopExit ==
    /\ pc = "loop" /\ ~Continues
    /\ pc' = IF run.chunked THEN "paused" ELSE "idle"
    /\ UNCHANGED <<time, dt, active, stop, run, runs, x, hist, on, out, ev, pending,
                   result, sampled, base>>

\* run_until for the next chunk of the streaming generator.
RunUntil(target) ==
    /\ pc = "paused" /\ RunContinues
    /\ target \in (time + 1) .. run.end
    /\ run' = [run EXCEPT !.target = target]
    /\ pc' = "loop"
    /\ UNCHANGED <<time, dt, active, stop, runs, x, hist, on, out, ev, pending,
                   result, sampled, base>>

\* Simulation.stop, called between two chunks.
Stop ==
    /\ pc = "paused" /\ "stop" \in Effects
    /\ active' = FALSE
    /\ UNCHANGED <<pc, time, dt, stop, run, runs, x, hist, on, out, ev, pending,
                   result, sampled, base>>

\* The generator ends once the loop bound fails.
RunEnd ==
    /\ pc = "paused" /\ ~RunContinues
    /\ pc' = "idle"
    /\ UNCHANGED <<time, dt, active, stop, run, runs, x, hist, on, out, ev, pending,
                   result, sampled, base>>

-----------------------------------------------------------------------------
(* timestep *)

\* _buffer: active events first, reading the committed outputs, then states.
Buffer ==
    /\ pc = "loop" /\ Continues
    /\ pc' = "stages"
    /\ ev' = [e \in Event |->
                 IF ev[e].active THEN Buffered(e, ev[e], Reading(e, out, time), time)
                 ELSE ev[e]]
    /\ hist' = [b \in Block |-> IF on[b] THEN x[b] ELSE hist[b]]
    /\ base' = [x |-> x, out |-> out, times |-> Times(ev)]
    /\ UNCHANGED <<time, dt, active, stop, run, runs, x, on, out, pending, result, sampled>>

\* _revert: pop the buffered states of the active blocks, then _update.
Reverted == [b \in Block |-> IF on[b] /\ hist[b] # NoValue THEN hist[b] ELSE x[b]]

\* Mutant: the outputs keep what the last stage computed.
RevertUnevaluated ==
    /\ x' = Reverted
    /\ hist' = [b \in Block |-> IF on[b] THEN NoValue ELSE hist[b]]
    /\ out' = out

Revert ==
    /\ x' = Reverted
    /\ hist' = [b \in Block |-> IF on[b] THEN NoValue ELSE hist[b]]
    /\ out' = Outputs(x', on)

\* A step the solver gives up on can be retried while dt can still shrink.
MayFail == run.adaptive /\ Dynamic # {} /\ (FloorFails \/ dt > DtMin)

\* An implicit stage whose Newton iteration does not converge: return 0.5.
SolveFails ==
    /\ pc = "stages" /\ Implicit /\ MayFail
    /\ UpdateMayStop
    /\ Revert
    /\ result' = [noError |-> TRUE, scale |-> <<1, 2>>, rejected |-> TRUE]
    /\ pc' = "advance"
    /\ UNCHANGED <<time, dt, active, run, runs, on, ev, pending, sampled, base>>

\* The error controller rejects the step.
StepRejected ==
    /\ pc = "stages" /\ MayFail
    /\ UpdateMayStop
    /\ Revert
    /\ result' = [noError |-> FALSE, scale |-> <<1, 2>>, rejected |-> TRUE]
    /\ pc' = "advance"
    /\ UNCHANGED <<time, dt, active, run, runs, on, ev, pending, sampled, base>>

\* All stages done (also unconverged ones of a fixed step), then the _update
\* at the end of the step.
StagesDone ==
    /\ pc = "stages"
    /\ x' \in {s \in [Block -> Level] : \A b \in Block :
                  IF on[b] THEN Magnitude(s[b] - x[b]) <= dt ELSE s[b] = x[b]}
    /\ UpdateMayStop
    /\ out' = Outputs(x', on)
    /\ \E p \in (IF Dynamic = {} THEN {<<1, 1>>} ELSE Scales) :
          result' = [noError |-> Dynamic = {}, scale |-> p, rejected |-> FALSE]
    /\ pc' = "detect"
    /\ UNCHANGED <<time, dt, active, run, runs, hist, on, ev, pending, sampled, base>>

Found == Detected(ev, out, time + dt)
AllClose(D, o, t) == \A e \in D : IsClose(e, o, t)
\* dt is pinned at dt_min: resolve rather than retry.  (Mutants: never, always.)
NoStepFloor == FALSE
EverAtStepFloor == run.adaptive
AtStepFloor == run.adaptive /\ dt <= DtMin
MustRetry == run.adaptive /\ ~AtStepFloor /\ ~AllClose(Found, out, time + dt)

\* The earliest event that is not close: the secant (or bisection) retry.
SecantRatios ==
    {d.ratio : d \in Earliest(
        {[evt |-> e, ratio |-> RatioOf(e, ev, out, time + dt)] :
            e \in {f \in Found : ~IsClose(f, out, time + dt)}})}

\* _localize_events_theta: probes of the step interpolant at which something
\* is detected and all of it is close.
Interpolated(s) ==
    Outputs([b \in Block |-> IF on[b] /\ hist[b] # NoValue
                             THEN hist[b] + ((x[b] - hist[b]) * s) \div dt
                             ELSE x[b]], on)
\* (Mutant: a probe is taken without asking whether the event is close there.)
UncheckedProbes == 1 .. dt
Probes ==
    {s \in 1 .. (dt - 1) :
        LET D == Detected(ev, Interpolated(s), time + s)
        IN  D # {} /\ AllClose(D, Interpolated(s), time + s)}
RetryRatios ==
    SecantRatios \cup (IF DenseEvents THEN {<<s, dt>> : s \in Probes} ELSE {})

\* _resolve_events, first phase: something fired but is not localized yet, so
\* nothing is resolved, and the step is taken back.
\* (Mutant: in one phase, the close events are resolved before the retry.)
RetryInOnePhase ==
    /\ pc = "detect" /\ MustRetry
    /\ \E p \in SecantRatios :
          result' = [result EXCEPT !.scale = p, !.rejected = TRUE]
    /\ Revert
    /\ ev' = [e \in Event |-> IF e \in Found /\ IsClose(e, out, time + dt)
                              THEN Recorded(e, ev[e], time + dt) ELSE ev[e]]
    /\ TakeStop
    /\ pc' = "advance"
    /\ UNCHANGED <<time, dt, run, runs, on, pending, sampled, base>>

RetryAtEvent ==
    /\ pc = "detect" /\ MustRetry
    /\ \E p \in RetryRatios :
          result' = [result EXCEPT !.scale = p, !.rejected = TRUE]
    /\ Revert
    /\ ev' = DetectedAll(ev)
    /\ TakeStop
    /\ pc' = "advance"
    /\ UNCHANGED <<time, dt, run, runs, on, pending, sampled, base>>

\* Second phase: everything is close (resolve at the step end), or the step is
\* at its floor or fixed (resolve at the interpolated times).
\* (Mutant: interpolated from the wrong end.)
LandingBeyond(e) == time + dt + Scaled(dt, RatioOf(e, ev, out, time + dt))
LandingTime(e) ==
    IF run.adaptive /\ AllClose(Found, out, time + dt) THEN time + dt
    ELSE time + Scaled(dt, RatioOf(e, ev, out, time + dt))

AcceptEvents ==
    /\ pc = "detect" /\ ~MustRetry
    /\ pending' = {[evt |-> e, ratio |-> RatioOf(e, ev, out, time + dt),
                    at |-> LandingTime(e)] : e \in Found}
    /\ ev' = DetectedAll(ev)
    /\ pc' = "resolve"
    /\ UNCHANGED <<time, dt, active, stop, run, runs, x, hist, on, out, result, sampled, base>>

ResolveEvent ==
    /\ pc = "resolve"
    /\ \E d \in Earliest(pending) :
          /\ Resolve(d.evt, d.at)
          /\ pending' = pending \ {d}
    /\ UNCHANGED <<pc, time, dt, active, run, runs, hist, out, result, sampled, base>>

\* The rest of timestep: one _update, the stop check, sample, advance time.
Commit ==
    /\ pc = "resolve" /\ pending = {}
    /\ out' = Outputs(x, on)
    /\ TakeStop
    /\ sampled' = [t |-> time + dt, out |-> Outputs(x, on)]
    /\ time' = time + dt
    /\ pc' = IF run.adaptive THEN "advance" ELSE "loop"
    /\ UNCHANGED <<dt, run, runs, x, hist, on, ev, pending, result, base>>

-----------------------------------------------------------------------------
(* _advance_dt *)

\* _estimate_events: distances to the next ticks that lie ahead.
Estimates ==
    {NextTick(e, ev[e]) - time : e \in {f \in Event :
        ev[f].active /\ Scheduled(f) /\ NextTick(f, ev[f]) > time}}

Least(S) == {v \in S : \A w \in S : v <= w}

\* The step stays between dt_min and dt_max.
Clamped(d) == IF d < DtMin THEN DtMin ELSE IF d > DtMax THEN DtMax ELSE d

\* (Mutant: the end of the run is forgotten.)
UnendedDts ==
    LET nominal == IF result.noError /\ result.scale = <<1, 1>> THEN Dt ELSE dt
    IN  {Clamped(d) : d \in Least({Scaled(nominal, result.scale)} \cup Estimates)}

\* Rescale (or fall back to the nominal dt), then clamp: to the next event, to
\* the end of the run, to [dt_min, dt_max].  One element.
NextDts ==
    LET nominal == IF result.noError /\ result.scale = <<1, 1>> THEN Dt ELSE dt
        ended(d) == IF time + d > run.end THEN run.end - time ELSE d
    IN  {Clamped(ended(d)) : d \in Least({Scaled(nominal, result.scale)} \cup Estimates)}

AdvanceDt ==
    /\ pc = "advance"
    /\ dt' \in NextDts
    /\ pc' = "loop"
    /\ UNCHANGED <<time, active, stop, run, runs, x, hist, on, out, ev, pending,
                   result, sampled, base>>

-----------------------------------------------------------------------------
\* The steps a call of run or run_until takes by itself.
Progress ==
    \/ ResolveInitial \/ InitialDone \/ LoopExit \/ Buffer
    \/ SolveFails \/ StepRejected \/ StagesDone
    \/ RetryAtEvent \/ AcceptEvents \/ ResolveEvent \/ Commit
    \/ AdvanceDt

\* The steps its caller takes.
Caller ==
    \/ \E d \in Durations, a \in Modes, r \in Resets, c \in Chunked : Begin(d, a, r, c)
    \/ \E t \in (time + 1) .. run.end : RunUntil(t)
    \/ Stop
    \/ RunEnd

Next == Progress \/ Caller

Spec == Init /\ [][Next]_vars
FairSpec == Spec /\ WF_vars(Progress)

-----------------------------------------------------------------------------
TypeOK ==
    /\ pc \in {"idle", "initial", "loop", "paused", "stages", "detect", "resolve", "advance"}
    /\ time \in Nat
    /\ dt \in Nat \ {0}
    /\ active \in BOOLEAN /\ stop \in BOOLEAN
    /\ run \in [start : Nat, end : Nat, target : Nat, adaptive : BOOLEAN, chunked : BOOLEAN]
    /\ runs \in 0 .. MaxRuns
    /\ x \in [Block -> Level]
    /\ hist \in [Block -> Level \cup {NoValue}]
    /\ on \in [Block -> BOOLEAN]
    /\ out \in [Block -> Level]
    /\ ev \in [Event -> EventState]
    /\ pending \subseteq [evt : Event, ratio : RatioType, at : Nat]
    /\ result \in [noError : BOOLEAN, scale : RatioType, rejected : BOOLEAN]
    /\ sampled \in [t : Nat, out : [Block -> Level]]
    /\ base \in [x : [Block -> Level], out : [Block -> Level], times : [Event -> Seq(Int)]]

\* A rejected attempt leaves no trace: after a Newton failure, an error
\* rejection or an event retry, state, outputs and recorded event times are
\* those the step was begun with (_revert with its _update; the two-phase
\* resolution).
RejectionLeavesNoTrace ==
    pc = "advance" /\ result.rejected =>
        x = base.x /\ out = base.out /\ Times(ev) = base.times

\* The guard values a step's crossings are measured from belong to the state
\* a revert restores, also in the attempt right after a revert (_buffer reads
\* the block outputs, so _revert has to leave them evaluated).
GuardsReadCommittedState ==
    pc \in {"stages", "detect"} =>
        \A e \in Event : ev[e].active /\ ~Scheduled(e) =>
            /\ ev[e].at = time
            /\ ev[e].val = Reading(e, Outputs(Reverted, on), time)

\* No tick is lost: whenever the loop is between two steps, the next tick of an
\* active schedule lies ahead of the clock (detect, the retry at its ratio and
\* the clamp of _advance_dt together).  Only for periods no shorter than a step.
NoTickMissed ==
    pc \in {"loop", "paused", "advance"} =>
        \A e \in Event : Scheduled(e) /\ ev[e].active =>
            NextTick(e, ev[e]) > time \/ Exhausted(e, ev[e])

\* An adaptive run acts on a tick less than dt_min after it is due, whatever
\* step the run was taking when the tick came into its reach.
TicksOnTime ==
    pc = "resolve" /\ run.adaptive =>
        \A p \in pending : Scheduled(p.evt) =>
            time + dt - NextTick(p.evt, ev[p.evt]) < DtMin

\* The recorded times of an event never go back and never run ahead of the
\* clock, over retries, forced resolutions and continued runs.
TimesInOrder ==
    \A e \in Event :
        /\ \A i \in 1 .. (Len(ev[e].times) - 1) : ev[e].times[i] <= ev[e].times[i + 1]
        /\ pc # "resolve" => \A i \in DOMAIN ev[e].times : ev[e].times[i] <= time

\* A recording block sees the state after the events of the step, never a
\* half-resolved or rejected one (_update after the resolutions, _sample last).
SampleIsCommitted ==
    pc \in {"loop", "paused"} => sampled = [t |-> time, out |-> Outputs(x, on)]

\* A stop request that a callback left behind is gone before the next step
\* begins, unless the step it was raised in was rejected by the solver, which
\* returns before take_stop_requested.
StopObserved == pc = "loop" /\ stop => result.rejected

\* An adaptive run passes its end by less than dt_min, except when its very
\* first step is already longer than the run (_advance_dt's last clamp).
EndsInTime ==
    run.adaptive /\ time >= run.end + DtMin => time = run.start + Dt

\* A fixed-step run stops at the first step that reaches its end.
FixedEndsInTime == ~run.adaptive => time < run.end + Dt

\* A Condition is resolved at most once, whatever its action or a continued run
\* does, as long as nothing else switches it on again.
ConditionOneShot ==
    \A e \in Event : Kind[e] = "condition" => Len(ev[e].times) <= 1

\* The inductive invariant behind RejectionLeavesNoTrace, SampleIsCommitted,
\* GuardsReadCommittedState and StopObserved.
\* Outputs are evaluated wherever the loop may buffer or sample next.
Settled == pc \in {"initial", "loop", "paused", "advance"} => out = Outputs(x, on)

\* While a step is being tried, the buffers hold all that it started from.
Undoable ==
    pc \in {"stages", "detect"} =>
        /\ base.x = [b \in Block |-> IF on[b] THEN hist[b] ELSE x[b]]
        /\ base.out = Outputs(base.x, on)
        /\ base.times = Times(ev)
        /\ sampled = [t |-> time, out |-> base.out]
        /\ \A e \in Event : ev[e].active /\ ~Scheduled(e) =>
              ev[e].at = time /\ ev[e].val = Reading(e, base.out, time)

Accepted == pc \in {"detect", "resolve"} => ~result.rejected
Seen == pc \in {"loop", "paused", "advance"} => sampled = [t |-> time, out |-> out]
StopTaken == pc \in {"loop", "paused", "advance"} /\ stop => result.rejected

CommitInv ==
    Settled /\ Undoable /\ Accepted /\ Seen /\ StopTaken /\ RejectionLeavesNoTrace

\* A retry is strictly shorter than the attempt it replaces, until the step
\* floor is reached: what makes the event retries terminate.
RetryShrinks ==
    [][pc = "advance" /\ result.rejected => dt' < dt \/ dt <= DtMin]_vars

\* Every run that is left alone comes to its end, by reaching its end time or
\* by aborting at the step floor.
RunEnds == pc = "initial" ~> pc \in {"idle", "paused"}

-----------------------------------------------------------------------------
(* Implementation of HybridRun: the times recorded by the step under way   *)
(* show only once the clock has moved.                                     *)
Shown == IF pc = "resolve" THEN base.times ELSE Times(ev)

Run == INSTANCE HybridRun WITH
    Guard   <- {e \in Event : ~Scheduled(e)},
    clock   <- time,
    fired   <- Shown,
    seen    <- sampled.t

\* timestep is atomic: whatever attempts, retries and partial resolutions it
\* goes through, a run is a sequence of the steps of HybridRun.
ImplementsHybridRun == Run!Spec

=============================================================================
