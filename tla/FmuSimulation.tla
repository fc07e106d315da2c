----------------------------- MODULE FmuSimulation -----------------------------
(***************************************************************************)
(* A simulation of two FMU blocks, one for Model Exchange (MeFmu) and one  *)
(* for Co-Simulation (CsFmu), driven by the run loop of src/simulation.rs: *)
(* steps are tried, reverted when an event lies inside them, and committed *)
(* once the events at their end are resolved.  Times are on a grid whose   *)
(* unit is above every tolerance and above dt_min.                         *)
(***************************************************************************)
EXTENDS MeFmu, CsFmu

CONSTANTS
    Clocks,         \* the kinds of FMU, a subset of Clock
    Widths,         \* step widths an attempt may have
    MaxTime         \* bound on the time integrated

ASSUME FmuAssumption ==
    /\ Indicators \in Nat /\ Period \in Nat \ {0} /\ MaxTime \in Nat
    /\ Gaps \subseteq Nat \ {0} /\ Widths \subseteq Nat \ {0}
    /\ Clocks \subseteq Clock /\ Repeats \subseteq BOOLEAN
    /\ Never \in Nat /\ MaxTime < Never /\ \A g \in Gaps : MaxTime + g < Never
    /\ MaxJumps \in Nat

VARIABLES
    fmu,        \* the Model Exchange instance
    x,          \* the state of its block's engine
    base,       \* the state buffered for a revert
    list,       \* times_evt of its ScheduleList
    done,       \* how many of them have been resolved
    armed,      \* whether the list is active
    prev,       \* the buffered value of every indicator
    cs,         \* the Co-Simulation block and its instance
    ticks,      \* communication points resolved
    target,     \* the one being driven to
    time, dt,
    adaptive,
    phase,
    queue       \* the detected events left to resolve

vars == <<fmu, x, base, list, done, armed, prev, cs, ticks, target, time, dt,
          adaptive, phase, queue>>

Land == time + dt

\* The events, in the order of the blocks and within them.
TimeEvent == 0
Tick == Indicators + 1

Init ==
    /\ \E clock \in Clocks :
          /\ fmu \in Constructed(clock)
          /\ x = fmu.x
          /\ list = IF fmu.due # Never THEN <<fmu.due>> ELSE <<>>
    /\ base = x
    /\ done = 0
    /\ armed = TRUE
    /\ prev = [i \in Indicator |-> 0]
    /\ \E events, early, taylor \in BOOLEAN :
          cs = CsConstructed(CsInstantiated(events, early, taylor))
    /\ ticks = 0 /\ target = 0
    /\ time = 0 /\ dt = 0
    /\ adaptive \in BOOLEAN
    /\ phase = "start"
    /\ queue = <<>>

\* detect of the two schedules: at its place in the step, at the end of it, or
\* at its start when it has passed before.
Place(due) == IF due > time THEN due ELSE time
Found(event, due) ==
    IF due > Land THEN {}
    ELSE {[of |-> event, at |-> Place(due), close |-> due = Land \/ due <= time]}

\* detect of an indicator: exactly zero, or of the other sign.
Crossed(i) ==
    LET now == Value(fmu, i)
    IN  IF prev[i] > 0 /\ now <= 0
        THEN {[of |-> i, at |-> time + prev[i], close |-> now = 0]} ELSE {}

Detected ==
    (IF armed /\ done < Len(list) THEN Found(TimeEvent, list[done + 1]) ELSE {})
        \cup (UNION {Crossed(i) : i \in Indicator})
        \cup Found(Tick, ticks * Period)

\* A list that is through is switched off by its detect.
Exhausted == done >= Len(list)

Before(a, b) == a.at < b.at \/ (a.at = b.at /\ a.of < b.of)
InOrder(events) ==
    {q \in SeqOf(events, Indicators + 2) :
        ToSet(q) = events /\ \A i, j \in DOMAIN q : i < j => Before(q[i], q[j])}

\* The initial evaluation, the events detected at the start, then the sample.
Start ==
    /\ phase = "start"
    /\ fmu' = Evaluated(fmu, x, 0)
    /\ cs' = CsUpdated(cs, 0)
    /\ armed' = (armed /\ ~Exhausted)
    /\ ticks' = 1
    /\ phase' = "sample"
    /\ UNCHANGED <<x, base, list, done, prev, target, time, dt, adaptive, queue>>

\* _buffer, the integration, and the evaluation at the end of the step.
Begin(d) ==
    /\ phase = "idle"
    /\ time + d <= MaxTime
    /\ LET f == Indicated(fmu, time)
       IN  /\ prev' = [i \in Indicator |-> Value(f, i)]
           /\ x' = [x EXCEPT !.at = @ + d]
           /\ fmu' = Evaluated(f, x', time + d)
    /\ base' = x
    /\ cs' = CsUpdated(cs, time + d)
    /\ dt' = d
    /\ phase' = "stepped"
    /\ UNCHANGED <<list, done, armed, ticks, target, time, adaptive, queue>>

\* A mutant of Restored: _revert does not evaluate.
Unrestored(f) == f

\* _revert ends with an evaluation of the reverted state.
Restored(f) == Evaluated(f, base, time)

\* The solver rejects the step, or the crossing of an event inside it has been
\* localized: the FMU has been evaluated anywhere in between.
Revert ==
    /\ phase = "stepped"
    /\ adaptive
    /\ x' = base
    /\ fmu' = Restored(fmu)
    /\ cs' = CsUpdated(cs, time)
    /\ armed' = (armed /\ ~Exhausted)
    /\ phase' = "idle"
    /\ UNCHANGED <<base, list, done, prev, ticks, target, time, dt, adaptive, queue>>

\* In an adaptive run all events must be at the end of the step.
Resolvable == ~adaptive \/ \A e \in Detected : e.close

Detect ==
    /\ phase = "stepped"
    /\ Resolvable
    /\ queue' \in InOrder(Detected)
    /\ armed' = (armed /\ ~Exhausted)
    /\ phase' = "resolve"
    /\ UNCHANGED <<fmu, x, base, list, done, prev, cs, ticks, target, time, dt, adaptive>>

Handle(t, asked) ==
    \E h \in Handled(fmu, x, list, t, asked) :
        fmu' = h.fmu /\ x' = h.x /\ list' = h.list

ResolveTimeEvent ==
    /\ phase = "resolve" /\ queue # <<>> /\ Head(queue).of = TimeEvent
    /\ Handle(list[done + 1], FALSE)
    /\ done' = done + 1
    /\ queue' = Tail(queue)
    /\ UNCHANGED <<base, armed, prev, cs, ticks, target, time, dt, adaptive, phase>>

ResolveCrossing ==
    /\ phase = "resolve" /\ queue # <<>> /\ Head(queue).of \in Indicator
    /\ Handle(Head(queue).at, FALSE)
    /\ queue' = Tail(queue)
    /\ UNCHANGED <<base, done, armed, prev, cs, ticks, target, time, dt, adaptive, phase>>

ResolveTick ==
    /\ phase = "resolve" /\ queue # <<>> /\ Head(queue).of = Tick
    /\ target' = ticks * Period
    /\ ticks' = ticks + 1
    /\ phase' = "drive"
    /\ queue' = Tail(queue)
    /\ UNCHANGED <<fmu, x, base, list, done, armed, prev, cs, time, dt, adaptive>>

\* One do_step of the loop that drives the FMU to its communication point.
DoStep(a) ==
    /\ phase = "drive" /\ ~cs.terminated /\ cs.current < target
    /\ cs' = Driven(cs, target, a)
    /\ phase' = IF Advance(cs, target, a) = 0 THEN "resolve" ELSE "drive"
    /\ UNCHANGED <<fmu, x, base, list, done, armed, prev, ticks, target, time, dt,
                   adaptive, queue>>

Arrive ==
    /\ phase = "drive" /\ (cs.terminated \/ cs.current >= target)
    /\ phase' = "resolve"
    /\ UNCHANGED <<fmu, x, base, list, done, armed, prev, cs, ticks, target, time, dt,
                   adaptive, queue>>

\* The evaluation after the events; the time advances.
Commit ==
    /\ phase = "resolve" /\ queue = <<>>
    /\ fmu' = Evaluated(fmu, x, Land)
    /\ cs' = CsUpdated(cs, Land)
    /\ time' = Land
    /\ phase' = "sample"
    /\ UNCHANGED <<x, base, list, done, armed, prev, ticks, target, dt, adaptive, queue>>

\* completed_integrator_step; the FMU may ask for an event of its own.
Sample(asked) ==
    /\ phase = "sample"
    /\ LET f == Called(fmu, "completed_integrator_step")
       IN  IF asked
           THEN \E h \in Handled(f, x, list, time, TRUE) :
                    fmu' = h.fmu /\ x' = h.x /\ list' = h.list
           ELSE fmu' = f /\ UNCHANGED <<x, list>>
    /\ phase' = "idle"
    /\ UNCHANGED <<base, done, armed, prev, cs, ticks, target, time, dt, adaptive, queue>>

Next ==
    \/ Start
    \/ \E d \in Widths : Begin(d)
    \/ Revert
    \/ Detect
    \/ ResolveTimeEvent
    \/ ResolveCrossing
    \/ ResolveTick
    \/ \E a \in Answers(cs, target) : DoStep(a)
    \/ Arrive
    \/ Commit
    \/ \E asked \in BOOLEAN : Sample(asked)

Spec == Init /\ [][Next]_vars

-----------------------------------------------------------------------------
(* Every call to an FMU is made in a mode that answers it, from the start  *)
(* values to the nested calls of an event, and none to one that has asked  *)
(* for the end: the modes change with the block's events, the calls come   *)
(* from wherever the run loop evaluates, buffers, samples and reverts.     *)
CallsAreLegal == fmu.legal /\ cs.legal

(* What the simulation learns from the FMU about an instant is about that  *)
(* instant: the values the crossings are judged from are the committed     *)
(* state's, however many attempts have left the FMU elsewhere, and in an   *)
(* adaptive run an event is handled with the time and the states of the    *)
(* same instant.                                                           *)
InstantsAgree ==
    /\ phase = "stepped" => \A i \in Indicator : prev[i] = fmu.cross[i] - time
    /\ adaptive /\ phase = "resolve" => fmu.time = fmu.x.at

(* A time event the FMU has announced is handled when its time has come:   *)
(* in an adaptive run no committed step ends beyond it.                    *)
TimeEventsDelivered == adaptive /\ phase = "idle" => fmu.due > time

(* A jump the FMU makes in its states is never taken back: the engine goes *)
(* on from the state after the last one.                                   *)
JumpsAreKept == phase = "idle" => x.epoch = fmu.jumps

(* The Co-Simulation FMU is where the block believes it to be, never ahead *)
(* of the committed steps however many attempts were reverted, and what    *)
(* its outputs show once a step is committed is the present, if they can   *)
(* be extrapolated, and the FMU's last communication point if not.         *)
OutputsStandForNow ==
    ~cs.terminated =>
        /\ cs.current = cs.time
        /\ phase \in {"idle", "sample"} => cs.time <= time
        /\ phase = "sample" => cs.shown = IF cs.taylor THEN time ELSE cs.time
=============================================================================
