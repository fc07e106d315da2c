------------------------------ MODULE CompiledRun ------------------------------
(***************************************************************************)
(* The event-aware run loop of a statically compiled system                *)
(* (run_with_events in src/compile/runtime.rs).  There are no blocks any   *)
(* more: one fused derivative steps the global state, the discrete memory  *)
(* is constant over a step, and the events of src/events are rebuilt for   *)
(* every run, over a scratch copy of state and memory which their guards   *)
(* read and their effects write.  The solver keeps its own copy, and the   *)
(* two have to be brought together at the right moments.                   *)
(*                                                                         *)
(* Unlike the interpreted loop of Simulation this one asks no event        *)
(* whether it is active, has no step floor for events and no estimate of   *)
(* the next tick; a guard on the number of iterations ends a runaway.      *)
(***************************************************************************)
EXTENDS Events, FiniteSets

CONSTANTS
    State,          \* elements of the global continuous state
    Memory,         \* elements of the discrete memory
    Level,          \* the grid of their values
    InitialLevel,
    Dt, DtMin, DtMax,
    Scales,         \* step-size factors of an accepted step
    Durations, Modes, Resets,
    Stride,         \* output_stride
    MaxSamples,     \* max_samples
    Limit,          \* iterations before the runaway guard ends the run
    MaxRuns         \* bound on the number of runs

Slot == State \cup Memory

ASSUME CompiledAssumption ==
    /\ Source \in [Event -> Slot \cup {Clock}]
    /\ Level \subseteq Int /\ InitialLevel \in [Slot -> Level]
    /\ Dt \in Nat \ {0} /\ DtMin \in Nat \ {0} /\ DtMax \in Nat /\ DtMin <= DtMax
    /\ Scales \subseteq RatioType /\ Durations \subseteq Nat
    /\ Modes \subseteq BOOLEAN /\ Resets \subseteq BOOLEAN
    /\ Clock \notin Slot /\ State \cap Memory = {}
    /\ Stride \in Nat \ {0} /\ MaxSamples \in Nat /\ Limit \in Nat /\ MaxRuns \in Nat

VARIABLES
    pc,         \* "idle", "initial", "loop", "step", "detect", "resolve"
    time, dt,
    run,        \* the current run: start, end, adaptive
    runs,       \* number of runs begun
    iters,      \* iterations of this run
    x,          \* what the solver steps: s.x and m_step
    buffered,   \* the state the solver would revert to
    scratch,    \* EventScratch: what guards and effects see
    ev,         \* event states
    past,       \* times recorded before this run, since the last reset
    todo,       \* events still to be looked at or resolved
    accepted,   \* accepted_steps modulo Stride
    samples,    \* number of recorded samples, up to MaxSamples
    kept,       \* the last recorded sample
    offered,    \* when record_step was last called
    base        \* history variable: recorded times when the attempt began

vars == <<pc, time, dt, run, runs, iters, x, buffered, scratch, ev, past, todo,
          accepted, samples, kept, offered, base>>
recorder == <<accepted, samples, kept, offered>>

-----------------------------------------------------------------------------
\* The event that comes first in the order of the list.
Foremost(S) == {e \in S : \A f \in S : e <= f}

Recordings == [e \in Event |-> past[e] \o ev[e].times]

\* resolve: the effect, evaluated on the scratch, assigns its targets.
Resolve(e, t) ==
    /\ scratch' \in [Slot -> Level]
    /\ ev' = [ev EXCEPT ![e] = Disarmed(e, Recorded(e, @, t))]

BufferedAll(evs, o, t) == [e \in Event |-> Buffered(e, evs[e], Reading(e, o, t), t)]

\* record_step: every Stride-th accepted step, while there is room.
Record(t, s) ==
    /\ accepted' = (accepted + 1) % Stride
    /\ offered' = t
    /\ IF (accepted + 1) % Stride = 0 /\ samples < MaxSamples
       THEN kept' = [t |-> t, x |-> s] /\ samples' = samples + 1
       ELSE UNCHANGED <<kept, samples>>

Init ==
    /\ pc = "idle"
    /\ time = 0 /\ dt = Dt
    /\ run = [start |-> 0, end |-> 0, adaptive |-> FALSE]
    /\ runs = 0 /\ iters = 0
    /\ x = InitialLevel /\ buffered = InitialLevel /\ scratch = InitialLevel
    /\ ev = [e \in Event |-> FreshEvent]
    /\ past = [e \in Event |-> <<>>] /\ base = [e \in Event |-> <<>>]
    /\ todo = {}
    /\ accepted = 0 /\ samples = 1 /\ kept = [t |-> 0, x |-> InitialLevel] /\ offered = 0

\* run: rewind if asked to, rebuild the events, buffer them all.
Begin(duration, adaptive, reset) ==
    LET t == IF reset THEN 0 ELSE time
        s == IF reset THEN InitialLevel ELSE x
    IN  /\ pc = "idle" /\ runs < MaxRuns
        /\ runs' = runs + 1 /\ iters' = 0
        /\ time' = t /\ dt' = Dt
        /\ run' = [start |-> t, end |-> t + duration, adaptive |-> adaptive]
        /\ x' = s /\ scratch' = s
        /\ ev' = BufferedAll([e \in Event |-> FreshEvent], s, t)
        /\ past' = [e \in Event |-> IF reset THEN <<>> ELSE Recordings[e]]
        /\ IF reset
           THEN /\ accepted' = 0 /\ samples' = 1 /\ kept' = [t |-> 0, x |-> s]
                /\ UNCHANGED offered
           ELSE UNCHANGED recorder
        /\ todo' = Event
        /\ pc' = "initial"
        /\ UNCHANGED <<buffered, base>>

\* Events of the start time: detected and resolved one after the other, so the
\* effects of an earlier one are seen by a later one.
ResolveInitial ==
    /\ pc = "initial"
    /\ \E e \in Foremost(todo) :
          /\ IF Due(e, ev[e], Reading(e, scratch, time), time)
             THEN Resolve(e, time)
             ELSE /\ ev' = [ev EXCEPT ![e] = AfterDetect(e, @)]
                  /\ UNCHANGED scratch
          /\ todo' = todo \ {e}
    /\ UNCHANGED <<pc, time, dt, run, runs, iters, x, buffered, past, recorder, base>>

InitialDone ==
    /\ pc = "initial" /\ todo = {}
    /\ x' = scratch
    /\ pc' = "loop"
    /\ UNCHANGED <<time, dt, run, runs, iters, buffered, scratch, ev, past, todo, recorder, base>>

-----------------------------------------------------------------------------
Continues == time < run.end /\ iters < Limit

\* (Mutant: the end of the run is forgotten.)
Unended == dt
Ended == IF run.adaptive /\ time + dt > run.end THEN run.end - time ELSE dt

\* The guards see the state the step starts from.
Refreshed == [s \in Slot |-> IF s \in State THEN x[s] ELSE scratch[s]]

\* (Mutant: only accepted steps are counted.)
CountedLater == iters' = iters
Counted == iters' = iters + 1

Attempt ==
    /\ pc = "loop" /\ Continues
    /\ Counted
    /\ dt' = Ended
    /\ scratch' = Refreshed
    /\ ev' = BufferedAll(ev, Refreshed, time)
    /\ buffered' = x
    /\ base' = Recordings
    /\ pc' = "step"
    /\ UNCHANGED <<time, run, runs, x, past, todo, recorder>>

\* The step stays between dt_min and dt_max.
Clamped(d) == IF d < DtMin THEN DtMin ELSE IF d > DtMax THEN DtMax ELSE d
Scaled(d, p) == (d * p[1]) \div p[2]

\* take_step fails: the solver reverts, its factor shrinks the step.
StepRejected ==
    /\ pc = "step" /\ run.adaptive
    /\ dt' = Clamped(Scaled(dt, <<1, 2>>))
    /\ pc' = "loop"
    /\ UNCHANGED <<time, run, runs, iters, x, buffered, scratch, ev, past, todo, recorder, base>>

\* take_step: the state moves, the memory does not.
StepTaken ==
    /\ pc = "step"
    /\ x' \in {s \in [Slot -> Level] : \A i \in Slot :
                  IF i \in State THEN Magnitude(s[i] - x[i]) <= dt ELSE s[i] = x[i]}
    /\ scratch' = [s \in Slot |-> IF s \in State THEN x'[s] ELSE scratch[s]]
    /\ pc' = "detect"
    /\ UNCHANGED <<time, dt, run, runs, iters, buffered, ev, past, todo, recorder, base>>

\* Every event is asked, active or not.
Found == {e \in Event : Due(e, ev[e], Reading(e, scratch, time + dt), time + dt)}
IsClose(e) == Close(e, ev[e], Reading(e, scratch, time + dt), time + dt)
RatioOf(e) == Ratio(e, ev[e], Reading(e, scratch, time + dt), time + dt)
Distant == {e \in Found : ~IsClose(e)}
Detected == [e \in Event |-> AfterDetect(e, ev[e])]

\* Some event lies further ahead: back, and again with the earliest ratio.
\* (Mutant: what is close by is resolved all the same.)
RelocateInOnePhase ==
    /\ pc = "detect" /\ run.adaptive /\ Distant # {}
    /\ \E e \in Distant : dt' = LET d == Scaled(dt, RatioOf(e)) IN IF d < DtMin THEN DtMin ELSE d
    /\ x' = buffered
    /\ ev' = [e \in Event |-> IF e \in Found \ Distant THEN Recorded(e, ev[e], time + dt) ELSE ev[e]]
    /\ pc' = "loop"
    /\ UNCHANGED <<time, run, runs, iters, buffered, scratch, past, todo, recorder, base>>

Relocate ==
    /\ pc = "detect" /\ run.adaptive /\ Distant # {}
    /\ \E e \in Distant :
          /\ \A f \in Distant : ~Earlier(RatioOf(f), RatioOf(e))
          /\ dt' = LET d == Scaled(dt, RatioOf(e)) IN IF d < DtMin THEN DtMin ELSE d
    /\ x' = buffered
    /\ ev' = Detected
    /\ pc' = "loop"
    /\ UNCHANGED <<time, run, runs, iters, buffered, scratch, past, todo, recorder, base>>

Located ==
    /\ pc = "detect" /\ (run.adaptive => Distant = {})
    /\ todo' = Found
    /\ ev' = Detected
    /\ pc' = "resolve"
    /\ UNCHANGED <<time, dt, run, runs, iters, x, buffered, scratch, past, recorder, base>>

ResolveEvent ==
    /\ pc = "resolve"
    /\ \E e \in Foremost(todo) : Resolve(e, time + dt) /\ todo' = todo \ {e}
    /\ UNCHANGED <<pc, time, dt, run, runs, iters, x, buffered, past, recorder, base>>

\* What the solver goes on with: the effects have written state and memory.
\* (Mutant: the memory held for the step is kept.)
KeptMemory == [s \in Slot |-> IF s \in State THEN scratch[s] ELSE x[s]]
Taken == scratch

Commit ==
    /\ pc = "resolve" /\ todo = {}
    /\ x' = Taken
    /\ time' = time + dt
    /\ Record(time + dt, scratch)
    /\ dt' \in IF run.adaptive THEN {Clamped(Scaled(dt, p)) : p \in Scales} ELSE {Dt}
    /\ pc' = "loop"
    /\ UNCHANGED <<run, runs, iters, buffered, scratch, ev, past, todo, base>>

\* The end of run: the final state is recorded, downsampled or not.
RecordFinal ==
    IF kept.t = time THEN UNCHANGED recorder
    ELSE /\ accepted' = (accepted + 1) % Stride
         /\ samples' = IF samples < MaxSamples THEN samples + 1 ELSE samples
         /\ kept' = [t |-> time, x |-> x]
         /\ UNCHANGED offered

RunEnd ==
    /\ pc = "loop" /\ ~Continues
    /\ RecordFinal
    /\ pc' = "idle"
    /\ UNCHANGED <<time, dt, run, runs, iters, x, buffered, scratch, ev, past, todo, base>>

-----------------------------------------------------------------------------
\* What a call of run does by itself.
Progress ==
    \/ ResolveInitial \/ InitialDone \/ Attempt \/ StepRejected \/ StepTaken
    \/ Relocate \/ Located \/ ResolveEvent \/ Commit \/ RunEnd

Next == Progress \/ \E d \in Durations, a \in Modes, r \in Resets : Begin(d, a, r)

Spec == Init /\ [][Next]_vars
FairSpec == Spec /\ WF_vars(Progress)

-----------------------------------------------------------------------------
TypeOK ==
    /\ pc \in {"idle", "initial", "loop", "step", "detect", "resolve"}
    /\ time \in Nat /\ dt \in Nat \ {0}
    /\ run \in [start : Nat, end : Nat, adaptive : BOOLEAN]
    /\ runs \in 0 .. MaxRuns /\ iters \in 0 .. Limit
    /\ {x, buffered, scratch} \subseteq [Slot -> Level]
    /\ ev \in [Event -> EventState] /\ {past, base} \subseteq [Event -> Seq(Int)]
    /\ todo \subseteq Event
    /\ accepted \in 0 .. (Stride - 1) /\ samples \in Nat
    /\ kept \in [t : Nat, x : [Slot -> Level]] /\ offered \in Nat

\* A crossing is measured from the committed state in every attempt, also in
\* the one after a relocation, whose scratch still holds the discarded step end.
GuardsReadCommittedState ==
    pc \in {"step", "detect"} =>
        \A e \in Event :
            /\ ev[e].at = time
            /\ ~Scheduled(e) => ev[e].val = Reading(e, buffered, time)

\* Between two steps the solver's state is that of the last accepted step with
\* all effects, whatever was attempted since, and its copy of the memory, only
\* refreshed after a resolution, is the one the effects wrote.
SolverHasCommittedState ==
    pc = "loop" =>
        /\ \A m \in Memory : x[m] = scratch[m]
        /\ kept.t = time /\ time > run.start => kept.x = x

\* An adaptive run ends exactly at its end, unless the runaway guard ended it.
LandsOnEnd ==
    pc = "idle" /\ runs > 0 /\ run.adaptive => time = run.end \/ iters = Limit

\* "The initial point and the true final state are always kept", with any
\* stride and any bound on the number of samples.
FinalStateRecorded ==
    pc = "idle" /\ time > run.start => kept = [t |-> time, x |-> x]

(* The inductive invariant behind the four properties above *)

\* No adaptive step reaches beyond the end of the run.
WithinRun ==
    run.adaptive =>
        /\ pc \in {"initial", "loop"} => time <= run.end
        /\ pc \in {"step", "detect", "resolve"} => time + dt <= run.end

\* While a step is being tried, the buffer holds what the solver started from,
\* and the scratch its memory.
Undoable ==
    pc \in {"step", "detect"} =>
        /\ \A m \in Memory : buffered[m] = scratch[m]
        /\ kept.t = time /\ time > run.start => kept.x = buffered
        /\ pc = "step" => x = buffered

\* Nothing is recorded ahead of the clock, which a run begins at its start.
NothingAhead ==
    kept.t <= time /\ (pc = "initial" => time = run.start)

\* What is inductive, relative to TypeOK.
CommitInv ==
    /\ WithinRun /\ Undoable /\ NothingAhead
    /\ GuardsReadCommittedState /\ SolverHasCommittedState
    /\ FinalStateRecorded /\ LandsOnEnd

\* Every run ends: each attempt counts, also those that are taken back.
RunEnds == pc = "initial" ~> pc = "idle"

\* The compiled loop keeps the contract of the interpreted one: a run that
\* starts over is a sequence of atomic steps with their events in order.
Shown == IF pc = "resolve" THEN base ELSE Recordings

Contract == INSTANCE HybridRun WITH
    Guard   <- {e \in Event : ~Scheduled(e)},
    NoTimes <- [e \in Event |-> <<>>],
    clock   <- time,
    fired   <- Shown,
    seen    <- offered

ImplementsHybridRun == Contract!Spec

=============================================================================
