------------------------------ MODULE Subsystem ------------------------------
(***************************************************************************)
(* Attempts at a time step on a hierarchy of blocks (src/subsystem.rs,     *)
(* Block's delegation in src/blocks/block.rs, and the part of              *)
(* Simulation::timestep that drives the engines): the simulation buffers,  *)
(* solves, steps and reverts the blocks it holds, a subsystem hands every  *)
(* call on to the dynamic blocks inside.  Leaves have an engine (Gear), a  *)
(* subsystem's own is a dummy that is never buffered.                      *)
(*                                                                         *)
(* Blocks are switched on and off by the actions of resolved events and,   *)
(* between steps, through the API; Switched names the ones that may be.    *)
(***************************************************************************)
EXTENDS Gear, FiniteSets

CONSTANTS
    Leaf, Wrapper,      \* the dynamic blocks and the subsystems around some
    Around,             \* [Leaf \cup Wrapper -> SUBSET Wrapper], what a block is inside of
    Widths,             \* step widths an attempt may have
    Switched,           \* the blocks that may be switched on and off
    Poisoned,           \* the leaves whose right-hand side may yield NaN
    MaxTime,            \* bound on the time integrated
    MaxRejects,         \* bound on consecutive rejections
    MaxEdits            \* bound on what is done to the blocks besides integrating

Block == Leaf \cup Wrapper

ASSUME TreeAssumption ==
    /\ Leaf \cap Wrapper = {}
    /\ Around \in [Block -> SUBSET Wrapper]
    /\ \A b \in Block : \A w \in Around[b] :
           /\ w \notin Around[w]
           /\ Around[w] \subseteq Around[b]
           /\ \A v \in Around[b] : v = w \/ v \in Around[w] \/ w \in Around[v]
    /\ IsFiniteSet(Wrapper)
    /\ MaxTime \in Nat
    /\ Widths \subseteq Nat \ {0}

VARIABLES
    engine,     \* [Leaf -> engine]
    on,         \* [Block -> BOOLEAN], Block._active
    armed,      \* [Block -> BOOLEAN], whether its internal events are active
    adaptive,   \* the flag of the current run
    phase,      \* where the attempt stands
    dt,         \* its width
    probe,      \* how far into the step the localization looks
    time,
    rejects,    \* attempts rejected since the last commit
    edits,
    clock,      \* history variable: the committed state of each leaf
    taken       \* history variable: steps committed since its ring was cleared

vars == <<engine, on, armed, adaptive, phase, dt, probe, time, rejects, edits,
          clock, taken>>

-----------------------------------------------------------------------------
AtTop(b) == Around[b] = {}
Inside(b) == {c \in Block : c = b \/ b \in Around[c]}

\* buffer, solve and step skip a block that is off, at every level.
Live == {b \in Leaf : on[b] /\ \A w \in Around[b] : on[w]}

\* A mutant of Rolled: a subsystem does not hand the revert on.
RolledAtTop == {b \in Leaf : AtTop(b) /\ on[b]}

\* revert is skipped at the top only: a subsystem reverts all it holds.
Rolled == {b \in Leaf : \A c \in {b} \cup Around[b] : AtTop(c) => on[c]}

Apply(Op(_), bs) == [b \in Leaf |-> IF b \in bs THEN Op(engine[b]) ELSE engine[b]]

Reject ==
    /\ engine' = Apply(Reverted, Rolled)
    /\ phase' = "idle"
    /\ rejects' = rejects + 1
    /\ UNCHANGED <<on, armed, adaptive, dt, probe, time, edits, clock, taken>>

Init ==
    /\ engine = [b \in Leaf |-> Fresh]
    /\ on = [b \in Block |-> TRUE]
    /\ armed = [b \in Block |-> TRUE]
    /\ adaptive \in BOOLEAN
    /\ phase = "idle"
    /\ dt = 0
    /\ probe = 0
    /\ time = 0
    /\ rejects = 0
    /\ edits = 0
    /\ clock = [b \in Leaf |-> Initial]
    /\ taken = [b \in Leaf |-> 0]

\* _buffer
Begin(d) ==
    /\ phase = "idle"
    /\ time + d <= MaxTime
    /\ rejects <= MaxRejects
    /\ dt' = d
    /\ engine' = Apply(LAMBDA e : Buffered(e, d), Live)
    /\ phase' = "solve"
    /\ UNCHANGED <<on, armed, adaptive, probe, time, rejects, edits, clock, taken>>

\* The Newton iteration over all blocks converged.  So it does on NaN, whose
\* residual exceeds nothing.
Solve ==
    /\ phase = "solve"
    /\ \E bad \in SUBSET (Live \cap Poisoned) :
          engine' = [b \in Leaf |->
                        IF b \in Live THEN Solved(engine[b], b \in bad) ELSE engine[b]]
    /\ phase' = "step"
    /\ UNCHANGED <<on, armed, adaptive, dt, probe, time, rejects, edits, clock, taken>>

\* It did not: an adaptive run retries, another one marches on.
SolveFails ==
    /\ phase = "solve"
    /\ adaptive
    /\ Reject

\* Every live block judges the step; in an adaptive run one rejection is enough.
Step ==
    /\ phase = "step"
    /\ \E verdict \in [Live -> Verdict] :
          LET judged == [b \in Live |-> Judged(engine[b], verdict[b])]
              stepped == [b \in Leaf |->
                             IF b \in Live THEN Stepped(engine[b], judged[b])
                                           ELSE engine[b]]
          IN  IF adaptive /\ \E b \in Live : ~judged[b].ok
              THEN /\ engine' = [b \in Leaf |->
                                    IF b \in Rolled THEN Reverted(stepped[b])
                                                    ELSE stepped[b]]
                   /\ phase' = "idle"
                   /\ rejects' = rejects + 1
              ELSE /\ engine' = stepped
                   /\ phase' = "detect"
                   /\ UNCHANGED rejects
    /\ UNCHANGED <<on, armed, adaptive, dt, probe, time, edits, clock, taken>>

\* A crossing is too far off to be resolved: retry with a shorter step.
FarCrossing ==
    /\ phase = "detect"
    /\ adaptive
    /\ Reject

\* A mutant of Interpolable: only the leaves at the top are asked.
LeavesInterpolable ==
    \A b \in Leaf : AtTop(b) /\ on[b] => CanInterpolate(engine[b])

\* Its place is sought on the interpolants, when every live block at the top
\* has one (a subsystem has not).
Interpolable ==
    \A b \in Block :
        AtTop(b) /\ on[b] => b \in Leaf /\ CanInterpolate(engine[b])

Probe(part) ==
    /\ phase \in {"detect", "probe"}
    /\ adaptive
    /\ Interpolable
    /\ part > probe
    /\ probe' = part
    /\ engine' = Apply(LAMBDA e : Sought(e, part), {b \in Leaf : AtTop(b) /\ on[b]})
    /\ phase' = "probe"
    /\ UNCHANGED <<on, armed, adaptive, dt, time, rejects, edits, clock, taken>>

\* The end of the localization and the revert that follows it.
EndProbe ==
    /\ phase = "probe"
    /\ engine' = [b \in Leaf |->
                    IF b \in Rolled THEN Reverted(SeekEnded(engine[b])) ELSE engine[b]]
    /\ probe' = 0
    /\ phase' = "idle"
    /\ rejects' = rejects + 1
    /\ UNCHANGED <<on, armed, adaptive, dt, time, edits, clock, taken>>

\* on() and off() reach every block inside; only off() touches the events.
Toggled(b, v) == [c \in Block |-> IF c \in Inside(b) THEN v ELSE on[c]]
Disarmed(b, v) == [c \in Block |-> armed[c] /\ (c \in Inside(b) => v)]

\* No event, or one whose action replaces a state or switches a block.
Effect ==
    [kind : {"none"}] \cup [kind : {"assign"}, of : Leaf]
        \cup [kind : {"switch"}, of : Switched, to : BOOLEAN]

\* The close events are resolved, and the step is committed.
Commit(f) ==
    /\ phase = "detect"
    /\ f.kind # "none" => edits < MaxEdits
    /\ LET done == [b \in Leaf |-> IF b \in Live THEN engine[b].x ELSE clock[b]]
       IN  IF f.kind = "assign"
           THEN /\ engine' = [engine EXCEPT ![f.of] = Assigned(@)]
                /\ clock' = [done EXCEPT ![f.of].epoch = @ + 1]
           ELSE clock' = done /\ UNCHANGED engine
    /\ edits' = IF f.kind = "none" THEN edits ELSE edits + 1
    /\ IF f.kind = "switch"
       THEN on' = Toggled(f.of, f.to) /\ armed' = Disarmed(f.of, f.to)
       ELSE UNCHANGED <<on, armed>>
    /\ taken' = [b \in Leaf |->
                    IF b \in Live /\ taken[b] < HistoryLen THEN taken[b] + 1 ELSE taken[b]]
    /\ time' = time + dt
    /\ rejects' = 0
    /\ phase' = "idle"
    /\ UNCHANGED <<adaptive, dt, probe>>

-----------------------------------------------------------------------------
(* Between two steps: the Python API.                                      *)

Edit ==
    /\ phase = "idle"
    /\ rejects = 0
    /\ edits < MaxEdits
    /\ edits' = edits + 1

Switch(b, v) ==
    /\ Edit
    /\ on' = Toggled(b, v)
    /\ armed' = Disarmed(b, v)
    /\ UNCHANGED <<engine, adaptive, phase, dt, probe, time, rejects, clock, taken>>

\* Another run, adaptive or not.
Rerun ==
    /\ Edit
    /\ adaptive' \in BOOLEAN
    /\ UNCHANGED <<engine, on, armed, phase, dt, probe, time, rejects, clock, taken>>

SetState(b) ==
    /\ Edit
    /\ engine' = [engine EXCEPT ![b] = Assigned(@)]
    /\ clock' = [clock EXCEPT ![b].epoch = @ + 1]
    /\ UNCHANGED <<on, armed, adaptive, phase, dt, probe, time, rejects, taken>>

SetSolver ==
    /\ Edit
    /\ engine' = Apply(Replaced, Leaf)
    /\ taken' = [b \in Leaf |-> 0]
    /\ UNCHANGED <<on, armed, adaptive, phase, dt, probe, time, rejects, clock>>

\* Every block is reset, those that are off too, and so are its events.
Reset ==
    /\ Edit
    /\ engine' = Apply(Restarted, Leaf)
    /\ armed' = [b \in Block |-> TRUE]
    /\ time' = 0
    /\ clock' = [b \in Leaf |-> Initial]
    /\ taken' = [b \in Leaf |-> 0]
    /\ UNCHANGED <<on, adaptive, phase, dt, probe, rejects>>

Next ==
    \/ \E d \in Widths : Begin(d)
    \/ Solve
    \/ SolveFails
    \/ Step
    \/ FarCrossing
    \/ \E part \in 1 .. dt - 1 : Probe(part)
    \/ EndProbe
    \/ \E f \in Effect : Commit(f)
    \/ \E b \in Switched, v \in BOOLEAN : Switch(b, v)
    \/ Rerun
    \/ \E b \in Leaf : SetState(b)
    \/ SetSolver
    \/ Reset

Spec == Init /\ [][Next]_vars

-----------------------------------------------------------------------------
Engine ==
    [x : State, history : Seq(State), dts : Seq(Nat), target : Order, order : Order,
     steps : Nat, pi : 0 .. MaxOrder, open : BOOLEAN, span : Nat, seeking : BOOLEAN,
     stash : State]

(* The variables have their types, and the bounded ones their bounds.      *)
TypeOK ==
    /\ engine \in [Leaf -> Engine]
    /\ on \in [Block -> BOOLEAN]
    /\ armed \in [Block -> BOOLEAN]
    /\ adaptive \in BOOLEAN
    /\ phase \in {"idle", "solve", "step", "detect", "probe"}
    /\ dt \in Nat /\ probe \in Nat
    /\ time \in 0 .. MaxTime
    /\ clock \in [Leaf -> State]
    /\ taken \in [Leaf -> 0 .. HistoryLen]

(* Between two attempts every block, at any depth and whether it is on or  *)
(* off, holds the state of the last committed step it took part in:        *)
(* whatever was tried, sought and rejected since has been undone, in a     *)
(* subsystem as at the top, and a block that sat out the step has not been *)
(* touched by its rejections.                                              *)
StatesAreCommitted ==
    phase = "idle" => \A b \in Leaf : engine[b].x = clock[b]

(* The states and the step widths a BDF formula is fitted through belong   *)
(* together and are all there is: for a block that takes part in the       *)
(* attempt the ring is a timeline as long as the steps committed allow,    *)
(* however many rejections came between, and reaches as far as the order.  *)
RejectionsCostNoHistory ==
    /\ \A b \in Leaf : IsTimeline(engine[b])
    /\ phase # "idle" =>
           \A b \in Live :
               LET e == engine[b]
               IN  /\ Len(e.history) =
                          IF taken[b] < HistoryLen THEN taken[b] + 1 ELSE HistoryLen
                   /\ e.order \in 1 .. Len(e.history)
                   /\ Head(e.dts) = dt

(* What an event's guard sees during a probe is one instant: every block   *)
(* that is integrated, at any depth, is as far into the step as the probe; *)
(* and a dense output that may be evaluated is over the step that ended in *)
(* the block's state: assignments, rejections and new attempts close it.   *)
ProbesAreCoherent ==
    /\ \A b \in Leaf : WindowIsTheStep(engine[b])
    /\ phase = "probe" =>
           \A b \in Live : engine[b].x = [clock[b] EXCEPT !.at = @ + probe]
=============================================================================
