-------------------------------- MODULE CsFmu --------------------------------
(***************************************************************************)
(* A Co-Simulation FMU as a block (src/blocks/fmu.rs): it integrates       *)
(* itself, driven from one communication point to the next by a periodic   *)
(* event; between them its outputs may be extrapolated.                    *)
(*                                                                         *)
(* time is how far the FMU really is, current what the block believes, and *)
(* shown the instant the outputs at the block's ports stand for: outputs   *)
(* with derivatives are taken to be polynomials of their order.            *)
(***************************************************************************)
EXTENDS FmiInstance

CONSTANT Period     \* dt, the communication step

CsInstantiated(events, early, taylor) ==
    [mode |-> "instantiated", legal |-> TRUE,
     events |-> events,     \* event_mode_used
     early |-> early,       \* early_return_allowed
     taylor |-> taylor,     \* outputs declare maxOutputDerivativeOrder > 0
     time |-> 0, current |-> 0, terminated |-> FALSE, shown |-> 0]

\* Initialization; the event it ends in has nothing to update.
CsConstructed(c) ==
    LET i == Initialized(ApplyStructuralOverrides(c), c.events)
    IN  IF c.events THEN EnterStepMode(Called(i, "update_discrete_states")) ELSE i

\* A mutant of CsUpdated: an ended FMU is asked too.
CsUpdatedAlways(c, t) ==
    [Called(c, "get_set_variables") EXCEPT
        !.shown = IF c.taylor /\ t > c.current THEN c.time + (t - c.current) ELSE c.time]

\* update_fn: inputs are latched and outputs read, unless the FMU has ended.
CsUpdated(c, t) ==
    IF c.terminated THEN c
    ELSE [Called(c, "get_set_variables") EXCEPT
             !.shown = IF c.taylor /\ t > c.current THEN c.time + (t - c.current)
                                                    ELSE c.time]

\* handle_event; quit: the FMU asks for the end in update_discrete_states.
CsHandled(c, quit) ==
    LET u == Called(EnterEventMode(c), "update_discrete_states")
    IN  IF quit THEN [Ended(u) EXCEPT !.terminated = TRUE] ELSE EnterStepMode(u)

\* What do_step may answer on the way to target: how far the FMU came, whether
\* it has an event to handle, whether it asks for the end, now or in the event.
Answers(c, target) ==
    [to : IF c.early THEN c.current .. target ELSE {target},
     event : BOOLEAN, quit : {"no", "step"} \cup (IF c.events THEN {"event"} ELSE {})]

\* A mutant of Advance: an early return is taken for the whole step.
AdvanceWhole(c, target, a) == target - c.current

\* Only an early return tells how far the FMU came.
Advance(c, target, a) ==
    IF c.early /\ a.to < target THEN a.to - c.current ELSE target - c.current

\* One iteration of the tick's loop.
Driven(c, target, a) ==
    LET d == [Called(c, "do_step") EXCEPT !.time = a.to,
                                          !.current = @ + Advance(c, target, a)]
    IN  IF a.quit = "step" THEN [Ended(d) EXCEPT !.terminated = TRUE]
        ELSE IF a.event /\ d.events THEN CsHandled(d, a.quit = "event")
        ELSE d
=============================================================================
