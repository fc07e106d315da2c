--------------------------------- MODULE Gear ---------------------------------
(***************************************************************************)
(* The engine of a dynamic block under GEAR52A, the variable-step,         *)
(* variable-order BDF method (src/solvers/factories.rs), on top of the     *)
(* ring of past states and step widths every solver shares                 *)
(* (src/solvers/solver.rs) and with the dense output over the step just    *)
(* taken (src/solvers/dense.rs).                                           *)
(*                                                                         *)
(* A state is abstracted to what the bookkeeping must keep straight: at    *)
(* is how long the block has been integrated, epoch how often its state    *)
(* has been replaced from outside, nan whether it is still a number.  The  *)
(* right-hand side advances every state at unit rate, so a formula fitted  *)
(* through the right points is exact, whatever its order.  Error norms are *)
(* abstracted to verdicts: ok says whether the step met the tolerance,     *)
(* move which neighbouring order promises the widest next step.            *)
(*                                                                         *)
(* In every attempt of the run loop a step follows a buffer and a solve of *)
(* the same engine; step_fn's blind acceptance without a captured slope is *)
(* not reached and left out, and so is the stage counter of this one-stage *)
(* method.                                                                 *)
(***************************************************************************)
EXTENDS Integers, Sequences

CONSTANTS
    MinOrder, MaxOrder,     \* n_min, n_max
    HistoryLen              \* history_maxlen and history_dt_maxlen

ASSUME GearAssumption ==
    /\ MinOrder \in Nat \ {0} /\ MaxOrder \in Nat /\ HistoryLen \in Nat
    /\ MinOrder <= MaxOrder
    /\ MaxOrder < HistoryLen

Order == 1 .. MaxOrder
State == [at : Nat, epoch : Nat, nan : BOOLEAN]
Initial == [at |-> 0, epoch |-> 0, nan |-> FALSE]

Verdict == [ok : BOOLEAN, move : {"down", "stay", "up"}]

\* The newest first n elements of a sequence.
Newest(s, n) == SubSeq(s, 1, IF Len(s) < n THEN Len(s) ELSE n)

\* A new engine: pi is err_prev, kept as the order it was measured at (0: none).
Fresh ==
    [x       |-> Initial,
     history |-> <<>>,      \* the buffered states, newest first
     dts     |-> <<>>,      \* history_dt: the widths of the steps from them
     target  |-> MinOrder,  \* n_target
     order   |-> 1,         \* n_active
     steps   |-> 0,         \* steps_at_order
     pi      |-> 0,
     open    |-> FALSE,     \* dense_valid
     span    |-> 0,         \* dense_dt
     seeking |-> FALSE,
     stash   |-> Initial]

Closed(e) == [e EXCEPT !.open = FALSE, !.seeking = FALSE]

\* push_state_history, with the oldest entry dropped at capacity.
Pushed(e) == [Closed(e) EXCEPT !.history = <<e.x>> \o Newest(@, HistoryLen - 1)]

\* The order of the coming step: no formula is fitted through states there are not.
ActiveOrder(e) == IF e.target <= Len(e.history) THEN e.target ELSE Len(e.history)

\* The Nordsieck polynomial fitted through the ring, advanced by one step.
Predicted(e) ==
    IF e.order = 1 THEN e.x ELSE [e.x EXCEPT !.at = @ + Head(e.dts)]

Buffered(e, dt) ==
    LET p == [Pushed(e) EXCEPT !.dts = <<dt>> \o Newest(@, HistoryLen - 1)]
        q == [p EXCEPT !.order = ActiveOrder(p)]
    IN  [q EXCEPT !.x = Predicted(q)]

\* The converged corrector; a right-hand side outside its domain gives NaN.
Solved(e, poisoned) ==
    [e EXCEPT !.x = [at |-> Head(e.history).at + Head(e.dts),
                     epoch |-> Head(e.history).epoch,
                     nan |-> Head(e.history).nan \/ poisoned]]

HaveUp(e) == e.order < MaxOrder /\ Len(e.history) > e.order

\* The first-order estimate goes through scaled_max_norm, which turns NaN into
\* a rejection; the inline norm of the higher orders lets it slip.
Judged(e, v) == [v EXCEPT !.ok = @ /\ ~(e.x.nan /\ e.order = 1)]

MoveTo(e, order) == [e EXCEPT !.target = order, !.steps = 0, !.pi = 0]

\* Between neighbouring orders, once the order has been kept long enough.
Reordered(e, v) ==
    IF ~HaveUp(e)
    THEN IF v.ok /\ e.target < MaxOrder THEN MoveTo(e, e.target + 1) ELSE e
    ELSE IF e.steps <= e.order THEN e
    ELSE IF v.move = "down" /\ e.target > MinOrder THEN MoveTo(e, e.target - 1)
    ELSE IF v.move = "up" /\ e.target < MaxOrder THEN MoveTo(e, e.target + 1)
    ELSE e

\* step_factor commits the error norm of an accepted step.
Measured(e, v) == IF v.ok THEN [e EXCEPT !.pi = e.order] ELSE e

\* Only its comparison with the order matters: beyond it the count is not kept.
Counted(e, v) ==
    IF v.ok /\ e.steps <= MaxOrder THEN [e EXCEPT !.steps = @ + 1] ELSE e

Controlled(e, v) ==
    IF e.order = 1
    THEN IF e.target < MaxOrder
         THEN [Measured(e, v) EXCEPT !.target = @ + 1, !.pi = 0]
         ELSE Measured(e, v)
    ELSE Counted(Reordered(Measured(e, v), v), v)

\* Solver::step: the method's own step_fn, then the dense output over the step.
Stepped(e, v) ==
    LET c == Controlled(e, v)
    IN  IF v.ok THEN [c EXCEPT !.open = TRUE, !.span = Head(e.dts)] ELSE c

Popped(s) == IF s = <<>> THEN <<>> ELSE Tail(s)

\* A mutant of Reverted: the width of the rejected step stays in the ring.
RevertedStateOnly(e) ==
    [Closed(e) EXCEPT !.x = IF e.history = <<>> THEN @ ELSE Head(e.history),
                      !.history = Popped(@),
                      !.pi = 0]

Reverted(e) ==
    [Closed(e) EXCEPT !.x = IF e.history = <<>> THEN @ ELSE Head(e.history),
                      !.history = Popped(@),
                      !.dts = Popped(@),
                      !.pi = 0]

\* An assignment from outside: an event's action, the Python API.
Assigned(e) == [Closed(e) EXCEPT !.x.epoch = @ + 1]

\* Solver::reset knows nothing of the method's own state: order and throttle stay.
Restarted(e) ==
    [Closed(e) EXCEPT !.x = Initial, !.history = <<>>, !.dts = <<>>, !.pi = 0]

\* Block::set_solver_from: a new engine that takes over the state.
Replaced(e) == [Fresh EXCEPT !.x = e.x]

CanInterpolate(e) == e.open /\ e.history # <<>>

\* The state at part of the step, read off the interpolant.
Interpolated(e, part) ==
    LET end == IF e.seeking THEN e.stash ELSE e.x
    IN  [end EXCEPT !.at = Head(e.history).at + part]

Sought(e, part) ==
    [e EXCEPT !.x = Interpolated(e, part),
              !.stash = IF e.seeking THEN @ ELSE e.x,
              !.seeking = TRUE]

SeekEnded(e) ==
    IF e.seeking THEN [e EXCEPT !.x = e.stash, !.seeking = FALSE] ELSE e

-----------------------------------------------------------------------------
(* The ring is a timeline: entry by entry, the widths are the distances    *)
(* between the states, with the state itself in front when it has been     *)
(* committed.  Only an assignment moves a state without moving time.       *)
IsTimeline(e) ==
    /\ Len(e.dts) = Len(e.history)
    /\ \A i \in 2 .. Len(e.history) : e.history[i - 1].at = e.history[i].at + e.dts[i]

\* The open window is over the step that ends in the state.
WindowIsTheStep(e) ==
    e.open =>
        LET end == IF e.seeking THEN e.stash ELSE e.x
        IN  /\ e.span = Head(e.dts)
            /\ end = [Head(e.history) EXCEPT !.at = @ + e.span]
=============================================================================
