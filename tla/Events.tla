------------------------------- MODULE Events -------------------------------
(***************************************************************************)
(* The event types of src/events: what one event buffers, when it is       *)
(* detected over a step, how far into the step it lies, and what its       *)
(* resolution records.                                                     *)
(*                                                                         *)
(* Time and guard values live on an integer grid.  The floating point      *)
(* tolerance of scheduled events (tolerance_at) is below one grid unit, so *)
(* "within tolerance" is equality here; the tolerances of guard events are *)
(* constants in grid units.                                                *)
(***************************************************************************)
EXTENDS Integers, Sequences

CONSTANTS
    Event,      \* identities of the events, external and block-internal
    Kind,       \* [Event -> {"periodic", "list", "crossing", "condition"}]
    Start,      \* Schedule.t_start
    Period,     \* Schedule.t_period
    Last,       \* Schedule.t_end (a time no run reaches stands for None)
    List,       \* ScheduleList.times_evt, ascending
    Direction,  \* ZeroCrossing.direction: "both", "up" or "down"
    Source,     \* the block whose output func_evt reads, or Clock
    Threshold,  \* func_evt is the reading of Source minus Threshold
    Tol,        \* tolerance of a crossing (value) or of a condition (time)
    Clock,      \* stands for a guard that reads the simulation time
    NoValue     \* the None of an event history

ASSUME EventAssumption ==
    /\ Event \subseteq Nat          \* position in the detection order
    /\ Kind \in [Event -> {"periodic", "list", "crossing", "condition"}]
    /\ Start \in [Event -> Nat] /\ Period \in [Event -> Nat] /\ Last \in [Event -> Nat]
    /\ List \in [Event -> Seq(Nat)]
    /\ \A e \in Event : Kind[e] = "list" => List[e] # <<>>
    /\ \A e \in Event : \A i \in 1 .. (Len(List[e]) - 1) : List[e][i] <= List[e][i + 1]
    /\ Direction \in [Event -> {"both", "up", "down"}]
    /\ Threshold \in [Event -> Int]
    /\ Tol \in [Event -> Nat]

Scheduled(e) == Kind[e] \in {"periodic", "list"}

\* What an event keeps, and a fraction of a step.
EventState == [active : BOOLEAN, val : Int \cup {NoValue}, at : Int, times : Seq(Int)]
RatioType == Nat \X (Nat \ {0})

Magnitude(v) == IF v < 0 THEN -v ELSE v

\* A fresh or reset event: no history value, no recorded time, active.
FreshEvent == [active |-> TRUE, val |-> NoValue, at |-> 0, times |-> <<>>]

\* func_evt evaluated on the block outputs o at time t.
Reading(e, o, t) ==
    (IF Source[e] = Clock THEN t ELSE o[Source[e]]) - Threshold[e]

-----------------------------------------------------------------------------
(* Schedule and ScheduleList *)

NextTick(e, s) ==
    IF Kind[e] = "periodic"
    THEN Start[e] + Len(s.times) * Period[e]
    ELSE IF Len(s.times) < Len(List[e])
         THEN List[e][Len(s.times) + 1]
         ELSE List[e][Len(List[e])]

\* The schedule has run out: detect switches the event off.
Exhausted(e, s) ==
    \/ Kind[e] = "periodic" /\ NextTick(e, s) > Last[e]
    \/ Kind[e] = "list" /\ Len(s.times) >= Len(List[e])

\* (Mutant: a tick at the very end of the step is not seen.)
TickDueBefore(e, s, t) == ~Exhausted(e, s) /\ NextTick(e, s) < t
TickDue(e, s, t) == ~Exhausted(e, s) /\ NextTick(e, s) <= t

\* On the end of the step, or already passed when the step began.
TickClose(e, s, t) == NextTick(e, s) = t \/ s.at >= NextTick(e, s)

TickRatio(e, s, t) ==
    CASE NextTick(e, s) = t    -> <<1, 1>>
      [] s.at >= NextTick(e, s) /\ NextTick(e, s) # t -> <<0, 1>>
      [] OTHER -> <<NextTick(e, s) - s.at, Magnitude(t - s.at)>>

-----------------------------------------------------------------------------
(* ZeroCrossing: v is the buffered value, r the reading at the step end *)

ExactHit(e, v, r) ==
    /\ r = 0
    /\ CASE Direction[e] = "both" -> v # 0
         [] Direction[e] = "up"   -> v < 0
         [] Direction[e] = "down" -> v > 0

SignChange(e, v, r) ==
    \/ Direction[e] \in {"both", "up"} /\ v < 0 /\ r > 0
    \/ Direction[e] \in {"both", "down"} /\ v > 0 /\ r < 0

CrossingDue(e, s, r) ==
    /\ s.val # NoValue
    /\ ExactHit(e, s.val, r) \/ SignChange(e, s.val, r)

CrossingClose(e, s, r) == ExactHit(e, s.val, r) \/ Magnitude(r) <= Tol[e]

CrossingRatio(e, s, r) ==
    IF ExactHit(e, s.val, r) THEN <<1, 1>>
    ELSE <<Magnitude(s.val), Magnitude(s.val - r)>>

-----------------------------------------------------------------------------
(* Condition: true once its reading has reached zero *)

ConditionDue(r) == r >= 0

ConditionClose(e, s, t) == t - s.at < Tol[e]

ConditionRatio(e, s, t) == IF ConditionClose(e, s, t) THEN <<1, 1>> ELSE <<1, 2>>

-----------------------------------------------------------------------------
(* detect: (detected, close, ratio) of event e in state s *)

Due(e, s, r, t) ==
    CASE Scheduled(e)           -> TickDue(e, s, t)
      [] Kind[e] = "crossing"   -> CrossingDue(e, s, r)
      [] Kind[e] = "condition"  -> ConditionDue(r)

Close(e, s, r, t) ==
    CASE Scheduled(e)           -> TickClose(e, s, t)
      [] Kind[e] = "crossing"   -> CrossingClose(e, s, r)
      [] Kind[e] = "condition"  -> ConditionClose(e, s, t)

Ratio(e, s, r, t) ==
    CASE Scheduled(e)           -> TickRatio(e, s, t)
      [] Kind[e] = "crossing"   -> CrossingRatio(e, s, r)
      [] Kind[e] = "condition"  -> ConditionRatio(e, s, t)

Earlier(p, q) == p[1] * q[2] < q[1] * p[2]

\* detect's own side effect: an exhausted schedule switches itself off.
AfterDetect(e, s) == [s EXCEPT !.active = @ /\ ~(Scheduled(e) /\ Exhausted(e, s))]

\* buffer: the guard value (none for a schedule) and the time of the step start.
Buffered(e, s, r, t) ==
    [s EXCEPT !.val = IF Scheduled(e) THEN NoValue ELSE r, !.at = t]

\* resolve: a schedule records its own exact tick, a guard event the given time.
Recorded(e, s, t) ==
    [s EXCEPT !.times = Append(@, IF Scheduled(e) THEN NextTick(e, s) ELSE t)]

\* The end of a resolution: a Condition is one-shot, whatever its action did.
Disarmed(e, s) == IF Kind[e] = "condition" THEN [s EXCEPT !.active = FALSE] ELSE s

=============================================================================
