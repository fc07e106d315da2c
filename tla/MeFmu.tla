-------------------------------- MODULE MeFmu --------------------------------
(***************************************************************************)
(* A Model Exchange FMU as a block (src/blocks/fmu.rs): fastsim integrates *)
(* its continuous states, reads its event indicators and hands the events  *)
(* back to it.                                                             *)
(*                                                                         *)
(* A state is abstracted to how far it has been integrated (at) and how    *)
(* often an event has made it jump (epoch).  Every event indicator goes    *)
(* down at unit rate and is zero when the state has come to cross[i]; due  *)
(* is the time of the FMU's next time event.  What an event changes is up  *)
(* to the FMU.                                                             *)
(***************************************************************************)
EXTENDS FmiInstance, FiniteSets, SequencesExt

CONSTANTS
    Indicators,     \* how many event indicators
    Gaps,           \* how long until the next crossing or time event
    Repeats,        \* whether an event may take a second update (BOOLEAN or {FALSE})
    MaxJumps,       \* bound on the jumps of the states
    Never           \* beyond every time reached

Indicator == 1 .. Indicators

\* always: there is a next time event at any time; never: there is none;
\* sometimes: an event, of either kind, may announce one.
Clock == {"always", "sometimes", "never"}

Instantiated(clock) ==
    [mode |-> "instantiated", legal |-> TRUE, clock |-> clock, time |-> 0,
     x |-> [at |-> 0, epoch |-> 0], jumps |-> 0, due |-> 0,
     cross |-> [i \in Indicator |-> 0]]

-----------------------------------------------------------------------------
(* The FMU's side.                                                         *)

SetTime(f, t) == [Called(f, "set_time") EXCEPT !.time = t]
SetContinuousStates(f, x) == [Called(f, "set_continuous_states") EXCEPT !.x = x]
Value(f, i) == f.cross[i] - f.x.at

Reached(f) == {i \in Indicator : Value(f, i) <= 0}

NextDues(f) ==
    CASE f.clock = "always"    -> {f.time + g : g \in Gaps}
      [] f.clock = "sometimes" -> {f.time + g : g \in Gaps} \cup {Never}
      [] f.clock = "never"     -> {Never}

\* A time event chooses the next one, another event may move it.
Dues(f) == IF f.time >= f.due THEN NextDues(f) ELSE {f.due} \cup NextDues(f)

Crossings(f) ==
    {c \in [Indicator -> {f.cross[i] : i \in Indicator}
                            \cup {f.x.at + g : g \in Gaps} \cup {Never}] :
        \A i \in Indicator : IF i \in Reached(f) THEN c[i] > f.x.at ELSE c[i] = f.cross[i]}

\* What an event may do: choose the next time event and the next crossings, make
\* the states jump, ask for another update.
Effects(f) ==
    [due : Dues(f), cross : Crossings(f), jump : {FALSE, f.jumps < MaxJumps}, again : Repeats]

Affected(f, e) ==
    LET g == [f EXCEPT !.due = e.due, !.cross = e.cross]
    IN  IF e.jump THEN [g EXCEPT !.jumps = f.jumps + 1, !.x.epoch = f.jumps + 1] ELSE g

\* The answers to update_discrete_states; asked is an event of the FMU's own.
Updates(f, asked) ==
    LET g == Called(f, "update_discrete_states")
    IN  IF ~asked /\ Reached(f) = {} /\ f.time < f.due
        THEN {[fmu |-> g, changed |-> FALSE, again |-> FALSE]}
        ELSE {[fmu |-> Affected(g, e), changed |-> e.jump, again |-> e.again] : e \in Effects(f)}

-----------------------------------------------------------------------------
(* The block's side.                                                       *)

\* Until nothing is left to do; only the last answer is returned.
Drained(f, asked) ==
    UNION {IF u.again THEN Updates(u.fmu, FALSE) ELSE {u} : u \in Updates(f, asked)}

Constructed(clock) ==
    {EnterContinuousTimeMode(u.fmu) :
        u \in Drained(Initialized(ApplyStructuralOverrides(Instantiated(clock)), TRUE), FALSE)}

\* f_alg and f_dyn: the FMU is put where the simulation evaluates it.
Evaluated(f, x, t) == SetContinuousStates(SetTime(f, t), x)

\* The buffered value of an indicator, by its func_evt.
Indicated(f, t) == Called(SetTime(f, t), "get_event_indicators")

\* A mutant of Inserted: what is already in the list is added again.
InsertedAgain(list, t) ==
    InsertAt(list, Cardinality({i \in DOMAIN list : list[i] < t}) + 1, t)

\* insert_time_event: in order, and once.
Inserted(list, t) ==
    LET pos == Cardinality({i \in DOMAIN list : list[i] < t}) + 1
    IN  IF pos <= Len(list) /\ list[pos] = t THEN list ELSE InsertAt(list, pos, t)

\* A mutant of Handled: the FMU's new states do not reach the engine.
HandledInside(f, x, list, t, asked) ==
    {[fmu  |-> EnterContinuousTimeMode(u.fmu),
      x    |-> x,
      list |-> IF u.fmu.due # Never THEN Inserted(list, u.fmu.due) ELSE list] :
        u \in Drained(EnterEventMode(SetTime(f, t)), asked)}

\* handle_event, on the FMU, the state of the block's engine and the list of
\* time events.
Handled(f, x, list, t, asked) ==
    {[fmu  |-> EnterContinuousTimeMode(u.fmu),
      x    |-> IF u.changed THEN u.fmu.x ELSE x,
      list |-> IF u.fmu.due # Never THEN Inserted(list, u.fmu.due) ELSE list] :
        u \in Drained(EnterEventMode(SetTime(f, t)), asked)}
=============================================================================
