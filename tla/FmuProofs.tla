------------------------------- MODULE FmuProofs -------------------------------
(***************************************************************************)
(* Proofs about FmuSimulation for every FMU, any number of indicators, any *)
(* widths and any number of attempts.                                      *)
(***************************************************************************)
EXTENDS FmuSimulation, Induction, FiniteSetTheorems

-----------------------------------------------------------------------------
(* The calls to an instance, where they are allowed.                       *)

Mode == {"instantiated", "configuration", "initialization", "event", "continuous", "step", "done"}
State == [at : Int, epoch : Nat]
Fmu == [mode : Mode, legal : BOOLEAN, clock : Clock, time : Int, x : State,
        jumps : Nat, due : Int, cross : [Indicator -> Int]]
Cs == [mode : Mode, legal : BOOLEAN, events : BOOLEAN, early : BOOLEAN, taylor : BOOLEAN,
       time : Int, current : Int, terminated : BOOLEAN, shown : Int]

\* The table of the calls, row by row.
LEMMA AllowedFacts ==
  /\ Allowed["enter_configuration_mode"] = {"instantiated"}
  /\ Allowed["exit_configuration_mode"] = {"configuration"}
  /\ Allowed["enter_initialization_mode"] = {"instantiated"}
  /\ Allowed["exit_initialization_mode"] = {"initialization"}
  /\ Allowed["set_structural"] = {"configuration"}
  /\ Allowed["set_start"] = {"initialization"}
  /\ Allowed["update_discrete_states"] = {"event"}
  /\ Allowed["enter_continuous_time_mode"] = {"event"}
  /\ Allowed["enter_event_mode"] = {"continuous", "step"}
  /\ Allowed["completed_integrator_step"] = {"continuous"}
  /\ Allowed["set_time"] = {"event", "continuous"}
  /\ Allowed["set_continuous_states"] = {"continuous"}
  /\ Allowed["get_event_indicators"] = {"event", "continuous"}
  /\ Allowed["enter_step_mode"] = {"event"}
  /\ Allowed["do_step"] = {"step"}
  /\ Allowed["get_set_variables"] = {"event", "continuous", "step"}
  BY DEF Allowed

\* A Model Exchange instance between two calls of the block.
Ready(f) == f \in Fmu /\ f.legal /\ f.mode = "continuous"
InEvent(f) == f \in Fmu /\ f.legal /\ f.mode = "event"

\* A call that is allowed leaves no mark.
LEMMA AllowedCall ==
  ASSUME NEW f \in Fmu \cup Cs, f.legal, NEW call, f.mode \in Allowed[call]
  PROVE  Called(f, call) = f
  <1>1. CASE f \in Fmu BY <1>1 DEF Called, Fmu
  <1>2. CASE f \in Cs BY <1>2 DEF Called, Cs
  <1>3. QED BY <1>1, <1>2

\* One that changes the mode changes nothing else.
In(f, mode) == [f EXCEPT !.mode = mode]

\* A change of mode changes nothing else, and only the last one counts.
LEMMA InFacts ==
  ASSUME NEW f \in Fmu \cup Cs, NEW mode \in Mode
  PROVE  /\ f \in Fmu => In(f, mode) \in Fmu
         /\ f \in Cs => In(f, mode) \in Cs
         /\ In(f, mode).mode = mode /\ In(f, mode).legal = f.legal
         /\ \A m \in Mode : In(In(f, mode), m) = In(f, m)
  <1>1. f \in Fmu => In(f, mode) \in Fmu BY DEF In, Fmu
  <1>2. f \in Cs => In(f, mode) \in Cs BY DEF In, Cs
  <1>3. In(f, mode).mode = mode /\ In(f, mode).legal = f.legal
    <2>1. "mode" \in DOMAIN f /\ "legal" \in DOMAIN f BY DEF Fmu, Cs
    <2>2. QED BY <2>1 DEF In
  <1>4. \A m \in Mode : In(In(f, mode), m) = In(f, m) BY DEF In
  <1>5. QED BY <1>1, <1>2, <1>3, <1>4

\* A call that is allowed and changes the mode only changes the mode.
LEMMA MovedFacts ==
  ASSUME NEW f \in Fmu \cup Cs, f.legal, NEW call, f.mode \in Allowed[call], NEW mode \in Mode
  PROVE  Moved(f, call, mode) = In(f, mode)
  BY AllowedCall DEF Moved, In

\* The time may be set between events and within one.
LEMMA SetTimeFacts ==
  ASSUME NEW f \in Fmu, f.legal, f.mode \in {"event", "continuous"}, NEW t \in Int
  PROVE  SetTime(f, t) = [f EXCEPT !.time = t]
  BY AllowedCall, AllowedFacts DEF SetTime

\* An evaluation puts the FMU where the simulation is.
LEMMA EvaluatedFacts ==
  ASSUME NEW f, Ready(f), NEW y \in State, NEW t \in Int
  PROVE  /\ Ready(Evaluated(f, y, t))
         /\ Evaluated(f, y, t).time = t /\ Evaluated(f, y, t).x = y
         /\ Evaluated(f, y, t).jumps = f.jumps /\ Evaluated(f, y, t).due = f.due
         /\ Evaluated(f, y, t).cross = f.cross /\ Evaluated(f, y, t).clock = f.clock
  <1>1. SetTime(f, t) = [f EXCEPT !.time = t] BY SetTimeFacts DEF Ready
  <1> DEFINE g == [f EXCEPT !.time = t]
  <1>2. g \in Fmu /\ g.legal /\ g.mode = "continuous" BY DEF Ready, Fmu
  <1>3. Evaluated(f, y, t) = [g EXCEPT !.x = y]
    <2>1. Called(g, "set_continuous_states") = g
      <3> HIDE DEF g
      <3>1. QED BY <1>2, AllowedCall, AllowedFacts
    <2>2. QED BY <1>1, <2>1 DEF Evaluated, SetContinuousStates
  <1>4. QED BY <1>3 DEF Ready, Fmu

\* Reading an indicator only sets the time.
LEMMA IndicatedFacts ==
  ASSUME NEW f, Ready(f), NEW t \in Int
  PROVE  Indicated(f, t) = [f EXCEPT !.time = t] /\ Ready(Indicated(f, t))
  <1>1. SetTime(f, t) = [f EXCEPT !.time = t] BY SetTimeFacts DEF Ready
  <1> DEFINE g == [f EXCEPT !.time = t]
  <1>2. g \in Fmu /\ g.legal /\ g.mode = "continuous" BY DEF Ready, Fmu
  <1>3. Called(g, "get_event_indicators") = g
    <2> HIDE DEF g
    <2>1. QED BY <1>2, AllowedCall, AllowedFacts
  <1>4. QED BY <1>1, <1>2, <1>3 DEF Indicated, Ready

-----------------------------------------------------------------------------
(* What an event may change.                                               *)

\* A time event is announced for later.
LEMMA NextDuesFacts ==
  ASSUME NEW f \in Fmu, f.time <= MaxTime
  PROVE  /\ NextDues(f) \subseteq Int
         /\ \A d \in NextDues(f) : d > f.time
         /\ f.clock = "never" => NextDues(f) = {Never}
         /\ f.clock = "always" => Never \notin NextDues(f)
  <1>1. f.time \in Int /\ f.clock \in Clock BY DEF Fmu
  <1>2. \A g \in Gaps : g \in Nat /\ g > 0 /\ MaxTime + g < Never BY FmuAssumption
  <1>3. \A g \in Gaps : f.time + g \in Int /\ f.time + g > f.time /\ f.time + g < Never
    BY <1>1, <1>2, FmuAssumption
  <1>4. Never > f.time /\ Never \in Int BY <1>1, FmuAssumption
  <1>5. CASE f.clock = "always" BY <1>3, <1>5 DEF NextDues
  <1>6. CASE f.clock = "sometimes" BY <1>3, <1>4, <1>6 DEF NextDues
  <1>7. CASE f.clock = "never" BY <1>4, <1>7 DEF NextDues
  <1>8. QED BY <1>1, <1>5, <1>6, <1>7 DEF Clock

\* What holds of an answer u to an event at f.
Answer(u, f) ==
    /\ InEvent(u.fmu)
    /\ u.fmu.time = f.time /\ u.fmu.clock = f.clock /\ u.fmu.x.at = f.x.at
    /\ u.fmu.due > f.time
    /\ u.fmu.due = f.due \/ u.fmu.due \in NextDues(f)
    /\ u.changed \in BOOLEAN

\* What holds of an answer that is the only one to an event.
OnlyAnswer(u, f) ==
    IF u.changed THEN u.fmu.x.epoch = u.fmu.jumps ELSE u.fmu.jumps = f.jumps

\* One call of update_discrete_states.
LEMMA UpdatesFacts ==
  ASSUME NEW f, InEvent(f), f.time <= MaxTime, NEW asked \in BOOLEAN, NEW u \in Updates(f, asked)
  PROVE  Answer(u, f) /\ OnlyAnswer(u, f) /\ u.again \in Repeats \cup {FALSE}
  <1> USE DEF InEvent
  <1>1. Called(f, "update_discrete_states") = f BY AllowedCall, AllowedFacts
  <1>2. f.time \in Int /\ f.due \in Int /\ f.x.at \in Int /\ f.cross \in [Indicator -> Int]
    BY DEF Fmu, State
  <1>3. CASE ~asked /\ Reached(f) = {} /\ f.time < f.due
    <2>1. u = [fmu |-> f, changed |-> FALSE, again |-> FALSE] BY <1>1, <1>3 DEF Updates
    <2>2. QED BY <2>1, <1>2, <1>3 DEF Answer, OnlyAnswer
  <1>4. CASE ~(~asked /\ Reached(f) = {} /\ f.time < f.due)
    <2>1. PICK e \in Effects(f) :
             u = [fmu |-> Affected(f, e), changed |-> e.jump, again |-> e.again]
      BY <1>1, <1>4 DEF Updates
    <2> DEFINE d == e.due
               c == e.cross
               j == e.jump
               a == e.again
    <2>20. /\ d \in Dues(f) /\ c \in Crossings(f) /\ j \in {FALSE, f.jumps < MaxJumps}
           /\ a \in Repeats /\ u.changed = j /\ u.again = a /\ u.fmu = Affected(f, e)
      BY <2>1 DEF Effects
    <2> HIDE DEF d, c, j, a
    <2>2. j \in BOOLEAN /\ a \in Repeats
      <3>1. (f.jumps < MaxJumps) \in BOOLEAN OBVIOUS
      <3>2. QED BY <2>20, <3>1
    <2>3. /\ d \in Int /\ d > f.time
          /\ d = f.due \/ d \in NextDues(f)
      BY <1>2, <2>20, NextDuesFacts DEF Dues
    <2>4. c \in [Indicator -> Int]
      <3>1. \A i \in Indicator : f.cross[i] \in Int BY <1>2
      <3>2. Never \in Int /\ \A g \in Gaps : f.x.at + g \in Int BY <1>2, FmuAssumption
      <3>3. c \in [Indicator -> {f.cross[i] : i \in Indicator}
                                  \cup {f.x.at + g : g \in Gaps} \cup {Never}]
        BY <2>20 DEF Crossings
      <3>4. {f.cross[i] : i \in Indicator} \cup {f.x.at + g : g \in Gaps} \cup {Never} \subseteq Int
        BY <3>1, <3>2
      <3>5. QED BY <3>3, <3>4
    <2> DEFINE g == u.fmu
    <2>6. /\ g \in Fmu /\ g.legal = f.legal /\ g.mode = f.mode /\ g.time = f.time
          /\ g.clock = f.clock /\ g.x.at = f.x.at /\ g.due = d
          /\ g.jumps = IF j THEN f.jumps + 1 ELSE f.jumps
          /\ j => g.x.epoch = f.jumps + 1
      <3>1. f.jumps \in Nat /\ f.x \in State BY DEF Fmu
      <3>2. CASE j
        <4> DEFINE y == [f.x EXCEPT !.epoch = f.jumps + 1]
        <4>1. y \in State /\ y.at = f.x.at /\ y.epoch = f.jumps + 1 BY <3>1 DEF State
        <4>2. g = [f EXCEPT !.due = d, !.cross = c, !.jumps = f.jumps + 1, !.x = y]
          BY <2>20, <3>2 DEF Affected, d, c, j
        <4> HIDE DEF y, g
        <4>3. /\ g \in Fmu /\ g.legal = f.legal /\ g.mode = f.mode /\ g.time = f.time
              /\ g.clock = f.clock /\ g.x = y /\ g.due = d /\ g.jumps = f.jumps + 1
          <5> DEFINE h == [f EXCEPT !.due = d, !.cross = c]
          <5>1. /\ h \in Fmu /\ h.legal = f.legal /\ h.mode = f.mode /\ h.time = f.time
                /\ h.clock = f.clock /\ h.due = d
            BY <2>3, <2>4 DEF Fmu
          <5>2. g = [h EXCEPT !.jumps = f.jumps + 1, !.x = y] BY <4>2
          <5>3. f.jumps + 1 \in Nat BY <3>1
          <5> HIDE DEF h
          <5>4. QED BY <3>1, <4>1, <5>1, <5>2, <5>3 DEF Fmu
        <4>4. QED BY <3>2, <4>1, <4>3
      <3>3. CASE ~j
        <4>1. g = [f EXCEPT !.due = d, !.cross = c] BY <2>20, <3>3 DEF Affected, d, c, j
        <4> HIDE DEF g
        <4>2. QED BY <2>3, <2>4, <3>1, <3>3, <4>1 DEF Fmu
      <3>4. QED BY <3>2, <3>3
    <2>7. QED BY <2>2, <2>3, <2>20, <2>6 DEF Answer, OnlyAnswer
  <1>5. QED BY <1>3, <1>4

\* All of them, until the FMU asks for no more.
LEMMA DrainedFacts ==
  ASSUME NEW f, InEvent(f), f.time <= MaxTime, NEW asked \in BOOLEAN, NEW u \in Drained(f, asked)
  PROVE  Answer(u, f) /\ (TRUE \notin Repeats => OnlyAnswer(u, f))
  <1>1. PICK v \in Updates(f, asked) : u \in IF v.again THEN Updates(v.fmu, FALSE) ELSE {v}
    BY DEF Drained
  <1>2. Answer(v, f) /\ OnlyAnswer(v, f) /\ v.again \in Repeats \cup {FALSE}
    BY UpdatesFacts
  <1>3. CASE ~v.again BY <1>1, <1>2, <1>3
  <1>4. CASE v.again
    <2>1. InEvent(v.fmu) /\ v.fmu.time <= MaxTime BY <1>2 DEF Answer
    <2>2. u \in Updates(v.fmu, FALSE) BY <1>1, <1>4
    <2>3. Answer(u, v.fmu) BY <2>1, <2>2, UpdatesFacts
    <2>4. NextDues(v.fmu) = NextDues(f) BY <1>2 DEF NextDues, Answer
    <2>5. Answer(u, f) BY <1>2, <2>3, <2>4 DEF Answer
    <2>6. v.again = TRUE BY <1>2, <1>4
    <2>7. QED BY <1>2, <1>4, <2>5, <2>6
  <1>5. QED BY <1>3, <1>4

-----------------------------------------------------------------------------
(* Construction and the handling of an event.                              *)

\* Initialization goes through the modes without a call out of place.
LEMMA InitializedFacts ==
  ASSUME NEW f \in Fmu \cup Cs, f.legal, f.mode = "instantiated", NEW events \in BOOLEAN
  PROVE  Initialized(ApplyStructuralOverrides(f), events)
            = In(f, IF events THEN "event" ELSE "step")
  <1> DEFINE InMode(g, m) == g = In(f, m) /\ g \in Fmu \cup Cs /\ g.legal /\ g.mode = m
             Move(g, call, m) == Moved(g, call, m)
  <1>1. \A m \in Mode : InMode(In(f, m), m) BY InFacts
  <1>2. ASSUME NEW g, NEW m, InMode(g, m), NEW call, m \in Allowed[call]
        PROVE  Called(g, call) = g
    BY <1>2, AllowedCall
  <1>3. ASSUME NEW g, NEW m \in Mode, InMode(g, m), NEW call, m \in Allowed[call], NEW n \in Mode
        PROVE  InMode(Moved(g, call, n), n)
    <2>1. Moved(g, call, n) = In(g, n) BY <1>3, MovedFacts
    <2>2. In(g, n) = In(f, n) BY <1>3, InFacts
    <2>3. QED BY <1>1, <2>1, <2>2
  <1>4. InMode(f, "instantiated")
    <2>1. f = In(f, "instantiated")
      <3>1. CASE f \in Fmu BY <3>1 DEF In, Fmu
      <3>2. CASE f \in Cs BY <3>2 DEF In, Cs
      <3>3. QED BY <3>1, <3>2
    <2>2. QED BY <2>1
  <1> DEFINE s == ApplyStructuralOverrides(f)
             i == EnterInitializationMode(s)
             v == SetStart(i)
  <1> HIDE DEF InMode
  <1> USE DEF Mode
  <1>5. InMode(s, "instantiated")
    <2>1. CASE Overridden \cap Structural = {} BY <1>4, <2>1 DEF ApplyStructuralOverrides
    <2>2. CASE Overridden \cap Structural # {}
      <3> DEFINE c == EnterConfigurationMode(f)
      <3>1. InMode(c, "configuration") BY <1>3, <1>4, AllowedFacts DEF EnterConfigurationMode
      <3>2. Called(c, "set_structural") = c
        <4> HIDE DEF c
        <4>1. QED BY <1>2, <3>1, AllowedFacts
      <3>3. s = ExitConfigurationMode(c) BY <2>2, <3>2 DEF ApplyStructuralOverrides
      <3> HIDE DEF c
      <3>4. QED BY <1>3, <3>1, <3>3, AllowedFacts DEF ExitConfigurationMode
    <2>3. QED BY <2>1, <2>2
  <1> HIDE DEF s
  <1>6. InMode(i, "initialization") BY <1>3, <1>5, AllowedFacts DEF EnterInitializationMode
  <1> HIDE DEF i
  <1>7. InMode(v, "initialization")
    <2>1. Remaining \cap Structural = {} BY DEF Remaining
    <2>2. Called(i, "set_start") = i BY <1>2, <1>6, AllowedFacts
    <2>3. v = i BY <2>1, <2>2 DEF SetStart
    <2>4. QED BY <1>6, <2>3
  <1> HIDE DEF v
  <1>8. Initialized(s, events) =
            Moved(v, "exit_initialization_mode", IF events THEN "event" ELSE "step")
    BY DEF Initialized, ExitInitializationMode, v, i
  <1>9. CASE events
    <2>1. InMode(Moved(v, "exit_initialization_mode", "event"), "event")
      BY <1>3, <1>7, AllowedFacts
    <2>2. QED BY <1>8, <1>9, <2>1 DEF InMode, s
  <1>10. CASE ~events
    <2>1. InMode(Moved(v, "exit_initialization_mode", "step"), "step")
      BY <1>3, <1>7, AllowedFacts
    <2>2. QED BY <1>8, <1>10, <2>1 DEF InMode, s
  <1>11. QED BY <1>9, <1>10

\* What a new Model Exchange block starts from.
LEMMA ConstructedFacts ==
  ASSUME NEW clock \in Clocks, NEW f \in Constructed(clock)
  PROVE  /\ Ready(f) /\ f.time = 0 /\ f.clock = clock /\ f.x.at = 0 /\ f.due > 0
         /\ clock = "never" => f.due = Never
         /\ clock = "always" => f.due # Never
         /\ TRUE \notin Repeats => f.x.epoch = f.jumps
  <1> DEFINE n == Instantiated(clock)
             i == Initialized(ApplyStructuralOverrides(n), TRUE)
  <1>1. clock \in Clock BY FmuAssumption
  <1>2. /\ n \in Fmu /\ n.legal /\ n.mode = "instantiated" /\ n.time = 0 /\ n.clock = clock
        /\ n.x = [at |-> 0, epoch |-> 0] /\ n.jumps = 0 /\ n.due = 0
    BY <1>1 DEF Instantiated, Fmu, State, Mode
  <1> HIDE DEF n
  <1>3. i = [n EXCEPT !.mode = "event"] BY <1>2, InitializedFacts DEF In
  <1> HIDE DEF i
  <1>4. /\ InEvent(i) /\ i.time = 0 /\ i.clock = clock
        /\ i.x = [at |-> 0, epoch |-> 0] /\ i.jumps = 0 /\ i.due = 0
    BY <1>2, <1>3 DEF InEvent, Fmu, Mode
  <1>5. PICK u \in Drained(i, FALSE) : f = EnterContinuousTimeMode(u.fmu)
    BY DEF Constructed, i, n
  <1>6. i.time <= MaxTime BY <1>4, FmuAssumption
  <1>7. Answer(u, i) /\ (TRUE \notin Repeats => OnlyAnswer(u, i)) BY <1>4, <1>6, DrainedFacts
  <1>8. f = [u.fmu EXCEPT !.mode = "continuous"]
    <2>1. u.fmu \in Fmu /\ u.fmu.legal /\ u.fmu.mode = "event" BY <1>7 DEF Answer, InEvent
    <2>2. QED BY <1>5, <2>1, MovedFacts, AllowedFacts DEF EnterContinuousTimeMode, In, Mode
  <1>9. /\ Ready(f) /\ f.time = 0 /\ f.clock = clock /\ f.x = u.fmu.x /\ f.due = u.fmu.due
        /\ f.jumps = u.fmu.jumps
    BY <1>4, <1>7, <1>8 DEF Answer, InEvent, Ready, Fmu, Mode
  <1>10. NextDues(i) \subseteq Int /\ (clock = "never" => NextDues(i) = {Never})
         /\ (clock = "always" => Never \notin NextDues(i))
    BY <1>4, <1>6, NextDuesFacts DEF InEvent
  <1>11. u.fmu.due \in NextDues(i)
    BY <1>4, <1>7 DEF Answer
  <1>12. TRUE \notin Repeats => u.fmu.x.epoch = u.fmu.jumps
    <2>1. SUFFICES ASSUME TRUE \notin Repeats PROVE u.fmu.x.epoch = u.fmu.jumps OBVIOUS
    <2>2. PICK v \in Updates(i, FALSE) : u \in IF v.again THEN Updates(v.fmu, FALSE) ELSE {v}
      BY <1>5 DEF Drained
    <2>3. v.again = FALSE
      <3>1. v.again \in Repeats \cup {FALSE} BY <1>4, <1>6, UpdatesFacts
      <3>2. v.again \in BOOLEAN BY <3>1, FmuAssumption
      <3>3. QED BY <2>1, <3>1, <3>2
    <2>4. u \in Updates(i, FALSE) BY <2>2, <2>3
    <2>5. Called(i, "update_discrete_states") = i BY <1>4, AllowedCall, AllowedFacts DEF InEvent
    <2>6. PICK e \in Effects(i) : u.fmu = Affected(i, e)
      <3>1. ~(i.time < i.due) BY <1>4
      <3>2. QED BY <2>4, <2>5, <3>1 DEF Updates
    <2>7. i.x = [at |-> 0, epoch |-> 0] /\ i.jumps = 0 /\ i \in Fmu BY <1>4 DEF InEvent
    <2> DEFINE g == [i EXCEPT !.due = e.due, !.cross = e.cross]
    <2>8. g.x = [at |-> 0, epoch |-> 0] /\ g.jumps = 0 /\ DOMAIN g = DOMAIN i
          /\ "x" \in DOMAIN i /\ "jumps" \in DOMAIN i
      BY <2>7 DEF Fmu
    <2>9. u.fmu = IF e.jump THEN [g EXCEPT !.jumps = i.jumps + 1, !.x.epoch = i.jumps + 1] ELSE g
      BY <2>6 DEF Affected
    <2> HIDE DEF g
    <2>10. QED BY <2>7, <2>8, <2>9
  <1>13. f.x.at = 0 /\ f.due > 0 BY <1>4, <1>7, <1>9 DEF Answer
  <1>14. /\ clock = "never" => f.due = Never
         /\ clock = "always" => f.due # Never
    BY <1>9, <1>10, <1>11
  <1>15. TRUE \notin Repeats => f.x.epoch = f.jumps BY <1>9, <1>12
  <1>16. QED BY <1>9, <1>13, <1>14, <1>15

\* An event handled at t is about t; it leaves the next time event in the list.
HandledAt(h, f, y, l, t) ==
    /\ Ready(h.fmu) /\ h.fmu.time = t /\ h.fmu.clock = f.clock /\ h.fmu.x.at = f.x.at
    /\ h.fmu.due > t
    /\ h.x \in State /\ (y.at = f.x.at => h.x.at = f.x.at)
    /\ h.list = IF h.fmu.due # Never THEN Inserted(l, h.fmu.due) ELSE l
    /\ f.clock = "never" /\ f.due = Never => h.fmu.due = Never
    /\ f.clock = "always" => h.fmu.due = f.due \/ h.fmu.due # Never
    /\ TRUE \notin Repeats /\ y.epoch = f.jumps => h.x.epoch = h.fmu.jumps

\* handle_event does that for whatever the FMU answers.
LEMMA HandledFacts ==
  ASSUME NEW f, Ready(f), NEW t \in Int, t <= MaxTime, NEW y \in State, NEW l,
         NEW asked \in BOOLEAN, NEW h \in Handled(f, y, l, t, asked)
  PROVE  HandledAt(h, f, y, l, t)
  <1> DEFINE g == [f EXCEPT !.time = t]
             e == EnterEventMode(SetTime(f, t))
  <1>1. SetTime(f, t) = g BY SetTimeFacts DEF Ready
  <1>2. g \in Fmu /\ g.legal /\ g.mode = "continuous" /\ g.time = t /\ g.clock = f.clock
        /\ g.x = f.x /\ g.due = f.due /\ g.jumps = f.jumps
    BY DEF Ready, Fmu
  <1> HIDE DEF g
  <1>3. e = [g EXCEPT !.mode = "event"]
    BY <1>1, <1>2, MovedFacts, AllowedFacts DEF EnterEventMode, In, Mode
  <1> HIDE DEF e
  <1>4. /\ InEvent(e) /\ e.time = t /\ e.clock = f.clock /\ e.x = f.x /\ e.due = f.due
        /\ e.jumps = f.jumps
    BY <1>2, <1>3 DEF InEvent, Fmu, Mode
  <1>5. PICK u \in Drained(e, asked) :
           h = [fmu  |-> EnterContinuousTimeMode(u.fmu),
                x    |-> IF u.changed THEN u.fmu.x ELSE y,
                list |-> IF u.fmu.due # Never THEN Inserted(l, u.fmu.due) ELSE l]
    BY DEF Handled, e
  <1>6. Answer(u, e) /\ (TRUE \notin Repeats => OnlyAnswer(u, e)) BY <1>4, DrainedFacts
  <1>7. h.fmu = [u.fmu EXCEPT !.mode = "continuous"]
    <2>1. u.fmu \in Fmu /\ u.fmu.legal /\ u.fmu.mode = "event" BY <1>6 DEF Answer, InEvent
    <2>2. QED BY <1>5, <2>1, MovedFacts, AllowedFacts DEF EnterContinuousTimeMode, In, Mode
  <1>8. /\ Ready(h.fmu) /\ h.fmu.time = t /\ h.fmu.clock = f.clock /\ h.fmu.x = u.fmu.x
        /\ h.fmu.x.at = f.x.at /\ h.fmu.due = u.fmu.due /\ h.fmu.due > t
        /\ h.fmu.jumps = u.fmu.jumps
    BY <1>4, <1>6, <1>7 DEF Answer, InEvent, Ready, Fmu, Mode
  <1>9. h.x = IF u.changed THEN u.fmu.x ELSE y BY <1>5
  <1>10. h.x \in State /\ (y.at = f.x.at => h.x.at = f.x.at)
    <2>1. u.fmu.x \in State /\ u.fmu.x.at = f.x.at BY <1>4, <1>6 DEF Answer, InEvent, Fmu
    <2>2. QED BY <1>9, <2>1
  <1>11. h.list = IF h.fmu.due # Never THEN Inserted(l, h.fmu.due) ELSE l BY <1>5, <1>8
  <1>12. h.fmu.due = f.due \/ h.fmu.due \in NextDues(e) BY <1>4, <1>6, <1>8 DEF Answer
  <1>13. /\ f.clock = "never" => NextDues(e) = {Never}
         /\ f.clock = "always" => Never \notin NextDues(e)
    BY <1>4, NextDuesFacts DEF InEvent
  <1>14. TRUE \notin Repeats /\ y.epoch = f.jumps => h.x.epoch = h.fmu.jumps
    BY <1>4, <1>6, <1>8, <1>9 DEF OnlyAnswer
  <1>15. QED BY <1>8, <1>10, <1>11, <1>12, <1>13, <1>14 DEF HandledAt

-----------------------------------------------------------------------------
(* The Co-Simulation block.                                                *)

\* A Co-Simulation instance between two calls of the block.
Sound(c) == c \in Cs /\ c.legal /\ c.mode = IF c.terminated THEN "done" ELSE "step"

\* What a new Co-Simulation block starts from.
LEMMA CsConstructedFacts ==
  ASSUME NEW events \in BOOLEAN, NEW early \in BOOLEAN, NEW taylor \in BOOLEAN
  PROVE  LET c == CsConstructed(CsInstantiated(events, early, taylor))
         IN  Sound(c) /\ ~c.terminated /\ c.time = 0 /\ c.current = 0
  <1> DEFINE n == CsInstantiated(events, early, taylor)
             i == Initialized(ApplyStructuralOverrides(n), events)
  <1>1. /\ n \in Cs /\ n.legal /\ n.mode = "instantiated" /\ n.events = events
        /\ n.time = 0 /\ n.current = 0 /\ n.terminated = FALSE
    BY DEF CsInstantiated, Cs, Mode
  <1> HIDE DEF n
  <1>2. i = [n EXCEPT !.mode = IF events THEN "event" ELSE "step"]
    BY <1>1, InitializedFacts DEF In
  <1> HIDE DEF i
  <1>3. /\ i \in Cs /\ i.legal /\ i.mode = (IF events THEN "event" ELSE "step")
        /\ i.time = 0 /\ i.current = 0 /\ i.terminated = FALSE
    BY <1>1, <1>2 DEF Cs, Mode
  <1>4. CASE events
    <2>1. Called(i, "update_discrete_states") = i BY <1>3, <1>4, AllowedCall, AllowedFacts
    <2>2. EnterStepMode(i) = [i EXCEPT !.mode = "step"]
      BY <1>3, <1>4, MovedFacts, AllowedFacts DEF EnterStepMode, In, Mode
    <2>3. CsConstructed(n) = [i EXCEPT !.mode = "step"]
      BY <1>1, <1>4, <2>1, <2>2 DEF CsConstructed, i
    <2>4. QED BY <1>3, <2>3 DEF Sound, Cs, Mode, n
  <1>5. CASE ~events
    <2>1. CsConstructed(n) = i BY <1>1, <1>5 DEF CsConstructed, i
    <2>2. QED BY <1>3, <1>5, <2>1 DEF Sound, n
  <1>6. QED BY <1>4, <1>5

\* An update asks an FMU that has not ended, and moves nothing.
LEMMA CsUpdatedFacts ==
  ASSUME NEW c, Sound(c), NEW t \in Int
  PROVE  LET u == CsUpdated(c, t)
         IN  /\ Sound(u) /\ u.terminated = c.terminated /\ u.taylor = c.taylor
             /\ u.time = c.time /\ u.current = c.current
             /\ ~c.terminated /\ c.current = c.time /\ c.time <= t =>
                    u.shown = IF c.taylor THEN t ELSE c.time
  <1>1. CASE c.terminated BY <1>1 DEF CsUpdated
  <1>2. CASE ~c.terminated
    <2> DEFINE s == IF c.taylor /\ t > c.current THEN c.time + (t - c.current) ELSE c.time
               u == CsUpdated(c, t)
    <2>1. Called(c, "get_set_variables") = c BY <1>2, AllowedCall, AllowedFacts DEF Sound
    <2>2. u = [c EXCEPT !.shown = s] BY <1>2, <2>1 DEF CsUpdated
    <2>3. c.time \in Int /\ c.current \in Int /\ c.taylor \in BOOLEAN BY DEF Sound, Cs
    <2>4. s \in Int BY <2>3
    <2>5. c.current = c.time /\ c.time <= t => s = IF c.taylor THEN t ELSE c.time BY <2>3
    <2> HIDE DEF s, u
    <2>6. /\ Sound(u) /\ u.terminated = c.terminated /\ u.taylor = c.taylor
          /\ u.time = c.time /\ u.current = c.current /\ u.shown = s
      BY <2>2, <2>4 DEF Sound, Cs
    <2>7. QED BY <2>5, <2>6 DEF u
  <1>3. QED BY <1>1, <1>2

\* On its way to a communication point the FMU is where the block believes it
\* to be, and not beyond.
LEMMA DrivenFacts ==
  ASSUME NEW c, Sound(c), ~c.terminated, NEW goal \in Nat, c.current < goal,
         c.current = c.time, NEW a \in Answers(c, goal)
  PROVE  LET r == Driven(c, goal, a)
         IN  Sound(r) /\ (~r.terminated => r.current = r.time /\ r.time <= goal)
  <1> DEFINE adv == Advance(c, goal, a)
             d == [c EXCEPT !.time = a.to, !.current = c.current + adv]
  <1>1. c.current \in Int /\ c.early \in BOOLEAN /\ c.events \in BOOLEAN BY DEF Sound, Cs
  <1>2. /\ a.to \in Int /\ c.current + adv = a.to /\ a.to <= goal
        /\ a.event \in BOOLEAN
    <2>1. a.to \in IF c.early THEN c.current .. goal ELSE {goal} BY DEF Answers
    <2>2. a.event \in BOOLEAN BY DEF Answers
    <2>3. QED BY <1>1, <2>1, <2>2 DEF Advance
  <1>3. Called(c, "do_step") = c BY AllowedCall, AllowedFacts DEF Sound
  <1>4. [Called(c, "do_step") EXCEPT !.time = a.to, !.current = @ + adv] = d
    BY <1>3
  <1> HIDE DEF adv
  <1>5. /\ d \in Cs /\ d.legal /\ d.mode = "step" /\ ~d.terminated /\ d.time = a.to
        /\ d.current = a.to /\ d.events = c.events
    BY <1>1, <1>2 DEF Sound, Cs
  <1>6. Driven(c, goal, a) =
          IF a.quit = "step" THEN [Ended(d) EXCEPT !.terminated = TRUE]
          ELSE IF a.event /\ d.events THEN CsHandled(d, a.quit = "event") ELSE d
    BY <1>4 DEF Driven, adv
  <1> HIDE DEF d
  <1>7. \A e \in Cs : e.legal => Sound([Ended(e) EXCEPT !.terminated = TRUE])
                                 /\ [Ended(e) EXCEPT !.terminated = TRUE].terminated
    BY DEF Sound, Ended, Cs, Mode
  <1>8. CASE a.quit = "step" BY <1>5, <1>6, <1>7, <1>8
  <1>9. CASE a.quit # "step" /\ a.event /\ d.events
    <2> DEFINE e == EnterEventMode(d)
    <2>1. e = [d EXCEPT !.mode = "event"]
      BY <1>5, MovedFacts, AllowedFacts DEF EnterEventMode, In, Mode
    <2>2. e \in Cs /\ e.legal /\ e.mode = "event" /\ ~e.terminated /\ e.time = a.to
          /\ e.current = a.to
      BY <1>5, <2>1 DEF Cs, Mode
    <2> HIDE DEF e
    <2>3. Called(e, "update_discrete_states") = e BY <2>2, AllowedCall, AllowedFacts
    <2>4. EnterStepMode(e) = [e EXCEPT !.mode = "step"]
      BY <2>2, MovedFacts, AllowedFacts DEF EnterStepMode, In, Mode
    <2>5. CASE a.quit = "event"
      <3>1. Driven(c, goal, a) = [Ended(e) EXCEPT !.terminated = TRUE]
        BY <1>6, <1>9, <2>3, <2>5 DEF CsHandled, e
      <3>2. QED BY <1>7, <2>2, <3>1
    <2>6. CASE a.quit # "event"
      <3>1. Driven(c, goal, a) = [e EXCEPT !.mode = "step"]
        BY <1>6, <1>9, <2>3, <2>4, <2>6 DEF CsHandled, e
      <3> DEFINE r == [e EXCEPT !.mode = "step"]
      <3>2. Sound(r) /\ r.current = r.time /\ r.time <= goal
        BY <1>2, <2>2 DEF Sound, Cs, Mode
      <3>3. QED BY <3>1, <3>2
    <2>7. QED BY <2>5, <2>6
  <1>10. CASE a.quit # "step" /\ ~(a.event /\ d.events)
    <2>1. Driven(c, goal, a) = d BY <1>6, <1>10
    <2>2. QED BY <1>2, <1>5, <2>1 DEF Sound
  <1>11. QED BY <1>8, <1>9, <1>10

-----------------------------------------------------------------------------
(* The list of time events.                                                *)

Ascending(s) == \A i, j \in DOMAIN s : i < j => s[i] < s[j]

\* What is below t in an ascending list is the beginning of it.
LEMMA PositionFacts ==
  ASSUME NEW l \in Seq(Int), Ascending(l), NEW t \in Int
  PROVE  LET m == Cardinality({i \in DOMAIN l : l[i] < t}) + 1
         IN  /\ m \in 1 .. Len(l) + 1
             /\ \A i \in DOMAIN l : i < m => l[i] < t
             /\ \A i \in DOMAIN l : m <= i => l[i] >= t
  <1> DEFINE Below == {i \in DOMAIN l : l[i] < t}
             Rest == {k \in 1 .. Len(l) + 1 : k <= Len(l) => l[k] >= t}
  <1>1. Len(l) \in Nat /\ DOMAIN l = 1 .. Len(l) /\ \A i \in DOMAIN l : l[i] \in Int OBVIOUS
  <1>2. Rest \in SUBSET Nat /\ Len(l) + 1 \in Rest BY <1>1
  <1>3. PICK m \in Rest : \A k \in Rest : m <= k BY <1>2, LeastNat
  <1>4. m \in 1 .. Len(l) + 1 BY <1>3
  <1>5. \A i \in DOMAIN l : i < m => l[i] < t
    <2>1. TAKE i \in DOMAIN l
    <2>2. HAVE i < m
    <2>3. i \in 1 .. Len(l) + 1 /\ i <= Len(l) BY <1>1
    <2>4. i \notin Rest BY <1>3, <1>4, <2>2, <2>3
    <2>5. QED BY <1>1, <2>3, <2>4
  <1>6. \A i \in DOMAIN l : m <= i => l[i] >= t
    <2>1. TAKE i \in DOMAIN l
    <2>2. HAVE m <= i
    <2>3. m \in DOMAIN l /\ l[m] >= t BY <1>1, <1>3, <1>4, <2>2
    <2>4. m = i \/ l[m] < l[i] BY <1>1, <1>4, <2>2, <2>3 DEF Ascending
    <2>5. QED BY <1>1, <2>3, <2>4
  <1>7. Below = 1 .. m - 1 BY <1>1, <1>4, <1>5, <1>6
  <1>8. Cardinality(Below) = m - 1
    <2>1. 1 \in Int /\ m - 1 \in Int BY <1>4
    <2>2. Cardinality(1 .. m - 1) = IF 1 > m - 1 THEN 0 ELSE (m - 1) - 1 + 1
      BY <2>1, FS_Interval
    <2>3. Cardinality(1 .. m - 1) = m - 1 BY <1>4, <2>2
    <2> HIDE DEF Below
    <2>4. QED BY <1>7, <2>3
  <1>9. m = Cardinality(Below) + 1 BY <1>4, <1>8
  <1> HIDE DEF Rest
  <1>10. QED BY <1>4, <1>5, <1>6, <1>9

\* Insertion keeps the list in order; what came before t keeps its place.
LEMMA InsertedFacts ==
  ASSUME NEW l \in Seq(Int), Ascending(l), NEW t \in Int
  PROVE  LET n == Inserted(l, t)
         IN  /\ n \in Seq(Int) /\ Ascending(n) /\ Len(l) <= Len(n)
             /\ \A b \in Int : \A d \in 0 .. Len(l) : (\A k \in 1 .. d : l[k] <= b) =>
                  /\ \A k \in 1 .. d : n[k] <= b
                  /\ b < t => (\A k \in 1 .. d : n[k] = l[k]) /\ \E k \in d + 1 .. Len(n) : n[k] = t
                  /\ b < t /\ (\A k \in d + 1 .. Len(l) : b < l[k]) =>
                        \A k \in d + 1 .. Len(n) : b < n[k]
  <1> DEFINE m == Cardinality({i \in DOMAIN l : l[i] < t}) + 1
             n == Inserted(l, t)
  <1>1. /\ m \in 1 .. Len(l) + 1
        /\ \A i \in DOMAIN l : i < m => l[i] < t
        /\ \A i \in DOMAIN l : m <= i => l[i] >= t
    BY PositionFacts
  <1>2. n = IF m <= Len(l) /\ l[m] = t THEN l ELSE InsertAt(l, m, t) BY DEF Inserted
  <1> HIDE DEF m, n
  <1>3. Len(l) \in Nat /\ DOMAIN l = 1 .. Len(l) /\ \A i \in DOMAIN l : l[i] \in Int OBVIOUS
  <1>4. CASE m <= Len(l) /\ l[m] = t
    <2>1. n = l BY <1>2, <1>4
    <2>2. ASSUME NEW b \in Int, NEW d \in 0 .. Len(l), \A k \in 1 .. d : l[k] <= b, b < t
          PROVE  \E k \in d + 1 .. Len(l) : l[k] = t
      <3>1. ~(m <= d) BY <1>1, <1>4, <2>2
      <3>2. m \in d + 1 .. Len(l) BY <1>1, <1>4, <3>1
      <3>3. QED BY <1>4, <3>2
    <2>3. l \in Seq(Int) /\ Ascending(l) /\ Len(l) <= Len(l) BY <1>3
    <2>4. QED BY <2>1, <2>2, <2>3 DEF n
  <1>5. CASE ~(m <= Len(l) /\ l[m] = t)
    <2>1. n = SubSeq(l, 1, m - 1) \o <<t>> \o SubSeq(l, m, Len(l)) BY <1>2, <1>5 DEF InsertAt
    <2> DEFINE p == SubSeq(l, 1, m - 1)
               q == SubSeq(l, m, Len(l))
    <2>2. p \in Seq(Int) /\ Len(p) = m - 1 /\ \A i \in 1 .. m - 1 : p[i] = l[i] BY <1>1, <1>3
    <2>3. /\ q \in Seq(Int) /\ Len(q) = Len(l) - m + 1
          /\ \A i \in 1 .. Len(l) - m + 1 : q[i] = l[m + i - 1]
      BY <1>1, <1>3
    <2> HIDE DEF p, q
    <2> DEFINE r == p \o <<t>>
    <2>4. n = r \o q BY <2>1 DEF p, q
    <2>5. /\ r \in Seq(Int) /\ Len(r) = m
          /\ \A i \in 1 .. m : r[i] = IF i < m THEN p[i] ELSE t
      BY <1>1, <2>2
    <2> HIDE DEF r
    <2>6. n \in Seq(Int) /\ Len(n) = Len(l) + 1
      <3>1. Len(r) + Len(q) = Len(l) + 1 BY <1>1, <1>3, <2>3, <2>5
      <3>2. r \o q \in Seq(Int) /\ Len(r \o q) = Len(r) + Len(q) BY <2>3, <2>5
      <3>3. QED BY <2>4, <3>1, <3>2
    <2>7. \A i \in 1 .. Len(n) : n[i] = IF i < m THEN l[i] ELSE IF i = m THEN t ELSE l[i - 1]
      <3>1. TAKE i \in 1 .. Len(n)
      <3>2. CASE i <= m
        <4>1. n[i] = r[i] BY <1>1, <2>3, <2>4, <2>5, <3>2
        <4>2. i \in 1 .. m /\ (i < m => i \in 1 .. m - 1) BY <1>1, <3>2
        <4>3. n[i] = IF i < m THEN p[i] ELSE t BY <2>5, <4>1, <4>2
        <4>4. i < m => p[i] = l[i] BY <2>2, <4>2
        <4>5. ~(i < m) => i = m BY <1>1, <4>2
        <4>6. QED BY <4>3, <4>4, <4>5
      <3>3. CASE i > m
        <4>1. n[i] = q[i - m]
          <5>1. Len(r) = m /\ i \in Len(r) + 1 .. Len(r) + Len(q)
            BY <1>1, <1>3, <2>3, <2>5, <2>6, <3>3
          <5>2. (r \o q)[i] = q[i - Len(r)] BY <2>3, <2>5, <5>1
          <5>3. QED BY <2>4, <5>1, <5>2
        <4>2. i - m \in 1 .. Len(l) - m + 1 /\ m + (i - m) - 1 = i - 1
          BY <1>1, <1>3, <2>6, <3>3
        <4>3. QED BY <1>1, <2>3, <3>3, <4>1, <4>2
      <3>4. QED BY <1>1, <3>2, <3>3
    <2> HIDE DEF n
    <2>8. \A i \in DOMAIN l : m <= i => l[i] > t
      <3>1. TAKE i \in DOMAIN l
      <3>2. HAVE m <= i
      <3>3. m \in DOMAIN l /\ l[m] # t /\ l[m] >= t BY <1>1, <1>3, <1>5, <3>2
      <3>4. m = i \/ l[m] < l[i] BY <1>1, <1>3, <3>2, <3>3 DEF Ascending
      <3>5. QED BY <1>3, <3>3, <3>4
    <2>9. Ascending(n)
      <3>1. SUFFICES ASSUME NEW i \in 1 .. Len(n), NEW j \in 1 .. Len(n), i < j PROVE n[i] < n[j]
        BY <2>6 DEF Ascending
      <3>2. CASE j < m
        <4>1. i \in DOMAIN l /\ j \in DOMAIN l BY <1>1, <1>3, <3>1, <3>2
        <4>2. l[i] < l[j] BY <3>1, <4>1 DEF Ascending
        <4>3. QED BY <1>1, <2>7, <3>1, <3>2, <4>2
      <3>3. CASE j = m
        <4>1. i \in DOMAIN l /\ i < m BY <1>1, <1>3, <3>1, <3>3
        <4>2. l[i] < t BY <1>1, <4>1
        <4>3. QED BY <1>1, <2>7, <3>1, <3>3, <4>1, <4>2
      <3>4. CASE j > m
        <4>1. j - 1 \in DOMAIN l /\ m <= j - 1 /\ n[j] = l[j - 1]
          BY <1>1, <1>3, <2>6, <2>7, <3>1, <3>4
        <4>2. l[j - 1] > t /\ l[j - 1] \in Int BY <1>3, <2>8, <4>1
        <4>3. CASE i < m
          <5>1. i \in DOMAIN l BY <1>1, <1>3, <3>1, <4>3
          <5>2. l[i] < t /\ l[i] \in Int BY <1>1, <1>3, <4>3, <5>1
          <5>3. n[i] = l[i] BY <2>7, <3>1, <4>3
          <5>4. QED BY <4>1, <4>2, <5>2, <5>3
        <4>4. CASE i = m
          <5>1. n[i] = t BY <2>7, <4>4, <1>1
          <5>2. QED BY <4>1, <4>2, <5>1
        <4>5. CASE i > m
          <5>1. i - 1 \in DOMAIN l /\ n[i] = l[i - 1] /\ i - 1 < j - 1
            BY <1>1, <1>3, <2>6, <2>7, <3>1, <4>5
          <5>2. l[i - 1] < l[j - 1] BY <4>1, <5>1 DEF Ascending
          <5>3. QED BY <4>1, <5>1, <5>2
        <4>6. QED BY <1>1, <4>3, <4>4, <4>5
      <3>5. QED BY <1>1, <3>2, <3>3, <3>4
    <2>10. ASSUME NEW b \in Int, NEW d \in 0 .. Len(l), \A k \in 1 .. d : l[k] <= b
           PROVE  /\ \A k \in 1 .. d : n[k] <= b
                  /\ b < t => (\A k \in 1 .. d : n[k] = l[k]) /\ \E k \in d + 1 .. Len(n) : n[k] = t
                  /\ b < t /\ (\A k \in d + 1 .. Len(l) : b < l[k]) =>
                        \A k \in d + 1 .. Len(n) : b < n[k]
      <3>1. \A k \in 1 .. d : n[k] <= b
        <4>1. TAKE k \in 1 .. d
        <4>2. k \in DOMAIN l /\ k \in 1 .. Len(n) BY <1>3, <2>6
        <4>3. CASE k < m BY <1>1, <2>7, <2>10, <4>2, <4>3
        <4>4. CASE k = m
          <5>1. l[k] >= t /\ l[k] <= b /\ l[k] \in Int BY <1>1, <1>3, <2>10, <4>2, <4>4
          <5>2. n[k] = t BY <1>1, <2>7, <4>2, <4>4
          <5>3. QED BY <5>1, <5>2
        <4>5. CASE k > m
          <5>1. k - 1 \in 1 .. d BY <1>1, <4>5
          <5>2. n[k] = l[k - 1] BY <1>1, <2>7, <4>2, <4>5
          <5>3. QED BY <2>10, <5>1, <5>2
        <4>6. QED BY <1>1, <4>3, <4>4, <4>5
      <3>2. ASSUME b < t
            PROVE  /\ d < m
                   /\ \A k \in 1 .. d : n[k] = l[k]
                   /\ \E k \in d + 1 .. Len(n) : n[k] = t
        <4>1. d < m
          <5>1. SUFFICES ASSUME m <= d PROVE FALSE BY <1>1
          <5>2. m \in 1 .. d /\ m \in DOMAIN l BY <1>1, <1>3, <5>1
          <5>3. l[m] <= b /\ l[m] >= t /\ l[m] \in Int BY <1>1, <1>3, <2>10, <5>2
          <5>4. QED BY <3>2, <5>3
        <4>2. \A k \in 1 .. d : k \in 1 .. Len(n) /\ k < m BY <1>1, <2>6, <4>1
        <4>3. m \in d + 1 .. Len(n) /\ m \in 1 .. Len(n) BY <1>1, <1>3, <2>6, <4>1
        <4>4. n[m] = t BY <1>1, <2>7, <4>3
        <4>5. QED BY <2>7, <4>1, <4>2, <4>3, <4>4
      <3>3. ASSUME b < t, \A k \in d + 1 .. Len(l) : b < l[k], NEW k \in d + 1 .. Len(n)
            PROVE  b < n[k]
        <4>1. k \in 1 .. Len(n) /\ d < m BY <1>3, <2>6, <3>2, <3>3
        <4>2. CASE k < m
          <5>1. k \in d + 1 .. Len(l) BY <1>1, <1>3, <4>2
          <5>2. QED BY <2>7, <3>3, <4>1, <4>2, <5>1
        <4>3. CASE k = m BY <1>1, <2>7, <3>3, <4>1, <4>3
        <4>4. CASE k > m
          <5>1. k - 1 \in d + 1 .. Len(l) BY <1>1, <1>3, <2>6, <4>1, <4>4
          <5>2. n[k] = l[k - 1] BY <1>1, <2>7, <4>1, <4>4
          <5>3. QED BY <3>3, <5>1, <5>2
        <4>5. QED BY <1>1, <4>2, <4>3, <4>4
      <3>4. QED BY <3>1, <3>2, <3>3
    <2>11. QED BY <1>3, <2>6, <2>9, <2>10 DEF n
  <1>6. QED BY <1>4, <1>5

-----------------------------------------------------------------------------
(* The events of a step.                                                   *)

Event == [of : Int, at : Int, close : BOOLEAN]

\* One of the events of the sequence is of e.
Has(q, e) == \E k \in DOMAIN q : q[k].of = e
Single(q) == \A i, j \in DOMAIN q : q[i].of = q[j].of => i = j

\* The queue holds each of the detected events once.
LEMMA InOrderFacts ==
  ASSUME NEW S \in SUBSET Event, \A a, b \in S : a.of = b.of => a = b, NEW q \in InOrder(S)
  PROVE  /\ q \in Seq(Event) /\ Single(q)
         /\ \A k \in DOMAIN q : q[k] \in S
         /\ \A e : Has(q, e) <=> \E a \in S : a.of = e
  <1>1. PICK n \in 0 .. Indicators + 2 : q \in [1 .. n -> S]
    BY DEF InOrder, SeqOf
  <1>2. q \in Seq(Event) /\ \A k \in DOMAIN q : q[k] \in S
    <2>1. n \in Nat BY <1>1, FmuAssumption
    <2>2. q \in [1 .. n -> Event] BY <1>1
    <2>3. QED BY <1>1, <2>1, <2>2
  <1>3. \A i, j \in DOMAIN q : i < j => Before(q[i], q[j]) BY DEF InOrder
  <1>4. Single(q)
    <2>1. SUFFICES ASSUME NEW i \in DOMAIN q, NEW j \in DOMAIN q, q[i].of = q[j].of, i < j
                   PROVE  FALSE
      BY <1>1, FmuAssumption DEF Single
    <2>2. q[i] = q[j] BY <1>2, <2>1
    <2>3. Before(q[i], q[i]) BY <1>3, <2>1, <2>2
    <2>4. q[i].at \in Int /\ q[i].of \in Int BY <1>2 DEF Event
    <2>5. QED BY <2>3, <2>4 DEF Before
  <1>5. ToSet(q) = S BY DEF InOrder
  <1>6. \A e : Has(q, e) <=> \E a \in S : a.of = e BY <1>5 DEF Has, ToSet
  <1>7. QED BY <1>2, <1>4, <1>6

\* What is left when the first one is resolved.
LEMMA TailFacts ==
  ASSUME NEW q \in Seq(Event), q # <<>>, Single(q)
  PROVE  /\ Tail(q) \in Seq(Event) /\ Single(Tail(q)) /\ Head(q) \in Event
         /\ \A k \in DOMAIN Tail(q) : k + 1 \in DOMAIN q /\ Tail(q)[k] = q[k + 1]
         /\ \A e : Has(Tail(q), e) <=> Has(q, e) /\ e # Head(q).of
         /\ 1 \in DOMAIN q /\ Head(q) = q[1]
  <1>1. /\ Len(q) \in Nat \ {0} /\ DOMAIN q = 1 .. Len(q)
        /\ 1 \in DOMAIN q /\ Head(q) = q[1] /\ Head(q) \in Event
    OBVIOUS
  <1>2. /\ Tail(q) \in Seq(Event) /\ DOMAIN Tail(q) = 1 .. Len(q) - 1
        /\ \A k \in DOMAIN Tail(q) : Tail(q)[k] = q[k + 1]
    <2>1. Tail(q) \in Seq(Event) /\ Len(Tail(q)) = Len(q) - 1 BY <1>1
    <2>2. DOMAIN Tail(q) = 1 .. Len(Tail(q)) BY <2>1
    <2>3. QED BY <1>1, <2>1, <2>2
  <1>3. \A k \in DOMAIN Tail(q) : k + 1 \in DOMAIN q BY <1>1, <1>2
  <1>4. Single(Tail(q))
    <2>1. SUFFICES ASSUME NEW i \in DOMAIN Tail(q), NEW j \in DOMAIN Tail(q),
                          Tail(q)[i].of = Tail(q)[j].of
                   PROVE  i = j
      BY DEF Single
    <2>2. q[i + 1].of = q[j + 1].of BY <1>2, <2>1
    <2>3. i + 1 = j + 1 BY <1>3, <2>2 DEF Single
    <2>4. i \in Nat /\ j \in Nat BY <1>1, <1>2
    <2>5. QED BY <2>3, <2>4
  <1>5. ASSUME NEW e, Has(Tail(q), e) PROVE Has(q, e) /\ e # q[1].of
    <2>1. PICK k \in DOMAIN Tail(q) : Tail(q)[k].of = e BY <1>5 DEF Has
    <2>2. k + 1 \in DOMAIN q /\ q[k + 1].of = e BY <1>2, <1>3, <2>1
    <2>3. k + 1 # 1 BY <1>1, <1>2
    <2>4. QED BY <1>1, <2>2, <2>3 DEF Has, Single
  <1>6. ASSUME NEW e, Has(q, e), e # q[1].of PROVE Has(Tail(q), e)
    <2>1. PICK k \in DOMAIN q : q[k].of = e BY <1>6 DEF Has
    <2>2. k # 1 BY <1>6, <2>1
    <2>3. k - 1 \in DOMAIN Tail(q) /\ (k - 1) + 1 = k BY <1>1, <1>2, <2>2
    <2>4. Tail(q)[k - 1].of = e BY <1>2, <2>1, <2>3
    <2>5. QED BY <2>3, <2>4 DEF Has
  <1>7. QED BY <1>1, <1>2, <1>3, <1>4, <1>5, <1>6

-----------------------------------------------------------------------------
(* The inductive invariant.                                                *)

Ahead == phase \in {"stepped", "resolve", "drive"}
Resolving == phase \in {"resolve", "drive"}
Now == IF Resolving THEN Land ELSE time

TypeOK ==
    /\ fmu \in Fmu /\ x \in State /\ base \in State
    /\ list \in Seq(Int) /\ done \in Nat /\ armed \in BOOLEAN
    /\ prev \in [Indicator -> Int]
    /\ cs \in Cs /\ ticks \in Nat /\ target \in Nat
    /\ time \in Nat /\ dt \in Nat /\ adaptive \in BOOLEAN
    /\ phase \in {"start", "idle", "stepped", "resolve", "drive", "sample"}
    /\ queue \in Seq(Event)

\* Between two calls an instance is in the mode the next one is allowed in.
Modes == Ready(fmu) /\ Sound(cs)

\* The engine and the FMU are at the same place, which is where the loop is.
Places ==
    /\ time <= MaxTime /\ (Ahead => Land <= MaxTime)
    /\ fmu.x.at = x.at
    /\ x.at = IF Ahead THEN Land ELSE time
    /\ phase = "start" => time = 0
    /\ phase = "stepped" =>
        /\ base.at = time
        /\ \A i \in Indicator : prev[i] = fmu.cross[i] - time

\* When no event takes a second update, every jump has reached the engine, and
\* a revert does not go back behind one.
Jumps ==
    TRUE \notin Repeats =>
        /\ x.epoch = fmu.jumps
        /\ phase = "stepped" => base.epoch = fmu.jumps

\* Events are resolved at the end of a step, each once, none beyond it.
Queued ==
    /\ ~Resolving => queue = <<>>
    /\ Single(queue)
    /\ \A k \in DOMAIN queue : queue[k].of \in Indicator => queue[k].at <= Land
    /\ Has(queue, Tick) => ticks * Period <= Land
    /\ phase = "drive" => target <= Land

Communicated ==
    ~cs.terminated =>
        /\ cs.current = cs.time
        /\ cs.time <= Now
        /\ phase = "sample" => cs.shown = IF cs.taylor THEN time ELSE cs.time

\* In an adaptive run events are handled at the end of the step only.
Instants ==
    /\ phase = "sample" => fmu.time = time
    /\ adaptive /\ Ahead => fmu.time = Land
    /\ adaptive => \A k \in DOMAIN queue : queue[k].of \in Indicator => queue[k].at = Land

\* How many time events have come, the one waiting to be resolved included.
TimePending == Has(queue, TimeEvent)
Come == IF TimePending THEN done + 1 ELSE done

\* The list is in order, and what the loop has not come to is in the future.
Listed ==
    /\ Ascending(list)
    /\ Come <= Len(list)
    /\ \A k \in 1 .. Come : list[k] <= Now
    /\ TimePending => armed
    /\ adaptive /\ TimePending => list[Come] = Now
    /\ adaptive /\ armed => \A k \in Come + 1 .. Len(list) : Now < list[k]

\* What the FMU has announced is in the list, and the list is active.
Announced ==
    /\ fmu.clock \in Clocks
    /\ fmu.clock = "never" => fmu.due = Never
    /\ adaptive /\ fmu.clock = "always" =>
        /\ armed /\ fmu.due # Never
        /\ \E k \in done + 1 .. Len(list) : list[k] = fmu.due

Inv ==
    /\ TypeOK /\ Modes /\ Places /\ Jumps /\ Queued /\ Communicated
    /\ Instants /\ Listed /\ Announced

\* The list n after an event at t that found the list l and left the next time
\* event at due, seen from a place d up to which all has come by b.
ListedAt(n, due, l, t, d, b) ==
    /\ n \in Seq(Int) /\ Ascending(n) /\ Len(l) <= Len(n)
    /\ \A k \in 1 .. d : n[k] <= b
    /\ b <= t =>
         /\ \A k \in 1 .. d : n[k] = l[k]
         /\ due # Never => \E k \in d + 1 .. Len(n) : n[k] = due
         /\ (\A k \in d + 1 .. Len(l) : b < l[k]) => \A k \in d + 1 .. Len(n) : b < n[k]

\* handle_event changes the list in that way.
LEMMA HandledListFacts ==
  ASSUME NEW f, Ready(f), NEW t \in Int, t <= MaxTime, NEW y \in State,
         NEW l \in Seq(Int), Ascending(l), NEW asked \in BOOLEAN,
         NEW h \in Handled(f, y, l, t, asked),
         NEW b \in Int, NEW d \in 0 .. Len(l), \A k \in 1 .. d : l[k] <= b
  PROVE  ListedAt(h.list, h.fmu.due, l, t, d, b)
  <1>0. HandledAt(h, f, y, l, t) BY HandledFacts
  <1>1. h.list = IF h.fmu.due # Never THEN Inserted(l, h.fmu.due) ELSE l BY <1>0 DEF HandledAt
  <1>2. h.fmu.due \in Int /\ (b <= t => b < h.fmu.due)
    <2>1. Ready(h.fmu) /\ h.fmu.due > t BY <1>0 DEF HandledAt
    <2>2. h.fmu.due \in Int BY <2>1 DEF Ready, Fmu
    <2>3. QED BY <2>1, <2>2
  <1>3. CASE h.fmu.due = Never BY <1>1, <1>3 DEF ListedAt
  <1>4. CASE h.fmu.due # Never
    <2>1. h.list = Inserted(l, h.fmu.due) BY <1>1, <1>4
    <2> DEFINE due == h.fmu.due
               n == Inserted(l, due)
    <2> HIDE DEF due, n
    <2>2. due \in Int BY <1>2 DEF due
    <2>3. n \in Seq(Int) /\ Ascending(n) /\ Len(l) <= Len(n) BY <2>2, InsertedFacts DEF n
    <2>4. /\ \A k \in 1 .. d : n[k] <= b
          /\ b < due => (\A k \in 1 .. d : n[k] = l[k]) /\ \E k \in d + 1 .. Len(n) : n[k] = due
          /\ b < due /\ (\A k \in d + 1 .. Len(l) : b < l[k]) =>
                \A k \in d + 1 .. Len(n) : b < n[k]
      BY <2>2, InsertedFacts DEF n
    <2>5. h.list = n /\ h.fmu.due = due BY <2>1 DEF n, due
    <2>6. QED BY <1>2, <2>3, <2>4, <2>5 DEF ListedAt
  <1>5. QED BY <1>3, <1>4

-----------------------------------------------------------------------------
(* The invariant holds initially, and every step preserves it.             *)

\* The invariant holds initially.
LEMMA InitInv == Init => Inv
  <1> SUFFICES ASSUME Init PROVE Inv OBVIOUS
  <1> USE DEF Init
  <1>1. PICK clock \in Clocks :
           /\ fmu \in Constructed(clock) /\ x = fmu.x
           /\ list = IF fmu.due # Never THEN <<fmu.due>> ELSE <<>>
    OBVIOUS
  <1>2. /\ Ready(fmu) /\ fmu.time = 0 /\ fmu.clock = clock /\ fmu.x.at = 0 /\ fmu.due > 0
        /\ clock = "never" => fmu.due = Never
        /\ clock = "always" => fmu.due # Never
        /\ TRUE \notin Repeats => fmu.x.epoch = fmu.jumps
    BY <1>1, ConstructedFacts
  <1>3. fmu \in Fmu /\ fmu.x \in State /\ fmu.due \in Int BY <1>2 DEF Ready, Fmu
  <1>4. PICK events \in BOOLEAN, early \in BOOLEAN, taylor \in BOOLEAN :
           cs = CsConstructed(CsInstantiated(events, early, taylor))
    OBVIOUS
  <1>5. Sound(cs) /\ ~cs.terminated /\ cs.time = 0 /\ cs.current = 0 BY <1>4, CsConstructedFacts
  <1>6. list \in Seq(Int) /\ Ascending(list) BY <1>1, <1>3 DEF Ascending
  <1>7. queue \in Seq(Event) /\ DOMAIN queue = {} OBVIOUS
  <1>8. ~Has(queue, TimeEvent) /\ ~Has(queue, Tick) /\ Single(queue) BY <1>7 DEF Has, Single
  <1>9. ~Ahead /\ ~Resolving /\ Now = 0 BY DEF Ahead, Resolving, Now
  <1>10. TypeOK BY <1>1, <1>3, <1>5, <1>6, <1>7 DEF TypeOK, Sound
  <1>11. Modes BY <1>2, <1>5 DEF Modes
  <1>12. Places BY <1>1, <1>2, <1>9, FmuAssumption DEF Places
  <1>13. Jumps BY <1>1, <1>2 DEF Jumps
  <1>14. Queued BY <1>7, <1>8, <1>9 DEF Queued
  <1>15. Communicated BY <1>5, <1>9 DEF Communicated
  <1>16. Instants BY <1>7, <1>9 DEF Instants
  <1>17. Come = 0 /\ ~TimePending BY <1>8 DEF Come, TimePending
  <1>18. \A k \in 1 .. Len(list) : 0 < list[k] BY <1>1, <1>2, <1>3
  <1>19. Listed BY <1>6, <1>9, <1>17, <1>18 DEF Listed
  <1>20. Announced
    <2>1. fmu.due # Never => 1 \in 1 .. Len(list) /\ list[1] = fmu.due BY <1>1
    <2>2. QED BY <1>2, <2>1 DEF Announced
  <1>21. QED BY <1>10, <1>11, <1>12, <1>13, <1>14, <1>15, <1>16, <1>19, <1>20 DEF Inv

\* Steps that only read the list: no event is handled in them.
LEMMA QuietList ==
  ASSUME Inv, UNCHANGED <<list, done, adaptive>>, (TimePending' <=> TimePending), Now' = Now,
         armed' = armed \/ (armed' = (armed /\ ~Exhausted) /\ ~TimePending),
         fmu'.due = fmu.due, fmu'.clock = fmu.clock
  PROVE  Listed' /\ Announced'
  <1> USE DEF Inv
  <1>1. Come' = Come BY DEF Come
  <1>2. Listed'
    <2>1. armed' => armed OBVIOUS
    <2>2. TimePending => armed' = armed OBVIOUS
    <2>3. QED BY <1>1, <2>1, <2>2 DEF Listed
  <1>3. Announced'
    <2>1. \A k \in done + 1 .. Len(list) : ~Exhausted
      <3>1. done \in Nat /\ Len(list) \in Nat BY DEF TypeOK
      <3>2. QED BY <3>1 DEF Exhausted
    <2>2. QED BY <2>1 DEF Announced
  <1>4. QED BY <1>2, <1>3

\* Steps that evaluate the Co-Simulation block at t.
LEMMA QuietCs ==
  ASSUME Inv, NEW t \in Int, cs' = CsUpdated(cs, t), Now <= Now', Now \in Int, Now' \in Int,
         phase' = "sample" => t = Now' /\ time' = Now'
  PROVE  Sound(cs)' /\ Communicated'
  <1>1. Sound(cs) BY DEF Inv, Modes
  <1>2. /\ Sound(cs)' /\ cs'.terminated = cs.terminated /\ cs'.taylor = cs.taylor
        /\ cs'.time = cs.time /\ cs'.current = cs.current
        /\ ~cs.terminated /\ cs.current = cs.time /\ cs.time <= t =>
                cs'.shown = IF cs.taylor THEN t ELSE cs.time
    BY <1>1, CsUpdatedFacts
  <1>3. cs.time \in Int BY <1>1 DEF Sound, Cs
  <1>4. ~cs.terminated => cs.current = cs.time /\ cs.time <= Now BY DEF Inv, Communicated
  <1>5. ~cs.terminated => cs.time <= Now' BY <1>3, <1>4
  <1>6. Communicated' BY <1>2, <1>4, <1>5 DEF Communicated
  <1>7. QED BY <1>2, <1>6

\* Steps that handle an event of the FMU at t.
LEMMA HandledList ==
  ASSUME Inv, NEW t \in Int, t <= MaxTime, adaptive => t = Now, NEW asked \in BOOLEAN,
         NEW h \in Handled(fmu, x, list, t, asked), fmu' = h.fmu, list' = h.list,
         UNCHANGED <<armed, adaptive>>, Now' = Now, Now \in Int, Come' = Come, done' \in Nat, done' <= Come,
         TimePending' => TimePending
  PROVE  list' \in Seq(Int) /\ Listed' /\ Announced'
  <1> USE DEF Inv
  <1>1. Ready(fmu) BY DEF Modes
  <1>2. /\ x \in State /\ list \in Seq(Int) /\ Ascending(list) /\ Len(list) \in Nat
        /\ done \in Nat /\ Come \in 0 .. Len(list) /\ \A k \in 1 .. Come : list[k] <= Now
    BY DEF TypeOK, Listed, Come
  <1>3. /\ list' \in Seq(Int) /\ Ascending(list') /\ Len(list) <= Len(list')
        /\ \A k \in 1 .. Come : list'[k] <= Now
        /\ Now <= t =>
            /\ \A k \in 1 .. Come : list'[k] = list[k]
            /\ fmu'.due # Never => \E k \in Come + 1 .. Len(list') : list'[k] = fmu'.due
            /\ (\A k \in Come + 1 .. Len(list) : Now < list[k]) =>
                   \A k \in Come + 1 .. Len(list') : Now < list'[k]
    <2> DEFINE d == Come
               b == Now
    <2>1. d \in 0 .. Len(list) /\ b \in Int /\ \A k \in 1 .. d : list[k] <= b BY <1>2
    <2> HIDE DEF d, b
    <2>2. ListedAt(h.list, h.fmu.due, list, t, d, b) BY <1>1, <1>2, <2>1, HandledListFacts
    <2>3. QED BY <2>2 DEF ListedAt, d, b
  <1>4. adaptive => Now <= t OBVIOUS
  <1>5. Listed'
    <2>1. Come <= Len(list') BY <1>2, <1>3
    <2>2. ASSUME adaptive, TimePending' PROVE list'[Come] = Now
      <3>1. TimePending /\ list[Come] = Now BY <2>2 DEF Listed
      <3>2. Come \in 1 .. Come BY <1>2, <3>1 DEF Come
      <3>3. QED BY <1>3, <1>4, <2>2, <3>1, <3>2
    <2>3. ASSUME adaptive, armed PROVE \A k \in Come + 1 .. Len(list') : Now < list'[k]
      BY <1>3, <1>4, <2>3 DEF Listed
    <2>4. TimePending' => armed' BY DEF Listed
    <2>5. QED BY <1>3, <2>1, <2>2, <2>3, <2>4 DEF Listed
  <1>6. Announced'
    <2>1. /\ fmu'.clock = fmu.clock
          /\ fmu.clock = "never" /\ fmu.due = Never => fmu'.due = Never
          /\ fmu.clock = "always" => fmu'.due = fmu.due \/ fmu'.due # Never
      <3>1. HandledAt(h, fmu, x, list, t) BY <1>1, <1>2, HandledFacts
      <3>2. QED BY <3>1 DEF HandledAt
    <2>2. Come + 1 .. Len(list') \subseteq done' + 1 .. Len(list')
      BY <1>2, <1>3
    <2>3. ASSUME adaptive', fmu'.clock = "always"
          PROVE  /\ armed' /\ fmu'.due # Never
                 /\ \E k \in done' + 1 .. Len(list') : list'[k] = fmu'.due
      <3>1. adaptive /\ fmu.clock = "always" BY <2>1, <2>3
      <3>2. armed /\ fmu.due # Never BY <3>1 DEF Announced
      <3>3. fmu'.due # Never BY <2>1, <3>1, <3>2
      <3>4. \E k \in Come + 1 .. Len(list') : list'[k] = fmu'.due BY <1>3, <1>4, <3>1, <3>3
      <3>5. QED BY <2>2, <3>2, <3>3, <3>4
    <2>4. QED BY <2>1, <2>3 DEF Announced
  <1>7. QED BY <1>3, <1>5, <1>6

\* The evaluation before the first step.
LEMMA StartStep == Inv /\ Start => Inv'
  <1> SUFFICES ASSUME Inv, Start PROVE Inv' OBVIOUS
  <1> USE DEF Inv, Start
  <1>1. /\ phase' = "sample" /\ ~Ahead /\ ~Ahead' /\ ~Resolving /\ ~Resolving'
        /\ Now = time /\ Now' = time /\ time = 0
    BY DEF Ahead, Resolving, Now, Places
  <1>2. queue = <<>> /\ queue' = <<>> BY <1>1 DEF Queued
  <1>3. DOMAIN queue = {} /\ DOMAIN queue' = {} BY <1>2
  <1>4. ~TimePending /\ ~TimePending' /\ ~Has(queue, Tick)' BY <1>3 DEF TimePending, Has
  <1>5. /\ Ready(fmu)' /\ fmu'.time = 0 /\ fmu'.x = x /\ fmu'.jumps = fmu.jumps
        /\ fmu'.due = fmu.due /\ fmu'.clock = fmu.clock
    <2>1. x \in State /\ Ready(fmu) /\ 0 \in Int BY DEF TypeOK, Modes
    <2>2. fmu' = Evaluated(fmu, x, 0) OBVIOUS
    <2>3. QED BY <2>1, <2>2, EvaluatedFacts
  <1>6. Sound(cs)' /\ Communicated' BY <1>1, QuietCs
  <1>7. Listed' /\ Announced'
    <2>1. (TimePending' <=> TimePending) BY <1>4
    <2>2. armed' = armed \/ (armed' = (armed /\ ~Exhausted) /\ ~TimePending) BY <1>4
    <2>3. UNCHANGED <<list, done, adaptive>> /\ Now' = Now BY <1>1
    <2>4. fmu'.due = fmu.due /\ fmu'.clock = fmu.clock BY <1>5
    <2>5. QED BY <2>1, <2>2, <2>3, <2>4, QuietList
  <1>8. TypeOK' BY <1>5, <1>6 DEF TypeOK, Ready, Sound
  <1>9. Modes' BY <1>5, <1>6 DEF Modes
  <1>10. Places' BY <1>1, <1>5 DEF Places
  <1>11. Jumps' BY <1>1, <1>5 DEF Jumps
  <1>12. Queued' BY <1>1, <1>3, <1>4 DEF Queued, Single
  <1>13. Instants' BY <1>1, <1>3, <1>5 DEF Instants
  <1>14. QED BY <1>6, <1>7, <1>8, <1>9, <1>10, <1>11, <1>12, <1>13

\* An attempt: both FMUs are evaluated at its end.
LEMMA BeginStep == ASSUME Inv, NEW d \in Widths, Begin(d) PROVE Inv'
  <1> USE DEF Inv
  <1> DEFINE f == Indicated(fmu, time)
  <1>0. d \in Nat /\ time \in Nat BY FmuAssumption DEF TypeOK
  <1>1. /\ phase = "idle" /\ phase' = "stepped" /\ ~Ahead /\ Ahead' /\ ~Resolving /\ ~Resolving'
        /\ Now = time /\ Now' = time /\ Land' = time + d /\ time + d <= MaxTime
    BY DEF Begin, Ahead, Resolving, Now, Land
  <1>2. queue = <<>> /\ queue' = <<>> BY <1>1 DEF Queued, Begin
  <1>3. DOMAIN queue = {} /\ DOMAIN queue' = {} BY <1>2
  <1>4. ~TimePending /\ ~TimePending' /\ ~Has(queue, Tick)' BY <1>3 DEF TimePending, Has
  <1>5. f = [fmu EXCEPT !.time = time] /\ Ready(f) BY <1>0, IndicatedFacts DEF Modes
  <1>6. /\ f.x = fmu.x /\ f.cross = fmu.cross /\ f.jumps = fmu.jumps /\ f.due = fmu.due
        /\ f.clock = fmu.clock
    BY <1>5 DEF TypeOK, Fmu
  <1> HIDE DEF f
  <1>7. /\ prev' = [i \in Indicator |-> Value(f, i)]
        /\ x' = [x EXCEPT !.at = x.at + d]
        /\ fmu' = Evaluated(f, x', time + d)
        /\ base' = x
    BY DEF Begin, f
  <1>8. /\ x' \in State /\ x'.at = time + d /\ x'.epoch = x.epoch
        /\ x.at = time /\ x \in State
    BY <1>0, <1>1, <1>7 DEF TypeOK, State, Places
  <1>9. /\ Ready(fmu)' /\ fmu'.time = time + d /\ fmu'.x = x' /\ fmu'.jumps = fmu.jumps
        /\ fmu'.due = fmu.due /\ fmu'.clock = fmu.clock /\ fmu'.cross = fmu.cross
    <2>1. time + d \in Int BY <1>0
    <2> DEFINE t == time + d
    <2> HIDE DEF t
    <2>2. t \in Int /\ fmu' = Evaluated(f, x', t) BY <1>7, <2>1 DEF t
    <2>3. /\ Ready(fmu)' /\ fmu'.time = t /\ fmu'.x = x' /\ fmu'.jumps = f.jumps
          /\ fmu'.due = f.due /\ fmu'.clock = f.clock /\ fmu'.cross = f.cross
      <3>1. Ready(f) /\ x' \in State BY <1>5, <1>8
      <3>2. /\ Ready(Evaluated(f, x', t))
            /\ Evaluated(f, x', t).time = t /\ Evaluated(f, x', t).x = x'
            /\ Evaluated(f, x', t).jumps = f.jumps /\ Evaluated(f, x', t).due = f.due
            /\ Evaluated(f, x', t).cross = f.cross /\ Evaluated(f, x', t).clock = f.clock
        BY <2>2, <3>1, EvaluatedFacts
      <3>3. QED BY <2>2, <3>2 DEF Ready, Fmu
    <2>4. QED BY <1>6, <2>3 DEF t
  <1>10. /\ prev' \in [Indicator -> Int]
         /\ \A i \in Indicator : prev'[i] = fmu'.cross[i] - time
    <2>1. fmu.cross \in [Indicator -> Int] BY DEF TypeOK, Fmu
    <2>2. \A i \in Indicator : Value(f, i) = fmu.cross[i] - time
      BY <1>6, <1>8 DEF Value, Places
    <2>3. QED BY <1>0, <1>7, <1>9, <2>1, <2>2
  <1>11. Sound(cs)' /\ Communicated'
    <2>1. cs' = CsUpdated(cs, time + d) /\ time + d \in Int BY <1>0 DEF Begin
    <2>2. QED BY <1>0, <1>1, <2>1, QuietCs
  <1>12. Listed' /\ Announced'
    <2>1. (TimePending' <=> TimePending) BY <1>4
    <2>2. armed' = armed \/ (armed' = (armed /\ ~Exhausted) /\ ~TimePending) BY <1>4 DEF Begin
    <2>3. UNCHANGED <<list, done, adaptive>> /\ Now' = Now BY <1>1 DEF Begin
    <2>4. fmu'.due = fmu.due /\ fmu'.clock = fmu.clock BY <1>9
    <2>5. QED BY <2>1, <2>2, <2>3, <2>4, QuietList
  <1>13. TypeOK' BY <1>0, <1>8, <1>7, <1>9, <1>10, <1>11 DEF TypeOK, Ready, Sound, Begin
  <1>14. Modes' BY <1>9, <1>11 DEF Modes
  <1>15. Places' BY <1>0, <1>1, <1>7, <1>8, <1>9, <1>10 DEF Places, Begin
  <1>16. Jumps' BY <1>7, <1>8, <1>9 DEF Jumps
  <1>17. Queued' BY <1>1, <1>3, <1>4 DEF Queued, Single
  <1>18. Instants' BY <1>1, <1>3, <1>9 DEF Instants
  <1>19. QED BY <1>11, <1>12, <1>13, <1>14, <1>15, <1>16, <1>17, <1>18

\* A reverted attempt: they are back where the simulation is.
LEMMA RevertStep == Inv /\ Revert => Inv'
  <1> SUFFICES ASSUME Inv, Revert PROVE Inv' OBVIOUS
  <1> USE DEF Inv, Revert
  <1>1. /\ phase = "stepped" /\ phase' = "idle" /\ ~Ahead' /\ ~Resolving /\ ~Resolving'
        /\ Now = time /\ Now' = time /\ time \in Nat
    BY DEF Ahead, Resolving, Now, TypeOK
  <1>2. queue = <<>> /\ queue' = <<>> BY <1>1 DEF Queued
  <1>3. DOMAIN queue = {} /\ DOMAIN queue' = {} BY <1>2
  <1>4. ~TimePending /\ ~TimePending' /\ ~Has(queue, Tick)' BY <1>3 DEF TimePending, Has
  <1>5. base \in State /\ base.at = time BY <1>1 DEF TypeOK, Places
  <1>6. /\ Ready(fmu)' /\ fmu'.time = time /\ fmu'.x = base /\ fmu'.jumps = fmu.jumps
        /\ fmu'.due = fmu.due /\ fmu'.clock = fmu.clock
    BY <1>1, <1>5, EvaluatedFacts DEF Modes, Restored
  <1>7. Sound(cs)' /\ Communicated' BY <1>1, QuietCs
  <1>8. Listed' /\ Announced'
    <2>1. (TimePending' <=> TimePending) BY <1>4
    <2>2. armed' = armed \/ (armed' = (armed /\ ~Exhausted) /\ ~TimePending) BY <1>4
    <2>3. UNCHANGED <<list, done, adaptive>> /\ Now' = Now BY <1>1
    <2>4. fmu'.due = fmu.due /\ fmu'.clock = fmu.clock BY <1>6
    <2>5. QED BY <2>1, <2>2, <2>3, <2>4, QuietList
  <1>9. TypeOK' BY <1>5, <1>6, <1>7 DEF TypeOK, Ready, Sound
  <1>10. Modes' BY <1>6, <1>7 DEF Modes
  <1>11. Places' BY <1>1, <1>5, <1>6 DEF Places
  <1>12. Jumps' BY <1>1, <1>6 DEF Jumps
  <1>13. Queued' BY <1>1, <1>3, <1>4 DEF Queued, Single
  <1>14. Instants' BY <1>1, <1>3 DEF Instants, Ahead
  <1>15. QED BY <1>7, <1>8, <1>9, <1>10, <1>11, <1>12, <1>13, <1>14

\* The events are resolved and time advances.
LEMMA CommitStep == Inv /\ Commit => Inv'
  <1> SUFFICES ASSUME Inv, Commit PROVE Inv' OBVIOUS
  <1> USE DEF Inv, Commit
  <1>1. /\ phase = "resolve" /\ phase' = "sample" /\ Ahead /\ ~Ahead' /\ Resolving /\ ~Resolving'
        /\ Now = Land /\ Now' = Land /\ Land \in Nat /\ Land <= MaxTime /\ time' = Land
    BY DEF Ahead, Resolving, Now, TypeOK, Places, Land
  <1>2. queue = <<>> /\ queue' = <<>> OBVIOUS
  <1>3. DOMAIN queue = {} /\ DOMAIN queue' = {} BY <1>2
  <1>4. ~TimePending /\ ~TimePending' /\ ~Has(queue, Tick)' BY <1>3 DEF TimePending, Has
  <1>5. x \in State /\ x.at = Land BY <1>1 DEF TypeOK, Places
  <1>6. /\ Ready(fmu)' /\ fmu'.time = Land /\ fmu'.x = x /\ fmu'.jumps = fmu.jumps
        /\ fmu'.due = fmu.due /\ fmu'.clock = fmu.clock
    BY <1>1, <1>5, EvaluatedFacts DEF Modes
  <1>7. Sound(cs)' /\ Communicated' BY <1>1, QuietCs
  <1>8. Listed' /\ Announced'
    <2>1. (TimePending' <=> TimePending) BY <1>4
    <2>2. armed' = armed \/ (armed' = (armed /\ ~Exhausted) /\ ~TimePending) BY <1>4
    <2>3. UNCHANGED <<list, done, adaptive>> /\ Now' = Now BY <1>1
    <2>4. fmu'.due = fmu.due /\ fmu'.clock = fmu.clock BY <1>6
    <2>5. QED BY <2>1, <2>2, <2>3, <2>4, QuietList
  <1>9. TypeOK' BY <1>1, <1>5, <1>6, <1>7 DEF TypeOK, Ready, Sound
  <1>10. Modes' BY <1>6, <1>7 DEF Modes
  <1>11. Places' BY <1>1, <1>5, <1>6 DEF Places
  <1>12. Jumps' BY <1>1, <1>6 DEF Jumps
  <1>13. Queued' BY <1>1, <1>3, <1>4 DEF Queued, Single
  <1>14. Instants' BY <1>1, <1>3, <1>6 DEF Instants
  <1>15. QED BY <1>7, <1>8, <1>9, <1>10, <1>11, <1>12, <1>13, <1>14

\* What detect finds in a step that is over.
LEMMA DetectedFacts ==
  ASSUME Inv, phase = "stepped"
  PROVE  /\ Detected \in SUBSET Event
         /\ \A a, b \in Detected : a.of = b.of => a = b
         /\ \A e \in Detected :
              /\ e.of \in Indicator => e.at <= Land /\ (e.close => e.at = Land)
              /\ e.of = TimeEvent =>
                    /\ armed /\ done < Len(list) /\ list[done + 1] <= Land
                    /\ e.close => list[done + 1] = Land \/ list[done + 1] <= time
              /\ e.of = Tick => ticks * Period <= Land
         /\ armed /\ done < Len(list) /\ list[done + 1] <= Land =>
              \E e \in Detected : e.of = TimeEvent
  <1> USE DEF Inv
  <1>1. /\ time \in Nat /\ dt \in Nat /\ Land \in Nat /\ x.at = Land /\ fmu.x.at = Land
        /\ prev \in [Indicator -> Int] /\ fmu.cross \in [Indicator -> Int]
        /\ done \in Nat /\ Len(list) \in Nat /\ \A k \in 1 .. Len(list) : list[k] \in Int
    BY DEF TypeOK, Places, Ahead, Land, Fmu
  <1>2. ticks * Period \in Nat
    <2>1. \A a, b \in Nat : a * b \in Nat OBVIOUS
    <2>2. ticks \in Nat /\ Period \in Nat BY FmuAssumption DEF TypeOK
    <2>3. QED BY <2>1, <2>2
  <1>3. Indicators \in Nat /\ Indicator = 1 .. Indicators /\ TimeEvent = 0 /\ Tick = Indicators + 1
    BY FmuAssumption DEF Indicator, TimeEvent, Tick
  <1>4. ASSUME NEW event \in Int, NEW due \in Int, NEW e \in Found(event, due)
        PROVE  /\ e \in Event /\ e.of = event /\ due <= Land
               /\ e.close => due = Land \/ due <= time
    <2> DEFINE close == due = Land \/ due <= time
    <2>1. ~(due > Land) /\ e = [of |-> event, at |-> Place(due), close |-> close]
      BY <1>4 DEF Found
    <2>2. Place(due) \in Int BY <1>1 DEF Place
    <2>3. close \in BOOLEAN OBVIOUS
    <2>4. due <= Land BY <1>1, <2>1
    <2> HIDE DEF close
    <2>5. e \in Event /\ e.of = event /\ e.close = close BY <2>1, <2>2, <2>3 DEF Event
    <2>6. QED BY <2>4, <2>5 DEF close
  <1>5. ASSUME NEW i \in Indicator, NEW e \in Crossed(i)
        PROVE  e \in Event /\ e.of = i /\ e.at <= Land /\ (e.close => e.at = Land)
    <2>1. Value(fmu, i) = fmu.cross[i] - Land /\ prev[i] = fmu.cross[i] - time
      BY <1>1 DEF Value, Places
    <2>2. /\ Value(fmu, i) <= 0
          /\ e = [of |-> i, at |-> time + prev[i], close |-> Value(fmu, i) = 0]
      BY <1>5 DEF Crossed
    <2>3. fmu.cross[i] \in Int /\ i \in Int BY <1>1, <1>3
    <2>4. time + prev[i] = fmu.cross[i] BY <1>1, <2>1, <2>3
    <2> DEFINE close == Value(fmu, i) = 0
    <2>5. close \in BOOLEAN OBVIOUS
    <2>6. time + prev[i] <= Land /\ (close => time + prev[i] = Land)
      BY <1>1, <2>1, <2>2, <2>3, <2>4
    <2>7. e = [of |-> i, at |-> time + prev[i], close |-> close] BY <2>2
    <2>8. time + prev[i] \in Int BY <2>3, <2>4
    <2> HIDE DEF close
    <2>9. e \in Event /\ e.of = i /\ e.at = time + prev[i] /\ e.close = close
      BY <2>3, <2>5, <2>7, <2>8 DEF Event
    <2>10. QED BY <2>6, <2>9
  <1>6. ASSUME NEW i, NEW a \in Crossed(i), NEW b \in Crossed(i) PROVE a = b
    BY <1>6 DEF Crossed
  <1>7. ASSUME NEW of, NEW due, NEW a \in Found(of, due), NEW b \in Found(of, due) PROVE a = b
    BY <1>7 DEF Found
  <1> DEFINE A == IF armed /\ done < Len(list) THEN Found(TimeEvent, list[done + 1]) ELSE {}
             B == UNION {Crossed(i) : i \in Indicator}
             C == Found(Tick, ticks * Period)
  <1>8. Detected = A \cup B \cup C BY DEF Detected
  <1>9. \A e \in A : /\ e \in Event /\ e.of = 0 /\ armed /\ done < Len(list)
                     /\ list[done + 1] <= Land
                     /\ e.close => list[done + 1] = Land \/ list[done + 1] <= time
    <2>1. TAKE e \in A
    <2>2. armed /\ done < Len(list) /\ e \in Found(TimeEvent, list[done + 1]) OBVIOUS
    <2>3. list[done + 1] \in Int /\ TimeEvent \in Int BY <1>1, <1>3, <2>2
    <2>4. QED BY <1>3, <1>4, <2>2, <2>3
  <1>10. \A e \in B : \E i \in Indicator :
             e \in Crossed(i) /\ e \in Event /\ e.of = i /\ e.at <= Land /\ (e.close => e.at = Land)
    BY <1>5
  <1>11. \A e \in C : e \in Event /\ e.of = Indicators + 1 /\ ticks * Period <= Land
    BY <1>2, <1>3, <1>4
  <1>12. armed /\ done < Len(list) /\ list[done + 1] <= Land => \E e \in A : e.of = TimeEvent
    <2>1. SUFFICES ASSUME armed, done < Len(list), list[done + 1] <= Land
                   PROVE  \E e \in A : e.of = TimeEvent
      OBVIOUS
    <2>2. list[done + 1] \in Int BY <1>1, <2>1
    <2>3. ~(list[done + 1] > Land) BY <1>1, <2>1, <2>2
    <2>4. QED BY <2>1, <2>3 DEF Found
  <1>13. \A a, b \in A : a = b BY <1>7
  <1>14. \A a, b \in C : a = b BY <1>7
  <1> HIDE DEF A, B, C
  <1>15. Detected \in SUBSET Event BY <1>8, <1>9, <1>10, <1>11
  <1>16. ASSUME NEW a \in Detected, NEW b \in Detected, a.of = b.of PROVE a = b
    <2>1. \A e \in A : e.of = 0 BY <1>9
    <2>2. \A e \in B : e.of \in 1 .. Indicators /\ e \in Crossed(e.of) BY <1>3, <1>10
    <2>3. \A e \in C : e.of = Indicators + 1 BY <1>11
    <2>4. CASE a \in A
      <3>1. b \in A BY <1>3, <1>8, <1>16, <2>1, <2>2, <2>3, <2>4
      <3>2. QED BY <1>13, <2>4, <3>1
    <2>5. CASE a \in B
      <3>1. b \in B BY <1>3, <1>8, <1>16, <2>1, <2>2, <2>3, <2>5
      <3>2. a \in Crossed(a.of) /\ b \in Crossed(a.of) BY <1>16, <2>2, <2>5, <3>1
      <3>3. QED BY <1>6, <3>2
    <2>6. CASE a \in C
      <3>1. b \in C BY <1>3, <1>8, <1>16, <2>1, <2>2, <2>3, <2>6
      <3>2. QED BY <1>14, <2>6, <3>1
    <2>7. QED BY <1>8, <2>4, <2>5, <2>6
  <1>17. ASSUME NEW e \in Detected
         PROVE  /\ e.of \in Indicator => e.at <= Land /\ (e.close => e.at = Land)
                /\ e.of = TimeEvent =>
                     /\ armed /\ done < Len(list) /\ list[done + 1] <= Land
                     /\ e.close => list[done + 1] = Land \/ list[done + 1] <= time
                /\ e.of = Tick => ticks * Period <= Land
    <2>1. CASE e \in A BY <1>3, <1>9, <2>1
    <2>2. CASE e \in B BY <1>3, <1>10, <2>2
    <2>3. CASE e \in C BY <1>3, <1>11, <2>3
    <2>4. QED BY <1>8, <2>1, <2>2, <2>3
  <1>18. QED BY <1>8, <1>12, <1>15, <1>16, <1>17

\* The events of the step become the queue; in an adaptive run all lie at its end.
LEMMA DetectStep == Inv /\ Detect => Inv'
  <1> SUFFICES ASSUME Inv, Detect PROVE Inv' OBVIOUS
  <1> USE DEF Inv
  <1>1. /\ phase = "stepped" /\ phase' = "resolve" /\ Ahead /\ Ahead' /\ ~Resolving /\ Resolving'
        /\ Now = time /\ Now' = Land /\ Land' = Land /\ time' = time
    BY DEF Detect, Ahead, Resolving, Now, Land
  <1>2. /\ time \in Nat /\ dt \in Nat /\ Land \in Nat /\ time <= Land
        /\ done \in Nat /\ list \in Seq(Int) /\ Len(list) \in Nat
        /\ \A k \in 1 .. Len(list) : list[k] \in Int
    BY DEF TypeOK, Land
  <1>3. queue = <<>> BY <1>1 DEF Queued
  <1>4. DOMAIN queue = {} BY <1>3
  <1>5. ~TimePending /\ Come = done BY <1>4 DEF TimePending, Has, Come
  <1>6. /\ queue' \in Seq(Event) /\ Single(queue')
        /\ \A k \in DOMAIN queue' : queue'[k] \in Detected
        /\ \A e : Has(queue', e) <=> \E a \in Detected : a.of = e
    <2>1. queue' \in InOrder(Detected) BY DEF Detect
    <2>2. Detected \in SUBSET Event /\ \A a, b \in Detected : a.of = b.of => a = b
      BY <1>1, DetectedFacts
    <2>3. QED BY <2>1, <2>2, InOrderFacts
  <1>7. /\ \A e \in Detected :
              /\ e.of \in Indicator => e.at <= Land /\ (e.close => e.at = Land)
              /\ e.of = TimeEvent =>
                    /\ armed /\ done < Len(list) /\ list[done + 1] <= Land
                    /\ e.close => list[done + 1] = Land \/ list[done + 1] <= time
              /\ e.of = Tick => ticks * Period <= Land
        /\ armed /\ done < Len(list) /\ list[done + 1] <= Land =>
              \E e \in Detected : e.of = TimeEvent
    BY <1>1, DetectedFacts
  <1>8. adaptive => \A e \in Detected : e.close BY DEF Detect, Resolvable
  <1>9. TimePending' <=> armed /\ done < Len(list) /\ list[done + 1] <= Land
    BY <1>6, <1>7 DEF TimePending
  <1>10. UNCHANGED <<fmu, x, base, list, done, prev, cs, ticks, target, time, dt, adaptive>>
         /\ armed' \in BOOLEAN /\ (armed' <=> armed /\ ~Exhausted)
    BY DEF Detect, TypeOK
  <1>11. TypeOK' BY <1>1, <1>6, <1>10 DEF TypeOK
  <1>12. Modes' BY <1>10 DEF Modes
  <1>13. Places' BY <1>1, <1>10 DEF Places
  <1>14. Jumps' BY <1>1, <1>10 DEF Jumps
  <1>15. Queued' BY <1>1, <1>6, <1>7, <1>10 DEF Queued
  <1>16. Communicated'
    <2>1. cs.time \in Int BY DEF TypeOK, Cs
    <2>2. QED BY <1>1, <1>2, <1>10, <2>1 DEF Communicated
  <1>17. Instants' BY <1>1, <1>6, <1>7, <1>8, <1>10 DEF Instants
  <1>18. Listed'
    <2>1. Ascending(list) /\ done <= Len(list) /\ \A k \in 1 .. done : list[k] <= time
      BY <1>1, <1>5 DEF Listed
    <2>2. adaptive /\ armed => \A k \in done + 1 .. Len(list) : time < list[k]
      BY <1>1, <1>5 DEF Listed
    <2>3. CASE TimePending'
      <3>1. Come' = done + 1 /\ armed /\ done < Len(list) /\ list[done + 1] <= Land
        BY <1>9, <1>10, <2>3 DEF Come
      <3>2. ~Exhausted /\ armed' BY <1>2, <1>10, <3>1 DEF Exhausted
      <3>3. done + 1 \in DOMAIN list /\ list[done + 1] \in Int BY <1>2, <3>1
      <3>4. \A k \in 1 .. done + 1 : list[k] <= Land
        BY <1>2, <2>1, <3>1
      <3>5. adaptive => list[done + 1] = Land
        <4>1. SUFFICES ASSUME adaptive PROVE list[done + 1] = Land OBVIOUS
        <4>2. PICK e \in Detected : e.of = TimeEvent BY <1>6, <2>3 DEF TimePending
        <4>3. list[done + 1] = Land \/ list[done + 1] <= time BY <1>7, <1>8, <4>1, <4>2
        <4>4. time < list[done + 1] BY <1>2, <2>2, <3>1, <4>1
        <4>5. QED BY <1>2, <3>3, <4>3, <4>4
      <3>6. adaptive => \A k \in done + 2 .. Len(list) : Land < list[k]
        <4>1. \A k \in done + 2 .. Len(list) : list[done + 1] < list[k]
          BY <1>2, <2>1, <3>3 DEF Ascending
        <4>2. QED BY <3>5, <4>1
      <3>7. (done + 1) + 1 = done + 2 /\ done + 1 <= Len(list) BY <1>2, <3>1
      <3>8. QED BY <1>1, <1>10, <2>1, <2>3, <3>1, <3>2, <3>4, <3>5, <3>6, <3>7 DEF Listed
    <2>4. CASE ~TimePending'
      <3>1. Come' = done BY <1>10, <2>4 DEF Come
      <3>2. \A k \in 1 .. done : list[k] <= Land BY <1>2, <2>1
      <3>3. ASSUME armed' PROVE \A k \in done + 1 .. Len(list) : Land < list[k]
        <4>1. armed /\ done < Len(list) BY <1>2, <1>10, <2>1, <3>3 DEF Exhausted
        <4>2. done + 1 \in DOMAIN list /\ list[done + 1] \in Int BY <1>2, <4>1
        <4>3. Land < list[done + 1] BY <1>2, <1>9, <2>4, <4>1, <4>2
        <4>4. \A k \in done + 1 .. Len(list) : k = done + 1 \/ list[done + 1] < list[k]
          BY <1>2, <2>1, <4>2 DEF Ascending
        <4>5. QED BY <1>2, <4>2, <4>3, <4>4
      <3>4. QED BY <1>1, <1>10, <2>1, <2>4, <3>1, <3>2, <3>3 DEF Listed
    <2>5. QED BY <2>3, <2>4
  <1>19. Announced'
    <2>1. \A k \in done + 1 .. Len(list) : ~Exhausted BY <1>2 DEF Exhausted
    <2>2. QED BY <1>10, <2>1 DEF Announced
  <1>20. QED BY <1>11, <1>12, <1>13, <1>14, <1>15, <1>16, <1>17, <1>18, <1>19

\* What resolving the first event leaves of the queue.
LEMMA PoppedFacts ==
  ASSUME Inv, queue # <<>>, queue' = Tail(queue)
  PROVE  /\ queue' \in Seq(Event) /\ Single(queue') /\ Head(queue) \in Event
         /\ 1 \in DOMAIN queue /\ queue[1] = Head(queue)
         /\ \A k \in DOMAIN queue' : k + 1 \in DOMAIN queue /\ queue'[k] = queue[k + 1]
         /\ \A e : Has(queue', e) <=> Has(queue, e) /\ e # Head(queue).of
         /\ Has(queue, Head(queue).of)
         /\ Resolving
  <1>1. queue \in Seq(Event) /\ Single(queue) BY DEF Inv, TypeOK, Queued
  <1>2. Resolving BY DEF Inv, Queued
  <1>3. /\ Tail(queue) \in Seq(Event) /\ Single(Tail(queue)) /\ Head(queue) \in Event
        /\ \A k \in DOMAIN Tail(queue) : k + 1 \in DOMAIN queue /\ Tail(queue)[k] = queue[k + 1]
        /\ \A e : Has(Tail(queue), e) <=> Has(queue, e) /\ e # Head(queue).of
        /\ 1 \in DOMAIN queue /\ Head(queue) = queue[1]
    BY <1>1, TailFacts
  <1>4. Has(queue, Head(queue).of) BY <1>3 DEF Has
  <1>5. QED BY <1>2, <1>3, <1>4

\* The three kinds of events are told apart by their numbers.
LEMMA KindsFacts == Tick # TimeEvent /\ Tick \notin Indicator /\ TimeEvent \notin Indicator
  BY FmuAssumption DEF Tick, TimeEvent, Indicator

\* An event is handled at t: all that does not depend on the queue.
LEMMA HandledStep ==
  ASSUME Inv, NEW t \in Int, t <= MaxTime, NEW asked \in BOOLEAN,
         NEW h \in Handled(fmu, x, list, t, asked), fmu' = h.fmu, x' = h.x
  PROVE  /\ Ready(fmu)' /\ x' \in State
         /\ fmu'.time = t /\ x'.at = x.at /\ fmu'.x.at = x.at
         /\ TRUE \notin Repeats => x'.epoch = fmu'.jumps
  <1>1. /\ Ready(fmu) /\ x \in State /\ fmu.x.at = x.at
        /\ TRUE \notin Repeats => x.epoch = fmu.jumps
    BY DEF Inv, Modes, TypeOK, Places, Jumps
  <1>2. HandledAt(h, fmu, x, list, t) BY <1>1, HandledFacts
  <1>3. QED BY <1>1, <1>2 DEF HandledAt

\* A time event is handled; the next place in the list is in the future.
LEMMA ResolveTimeEventStep == Inv /\ ResolveTimeEvent => Inv'
  <1> SUFFICES ASSUME Inv, ResolveTimeEvent PROVE Inv' OBVIOUS
  <1> USE DEF Inv
  <1>1. /\ phase = "resolve" /\ phase' = "resolve" /\ Ahead /\ Ahead' /\ Resolving /\ Resolving'
        /\ queue # <<>> /\ queue' = Tail(queue) /\ Head(queue).of = TimeEvent /\ done' = done + 1
        /\ UNCHANGED <<base, armed, prev, cs, ticks, target, time, dt, adaptive, phase>>
    BY DEF ResolveTimeEvent, Ahead, Resolving
  <1>2. Now = Land /\ Now' = Land /\ Land' = Land /\ Land \in Nat /\ Land <= MaxTime
    BY <1>1 DEF Now, Land, TypeOK, Places
  <1>3. /\ queue' \in Seq(Event) /\ Single(queue')
        /\ \A k \in DOMAIN queue' : k + 1 \in DOMAIN queue /\ queue'[k] = queue[k + 1]
        /\ \A e : Has(queue', e) <=> Has(queue, e) /\ e # TimeEvent
        /\ Has(queue, TimeEvent)
    BY <1>1, PoppedFacts
  <1>4. TimePending /\ ~TimePending' /\ Come = done + 1 /\ Come' = done + 1
    BY <1>1, <1>3 DEF TimePending, Come
  <1> DEFINE t == list[done + 1]
  <1>5. t \in Int /\ t <= MaxTime /\ (adaptive => t = Now)
    <2>1. list \in Seq(Int) /\ done \in Nat /\ done + 1 <= Len(list) BY <1>4 DEF TypeOK, Listed
    <2>2. done + 1 \in 1 .. done + 1 /\ done + 1 \in 1 .. Len(list) BY <2>1
    <2>3. t \in Int BY <2>1, <2>2
    <2>4. t <= Land BY <1>2, <1>4, <2>2 DEF Listed
    <2>5. MaxTime \in Int BY FmuAssumption
    <2>6. QED BY <1>2, <1>4, <2>3, <2>4, <2>5 DEF Listed
  <1>6. PICK h \in Handled(fmu, x, list, t, FALSE) : fmu' = h.fmu /\ x' = h.x /\ list' = h.list
    BY DEF ResolveTimeEvent, Handle
  <1> HIDE DEF t
  <1>7. FALSE \in BOOLEAN OBVIOUS
  <1>8. /\ Ready(fmu)' /\ x' \in State
        /\ fmu'.time = t /\ x'.at = x.at /\ fmu'.x.at = x.at
        /\ TRUE \notin Repeats => x'.epoch = fmu'.jumps
    BY <1>5, <1>6, <1>7, HandledStep
  <1>9. list' \in Seq(Int) /\ Listed' /\ Announced'
    <2>1. done' \in Nat /\ done' <= Come /\ Come' = Come BY <1>1, <1>4 DEF TypeOK
    <2>2. UNCHANGED <<armed, adaptive>> /\ Now' = Now /\ Now \in Int /\ (TimePending' => TimePending)
      BY <1>1, <1>2, <1>4
    <2>3. QED BY <1>5, <1>6, <1>7, <2>1, <2>2, HandledList
  <1>10. TypeOK' BY <1>1, <1>3, <1>8, <1>9 DEF TypeOK, Ready
  <1>11. Modes' BY <1>1, <1>8 DEF Modes
  <1>12. Places' BY <1>1, <1>2, <1>8 DEF Places
  <1>13. Jumps' BY <1>1, <1>8 DEF Jumps
  <1>14. Queued' BY <1>1, <1>2, <1>3 DEF Queued
  <1>15. Communicated' BY <1>1, <1>2 DEF Communicated
  <1>16. Instants'
    <2>1. adaptive => fmu'.time = Land BY <1>2, <1>5, <1>8
    <2>2. QED BY <1>1, <1>2, <1>3, <2>1 DEF Instants
  <1>17. QED BY <1>9, <1>10, <1>11, <1>12, <1>13, <1>14, <1>15, <1>16

\* A crossing is handled, which may announce a time event.
LEMMA ResolveCrossingStep == Inv /\ ResolveCrossing => Inv'
  <1> SUFFICES ASSUME Inv, ResolveCrossing PROVE Inv' OBVIOUS
  <1> USE DEF Inv
  <1>1. /\ phase = "resolve" /\ phase' = "resolve" /\ Ahead /\ Ahead' /\ Resolving /\ Resolving'
        /\ queue # <<>> /\ queue' = Tail(queue) /\ Head(queue).of \in Indicator
        /\ UNCHANGED <<base, done, armed, prev, cs, ticks, target, time, dt, adaptive, phase>>
    BY DEF ResolveCrossing, Ahead, Resolving
  <1>2. Now = Land /\ Now' = Land /\ Land' = Land /\ Land \in Nat /\ Land <= MaxTime
    BY <1>1 DEF Now, Land, TypeOK, Places
  <1>3. /\ queue' \in Seq(Event) /\ Single(queue') /\ Head(queue) \in Event
        /\ 1 \in DOMAIN queue /\ queue[1] = Head(queue)
        /\ \A k \in DOMAIN queue' : k + 1 \in DOMAIN queue /\ queue'[k] = queue[k + 1]
        /\ \A e : Has(queue', e) <=> Has(queue, e) /\ e # Head(queue).of
    BY <1>1, PoppedFacts
  <1>4. (TimePending' <=> TimePending) /\ Come' = Come
    BY <1>1, <1>3, KindsFacts DEF TimePending, Come
  <1> DEFINE t == Head(queue).at
  <1>5. t \in Int /\ t <= MaxTime /\ (adaptive => t = Now)
    <2>1. t \in Int BY <1>3 DEF Event
    <2>2. t <= Land /\ (adaptive => t = Land) BY <1>1, <1>3 DEF Queued, Instants
    <2>3. MaxTime \in Int BY FmuAssumption
    <2>4. QED BY <1>2, <2>1, <2>2, <2>3
  <1>6. PICK h \in Handled(fmu, x, list, t, FALSE) : fmu' = h.fmu /\ x' = h.x /\ list' = h.list
    BY DEF ResolveCrossing, Handle
  <1> HIDE DEF t
  <1>7. FALSE \in BOOLEAN OBVIOUS
  <1>8. /\ Ready(fmu)' /\ x' \in State
        /\ fmu'.time = t /\ x'.at = x.at /\ fmu'.x.at = x.at
        /\ TRUE \notin Repeats => x'.epoch = fmu'.jumps
    BY <1>5, <1>6, <1>7, HandledStep
  <1>9. list' \in Seq(Int) /\ Listed' /\ Announced'
    <2>1. done' \in Nat /\ done' <= Come BY <1>1 DEF TypeOK, Come
    <2>2. UNCHANGED <<armed, adaptive>> /\ Now' = Now /\ Now \in Int /\ (TimePending' => TimePending)
      BY <1>1, <1>2, <1>4
    <2>3. QED BY <1>4, <1>5, <1>6, <1>7, <2>1, <2>2, HandledList
  <1>10. TypeOK' BY <1>1, <1>3, <1>8, <1>9 DEF TypeOK, Ready
  <1>11. Modes' BY <1>1, <1>8 DEF Modes
  <1>12. Places' BY <1>1, <1>2, <1>8 DEF Places
  <1>13. Jumps' BY <1>1, <1>8 DEF Jumps
  <1>14. Queued' BY <1>1, <1>2, <1>3 DEF Queued
  <1>15. Communicated' BY <1>1, <1>2 DEF Communicated
  <1>16. Instants'
    <2>1. adaptive => fmu'.time = Land BY <1>2, <1>5, <1>8
    <2>2. QED BY <1>1, <1>2, <1>3, <2>1 DEF Instants
  <1>17. QED BY <1>9, <1>10, <1>11, <1>12, <1>13, <1>14, <1>15, <1>16

\* Steps of the Co-Simulation block's event: the other block is left alone.
LEMMA TickSteps ==
  ASSUME Inv, NEW a, ResolveTick \/ DoStep(a) \/ Arrive,
         Sound(cs)', Communicated', target' \in Nat, ticks' \in Nat,
         queue' \in Seq(Event), Single(queue'),
         \A k \in DOMAIN queue' : queue'[k].of \in Indicator =>
              queue'[k].at <= Land /\ (adaptive => queue'[k].at = Land),
         Has(queue', Tick) => ticks' * Period <= Land,
         phase' = "drive" => target' <= Land,
         TimePending' <=> TimePending
  PROVE  Inv'
  <1> USE DEF Inv
  <1>1. /\ phase \in {"resolve", "drive"} /\ phase' \in {"resolve", "drive"}
        /\ UNCHANGED <<fmu, x, base, list, done, armed, prev, time, dt, adaptive>>
    BY DEF ResolveTick, DoStep, Arrive
  <1>2. /\ Ahead /\ Ahead' /\ Resolving /\ Resolving' /\ phase # "stepped" /\ phase' # "stepped"
        /\ Now = Land /\ Now' = Land /\ Land' = Land
    BY <1>1 DEF Ahead, Resolving, Now, Land
  <1>3. Listed' /\ Announced'
    <2>1. armed' = armed /\ UNCHANGED <<list, done, adaptive>> /\ Now' = Now
          /\ fmu'.due = fmu.due /\ fmu'.clock = fmu.clock
      BY <1>1, <1>2
    <2>2. QED BY <2>1, QuietList
  <1>4. TypeOK' BY <1>1 DEF TypeOK, Sound
  <1>5. Modes' BY <1>1 DEF Modes
  <1>6. Places' BY <1>1, <1>2 DEF Places
  <1>7. Jumps' BY <1>1, <1>2 DEF Jumps
  <1>8. Queued' BY <1>2 DEF Queued
  <1>9. Instants' BY <1>1, <1>2 DEF Instants
  <1>10. QED BY <1>3, <1>4, <1>5, <1>6, <1>7, <1>8, <1>9

\* A communication point is due.
LEMMA ResolveTickStep == Inv /\ ResolveTick => Inv'
  <1> SUFFICES ASSUME Inv, ResolveTick PROVE Inv' OBVIOUS
  <1> USE DEF Inv
  <1>1. /\ phase = "resolve" /\ phase' = "drive" /\ queue # <<>> /\ queue' = Tail(queue)
        /\ Head(queue).of = Tick /\ target' = ticks * Period /\ ticks' = ticks + 1
        /\ UNCHANGED <<cs, time, dt>>
    BY DEF ResolveTick
  <1>2. /\ queue' \in Seq(Event) /\ Single(queue')
        /\ \A k \in DOMAIN queue' : k + 1 \in DOMAIN queue /\ queue'[k] = queue[k + 1]
        /\ \A e : Has(queue', e) <=> Has(queue, e) /\ e # Tick
        /\ Has(queue, Tick)
    BY <1>1, PoppedFacts
  <1>3. target' \in Nat /\ target' <= Land /\ ticks' \in Nat
    <2>1. \A a, b \in Nat : a * b \in Nat OBVIOUS
    <2>2. ticks \in Nat /\ Period \in Nat BY FmuAssumption DEF TypeOK
    <2>3. QED BY <1>1, <1>2, <2>1, <2>2 DEF Queued
  <1>4. \A k \in DOMAIN queue' : queue'[k].of \in Indicator =>
              queue'[k].at <= Land /\ (adaptive => queue'[k].at = Land)
    BY <1>2 DEF Queued, Instants
  <1>5. TimePending' <=> TimePending BY <1>2, KindsFacts DEF TimePending
  <1>6. Sound(cs)' BY <1>1 DEF Modes
  <1>7. Communicated'
    <2>1. Now' = Now BY <1>1 DEF Now, Resolving, Land
    <2>2. QED BY <1>1, <2>1 DEF Communicated
  <1>8. QED BY <1>2, <1>3, <1>4, <1>5, <1>6, <1>7, TickSteps

\* One call of do_step on the way there.
LEMMA DoStepStep == ASSUME Inv, NEW a \in Answers(cs, target), DoStep(a) PROVE Inv'
  <1> USE DEF Inv
  <1>1. /\ phase = "drive" /\ phase' \in {"resolve", "drive"} /\ ~cs.terminated
        /\ cs.current < target /\ cs' = Driven(cs, target, a)
        /\ UNCHANGED <<ticks, target, queue, time, dt>>
    BY DEF DoStep
  <1>2. target \in Nat /\ target <= Land /\ Now = Land /\ Now' = Land
    BY <1>1 DEF TypeOK, Queued, Now, Resolving, Land
  <1>3. Sound(cs) /\ cs.current = cs.time BY <1>1 DEF Modes, Communicated
  <1>4. Sound(cs)' /\ (~cs'.terminated => cs'.current = cs'.time /\ cs'.time <= target)
    BY <1>1, <1>2, <1>3, DrivenFacts
  <1>5. Communicated'
    <2>1. cs'.time \in Int /\ Land \in Int BY <1>4 DEF Sound, Cs, TypeOK, Land
    <2>2. QED BY <1>1, <1>2, <1>4, <2>1 DEF Communicated
  <1>6. /\ target' \in Nat /\ ticks' \in Nat /\ queue' \in Seq(Event) /\ Single(queue')
        /\ Has(queue', Tick) => ticks' * Period <= Land
        /\ target' <= Land /\ (TimePending' <=> TimePending)
    BY <1>1, <1>2 DEF TypeOK, Queued, TimePending
  <1>7. \A k \in DOMAIN queue' : queue'[k].of \in Indicator =>
              queue'[k].at <= Land /\ (adaptive => queue'[k].at = Land)
    BY <1>1 DEF Queued, Instants
  <1>8. QED BY <1>4, <1>5, <1>6, <1>7, TickSteps

\* The FMU has arrived or has asked for the end.
LEMMA ArriveStep == Inv /\ Arrive => Inv'
  <1> SUFFICES ASSUME Inv, Arrive PROVE Inv' OBVIOUS
  <1> USE DEF Inv
  <1>1. phase = "drive" /\ phase' = "resolve" /\ UNCHANGED <<cs, ticks, target, queue, time, dt>>
    BY DEF Arrive
  <1>2. Now = Land /\ Now' = Land BY <1>1 DEF Now, Resolving, Land
  <1>3. Sound(cs)' BY <1>1 DEF Modes
  <1>4. Communicated' BY <1>1, <1>2 DEF Communicated
  <1>5. /\ target' \in Nat /\ ticks' \in Nat /\ queue' \in Seq(Event) /\ Single(queue')
        /\ Has(queue', Tick) => ticks' * Period <= Land
        /\ (TimePending' <=> TimePending)
    BY <1>1 DEF TypeOK, Queued, TimePending
  <1>6. \A k \in DOMAIN queue' : queue'[k].of \in Indicator =>
              queue'[k].at <= Land /\ (adaptive => queue'[k].at = Land)
    BY <1>1 DEF Queued, Instants
  <1>7. phase' # "drive" BY <1>1
  <1>8. QED BY <1>3, <1>4, <1>5, <1>6, <1>7, TickSteps

\* The end of a step, where the FMU may ask for an event of its own.
LEMMA SampleStep == ASSUME Inv, NEW asked \in BOOLEAN, Sample(asked) PROVE Inv'
  <1> USE DEF Inv
  <1>1. /\ phase = "sample" /\ phase' = "idle" /\ ~Ahead /\ ~Ahead' /\ ~Resolving /\ ~Resolving'
        /\ Now = time /\ Now' = time /\ time \in Nat /\ time <= MaxTime
        /\ UNCHANGED <<base, done, armed, prev, cs, ticks, target, time, dt, adaptive, queue>>
    BY DEF Sample, Ahead, Resolving, Now, TypeOK, Places
  <1>2. queue = <<>> /\ queue' = <<>> BY <1>1 DEF Queued
  <1>3. DOMAIN queue = {} /\ DOMAIN queue' = {} BY <1>2
  <1>4. ~TimePending /\ ~TimePending' /\ ~Has(queue, Tick)' BY <1>3 DEF TimePending, Has
  <1>5. Called(fmu, "completed_integrator_step") = fmu
    BY AllowedCall, AllowedFacts DEF Modes, Ready
  <1>6. /\ Ready(fmu)' /\ x' \in State /\ x'.at = x.at /\ fmu'.x.at = x.at
        /\ TRUE \notin Repeats => x'.epoch = fmu'.jumps
        /\ list' \in Seq(Int) /\ Listed' /\ Announced'
    <2>1. CASE asked
      <3>1. PICK h \in Handled(fmu, x, list, time, TRUE) : fmu' = h.fmu /\ x' = h.x /\ list' = h.list
        BY <1>5, <2>1 DEF Sample
      <3>2. TRUE \in BOOLEAN /\ time \in Int BY <1>1
      <3>3. /\ Ready(fmu)' /\ x' \in State /\ x'.at = x.at /\ fmu'.x.at = x.at
            /\ TRUE \notin Repeats => x'.epoch = fmu'.jumps
        BY <1>1, <3>1, <3>2, HandledStep
      <3>4. done' \in Nat /\ done' <= Come /\ Come' = Come
        BY <1>1, <1>4 DEF TypeOK, Come
      <3>5. UNCHANGED <<armed, adaptive>> /\ Now' = Now /\ Now \in Int /\ (TimePending' => TimePending)
            /\ (adaptive => time = Now)
        BY <1>1, <1>4
      <3>6. list' \in Seq(Int) /\ Listed' /\ Announced'
        BY <1>1, <3>1, <3>2, <3>4, <3>5, HandledList
      <3>7. QED BY <3>3, <3>6
    <2>2. CASE ~asked
      <3>1. fmu' = fmu /\ UNCHANGED <<x, list>> BY <1>5, <2>2 DEF Sample
      <3>2. (TimePending' <=> TimePending) /\ armed' = armed /\ UNCHANGED <<list, done, adaptive>>
            /\ Now' = Now /\ fmu'.due = fmu.due /\ fmu'.clock = fmu.clock
        BY <1>1, <1>4, <3>1
      <3>3. Listed' /\ Announced' BY <3>2, QuietList
      <3>4. QED BY <3>1, <3>3 DEF TypeOK, Modes, Places, Jumps
    <2>3. QED BY <2>1, <2>2
  <1>7. TypeOK' BY <1>1, <1>6 DEF TypeOK, Ready
  <1>8. Modes' BY <1>1, <1>6 DEF Modes
  <1>9. Places' BY <1>1, <1>6 DEF Places
  <1>10. Jumps' BY <1>1, <1>6 DEF Jumps
  <1>11. Queued' BY <1>1, <1>3, <1>4 DEF Queued, Single
  <1>12. Communicated' BY <1>1 DEF Communicated
  <1>13. Instants' BY <1>1, <1>3 DEF Instants
  <1>14. QED BY <1>6, <1>7, <1>8, <1>9, <1>10, <1>11, <1>12, <1>13

\* A step that changes nothing.
LEMMA Stuttering == Inv /\ UNCHANGED vars => Inv'
  <1> SUFFICES ASSUME Inv, UNCHANGED vars PROVE Inv' OBVIOUS
  <1> USE DEF Inv, vars
  <1>1. Now' = Now /\ Land' = Land /\ (Ahead' <=> Ahead) /\ (Resolving' <=> Resolving)
        /\ Come' = Come /\ (TimePending' <=> TimePending)
    BY DEF Now, Land, Ahead, Resolving, Come, TimePending
  <1>2. TypeOK' /\ Modes' BY DEF TypeOK, Modes
  <1>3. Places' /\ Jumps' BY <1>1 DEF Places, Jumps
  <1>4. Queued' /\ Communicated' /\ Instants' BY <1>1 DEF Queued, Communicated, Instants
  <1>5. Listed' /\ Announced' BY <1>1 DEF Listed, Announced
  <1>6. QED BY <1>2, <1>3, <1>4, <1>5

\* The invariant holds always.
LEMMA Inductive == Spec => []Inv
  <1>1. Init => Inv BY InitInv
  <1>2. Inv /\ [Next]_vars => Inv'
    BY StartStep, BeginStep, RevertStep, DetectStep, ResolveTimeEventStep, ResolveCrossingStep,
       ResolveTickStep, DoStepStep, ArriveStep, CommitStep, SampleStep, Stuttering DEF Next
  <1>3. QED BY <1>1, <1>2, PTL DEF Spec

-----------------------------------------------------------------------------
(* The properties.                                                         *)

\* Every call to an instance of either kind is made in a mode that answers it.
THEOREM CallsAreAnswered == Spec => []CallsAreLegal
  <1>1. Inv => CallsAreLegal BY DEF Inv, Modes, Ready, Sound, CallsAreLegal
  <1>2. QED BY <1>1, Inductive, PTL

\* What a crossing is judged from is the committed state, and an event of an
\* adaptive run is handled with the time and the states of the same instant.
THEOREM InstantsMeet == Spec => []InstantsAgree
  <1>1. Inv => InstantsAgree BY DEF Inv, Places, Instants, Ahead, InstantsAgree
  <1>2. QED BY <1>1, Inductive, PTL

\* The outputs of the Co-Simulation block are of the present, or of the last
\* communication point where they cannot be extrapolated.
THEOREM OutputsArePresent == Spec => []OutputsStandForNow
  <1>1. Inv => OutputsStandForNow
    BY DEF Inv, Communicated, Now, Resolving, OutputsStandForNow
  <1>2. QED BY <1>1, Inductive, PTL

\* If no event takes a second update, no jump of the states is lost.
THEOREM JumpsReachTheEngine == ASSUME TRUE \notin Repeats PROVE Spec => []JumpsAreKept
  <1>1. Inv => JumpsAreKept BY DEF Inv, Jumps, JumpsAreKept
  <1>2. QED BY <1>1, Inductive, PTL

\* If an FMU always or never has a time event ahead of it, none is passed.
THEOREM TimeEventsAreMet ==
  ASSUME "sometimes" \notin Clocks PROVE Spec => []TimeEventsDelivered
  <1>1. Inv => TimeEventsDelivered
    <2> SUFFICES ASSUME Inv, adaptive, phase = "idle" PROVE fmu.due > time
      BY DEF TimeEventsDelivered
    <2> USE DEF Inv
    <2>2. queue = <<>> /\ Now = time /\ time \in Nat /\ time <= MaxTime
      BY DEF Queued, Resolving, Now, TypeOK, Places
    <2>3. ~TimePending /\ Come = done BY <2>2 DEF TimePending, Has, Come
    <2>4. fmu.clock \in {"always", "never"}
      BY FmuAssumption DEF Announced, Clock
    <2>5. CASE fmu.clock = "never" BY <2>2, <2>5, FmuAssumption DEF Announced
    <2>6. CASE fmu.clock = "always"
      <3>1. armed /\ \E k \in done + 1 .. Len(list) : list[k] = fmu.due
        BY <2>6 DEF Announced
      <3>2. \A k \in done + 1 .. Len(list) : time < list[k]
        BY <2>2, <2>3, <3>1 DEF Listed
      <3>3. fmu.due \in Int BY DEF TypeOK, Fmu
      <3>4. QED BY <2>2, <3>1, <3>2, <3>3
    <2>7. QED BY <2>4, <2>5, <2>6
  <1>2. QED BY <1>1, Inductive, PTL

=============================================================================
