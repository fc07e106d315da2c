------------------------- MODULE CompiledRunProofs -------------------------
(***************************************************************************)
(* Invariants of CompiledRun for every compiled system, every step size,   *)
(* every stride and bound of the recording and every number of runs.       *)
(***************************************************************************)
EXTENDS CompiledRun, EventsProofs

(* Lemmas *)

\* A guard is an integer whatever state it is read from.
LEMMA ReadingType ==
    ASSUME NEW e \in Event, NEW o \in [Slot -> Level], NEW t \in Int
    PROVE  Reading(e, o, t) \in Int
<1>1. Source[e] \in Slot \cup {Clock} /\ Threshold[e] \in Int /\ Level \subseteq Int
  BY EventAssumption, CompiledAssumption
<1>2. Source[e] # Clock => o[Source[e]] \in Int
  BY <1>1
<1> QED BY <1>1, <1>2 DEF Reading

\* Buffering all events leaves event states.
LEMMA BufferedType ==
    ASSUME NEW evs \in [Event -> EventState], NEW o \in [Slot -> Level], NEW t \in Int
    PROVE  BufferedAll(evs, o, t) \in [Event -> EventState]
<1>1. \A e \in Event : Buffered(e, evs[e], Reading(e, o, t), t) \in EventState
  BY ReadingType, EventSteps
<1> QED BY <1>1 DEF BufferedAll

\* An effect leaves the scratch on the grid and an event state with one more
\* time.
LEMMA ResolveType ==
    ASSUME ev \in [Event -> EventState], NEW e \in Event, NEW t \in Int, Resolve(e, t)
    PROVE  scratch' \in [Slot -> Level] /\ ev' \in [Event -> EventState]
<1>1. Recorded(e, ev[e], t) \in EventState
  BY EventSteps
<1>2. Disarmed(e, Recorded(e, ev[e], t)) \in EventState
  BY <1>1, EventSteps
<1> QED BY <1>2 DEF Resolve

\* Whatever a factor asks for, the next step is a positive one.
LEMMA ClampedPositive ==
    ASSUME NEW d \in Int
    PROVE  Clamped(d) \in Nat \ {0}
BY CompiledAssumption DEF Clamped

LEMMA ScaledType ==
    ASSUME NEW d \in Nat, NEW p \in RatioType
    PROVE  Scaled(d, p) \in Int
<1>1. d * p[1] \in Int /\ p[2] \in Nat \ {0}
  BY DEF RatioType
<1>2. \A n \in Int, c \in Nat \ {0} : n \div c \in Int
  OBVIOUS
<1> QED BY <1>1, <1>2 DEF Scaled

\* The times of all runs since the last reset.
LEMMA RecordingsType == TypeOK => Recordings \in [Event -> Seq(Int)]
BY DEF TypeOK, Recordings, EventState

\* record_step keeps the types of what is recorded.
LEMMA RecordType ==
    ASSUME TypeOK, NEW t \in Nat, NEW s \in [Slot -> Level], Record(t, s)
    PROVE  /\ accepted' \in 0 .. (Stride - 1) /\ samples' \in Nat /\ offered' \in Nat
           /\ kept' \in [t : Nat, x : [Slot -> Level]]
<1>1. (accepted + 1) % Stride \in 0 .. (Stride - 1)
  BY CompiledAssumption DEF TypeOK
<1>2. CASE (accepted + 1) % Stride = 0 /\ samples < MaxSamples
  BY <1>1, <1>2 DEF Record, TypeOK
<1>3. CASE ~((accepted + 1) % Stride = 0 /\ samples < MaxSamples)
  BY <1>1, <1>3 DEF Record, TypeOK
<1> QED BY <1>2, <1>3

(* Theorem: the type invariant *)

LEMMA TypeInit == Init => TypeOK
<1> SUFFICES ASSUME Init PROVE TypeOK
  OBVIOUS
<1>1. ev \in [Event -> EventState]
  BY DEF Init, FreshEvent, EventState
<1>2. {past, base} \subseteq [Event -> Seq(Int)]
  BY DEF Init
<1>3. kept \in [t : Nat, x : [Slot -> Level]] /\ {x, buffered, scratch} \subseteq [Slot -> Level]
  BY CompiledAssumption DEF Init
<1>4. accepted \in 0 .. (Stride - 1) /\ runs \in 0 .. MaxRuns /\ iters \in 0 .. Limit
  BY CompiledAssumption DEF Init
<1> QED BY <1>1, <1>2, <1>3, <1>4, CompiledAssumption DEF Init, TypeOK

LEMMA TypeBegin ==
    ASSUME TypeOK, NEW d \in Durations, NEW a \in Modes, NEW r \in Resets, Begin(d, a, r)
    PROVE  TypeOK'
<1> DEFINE t == IF r THEN 0 ELSE time
           s == IF r THEN InitialLevel ELSE x
<1>1. t \in Nat /\ s \in [Slot -> Level] /\ d \in Nat /\ a \in BOOLEAN
  BY CompiledAssumption DEF TypeOK
<1>2. [e \in Event |-> FreshEvent] \in [Event -> EventState]
  BY DEF FreshEvent, EventState
<1>3. ev' \in [Event -> EventState]
  BY <1>1, <1>2, BufferedType DEF Begin
<1>4. past' \in [Event -> Seq(Int)]
  BY RecordingsType DEF Begin
<1>5. runs' \in 0 .. MaxRuns /\ iters' \in 0 .. Limit
  BY CompiledAssumption DEF Begin, TypeOK
<1>6. run' \in [start : Nat, end : Nat, adaptive : BOOLEAN]
  BY <1>1 DEF Begin
<1>7. /\ accepted' \in 0 .. (Stride - 1) /\ samples' \in Nat /\ offered' \in Nat
      /\ kept' \in [t : Nat, x : [Slot -> Level]]
  <2>1. CASE r
    BY <2>1, CompiledAssumption DEF Begin, TypeOK
  <2>2. CASE ~r
    BY <2>2 DEF Begin, TypeOK, recorder
  <2> QED BY <2>1, <2>2
<1>8. /\ pc' = "initial" /\ time' = t /\ dt' = Dt /\ x' = s /\ scratch' = s /\ todo' = Event
      /\ UNCHANGED <<buffered, base>>
  BY DEF Begin
<1> QED BY <1>1, <1>3, <1>4, <1>5, <1>6, <1>7, <1>8, CompiledAssumption DEF TypeOK

LEMMA TypeInitial ==
    ASSUME TypeOK, ResolveInitial \/ InitialDone
    PROVE  TypeOK'
<1>1. CASE ResolveInitial
  <2>1. PICK e \in Foremost(todo) :
            /\ IF Due(e, ev[e], Reading(e, scratch, time), time)
               THEN Resolve(e, time)
               ELSE /\ ev' = [ev EXCEPT ![e] = AfterDetect(e, @)]
                    /\ UNCHANGED scratch
            /\ todo' = todo \ {e}
    BY <1>1 DEF ResolveInitial
  <2>2. e \in Event /\ ev \in [Event -> EventState] /\ time \in Int
    BY DEF Foremost, TypeOK
  <2>3. AfterDetect(e, ev[e]) \in EventState
    BY <2>2, EventSteps
  <2>4. scratch' \in [Slot -> Level] /\ ev' \in [Event -> EventState]
    <3>1. CASE Due(e, ev[e], Reading(e, scratch, time), time)
      <4>1. Resolve(e, time)
        BY <2>1, <3>1
      <4> QED BY <2>2, <4>1, ResolveType
    <3>2. CASE ~Due(e, ev[e], Reading(e, scratch, time), time)
      <4>1. ev' = [ev EXCEPT ![e] = AfterDetect(e, ev[e])] /\ scratch' = scratch
        BY <2>1, <3>2
      <4> QED BY <2>2, <2>3, <4>1 DEF TypeOK
    <3> QED BY <3>1, <3>2
  <2> QED BY <1>1, <2>1, <2>4 DEF ResolveInitial, TypeOK, recorder
<1>2. CASE InitialDone
  BY <1>2 DEF InitialDone, TypeOK, recorder
<1> QED BY <1>1, <1>2

LEMMA TypeAttempt == ASSUME TypeOK, Attempt PROVE TypeOK'
<1>1. Refreshed \in [Slot -> Level]
  BY DEF Refreshed, TypeOK
<1>2. ev' \in [Event -> EventState]
  <2>1. ev' = BufferedAll(ev, Refreshed, time)
    BY DEF Attempt
  <2>2. ev \in [Event -> EventState] /\ time \in Int
    BY DEF TypeOK
  <2> QED BY <1>1, <2>1, <2>2, BufferedType
<1>3. dt' \in Nat \ {0}
  BY DEF Attempt, Continues, Ended, TypeOK
<1>4. iters' \in 0 .. Limit
  BY CompiledAssumption DEF Attempt, Continues, Counted, TypeOK
<1>5. base' \in [Event -> Seq(Int)]
  BY RecordingsType DEF Attempt
<1> QED BY <1>1, <1>2, <1>3, <1>4, <1>5 DEF Attempt, TypeOK, recorder

LEMMA TypeSolver ==
    ASSUME TypeOK, StepRejected \/ StepTaken
    PROVE  TypeOK'
<1>1. CASE StepRejected
  <2>1. <<1, 2>> \in RatioType
    BY DEF RatioType
  <2>2. Clamped(Scaled(dt, <<1, 2>>)) \in Nat \ {0}
    BY <2>1, ScaledType, ClampedPositive DEF TypeOK
  <2> QED BY <1>1, <2>2 DEF StepRejected, TypeOK, recorder
<1>2. CASE StepTaken
  <2>1. x' \in [Slot -> Level] /\ scratch' \in [Slot -> Level]
    BY <1>2 DEF StepTaken, TypeOK
  <2> QED BY <1>2, <2>1 DEF StepTaken, TypeOK, recorder
<1> QED BY <1>1, <1>2

\* What the end of the step has shown: due events at proper fractions of it.
LEMMA FoundType ==
    ASSUME TypeOK
    PROVE  /\ Detected \in [Event -> EventState]
           /\ \A e \in Found : RatioOf(e) \in RatioType
<1>1. \A e \in Event : AfterDetect(e, ev[e]) \in EventState
  <2> TAKE e \in Event
  <2>1. ev[e] \in EventState /\ time \in Int
    BY DEF TypeOK
  <2> QED BY <2>1, EventSteps
<1>2. ASSUME NEW e \in Found PROVE RatioOf(e) \in RatioType
  <2>1. /\ e \in Event /\ ev[e] \in EventState /\ scratch \in [Slot -> Level] /\ time + dt \in Int
        /\ Due(e, ev[e], Reading(e, scratch, time + dt), time + dt)
    BY <1>2 DEF Found, TypeOK
  <2>2. Reading(e, scratch, time + dt) \in Int
    BY <2>1, ReadingType
  <2> QED BY <2>1, <2>2, RatioIsRatio DEF RatioOf
<1> QED BY <1>1, <1>2 DEF Detected

LEMMA TypeDetect ==
    ASSUME TypeOK, Relocate \/ Located
    PROVE  TypeOK'
<1>1. ev' \in [Event -> EventState]
  BY FoundType DEF Relocate, Located
<1>2. CASE Relocate
  <2>1. PICK e \in Distant : dt' = LET d == Scaled(dt, RatioOf(e)) IN IF d < DtMin THEN DtMin ELSE d
    BY <1>2 DEF Relocate
  <2>2. Scaled(dt, RatioOf(e)) \in Int
    BY FoundType, ScaledType DEF Distant, TypeOK
  <2>3. dt' \in Nat \ {0}
    BY <2>1, <2>2, CompiledAssumption
  <2> QED BY <1>1, <1>2, <2>3 DEF Relocate, TypeOK, recorder
<1>3. CASE Located
  BY <1>1, <1>3 DEF Located, Found, TypeOK, recorder
<1> QED BY <1>2, <1>3

LEMMA TypeResolve == ASSUME TypeOK, ResolveEvent PROVE TypeOK'
<1>1. PICK e \in Foremost(todo) : Resolve(e, time + dt) /\ todo' = todo \ {e}
  BY DEF ResolveEvent
<1>2. e \in Event /\ ev \in [Event -> EventState] /\ time + dt \in Int
  BY DEF Foremost, TypeOK
<1>3. scratch' \in [Slot -> Level] /\ ev' \in [Event -> EventState]
  BY <1>1, <1>2, ResolveType
<1> QED BY <1>1, <1>3 DEF ResolveEvent, TypeOK, recorder

LEMMA TypeCommit == ASSUME TypeOK, Commit PROVE TypeOK'
<1>1. time + dt \in Nat /\ scratch \in [Slot -> Level] /\ Record(time + dt, scratch)
  BY DEF Commit, TypeOK
<1>2. dt' \in Nat \ {0}
  <2>1. \A p \in Scales : Clamped(Scaled(dt, p)) \in Nat \ {0}
    BY ScaledType, ClampedPositive, CompiledAssumption DEF TypeOK
  <2> QED BY <2>1, CompiledAssumption DEF Commit
<1> QED BY <1>1, <1>2, RecordType DEF Commit, Taken, TypeOK

LEMMA TypeRunEnd == ASSUME TypeOK, RunEnd PROVE TypeOK'
<1>1. /\ accepted' \in 0 .. (Stride - 1) /\ samples' \in Nat /\ offered' \in Nat
      /\ kept' \in [t : Nat, x : [Slot -> Level]]
  <2>1. CASE kept.t = time
    BY <2>1 DEF RunEnd, RecordFinal, TypeOK, recorder
  <2>2. CASE kept.t # time
    BY <2>2, CompiledAssumption DEF RunEnd, RecordFinal, TypeOK
  <2> QED BY <2>1, <2>2
<1> QED BY <1>1 DEF RunEnd, TypeOK

LEMMA TypeStep == TypeOK /\ [Next]_vars => TypeOK'
<1> SUFFICES ASSUME TypeOK, [Next]_vars PROVE TypeOK'
  OBVIOUS
<1>1. CASE UNCHANGED vars
  BY <1>1 DEF vars, recorder, TypeOK
<1>2. CASE Progress
  BY <1>2, TypeInitial, TypeAttempt, TypeSolver, TypeDetect, TypeResolve, TypeCommit,
     TypeRunEnd DEF Progress
<1>3. CASE \E d \in Durations, a \in Modes, r \in Resets : Begin(d, a, r)
  BY <1>3, TypeBegin
<1> QED BY <1>1, <1>2, <1>3 DEF Next

\* Every variable keeps its type over any number of runs; in particular no
\* factor, event or end of a run makes the step zero.
THEOREM TypeCorrect == Spec => []TypeOK
BY TypeInit, TypeStep, PTL DEF Spec

(* Theorem: the two copies of the state.  CommitInv is inductive relative   *)
(* to TypeOK: the buffer holds the state the attempt started from, so a     *)
(* relocation brings it back, and the memory in the scratch is touched by   *)
(* effects only (Undoable); that no adaptive step reaches beyond the end    *)
(* (WithinRun) makes the run land on it.                                    *)

LEMMA CommitInvInit == Init => CommitInv
BY DEF Init, CommitInv, WithinRun, Undoable, NothingAhead, GuardsReadCommittedState,
       SolverHasCommittedState, FinalStateRecorded, LandsOnEnd

LEMMA CommitInvBegin ==
    ASSUME TypeOK, CommitInv,
           NEW d \in Durations, NEW a \in Modes, NEW r \in Resets, Begin(d, a, r)
    PROVE  CommitInv'
<1>1. /\ pc' = "initial" /\ time' = run'.start /\ time' <= run'.end
      /\ time' = IF r THEN 0 ELSE time
  <2>1. d \in Nat /\ time \in Nat
    BY CompiledAssumption DEF TypeOK
  <2> QED BY <2>1 DEF Begin
<1>2. kept'.t <= time'
  <2>1. CASE r
    BY <2>1 DEF Begin
  <2>2. CASE ~r
    BY <2>2 DEF Begin, CommitInv, NothingAhead, recorder
  <2> QED BY <2>1, <2>2
<1> QED BY <1>1, <1>2 DEF CommitInv, WithinRun, Undoable, NothingAhead,
           GuardsReadCommittedState, SolverHasCommittedState, FinalStateRecorded, LandsOnEnd

LEMMA CommitInvInitial ==
    ASSUME TypeOK, CommitInv, ResolveInitial \/ InitialDone
    PROVE  CommitInv'
<1>1. /\ pc = "initial" /\ UNCHANGED <<time, dt, run, runs, iters, kept>>
      /\ pc' \in {"initial", "loop"}
      /\ pc' = "loop" => x' = scratch /\ scratch' = scratch
  BY DEF ResolveInitial, InitialDone, recorder
<1>2. \A m \in Memory : pc' = "loop" => x'[m] = scratch'[m]
  BY <1>1
<1>3. ~(time > run.start)
  BY <1>1 DEF CommitInv, NothingAhead, TypeOK
<1> QED BY <1>1, <1>2, <1>3 DEF CommitInv, WithinRun, Undoable, NothingAhead,
           GuardsReadCommittedState, SolverHasCommittedState, FinalStateRecorded, LandsOnEnd

\* The guards are buffered from the state that the solver buffers.
LEMMA CommitInvAttempt == ASSUME TypeOK, CommitInv, Attempt PROVE CommitInv'
<1>1. /\ pc = "loop" /\ pc' = "step" /\ Continues
      /\ dt' = Ended /\ scratch' = Refreshed /\ buffered' = x
      /\ ev' = BufferedAll(ev, Refreshed, time)
      /\ UNCHANGED <<time, run, runs, x, kept>>
  BY DEF Attempt, recorder
<1>2. Refreshed = x
  <2>1. \A m \in Memory : x[m] = scratch[m]
    BY <1>1 DEF CommitInv, SolverHasCommittedState
  <2>2. \A s \in Slot : Refreshed[s] = x[s]
    BY <2>1 DEF Refreshed, Slot
  <2>3. x = [s \in Slot |-> x[s]]
    BY DEF TypeOK
  <2>4. Refreshed = [s \in Slot |-> Refreshed[s]]
    BY DEF Refreshed
  <2> QED BY <2>2, <2>3, <2>4
<1>3. GuardsReadCommittedState'
  <2> SUFFICES ASSUME NEW e \in Event
               PROVE  /\ ev'[e].at = time
                      /\ ~Scheduled(e) => ev'[e].val = Reading(e, x, time)
    BY <1>1 DEF GuardsReadCommittedState
  <2>1. ev'[e] = Buffered(e, ev[e], Reading(e, x, time), time)
    BY <1>1, <1>2 DEF BufferedAll
  <2>2. ev[e] \in EventState
    BY DEF TypeOK
  <2> QED BY <2>1, <2>2 DEF Buffered, EventState
<1>4. WithinRun'
  <2>1. run.adaptive => time + Ended <= run.end
    BY <1>1 DEF Ended, Continues, TypeOK
  <2> QED BY <1>1, <2>1 DEF WithinRun
<1>5. Undoable'
  BY <1>1, <1>2 DEF Undoable, CommitInv, SolverHasCommittedState
<1> QED BY <1>1, <1>3, <1>4, <1>5 DEF CommitInv, NothingAhead, SolverHasCommittedState,
           FinalStateRecorded, LandsOnEnd

LEMMA CommitInvTaken == ASSUME TypeOK, CommitInv, StepTaken PROVE CommitInv'
<1>1. /\ pc = "step" /\ pc' = "detect"
      /\ scratch' = [s \in Slot |-> IF s \in State THEN x'[s] ELSE scratch[s]]
      /\ UNCHANGED <<time, dt, run, runs, buffered, ev, kept>>
  BY DEF StepTaken, recorder
<1>2. \A m \in Memory : scratch'[m] = scratch[m]
  BY <1>1, CompiledAssumption DEF Slot
<1>3. Undoable'
  BY <1>1, <1>2 DEF Undoable, CommitInv
<1>4. GuardsReadCommittedState'
  BY <1>1 DEF GuardsReadCommittedState, CommitInv
<1> QED BY <1>1, <1>3, <1>4 DEF CommitInv, WithinRun, NothingAhead, SolverHasCommittedState,
           FinalStateRecorded, LandsOnEnd

\* The two ways an attempt is taken back.
LEMMA CommitInvReject ==
    ASSUME TypeOK, CommitInv, StepRejected \/ Relocate
    PROVE  CommitInv'
<1>1. /\ pc \in {"step", "detect"} /\ pc' = "loop" /\ run.adaptive
      /\ UNCHANGED <<time, run, runs, scratch, kept>>
  BY DEF StepRejected, Relocate, recorder
<1>2. x' = buffered
  BY DEF StepRejected, Relocate, CommitInv, Undoable
<1>3. SolverHasCommittedState'
  BY <1>1, <1>2 DEF SolverHasCommittedState, CommitInv, Undoable
<1>4. WithinRun'
  <2>1. time <= run.end
    BY <1>1 DEF CommitInv, WithinRun, TypeOK
  <2> QED BY <1>1, <2>1 DEF WithinRun
<1> QED BY <1>1, <1>3, <1>4 DEF CommitInv, Undoable, NothingAhead, GuardsReadCommittedState,
           FinalStateRecorded, LandsOnEnd

LEMMA CommitInvResolve ==
    ASSUME TypeOK, CommitInv, Located \/ ResolveEvent
    PROVE  CommitInv'
<1>1. /\ pc \in {"detect", "resolve"} /\ pc' = "resolve"
      /\ UNCHANGED <<time, dt, run, runs, kept>>
  BY DEF Located, ResolveEvent, recorder
<1> QED BY <1>1 DEF CommitInv, WithinRun, Undoable, NothingAhead, GuardsReadCommittedState,
           SolverHasCommittedState, FinalStateRecorded, LandsOnEnd

LEMMA CommitInvCommit == ASSUME TypeOK, CommitInv, Commit PROVE CommitInv'
<1>1. /\ pc = "resolve" /\ pc' = "loop" /\ time' = time + dt
      /\ x' = scratch /\ Record(time + dt, scratch)
      /\ UNCHANGED <<run, runs, scratch>>
  BY DEF Commit, Taken
<1>2. time \in Nat /\ dt \in Nat \ {0} /\ kept.t \in Nat /\ kept.t <= time
  BY DEF TypeOK, CommitInv, NothingAhead
<1>3. /\ kept'.t <= time'
      /\ kept'.t = time' => kept'.x = x'
  <2>1. CASE kept' = [t |-> time + dt, x |-> scratch]
    BY <1>1, <1>2, <2>1
  <2>2. CASE kept' = kept
    BY <1>1, <1>2, <2>2
  <2> QED BY <1>1, <2>1, <2>2 DEF Record
<1>4. SolverHasCommittedState'
  BY <1>1, <1>3 DEF SolverHasCommittedState
<1>5. WithinRun'
  BY <1>1 DEF CommitInv, WithinRun
<1> QED BY <1>1, <1>3, <1>4, <1>5 DEF CommitInv, Undoable, NothingAhead,
           GuardsReadCommittedState, FinalStateRecorded, LandsOnEnd

LEMMA CommitInvRunEnd == ASSUME TypeOK, CommitInv, RunEnd PROVE CommitInv'
<1>1. /\ pc = "loop" /\ pc' = "idle" /\ ~Continues /\ RecordFinal
      /\ UNCHANGED <<time, run, runs, iters, x>>
  BY DEF RunEnd
<1>2. FinalStateRecorded' /\ kept'.t <= time
  <2>1. CASE kept.t = time
    <3>1. kept' = kept
      BY <1>1, <2>1 DEF RecordFinal, recorder
    <3>2. time > run.start => kept.x = x
      BY <1>1, <2>1 DEF CommitInv, SolverHasCommittedState
    <3>3. kept = [t |-> kept.t, x |-> kept.x]
      BY DEF TypeOK
    <3> QED BY <1>1, <2>1, <3>1, <3>2, <3>3 DEF FinalStateRecorded, TypeOK
  <2>2. CASE kept.t # time
    BY <1>1, <2>2 DEF RecordFinal, FinalStateRecorded, TypeOK
  <2> QED BY <2>1, <2>2
<1>3. LandsOnEnd'
  <2>1. run.adaptive => time <= run.end
    BY <1>1 DEF CommitInv, WithinRun
  <2>2. time >= run.end \/ iters = Limit
    BY <1>1, CompiledAssumption DEF Continues, TypeOK
  <2> QED BY <1>1, <2>1, <2>2 DEF LandsOnEnd, TypeOK
<1> QED BY <1>1, <1>2, <1>3 DEF CommitInv, WithinRun, Undoable, NothingAhead,
           GuardsReadCommittedState, SolverHasCommittedState

LEMMA CommitInvStep == TypeOK /\ CommitInv /\ [Next]_vars => CommitInv'
<1> SUFFICES ASSUME TypeOK, CommitInv, [Next]_vars PROVE CommitInv'
  OBVIOUS
<1>1. CASE UNCHANGED vars
  BY <1>1 DEF vars, recorder, CommitInv, WithinRun, Undoable, NothingAhead,
              GuardsReadCommittedState, SolverHasCommittedState, FinalStateRecorded, LandsOnEnd
<1>2. CASE Progress
  BY <1>2, CommitInvInitial, CommitInvAttempt, CommitInvTaken, CommitInvReject,
     CommitInvResolve, CommitInvCommit, CommitInvRunEnd DEF Progress
<1>3. CASE \E d \in Durations, a \in Modes, r \in Resets : Begin(d, a, r)
  BY <1>3, CommitInvBegin
<1> QED BY <1>1, <1>2, <1>3 DEF Next

\* The inductive invariant holds in every reachable state.
THEOREM CommitInvariant == Spec => [](TypeOK /\ CommitInv)
<1>1. Init => TypeOK /\ CommitInv
  BY TypeInit, CommitInvInit
<1>2. TypeOK /\ CommitInv /\ [Next]_vars => (TypeOK /\ CommitInv)'
  BY TypeStep, CommitInvStep
<1> QED BY <1>1, <1>2, PTL DEF Spec

\* Crossings are measured from the state the solver would revert to, in every
\* attempt, although the scratch survives the attempt before.
THEOREM GuardsCommitted == Spec => []GuardsReadCommittedState
<1>1. CommitInv => GuardsReadCommittedState
  BY DEF CommitInv
<1> QED BY <1>1, CommitInvariant, PTL

\* Between two steps the solver and the effects agree on state and memory.
THEOREM SolverCommitted == Spec => []SolverHasCommittedState
<1>1. CommitInv => SolverHasCommittedState
  BY DEF CommitInv
<1> QED BY <1>1, CommitInvariant, PTL

\* The final state of every run is recorded, whatever stride and cap.
THEOREM FinalRecorded == Spec => []FinalStateRecorded
<1>1. CommitInv => FinalStateRecorded
  BY DEF CommitInv
<1> QED BY <1>1, CommitInvariant, PTL

\* An adaptive run ends on its end or by the guard on the iterations.
THEOREM EndsOnTime == Spec => []LandsOnEnd
<1>1. CommitInv => LandsOnEnd
  BY DEF CommitInv
<1> QED BY <1>1, CommitInvariant, PTL

-----------------------------------------------------------------------------
(* Theorem: the compiled loop implements HybridRun, as long as every run     *)
(* starts over.  A continued run rebuilds its events and counts their ticks  *)
(* from the start again, so its times go back (runtime.rs, build_sim_events).*)

\* The end of the step under way once its events are being resolved.
Horizon == IF pc = "resolve" THEN time + dt ELSE time

\* No event remembers an earlier run.
OneRun == past = [e \in Event |-> <<>>]

\* Recorded times ascend up to the end of the step, and the next tick of a
\* schedule is not before them.
InOrder ==
    \A e \in Event :
        /\ Ordered(ev[e].times) /\ Before(ev[e].times, Horizon)
        /\ Scheduled(e) => Before(ev[e].times, NextTick(e, ev[e]))

\* An event still to be resolved has no time of this step yet, and will get
\* one within it.
Waiting ==
    pc \in {"initial", "resolve"} =>
        \A e \in todo :
            /\ Before(ev[e].times, time)
            /\ pc = "resolve" /\ Scheduled(e) => NextTick(e, ev[e]) <= Horizon

\* One time more than before the step, where HybridRun allows it.
OneMore(e, before, after) ==
    \E t \in 0 .. Horizon :
        /\ ~Scheduled(e) => t >= time
        /\ before # <<>> => t >= before[Len(before)]
        /\ after = Append(before, t)

\* What a step under way has recorded is what a single step may record.
AtomicSoFar ==
    /\ pc \in {"step", "detect"} => \A e \in Event : base[e] = ev[e].times
    /\ pc = "resolve" =>
        \A e \in Event :
            /\ ev[e].times = base[e] \/ OneMore(e, base[e], ev[e].times)
            /\ e \in todo => ev[e].times = base[e]

\* What is inductive, relative to TypeOK.
ContractInv == OneRun /\ InOrder /\ Waiting /\ AtomicSoFar

\* Without an earlier run the recordings are the times of the events.
LEMMA RecordingsOfRun ==
    ASSUME NEW p, NEW evs \in [Event -> EventState], p = [e \in Event |-> <<>>]
    PROVE  [e \in Event |-> p[e] \o evs[e].times] = [e \in Event |-> evs[e].times]
<1>1. \A s \in Seq(Int) : <<>> \o s = s
  OBVIOUS
<1>2. \A e \in Event : p[e] \o evs[e].times = evs[e].times
  BY <1>1 DEF EventState
<1> QED BY <1>2

\* A resolution records one time, of its own event.
LEMMA ResolveTimes ==
    ASSUME TypeOK, NEW e \in Event, NEW t \in Int, Resolve(e, t)
    PROVE  /\ ev'[e].times = Recorded(e, ev[e], t).times
           /\ \A f \in Event \ {e} : ev'[f] = ev[f]
<1>1. ev \in [Event -> EventState] /\ Recorded(e, ev[e], t) \in EventState
  BY EventSteps DEF TypeOK
<1>2. ev'[e] = Disarmed(e, Recorded(e, ev[e], t)) /\ \A f \in Event \ {e} : ev'[f] = ev[f]
  BY <1>1 DEF Resolve
<1>3. Disarmed(e, Recorded(e, ev[e], t)).times = Recorded(e, ev[e], t).times
  BY <1>1 DEF Disarmed, EventState
<1> QED BY <1>2, <1>3

\* Detection and buffering record nothing.
LEMMA QuietTimes ==
    ASSUME TypeOK, NEW e \in Event, NEW o, NEW t
    PROVE  /\ AfterDetect(e, ev[e]).times = ev[e].times
           /\ Buffered(e, ev[e], o, t).times = ev[e].times
<1>1. ev[e] \in EventState
  BY DEF TypeOK
<1> QED BY <1>1 DEF AfterDetect, Buffered, EventState

\* What recording v does to the times of an event: v is the next tick of a
\* schedule, and lies within the step.
LEMMA RecordInOrder ==
    ASSUME TypeOK, InOrder, Waiting, pc \in {"initial", "resolve"}, NEW e \in todo,
           Resolve(e, Horizon),
           Scheduled(e) => NextTick(e, ev[e]) <= Horizon
    PROVE  /\ Ordered(ev'[e].times) /\ Before(ev'[e].times, Horizon)
           /\ Scheduled(e) => Before(ev'[e].times, NextTick(e, ev'[e]))
           /\ OneMore(e, ev[e].times, ev'[e].times)
<1> DEFINE v == IF Scheduled(e) THEN NextTick(e, ev[e]) ELSE Horizon
           l == ev[e].times
<1>1. /\ e \in Event /\ ev[e] \in EventState /\ l \in Seq(Int)
      /\ Horizon \in Nat /\ Horizon \in Int /\ time \in Nat /\ time <= Horizon
  BY DEF TypeOK, Horizon, EventState
<1>2. ev'[e].times = Append(l, v) /\ ev'[e].times = Recorded(e, ev[e], Horizon).times
  <2>1. ev'[e].times = Recorded(e, ev[e], Horizon).times
    BY <1>1, ResolveTimes
  <2> QED BY <1>1, <2>1 DEF Recorded, EventState
<1>3. v \in Nat /\ v <= Horizon /\ Before(l, v) /\ (~Scheduled(e) => v >= time)
  <2>1. CASE Scheduled(e)
    <3>1. NextTick(e, ev[e]) \in Nat
      BY <1>1, <2>1, NextTickType
    <3> QED BY <1>1, <2>1, <3>1 DEF InOrder
  <2>2. CASE ~Scheduled(e)
    <3>1. Before(l, Horizon) /\ v = Horizon
      BY <1>1, <2>2 DEF InOrder
    <3> HIDE DEF v
    <3> QED BY <1>1, <2>2, <3>1
  <2> QED BY <2>1, <2>2
<1>4. Ordered(l)
  BY <1>1 DEF InOrder
<1>5. Scheduled(e) => v <= NextTick(e, ev'[e]) /\ NextTick(e, ev'[e]) \in Int
  <2> SUFFICES ASSUME Scheduled(e) PROVE v <= NextTick(e, ev'[e]) /\ NextTick(e, ev'[e]) \in Int
    OBVIOUS
  <2>1. NextTick(e, ev'[e]) = NextTick(e, Recorded(e, ev[e], Horizon))
    BY <1>2, NextTickOf
  <2>2. Recorded(e, ev[e], Horizon) \in EventState
    BY <1>1, EventSteps
  <2>3. NextTick(e, ev[e]) <= NextTick(e, Recorded(e, ev[e], Horizon))
    BY <1>1, TicksAscend
  <2>4. NextTick(e, Recorded(e, ev[e], Horizon)) \in Nat
    BY <1>1, <2>2, NextTickType
  <2> QED BY <2>1, <2>3, <2>4
<1> HIDE DEF v, l
<1>6. Ordered(Append(l, v)) /\ Before(Append(l, v), Horizon)
  BY <1>1, <1>3, <1>4, AppendOrdered
<1>7. Scheduled(e) => Before(Append(l, v), NextTick(e, ev'[e]))
  BY <1>1, <1>3, <1>4, <1>5, AppendOrdered
<1>8. l # <<>> => v >= l[Len(l)]
  <2> SUFFICES ASSUME l # <<>> PROVE v >= l[Len(l)]
    OBVIOUS
  <2>1. Len(l) \in DOMAIN l /\ l[Len(l)] \in Int
    BY <1>1
  <2> QED BY <1>3, <2>1 DEF Before
<1>9. OneMore(e, l, Append(l, v))
  BY <1>1, <1>3, <1>8 DEF OneMore
<1> QED BY <1>2, <1>6, <1>7, <1>9 DEF l

LEMMA ContractInvInit == Init => ContractInv
<1> SUFFICES ASSUME Init PROVE ContractInv
  OBVIOUS
<1>1. pc = "idle" /\ ev = [e \in Event |-> FreshEvent] /\ past = [e \in Event |-> <<>>]
  BY DEF Init
<1>2. \A e \in Event : ev[e].times = <<>>
  BY <1>1 DEF FreshEvent
<1> QED BY <1>1, <1>2 DEF ContractInv, OneRun, InOrder, Waiting, AtomicSoFar, Ordered, Before

\* A run that starts over forgets all times.
LEMMA ContractInvBegin ==
    ASSUME TypeOK, NEW d \in Durations, NEW a \in Modes, Begin(d, a, TRUE)
    PROVE  ContractInv' /\ \A e \in Event : ev'[e].times = <<>>
<1>1. /\ pc' = "initial" /\ past' = [e \in Event |-> <<>>] /\ todo' = Event
      /\ ev' = BufferedAll([e \in Event |-> FreshEvent], InitialLevel, 0)
  BY DEF Begin
<1>2. \A e \in Event : ev'[e].times = <<>>
  BY <1>1 DEF BufferedAll, Buffered, FreshEvent
<1> QED BY <1>1, <1>2 DEF ContractInv, OneRun, InOrder, Waiting, AtomicSoFar, Ordered, Before

\* The resolution of one event, at the start of a run or at the end of a step.
LEMMA ContractInvResolve ==
    ASSUME TypeOK, ContractInv, pc \in {"initial", "resolve"}, NEW e \in todo,
           Resolve(e, Horizon), todo' = todo \ {e}, UNCHANGED <<pc, time, dt, past, base>>,
           Scheduled(e) => NextTick(e, ev[e]) <= Horizon
    PROVE  ContractInv' /\ OneMore(e, ev[e].times, ev'[e].times)
<1>1. e \in Event /\ Horizon \in Int /\ Horizon' = Horizon
  BY DEF TypeOK, Horizon
<1>2. \A f \in Event \ {e} : ev'[f] = ev[f]
  BY <1>1, ResolveTimes
<1>3. /\ Ordered(ev'[e].times) /\ Before(ev'[e].times, Horizon)
      /\ Scheduled(e) => Before(ev'[e].times, NextTick(e, ev'[e]))
      /\ OneMore(e, ev[e].times, ev'[e].times)
  BY RecordInOrder DEF ContractInv
<1>4. InOrder'
  <2> SUFFICES ASSUME NEW f \in Event
               PROVE  /\ Ordered(ev'[f].times) /\ Before(ev'[f].times, Horizon)
                      /\ Scheduled(f) => Before(ev'[f].times, NextTick(f, ev'[f]))
    BY <1>1 DEF InOrder
  <2>1. CASE f = e
    BY <1>3, <2>1
  <2>2. CASE f # e
    BY <1>2, <2>2 DEF ContractInv, InOrder
  <2> QED BY <2>1, <2>2
<1>5. Waiting'
  <2> SUFFICES ASSUME NEW f \in todo'
               PROVE  /\ Before(ev'[f].times, time)
                      /\ pc = "resolve" /\ Scheduled(f) => NextTick(f, ev'[f]) <= Horizon
    BY <1>1 DEF Waiting
  <2>1. f \in todo /\ ev'[f] = ev[f]
    BY <1>2 DEF TypeOK
  <2> QED BY <2>1 DEF ContractInv, Waiting
<1>6. AtomicSoFar'
  <2> SUFFICES ASSUME pc = "resolve", NEW f \in Event
               PROVE  /\ ev'[f].times = base[f] \/ OneMore(f, base[f], ev'[f].times)
                      /\ f \in todo' => ev'[f].times = base[f]
    BY <1>1 DEF AtomicSoFar, OneMore
  <2>1. CASE f = e
    <3>1. ev[e].times = base[e]
      BY <1>1 DEF ContractInv, AtomicSoFar
    <3> QED BY <1>3, <2>1, <3>1
  <2>2. CASE f # e
    BY <1>2, <2>2 DEF ContractInv, AtomicSoFar
  <2> QED BY <2>1, <2>2
<1>7. OneRun'
  BY DEF ContractInv, OneRun
<1> QED BY <1>3, <1>4, <1>5, <1>6, <1>7 DEF ContractInv

\* Whatever neither moves the clock nor records a time keeps it.
LEMMA ContractInvQuiet ==
    ASSUME TypeOK, ContractInv, \A e \in Event : ev'[e].times = ev[e].times,
           UNCHANGED <<time, past>>, pc # "resolve", pc' # "resolve", pc' # "initial",
           pc' \in {"step", "detect"} => \A e \in Event : base'[e] = ev[e].times
    PROVE  ContractInv'
<1>1. Horizon' = Horizon
  BY DEF Horizon
<1>2. \A e \in Event : NextTick(e, ev'[e]) = NextTick(e, ev[e])
  BY NextTickOf
<1>3. InOrder'
  <2> SUFFICES ASSUME NEW f \in Event
               PROVE  /\ Ordered(ev'[f].times) /\ Before(ev'[f].times, Horizon)
                      /\ Scheduled(f) => Before(ev'[f].times, NextTick(f, ev'[f]))
    BY <1>1 DEF InOrder
  <2> QED BY <1>2 DEF ContractInv, InOrder
<1> QED BY <1>3 DEF ContractInv, OneRun, Waiting, AtomicSoFar

\* Every step of the compiled loop is a step of HybridRun, or invisible in it.
LEMMA ContractInvStep ==
    ASSUME Resets \subseteq {TRUE}, TypeOK, ContractInv, [Next]_vars
    PROVE  ContractInv' /\ [Contract!Next]_(Contract!runVars)
<1> DEFINE T == [e \in Event |-> ev[e].times]
<1>1. Recordings = T /\ ev \in [Event -> EventState]
  BY RecordingsOfRun DEF Recordings, TypeOK, ContractInv, OneRun
<1>2. ContractInv' => Recordings' = [e \in Event |-> ev'[e].times]
  <2>1. ev' \in [Event -> EventState]
    BY TypeStep DEF TypeOK
  <2> QED BY <2>1, RecordingsOfRun DEF Recordings, ContractInv, OneRun
<1>3. CASE UNCHANGED vars
  <2>1. ContractInv'
    BY <1>3 DEF vars, ContractInv, OneRun, InOrder, Waiting, AtomicSoFar, OneMore, Horizon
  <2>2. UNCHANGED Contract!runVars
    BY <1>3 DEF vars, recorder, Contract!runVars, Shown, Recordings
  <2> QED BY <2>1, <2>2
<1>4. ASSUME NEW d \in Durations, NEW a \in Modes, NEW r \in Resets, Begin(d, a, r)
      PROVE  ContractInv' /\ [Contract!Next]_(Contract!runVars)
  <2>1. Begin(d, a, TRUE) /\ ContractInv' /\ \A e \in Event : ev'[e].times = <<>>
    BY <1>4, ContractInvBegin
  <2>2. pc' = "initial" /\ time' = 0 /\ offered' = offered
    BY <2>1 DEF Begin
  <2>3. Shown' = [e \in Event |-> <<>>]
    BY <1>2, <2>1, <2>2 DEF Shown
  <2>4. Contract!StartOver
    BY <2>2, <2>3 DEF Contract!StartOver
  <2> QED BY <2>1, <2>4 DEF Contract!Next
<1>5. CASE ResolveInitial
  <2>1. PICK e \in Foremost(todo) :
            /\ IF Due(e, ev[e], Reading(e, scratch, time), time)
               THEN Resolve(e, time)
               ELSE /\ ev' = [ev EXCEPT ![e] = AfterDetect(e, @)]
                    /\ UNCHANGED scratch
            /\ todo' = todo \ {e}
    BY <1>5 DEF ResolveInitial
  <2>2. /\ pc = "initial" /\ UNCHANGED <<pc, time, dt, past, base, offered>>
        /\ e \in todo /\ e \in Event /\ time \in Int /\ Horizon = time
    BY <1>5 DEF ResolveInitial, recorder, Foremost, TypeOK, Horizon
  <2>3. Shown = T /\ (ContractInv' => Shown' = [f \in Event |-> ev'[f].times])
    BY <1>1, <1>2, <2>2 DEF Shown
  <2>4. CASE Due(e, ev[e], Reading(e, scratch, time), time)
    <3>1. Resolve(e, time) /\ (Scheduled(e) => NextTick(e, ev[e]) <= time)
      BY <2>1, <2>4, DueTick
    <3>2. ContractInv' /\ OneMore(e, ev[e].times, ev'[e].times)
      BY <2>1, <2>2, <3>1, ContractInvResolve
    <3>3. \A f \in Event \ {e} : ev'[f] = ev[f]
      BY <2>2, <3>1, ResolveTimes
    <3>4. Contract!Fires(e, time, time)
      BY <2>2, <2>3, <3>2 DEF OneMore, Contract!Fires, Contract!LastOf
    <3>5. Contract!FireAtStart
      BY <2>2, <2>3, <3>2, <3>3, <3>4 DEF Contract!FireAtStart
    <3> QED BY <3>2, <3>5 DEF Contract!Next
  <2>5. CASE ~Due(e, ev[e], Reading(e, scratch, time), time)
    <3>1. ev' = [ev EXCEPT ![e] = AfterDetect(e, ev[e])] /\ todo' \subseteq todo
      BY <2>1, <2>5
    <3>2. \A f \in Event : ev'[f].times = ev[f].times
      BY <1>1, <2>2, <3>1, QuietTimes
    <3>3. \A f \in Event : NextTick(f, ev'[f]) = NextTick(f, ev[f])
      BY <3>2, NextTickOf
    <3>4. ContractInv'
      <4>1. Horizon' = Horizon
        BY <2>2 DEF Horizon
      <4>2. InOrder'
        BY <3>2, <3>3, <4>1 DEF ContractInv, InOrder
      <4>3. Waiting'
        BY <2>2, <3>1, <3>2 DEF ContractInv, Waiting
      <4> QED BY <2>2, <4>2, <4>3 DEF ContractInv, OneRun, AtomicSoFar
    <3>5. Shown' = Shown
      BY <2>3, <3>2, <3>4
    <3> QED BY <2>2, <3>4, <3>5 DEF Contract!runVars
  <2> QED BY <2>4, <2>5
<1>6. CASE Located
  <2>1. /\ pc = "detect" /\ pc' = "resolve" /\ todo' = Found /\ ev' = Detected
        /\ UNCHANGED <<time, dt, scratch, past, base, offered>>
    BY <1>6 DEF Located, recorder
  <2>2. \A e \in Event : ev'[e].times = ev[e].times
    BY <2>1, QuietTimes DEF Detected
  <2>3. \A e \in Event : NextTick(e, ev'[e]) = NextTick(e, ev[e])
    BY <2>2, NextTickOf
  <2>4. Horizon = time /\ Horizon' = time + dt /\ time \in Nat /\ dt \in Nat
    BY <2>1 DEF Horizon, TypeOK
  <2>5. ASSUME NEW e \in Event
        PROVE  Before(ev[e].times, time) /\ Before(ev[e].times, time + dt)
    <3>1. Before(ev[e].times, time)
      BY <2>4 DEF ContractInv, InOrder
    <3>2. \A i \in DOMAIN ev[e].times : ev[e].times[i] \in Int
      BY <1>1 DEF EventState
    <3> QED BY <2>4, <3>1, <3>2 DEF Before
  <2>6. InOrder'
    <3> SUFFICES ASSUME NEW e \in Event
                 PROVE  /\ Ordered(ev'[e].times) /\ Before(ev'[e].times, Horizon')
                        /\ Scheduled(e) => Before(ev'[e].times, NextTick(e, ev'[e]))
      BY DEF InOrder
    <3> QED BY <2>2, <2>3, <2>4, <2>5 DEF ContractInv, InOrder
  <2>7. \A e \in Found : e \in Event /\ (Scheduled(e) => NextTick(e, ev[e]) <= time + dt)
    BY DueTick DEF Found
  <2>8. Waiting'
    BY <2>1, <2>2, <2>3, <2>4, <2>5, <2>7 DEF Waiting
  <2>9. AtomicSoFar'
    BY <2>1, <2>2 DEF ContractInv, AtomicSoFar
  <2>10. base = T
    <3>1. base = [e \in Event |-> base[e]]
      BY DEF TypeOK
    <3> QED BY <2>1, <3>1 DEF ContractInv, AtomicSoFar
  <2>11. Shown' = Shown
    BY <1>1, <2>1, <2>10 DEF Shown
  <2> QED BY <2>1, <2>6, <2>8, <2>9, <2>11 DEF ContractInv, OneRun, Contract!runVars
<1>7. CASE ResolveEvent
  <2>1. PICK e \in Foremost(todo) : Resolve(e, time + dt) /\ todo' = todo \ {e}
    BY <1>7 DEF ResolveEvent
  <2>2. /\ pc = "resolve" /\ UNCHANGED <<pc, time, dt, past, base, offered>>
        /\ e \in todo /\ e \in Event /\ Horizon = time + dt
    BY <1>7 DEF ResolveEvent, recorder, Foremost, TypeOK, Horizon
  <2>3. Scheduled(e) => NextTick(e, ev[e]) <= Horizon
    BY <2>2 DEF ContractInv, Waiting
  <2>4. ContractInv'
    BY <2>1, <2>2, <2>3, ContractInvResolve
  <2>5. Shown' = Shown
    BY <2>2 DEF Shown
  <2> QED BY <2>2, <2>4, <2>5 DEF Contract!runVars
<1>8. CASE Commit
  <2>1. /\ pc = "resolve" /\ pc' = "loop" /\ todo = {} /\ time' = time + dt /\ offered' = time + dt
        /\ UNCHANGED <<ev, past, base, todo>>
    BY <1>8 DEF Commit, Record
  <2>2. Horizon = time + dt /\ Horizon' = time' /\ time' > time
    BY <2>1 DEF Horizon, TypeOK
  <2>3. InOrder'
    BY <2>1, <2>2 DEF ContractInv, InOrder
  <2>4. ContractInv'
    BY <2>1, <2>3 DEF ContractInv, OneRun, Waiting, AtomicSoFar
  <2>5. Shown = base /\ Shown' = T
    BY <1>2, <2>1, <2>4 DEF Shown
  <2>6. ASSUME NEW e \in Event PROVE Shown'[e] = Shown[e] \/ Contract!Fires(e, time, time')
    <3>1. ev[e].times = base[e] \/ OneMore(e, base[e], ev[e].times)
      BY <2>1 DEF ContractInv, AtomicSoFar
    <3>2. Shown'[e] = ev[e].times
      BY <2>5
    <3>3. CASE OneMore(e, base[e], ev[e].times)
      BY <2>1, <2>2, <2>5, <3>2, <3>3 DEF OneMore, Contract!Fires, Contract!LastOf
    <3> QED BY <2>5, <3>1, <3>2, <3>3
  <2>7. DOMAIN Shown' = Event
    BY <2>5
  <2>8. Contract!Step
    BY <2>1, <2>2, <2>6, <2>7 DEF Contract!Step
  <2> QED BY <2>4, <2>8 DEF Contract!Next
<1>9. CASE InitialDone \/ Attempt \/ StepRejected \/ StepTaken \/ Relocate \/ RunEnd
  <2>1. /\ UNCHANGED <<time, past, offered>> /\ pc # "resolve" /\ pc' \notin {"resolve", "initial"}
    BY <1>9 DEF InitialDone, Attempt, StepRejected, StepTaken, Relocate, RunEnd, RecordFinal, recorder
  <2>2. \A e \in Event : ev'[e].times = ev[e].times
    <3>1. CASE Attempt
      BY <3>1, QuietTimes DEF Attempt, BufferedAll
    <3>2. CASE Relocate
      BY <3>2, QuietTimes DEF Relocate, Detected
    <3>3. CASE InitialDone \/ StepRejected \/ StepTaken \/ RunEnd
      BY <3>3 DEF InitialDone, StepRejected, StepTaken, RunEnd
    <3> QED BY <1>9, <3>1, <3>2, <3>3
  <2>3. pc' \in {"step", "detect"} => \A e \in Event : base'[e] = ev[e].times
    <3>1. CASE Attempt
      BY <1>1, <3>1 DEF Attempt
    <3>2. CASE StepTaken
      BY <3>2 DEF StepTaken, ContractInv, AtomicSoFar
    <3>3. CASE InitialDone \/ StepRejected \/ Relocate \/ RunEnd
      BY <3>3 DEF InitialDone, StepRejected, Relocate, RunEnd
    <3> QED BY <1>9, <3>1, <3>2, <3>3
  <2>4. ContractInv'
    BY <2>1, <2>2, <2>3, ContractInvQuiet
  <2>5. Shown = T /\ Shown' = T
    BY <1>1, <1>2, <2>1, <2>2, <2>4 DEF Shown
  <2> QED BY <2>1, <2>4, <2>5 DEF Contract!runVars
<1> QED BY <1>3, <1>4, <1>5, <1>6, <1>7, <1>8, <1>9 DEF Next, Progress

\* The compiled loop keeps the contract of the interpreted one: attempts,
\* relocations and one-by-one resolutions are invisible, and each step records
\* at most one time per event, in order and within the step.
THEOREM CompiledRunAtomic ==
    ASSUME Resets \subseteq {TRUE}
    PROVE  Spec => ImplementsHybridRun
<1>1. Init => TypeOK /\ ContractInv /\ Contract!Init
  <2>1. Init => Shown = [e \in Event |-> <<>>]
    <3>1. [e \in Event |-> FreshEvent] \in [Event -> EventState]
      BY DEF FreshEvent, EventState
    <3> QED BY <3>1, RecordingsOfRun DEF Init, Shown, Recordings, FreshEvent
  <2> QED BY <2>1, TypeInit, ContractInvInit DEF Init, Contract!Init
<1>2. TypeOK /\ ContractInv /\ [Next]_vars
        => (TypeOK /\ ContractInv)' /\ [Contract!Next]_(Contract!runVars)
  BY TypeStep, ContractInvStep
<1> QED BY <1>1, <1>2, PTL DEF Spec, ImplementsHybridRun, Contract!Spec

=============================================================================
