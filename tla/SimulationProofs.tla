-------------------------- MODULE SimulationProofs --------------------------
(***************************************************************************)
(* What a run of Simulation guarantees, for every system of events and     *)
(* blocks, every step size and every number of runs.  The transaction of a *)
(* step; the choice of the step size; the recorded times of the events;    *)
(* the run loop as an implementation of HybridRun.                         *)
(***************************************************************************)
EXTENDS Simulation, EventsProofs

(* Lemmas about the events *)

\* A guard is an integer whenever the outputs it may read are.
LEMMA ReadingType ==
    ASSUME NEW e \in Event, NEW o \in [Block -> Int], NEW t \in Int
    PROVE  Reading(e, o, t) \in Int
BY EventAssumption, SourceAssumption DEF Reading

\* A fraction of a step is a number of grid units.
LEMMA ScaledType ==
    ASSUME NEW d \in Nat, NEW p \in RatioType
    PROVE  Scaled(d, p) \in Nat
<1>1. p[1] \in Nat /\ p[2] \in Nat \ {0}
  BY DEF RatioType
<1>2. d * p[1] \in Nat
  BY <1>1
<1>3. \A n \in Nat, c \in Nat \ {0} : n \div c \in Nat
  OBVIOUS
<1> QED BY <1>1, <1>2, <1>3 DEF Scaled

(* Lemmas about the run loop *)

\* Evaluating the blocks gives every block an output on the grid.
LEMMA OutputsType ==
    ASSUME NEW s \in [Block -> Level], NEW a \in [Block -> BOOLEAN]
    PROVE  Outputs(s, a) \in [Block -> Level]
BY StepAssumption DEF Outputs

LEMMA LevelsAreInts ==
    ASSUME NEW s \in [Block -> Level]
    PROVE  s \in [Block -> Int]
BY StepAssumption

\* Detection over any outputs and any instant yields proper entries for the
\* scratch and leaves event states.
LEMMA DetectionType ==
    ASSUME NEW es \in [Event -> EventState], NEW o \in [Block -> Int], NEW t \in Int
    PROVE  /\ DetectedAll(es) \in [Event -> EventState]
           /\ Times(DetectedAll(es)) = Times(es)
           /\ \A e \in Detected(es, o, t) : RatioOf(e, es, o, t) \in RatioType
<1>1. ASSUME NEW e \in Event
      PROVE  AfterDetect(e, es[e]) \in EventState /\ AfterDetect(e, es[e]).times = es[e].times
  BY <1>1, EventSteps
<1>2. DetectedAll(es) \in [Event -> EventState] /\ Times(DetectedAll(es)) = Times(es)
  BY <1>1 DEF DetectedAll, Times
<1>3. ASSUME NEW e \in Detected(es, o, t)
      PROVE  RatioOf(e, es, o, t) \in RatioType
  <2>1. e \in Event /\ es[e] \in EventState /\ Due(e, es[e], Reading(e, o, t), t)
    BY <1>3 DEF Detected
  <2>2. Reading(e, o, t) \in Int
    BY <2>1, ReadingType
  <2> QED BY <2>1, <2>2, RatioIsRatio DEF RatioOf
<1> QED BY <1>2, <1>3

\* Whatever a callback does, it leaves states, flags and events of their types,
\* and recorded times alone.
LEMMA CallbackType ==
    ASSUME TypeOK, NEW es \in [Event -> EventState], NEW c \in Callback(es)
    PROVE  /\ c.x \in [Block -> Level]
           /\ c.on \in [Block -> BOOLEAN]
           /\ c.ev \in [Event -> EventState]
           /\ c.stop \in BOOLEAN
<1>1. \A b \in Block : SwitchedOff(es, b) \in [Event -> EventState]
  BY DEF SwitchedOff, EventState
<1>2. \A f \in Event, a \in BOOLEAN : [es EXCEPT ![f].active = a] \in [Event -> EventState]
  BY DEF EventState
<1>3. x \in [Block -> Level] /\ on \in [Block -> BOOLEAN] /\ stop \in BOOLEAN
  BY DEF TypeOK
<1>4. CASE c = Idle(es)
  BY <1>3, <1>4 DEF Idle
<1>5. CASE c \in SetsState(es)
  BY <1>3, <1>5 DEF SetsState, Idle, May
<1>6. CASE c \in SwitchesEvent(es)
  <2>1. PICK f \in Event, a \in BOOLEAN :
               c = [Idle(es) EXCEPT !.ev = [es EXCEPT ![f].active = a]]
    BY <1>6 DEF SwitchesEvent, May
  <2>2. /\ c.x = x /\ c.on = on /\ c.stop = stop
        /\ c.ev = [es EXCEPT ![f].active = a]
    BY <2>1 DEF Idle
  <2> QED BY <1>2, <1>3, <2>2
<1>7. CASE c \in SwitchesBlock(es)
  <2>1. PICK b \in Block, a \in BOOLEAN : c = Switched(es, b, a)
    BY <1>7 DEF SwitchesBlock, May
  <2>2. /\ c.x = x /\ c.on = [on EXCEPT ![b] = a] /\ c.stop = stop
        /\ c.ev = IF a THEN es ELSE SwitchedOff(es, b)
    BY <2>1 DEF Switched
  <2> QED BY <1>1, <1>3, <2>2
<1>8. CASE c \in StopsRun(es)
  BY <1>3, <1>8 DEF StopsRun, Idle, May
<1> QED BY <1>4, <1>5, <1>6, <1>7, <1>8 DEF Callback

LEMMA ResolveType ==
    ASSUME TypeOK, NEW e \in Event, NEW t \in Int, Resolve(e, t)
    PROVE  /\ x' \in [Block -> Level]
           /\ on' \in [Block -> BOOLEAN]
           /\ ev' \in [Event -> EventState]
           /\ stop' \in BOOLEAN
<1> DEFINE es == [ev EXCEPT ![e] = Recorded(e, @, t)]
<1>1. ev \in [Event -> EventState]
  BY DEF TypeOK
<1>2. es \in [Event -> EventState]
  BY <1>1, EventSteps
<1>3. PICK c \in Callback(es) : /\ x' = c.x /\ on' = c.on /\ stop' = c.stop
                                /\ ev' = [c.ev EXCEPT ![e] = Disarmed(e, @)]
  BY DEF Resolve
<1>4. /\ c.x \in [Block -> Level] /\ c.on \in [Block -> BOOLEAN]
      /\ c.ev \in [Event -> EventState] /\ c.stop \in BOOLEAN
  BY <1>2, <1>3, CallbackType
<1>5. Disarmed(e, c.ev[e]) \in EventState
  BY <1>4, EventSteps
<1> QED BY <1>3, <1>4, <1>5

(* The step size stays positive: neither a factor, nor the distance to the *)
(* next event, nor the end of the run can bring it to zero.                *)
LEMMA NextDtPositive ==
    ASSUME TypeOK, NEW d \in NextDts
    PROVE  d \in Nat \ {0}
<1>1. \A n \in Int : Clamped(n) \in Nat \ {0}
  BY StepAssumption DEF Clamped
<1>2. \A f \in {g \in Event : Scheduled(g)} : NextTick(f, ev[f]) \in Int
  BY NextTickType DEF TypeOK
<1>3. time \in Int /\ run.end \in Int /\ Dt \in Nat /\ dt \in Nat /\ result.scale \in RatioType
  BY StepAssumption DEF TypeOK
<1>4. Estimates \subseteq Int
  BY <1>2, <1>3 DEF Estimates
<1> DEFINE nominal == IF result.noError /\ result.scale = <<1, 1>> THEN Dt ELSE dt
           ended(c) == IF time + c > run.end THEN run.end - time ELSE c
<1>5. Scaled(nominal, result.scale) \in Int
  BY <1>3, ScaledType
<1>6. PICK c \in {Scaled(nominal, result.scale)} \cup Estimates : d = Clamped(ended(c))
  BY DEF NextDts, Least
<1>7. ended(c) \in Int
  <2>1. c \in Int
    BY <1>4, <1>5, <1>6
  <2> QED BY <1>3, <2>1
<1> QED BY <1>1, <1>6, <1>7

LEMMA RevertType ==
    ASSUME TypeOK, Revert
    PROVE  /\ x' \in [Block -> Level]
           /\ hist' \in [Block -> Level \cup {NoValue}]
           /\ out' \in [Block -> Level]
<1>1. Reverted \in [Block -> Level]
  BY DEF Reverted, TypeOK
<1>2. on \in [Block -> BOOLEAN] /\ hist \in [Block -> Level \cup {NoValue}]
  BY DEF TypeOK
<1> QED BY <1>1, <1>2, OutputsType DEF Revert

\* What the step has found: due events at proper fractions of the step.
LEMMA FoundType ==
    ASSUME TypeOK
    PROVE  /\ DetectedAll(ev) \in [Event -> EventState]
           /\ Times(DetectedAll(ev)) = Times(ev)
           /\ \A e \in Found : RatioOf(e, ev, out, time + dt) \in RatioType
<1>1. ev \in [Event -> EventState] /\ out \in [Block -> Int] /\ time + dt \in Int
  BY LevelsAreInts DEF TypeOK
<1> QED BY <1>1, DetectionType DEF Found

LEMMA RetryRatiosType ==
    ASSUME TypeOK
    PROVE  RetryRatios \subseteq RatioType
<1>1. SecantRatios \subseteq RatioType
  BY FoundType DEF SecantRatios, Earliest
<1>2. \A s \in Probes : <<s, dt>> \in RatioType
  BY DEF Probes, TypeOK, RatioType
<1> QED BY <1>1, <1>2 DEF RetryRatios

(* Theorem: the type invariant *)

LEMMA TypeInit == Init => TypeOK
<1> SUFFICES ASSUME Init PROVE TypeOK
  OBVIOUS
<1>1. FreshEvent \in EventState
  BY DEF FreshEvent, EventState
<1>2. NoTimes \in [Event -> Seq(Int)]
  BY DEF NoTimes
<1>3. result \in [noError : BOOLEAN, scale : RatioType, rejected : BOOLEAN]
  <2>1. <<1, 1>> \in RatioType
    BY DEF RatioType
  <2> QED BY <2>1 DEF Init
<1>4. run \in [start : Nat, end : Nat, target : Nat, adaptive : BOOLEAN, chunked : BOOLEAN]
  BY DEF Init
<1>5. [b \in Block |-> 0] \in [Block -> Level]
  BY StepAssumption
<1>6. /\ sampled \in [t : Nat, out : [Block -> Level]]
      /\ base \in [x : [Block -> Level], out : [Block -> Level], times : [Event -> Seq(Int)]]
  BY <1>2, <1>5, StepAssumption DEF Init
<1>7. ev \in [Event -> EventState] /\ runs \in 0 .. MaxRuns /\ x \in [Block -> Level]
  BY <1>1, StepAssumption DEF Init
<1>8. /\ hist \in [Block -> Level \cup {NoValue}] /\ on \in [Block -> BOOLEAN]
      /\ out \in [Block -> Level]
  BY <1>5 DEF Init
<1> QED BY <1>3, <1>4, <1>6, <1>7, <1>8, StepAssumption DEF Init, TypeOK

LEMMA TypeBegin ==
    ASSUME TypeOK, NEW d \in Durations, NEW a \in Modes, NEW r \in Resets, NEW c \in Chunked,
           Begin(d, a, r, c)
    PROVE  TypeOK'
<1> DEFINE t  == IF r THEN 0 ELSE time
           s  == IF r THEN InitialLevel ELSE x
           es == ResetEvents(r)
           o  == Outputs(s, on)
<1>1. t \in Nat /\ d \in Nat /\ a \in BOOLEAN /\ c \in BOOLEAN
  BY StepAssumption DEF TypeOK
<1>2. s \in [Block -> Level] /\ on \in [Block -> BOOLEAN]
  BY StepAssumption DEF TypeOK
<1>3. es \in [Event -> EventState]
  BY DEF ResetEvents, FreshEvent, EventState, TypeOK
<1>4. o \in [Block -> Level]
  BY <1>2, OutputsType
<1>5. o \in [Block -> Int]
  BY <1>4, LevelsAreInts
<1>6. /\ DetectedAll(es) \in [Event -> EventState]
      /\ \A e \in Detected(es, o, t) : RatioOf(e, es, o, t) \in RatioType
  BY <1>1, <1>3, <1>5, DetectionType
<1> HIDE DEF t, s, es, o
<1>7. /\ pc' = "initial" /\ runs' = runs + 1 /\ runs < MaxRuns /\ time' = t /\ dt' = Dt
      /\ active' = TRUE /\ stop' \in BOOLEAN
      /\ run' = [start |-> t, end |-> t + d, target |-> IF c THEN t ELSE t + d,
                 adaptive |-> a, chunked |-> c]
      /\ x' = s /\ hist' = IF r THEN [b \in Block |-> NoValue] ELSE hist
      /\ out' = o /\ ev' = DetectedAll(es)
      /\ pending' = {[evt |-> e, ratio |-> RatioOf(e, es, o, t), at |-> t] :
                        e \in Detected(es, o, t)}
      /\ UNCHANGED <<on, result, sampled, base>>
  BY DEF Begin, t, s, es, o, May
<1>8. pending' \subseteq [evt : Event, ratio : RatioType, at : Nat]
  BY <1>1, <1>6, <1>7 DEF Detected
<1>9. run' \in [start : Nat, end : Nat, target : Nat, adaptive : BOOLEAN, chunked : BOOLEAN]
  BY <1>1, <1>7
<1>10. runs' \in 0 .. MaxRuns
  BY <1>7, StepAssumption DEF TypeOK
<1>11. hist' \in [Block -> Level \cup {NoValue}]
  BY <1>7 DEF TypeOK
<1> QED BY <1>1, <1>2, <1>4, <1>6, <1>7, <1>8, <1>9, <1>10, <1>11, StepAssumption DEF TypeOK

\* The step with which a guard or a schedule is buffered and a step is begun.
LEMMA TypeBuffer == ASSUME TypeOK, Buffer PROVE TypeOK'
<1>1. out \in [Block -> Int] /\ time \in Int /\ ev \in [Event -> EventState]
  BY LevelsAreInts DEF TypeOK
<1>2. \A e \in Event : Buffered(e, ev[e], Reading(e, out, time), time) \in EventState
  BY <1>1, ReadingType, EventSteps
<1>3. ev' \in [Event -> EventState]
  BY <1>1, <1>2 DEF Buffer
<1>4. hist' \in [Block -> Level \cup {NoValue}]
  BY DEF Buffer, TypeOK
<1>5. Times(ev) \in [Event -> Seq(Int)]
  BY <1>1 DEF Times, EventState
<1>6. base' \in [x : [Block -> Level], out : [Block -> Level], times : [Event -> Seq(Int)]]
  BY <1>5 DEF Buffer, TypeOK
<1> QED BY <1>3, <1>4, <1>6 DEF Buffer, TypeOK

LEMMA TypeSolver ==
    ASSUME TypeOK, SolveFails \/ StepRejected
    PROVE  TypeOK'
<1>1. Revert /\ stop' \in BOOLEAN /\ pc' = "advance"
  BY DEF SolveFails, StepRejected, UpdateMayStop, May, TypeOK
<1>2. <<1, 2>> \in RatioType
  BY DEF RatioType
<1>3. result' \in [noError : BOOLEAN, scale : RatioType, rejected : BOOLEAN]
  <2>1. \E z \in BOOLEAN : result' = [noError |-> z, scale |-> <<1, 2>>, rejected |-> TRUE]
    BY DEF SolveFails, StepRejected
  <2> QED BY <1>2, <2>1
<1>4. UNCHANGED <<time, dt, active, run, runs, on, ev, pending, sampled, base>>
  BY DEF SolveFails, StepRejected
<1> QED BY <1>1, <1>3, <1>4, RevertType DEF TypeOK

LEMMA TypeStagesDone == ASSUME TypeOK, StagesDone PROVE TypeOK'
<1>1. x' \in [Block -> Level] /\ on \in [Block -> BOOLEAN]
  BY DEF StagesDone, TypeOK
<1>2. out' \in [Block -> Level]
  BY <1>1, OutputsType DEF StagesDone
<1>3. Scales \subseteq RatioType /\ <<1, 1>> \in RatioType
  BY StepAssumption DEF RatioType
<1>4. result' \in [noError : BOOLEAN, scale : RatioType, rejected : BOOLEAN]
  BY <1>3 DEF StagesDone
<1>5. stop' \in BOOLEAN
  BY DEF StagesDone, UpdateMayStop, May, TypeOK
<1> QED BY <1>1, <1>2, <1>4, <1>5 DEF StagesDone, TypeOK

LEMMA TypeRetry == ASSUME TypeOK, RetryAtEvent PROVE TypeOK'
<1>1. Revert
  BY DEF RetryAtEvent
<1>2. result' \in [noError : BOOLEAN, scale : RatioType, rejected : BOOLEAN]
  BY RetryRatiosType DEF RetryAtEvent, TypeOK
<1>3. ev' \in [Event -> EventState]
  BY FoundType DEF RetryAtEvent
<1>4. active' \in BOOLEAN /\ stop' \in BOOLEAN
  BY DEF RetryAtEvent, TakeStop, TypeOK
<1> QED BY <1>1, <1>2, <1>3, <1>4, RevertType DEF RetryAtEvent, TypeOK

LEMMA TypeAccept == ASSUME TypeOK, AcceptEvents PROVE TypeOK'
<1>1. ev' \in [Event -> EventState]
  BY FoundType DEF AcceptEvents
<1>2. \A e \in Found : LandingTime(e) \in Nat
  <2>1. time \in Nat /\ dt \in Nat
    BY DEF TypeOK
  <2>2. \A e \in Found : Scaled(dt, RatioOf(e, ev, out, time + dt)) \in Nat
    BY <2>1, FoundType, ScaledType
  <2> QED BY <2>1, <2>2 DEF LandingTime
<1>3. pending' \subseteq [evt : Event, ratio : RatioType, at : Nat]
  BY <1>2, FoundType DEF AcceptEvents, Found, Detected
<1> QED BY <1>1, <1>3 DEF AcceptEvents, TypeOK

LEMMA TypeResolve ==
    ASSUME TypeOK, ResolveInitial \/ ResolveEvent
    PROVE  TypeOK'
<1>1. PICK d \in Earliest(pending) : Resolve(d.evt, d.at) /\ pending' = pending \ {d}
  BY DEF ResolveInitial, ResolveEvent
<1>2. d.evt \in Event /\ d.at \in Int
  BY DEF Earliest, TypeOK
<1>3. /\ x' \in [Block -> Level] /\ on' \in [Block -> BOOLEAN]
      /\ ev' \in [Event -> EventState] /\ stop' \in BOOLEAN
  BY <1>1, <1>2, ResolveType
<1>4. out' \in [Block -> Level]
  <2>1. out' = out \/ out' = Outputs(x', on')
    BY DEF ResolveInitial, ResolveEvent
  <2>2. Outputs(x', on') \in [Block -> Level]
    BY <1>3, OutputsType
  <2> QED BY <2>1, <2>2 DEF TypeOK
<1>5. UNCHANGED <<pc, time, dt, active, run, runs, hist, result, sampled, base>>
  BY DEF ResolveInitial, ResolveEvent
<1> QED BY <1>1, <1>3, <1>4, <1>5 DEF TypeOK

LEMMA TypeCommit == ASSUME TypeOK, Commit PROVE TypeOK'
<1>1. Outputs(x, on) \in [Block -> Level]
  BY OutputsType DEF TypeOK
<1>2. sampled' \in [t : Nat, out : [Block -> Level]]
  BY <1>1 DEF Commit, TypeOK
<1> QED BY <1>1, <1>2 DEF Commit, TakeStop, TypeOK

LEMMA TypeAdvance == ASSUME TypeOK, AdvanceDt PROVE TypeOK'
BY NextDtPositive DEF AdvanceDt, TypeOK

LEMMA TypeCaller ==
    ASSUME TypeOK,
           \/ InitialDone \/ LoopExit \/ Stop \/ RunEnd
           \/ \E t \in (time + 1) .. run.end : RunUntil(t)
    PROVE  TypeOK'
<1>1. CASE InitialDone
  <2>1. sampled' \in [t : Nat, out : [Block -> Level]]
    BY <1>1 DEF InitialDone, TypeOK
  <2> QED BY <1>1, <2>1 DEF InitialDone, TakeStop, TypeOK
<1>2. CASE LoopExit \/ Stop \/ RunEnd
  BY <1>2 DEF LoopExit, Stop, RunEnd, TypeOK
<1>3. CASE \E t \in (time + 1) .. run.end : RunUntil(t)
  <2>1. PICK t \in (time + 1) .. run.end : RunUntil(t)
    BY <1>3
  <2>2. t \in Nat
    BY DEF TypeOK
  <2>3. run' \in [start : Nat, end : Nat, target : Nat, adaptive : BOOLEAN, chunked : BOOLEAN]
    BY <2>1, <2>2 DEF RunUntil, TypeOK
  <2> QED BY <2>1, <2>3 DEF RunUntil, TypeOK
<1> QED BY <1>1, <1>2, <1>3

LEMMA TypeStep == TypeOK /\ [Next]_vars => TypeOK'
<1> SUFFICES ASSUME TypeOK, [Next]_vars PROVE TypeOK'
  OBVIOUS
<1>1. CASE UNCHANGED vars
  BY <1>1 DEF vars, TypeOK
<1>2. CASE Progress
  BY <1>2, TypeBuffer, TypeSolver, TypeStagesDone, TypeRetry, TypeAccept, TypeResolve,
     TypeCommit, TypeAdvance, TypeCaller DEF Progress
<1>3. CASE Caller
  BY <1>3, TypeBegin, TypeCaller DEF Caller
<1> QED BY <1>1, <1>2, <1>3 DEF Next

\* Every variable keeps its type, in particular the step size stays positive
\* and no event is placed at an undefined fraction of a step.
THEOREM TypeCorrect == Spec => []TypeOK
BY TypeInit, TypeStep, PTL DEF Spec

(* Theorem: what is committed is what is seen.  CommitInv is inductive      *)
(* relative to TypeOK: the buffers hold the committed state and outputs     *)
(* during a step (Undoable), every way back to the loop re-evaluates the    *)
(* blocks (Settled) and only an accepted step gets past detection           *)
(* (Accepted).                                                              *)

\* In a step under way, a revert restores exactly what the step started from.
LEMMA RevertUndoes ==
    ASSUME TypeOK, CommitInv, pc \in {"stages", "detect"}, Revert
    PROVE  x' = base.x /\ out' = base.out
<1>1. Reverted = base.x
  <2>1. base.x \in [Block -> Level]
    BY DEF TypeOK
  <2>2. \A b \in Block : Reverted[b] = base.x[b]
    <3> TAKE b \in Block
    <3>1. CASE on[b]
      <4>1. hist[b] = base.x[b] /\ base.x[b] \in Level
        BY <2>1, <3>1 DEF CommitInv, Undoable
      <4>2. hist[b] # NoValue
        BY <4>1, StepAssumption, NameAssumption
      <4> QED BY <3>1, <4>1, <4>2 DEF Reverted
    <3>2. CASE ~on[b]
      BY <3>2 DEF Reverted, CommitInv, Undoable
    <3> QED BY <3>1, <3>2
  <2> QED BY <2>1, <2>2 DEF Reverted
<1>2. base.out = Outputs(base.x, on)
  BY DEF CommitInv, Undoable
<1> QED BY <1>1, <1>2 DEF Revert

LEMMA CommitInvBuffer == ASSUME TypeOK, CommitInv, Buffer PROVE CommitInv'
<1>1. /\ pc = "loop" /\ pc' = "stages"
      /\ base' = [x |-> x, out |-> out, times |-> Times(ev)]
      /\ hist' = [b \in Block |-> IF on[b] THEN x[b] ELSE hist[b]]
      /\ UNCHANGED <<time, stop, x, on, out, result, sampled>>
  BY DEF Buffer
<1>2. base.x' = [b \in Block |-> IF on'[b] THEN hist'[b] ELSE x'[b]]
  BY <1>1 DEF TypeOK
<1>3. base.out' = Outputs(base.x', on')
  BY <1>1 DEF CommitInv, Settled
<1>4. ASSUME NEW e \in Event
      PROVE  /\ ev'[e].times = ev[e].times
             /\ ev'[e].active /\ ~Scheduled(e) =>
                    ev'[e].at = time /\ ev'[e].val = Reading(e, out, time)
  BY <1>4 DEF Buffer, Buffered, TypeOK, EventState
<1>5. base.times' = Times(ev')
  BY <1>1, <1>4 DEF Times
<1>6. sampled' = [t |-> time', out |-> base.out']
  BY <1>1 DEF CommitInv, Seen
<1>7. Undoable'
  BY <1>1, <1>2, <1>3, <1>4, <1>5, <1>6 DEF Undoable
<1>8. (Settled /\ Accepted /\ Seen /\ StopTaken /\ RejectionLeavesNoTrace)'
  BY <1>1 DEF Settled, Accepted, Seen, StopTaken, RejectionLeavesNoTrace
<1> QED BY <1>7, <1>8 DEF CommitInv

\* The three ways an attempt is rejected.
LEMMA CommitInvReject ==
    ASSUME TypeOK, CommitInv, SolveFails \/ StepRejected \/ RetryAtEvent
    PROVE  CommitInv'
<1>1. /\ pc \in {"stages", "detect"} /\ pc' = "advance" /\ Revert
      /\ UNCHANGED <<time, on, sampled, base>>
  BY DEF SolveFails, StepRejected, RetryAtEvent
<1>2. x' = base.x /\ out' = base.out
  BY <1>1, RevertUndoes
<1>3. Times(ev') = base.times
  <2>1. Times(ev') = Times(ev)
    BY FoundType DEF SolveFails, StepRejected, RetryAtEvent
  <2> QED BY <1>1, <2>1 DEF CommitInv, Undoable
<1>4. StopTaken'
  <2>1. stop' => result'.rejected
    BY DEF SolveFails, StepRejected, RetryAtEvent, TakeStop
  <2> QED BY <2>1 DEF StopTaken
<1>5. (Settled /\ Seen /\ RejectionLeavesNoTrace)'
  BY <1>1, <1>2, <1>3 DEF Settled, Seen, RejectionLeavesNoTrace, CommitInv, Undoable
<1>6. (Undoable /\ Accepted)'
  BY <1>1 DEF Undoable, Accepted
<1> QED BY <1>4, <1>5, <1>6 DEF CommitInv

LEMMA CommitInvStagesDone == ASSUME TypeOK, CommitInv, StagesDone PROVE CommitInv'
<1>1. /\ pc = "stages" /\ pc' = "detect" /\ result'.rejected = FALSE
      /\ UNCHANGED <<time, hist, on, ev, sampled, base>>
  BY DEF StagesDone
<1>2. \A b \in Block : ~on[b] => x'[b] = x[b]
  BY DEF StagesDone
<1>3. base.x = [b \in Block |-> IF on[b] THEN hist[b] ELSE x'[b]]
  BY <1>1, <1>2 DEF CommitInv, Undoable
<1>4. Undoable'
  BY <1>1, <1>3 DEF CommitInv, Undoable
<1> QED BY <1>1, <1>4 DEF CommitInv, Settled, Accepted, Seen, StopTaken, RejectionLeavesNoTrace

LEMMA CommitInvOther ==
    ASSUME TypeOK, CommitInv,
           \/ ResolveInitial \/ InitialDone \/ LoopExit \/ AcceptEvents \/ ResolveEvent
           \/ Commit \/ AdvanceDt \/ Stop \/ RunEnd
           \/ \E t \in (time + 1) .. run.end : RunUntil(t)
           \/ \E d \in Durations, a \in Modes, r \in Resets, c \in Chunked : Begin(d, a, r, c)
    PROVE  CommitInv'
<1> USE DEF CommitInv, Settled, Undoable, Accepted, Seen, StopTaken, RejectionLeavesNoTrace
<1>1. CASE ResolveInitial
  BY <1>1 DEF ResolveInitial
<1>2. CASE InitialDone
  BY <1>2 DEF InitialDone, TakeStop
<1>3. CASE LoopExit \/ Stop \/ RunEnd
  BY <1>3 DEF LoopExit, Stop, RunEnd
<1>4. CASE AcceptEvents
  BY <1>4 DEF AcceptEvents
<1>5. CASE ResolveEvent
  BY <1>5 DEF ResolveEvent
<1>6. CASE Commit
  BY <1>6 DEF Commit, TakeStop
<1>7. CASE AdvanceDt
  BY <1>7 DEF AdvanceDt
<1>8. CASE \E t \in (time + 1) .. run.end : RunUntil(t)
  BY <1>8 DEF RunUntil
<1>9. CASE \E d \in Durations, a \in Modes, r \in Resets, c \in Chunked : Begin(d, a, r, c)
  BY <1>9 DEF Begin
<1> QED BY <1>1, <1>2, <1>3, <1>4, <1>5, <1>6, <1>7, <1>8, <1>9

LEMMA CommitInvStep == TypeOK /\ CommitInv /\ [Next]_vars => CommitInv'
<1> SUFFICES ASSUME TypeOK, CommitInv, [Next]_vars PROVE CommitInv'
  OBVIOUS
<1>1. CASE UNCHANGED vars
  BY <1>1 DEF vars, CommitInv, Settled, Undoable, Accepted, Seen, StopTaken,
     RejectionLeavesNoTrace
<1>2. CASE Progress
  BY <1>2, CommitInvBuffer, CommitInvReject, CommitInvStagesDone, CommitInvOther DEF Progress
<1>3. CASE Caller
  BY <1>3, CommitInvOther DEF Caller
<1> QED BY <1>1, <1>2, <1>3 DEF Next

LEMMA CommitInvInit == Init => CommitInv
BY DEF Init, CommitInv, Settled, Undoable, Accepted, Seen, StopTaken, RejectionLeavesNoTrace

\* Between two steps the loop holds a committed system, within one everything
\* timestep needs to go back to the beginning of the attempt.
THEOREM CommitInvariant == Spec => [](TypeOK /\ CommitInv)
BY TypeInit, TypeStep, CommitInvInit, CommitInvStep, PTL DEF Spec

\* After a Newton failure, an error rejection or an event retry, state, outputs
\* and recorded event times are those the attempt was begun with.
THEOREM NoTrace == Spec => []RejectionLeavesNoTrace
BY CommitInvariant, PTL DEF CommitInv

\* The recorders have seen exactly the settled system of the present instant
\* whenever the loop is between two steps.
THEOREM SamplesCommitted == Spec => []SampleIsCommitted
<1>1. CommitInv => SampleIsCommitted
  BY DEF CommitInv, Settled, Seen, SampleIsCommitted
<1> QED BY <1>1, CommitInvariant, PTL

\* Crossings are always measured from the committed state, never from what a
\* rejected attempt left behind.
THEOREM GuardsCommitted == Spec => []GuardsReadCommittedState
<1>1. TypeOK /\ CommitInv => GuardsReadCommittedState
  <2> SUFFICES ASSUME TypeOK, CommitInv, pc \in {"stages", "detect"}
               PROVE  \A e \in Event : ev[e].active /\ ~Scheduled(e) =>
                        ev[e].at = time /\ ev[e].val = Reading(e, Outputs(Reverted, on), time)
    BY DEF GuardsReadCommittedState
  <2>1. base.out = Outputs(Reverted, on)
    <3>1. \A b \in Block : on[b] => hist[b] # NoValue
      <4>1. \A b \in Block : on[b] => hist[b] = base.x[b] /\ base.x[b] \in Level
        BY DEF CommitInv, Undoable, TypeOK
      <4> QED BY <4>1, StepAssumption, NameAssumption
    <3>2. Reverted = [b \in Block |-> IF on[b] THEN hist[b] ELSE x[b]]
      BY <3>1 DEF Reverted
    <3> QED BY <3>2 DEF CommitInv, Undoable
  <2> QED BY <2>1 DEF CommitInv, Undoable
<1> QED BY <1>1, CommitInvariant, PTL

\* A stop raised by a callback is taken before the next step is begun, unless
\* the solver rejected the step it was raised in.
THEOREM StopsObserved == Spec => []StopObserved
<1>1. CommitInv => StopObserved
  BY DEF CommitInv, StopTaken, StopObserved
<1> QED BY <1>1, CommitInvariant, PTL

-----------------------------------------------------------------------------
(* Step sizes and the end of the run.                                      *)

\* A rejected attempt asks for less than the step it took.
RetryScale == pc = "advance" /\ result.rejected => result.scale[1] < result.scale[2]

\* A fixed-step run never changes its step.
FixedStep == ~run.adaptive => dt = Dt /\ pc # "advance"

\* No step is begun at or behind the end of the run.
InRun == pc \in {"stages", "detect", "resolve"} => time < run.end

\* An adaptive step reaches less than dt_min beyond the end, except the first
\* one, which run does not clamp.
StepFits ==
    /\ run.adaptive
    /\ pc \in {"initial", "loop", "paused", "stages", "detect", "resolve"}
    /\ time < run.end
    => time + dt < run.end + DtMin \/ (time = run.start /\ dt = Dt)

\* The inductive invariant behind EndsInTime, FixedEndsInTime and RetryShrinks.
StepInv == RetryScale /\ FixedStep /\ InRun /\ StepFits /\ EndsInTime /\ FixedEndsInTime

(* Lemmas about ratios and step sizes *)

\* A fraction of a step is shorter than the step.
LEMMA ScaledShorter ==
    ASSUME NEW d \in Nat \ {0}, NEW p \in RatioType, p[1] < p[2]
    PROVE  Scaled(d, p) < d
<1>1. p[1] \in Nat /\ p[2] \in Nat \ {0}
  BY DEF RatioType
<1> DEFINE n == d * p[1]
           q == n \div p[2]
<1>2. n \in Nat /\ q \in Nat
  BY <1>1
<1>3. p[2] * q <= n
  <2>1. \A m \in Nat, c \in Nat \ {0} : c * (m \div c) <= m
    OBVIOUS
  <2> QED BY <1>1, <1>2, <2>1
<1>4. d * p[1] < d * p[2]
  BY <1>1
<1>5. q >= d => p[2] * q >= p[2] * d
  BY <1>1, <1>2
<1>6. q < d
  <2> HIDE DEF q, n
  <2>1. n < p[2] * d
    BY <1>1, <1>4 DEF n
  <2>2. p[2] * q \in Int /\ p[2] * d \in Int
    BY <1>1, <1>2
  <2> QED BY <1>2, <1>3, <1>5, <2>1, <2>2
<1> QED BY <1>6 DEF Scaled

\* An event that is due and not close lies strictly inside the step.
LEMMA DistantRatio ==
    ASSUME NEW e \in Event, NEW s \in EventState, NEW r \in Int, NEW t \in Int,
           Due(e, s, r, t), ~Close(e, s, r, t)
    PROVE  Ratio(e, s, r, t)[1] < Ratio(e, s, r, t)[2]
<1>1. CASE Scheduled(e)
  <2>1. NextTick(e, s) \in Nat /\ s.at \in Int
    BY <1>1, NextTickType DEF EventState
  <2>2. NextTick(e, s) < t /\ s.at < NextTick(e, s)
    <3>1. NextTick(e, s) <= t
      BY <1>1 DEF Due, TickDue, Scheduled
    <3>2. ~TickClose(e, s, t)
      BY <1>1 DEF Close, Scheduled
    <3> QED BY <2>1, <3>1, <3>2 DEF TickClose
  <2>3. TickRatio(e, s, t) = <<NextTick(e, s) - s.at, t - s.at>>
    BY <2>1, <2>2 DEF TickRatio, Magnitude
  <2> QED BY <1>1, <2>1, <2>2, <2>3 DEF Ratio, Scheduled
<1>2. CASE Kind[e] = "crossing"
  <2>1. CrossingDue(e, s, r) /\ ~CrossingClose(e, s, r) /\ ~Scheduled(e)
    BY <1>2 DEF Due, Close, Scheduled
  <2>2. s.val \in Int /\ ~ExactHit(e, s.val, r) /\ SignChange(e, s.val, r)
    BY <2>1 DEF CrossingDue, CrossingClose, EventState
  <2>3. Magnitude(s.val) < Magnitude(s.val - r)
    BY <2>2 DEF SignChange, Magnitude
  <2> QED BY <1>2, <2>1, <2>2, <2>3 DEF Ratio, CrossingRatio, Scheduled
<1>3. CASE Kind[e] = "condition"
  BY <1>3 DEF Ratio, ConditionRatio, Close, Scheduled
<1> QED BY <1>1, <1>2, <1>3, EventAssumption DEF Scheduled

\* The ratio of every retry, by the secant or by a probe, is less than one.
LEMMA RetryRatiosShrink == ASSUME TypeOK, NEW p \in RetryRatios PROVE p[1] < p[2]
<1>1. CASE p \in SecantRatios
  <2>1. PICK e \in Found : ~IsClose(e, out, time + dt) /\ p = RatioOf(e, ev, out, time + dt)
    BY <1>1 DEF SecantRatios, Earliest
  <2>2. /\ e \in Event /\ ev[e] \in EventState /\ time + dt \in Int
        /\ Due(e, ev[e], Reading(e, out, time + dt), time + dt)
    BY DEF Found, Detected, TypeOK
  <2>3. Reading(e, out, time + dt) \in Int
    BY <2>2, LevelsAreInts, ReadingType DEF TypeOK
  <2> QED BY <2>1, <2>2, <2>3, DistantRatio DEF IsClose, RatioOf
<1>2. CASE p \notin SecantRatios
  <2>1. PICK s \in Probes : p = <<s, dt>>
    BY <1>2 DEF RetryRatios
  <2>2. s < dt
    BY DEF Probes, TypeOK
  <2> QED BY <2>1, <2>2
<1> QED BY <1>1, <1>2

\* How _advance_dt clamps: no further than the rescaled step, and no further
\* than the end of the run, unless dt_min wants more.
LEMMA NextDtBounds ==
    ASSUME TypeOK, NEW d \in NextDts
    PROVE  LET nominal == IF result.noError /\ result.scale = <<1, 1>> THEN Dt ELSE dt
           IN  /\ d = DtMin \/ d <= Scaled(nominal, result.scale)
               /\ d = DtMin \/ time + d <= run.end
<1> DEFINE nominal == IF result.noError /\ result.scale = <<1, 1>> THEN Dt ELSE dt
           ended(c) == IF time + c > run.end THEN run.end - time ELSE c
           candidates == {Scaled(nominal, result.scale)} \cup Estimates
<1>1. time \in Int /\ run.end \in Int /\ Dt \in Nat /\ dt \in Nat /\ result.scale \in RatioType
  BY StepAssumption DEF TypeOK
<1>2. Scaled(nominal, result.scale) \in Int
  BY <1>1, ScaledType
<1>3. \A f \in {g \in Event : Scheduled(g)} : NextTick(f, ev[f]) \in Int
  BY NextTickType DEF TypeOK
<1>4. Estimates \subseteq Int
  BY <1>1, <1>3 DEF Estimates
<1>5. PICK c \in candidates : (\A w \in candidates : c <= w) /\ d = Clamped(ended(c))
  BY DEF NextDts, Least
<1>6. c \in Int /\ c <= Scaled(nominal, result.scale)
  BY <1>2, <1>4, <1>5
<1>7. ended(c) \in Int /\ ended(c) <= c /\ time + ended(c) <= run.end
  BY <1>1, <1>6
<1>8. Clamped(ended(c)) = DtMin \/ Clamped(ended(c)) <= ended(c)
  BY <1>7, StepAssumption DEF Clamped
<1>9. Clamped(ended(c)) \in Int
  BY <1>7, StepAssumption DEF Clamped
<1> HIDE DEF ended, nominal
<1>10. d = DtMin \/ d <= Scaled(nominal, result.scale)
  BY <1>2, <1>5, <1>6, <1>7, <1>8, <1>9
<1>11. d = DtMin \/ time + d <= run.end
  BY <1>1, <1>5, <1>7, <1>8, <1>9
<1> QED BY <1>10, <1>11 DEF nominal

(* The inductive step *)

LEMMA StepInvInit == Init => StepInv
BY StepAssumption DEF Init, StepInv, RetryScale, FixedStep, InRun, StepFits, EndsInTime, FixedEndsInTime

LEMMA StepInvBegin ==
    ASSUME TypeOK, NEW d \in Durations, NEW a \in Modes, NEW r \in Resets, NEW c \in Chunked,
           Begin(d, a, r, c)
    PROVE  StepInv'
<1>1. /\ pc' = "initial" /\ dt' = Dt
      /\ time' = run'.start /\ run'.start \in Nat /\ run'.end \in Nat /\ time' <= run'.end
  <2>1. d \in Nat /\ time \in Nat
    BY StepAssumption DEF TypeOK
  <2> QED BY <2>1 DEF Begin
<1> QED BY <1>1, StepAssumption
        DEF StepInv, RetryScale, FixedStep, InRun, StepFits, EndsInTime, FixedEndsInTime

\* Steps that leave the clock, the step size and the run alone.
LEMMA StepInvOther ==
    ASSUME TypeOK, StepInv,
           \/ ResolveInitial \/ InitialDone \/ LoopExit \/ Buffer
           \/ StagesDone \/ AcceptEvents \/ ResolveEvent
           \/ Stop \/ RunEnd \/ \E t \in (time + 1) .. run.end : RunUntil(t)
    PROVE  StepInv'
<1>1. /\ UNCHANGED <<time, dt>> /\ pc' # "advance"
      /\ run'.start = run.start /\ run'.end = run.end /\ run'.adaptive = run.adaptive
      /\ pc' \in {"stages", "detect", "resolve"} => time < run.end
      /\ pc \in {"initial", "loop", "paused", "stages", "detect", "resolve"}
  BY DEF ResolveInitial, InitialDone, LoopExit, Buffer, StagesDone, AcceptEvents, ResolveEvent,
         Stop, RunEnd, RunUntil, Continues, RunContinues, StepInv, InRun, TypeOK
<1> QED BY <1>1
        DEF StepInv, RetryScale, FixedStep, InRun, StepFits, EndsInTime, FixedEndsInTime

LEMMA StepInvReject ==
    ASSUME TypeOK, StepInv, SolveFails \/ StepRejected \/ RetryAtEvent
    PROVE  StepInv'
<1>1. /\ UNCHANGED <<time, dt, run>> /\ pc' = "advance" /\ run.adaptive
  BY DEF SolveFails, StepRejected, RetryAtEvent, MayFail, MustRetry
<1>2. result'.scale[1] < result'.scale[2]
  <2>1. CASE SolveFails \/ StepRejected
    BY <2>1 DEF SolveFails, StepRejected
  <2>2. CASE RetryAtEvent
    <3>1. PICK p \in RetryRatios : result' = [result EXCEPT !.scale = p, !.rejected = TRUE]
      BY <2>2 DEF RetryAtEvent
    <3>2. result'.scale = p
      BY <3>1 DEF TypeOK
    <3> QED BY <3>2, RetryRatiosShrink
  <2> QED BY <2>1, <2>2
<1> QED BY <1>1, <1>2
        DEF StepInv, RetryScale, FixedStep, InRun, StepFits, EndsInTime, FixedEndsInTime

LEMMA StepInvCommit == ASSUME TypeOK, CommitInv, StepInv, Commit PROVE StepInv'
<1>1. /\ pc = "resolve" /\ time' = time + dt /\ UNCHANGED <<dt, run, result>>
      /\ pc' = IF run.adaptive THEN "advance" ELSE "loop"
  BY DEF Commit
<1>2. ~result.rejected
  BY <1>1 DEF CommitInv, Accepted
<1>3. time < run.end
  BY <1>1 DEF StepInv, InRun
<1>4. time \in Nat /\ dt \in Nat /\ run.end \in Nat /\ Dt \in Nat /\ DtMin \in Nat
  BY StepAssumption DEF TypeOK
<1>5. (RetryScale /\ FixedStep /\ InRun /\ StepFits)'
  BY <1>1, <1>2, <1>4 DEF StepInv, RetryScale, FixedStep, InRun, StepFits
<1>6. EndsInTime'
  BY <1>1, <1>3, <1>4 DEF StepInv, StepFits, EndsInTime
<1>7. FixedEndsInTime'
  BY <1>1, <1>3, <1>4 DEF StepInv, FixedStep, FixedEndsInTime
<1> QED BY <1>5, <1>6, <1>7 DEF StepInv

LEMMA StepInvAdvance == ASSUME TypeOK, StepInv, AdvanceDt PROVE StepInv'
<1>1. /\ pc = "advance" /\ pc' = "loop" /\ dt' \in NextDts /\ run.adaptive
      /\ UNCHANGED <<time, run, result>>
  BY DEF AdvanceDt, StepInv, FixedStep, TypeOK
<1>2. dt' = DtMin \/ time + dt' <= run.end
  BY <1>1, NextDtBounds
<1>3. dt' \in Nat
  BY <1>1, NextDtPositive
<1>4. StepFits'
  BY <1>1, <1>2, <1>3, StepAssumption DEF StepFits, TypeOK
<1> QED BY <1>1, <1>4 DEF StepInv, RetryScale, FixedStep, InRun, EndsInTime, FixedEndsInTime

LEMMA StepInvStep == TypeOK /\ CommitInv /\ StepInv /\ [Next]_vars => StepInv'
<1> SUFFICES ASSUME TypeOK, CommitInv, StepInv, [Next]_vars PROVE StepInv'
  OBVIOUS
<1>1. CASE UNCHANGED vars
  BY <1>1 DEF vars, StepInv, RetryScale, FixedStep, InRun, StepFits, EndsInTime, FixedEndsInTime
<1>2. CASE Progress
  BY <1>2, StepInvOther, StepInvReject, StepInvCommit, StepInvAdvance DEF Progress
<1>3. CASE Caller
  BY <1>3, StepInvBegin, StepInvOther DEF Caller
<1> QED BY <1>1, <1>2, <1>3 DEF Next

(* Theorems *)

\* The step size and the clock keep to the run in every reachable state.
THEOREM StepInvariant == Spec => [](TypeOK /\ CommitInv /\ StepInv)
BY StepInvInit, StepInvStep, CommitInvariant, PTL DEF Spec

\* An adaptive run passes its end by less than dt_min, unless its first step did.
THEOREM AdaptiveEnd == Spec => []EndsInTime
<1>1. StepInv => EndsInTime
  BY DEF StepInv
<1> QED BY <1>1, StepInvariant, PTL

\* A fixed-step run passes its end by less than a step.
THEOREM FixedEnd == Spec => []FixedEndsInTime
<1>1. StepInv => FixedEndsInTime
  BY DEF StepInv
<1> QED BY <1>1, StepInvariant, PTL

\* Every retry, after a rejection or to localize an event, takes a shorter step,
\* until the step is at its floor.
THEOREM RetriesShrink == Spec => RetryShrinks
<1> DEFINE Shrinks == pc = "advance" /\ result.rejected => dt' < dt \/ dt <= DtMin
<1>1. TypeOK /\ StepInv /\ [Next]_vars => [Shrinks]_vars
  <2> SUFFICES ASSUME TypeOK, StepInv, Next, pc = "advance", result.rejected
               PROVE  dt' < dt \/ dt <= DtMin
    OBVIOUS
  <2>1. AdvanceDt
    BY DEF Next, Progress, Caller, Begin, RunUntil, Stop, RunEnd, ResolveInitial, InitialDone,
           LoopExit, Buffer, SolveFails, StepRejected, StagesDone, RetryAtEvent, AcceptEvents,
           ResolveEvent, Commit
  <2>2. dt' \in NextDts
    BY <2>1 DEF AdvanceDt
  <2>3. dt' \in Nat /\ dt \in Nat \ {0} /\ result.scale \in RatioType
    BY <2>2, NextDtPositive DEF TypeOK
  <2>4. result.scale[1] < result.scale[2]
    BY DEF StepInv, RetryScale
  <2>5. Scaled(dt, result.scale) < dt /\ Scaled(dt, result.scale) \in Nat
    BY <2>3, <2>4, ScaledShorter, ScaledType
  <2>6. result.scale # <<1, 1>>
    BY <2>4
  <2>7. dt' = DtMin \/ dt' <= Scaled(dt, result.scale)
    BY <2>2, <2>6, NextDtBounds
  <2> QED BY <2>3, <2>5, <2>7, StepAssumption
<1> QED BY <1>1, StepInvariant, PTL DEF RetryShrinks, Spec

-----------------------------------------------------------------------------
(* The times of the events.                                                *)

\* The end of the step under way once its events are being resolved.
Horizon == IF pc = "resolve" THEN time + dt ELSE time

\* Recorded times ascend up to the end of the step, and the next tick
\* is not before those already recorded.
InOrder ==
    \A e \in Event :
        /\ Ordered(ev[e].times) /\ Before(ev[e].times, Horizon)
        /\ Scheduled(e) => Before(ev[e].times, NextTick(e, ev[e]))

\* No event is waiting twice.
OncePending == \A d, f \in pending : d.evt = f.evt => d = f

\* An event waiting to be resolved has no time of this step yet, and will get
\* one within the step.
PendingWithin ==
    pc \in {"initial", "resolve"} =>
        \A d \in pending :
            /\ Before(ev[d.evt].times, time)
            /\ time <= d.at /\ d.at <= Horizon
            /\ Scheduled(d.evt) => NextTick(d.evt, ev[d.evt]) <= Horizon

\* The inductive invariant behind TimesInOrder.
TimesInv == InOrder /\ OncePending /\ PendingWithin

(* Lemmas *)

\* A resolution records one time of its own event; its callback records none.
LEMMA ResolveTimes ==
    ASSUME TypeOK, NEW e \in Event, NEW t \in Int, Resolve(e, t)
    PROVE  /\ ev'[e].times = Recorded(e, ev[e], t).times
           /\ \A f \in Event \ {e} : ev'[f].times = ev[f].times
<1> DEFINE es == [ev EXCEPT ![e] = Recorded(e, @, t)]
<1>1. es \in [Event -> EventState]
  <2>1. Recorded(e, ev[e], t) \in EventState
    BY EventSteps DEF TypeOK
  <2> QED BY <2>1 DEF TypeOK
<1>2. PICK c \in Callback(es) : ev' = [c.ev EXCEPT ![e] = Disarmed(e, @)]
  BY DEF Resolve
<1>3. c.ev \in [Event -> EventState] /\ \A f \in Event : c.ev[f].times = es[f].times
  <2> HIDE DEF es
  <2>1. CASE c \in {Idle(es)} \cup SetsState(es) \cup StopsRun(es)
    BY <1>1, <2>1 DEF Idle, SetsState, StopsRun
  <2>2. CASE c \in SwitchesEvent(es)
    <3>1. PICK f \in Event, a \in BOOLEAN : c = [Idle(es) EXCEPT !.ev = [es EXCEPT ![f].active = a]]
      BY <2>2 DEF SwitchesEvent, May
    <3>2. c.ev = [es EXCEPT ![f].active = a]
      BY <3>1 DEF Idle
    <3>3. /\ [es[f] EXCEPT !.active = a] \in EventState
          /\ [es[f] EXCEPT !.active = a].times = es[f].times
      BY <1>1 DEF EventState
    <3>4. c.ev = [es EXCEPT ![f] = [es[f] EXCEPT !.active = a]]
      BY <3>2
    <3> QED BY <1>1, <3>3, <3>4
  <2>3. CASE c \in SwitchesBlock(es)
    <3>1. PICK b \in Block, a \in BOOLEAN : c = Switched(es, b, a)
      BY <2>3 DEF SwitchesBlock, May
    <3>2. c.ev = IF a THEN es ELSE SwitchedOff(es, b)
      BY <3>1 DEF Switched
    <3>3. /\ SwitchedOff(es, b) \in [Event -> EventState]
          /\ \A f \in Event : SwitchedOff(es, b)[f].times = es[f].times
      BY <1>1 DEF SwitchedOff, EventState
    <3> QED BY <1>1, <3>2, <3>3
  <2> QED BY <2>1, <2>2, <2>3 DEF Callback
<1>4. \A s \in EventState : Disarmed(e, s).times = s.times
  BY DEF Disarmed, EventState
<1>5. \A f \in Event : ev'[f].times = c.ev[f].times
  BY <1>2, <1>3, <1>4
<1>6. es[e] = Recorded(e, ev[e], t) /\ \A f \in Event \ {e} : es[f] = ev[f]
  BY DEF TypeOK
<1> QED BY <1>3, <1>5, <1>6

(* The inductive step *)

LEMMA TimesInvInit == Init => TimesInv
BY DEF Init, TimesInv, InOrder, OncePending, PendingWithin, FreshEvent, Before, Ordered

\* Both places that resolve events.
LEMMA TimesInvResolve ==
    ASSUME TypeOK, TimesInv, ResolveInitial \/ ResolveEvent
    PROVE  TimesInv'
<1>1. PICK d \in Earliest(pending) : Resolve(d.evt, d.at) /\ pending' = pending \ {d}
  BY DEF ResolveInitial, ResolveEvent
<1>2. /\ pc \in {"initial", "resolve"} /\ UNCHANGED <<pc, time, dt>>
      /\ d \in pending /\ d.evt \in Event /\ d.at \in Int
  BY DEF ResolveInitial, ResolveEvent, Earliest, TypeOK
<1> DEFINE e == d.evt
           v == IF Scheduled(e) THEN NextTick(e, ev[e]) ELSE d.at
<1>3. /\ ev'[e].times = Recorded(e, ev[e], d.at).times
      /\ \A f \in Event \ {e} : ev'[f].times = ev[f].times
  BY <1>1, <1>2, ResolveTimes
<1>4. ev[e] \in EventState /\ Horizon \in Int /\ Horizon' = Horizon /\ time \in Int
  BY <1>2 DEF Horizon, TypeOK
<1>5. v \in Int /\ Before(ev[e].times, v) /\ v <= Horizon /\ ev[e].times \in Seq(Int)
  <2>1. ev[e].times \in Seq(Int)
    BY <1>4 DEF EventState
  <2>2. CASE Scheduled(e)
    <3>1. NextTick(e, ev[e]) \in Int
      BY <1>2, <1>4, <2>2, NextTickType
    <3> QED BY <1>2, <2>1, <2>2, <3>1 DEF TimesInv, InOrder, PendingWithin
  <2>3. CASE ~Scheduled(e)
    <3>1. Before(ev[e].times, time) /\ time <= d.at /\ d.at <= Horizon
      BY <1>2 DEF TimesInv, PendingWithin
    <3>2. \A i \in DOMAIN ev[e].times : ev[e].times[i] \in Int
      BY <2>1
    <3> QED BY <1>2, <1>4, <2>1, <2>3, <3>1, <3>2 DEF Before
  <2> QED BY <2>2, <2>3
<1>6. ev'[e].times = Append(ev[e].times, v)
  BY <1>3, <1>4 DEF Recorded, EventState
<1> HIDE DEF v
<1>7. Ordered(ev'[e].times) /\ Before(ev'[e].times, Horizon)
  BY <1>2, <1>4, <1>5, <1>6, AppendOrdered DEF TimesInv, InOrder
<1>8. Scheduled(e) => Before(ev'[e].times, NextTick(e, ev'[e]))
  <2> SUFFICES ASSUME Scheduled(e) PROVE Before(ev'[e].times, NextTick(e, ev'[e]))
    OBVIOUS
  <2>1. NextTick(e, ev'[e]) = NextTick(e, Recorded(e, ev[e], d.at))
    BY <1>3, NextTickOf
  <2>2. NextTick(e, ev[e]) <= NextTick(e, ev'[e])
    BY <1>2, <1>4, <2>1, TicksAscend
  <2>3. Recorded(e, ev[e], d.at) \in EventState
    BY <1>2, <1>4, EventSteps
  <2>4. NextTick(e, ev'[e]) \in Int /\ v = NextTick(e, ev[e])
    BY <1>2, <2>1, <2>3, NextTickType DEF v
  <2> QED BY <1>2, <1>5, <1>6, <2>2, <2>4, AppendOrdered DEF TimesInv, InOrder
<1>9. InOrder'
  <2> SUFFICES ASSUME NEW f \in Event
               PROVE  /\ Ordered(ev'[f].times) /\ Before(ev'[f].times, Horizon)
                      /\ Scheduled(f) => Before(ev'[f].times, NextTick(f, ev'[f]))
    BY <1>4 DEF InOrder
  <2>1. CASE f = e
    BY <1>7, <1>8, <2>1
  <2>2. CASE f # e
    <3>1. ev'[f].times = ev[f].times /\ NextTick(f, ev'[f]) = NextTick(f, ev[f])
      BY <1>3, <2>2, NextTickOf
    <3> QED BY <3>1 DEF TimesInv, InOrder
  <2> QED BY <2>1, <2>2
<1>10. OncePending'
  BY <1>1 DEF TimesInv, OncePending
<1>11. PendingWithin'
  <2> SUFFICES ASSUME NEW f \in pending'
               PROVE  /\ Before(ev'[f.evt].times, time)
                      /\ time <= f.at /\ f.at <= Horizon
                      /\ Scheduled(f.evt) => NextTick(f.evt, ev'[f.evt]) <= Horizon
    BY <1>2, <1>4 DEF PendingWithin
  <2>1. f \in pending /\ f.evt \in Event /\ f.evt # e
    BY <1>1, <1>2 DEF TimesInv, OncePending, TypeOK
  <2>2. ev'[f.evt].times = ev[f.evt].times /\ NextTick(f.evt, ev'[f.evt]) = NextTick(f.evt, ev[f.evt])
    BY <1>3, <2>1, NextTickOf
  <2> QED BY <1>2, <2>1, <2>2 DEF TimesInv, PendingWithin
<1> QED BY <1>9, <1>10, <1>11 DEF TimesInv

\* What a detection puts in the scratch has no time of this instant yet.
LEMMA TimesInvBegin ==
    ASSUME TypeOK, TimesInv,
           NEW a \in Durations, NEW b \in Modes, NEW r \in Resets, NEW c \in Chunked,
           Begin(a, b, r, c)
    PROVE  TimesInv'
<1> DEFINE t  == IF r THEN 0 ELSE time
           es == ResetEvents(r)
           o  == Outputs(IF r THEN InitialLevel ELSE x, on)
<1>1. /\ pc = "idle" /\ pc' = "initial" /\ time' = t /\ ev' = DetectedAll(es)
      /\ pending' = {[evt |-> e, ratio |-> RatioOf(e, es, o, t), at |-> t] :
                        e \in Detected(es, o, t)}
  BY DEF Begin
<1>2. es \in [Event -> EventState] /\ t \in Nat
  BY DEF ResetEvents, FreshEvent, EventState, TypeOK
<1>3. \A e \in Event : Ordered(es[e].times) /\ Before(es[e].times, t)
                        /\ (Scheduled(e) => Before(es[e].times, NextTick(e, es[e])))
  <2>1. CASE r
    BY <2>1 DEF ResetEvents, FreshEvent, Ordered, Before
  <2>2. CASE ~r
    <3>1. Horizon = time
      BY <1>1 DEF Horizon
    <3> QED BY <2>2, <3>1 DEF ResetEvents, TimesInv, InOrder
  <2> QED BY <2>1, <2>2
<1>4. \A e \in Event : ev'[e].times = es[e].times
  <2> TAKE e \in Event
  <2>1. ev'[e] = IF es[e].active THEN AfterDetect(e, es[e]) ELSE es[e]
    BY <1>1 DEF DetectedAll
  <2> QED BY <1>2, <2>1, EventSteps
<1>5. \A e \in Event : NextTick(e, ev'[e]) = NextTick(e, es[e])
  BY <1>4, NextTickOf
<1>6. Horizon' = t
  BY <1>1 DEF Horizon
<1>7. \A e \in Detected(es, o, t) : e \in Event /\ (Scheduled(e) => NextTick(e, es[e]) <= t)
  BY DueTick DEF Detected
<1> HIDE DEF t, es, o
<1>8. InOrder'
  BY <1>3, <1>4, <1>5, <1>6 DEF InOrder
<1>9. OncePending'
  BY <1>1 DEF OncePending
<1>10. PendingWithin'
  BY <1>1, <1>2, <1>3, <1>4, <1>5, <1>6, <1>7 DEF PendingWithin
<1> QED BY <1>8, <1>9, <1>10 DEF TimesInv

\* An event lies within the step it is found in.
LEMMA RatioAtMostOne ==
    ASSUME NEW e \in Event, NEW s \in EventState, NEW r \in Int, NEW t \in Int, Due(e, s, r, t)
    PROVE  Ratio(e, s, r, t)[1] <= Ratio(e, s, r, t)[2]
<1>1. Ratio(e, s, r, t) \in RatioType
  BY RatioIsRatio
<1>2. CASE ~Close(e, s, r, t)
  <2>1. Ratio(e, s, r, t)[1] < Ratio(e, s, r, t)[2]
    BY <1>2, DistantRatio
  <2> QED BY <1>1, <2>1 DEF RatioType
<1>3. CASE Scheduled(e) /\ Close(e, s, r, t)
  <2>1. TickClose(e, s, t)
    BY <1>3 DEF Close, Scheduled
  <2>2. TickRatio(e, s, t) = <<1, 1>> \/ TickRatio(e, s, t) = <<0, 1>>
    BY <2>1 DEF TickClose, TickRatio
  <2> QED BY <1>3, <2>2 DEF Ratio, Scheduled
<1>4. CASE Kind[e] = "crossing"
  <2>1. CrossingDue(e, s, r) /\ s.val \in Int
    BY <1>4 DEF Due, CrossingDue, Scheduled, EventState
  <2>2. CrossingRatio(e, s, r)[1] <= CrossingRatio(e, s, r)[2]
    <3>1. CASE ExactHit(e, s.val, r)
      BY <3>1 DEF CrossingRatio
    <3>2. CASE ~ExactHit(e, s.val, r)
      <4>1. SignChange(e, s.val, r)
        BY <2>1, <3>2 DEF CrossingDue
      <4>2. Magnitude(s.val) <= Magnitude(s.val - r)
        BY <2>1, <4>1 DEF SignChange, Magnitude
      <4> QED BY <3>2, <4>2 DEF CrossingRatio
    <3> QED BY <3>1, <3>2
  <2> QED BY <1>4, <2>2 DEF Ratio, Scheduled
<1>5. CASE Kind[e] = "condition"
  BY <1>5 DEF Ratio, ConditionRatio, Scheduled
<1> QED BY <1>2, <1>3, <1>4, <1>5, EventAssumption DEF Scheduled

\* A fraction of a step is no longer than the step.
LEMMA ScaledWithin ==
    ASSUME NEW d \in Nat \ {0}, NEW p \in RatioType, p[1] <= p[2]
    PROVE  Scaled(d, p) <= d
<1>1. CASE p[1] < p[2]
  <2>1. Scaled(d, p) < d /\ Scaled(d, p) \in Nat
    BY <1>1, ScaledShorter, ScaledType
  <2> QED BY <2>1
<1>2. CASE p[1] = p[2]
  <2>1. p[2] \in Nat \ {0}
    BY DEF RatioType
  <2>2. \A c \in Nat \ {0} : (d * c) \div c = d
    OBVIOUS
  <2> QED BY <1>2, <2>1, <2>2 DEF Scaled
<1>3. p[1] \in Nat /\ p[2] \in Nat
  BY DEF RatioType
<1> QED BY <1>1, <1>2, <1>3

LEMMA TimesInvAccept == ASSUME TypeOK, TimesInv, AcceptEvents PROVE TimesInv'
<1>1. /\ pc = "detect" /\ pc' = "resolve" /\ ev' = DetectedAll(ev) /\ UNCHANGED <<time, dt>>
      /\ pending' = {[evt |-> e, ratio |-> RatioOf(e, ev, out, time + dt), at |-> LandingTime(e)] :
                        e \in Found}
  BY DEF AcceptEvents
<1>2. ev \in [Event -> EventState] /\ time \in Nat /\ dt \in Nat \ {0}
  BY DEF TypeOK
<1>3. Horizon = time /\ Horizon' = time + dt
  BY <1>1 DEF Horizon
<1>4. \A e \in Event : ev'[e].times = ev[e].times
  <2> TAKE e \in Event
  <2>1. ev'[e] = IF ev[e].active THEN AfterDetect(e, ev[e]) ELSE ev[e]
    BY <1>1 DEF DetectedAll
  <2> QED BY <1>2, <2>1, EventSteps
<1>5. \A e \in Event : NextTick(e, ev'[e]) = NextTick(e, ev[e])
  BY <1>4, NextTickOf
<1>6. ASSUME NEW e \in Found
      PROVE  /\ e \in Event /\ (Scheduled(e) => NextTick(e, ev[e]) <= time + dt)
             /\ time <= LandingTime(e) /\ LandingTime(e) <= time + dt
  <2>1. e \in Event /\ Due(e, ev[e], Reading(e, out, time + dt), time + dt)
    BY DEF Found, Detected
  <2>2. Scheduled(e) => NextTick(e, ev[e]) <= time + dt
    BY <2>1, DueTick
  <2>3. Reading(e, out, time + dt) \in Int /\ time + dt \in Int
    <3>1. time + dt \in Int /\ out \in [Block -> Int]
      BY LevelsAreInts DEF TypeOK
    <3> QED BY <2>1, <3>1, ReadingType
  <2>4. /\ RatioOf(e, ev, out, time + dt) \in RatioType
        /\ RatioOf(e, ev, out, time + dt)[1] <= RatioOf(e, ev, out, time + dt)[2]
    BY <1>2, <2>1, <2>3, RatioIsRatio, RatioAtMostOne DEF RatioOf
  <2>5. LET s == Scaled(dt, RatioOf(e, ev, out, time + dt)) IN s \in Nat /\ s <= dt
    BY <1>2, <2>4, ScaledWithin, ScaledType
  <2>6. time <= LandingTime(e) /\ LandingTime(e) <= time + dt
    BY <1>2, <2>5 DEF LandingTime
  <2> QED BY <2>1, <2>2, <2>6
<1>7. InOrder'
  <2>1. ASSUME NEW s \in Seq(Int), Before(s, time) PROVE Before(s, time + dt)
    <3>1. \A i \in DOMAIN s : s[i] \in Int
      OBVIOUS
    <3> QED BY <1>2, <2>1, <3>1 DEF Before
  <2>2. \A e \in Event : ev[e].times \in Seq(Int)
    BY <1>2 DEF EventState
  <2> QED BY <1>3, <1>4, <1>5, <2>1, <2>2 DEF TimesInv, InOrder
<1>8. OncePending'
  BY <1>1 DEF OncePending
<1>9. PendingWithin'
  <2>1. \A e \in Event : Before(ev[e].times, time)
    BY <1>3 DEF TimesInv, InOrder
  <2> QED BY <1>1, <1>3, <1>4, <1>5, <1>6, <2>1 DEF PendingWithin
<1> QED BY <1>7, <1>8, <1>9 DEF TimesInv

\* Steps that record nothing and leave the clock alone, or take it to where
\* the recorded times already are.
LEMMA TimesInvOther ==
    ASSUME TypeOK, TimesInv,
           \/ InitialDone \/ LoopExit \/ Buffer \/ SolveFails \/ StepRejected \/ StagesDone
           \/ RetryAtEvent \/ Commit \/ AdvanceDt \/ Stop \/ RunEnd
           \/ \E t \in (time + 1) .. run.end : RunUntil(t)
    PROVE  TimesInv'
<1>1. /\ pc' \notin {"initial", "resolve"} /\ pending' = pending
      /\ time' = Horizon
  BY DEF InitialDone, LoopExit, Buffer, SolveFails, StepRejected, StagesDone, RetryAtEvent,
         Commit, AdvanceDt, Stop, RunEnd, RunUntil, Horizon
<1>2. \A e \in Event : ev'[e].times = ev[e].times
  <2>1. CASE Buffer
    BY <2>1 DEF Buffer, Buffered, TypeOK, EventState
  <2>2. CASE RetryAtEvent
    <3> SUFFICES ASSUME NEW e \in Event PROVE ev'[e].times = ev[e].times
      OBVIOUS
    <3>1. ev'[e] = IF ev[e].active THEN AfterDetect(e, ev[e]) ELSE ev[e]
      BY <2>2 DEF RetryAtEvent, DetectedAll
    <3>2. ev[e] \in EventState /\ time \in Int
      BY DEF TypeOK
    <3> QED BY <3>1, <3>2, EventSteps
  <2>3. CASE ~Buffer /\ ~RetryAtEvent
    BY <2>3 DEF InitialDone, LoopExit, SolveFails, StepRejected, StagesDone,
                Commit, AdvanceDt, Stop, RunEnd, RunUntil
  <2> QED BY <2>1, <2>2, <2>3
<1>3. \A e \in Event : NextTick(e, ev'[e]) = NextTick(e, ev[e])
  BY <1>2, NextTickOf
<1>4. Horizon' = Horizon
  BY <1>1 DEF Horizon
<1> QED BY <1>1, <1>2, <1>3, <1>4 DEF TimesInv, InOrder, OncePending, PendingWithin

LEMMA TimesInvStep == TypeOK /\ TimesInv /\ [Next]_vars => TimesInv'
<1> SUFFICES ASSUME TypeOK, TimesInv, [Next]_vars PROVE TimesInv'
  OBVIOUS
<1>1. CASE UNCHANGED vars
  BY <1>1 DEF vars, TimesInv, InOrder, OncePending, PendingWithin, Horizon
<1>2. CASE Progress
  BY <1>2, TimesInvResolve, TimesInvAccept, TimesInvOther DEF Progress
<1>3. CASE Caller
  BY <1>3, TimesInvBegin, TimesInvOther DEF Caller
<1> QED BY <1>1, <1>2, <1>3 DEF Next

(* Theorems *)

\* The recorded times of every event are in order and never ahead of the clock,
\* over retries, forced resolutions and continued runs.
THEOREM TimesOrdered == Spec => []TimesInOrder
<1>1. Init => TypeOK /\ TimesInv
  BY TypeInit, TimesInvInit
<1>2. TypeOK /\ TimesInv /\ [Next]_vars => (TypeOK /\ TimesInv)'
  BY TypeStep, TimesInvStep
<1>3. TypeOK /\ TimesInv => TimesInOrder
  BY DEF TimesInv, InOrder, Ordered, Before, Horizon, TimesInOrder
<1> QED BY <1>1, <1>2, <1>3, PTL DEF Spec

\* A Condition that was recorded is off, and is not waiting to be resolved.
OnceResolved ==
    \A e \in Event : Kind[e] = "condition" =>
        /\ Len(ev[e].times) <= 1
        /\ ev[e].active => ev[e].times = <<>>
        /\ pc \in {"initial", "resolve"} =>
              \A d \in pending : d.evt = e => ev[e].times = <<>>

\* Unless callbacks switch events, a resolution switches no event on, and a
\* Condition off.
LEMMA ResolveActive ==
    ASSUME TypeOK, "switch" \notin Effects, NEW e \in Event, NEW t \in Int, Resolve(e, t)
    PROVE  /\ \A f \in Event \ {e} : ev'[f].active => ev[f].active
           /\ Kind[e] = "condition" => ~ev'[e].active
<1> DEFINE es == [ev EXCEPT ![e] = Recorded(e, @, t)]
<1>1. es \in [Event -> EventState]
  <2>1. Recorded(e, ev[e], t) \in EventState
    BY EventSteps DEF TypeOK
  <2> QED BY <2>1 DEF TypeOK
<1>2. PICK c \in Callback(es) : ev' = [c.ev EXCEPT ![e] = Disarmed(e, @)]
  BY DEF Resolve
<1>3. c.ev \in [Event -> EventState] /\ \A f \in Event : c.ev[f].active => es[f].active
  <2> HIDE DEF es
  <2>1. CASE c \in {Idle(es)} \cup SetsState(es) \cup StopsRun(es)
    BY <1>1, <2>1 DEF Idle, SetsState, StopsRun
  <2>2. SwitchesEvent(es) = {}
    BY DEF SwitchesEvent, May
  <2>3. CASE c \in SwitchesBlock(es)
    <3>1. PICK b \in Block, a \in BOOLEAN : c = Switched(es, b, a)
      BY <2>3 DEF SwitchesBlock, May
    <3>2. c.ev = IF a THEN es ELSE SwitchedOff(es, b)
      BY <3>1 DEF Switched
    <3>3. /\ SwitchedOff(es, b) \in [Event -> EventState]
          /\ \A f \in Event : SwitchedOff(es, b)[f].active => es[f].active
      BY <1>1 DEF SwitchedOff, EventState
    <3> QED BY <1>1, <3>2, <3>3
  <2> QED BY <2>1, <2>2, <2>3 DEF Callback
<1>4. \A f \in Event \ {e} : es[f] = ev[f] /\ ev'[f] = c.ev[f]
  BY <1>2, <1>3 DEF TypeOK
<1>5. ev'[e] = Disarmed(e, c.ev[e]) /\ c.ev[e] \in EventState
  BY <1>2, <1>3
<1>6. Kind[e] = "condition" => ~ev'[e].active
  BY <1>5 DEF Disarmed, EventState
<1> QED BY <1>3, <1>4, <1>6

LEMMA OnceInit == Init => OnceResolved
BY DEF Init, OnceResolved, FreshEvent

LEMMA OnceResolve ==
    ASSUME TypeOK, TimesInv, OnceResolved, "switch" \notin Effects, ResolveInitial \/ ResolveEvent
    PROVE  OnceResolved'
<1>1. PICK d \in Earliest(pending) : Resolve(d.evt, d.at) /\ pending' = pending \ {d}
  BY DEF ResolveInitial, ResolveEvent
<1>2. /\ pc \in {"initial", "resolve"} /\ UNCHANGED pc
      /\ d \in pending /\ d.evt \in Event /\ d.at \in Int
  BY DEF ResolveInitial, ResolveEvent, Earliest, TypeOK
<1> SUFFICES ASSUME NEW e \in Event, Kind[e] = "condition"
             PROVE  /\ Len(ev'[e].times) <= 1
                    /\ ev'[e].active => ev'[e].times = <<>>
                    /\ \A f \in pending' : f.evt = e => ev'[e].times = <<>>
  BY <1>2 DEF OnceResolved
<1>3. CASE e = d.evt
  <2>1. ev[e].times = <<>> /\ ev[e] \in EventState
    BY <1>2, <1>3 DEF OnceResolved, TypeOK
  <2>2. ev'[e].times = Recorded(e, ev[e], d.at).times /\ ~ev'[e].active
    BY <1>1, <1>2, <1>3, ResolveTimes, ResolveActive
  <2>3. Recorded(e, ev[e], d.at).times = Append(<<>>, d.at)
    BY <2>1 DEF Recorded, Scheduled, EventState
  <2>4. Len(Append(<<>>, d.at)) <= 1
    BY <1>2
  <2>5. \A f \in pending' : f.evt # e
    BY <1>1, <1>2, <1>3 DEF TimesInv, OncePending
  <2> QED BY <2>2, <2>3, <2>4, <2>5
<1>4. CASE e # d.evt
  <2>1. ev'[e].times = ev[e].times /\ (ev'[e].active => ev[e].active)
    BY <1>1, <1>2, <1>4, ResolveTimes, ResolveActive
  <2> QED BY <1>1, <1>2, <2>1 DEF OnceResolved
<1> QED BY <1>3, <1>4

\* What is found was active.
LEMMA OnceFound ==
    ASSUME TypeOK, OnceResolved,
           \/ AcceptEvents
           \/ \E d \in Durations, a \in Modes, r \in Resets, c \in Chunked : Begin(d, a, r, c)
    PROVE  OnceResolved'
<1> DEFINE Off(es) == \A e \in Event : Kind[e] = "condition" =>
                          Len(es[e].times) <= 1 /\ (es[e].active => es[e].times = <<>>)
<1>1. PICK es \in [Event -> EventState] :
          /\ Off(es) /\ ev' = DetectedAll(es)
          /\ \A d \in pending' : d.evt \in Event /\ es[d.evt].active
  <2>1. CASE AcceptEvents
    <3>1. ev \in [Event -> EventState] /\ Off(ev)
      BY DEF OnceResolved, TypeOK
    <3>2. ev' = DetectedAll(ev)
      BY <2>1 DEF AcceptEvents
    <3>3. \A f \in pending' : f.evt \in Event /\ ev[f.evt].active
      BY <2>1 DEF AcceptEvents, Found, Detected
    <3> QED BY <3>1, <3>2, <3>3
  <2>2. CASE \E d \in Durations, a \in Modes, r \in Resets, c \in Chunked : Begin(d, a, r, c)
    <3>1. PICK d \in Durations, a \in Modes, r \in Resets, c \in Chunked : Begin(d, a, r, c)
      BY <2>2
    <3>2. ResetEvents(r) \in [Event -> EventState] /\ Off(ResetEvents(r))
      BY DEF ResetEvents, FreshEvent, EventState, TypeOK, OnceResolved
    <3>3. ev' = DetectedAll(ResetEvents(r))
      BY <3>1 DEF Begin
    <3>4. \A f \in pending' : f.evt \in Event /\ ResetEvents(r)[f.evt].active
      BY <3>1 DEF Begin, Detected
    <3> QED BY <3>2, <3>3, <3>4
  <2> QED BY <2>1, <2>2
<1>2. \A e \in Event : ev'[e].times = es[e].times /\ (ev'[e].active => es[e].active)
  <2> TAKE e \in Event
  <2>1. ev'[e] = IF es[e].active THEN AfterDetect(e, es[e]) ELSE es[e]
    BY <1>1 DEF DetectedAll
  <2>2. AfterDetect(e, es[e]).times = es[e].times
    BY EventSteps
  <2> QED BY <2>1, <2>2
<1> QED BY <1>1, <1>2 DEF OnceResolved

LEMMA OnceOther ==
    ASSUME TypeOK, OnceResolved,
           \/ InitialDone \/ LoopExit \/ Buffer \/ SolveFails \/ StepRejected \/ StagesDone
           \/ RetryAtEvent \/ Commit \/ AdvanceDt \/ Stop \/ RunEnd
           \/ \E t \in (time + 1) .. run.end : RunUntil(t)
    PROVE  OnceResolved'
<1>1. pc' \notin {"initial", "resolve"}
  BY DEF InitialDone, LoopExit, Buffer, SolveFails, StepRejected, StagesDone, RetryAtEvent,
         Commit, AdvanceDt, Stop, RunEnd, RunUntil
<1>2. \A e \in Event : ev'[e].times = ev[e].times /\ (ev'[e].active => ev[e].active)
  <2>1. CASE Buffer
    BY <2>1 DEF Buffer, Buffered, TypeOK, EventState
  <2>2. CASE RetryAtEvent
    <3> SUFFICES ASSUME NEW e \in Event
                 PROVE  ev'[e].times = ev[e].times /\ (ev'[e].active => ev[e].active)
      OBVIOUS
    <3>1. ev'[e] = IF ev[e].active THEN AfterDetect(e, ev[e]) ELSE ev[e]
      BY <2>2 DEF RetryAtEvent, DetectedAll
    <3>2. ev[e] \in EventState /\ time \in Int
      BY DEF TypeOK
    <3> QED BY <3>1, <3>2, EventSteps
  <2>3. CASE ~Buffer /\ ~RetryAtEvent
    BY <2>3 DEF InitialDone, LoopExit, SolveFails, StepRejected, StagesDone,
                Commit, AdvanceDt, Stop, RunEnd, RunUntil
  <2> QED BY <2>1, <2>2, <2>3
<1> QED BY <1>1, <1>2 DEF OnceResolved

LEMMA OnceStep ==
    ASSUME "switch" \notin Effects
    PROVE  TypeOK /\ TimesInv /\ OnceResolved /\ [Next]_vars => OnceResolved'
<1> SUFFICES ASSUME TypeOK, TimesInv, OnceResolved, [Next]_vars PROVE OnceResolved'
  OBVIOUS
<1>1. CASE UNCHANGED vars
  BY <1>1 DEF vars, OnceResolved
<1>2. CASE Progress
  BY <1>2, OnceResolve, OnceFound, OnceOther DEF Progress
<1>3. CASE Caller
  BY <1>3, OnceFound, OnceOther DEF Caller
<1> QED BY <1>1, <1>2, <1>3 DEF Next

\* A Condition is recorded at most once between two resets, over continued runs,
\* as long as no callback switches events.
THEOREM ConditionsOnce ==
    ASSUME "switch" \notin Effects
    PROVE  Spec => []ConditionOneShot
<1>1. Init => TypeOK /\ TimesInv /\ OnceResolved
  BY TypeInit, TimesInvInit, OnceInit
<1>2. TypeOK /\ TimesInv /\ OnceResolved /\ [Next]_vars => (TypeOK /\ TimesInv /\ OnceResolved)'
  BY TypeStep, TimesInvStep, OnceStep
<1>3. OnceResolved => ConditionOneShot
  BY DEF OnceResolved, ConditionOneShot
<1> QED BY <1>1, <1>2, <1>3, PTL DEF Spec

-----------------------------------------------------------------------------
(* The ticks of the schedules: none is missed, and in an adaptive run none *)
(* is late by a whole smallest step.                                       *)

\* The next tick of a schedule lies beyond t, or there is none.
Ahead(e, t) == NextTick(e, ev[e]) > t \/ Exhausted(e, ev[e])

\* A schedule that is on is ahead of the clock, or of the end of the step when
\* its events are being resolved, or waits for its resolution; a run may begin
\* on a tick.
TicksAhead ==
    \A e \in Event : Scheduled(e) /\ ev[e].active =>
        IF pc = "idle" THEN Ahead(e, time - 1)
        ELSE Ahead(e, Horizon) \/ (pc \in {"initial", "resolve"} /\ \E p \in pending : p.evt = e)

\* What waits is due now or, in a step, less than dt_min before the end of an
\* adaptive one.
TicksWaiting ==
    \A p \in pending : Scheduled(p.evt) =>
        LET n == NextTick(p.evt, ev[p.evt])
        IN  /\ pc = "initial" => n = time
            /\ pc = "resolve" => time < n /\ (run.adaptive => time + dt - n < DtMin)

\* Events that are on have buffered the beginning of the step.
TicksBuffered ==
    pc \in {"stages", "detect"} => \A e \in Event : ev[e].active => ev[e].at = time

\* The inductive invariant behind NoTickMissed and TicksOnTime.
TickInv ==
    /\ pc # "idle" => run.adaptive \in Modes
    /\ TicksAhead /\ TicksWaiting /\ TicksBuffered

\* A distance no shorter than the steps that are not cut to end on a tick: the
\* shortest of an adaptive run, every one of a fixed run.
Wide(n) == n >= DtMin /\ (FALSE \in Modes => n >= Dt)

\* The ticks of every schedule are that far apart.
TicksApart ==
    \A e \in Event :
        /\ Kind[e] = "periodic" => Wide(Period[e])
        /\ Kind[e] = "list" => \A i \in 1 .. (Len(List[e]) - 1) : Wide(List[e][i + 1] - List[e][i])

\* After a tick has been recorded the next one is that far away, if there is one.
LEMMA TicksSpaced ==
    ASSUME TicksApart, NEW e \in Event, NEW s \in EventState, NEW t \in Int, Scheduled(e)
    PROVE  \/ Exhausted(e, Recorded(e, s, t))
           \/ Wide(NextTick(e, Recorded(e, s, t)) - NextTick(e, s))
<1> DEFINE n == Len(s.times)
           r == Recorded(e, s, t)
<1>1. n \in Nat /\ List[e] \in Seq(Nat) /\ Start[e] \in Nat /\ Period[e] \in Nat
  BY EventAssumption DEF EventState
<1>2. Len(r.times) = n + 1
  <2>1. NextTick(e, s) \in Int /\ s.times \in Seq(Int)
    BY NextTickType DEF EventState
  <2>2. r.times = Append(s.times, NextTick(e, s))
    BY DEF Recorded, EventState
  <2>3. Len(Append(s.times, NextTick(e, s))) = Len(s.times) + 1
    BY <2>1
  <2> QED BY <2>2, <2>3
<1> HIDE DEF n, r
<1>3. CASE Kind[e] = "periodic"
  <2>1. n * Period[e] \in Nat /\ (n + 1) * Period[e] = n * Period[e] + Period[e]
    <3>1. \A m, k \in Nat : m * k \in Nat /\ (m + 1) * k = m * k + k
      OBVIOUS
    <3> QED BY <1>1, <3>1
  <2>2. NextTick(e, s) = Start[e] + n * Period[e] /\ NextTick(e, r) = Start[e] + (n + 1) * Period[e]
    BY <1>2, <1>3 DEF NextTick, n
  <2>3. NextTick(e, r) - NextTick(e, s) = Period[e]
    BY <1>1, <2>1, <2>2
  <2> QED BY <1>3, <2>3 DEF TicksApart, r
<1>4. CASE Kind[e] = "list"
  <2>1. Len(List[e]) \in Nat
    BY <1>1
  <2>2. CASE n + 1 < Len(List[e])
    <3>1. n + 1 \in 1 .. (Len(List[e]) - 1) /\ n < Len(List[e])
      BY <1>1, <2>1, <2>2
    <3>2. NextTick(e, s) = List[e][n + 1] /\ NextTick(e, r) = List[e][n + 1 + 1]
      BY <1>2, <1>4, <2>2, <3>1 DEF NextTick, n
    <3> QED BY <1>4, <3>1, <3>2 DEF TicksApart, r
  <2>3. CASE ~(n + 1 < Len(List[e]))
    <3>1. Exhausted(e, r)
      BY <1>1, <1>2, <1>4, <2>1, <2>3 DEF Exhausted
    <3> QED BY <3>1 DEF r
  <2> QED BY <2>2, <2>3
<1> QED BY <1>3, <1>4 DEF Scheduled

\* Where the next tick lies depends on the recorded times only.
LEMMA AheadOf ==
    ASSUME NEW e, NEW s, NEW r, s.times = r.times
    PROVE  NextTick(e, s) = NextTick(e, r) /\ (Exhausted(e, s) <=> Exhausted(e, r))
BY DEF NextTick, Exhausted

LEMMA TickInvInit == Init => TickInv
<1> SUFFICES ASSUME Init PROVE TickInv
  OBVIOUS
<1>1. pc = "idle" /\ time = 0 /\ pending = {}
  BY DEF Init
<1>2. \A e \in Event : Scheduled(e) => NextTick(e, ev[e]) \in Nat
  BY TypeInit, NextTickType DEF TypeOK
<1> QED BY <1>1, <1>2 DEF TickInv, TicksAhead, TicksWaiting, TicksBuffered, Ahead

\* A run begins with the ticks of its first instant waiting.
LEMMA TickInvBegin ==
    ASSUME TypeOK, TickInv,
           NEW d \in Durations, NEW a \in Modes, NEW r \in Resets, NEW c \in Chunked,
           Begin(d, a, r, c)
    PROVE  TickInv'
<1> DEFINE t  == IF r THEN 0 ELSE time
           es == ResetEvents(r)
           o  == Outputs(IF r THEN InitialLevel ELSE x, on)
<1>1. /\ pc = "idle" /\ pc' = "initial" /\ time' = t /\ ev' = DetectedAll(es)
      /\ pending' = {[evt |-> e, ratio |-> RatioOf(e, es, o, t), at |-> t] :
                        e \in Detected(es, o, t)}
      /\ run'.adaptive = a
  BY DEF Begin
<1>2. es \in [Event -> EventState] /\ t \in Nat
  BY DEF ResetEvents, FreshEvent, EventState, TypeOK
<1>3. \A e \in Event : Scheduled(e) => NextTick(e, es[e]) \in Nat
  BY <1>2, NextTickType
<1>4. ASSUME NEW e \in Event, Scheduled(e), es[e].active
      PROVE  NextTick(e, es[e]) >= t \/ Exhausted(e, es[e])
  <2>1. CASE r
    <3>1. t = 0
      BY <2>1
    <3> QED BY <1>3, <1>4, <3>1
  <2>2. CASE ~r
    <3>1. es = ev /\ t = time
      BY <2>2 DEF ResetEvents
    <3>2. NextTick(e, ev[e]) > time - 1 \/ Exhausted(e, ev[e])
      BY <1>1, <1>4, <3>1 DEF TickInv, TicksAhead, Ahead
    <3> QED BY <1>2, <1>3, <1>4, <3>1, <3>2
  <2> QED BY <2>1, <2>2
<1> HIDE DEF t, es
<1>5. ASSUME NEW e \in Event
      PROVE  /\ ev'[e].times = es[e].times
             /\ ev'[e].active => es[e].active
             /\ Scheduled(e) => /\ NextTick(e, ev'[e]) = NextTick(e, es[e])
                                /\ Exhausted(e, ev'[e]) <=> Exhausted(e, es[e])
  <2>1. ev'[e] = IF es[e].active THEN AfterDetect(e, es[e]) ELSE es[e]
    BY <1>1 DEF DetectedAll
  <2>2. ev'[e].times = es[e].times
    BY <1>2, <2>1, EventSteps
  <2> QED BY <2>1, <2>2, AheadOf
<1>6. ASSUME NEW e \in Event, Scheduled(e)
      PROVE  e \in Detected(es, o, t) <=>
                es[e].active /\ ~Exhausted(e, es[e]) /\ NextTick(e, es[e]) <= t
  BY <1>6 DEF Detected, Due, TickDue, Scheduled
<1> HIDE DEF o
<1>7. TicksAhead'
  <2> SUFFICES ASSUME NEW e \in Event, Scheduled(e), ev'[e].active
               PROVE  \/ NextTick(e, ev'[e]) > t \/ Exhausted(e, ev'[e])
                      \/ \E p \in pending' : p.evt = e
    BY <1>1 DEF TicksAhead, Ahead, Horizon
  <2>1. CASE e \in Detected(es, o, t)
    <3>1. [evt |-> e, ratio |-> RatioOf(e, es, o, t), at |-> t] \in pending'
      BY <1>1, <2>1
    <3> QED BY <3>1
  <2>2. CASE e \notin Detected(es, o, t)
    BY <1>2, <1>3, <1>5, <1>6, <2>2
  <2> QED BY <2>1, <2>2
<1>8. TicksWaiting'
  <2> SUFFICES ASSUME NEW e \in Detected(es, o, t), Scheduled(e)
               PROVE  NextTick(e, ev'[e]) = t
    BY <1>1 DEF TicksWaiting
  <2>1. e \in Event
    BY DEF Detected
  <2> QED BY <1>2, <1>3, <1>4, <1>5, <1>6, <2>1
<1> QED BY <1>1, <1>7, <1>8 DEF TickInv, TicksBuffered

\* A resolution moves the next tick of its event beyond the step.
LEMMA TickInvResolve ==
    ASSUME TypeOK, StepInv, TimesInv, TickInv, TicksApart, "switch" \notin Effects,
           ResolveInitial \/ ResolveEvent
    PROVE  TickInv'
<1>1. PICK d \in Earliest(pending) : Resolve(d.evt, d.at) /\ pending' = pending \ {d}
  BY DEF ResolveInitial, ResolveEvent
<1>2. /\ pc \in {"initial", "resolve"} /\ UNCHANGED <<pc, time, dt, run>>
      /\ d \in pending /\ d.evt \in Event /\ d.at \in Int
  BY DEF ResolveInitial, ResolveEvent, Earliest, TypeOK
<1>3. /\ time \in Nat /\ dt \in Nat \ {0} /\ DtMin \in Nat \ {0} /\ Dt \in Nat \ {0}
      /\ ev \in [Event -> EventState] /\ Horizon' = Horizon
  BY <1>2, StepAssumption DEF TypeOK, Horizon
<1> DEFINE e == d.evt
           n == NextTick(e, ev[e])
<1>4. /\ ev'[e].times = Recorded(e, ev[e], d.at).times
      /\ \A f \in Event \ {e} : ev'[f].times = ev[f].times /\ (ev'[f].active => ev[f].active)
  BY <1>1, <1>2, ResolveTimes, ResolveActive
<1>5. Scheduled(e) => NextTick(e, ev'[e]) > Horizon \/ Exhausted(e, ev'[e])
  <2> SUFFICES ASSUME Scheduled(e), ~Exhausted(e, ev'[e]) PROVE NextTick(e, ev'[e]) > Horizon
    OBVIOUS
  <2> DEFINE r == Recorded(e, ev[e], d.at)
             m == NextTick(e, r)
  <2>1. n \in Nat /\ m \in Nat
    BY <1>2, <1>3, NextTickType, EventSteps
  <2>2. NextTick(e, ev'[e]) = m /\ (Exhausted(e, ev'[e]) <=> Exhausted(e, r))
    BY <1>4, AheadOf
  <2>3. Wide(m - n)
    BY <1>2, <1>3, <2>2, TicksSpaced
  <2>4. /\ pc = "initial" => n = time
        /\ pc = "resolve" => time < n /\ (run.adaptive => time + dt - n < DtMin)
    BY <1>2 DEF TickInv, TicksWaiting
  <2> HIDE DEF m, n
  <2>5. CASE pc = "initial"
    <3>1. Horizon = time
      BY <2>5 DEF Horizon
    <3> QED BY <1>3, <2>1, <2>2, <2>3, <2>4, <2>5, <3>1 DEF Wide
  <2>6. CASE pc = "resolve" /\ run.adaptive
    <3>1. Horizon = time + dt
      BY <2>6 DEF Horizon
    <3> QED BY <1>3, <2>1, <2>2, <2>3, <2>4, <2>6, <3>1 DEF Wide
  <2>7. CASE pc = "resolve" /\ ~run.adaptive
    <3>1. Horizon = time + dt /\ dt = Dt
      BY <2>7 DEF Horizon, StepInv, FixedStep
    <3>2. FALSE \in Modes
      <4>1. run.adaptive \in Modes /\ run.adaptive \in BOOLEAN
        BY <2>7 DEF TickInv, TypeOK
      <4> QED BY <2>7, <4>1
    <3> QED BY <1>3, <2>1, <2>2, <2>3, <2>4, <2>7, <3>1, <3>2 DEF Wide
  <2> QED BY <1>2, <2>5, <2>6, <2>7
<1>6. ASSUME NEW f \in Event \ {e}
      PROVE  NextTick(f, ev'[f]) = NextTick(f, ev[f]) /\ (Exhausted(f, ev'[f]) <=> Exhausted(f, ev[f]))
  BY <1>4, AheadOf
<1> HIDE DEF n
<1>7. TicksAhead'
  <2> SUFFICES ASSUME NEW f \in Event, Scheduled(f), ev'[f].active
               PROVE  \/ NextTick(f, ev'[f]) > Horizon \/ Exhausted(f, ev'[f])
                      \/ \E p \in pending' : p.evt = f
    BY <1>2, <1>3 DEF TicksAhead, Ahead
  <2>1. CASE f = e
    BY <1>5, <2>1
  <2>2. CASE f # e
    <3>1. Ahead(f, Horizon) \/ \E p \in pending : p.evt = f
      BY <1>2, <1>4, <2>2 DEF TickInv, TicksAhead
    <3> QED BY <1>1, <1>6, <2>2, <3>1 DEF Ahead
  <2> QED BY <2>1, <2>2
<1>8. TicksWaiting'
  <2> SUFFICES ASSUME NEW p \in pending', Scheduled(p.evt)
               PROVE  LET k == NextTick(p.evt, ev'[p.evt])
                      IN  /\ pc = "initial" => k = time
                          /\ pc = "resolve" => time < k /\ (run.adaptive => time + dt - k < DtMin)
    BY <1>2 DEF TicksWaiting
  <2>1. p \in pending /\ p.evt \in Event /\ p.evt # e
    BY <1>1, <1>2 DEF TimesInv, OncePending, TypeOK
  <2> QED BY <1>6, <2>1 DEF TickInv, TicksWaiting
<1> QED BY <1>2, <1>7, <1>8 DEF TickInv, TicksBuffered

\* What a step has found and does not retry lies in reach of its end.
LEMMA TickInvAccept ==
    ASSUME TypeOK, StepInv, TickInv, AcceptEvents
    PROVE  TickInv'
<1>1. /\ pc = "detect" /\ pc' = "resolve" /\ ev' = DetectedAll(ev) /\ UNCHANGED <<time, dt, run>>
      /\ pending' = {[evt |-> e, ratio |-> RatioOf(e, ev, out, time + dt), at |-> LandingTime(e)] :
                        e \in Found}
      /\ ~MustRetry
  BY DEF AcceptEvents
<1>2. /\ ev \in [Event -> EventState] /\ time \in Nat /\ dt \in Nat \ {0} /\ DtMin \in Nat \ {0}
      /\ run.adaptive \in BOOLEAN
  BY StepAssumption DEF TypeOK
<1>3. \A e \in Event : Scheduled(e) => NextTick(e, ev[e]) \in Nat
  BY <1>2, NextTickType
<1>4. ASSUME NEW e \in Event
      PROVE  /\ ev'[e].times = ev[e].times
             /\ ev'[e].active => ev[e].active
             /\ Scheduled(e) => /\ NextTick(e, ev'[e]) = NextTick(e, ev[e])
                                /\ Exhausted(e, ev'[e]) <=> Exhausted(e, ev[e])
  <2>1. ev'[e] = IF ev[e].active THEN AfterDetect(e, ev[e]) ELSE ev[e]
    BY <1>1 DEF DetectedAll
  <2>2. ev'[e].times = ev[e].times
    BY <1>2, <2>1, EventSteps
  <2> QED BY <2>1, <2>2, AheadOf
<1>5. ASSUME NEW e \in Event, Scheduled(e)
      PROVE  e \in Found <=>
                ev[e].active /\ ~Exhausted(e, ev[e]) /\ NextTick(e, ev[e]) <= time + dt
  BY <1>5 DEF Found, Detected, Due, TickDue, Scheduled
<1>6. ASSUME NEW e \in Event, Scheduled(e), ev[e].active
      PROVE  (NextTick(e, ev[e]) > time \/ Exhausted(e, ev[e])) /\ ev[e].at = time
  <2>1. Horizon = time
    BY <1>1 DEF Horizon
  <2> QED BY <1>1, <1>6, <2>1 DEF TickInv, TicksAhead, TicksBuffered, Ahead
<1>7. TicksAhead'
  <2> SUFFICES ASSUME NEW e \in Event, Scheduled(e), ev'[e].active
               PROVE  \/ NextTick(e, ev'[e]) > time + dt \/ Exhausted(e, ev'[e])
                      \/ \E p \in pending' : p.evt = e
    BY <1>1 DEF TicksAhead, Ahead, Horizon
  <2>1. CASE e \in Found
    <3>1. [evt |-> e, ratio |-> RatioOf(e, ev, out, time + dt), at |-> LandingTime(e)] \in pending'
      BY <1>1, <2>1
    <3> QED BY <3>1
  <2>2. CASE e \notin Found
    BY <1>2, <1>3, <1>4, <1>5, <2>2
  <2> QED BY <2>1, <2>2
<1>8. TicksWaiting'
  <2> SUFFICES ASSUME NEW e \in Found, Scheduled(e)
               PROVE  LET n == NextTick(e, ev'[e])
                      IN  time < n /\ (run.adaptive => time + dt - n < DtMin)
    BY <1>1 DEF TicksWaiting
  <2> DEFINE n == NextTick(e, ev[e])
  <2>1. e \in Event
    BY DEF Found, Detected
  <2>2. n \in Nat /\ time < n /\ n <= time + dt /\ ev[e].at = time
    BY <1>3, <1>5, <1>6, <2>1
  <2>3. run.adaptive => dt <= DtMin \/ IsClose(e, out, time + dt)
    BY <1>1, <2>1 DEF MustRetry, AtStepFloor, AllClose
  <2>4. IsClose(e, out, time + dt) => n = time + dt
    <3>1. IsClose(e, out, time + dt) => TickClose(e, ev[e], time + dt)
      BY DEF IsClose, Close, Scheduled
    <3> QED BY <1>2, <2>2, <3>1 DEF TickClose
  <2>5. NextTick(e, ev'[e]) = n
    BY <1>4, <2>1
  <2> HIDE DEF n
  <2> QED BY <1>2, <2>2, <2>3, <2>4, <2>5
<1> QED BY <1>1, <1>7, <1>8 DEF TickInv, TicksBuffered

\* Steps that record nothing and leave the clock alone, or take it to where
\* the next ticks already are.
LEMMA TickInvOther ==
    ASSUME TypeOK, TickInv,
           \/ InitialDone \/ LoopExit \/ Buffer \/ SolveFails \/ StepRejected \/ StagesDone
           \/ RetryAtEvent \/ Commit \/ AdvanceDt \/ Stop \/ RunEnd
           \/ \E t \in (time + 1) .. run.end : RunUntil(t)
    PROVE  TickInv'
<1>1. /\ pc' \notin {"initial", "resolve"} /\ pending' = pending /\ time' = Horizon
      /\ pc # "idle" /\ run'.adaptive = run.adaptive
      /\ pc \in {"initial", "resolve"} => pending = {}
      /\ pc' = "detect" => pc = "stages"
      /\ pc' = "stages" => Buffer
  BY DEF InitialDone, LoopExit, Buffer, SolveFails, StepRejected, StagesDone, RetryAtEvent,
         Commit, AdvanceDt, Stop, RunEnd, RunUntil, Horizon, TypeOK
<1>2. /\ ev \in [Event -> EventState] /\ time \in Nat /\ time' \in Nat
  BY <1>1 DEF TypeOK, Horizon
<1>3. ASSUME NEW e \in Event
      PROVE  ev'[e].times = ev[e].times /\ (ev'[e].active => ev[e].active)
  <2>1. CASE Buffer
    BY <1>2, <2>1 DEF Buffer, Buffered, EventState
  <2>2. CASE RetryAtEvent
    <3>1. ev'[e] = IF ev[e].active THEN AfterDetect(e, ev[e]) ELSE ev[e]
      BY <2>2 DEF RetryAtEvent, DetectedAll
    <3>2. AfterDetect(e, ev[e]).times = ev[e].times
      BY <1>2, EventSteps
    <3> QED BY <3>1, <3>2
  <2>3. CASE ~Buffer /\ ~RetryAtEvent
    BY <2>3 DEF InitialDone, LoopExit, SolveFails, StepRejected, StagesDone,
                Commit, AdvanceDt, Stop, RunEnd, RunUntil
  <2> QED BY <2>1, <2>2, <2>3
<1>4. ASSUME NEW e \in Event, Scheduled(e), ev'[e].active
      PROVE  NextTick(e, ev'[e]) > time' \/ Exhausted(e, ev'[e])
  <2>1. Ahead(e, Horizon)
    BY <1>1, <1>3, <1>4 DEF TickInv, TicksAhead
  <2>2. NextTick(e, ev'[e]) = NextTick(e, ev[e]) /\ (Exhausted(e, ev'[e]) <=> Exhausted(e, ev[e]))
    BY <1>3, AheadOf
  <2> QED BY <1>1, <2>1, <2>2 DEF Ahead
<1>5. TicksAhead'
  <2>1. Horizon' = time'
    BY <1>1 DEF Horizon
  <2>2. \A e \in Event : Scheduled(e) => NextTick(e, ev'[e]) \in Nat
    <3>1. \A e \in Event : Scheduled(e) => NextTick(e, ev[e]) \in Nat
      BY <1>2, NextTickType
    <3> QED BY <1>3, <3>1, AheadOf
  <2> QED BY <1>2, <1>4, <2>1, <2>2 DEF TicksAhead, Ahead
<1>6. TicksWaiting'
  BY <1>1 DEF TicksWaiting
<1>7. TicksBuffered'
  <2>1. CASE Buffer
    BY <1>2, <2>1 DEF TicksBuffered, Buffer, Buffered, EventState
  <2>2. CASE StagesDone
    BY <2>2 DEF TicksBuffered, StagesDone, TickInv
  <2>3. CASE ~Buffer /\ ~StagesDone
    <3>1. pc' \notin {"stages", "detect"}
      BY <2>3 DEF InitialDone, LoopExit, SolveFails, StepRejected, RetryAtEvent,
                  Commit, AdvanceDt, Stop, RunEnd, RunUntil
    <3> QED BY <3>1 DEF TicksBuffered
  <2> QED BY <2>1, <2>2, <2>3
<1> QED BY <1>1, <1>5, <1>6, <1>7 DEF TickInv

LEMMA TickInvStep ==
    ASSUME TicksApart, "switch" \notin Effects
    PROVE  TypeOK /\ StepInv /\ TimesInv /\ TickInv /\ [Next]_vars => TickInv'
<1> SUFFICES ASSUME TypeOK, StepInv, TimesInv, TickInv, [Next]_vars PROVE TickInv'
  OBVIOUS
<1>1. CASE UNCHANGED vars
  BY <1>1 DEF vars, TickInv, TicksAhead, TicksWaiting, TicksBuffered, Ahead, Horizon
<1>2. CASE Progress
  BY <1>2, TickInvResolve, TickInvAccept, TickInvOther DEF Progress
<1>3. CASE Caller
  BY <1>3, TickInvBegin, TickInvOther DEF Caller
<1> QED BY <1>1, <1>2, <1>3 DEF Next

\* The invariant holds in every run whose schedules are wide enough and are not
\* switched on again in the middle.
LEMMA TickInvariant ==
    ASSUME TicksApart, "switch" \notin Effects
    PROVE  Spec => []TickInv
<1>1. Init => TypeOK /\ CommitInv /\ StepInv /\ TimesInv /\ TickInv
  BY TypeInit, CommitInvInit, StepInvInit, TimesInvInit, TickInvInit
<1>2. TypeOK /\ CommitInv /\ StepInv /\ TimesInv /\ TickInv /\ [Next]_vars
        => (TypeOK /\ CommitInv /\ StepInv /\ TimesInv /\ TickInv)'
  BY TypeStep, CommitInvStep, StepInvStep, TimesInvStep, TickInvStep
<1> QED BY <1>1, <1>2, PTL DEF Spec

\* No tick is passed over: between two steps the next tick of a schedule that is
\* on lies ahead of the clock, whatever was retried, cut to an event or clamped,
\* when ticks are no closer than the steps that are not cut to them.
THEOREM TicksNotMissed ==
    ASSUME TicksApart, "switch" \notin Effects
    PROVE  Spec => []NoTickMissed
<1>1. TickInv => NoTickMissed
  BY DEF TickInv, TicksAhead, Ahead, Horizon, NoTickMissed
<1> QED BY <1>1, TickInvariant, PTL

\* In an adaptive run a tick is acted on less than dt_min after it was due.
THEOREM TicksMetOnTime ==
    ASSUME TicksApart, "switch" \notin Effects
    PROVE  Spec => []TicksOnTime
<1>1. TickInv => TicksOnTime
  BY DEF TickInv, TicksWaiting, TicksOnTime
<1> QED BY <1>1, TickInvariant, PTL

-----------------------------------------------------------------------------
(* Implementation of HybridRun *)

\* One time more than before the step, where HybridRun allows it.
OneMore(e, before, after) ==
    \E t \in 0 .. Horizon :
        /\ ~Scheduled(e) => t >= time
        /\ before # <<>> => t >= before[Len(before)]
        /\ after = Append(before, t)

\* What a step under way has recorded is what a single step may record.
AtomicSoFar ==
    pc = "resolve" =>
        /\ \A e \in Event : ev[e].times = base.times[e] \/ OneMore(e, base.times[e], ev[e].times)
        /\ \A d \in pending : ev[d.evt].times = base.times[d.evt]

\* The time a resolution records is not before the last one and within the step.
LEMMA ResolveOneMore ==
    ASSUME TypeOK, TimesInv, pc \in {"initial", "resolve"}, NEW d \in pending, Resolve(d.evt, d.at)
    PROVE  OneMore(d.evt, ev[d.evt].times, ev'[d.evt].times)
<1> DEFINE e == d.evt
           v == IF Scheduled(e) THEN NextTick(e, ev[e]) ELSE d.at
           l == ev[e].times
<1>1. e \in Event /\ d.at \in Nat /\ ev[e] \in EventState /\ Horizon \in Nat /\ time \in Nat
  BY DEF Horizon, TypeOK
<1>2. l \in Seq(Int)
  BY <1>1 DEF EventState
<1>3. ev'[e].times = Append(l, v)
  <2>1. ev'[e].times = Recorded(e, ev[e], d.at).times
    BY <1>1, ResolveTimes
  <2> QED BY <1>1, <2>1 DEF Recorded, EventState
<1>4. v \in 0 .. Horizon /\ Before(l, v) /\ (~Scheduled(e) => v >= time)
  <2>1. CASE Scheduled(e)
    <3>1. NextTick(e, ev[e]) \in Nat
      BY <1>1, <2>1, NextTickType
    <3> QED BY <1>1, <2>1, <3>1 DEF TimesInv, InOrder, PendingWithin
  <2>2. CASE ~Scheduled(e)
    <3>1. Before(l, time) /\ time <= d.at /\ d.at <= Horizon
      BY DEF TimesInv, PendingWithin
    <3>2. \A i \in DOMAIN l : l[i] \in Int
      BY <1>2
    <3> QED BY <1>1, <2>2, <3>1, <3>2 DEF Before
  <2> QED BY <2>1, <2>2
<1> HIDE DEF l, v
<1>5. l # <<>> => v >= l[Len(l)]
  <2> SUFFICES ASSUME l # <<>> PROVE v >= l[Len(l)]
    OBVIOUS
  <2>1. Len(l) \in DOMAIN l /\ l[Len(l)] \in Int
    BY <1>2
  <2> QED BY <1>4, <2>1 DEF Before
<1> QED BY <1>3, <1>4, <1>5 DEF OneMore, l

\* Every step preserves it: acceptance starts with nothing recorded, and each
\* resolution takes its event off the pending ones.
LEMMA AtomicStep ==
    TypeOK /\ CommitInv /\ TimesInv /\ AtomicSoFar /\ [Next]_vars => AtomicSoFar'
<1> SUFFICES ASSUME TypeOK, CommitInv, TimesInv, AtomicSoFar, [Next]_vars PROVE AtomicSoFar'
  OBVIOUS
<1>1. CASE UNCHANGED vars
  BY <1>1 DEF vars, AtomicSoFar, OneMore, Horizon
<1>2. CASE AcceptEvents
  <2>1. pc = "detect" /\ UNCHANGED base /\ ev' = DetectedAll(ev)
    BY <1>2 DEF AcceptEvents
  <2>2. Times(ev') = Times(ev) /\ Times(ev) = base.times
    BY <2>1, FoundType DEF CommitInv, Undoable
  <2>3. \A e \in Event : ev'[e].times = base'.times[e]
    BY <2>1, <2>2 DEF Times
  <2>4. \A d \in pending' : d.evt \in Event
    BY <1>2 DEF AcceptEvents, Found, Detected
  <2> QED BY <2>3, <2>4 DEF AtomicSoFar
<1>3. CASE ResolveEvent
  <2>1. PICK d \in Earliest(pending) : Resolve(d.evt, d.at) /\ pending' = pending \ {d}
    BY <1>3 DEF ResolveEvent
  <2>2. /\ pc = "resolve" /\ pc' = pc /\ UNCHANGED <<base, time, dt>>
        /\ d \in pending /\ d.evt \in Event /\ d.at \in Int
    BY <1>3 DEF ResolveEvent, Earliest, TypeOK
  <2>3. \A f \in Event \ {d.evt} : ev'[f].times = ev[f].times
    BY <2>1, <2>2, ResolveTimes
  <2>4. OneMore(d.evt, ev[d.evt].times, ev'[d.evt].times)
    BY <2>1, <2>2, ResolveOneMore
  <2>5. ev[d.evt].times = base.times[d.evt]
    BY <2>2 DEF AtomicSoFar
  <2>6. Horizon' = Horizon
    BY <2>2 DEF Horizon
  <2>7. ASSUME NEW e \in Event
        PROVE  (ev[e].times = base.times[e] \/ OneMore(e, base.times[e], ev[e].times))'
    <3>1. CASE e = d.evt
      BY <2>2, <2>4, <2>5, <2>6, <3>1 DEF OneMore
    <3>2. CASE e # d.evt
      <4>1. ev[e].times = base.times[e] \/ OneMore(e, base.times[e], ev[e].times)
        BY <2>2 DEF AtomicSoFar
      <4> QED BY <2>2, <2>3, <2>6, <3>2, <4>1 DEF OneMore
    <3> QED BY <3>1, <3>2
  <2>8. ASSUME NEW f \in pending' PROVE ev'[f.evt].times = base'.times[f.evt]
    <3>1. f \in pending /\ f.evt \in Event /\ f.evt # d.evt
      BY <2>1, <2>2 DEF TimesInv, OncePending, TypeOK
    <3> QED BY <2>2, <2>3, <3>1 DEF AtomicSoFar
  <2> QED BY <2>7, <2>8 DEF AtomicSoFar
<1>4. CASE Next /\ ~AcceptEvents /\ ~ResolveEvent
  <2>1. pc' # "resolve"
    BY <1>4 DEF Next, Progress, Caller, Begin, RunUntil, Stop, RunEnd, ResolveInitial, InitialDone,
                LoopExit, Buffer, SolveFails, StepRejected, StagesDone, RetryAtEvent, Commit, AdvanceDt
  <2> QED BY <2>1 DEF AtomicSoFar
<1> QED BY <1>1, <1>2, <1>3, <1>4

\* Every step of the run loop is a step of HybridRun, or invisible in it.
LEMMA StepsRefine ==
    ASSUME TypeOK, CommitInv, TimesInv, AtomicSoFar, [Next]_vars
    PROVE  [Run!Next]_(Run!runVars)
<1>1. CASE UNCHANGED vars
  BY <1>1 DEF vars, Run!runVars, Shown
<1>2. ASSUME NEW d \in Durations, NEW a \in Modes, NEW r \in Resets, NEW c \in Chunked,
             Begin(d, a, r, c)
      PROVE  [Run!Next]_(Run!runVars)
  <2>1. /\ pc = "idle" /\ pc' = "initial" /\ time' = (IF r THEN 0 ELSE time)
        /\ ev' = DetectedAll(ResetEvents(r)) /\ sampled' = sampled
    BY <1>2 DEF Begin
  <2>2. ResetEvents(r) \in [Event -> EventState]
    BY DEF ResetEvents, FreshEvent, EventState, TypeOK
  <2>3. Times(ev') = Times(ResetEvents(r))
    <3>1. \A e \in Event : ev'[e].times = ResetEvents(r)[e].times
      <4> TAKE e \in Event
      <4>1. ev'[e] = IF ResetEvents(r)[e].active THEN AfterDetect(e, ResetEvents(r)[e]) ELSE ResetEvents(r)[e]
        BY <2>1 DEF DetectedAll
      <4>2. AfterDetect(e, ResetEvents(r)[e]).times = ResetEvents(r)[e].times
        BY <2>2, EventSteps
      <4> QED BY <4>1, <4>2
    <3> QED BY <3>1 DEF Times
  <2>4. Shown = Times(ev) /\ Shown' = Times(ev')
    BY <2>1 DEF Shown
  <2>5. CASE r
    <3>1. Times(ev') = NoTimes
      BY <2>3, <2>5 DEF ResetEvents, FreshEvent, Times, NoTimes
    <3>2. Run!StartOver
      BY <2>1, <2>4, <2>5, <3>1 DEF Run!StartOver
    <3> QED BY <3>2 DEF Run!Next
  <2>6. CASE ~r
    BY <2>1, <2>3, <2>4, <2>6 DEF ResetEvents, Run!runVars
  <2> QED BY <2>5, <2>6
<1>3. CASE ResolveInitial
  <2>1. PICK d \in Earliest(pending) : Resolve(d.evt, d.at) /\ pending' = pending \ {d}
    BY <1>3 DEF ResolveInitial
  <2>2. /\ pc = "initial" /\ pc' = pc /\ UNCHANGED <<time, sampled>>
        /\ d \in pending /\ d.evt \in Event /\ d.at \in Int
    BY <1>3 DEF ResolveInitial, Earliest, TypeOK
  <2>3. OneMore(d.evt, ev[d.evt].times, ev'[d.evt].times)
    BY <2>1, <2>2, ResolveOneMore
  <2>4. \A f \in Event \ {d.evt} : ev'[f].times = ev[f].times
    BY <2>1, <2>2, ResolveTimes
  <2>5. Shown = Times(ev) /\ Shown' = Times(ev') /\ Horizon = time
    BY <2>2 DEF Shown, Horizon
  <2>6. Run!Fires(d.evt, time, time)
    BY <2>2, <2>3, <2>5 DEF OneMore, Run!Fires, Run!LastOf, Times
  <2>7. Run!FireAtStart
    BY <2>2, <2>4, <2>5, <2>6 DEF Run!FireAtStart, Times
  <2> QED BY <2>7 DEF Run!Next
<1>4. CASE InitialDone
  <2>1. Run!SampleAtStart
    BY <1>4 DEF InitialDone, Run!SampleAtStart, Shown
  <2> QED BY <2>1 DEF Run!Next
<1>5. CASE Commit
  <2>1. /\ pc = "resolve" /\ pc' # "resolve" /\ pending = {} /\ time' = time + dt
        /\ sampled'.t = time + dt /\ UNCHANGED ev
    BY <1>5 DEF Commit
  <2>2. Shown = base.times /\ Shown' = Times(ev) /\ Horizon = time'
    BY <2>1 DEF Shown, Horizon
  <2>3. time' > time
    BY <2>1 DEF TypeOK
  <2>4. ASSUME NEW e \in Event PROVE Shown'[e] = Shown[e] \/ Run!Fires(e, time, time')
    <3>1. ev[e].times = base.times[e] \/ OneMore(e, base.times[e], ev[e].times)
      BY <2>1 DEF AtomicSoFar
    <3>2. Shown'[e] = ev[e].times
      BY <2>2 DEF Times
    <3>3. CASE OneMore(e, base.times[e], ev[e].times)
      BY <2>2, <3>2, <3>3 DEF OneMore, Run!Fires, Run!LastOf
    <3> QED BY <2>2, <3>1, <3>2, <3>3
  <2>5. DOMAIN Shown' = Event
    BY <2>2 DEF Times
  <2>6. Run!Step
    BY <2>1, <2>3, <2>4, <2>5 DEF Run!Step
  <2> QED BY <2>6 DEF Run!Next
<1>6. CASE \/ LoopExit \/ Buffer \/ SolveFails \/ StepRejected \/ StagesDone \/ RetryAtEvent
            \/ AcceptEvents \/ ResolveEvent \/ AdvanceDt \/ Stop \/ RunEnd
            \/ \E t \in (time + 1) .. run.end : RunUntil(t)
  <2>1. UNCHANGED <<time, sampled>>
    BY <1>6 DEF LoopExit, Buffer, SolveFails, StepRejected, StagesDone, RetryAtEvent,
                AcceptEvents, ResolveEvent, AdvanceDt, Stop, RunEnd, RunUntil
  <2>2. Shown' = Shown
    <3>1. CASE Buffer
      <4>1. \A e \in Event : ev'[e].times = ev[e].times
        BY <3>1 DEF Buffer, Buffered, TypeOK, EventState
      <4> QED BY <3>1, <4>1 DEF Buffer, Shown, Times
    <3>2. CASE RetryAtEvent
      BY <3>2, FoundType DEF RetryAtEvent, Shown
    <3>3. CASE AcceptEvents
      BY <3>3, FoundType DEF AcceptEvents, Shown, CommitInv, Undoable
    <3>4. CASE ResolveEvent
      BY <3>4 DEF ResolveEvent, Shown
    <3>5. CASE \/ LoopExit \/ SolveFails \/ StepRejected \/ StagesDone \/ AdvanceDt \/ Stop \/ RunEnd
               \/ \E t \in (time + 1) .. run.end : RunUntil(t)
      BY <3>5 DEF LoopExit, SolveFails, StepRejected, StagesDone, AdvanceDt, Stop, RunEnd, RunUntil,
                  Shown
    <3> QED BY <1>6, <3>1, <3>2, <3>3, <3>4, <3>5
  <2> QED BY <2>1, <2>2 DEF Run!runVars
<1> QED BY <1>1, <1>2, <1>3, <1>4, <1>5, <1>6 DEF Next, Progress, Caller

\* timestep is atomic: whatever attempts, retries and partial resolutions it
\* goes through, a run is a sequence of the steps of HybridRun.
THEOREM TimestepAtomic == Spec => ImplementsHybridRun
<1>1. Init => TypeOK /\ CommitInv /\ TimesInv /\ AtomicSoFar /\ Run!Init
  <2>1. Init => AtomicSoFar /\ Run!Init
    BY DEF Init, AtomicSoFar, Run!Init, Shown, Times, NoTimes, FreshEvent
  <2> QED BY <2>1, TypeInit, TimesInvInit, CommitInvInit
<1>2. TypeOK /\ CommitInv /\ TimesInv /\ AtomicSoFar /\ [Next]_vars
        => (TypeOK /\ CommitInv /\ TimesInv /\ AtomicSoFar)' /\ [Run!Next]_(Run!runVars)
  BY TypeStep, CommitInvStep, TimesInvStep, AtomicStep, StepsRefine
<1> QED BY <1>1, <1>2, PTL DEF Spec, ImplementsHybridRun, Run!Spec
=============================================================================
