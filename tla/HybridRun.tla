------------------------------ MODULE HybridRun ------------------------------
(***************************************************************************)
(* What a run promises to whoever watches it: a clock that only moves      *)
(* forward, in steps that happen at once.  A step takes the clock to its   *)
(* end, records at most one new time per event, none of them before the    *)
(* event's last one or behind the end of the step, guard events not before *)
(* the step began either, and is seen by the recorders exactly once, at    *)
(* its end.  Stages, rejected attempts, localization probes and the order  *)
(* of the calls inside timestep are invisible.                             *)
(***************************************************************************)
EXTENDS Integers, Sequences

CONSTANTS
    Event,      \* the events
    Guard,      \* the events detected by evaluating a guard
    NoTimes     \* no event has been recorded yet

VARIABLES
    clock,      \* simulation time
    fired,      \* the times each event was recorded at
    seen        \* when the recorders last saw the system

runVars == <<clock, fired, seen>>

LastOf(s) == s[Len(s)]

\* One more time for e, in order and within from .. upto.
Fires(e, from, upto) ==
    \E t \in 0 .. upto :
        /\ e \in Guard => t >= from
        /\ fired[e] # <<>> => t >= LastOf(fired[e])
        /\ fired'[e] = Append(fired[e], t)

Init ==
    /\ clock = 0
    /\ fired = NoTimes
    /\ seen = 0

\* run(reset = true): everything starts over.
StartOver ==
    /\ clock' = 0
    /\ fired' = NoTimes
    /\ UNCHANGED seen

\* An event is found due at the instant a run begins.
FireAtStart ==
    /\ DOMAIN fired' = Event
    /\ \E e \in Event :
          /\ Fires(e, clock, clock)
          /\ \A f \in Event \ {e} : fired'[f] = fired[f]
    /\ UNCHANGED <<clock, seen>>

\* The recorders see the system at the instant a run begins.
SampleAtStart ==
    /\ seen' = clock
    /\ UNCHANGED <<clock, fired>>

Step ==
    /\ clock' > clock
    /\ seen' = clock'
    /\ DOMAIN fired' = Event
    /\ \A e \in Event : fired'[e] = fired[e] \/ Fires(e, clock, clock')

Next == StartOver \/ FireAtStart \/ SampleAtStart \/ Step

Spec == Init /\ [][Next]_runVars

=============================================================================
