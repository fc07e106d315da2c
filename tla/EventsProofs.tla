---------------------------- MODULE EventsProofs ----------------------------
(***************************************************************************)
(* What the operators on event states return, for the proofs about the two *)
(* run loops that use them.                                                *)
(***************************************************************************)
EXTENDS Events, TLAPS

\* The next tick of a schedule is a time, also after the schedule has run out.
LEMMA NextTickType ==
    ASSUME NEW e \in Event, NEW s \in EventState, Scheduled(e)
    PROVE  NextTick(e, s) \in Nat
<1> DEFINE n == Len(s.times)
<1>1. n \in Nat /\ List[e] \in Seq(Nat) /\ Start[e] \in Nat /\ Period[e] \in Nat
  BY EventAssumption DEF EventState
<1>2. CASE Kind[e] = "periodic"
  <2>1. n * Period[e] \in Nat
    BY <1>1
  <2> QED BY <1>1, <1>2, <2>1 DEF NextTick
<1>3. CASE Kind[e] = "list"
  <2>1. Len(List[e]) \in Nat \ {0}
    BY <1>3, EventAssumption
  <2>2. CASE n < Len(List[e])
    <3>1. n + 1 \in 1 .. Len(List[e])
      BY <1>1, <2>1, <2>2
    <3>2. List[e][n + 1] \in Nat
      BY <1>1, <3>1
    <3> QED BY <1>3, <2>2, <3>2 DEF NextTick
  <2>3. CASE ~(n < Len(List[e]))
    <3>1. List[e][Len(List[e])] \in Nat
      BY <1>1, <2>1
    <3> QED BY <1>3, <2>3, <3>1 DEF NextTick
  <2> QED BY <2>2, <2>3
<1> QED BY <1>2, <1>3 DEF Scheduled

\* A detected event lies at a proper fraction of the step: no division by zero,
\* whatever the event has buffered.
LEMMA RatioIsRatio ==
    ASSUME NEW e \in Event, NEW s \in EventState, NEW r \in Int, NEW t \in Int,
           Due(e, s, r, t)
    PROVE  Ratio(e, s, r, t) \in RatioType
<1>1. CASE Scheduled(e)
  <2>1. NextTick(e, s) \in Nat /\ s.at \in Int
    BY <1>1, NextTickType DEF EventState
  <2>2. NextTick(e, s) <= t
    BY <1>1 DEF Due, TickDue, Scheduled
  <2>3. TickRatio(e, s, t) \in RatioType
    BY <2>1, <2>2 DEF TickRatio, Magnitude, RatioType
  <2> QED BY <1>1, <2>3 DEF Ratio, Scheduled
<1>2. CASE Kind[e] = "crossing"
  <2>1. CrossingDue(e, s, r) /\ ~Scheduled(e)
    BY <1>2 DEF Due, Scheduled
  <2>2. s.val \in Int
    BY <2>1 DEF CrossingDue, EventState
  <2>3. CrossingRatio(e, s, r) \in RatioType
    BY <2>1, <2>2 DEF CrossingDue, CrossingRatio, SignChange, Magnitude, RatioType
  <2> QED BY <1>2, <2>1, <2>3 DEF Ratio, Scheduled
<1>3. CASE Kind[e] = "condition"
  BY <1>3 DEF Ratio, ConditionRatio, RatioType, Scheduled
<1> QED BY <1>1, <1>2, <1>3, EventAssumption DEF Scheduled

\* buffer, detect's side effect, the record of a resolution and the disarming of
\* a Condition leave an event state.
LEMMA EventSteps ==
    ASSUME NEW e \in Event, NEW s \in EventState, NEW t \in Int, NEW r \in Int
    PROVE  /\ AfterDetect(e, s) \in EventState
           /\ Buffered(e, s, r, t) \in EventState
           /\ Recorded(e, s, t) \in EventState
           /\ Disarmed(e, s) \in EventState
           /\ AfterDetect(e, s).times = s.times
<1>1. AfterDetect(e, s) \in EventState /\ AfterDetect(e, s).times = s.times
  BY DEF AfterDetect, EventState
<1>2. Buffered(e, s, r, t) \in EventState
  BY DEF Buffered, EventState
<1>3. Recorded(e, s, t) \in EventState
  <2>1. (IF Scheduled(e) THEN NextTick(e, s) ELSE t) \in Int
    BY NextTickType
  <2>2. s.times \in Seq(Int)
    BY DEF EventState
  <2>3. Append(s.times, IF Scheduled(e) THEN NextTick(e, s) ELSE t) \in Seq(Int)
    BY <2>1, <2>2
  <2> QED BY <2>3 DEF Recorded, EventState
<1>4. Disarmed(e, s) \in EventState
  BY DEF Disarmed, EventState
<1> QED BY <1>1, <1>2, <1>3, <1>4

(* Recorded times *)

\* No time in s is later than t; the times in s ascend.
Before(s, t) == \A i \in DOMAIN s : s[i] <= t
Ordered(s) == \A i \in 1 .. (Len(s) - 1) : s[i] <= s[i + 1]

\* Appending a time that is not before the others keeps a list in order.
LEMMA AppendOrdered ==
    ASSUME NEW s \in Seq(Int), NEW v \in Int, NEW w \in Int, Ordered(s), Before(s, v), v <= w
    PROVE  Ordered(Append(s, v)) /\ Before(Append(s, v), w)
<1> DEFINE l == Append(s, v)
<1>1. Len(l) = Len(s) + 1 /\ Len(s) \in Nat /\ DOMAIN l = 1 .. (Len(s) + 1) /\ DOMAIN s = 1 .. Len(s)
  OBVIOUS
<1>2. l[Len(s) + 1] = v /\ \A i \in 1 .. Len(s) : l[i] = s[i] /\ s[i] \in Int
  OBVIOUS
<1> HIDE DEF l
<1>3. Ordered(l)
  <2> SUFFICES ASSUME NEW i \in 1 .. (Len(l) - 1) PROVE l[i] <= l[i + 1]
    BY DEF Ordered
  <2>1. i \in 1 .. Len(s)
    BY <1>1
  <2>2. CASE i = Len(s)
    <3>1. l[i] = s[i] /\ l[i + 1] = v
      BY <1>2, <2>1, <2>2
    <3>2. s[i] <= v
      BY <1>1, <2>1 DEF Before
    <3> QED BY <3>1, <3>2
  <2>3. CASE i # Len(s)
    <3>1. \A n \in Nat : \A k \in 1 .. n : k # n => k \in 1 .. (n - 1) /\ k + 1 \in 1 .. n
      OBVIOUS
    <3>2. i \in 1 .. (Len(s) - 1) /\ i + 1 \in 1 .. Len(s)
      BY <1>1, <2>1, <2>3, <3>1
    <3> QED BY <1>2, <3>2 DEF Ordered
  <2> QED BY <2>2, <2>3
<1>4. Before(l, w)
  BY <1>1, <1>2 DEF Before
<1> QED BY <1>3, <1>4 DEF l

\* Recording a tick does not bring the next one forward.
LEMMA TicksAscend ==
    ASSUME NEW e \in Event, NEW s \in EventState, NEW t \in Int, Scheduled(e)
    PROVE  NextTick(e, s) <= NextTick(e, Recorded(e, s, t))
<1> DEFINE n == Len(s.times)
           r == Recorded(e, s, t)
<1>1. n \in Nat /\ List[e] \in Seq(Nat) /\ Start[e] \in Nat /\ Period[e] \in Nat
  BY EventAssumption DEF EventState
<1>2. Len(r.times) = n + 1
  <2>1. NextTick(e, s) \in Int /\ s.times \in Seq(Int)
    BY NextTickType DEF EventState
  <2>2. r.times = Append(s.times, NextTick(e, s))
    BY DEF Recorded, EventState
  <2>3. Len(Append(s.times, NextTick(e, s))) = Len(s.times) + 1
    BY <2>1
  <2> QED BY <2>2, <2>3
<1> HIDE DEF n, r
<1>3. CASE Kind[e] = "periodic"
  <2>1. n * Period[e] \in Nat /\ (n + 1) * Period[e] = n * Period[e] + Period[e]
    <3>1. \A m, k \in Nat : m * k \in Nat /\ (m + 1) * k = m * k + k
      OBVIOUS
    <3> QED BY <1>1, <3>1
  <2>2. NextTick(e, s) = Start[e] + n * Period[e] /\ NextTick(e, r) = Start[e] + (n + 1) * Period[e]
    BY <1>2, <1>3 DEF NextTick, n
  <2> QED BY <1>1, <2>1, <2>2 DEF r
<1>4. CASE Kind[e] = "list"
  <2>1. Len(List[e]) \in Nat \ {0}
    BY <1>1, <1>4, EventAssumption
  <2>2. \A i \in 1 .. Len(List[e]) : List[e][i] \in Nat
    BY <1>1
  <2>3. /\ NextTick(e, s) = IF n < Len(List[e]) THEN List[e][n + 1] ELSE List[e][Len(List[e])]
        /\ NextTick(e, r) = IF n + 1 < Len(List[e]) THEN List[e][n + 1 + 1] ELSE List[e][Len(List[e])]
    BY <1>2, <1>4 DEF NextTick, n
  <2>4. CASE n + 1 < Len(List[e])
    <3>1. n + 1 \in 1 .. (Len(List[e]) - 1)
      BY <1>1, <2>1, <2>4
    <3>2. List[e][n + 1] <= List[e][n + 1 + 1]
      BY <3>1, EventAssumption
    <3> QED BY <1>1, <2>1, <2>3, <2>4, <3>2 DEF r
  <2>5. CASE n + 1 = Len(List[e])
    BY <1>1, <2>1, <2>2, <2>3, <2>5 DEF r
  <2>6. CASE n + 1 > Len(List[e])
    BY <1>1, <2>1, <2>2, <2>3, <2>6 DEF r
  <2> QED BY <1>1, <2>1, <2>4, <2>5, <2>6
<1> QED BY <1>3, <1>4 DEF Scheduled

\* NextTick depends on the recorded times only.
LEMMA NextTickOf ==
    ASSUME NEW e, NEW s, NEW r, s.times = r.times
    PROVE  NextTick(e, s) = NextTick(e, r)
BY DEF NextTick

\* A schedule is due when its next tick has come.
LEMMA DueTick ==
    ASSUME NEW e, NEW s, NEW r, NEW t, Scheduled(e), Due(e, s, r, t)
    PROVE  NextTick(e, s) <= t
BY DEF Due, TickDue, Scheduled

=============================================================================
