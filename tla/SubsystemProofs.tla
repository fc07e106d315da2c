---------------------------- MODULE SubsystemProofs ----------------------------
(***************************************************************************)
(* Proofs about Subsystem for every tree of blocks, any orders, any length *)
(* of the ring, and any sequence of attempts, probes, edits and switches.  *)
(***************************************************************************)
EXTENDS Subsystem, Induction, FiniteSetTheorems

-----------------------------------------------------------------------------
(* The ring.                                                               *)

\* The newest n elements are the first ones.
LEMMA NewestFacts ==
  ASSUME NEW S, NEW s \in Seq(S), NEW n \in Nat
  PROVE  /\ Newest(s, n) \in Seq(S)
         /\ Len(Newest(s, n)) = IF Len(s) < n THEN Len(s) ELSE n
         /\ \A i \in 1 .. Len(Newest(s, n)) : Newest(s, n)[i] = s[i]
  <1> DEFINE m == IF Len(s) < n THEN Len(s) ELSE n
  <1>1. m \in 0 .. Len(s) OBVIOUS
  <1>2. Newest(s, n) = SubSeq(s, 1, m) BY DEF Newest
  <1> HIDE DEF m
  <1>3. SubSeq(s, 1, m) \in Seq(S) /\ Len(SubSeq(s, 1, m)) = m BY <1>1
  <1>4. \A i \in 1 .. m : SubSeq(s, 1, m)[i] = s[i] BY <1>1
  <1>5. QED BY <1>2, <1>3, <1>4 DEF m

\* A ring r of members of S: a, and then the newest n entries of s.
IsPush(r, S, a, s, n) ==
    /\ r \in Seq(S) /\ r # <<>> /\ Head(r) = a /\ r[1] = a
    /\ Len(r) = 1 + (IF Len(s) < n THEN Len(s) ELSE n)
    /\ \A i \in 2 .. Len(r) : r[i] = s[i - 1]

\* A ring with a new entry in front.
LEMMA PushFacts ==
  ASSUME NEW S, NEW a \in S, NEW s \in Seq(S), NEW n \in Nat
  PROVE  IsPush(<<a>> \o Newest(s, n), S, a, s, n)
  <1> DEFINE q == Newest(s, n)
             r == <<a>> \o q
  <1>1. /\ q \in Seq(S) /\ Len(q) = (IF Len(s) < n THEN Len(s) ELSE n)
        /\ \A i \in 1 .. Len(q) : q[i] = s[i]
    BY NewestFacts
  <1> HIDE DEF q
  <1>2. r \in Seq(S) /\ Len(r) = 1 + Len(q) /\ r[1] = a /\ Head(r) = a /\ r # <<>> BY <1>1
  <1>3. \A i \in 2 .. Len(r) : r[i] = s[i - 1]
    <2>1. TAKE i \in 2 .. Len(r)
    <2>2. i \in 2 .. 1 + Len(q) /\ Len(q) \in Nat BY <1>1, <1>2
    <2>3. i - 1 \in 1 .. Len(q) BY <2>2
    <2>4. r[i] = q[i - 1] BY <1>1, <2>2
    <2>5. QED BY <1>1, <2>3, <2>4
  <1>4. QED BY <1>1, <1>2, <1>3 DEF q, IsPush

\* What is left of a ring when its newest entry is dropped.
LEMMA PoppedFacts ==
  ASSUME NEW S, NEW s \in Seq(S), s # <<>>
  PROVE  /\ Popped(s) \in Seq(S) /\ Len(Popped(s)) = Len(s) - 1 /\ Head(s) \in S /\ Head(s) = s[1]
         /\ \A i \in 1 .. Len(s) - 1 : Popped(s)[i] = s[i + 1]
         /\ Popped(s) # <<>> => Head(Popped(s)) = s[2] /\ Len(s) >= 2
  <1>1. Popped(s) = Tail(s) BY DEF Popped
  <1>2. Len(s) \in Nat /\ Len(s) >= 1 /\ Head(s) \in S /\ Head(s) = s[1] OBVIOUS
  <1>3. Tail(s) \in Seq(S) /\ Len(Tail(s)) = Len(s) - 1 OBVIOUS
  <1>4. \A i \in 1 .. Len(s) - 1 : Tail(s)[i] = s[i + 1] OBVIOUS
  <1>5. Tail(s) # <<>> => Head(Tail(s)) = s[2] /\ Len(s) >= 2
    <2>1. SUFFICES ASSUME Tail(s) # <<>> PROVE Head(Tail(s)) = s[2] /\ Len(s) >= 2 OBVIOUS
    <2>2. Len(Tail(s)) >= 1 /\ Head(Tail(s)) = Tail(s)[1] BY <1>3, <2>1
    <2>3. 1 \in 1 .. Len(s) - 1 BY <1>2, <1>3, <2>2
    <2>4. QED BY <1>2, <1>4, <2>2, <2>3
  <1>6. QED BY <1>1, <1>2, <1>3, <1>4, <1>5

-----------------------------------------------------------------------------
(* What the operations of an engine do to it.                              *)

\* The state is where the last step of the ring ends.
Linked(e) == e.history # <<>> => e.x.at = Head(e.history).at + Head(e.dts)

IsBuffered(q, e, d) ==
    /\ q \in Engine /\ IsTimeline(q) /\ q.history # <<>>
    /\ Head(q.history) = e.x /\ Head(q.dts) = d
    /\ Len(q.history) = 1 + (IF Len(e.history) < HistoryLen - 1
                             THEN Len(e.history) ELSE HistoryLen - 1)
    /\ q.order \in 1 .. Len(q.history)
    /\ ~q.open /\ ~q.seeking

\* A new attempt puts the state into the ring.
LEMMA BufferedFacts ==
  ASSUME NEW e \in Engine, IsTimeline(e), Linked(e), NEW d \in Nat
  PROVE  IsBuffered(Buffered(e, d), e, d)
  <1> USE DEF Order
  <1> DEFINE n == HistoryLen - 1
             h == <<e.x>> \o Newest(e.history, n)
             w == <<d>> \o Newest(e.dts, n)
             a == [e EXCEPT !.open = FALSE, !.seeking = FALSE]
             p == [a EXCEPT !.history = h, !.dts = w]
  <1>1. /\ MinOrder \in Nat \ {0} /\ MaxOrder \in Nat /\ HistoryLen \in Nat
        /\ MinOrder <= MaxOrder /\ MaxOrder < HistoryLen /\ n \in Nat
    BY GearAssumption
  <1>2. e.x \in State /\ e.history \in Seq(State) /\ e.dts \in Seq(Nat) /\ e.target \in Order
    BY DEF Engine
  <1>3. /\ h \in Seq(State) /\ h # <<>> /\ Head(h) = e.x /\ h[1] = e.x
        /\ Len(h) = 1 + (IF Len(e.history) < n THEN Len(e.history) ELSE n)
        /\ \A i \in 2 .. Len(h) : h[i] = e.history[i - 1]
    <2>1. IsPush(h, State, e.x, e.history, n) BY <1>1, <1>2, PushFacts
    <2>2. QED BY <2>1 DEF IsPush
  <1>4. /\ w \in Seq(Nat) /\ w # <<>> /\ Head(w) = d /\ w[1] = d
        /\ Len(w) = 1 + (IF Len(e.dts) < n THEN Len(e.dts) ELSE n)
        /\ \A i \in 2 .. Len(w) : w[i] = e.dts[i - 1]
    <2>1. IsPush(w, Nat, d, e.dts, n) BY <1>1, <1>2, PushFacts
    <2>2. QED BY <2>1 DEF IsPush
  <1> HIDE DEF h, w, n
  <1>5. Len(w) = Len(h) /\ Len(h) \in Nat /\ Len(h) >= 1 BY <1>1, <1>2, <1>3, <1>4 DEF IsTimeline
  <1>6. a \in Engine /\ a.x = e.x /\ a.target = e.target /\ a.open = FALSE /\ a.seeking = FALSE
        /\ a.history = e.history /\ a.dts = e.dts
    BY DEF Engine
  <1>7. [[Pushed(e) EXCEPT !.dts = <<d>> \o Newest(@, HistoryLen - 1)]
            EXCEPT !.order = ActiveOrder([Pushed(e) EXCEPT !.dts = <<d>> \o Newest(@, HistoryLen - 1)])]
        = [p EXCEPT !.order = ActiveOrder(p)]
    <2>1. Pushed(e) = [a EXCEPT !.history = h] BY <1>6 DEF Pushed, Closed, h, n
    <2>2. [Pushed(e) EXCEPT !.dts = <<d>> \o Newest(@, HistoryLen - 1)] = p
      <3>1. Pushed(e).dts = e.dts BY <1>6, <2>1 DEF Engine
      <3>2. QED BY <2>1, <3>1 DEF w, n
    <2>3. QED BY <2>2
  <1> HIDE DEF a
  <1>8. p \in Engine /\ p.x = e.x /\ p.target = e.target /\ p.open = FALSE /\ p.seeking = FALSE
        /\ p.history = h /\ p.dts = w
    BY <1>3, <1>4, <1>6 DEF Engine
  <1> HIDE DEF p
  <1> DEFINE o == ActiveOrder(p)
             q == [p EXCEPT !.order = o]
             y == Predicted(q)
  <1>9. o \in 1 .. Len(h) /\ o \in Order
    BY <1>1, <1>2, <1>5, <1>8 DEF ActiveOrder
  <1> HIDE DEF o
  <1>10. q \in Engine /\ q.x = e.x /\ q.open = FALSE /\ q.seeking = FALSE
         /\ q.history = h /\ q.dts = w /\ q.order = o
    BY <1>8, <1>9 DEF Engine
  <1>11. Buffered(e, d) = [q EXCEPT !.x = y] BY <1>7 DEF Buffered, o, p
  <1> HIDE DEF q
  <1>12. y \in State
    <2>1. Head(w) = d BY <1>4
    <2>2. e.x.at + d \in Nat BY <1>2 DEF State
    <2>3. y = e.x \/ y = [e.x EXCEPT !.at = e.x.at + d] BY <1>10, <2>1 DEF Predicted
    <2>4. QED BY <1>2, <2>2, <2>3 DEF State
  <1> HIDE DEF y
  <1> DEFINE b == Buffered(e, d)
  <1>13. b \in Engine /\ b.open = FALSE /\ b.seeking = FALSE
         /\ b.history = h /\ b.dts = w /\ b.order = o
    BY <1>10, <1>11, <1>12 DEF Engine
  <1>14. \A i \in 2 .. Len(h) : h[i - 1].at = h[i].at + w[i]
    <2>1. TAKE i \in 2 .. Len(h)
    <2>2. h[i] = e.history[i - 1] /\ w[i] = e.dts[i - 1] BY <1>3, <1>4, <1>5
    <2>3. /\ Len(e.history) \in Nat /\ Len(e.dts) = Len(e.history)
          /\ i - 1 \in 1 .. Len(e.history)
      BY <1>1, <1>2, <1>3 DEF IsTimeline
    <2>4. CASE i = 2
      <3>1. e.history # <<>> /\ e.dts # <<>> BY <2>3
      <3>2. Head(e.history) = e.history[1] /\ Head(e.dts) = e.dts[1] BY <1>2, <3>1
      <3>3. QED BY <1>3, <2>2, <2>4, <3>1, <3>2 DEF Linked
    <2>5. CASE i # 2
      <3>1. i - 1 \in 2 .. Len(h) /\ i - 1 \in 2 .. Len(e.history) BY <1>5, <2>3, <2>5
      <3>2. h[i - 1] = e.history[(i - 1) - 1] BY <1>3, <3>1
      <3>3. QED BY <2>2, <3>1, <3>2 DEF IsTimeline
    <2>6. QED BY <2>4, <2>5
  <1>15. IsTimeline(b) BY <1>5, <1>13, <1>14 DEF IsTimeline
  <1> HIDE DEF b
  <1>16. IsBuffered(b, e, d)
    BY <1>3, <1>4, <1>9, <1>13, <1>15 DEF n, IsBuffered
  <1>17. QED BY <1>16 DEF b

IsSolved(s, e, bad) ==
    /\ s \in Engine
    /\ s.x.at = Head(e.history).at + Head(e.dts)
    /\ s.x.epoch = Head(e.history).epoch
    /\ ~bad => s.x.nan = Head(e.history).nan
    /\ s.history = e.history /\ s.dts = e.dts /\ s.order = e.order
    /\ s.open = e.open /\ s.seeking = e.seeking

\* The corrector ends at the end of the step and leaves the rest alone.
LEMMA SolvedFacts ==
  ASSUME NEW e \in Engine, e.history # <<>>, e.dts # <<>>, NEW bad \in BOOLEAN
  PROVE  IsSolved(Solved(e, bad), e, bad)
  <1> DEFINE y == [at |-> Head(e.history).at + Head(e.dts),
                   epoch |-> Head(e.history).epoch,
                   nan |-> Head(e.history).nan \/ bad]
  <1>1. Head(e.history) \in State /\ Head(e.dts) \in Nat
    <2>1. e.history \in Seq(State) /\ e.dts \in Seq(Nat) BY DEF Engine
    <2>2. QED BY <2>1
  <1>2. /\ y \in State /\ y.at = Head(e.history).at + Head(e.dts) /\ y.epoch = Head(e.history).epoch
        /\ ~bad => y.nan = Head(e.history).nan
    <2>1. (Head(e.history).nan \/ bad) \in BOOLEAN OBVIOUS
    <2>2. ~bad => (Head(e.history).nan \/ bad) = Head(e.history).nan BY <1>1 DEF State
    <2>3. QED BY <1>1, <2>1, <2>2 DEF State
  <1>3. Solved(e, bad) = [e EXCEPT !.x = y] BY DEF Solved
  <1> HIDE DEF y
  <1>4. QED BY <1>2, <1>3 DEF Engine, IsSolved

\* The state, the ring and the place in the localization stay.
Keeps(c, e) ==
    /\ c \in Engine /\ c.x = e.x /\ c.history = e.history /\ c.dts = e.dts
    /\ c.order = e.order /\ c.seeking = e.seeking /\ c.stash = e.stash
    /\ c.open = e.open /\ c.span = e.span

\* What decides the coming step's order leaves the rest alone.
LEMMA MoveFacts ==
  ASSUME NEW e \in Engine, NEW o \in Order
  PROVE  Keeps(MoveTo(e, o), e)
  <1>1. 0 \in 0 .. MaxOrder BY GearAssumption
  <1> DEFINE c == [e EXCEPT !.target = o]
             f == [c EXCEPT !.steps = 0]
  <1>2. Keeps(c, e) BY DEF Keeps, Engine
  <1>3. MoveTo(e, o) = [f EXCEPT !.pi = 0] BY DEF MoveTo
  <1> HIDE DEF c
  <1>4. Keeps(f, e) BY <1>2 DEF Keeps, Engine
  <1> HIDE DEF f
  <1>5. QED BY <1>1, <1>3, <1>4 DEF Keeps, Engine

LEMMA ControlledFacts ==
  ASSUME NEW e \in Engine, NEW v \in Verdict
  PROVE  Keeps(Controlled(e, v), e)
  <1>1. /\ MinOrder \in Nat \ {0} /\ MaxOrder \in Nat BY GearAssumption
  <1>2. /\ e.target \in Nat /\ e.target >= 1 /\ e.target <= MaxOrder
        /\ e.order \in Nat /\ e.order >= 1 /\ e.order <= MaxOrder
        /\ e.steps \in Nat
    BY <1>1 DEF Engine, Order
  <1> DEFINE m == Measured(e, v)
  <1>3. Keeps(m, e) /\ m.target = e.target /\ m.steps = e.steps
    <2>1. e.order \in 0 .. MaxOrder BY <1>1, <1>2
    <2>2. QED BY <2>1 DEF Measured, Keeps, Engine
  <1>4. ASSUME NEW f, Keeps(f, e), f.target = e.target PROVE Keeps(Reordered(f, v), e)
    <2>1. f \in Engine /\ f.order = e.order BY <1>4 DEF Keeps
    <2>2. e.target < MaxOrder => e.target + 1 \in Order BY <1>1, <1>2 DEF Order
    <2>3. e.target > MinOrder => e.target - 1 \in Order BY <1>1, <1>2 DEF Order
    <2>4. \A o \in Order : Keeps(MoveTo(f, o), e)
      <3>1. \A o \in Order : Keeps(MoveTo(f, o), f) BY <2>1, MoveFacts
      <3>2. QED BY <1>4, <3>1 DEF Keeps
    <2>5. QED BY <1>4, <2>2, <2>3, <2>4 DEF Reordered
  <1>5. ASSUME NEW f, Keeps(f, e) PROVE Keeps(Counted(f, v), e)
    <2>1. f \in Engine BY <1>5 DEF Keeps
    <2>2. f.steps + 1 \in Nat BY <2>1 DEF Engine
    <2>3. Keeps([f EXCEPT !.steps = f.steps + 1], e) BY <1>5, <2>2 DEF Keeps, Engine
    <2>4. QED BY <1>5, <2>1, <2>3 DEF Counted
  <1> HIDE DEF m
  <1>6. m.target < MaxOrder => Keeps([m EXCEPT !.target = m.target + 1, !.pi = 0], e)
    <2>1. SUFFICES ASSUME m.target < MaxOrder
                   PROVE  Keeps([m EXCEPT !.target = m.target + 1, !.pi = 0], e)
      OBVIOUS
    <2>2. m.target + 1 \in Order BY <1>1, <1>2, <1>3, <2>1 DEF Order
    <2>3. 0 \in 0 .. MaxOrder BY <1>1
    <2> DEFINE f == [m EXCEPT !.target = m.target + 1]
    <2>4. Keeps(f, e) BY <1>3, <2>2 DEF Keeps, Engine
    <2>5. [m EXCEPT !.target = m.target + 1, !.pi = 0] = [f EXCEPT !.pi = 0] OBVIOUS
    <2> HIDE DEF f
    <2>6. Keeps([f EXCEPT !.pi = 0], e) BY <2>3, <2>4 DEF Keeps, Engine
    <2>7. QED BY <2>5, <2>6
  <1>7. CASE e.order = 1
    <2>1. Controlled(e, v) = IF e.target < MaxOrder
                             THEN [m EXCEPT !.target = m.target + 1, !.pi = 0] ELSE m
      BY <1>7 DEF Controlled, m
    <2>2. QED BY <1>3, <1>6, <2>1
  <1>8. CASE e.order # 1
    <2>1. Controlled(e, v) = Counted(Reordered(m, v), v) BY <1>8 DEF Controlled, m
    <2>2. QED BY <1>3, <1>4, <1>5, <2>1
  <1>9. QED BY <1>7, <1>8

IsStepped(s, e, v) ==
    /\ s \in Engine /\ s.x = e.x /\ s.history = e.history /\ s.dts = e.dts
    /\ s.order = e.order /\ s.seeking = e.seeking /\ s.stash = e.stash
    /\ IF v.ok THEN s.open /\ s.span = Head(e.dts) ELSE s.open = e.open /\ s.span = e.span

\* Judging a step moves no state; an accepted one opens the dense output over it.
LEMMA SteppedFacts ==
  ASSUME NEW e \in Engine, NEW v \in Verdict, e.dts # <<>>
  PROVE  IsStepped(Stepped(e, v), e, v)
  <1> DEFINE c == Controlled(e, v)
  <1>1. Keeps(c, e) BY ControlledFacts
  <1>2. Head(e.dts) \in Nat
    <2>1. e.dts \in Seq(Nat) BY DEF Engine
    <2>2. QED BY <2>1
  <1>3. Stepped(e, v) = IF v.ok THEN [c EXCEPT !.open = TRUE, !.span = Head(e.dts)] ELSE c
    BY DEF Stepped
  <1> HIDE DEF c
  <1> DEFINE f == [c EXCEPT !.open = TRUE]
  <1>4. /\ f \in Engine /\ f.x = e.x /\ f.history = e.history /\ f.dts = e.dts /\ f.open
        /\ f.order = e.order /\ f.seeking = e.seeking /\ f.stash = e.stash
    BY <1>1 DEF Keeps, Engine
  <1>5. [c EXCEPT !.open = TRUE, !.span = Head(e.dts)] = [f EXCEPT !.span = Head(e.dts)] OBVIOUS
  <1> HIDE DEF f
  <1>6. v.ok => IsStepped([f EXCEPT !.span = Head(e.dts)], e, v)
    BY <1>2, <1>4 DEF IsStepped, Engine
  <1>7. CASE v.ok BY <1>3, <1>5, <1>6, <1>7
  <1>8. CASE ~v.ok BY <1>1, <1>3, <1>8 DEF IsStepped, Keeps
  <1>9. QED BY <1>7, <1>8

IsReverted(r, e) ==
    /\ r \in Engine /\ IsTimeline(r) /\ Linked(r)
    /\ r.x = Head(e.history) /\ Len(r.history) = Len(e.history) - 1
    /\ ~r.open /\ ~r.seeking

\* A revert restores the state that was buffered last.
LEMMA RevertedFacts ==
  ASSUME NEW e \in Engine, IsTimeline(e), e.history # <<>>
  PROVE  IsReverted(Reverted(e), e)
  <1> DEFINE h == Popped(e.history)
             w == Popped(e.dts)
             c == [e EXCEPT !.open = FALSE, !.seeking = FALSE, !.x = Head(e.history)]
             f == [c EXCEPT !.history = h, !.dts = w]
  <1>1. /\ e.history \in Seq(State) /\ e.dts \in Seq(Nat) /\ Len(e.dts) = Len(e.history)
        /\ e.dts # <<>> /\ 0 \in 0 .. MaxOrder
    BY GearAssumption DEF Engine, IsTimeline
  <1>2. /\ h \in Seq(State) /\ Len(h) = Len(e.history) - 1
        /\ Head(e.history) \in State /\ Head(e.history) = e.history[1]
        /\ \A i \in 1 .. Len(e.history) - 1 : h[i] = e.history[i + 1]
        /\ h # <<>> => Head(h) = e.history[2] /\ Len(e.history) >= 2
    BY <1>1, PoppedFacts
  <1>3. /\ w \in Seq(Nat) /\ Len(w) = Len(e.history) - 1
        /\ \A i \in 1 .. Len(e.history) - 1 : w[i] = e.dts[i + 1]
        /\ w # <<>> => Head(w) = e.dts[2]
    BY <1>1, PoppedFacts
  <1>4. Reverted(e) = [f EXCEPT !.pi = 0] BY <1>1 DEF Reverted, Closed
  <1> HIDE DEF h, w
  <1>5. c \in Engine /\ c.x = Head(e.history) /\ ~c.open /\ ~c.seeking BY <1>2 DEF Engine
  <1> HIDE DEF c
  <1>6. /\ f \in Engine /\ f.x = Head(e.history) /\ ~f.open /\ ~f.seeking
        /\ f.history = h /\ f.dts = w
    BY <1>2, <1>3, <1>5 DEF Engine
  <1> HIDE DEF f
  <1> DEFINE r == [f EXCEPT !.pi = 0]
  <1>7. /\ r \in Engine /\ r.x = Head(e.history) /\ ~r.open /\ ~r.seeking
        /\ r.history = h /\ r.dts = w
    BY <1>1, <1>6 DEF Engine
  <1> HIDE DEF r
  <1>8. IsTimeline(r)
    <2>1. ASSUME NEW i \in 2 .. Len(h) PROVE h[i - 1].at = h[i].at + w[i]
      <3>1. i + 1 \in 2 .. Len(e.history) /\ i \in 1 .. Len(e.history) - 1
            /\ i - 1 \in 1 .. Len(e.history) - 1 /\ (i - 1) + 1 = i /\ (i + 1) - 1 = i
        BY <1>1, <1>2
      <3>2. h[i - 1] = e.history[i] /\ h[i] = e.history[i + 1] /\ w[i] = e.dts[i + 1]
        <4>1. h[i - 1] = e.history[(i - 1) + 1] BY <1>2, <3>1
        <4>2. QED BY <1>2, <1>3, <3>1, <4>1
      <3>3. e.history[(i + 1) - 1].at = e.history[i + 1].at + e.dts[i + 1]
        BY <3>1 DEF IsTimeline
      <3>4. QED BY <3>1, <3>2, <3>3
    <2>2. QED BY <1>2, <1>3, <1>7, <2>1 DEF IsTimeline
  <1>9. Linked(r)
    <2>1. SUFFICES ASSUME h # <<>> PROVE Head(e.history).at = Head(h).at + Head(w)
      BY <1>7 DEF Linked
    <2>2. Len(e.history) \in Nat /\ Len(e.history) >= 2 /\ Head(h) = e.history[2] /\ Len(h) >= 1
      BY <1>1, <1>2, <2>1
    <2>3. w # <<>> BY <1>2, <1>3, <2>2
    <2>4. Head(w) = e.dts[2] BY <1>3, <2>3
    <2>5. 2 \in 2 .. Len(e.history) /\ 2 - 1 = 1 BY <2>2
    <2>6. e.history[1].at = e.history[2].at + e.dts[2] BY <2>5 DEF IsTimeline
    <2>7. QED BY <1>2, <2>2, <2>4, <2>6
  <1>10. IsReverted(r, e) BY <1>2, <1>7, <1>8, <1>9 DEF IsReverted
  <1>11. QED BY <1>4, <1>10 DEF r

\* An interpolant moves the state to part of the step and remembers its end.
IsSought(s, e, part) ==
    /\ s \in Engine
    /\ s.stash = (IF e.seeking THEN e.stash ELSE e.x)
    /\ s.x = [s.stash EXCEPT !.at = Head(e.history).at + part]
    /\ s.history = e.history /\ s.dts = e.dts /\ s.order = e.order
    /\ s.open = e.open /\ s.span = e.span /\ s.seeking

LEMMA SoughtFacts ==
  ASSUME NEW e \in Engine, e.history # <<>>, NEW part \in Nat
  PROVE  IsSought(Sought(e, part), e, part)
  <1> DEFINE end == IF e.seeking THEN e.stash ELSE e.x
             y == [end EXCEPT !.at = Head(e.history).at + part]
             f == [e EXCEPT !.x = y, !.stash = end]
  <1>1. end \in State BY DEF Engine
  <1>2. Head(e.history).at + part \in Nat
    <2>1. e.history \in Seq(State) BY DEF Engine
    <2>2. Head(e.history) \in State BY <2>1
    <2>3. QED BY <2>2 DEF State
  <1>3. y \in State BY <1>1, <1>2 DEF State
  <1>4. Sought(e, part) = [f EXCEPT !.seeking = TRUE] BY DEF Sought, Interpolated
  <1>5. y = [end EXCEPT !.at = Head(e.history).at + part] OBVIOUS
  <1>6. end = IF e.seeking THEN e.stash ELSE e.x OBVIOUS
  <1> HIDE DEF end, y
  <1>7. /\ f \in Engine /\ f.x = y /\ f.stash = end /\ f.history = e.history
        /\ f.dts = e.dts /\ f.order = e.order /\ f.open = e.open /\ f.span = e.span
    BY <1>1, <1>3 DEF Engine
  <1> HIDE DEF f
  <1> DEFINE s == [f EXCEPT !.seeking = TRUE]
  <1>8. /\ s \in Engine /\ s.x = y /\ s.stash = end /\ s.history = e.history
        /\ s.dts = e.dts /\ s.order = e.order /\ s.open = e.open /\ s.span = e.span /\ s.seeking
    BY <1>7 DEF Engine
  <1> HIDE DEF s
  <1>9. IsSought(s, e, part) BY <1>5, <1>6, <1>8 DEF IsSought
  <1>10. QED BY <1>4, <1>9 DEF s

\* The end of a localization leaves the ring alone.
LEMMA SeekEndedFacts ==
  ASSUME NEW e \in Engine
  PROVE  /\ SeekEnded(e) \in Engine
         /\ SeekEnded(e).history = e.history /\ SeekEnded(e).dts = e.dts
  <1> DEFINE f == [e EXCEPT !.x = e.stash]
  <1>1. f \in Engine /\ f.history = e.history /\ f.dts = e.dts BY DEF Engine
  <1>2. SeekEnded(e) = IF e.seeking THEN [f EXCEPT !.seeking = FALSE] ELSE e BY DEF SeekEnded
  <1> HIDE DEF f
  <1>3. QED BY <1>1, <1>2 DEF Engine

IsAssigned(a, e) ==
    /\ a \in Engine /\ a.history = e.history /\ a.dts = e.dts
    /\ a.x = [e.x EXCEPT !.epoch = e.x.epoch + 1]
    /\ ~a.open /\ ~a.seeking

\* An assignment closes the dense output and moves no time.
LEMMA AssignedFacts == ASSUME NEW e \in Engine PROVE IsAssigned(Assigned(e), e)
  <1> DEFINE c == [e EXCEPT !.open = FALSE, !.seeking = FALSE]
             y == [e.x EXCEPT !.epoch = e.x.epoch + 1]
  <1>1. y \in State
    <2>1. e.x \in State BY DEF Engine
    <2>2. e.x.epoch + 1 \in Nat BY <2>1 DEF State
    <2>3. QED BY <2>1, <2>2 DEF State
  <1>2. c \in Engine /\ ~c.open /\ ~c.seeking /\ c.history = e.history /\ c.dts = e.dts /\ c.x = e.x
    BY DEF Engine
  <1>3. Assigned(e) = [c EXCEPT !.x = y]
    <2>1. Assigned(e) = [c EXCEPT !.x = [c.x EXCEPT !.epoch = c.x.epoch + 1]]
      BY <1>2 DEF Assigned, Closed, Engine
    <2>2. QED BY <1>2, <2>1
  <1>4. y = [e.x EXCEPT !.epoch = e.x.epoch + 1] OBVIOUS
  <1> HIDE DEF c, y
  <1>5. [c EXCEPT !.x = y] \in Engine BY <1>1, <1>2 DEF Engine
  <1>6. QED BY <1>1, <1>2, <1>3, <1>4, <1>5 DEF IsAssigned, Engine

\* An engine with an empty ring.
IsNew(q, x) ==
    /\ q \in Engine /\ q.x = x /\ q.history = <<>> /\ q.dts = <<>> /\ ~q.open /\ ~q.seeking

LEMMA NewFacts ==
  /\ IsNew(Fresh, Initial) /\ Initial \in State
  /\ \A e \in Engine : IsNew(Replaced(e), e.x) /\ IsNew(Restarted(e), Initial)
  <1>1. /\ MinOrder \in Order /\ 1 \in Order /\ 0 \in 0 .. MaxOrder
    BY GearAssumption DEF Order
  <1>2. Initial \in State BY DEF Initial, State
  <1>3. <<>> \in Seq(State) /\ <<>> \in Seq(Nat) OBVIOUS
  <1>4. IsNew(Fresh, Initial) BY <1>1, <1>2, <1>3 DEF IsNew, Fresh, Engine
  <1>5. ASSUME NEW e \in Engine PROVE IsNew(Replaced(e), e.x)
    <2>1. e.x \in State BY DEF Engine
    <2>2. QED BY <1>4, <2>1 DEF IsNew, Replaced, Engine, Fresh
  <1>6. ASSUME NEW e \in Engine PROVE IsNew(Restarted(e), Initial)
    <2> DEFINE c == [e EXCEPT !.open = FALSE, !.seeking = FALSE]
               f == [c EXCEPT !.x = Initial, !.history = <<>>]
    <2>1. c \in Engine /\ ~c.open /\ ~c.seeking BY DEF Engine
    <2>2. Restarted(e) = [f EXCEPT !.dts = <<>>, !.pi = 0] BY DEF Restarted, Closed
    <2> HIDE DEF c
    <2>3. f \in Engine /\ ~f.open /\ ~f.seeking /\ f.x = Initial /\ f.history = <<>>
      BY <1>2, <1>3, <2>1 DEF Engine
    <2> HIDE DEF f
    <2>4. QED BY <1>1, <1>3, <2>2, <2>3 DEF IsNew, Engine
  <1>7. QED BY <1>2, <1>4, <1>5, <1>6

-----------------------------------------------------------------------------
(* The inductive invariant.                                                *)

\* An engine e that takes no part in an attempt, of a leaf with the committed
\* state c and t committed steps to its name.  One state is gone from the ring
\* when the last rejection found it full.
Settled(e, c, t) ==
    /\ e.x = c /\ ~e.seeking
    /\ Len(e.history) = t \/ (t = HistoryLen /\ Len(e.history) = HistoryLen - 1)
    /\ Linked(e)
    /\ e.open =>
          /\ e.history # <<>> /\ e.span = Head(e.dts)
          /\ e.x.epoch = Head(e.history).epoch
          /\ Poisoned = {} => e.x.nan = Head(e.history).nan

\* The state at the end of a step of width d from c.
Ends(s, c, d) ==
    s.at = c.at + d /\ s.epoch = c.epoch /\ (Poisoned = {} => s.nan = c.nan)

\* The engine of a leaf that takes part in one, of width d, in phase p and with
\* the localization at q.
Trying(e, c, t, p, d, q) ==
    /\ Len(e.history) = IF t < HistoryLen THEN t + 1 ELSE HistoryLen
    /\ Head(e.history) = c /\ Head(e.dts) = d
    /\ e.order \in 1 .. Len(e.history)
    /\ e.open => p \in {"detect", "probe"} /\ e.span = d
    /\ e.seeking <=> p = "probe"
    /\ p \in {"step", "detect"} => Ends(e.x, c, d)
    /\ p = "probe" => Ends(e.stash, c, d) /\ e.x = [e.stash EXCEPT !.at = c.at + q]

\* The ring of an engine that takes part is not empty.
LEMMA TryingFacts ==
  ASSUME NEW e \in Engine, IsTimeline(e), NEW c, NEW t \in 0 .. HistoryLen, NEW p, NEW d, NEW q,
         Trying(e, c, t, p, d, q)
  PROVE  /\ e.history \in Seq(State) /\ e.history # <<>> /\ e.dts \in Seq(Nat) /\ e.dts # <<>>
         /\ Len(e.dts) = Len(e.history) /\ c \in State /\ d \in Nat
  <1>1. HistoryLen \in Nat /\ HistoryLen >= 1 BY GearAssumption
  <1>2. e.history \in Seq(State) /\ e.dts \in Seq(Nat) /\ Len(e.dts) = Len(e.history)
    BY DEF Engine, IsTimeline
  <1>3. Len(e.history) >= 1 BY <1>1 DEF Trying
  <1>4. e.history # <<>> /\ e.dts # <<>> BY <1>2, <1>3
  <1>5. Head(e.history) \in State /\ Head(e.dts) \in Nat BY <1>2, <1>4
  <1>6. QED BY <1>2, <1>4, <1>5 DEF Trying

\* A block that takes part begins with its state at the head of the ring.
LEMMA BeginKeeps ==
  ASSUME NEW e \in Engine, IsTimeline(e), NEW c, NEW t \in 0 .. HistoryLen, NEW d \in Nat, NEW q,
         Settled(e, c, t)
  PROVE  /\ Buffered(e, d) \in Engine /\ IsTimeline(Buffered(e, d))
         /\ Trying(Buffered(e, d), c, t, "solve", d, q)
  <1> DEFINE b == Buffered(e, d)
  <1>1. IsBuffered(b, e, d) BY BufferedFacts DEF Settled
  <1> HIDE DEF b
  <1>2. HistoryLen \in Nat /\ HistoryLen >= 1 BY GearAssumption
  <1>3. e.x = c /\ (Len(e.history) = t \/ (t = HistoryLen /\ Len(e.history) = HistoryLen - 1))
    BY DEF Settled
  <1>4. Len(b.history) = IF t < HistoryLen THEN t + 1 ELSE HistoryLen
    BY <1>1, <1>2, <1>3 DEF IsBuffered
  <1>5. b \in Engine /\ IsTimeline(b) /\ Trying(b, c, t, "solve", d, q)
    BY <1>1, <1>3, <1>4 DEF IsBuffered, Trying
  <1>6. QED BY <1>5 DEF b

LEMMA SolveKeeps ==
  ASSUME NEW e \in Engine, IsTimeline(e), NEW c, NEW t \in 0 .. HistoryLen, NEW d, NEW q,
         Trying(e, c, t, "solve", d, q), NEW bad \in BOOLEAN, Poisoned = {} => ~bad
  PROVE  /\ Solved(e, bad) \in Engine /\ IsTimeline(Solved(e, bad))
         /\ Trying(Solved(e, bad), c, t, "step", d, q)
  <1> DEFINE s == Solved(e, bad)
  <1>1. e.history # <<>> /\ e.dts # <<>> BY TryingFacts
  <1>2. IsSolved(s, e, bad) BY <1>1, SolvedFacts
  <1> HIDE DEF s
  <1>3. s \in Engine /\ IsTimeline(s) BY <1>2 DEF IsSolved, IsTimeline
  <1>4. Trying(s, c, t, "step", d, q) BY <1>2 DEF IsSolved, Trying, Ends
  <1>5. QED BY <1>3, <1>4 DEF s

LEMMA StepKeeps ==
  ASSUME NEW e \in Engine, IsTimeline(e), NEW c, NEW t \in 0 .. HistoryLen, NEW d, NEW q,
         Trying(e, c, t, "step", d, q), NEW v \in Verdict
  PROVE  /\ Stepped(e, v) \in Engine /\ IsTimeline(Stepped(e, v))
         /\ Trying(Stepped(e, v), c, t, "detect", d, q)
  <1> DEFINE s == Stepped(e, v)
  <1>1. e.dts # <<>> BY TryingFacts
  <1>2. IsStepped(s, e, v) BY <1>1, SteppedFacts
  <1> HIDE DEF s
  <1>3. s \in Engine /\ IsTimeline(s) BY <1>2 DEF IsStepped, IsTimeline
  <1>4. Trying(s, c, t, "detect", d, q) BY <1>2 DEF IsStepped, Trying
  <1>5. QED BY <1>3, <1>4 DEF s

\* Whatever has been made of the state, the ring still has the committed one.
LEMMA RevertKeeps ==
  ASSUME NEW e \in Engine, IsTimeline(e), NEW c, NEW t \in 0 .. HistoryLen, NEW p, NEW d, NEW q,
         Trying(e, c, t, p, d, q)
  PROVE  /\ Reverted(e) \in Engine /\ IsTimeline(Reverted(e)) /\ Settled(Reverted(e), c, t)
         /\ Reverted(SeekEnded(e)) \in Engine /\ IsTimeline(Reverted(SeekEnded(e)))
         /\ Settled(Reverted(SeekEnded(e)), c, t)
  <1>1. e.history # <<>> BY TryingFacts
  <1>2. HistoryLen \in Nat /\ HistoryLen >= 1 BY GearAssumption
  <1>3. ASSUME NEW f \in Engine, f.history = e.history, f.dts = e.dts
        PROVE  Reverted(f) \in Engine /\ IsTimeline(Reverted(f)) /\ Settled(Reverted(f), c, t)
    <2> DEFINE r == Reverted(f)
    <2>1. IsTimeline(f) BY <1>3 DEF IsTimeline
    <2>2. IsReverted(r, f) BY <1>1, <1>3, <2>1, RevertedFacts
    <2> HIDE DEF r
    <2>3. Len(r.history) = Len(e.history) - 1 /\ r.x = c BY <1>3, <2>2 DEF IsReverted, Trying
    <2>4. Len(r.history) = t \/ (t = HistoryLen /\ Len(r.history) = HistoryLen - 1)
      BY <1>2, <2>3 DEF Trying
    <2>5. r \in Engine /\ IsTimeline(r) /\ Settled(r, c, t)
      BY <2>2, <2>3, <2>4 DEF IsReverted, Settled
    <2>6. QED BY <2>5 DEF r
  <1>4. QED BY <1>3, SeekEndedFacts

LEMMA ProbeKeeps ==
  ASSUME NEW e \in Engine, IsTimeline(e), NEW c, NEW t \in 0 .. HistoryLen, NEW d, NEW q,
         NEW p \in {"detect", "probe"}, Trying(e, c, t, p, d, q), NEW part \in Nat
  PROVE  /\ Sought(e, part) \in Engine /\ IsTimeline(Sought(e, part))
         /\ Trying(Sought(e, part), c, t, "probe", d, part)
  <1> DEFINE s == Sought(e, part)
  <1>1. e.history # <<>> BY TryingFacts
  <1>2. IsSought(s, e, part) BY <1>1, SoughtFacts
  <1> HIDE DEF s
  <1>3. s \in Engine /\ IsTimeline(s) BY <1>2 DEF IsSought, IsTimeline
  <1>4. Ends(s.stash, c, d) /\ s.x = [s.stash EXCEPT !.at = c.at + part]
    BY <1>2 DEF IsSought, Trying
  <1>5. Trying(s, c, t, "probe", d, part) BY <1>2, <1>4 DEF IsSought, Trying
  <1>6. QED BY <1>3, <1>5 DEF s

\* A step that is kept makes its end the committed state.
LEMMA CommitKeeps ==
  ASSUME NEW e \in Engine, IsTimeline(e), NEW c, NEW t \in 0 .. HistoryLen, NEW d, NEW q,
         Trying(e, c, t, "detect", d, q)
  PROVE  /\ Settled(e, e.x, IF t < HistoryLen THEN t + 1 ELSE t)
         /\ (IF t < HistoryLen THEN t + 1 ELSE t) \in 0 .. HistoryLen
  <1>1. e.history # <<>> /\ HistoryLen \in Nat BY TryingFacts, GearAssumption
  <1>2. (IF t < HistoryLen THEN t + 1 ELSE t) \in 0 .. HistoryLen BY <1>1
  <1>3. Len(e.history) = IF t < HistoryLen THEN t + 1 ELSE t BY <1>1 DEF Trying
  <1>4. Ends(e.x, c, d) /\ Head(e.history) = c /\ Head(e.dts) = d BY DEF Trying
  <1>5. Linked(e) BY <1>4 DEF Linked, Ends
  <1>6. QED BY <1>1, <1>2, <1>3, <1>4, <1>5 DEF Settled, Trying, Ends

\* An assignment replaces the committed state.
LEMMA AssignKeeps ==
  ASSUME NEW e \in Engine, IsTimeline(e), NEW c, NEW t, Settled(e, c, t)
  PROVE  /\ Assigned(e) \in Engine /\ IsTimeline(Assigned(e))
         /\ Settled(Assigned(e), [c EXCEPT !.epoch = c.epoch + 1], t)
  <1> DEFINE a == Assigned(e)
  <1>1. IsAssigned(a, e) BY AssignedFacts
  <1> HIDE DEF a
  <1>2. a \in Engine /\ IsTimeline(a) BY <1>1 DEF IsAssigned, IsTimeline
  <1>3. a.x = [c EXCEPT !.epoch = c.epoch + 1] BY <1>1 DEF IsAssigned, Settled
  <1>4. a.x.at = e.x.at
    <2>1. e.x \in State BY DEF Engine
    <2>2. QED BY <1>1, <2>1 DEF IsAssigned, State
  <1>5. Settled(a, [c EXCEPT !.epoch = c.epoch + 1], t)
    BY <1>1, <1>3, <1>4 DEF IsAssigned, Settled, Linked
  <1>6. QED BY <1>2, <1>5 DEF a

\* An engine with an empty ring belongs to a leaf with no step to its name.
LEMMA NewKeeps ==
  ASSUME NEW e, NEW c, IsNew(e, c)
  PROVE  e \in Engine /\ IsTimeline(e) /\ Settled(e, c, 0)
  <1>1. Len(<<>>) = 0 OBVIOUS
  <1>2. QED BY <1>1 DEF IsNew, IsTimeline, Settled, Linked

-----------------------------------------------------------------------------
(* The tree of blocks.                                                     *)

\* A subsystem and all it holds are on or off together, when only blocks at the
\* top are switched.
Together == \A b \in Block : \A w \in Around[b] : on[b] <=> on[w]

\* Every block is at the top or inside of one that is.
LEMMA TopOf == ASSUME NEW b \in Block PROVE \E c \in {b} \cup Around[b] : c \in Block /\ AtTop(c)
  <1>1. CASE Around[b] = {} BY <1>1 DEF AtTop
  <1>2. CASE Around[b] # {}
    <2>1. /\ Around[b] \subseteq Wrapper /\ Wrapper \subseteq Block
          /\ \A w \in Block : Around[w] \subseteq Wrapper
      BY TreeAssumption DEF Block
    <2>2. \A w \in Block : IsFiniteSet(Around[w]) /\ Cardinality(Around[w]) \in Nat
      <3>1. TAKE w \in Block
      <3>2. IsFiniteSet(Around[w]) BY <2>1, TreeAssumption, FS_Subset
      <3>3. QED BY <3>2, FS_CardinalityType
    <2> DEFINE T == {Cardinality(Around[w]) : w \in Around[b]}
    <2>3. T \in SUBSET Nat /\ T # {} BY <1>2, <2>1, <2>2
    <2>4. PICK n \in T : \A m \in T : n <= m BY <2>3, LeastNat
    <2>5. PICK w \in Around[b] : n = Cardinality(Around[w]) BY <2>4
    <2>6. ASSUME NEW v \in Around[w] PROVE FALSE
      <3>1. w \in Block /\ v \in Around[b] BY <2>1, TreeAssumption
      <3>2. v \in Block /\ Around[v] \subseteq Around[w] /\ v \notin Around[v]
        BY <2>1, <3>1, TreeAssumption
      <3>3. Around[v] # Around[w] BY <3>2
      <3>4. Cardinality(Around[v]) < Cardinality(Around[w])
        <4>1. /\ IsFiniteSet(Around[w]) /\ Cardinality(Around[v]) \in Nat
              /\ Cardinality(Around[w]) \in Nat
          BY <2>2, <3>1, <3>2
        <4>2. /\ Cardinality(Around[v]) <= Cardinality(Around[w])
              /\ Cardinality(Around[w]) = Cardinality(Around[v]) => Around[v] = Around[w]
          BY <4>1, <3>2, FS_Subset
        <4>3. QED BY <3>3, <4>1, <4>2
      <3>5. Cardinality(Around[v]) \in T BY <3>1
      <3>6. Cardinality(Around[w]) <= Cardinality(Around[v]) BY <2>4, <2>5, <3>5
      <3>7. QED BY <2>2, <3>1, <3>2, <3>4, <3>6
    <2>7. QED BY <2>1, <2>6 DEF AtTop
  <1>3. QED BY <1>1, <1>2

\* Then exactly the leaves that are on take part, and all of them are reverted.
LEMMA WhoTakesPart ==
  ASSUME Together
  PROVE  /\ Rolled = Live /\ Live \subseteq Leaf
         /\ Interpolable => {b \in Leaf : AtTop(b) /\ on[b]} = Live
         /\ Interpolable => \A b \in Live : CanInterpolate(engine[b])
  <1>1. /\ Leaf \subseteq Block /\ \A b \in Block : Around[b] \subseteq Wrapper /\ Around[b] \subseteq Block
        /\ Leaf \cap Wrapper = {}
    BY TreeAssumption DEF Block
  <1>2. ASSUME NEW b \in Leaf, NEW c \in {b} \cup Around[b]
        PROVE  (b \in Live) <=> on[c]
    <2>1. \A w \in Around[b] : on[b] <=> on[w] BY <1>1 DEF Together
    <2>2. on[c] <=> on[b] BY <2>1
    <2>3. QED BY <2>1, <2>2 DEF Live
  <1>3. Live \subseteq Leaf BY DEF Live
  <1>4. Rolled = Live
    <2>1. ASSUME NEW b \in Leaf PROVE b \in Rolled <=> b \in Live
      <3>1. PICK c \in {b} \cup Around[b] : AtTop(c) BY <1>1, TopOf
      <3>2. b \in Rolled => b \in Live BY <1>2, <3>1 DEF Rolled
      <3>3. b \in Live => b \in Rolled BY <1>2 DEF Rolled
      <3>4. QED BY <3>2, <3>3
    <2>2. Rolled \subseteq Leaf BY DEF Rolled
    <2>3. QED BY <1>3, <2>1, <2>2
  <1>5. ASSUME Interpolable, NEW b \in Leaf
        PROVE  b \in Live <=> AtTop(b) /\ on[b]
    <2>1. PICK c \in {b} \cup Around[b] : c \in Block /\ AtTop(c) BY <1>1, TopOf
    <2>2. b \in Live => on[c] BY <1>2
    <2>3. on[c] => c \in Leaf BY <1>5, <2>1 DEF Interpolable
    <2>4. c \in Leaf => c = b BY <1>1
    <2>5. AtTop(b) /\ on[b] => b \in Live BY DEF AtTop, Live
    <2>6. QED BY <1>2, <2>1, <2>2, <2>3, <2>4, <2>5
  <1>6. Interpolable => {b \in Leaf : AtTop(b) /\ on[b]} = Live BY <1>3, <1>5
  <1>7. Interpolable => \A b \in Live : CanInterpolate(engine[b])
    BY <1>1, <1>3, <1>5 DEF Interpolable
  <1>8. QED BY <1>3, <1>4, <1>6, <1>7

\* Switching a block at the top switches all that is inside.
LEMMA ToggledFacts ==
  ASSUME on \in [Block -> BOOLEAN], Together, NEW b \in Block, AtTop(b), NEW v \in BOOLEAN
  PROVE  /\ Toggled(b, v) \in [Block -> BOOLEAN]
         /\ \A c \in Block : \A w \in Around[c] : Toggled(b, v)[c] <=> Toggled(b, v)[w]
  <1>1. Toggled(b, v) \in [Block -> BOOLEAN] BY DEF Toggled
  <1>2. ASSUME NEW c \in Block, NEW w \in Around[c]
        PROVE  Toggled(b, v)[c] <=> Toggled(b, v)[w]
    <2>1. w \in Block /\ Around[w] \subseteq Around[c] BY TreeAssumption DEF Block
    <2>2. w \in Inside(b) => c \in Inside(b) BY <2>1 DEF Inside
    <2>3. c \in Inside(b) => w \in Inside(b)
      <3>1. c # b BY DEF AtTop
      <3>2. b \in Around[c] => w = b \/ b \in Around[w] \/ w \in Around[b]
        BY TreeAssumption
      <3>3. QED BY <2>1, <3>1, <3>2 DEF Inside, AtTop
    <2>4. on[c] <=> on[w] BY DEF Together
    <2>5. QED BY <2>1, <2>2, <2>3, <2>4 DEF Toggled
  <1>3. QED BY <1>1, <1>2

-----------------------------------------------------------------------------
(* Every action keeps it.                                                  *)

\* An attempt ends within the bound on time.
Fits == phase # "idle" => time + dt <= MaxTime

\* Every leaf is as it should be, in or out of the attempt.
Leaves ==
    \A b \in Leaf :
        /\ IsTimeline(engine[b])
        /\ IF phase # "idle" /\ b \in Live
           THEN Trying(engine[b], clock[b], taken[b], phase, dt, probe)
           ELSE Settled(engine[b], clock[b], taken[b])

Inv == TypeOK /\ Fits /\ Together /\ Leaves

\* What a leaf is, in the words of the lemmas above.
LEMMA LeafFacts ==
  ASSUME Inv, NEW b \in Leaf
  PROVE  /\ engine[b] \in Engine /\ clock[b] \in State /\ taken[b] \in 0 .. HistoryLen
         /\ IsTimeline(engine[b])
         /\ phase # "idle" /\ b \in Live
               => Trying(engine[b], clock[b], taken[b], phase, dt, probe)
         /\ phase = "idle" \/ b \notin Live => Settled(engine[b], clock[b], taken[b])
  BY DEF Inv, TypeOK, Leaves

LEMMA InitInv == ASSUME Init PROVE Inv
  <1>1. HistoryLen \in Nat /\ MaxTime \in Nat BY GearAssumption, TreeAssumption
  <1>2. IsNew(Fresh, Initial) /\ Initial \in State /\ Fresh \in Engine BY NewFacts DEF IsNew
  <1>3. TypeOK BY <1>1, <1>2 DEF Init, TypeOK
  <1>4. Together
    <2>1. \A b \in Block : Around[b] \subseteq Block BY TreeAssumption DEF Block
    <2>2. QED BY <2>1 DEF Init, Together
  <1>5. Leaves BY <1>2, NewKeeps DEF Init, Leaves
  <1>6. QED BY <1>3, <1>4, <1>5 DEF Init, Inv, Fits

LEMMA BeginInv == ASSUME Inv, NEW d \in Widths, Begin(d) PROVE Inv'
  <1>1. d \in Nat /\ MaxTime \in Nat BY TreeAssumption
  <1>2. engine' = [b \in Leaf |-> IF b \in Live THEN Buffered(engine[b], d) ELSE engine[b]]
    BY DEF Begin, Apply
  <1>3. phase = "idle" /\ phase' = "solve" /\ dt' = d /\ time + d <= MaxTime
    BY DEF Begin
  <1>4. Live' = Live BY DEF Begin, Live
  <1>5. ASSUME NEW b \in Leaf
        PROVE  /\ engine'[b] \in Engine /\ IsTimeline(engine'[b])
               /\ b \in Live => Trying(engine'[b], clock[b], taken[b], "solve", d, probe)
               /\ b \notin Live => Settled(engine'[b], clock[b], taken[b])
    BY <1>1, <1>2, <1>3, LeafFacts, BeginKeeps
  <1>6. TypeOK' BY <1>1, <1>2, <1>3, <1>5 DEF Inv, TypeOK, Begin
  <1>7. Fits' /\ Together' BY <1>3 DEF Inv, Fits, Together, Begin
  <1>8. Leaves' BY <1>3, <1>4, <1>5 DEF Leaves, Begin
  <1>9. QED BY <1>6, <1>7, <1>8 DEF Inv

LEMMA SolveInv == ASSUME Inv, Solve PROVE Inv'
  <1>1. PICK bad \in SUBSET (Live \cap Poisoned) :
            engine' = [b \in Leaf |->
                          IF b \in Live THEN Solved(engine[b], b \in bad) ELSE engine[b]]
    BY DEF Solve
  <1>2. phase = "solve" /\ phase' = "step" BY DEF Solve
  <1>3. Live' = Live BY DEF Solve, Live
  <1>4. ASSUME NEW b \in Leaf
        PROVE  /\ engine'[b] \in Engine /\ IsTimeline(engine'[b])
               /\ b \in Live => Trying(engine'[b], clock[b], taken[b], "step", dt, probe)
               /\ b \notin Live => Settled(engine'[b], clock[b], taken[b])
    <2> DEFINE a == b \in bad
    <2>1. a \in BOOLEAN /\ (Poisoned = {} => ~a) OBVIOUS
    <2>2. engine'[b] = IF b \in Live THEN Solved(engine[b], a) ELSE engine[b] BY <1>1
    <2> HIDE DEF a
    <2>3. CASE b \in Live
      <3>1. Trying(engine[b], clock[b], taken[b], "solve", dt, probe) BY <1>2, <2>3, LeafFacts
      <3>2. engine'[b] = Solved(engine[b], a) BY <2>2, <2>3
      <3>3. engine[b] \in Engine /\ IsTimeline(engine[b]) /\ taken[b] \in 0 .. HistoryLen BY LeafFacts
      <3>4. QED BY <2>1, <2>3, <3>1, <3>2, <3>3, SolveKeeps
    <2>4. CASE b \notin Live BY <2>2, <2>4, LeafFacts
    <2>5. QED BY <2>3, <2>4
  <1>5. TypeOK' BY <1>1, <1>2, <1>4 DEF Inv, TypeOK, Solve
  <1>6. Fits' /\ Together' BY <1>2 DEF Inv, Fits, Together, Solve
  <1>7. Leaves' BY <1>2, <1>3, <1>4 DEF Leaves, Solve
  <1>8. QED BY <1>5, <1>6, <1>7 DEF Inv

\* A rejection, whatever it is that the engines were at.
LEMMA RejectInv == ASSUME Inv, Reject, phase # "idle" PROVE Inv'
  <1>1. Rolled = Live BY WhoTakesPart DEF Inv
  <1>2. engine' = [b \in Leaf |-> IF b \in Live THEN Reverted(engine[b]) ELSE engine[b]]
    BY <1>1 DEF Reject, Apply
  <1>3. phase' = "idle" BY DEF Reject
  <1>4. ASSUME NEW b \in Leaf
        PROVE  /\ engine'[b] \in Engine /\ IsTimeline(engine'[b])
               /\ Settled(engine'[b], clock[b], taken[b])
    BY <1>2, LeafFacts, RevertKeeps
  <1>5. TypeOK' BY <1>2, <1>3, <1>4 DEF Inv, TypeOK, Reject
  <1>6. Fits' /\ Together' BY <1>3 DEF Inv, Fits, Together, Reject
  <1>7. Leaves' BY <1>3, <1>4 DEF Leaves, Reject
  <1>8. QED BY <1>5, <1>6, <1>7 DEF Inv

LEMMA StepInv == ASSUME Inv, Step PROVE Inv'
  <1>1. PICK verdict \in [Live -> Verdict] :
          LET judged == [b \in Live |-> Judged(engine[b], verdict[b])]
              stepped == [b \in Leaf |->
                             IF b \in Live THEN Stepped(engine[b], judged[b])
                                           ELSE engine[b]]
          IN  IF adaptive /\ \E b \in Live : ~judged[b].ok
              THEN /\ engine' = [b \in Leaf |->
                                    IF b \in Rolled THEN Reverted(stepped[b])
                                                    ELSE stepped[b]]
                   /\ phase' = "idle"
                   /\ rejects' = rejects + 1
              ELSE /\ engine' = stepped
                   /\ phase' = "detect"
                   /\ UNCHANGED rejects
    BY DEF Step
  <1> DEFINE judged == [b \in Live |-> Judged(engine[b], verdict[b])]
             stepped == [b \in Leaf |->
                            IF b \in Live THEN Stepped(engine[b], judged[b]) ELSE engine[b]]
             far == adaptive /\ \E b \in Live : ~judged[b].ok
  <1>2. /\ far => engine' = [b \in Leaf |-> IF b \in Rolled THEN Reverted(stepped[b])
                                                            ELSE stepped[b]]
        /\ far => phase' = "idle"
        /\ ~far => engine' = stepped /\ phase' = "detect"
    BY <1>1
  <1>3. \A b \in Live : judged[b] \in Verdict
    <2>1. TAKE b \in Live
    <2>2. verdict[b] \in Verdict /\ judged[b] = Judged(engine[b], verdict[b]) OBVIOUS
    <2>3. (verdict[b].ok /\ ~(engine[b].x.nan /\ engine[b].order = 1)) \in BOOLEAN OBVIOUS
    <2>4. QED BY <2>2, <2>3 DEF Judged, Verdict
  <1>4. stepped \in [Leaf -> {stepped[b] : b \in Leaf}]
        /\ \A b \in Leaf : stepped[b] = IF b \in Live THEN Stepped(engine[b], judged[b])
                                        ELSE engine[b]
    OBVIOUS
  <1> HIDE DEF judged, stepped, far
  <1>5. Rolled = Live /\ Live \subseteq Leaf BY WhoTakesPart DEF Inv
  <1>6. phase = "step" BY DEF Step
  <1>7. Live' = Live BY DEF Step, Live
  <1>8. ASSUME NEW b \in Leaf
        PROVE  /\ stepped[b] \in Engine /\ IsTimeline(stepped[b])
               /\ b \in Live => Trying(stepped[b], clock[b], taken[b], "detect", dt, probe)
               /\ b \notin Live => Settled(stepped[b], clock[b], taken[b])
    <2>1. CASE b \in Live
      <3> DEFINE v == judged[b]
      <3>1. v \in Verdict /\ stepped[b] = Stepped(engine[b], v) BY <1>3, <1>4, <2>1
      <3> HIDE DEF v
      <3>2. /\ engine[b] \in Engine /\ taken[b] \in 0 .. HistoryLen /\ IsTimeline(engine[b])
            /\ Trying(engine[b], clock[b], taken[b], "step", dt, probe)
        BY <1>6, <2>1, LeafFacts
      <3>3. QED BY <2>1, <3>1, <3>2, StepKeeps
    <2>2. CASE b \notin Live BY <1>4, <2>2, LeafFacts
    <2>3. QED BY <2>1, <2>2
  <1>9. Fits' /\ Together' BY <1>6 DEF Inv, Fits, Together, Step
  <1>10. CASE far
    <2>1. engine' = [b \in Leaf |-> IF b \in Live THEN Reverted(stepped[b]) ELSE stepped[b]]
          /\ phase' = "idle"
      BY <1>2, <1>5, <1>10
    <2>2. ASSUME NEW b \in Leaf
          PROVE  /\ engine'[b] \in Engine /\ IsTimeline(engine'[b])
                 /\ Settled(engine'[b], clock[b], taken[b])
      BY <2>1, <1>8, LeafFacts, RevertKeeps
    <2>3. TypeOK' BY <2>1, <2>2 DEF Inv, TypeOK, Step
    <2>4. Leaves' BY <2>1, <2>2 DEF Leaves, Step
    <2>5. QED BY <1>9, <2>3, <2>4 DEF Inv
  <1>11. CASE ~far
    <2>1. engine' = stepped /\ phase' = "detect" BY <1>2, <1>11
    <2>2. TypeOK' BY <1>4, <1>8, <2>1 DEF Inv, TypeOK, Step
    <2>3. Leaves' BY <1>7, <1>8, <2>1 DEF Leaves, Step
    <2>4. QED BY <1>9, <2>2, <2>3 DEF Inv
  <1>12. QED BY <1>10, <1>11

LEMMA ProbeInv == ASSUME Inv, NEW part \in 1 .. dt - 1, Probe(part) PROVE Inv'
  <1>1. part \in Nat OBVIOUS
  <1>2. {b \in Leaf : AtTop(b) /\ on[b]} = Live BY WhoTakesPart DEF Inv, Probe
  <1>3. engine' = [b \in Leaf |-> IF b \in Live THEN Sought(engine[b], part) ELSE engine[b]]
    BY <1>2 DEF Probe, Apply
  <1>4. phase \in {"detect", "probe"} /\ phase' = "probe" /\ probe' = part BY DEF Probe
  <1>5. Live' = Live BY DEF Probe, Live
  <1>6. ASSUME NEW b \in Leaf
        PROVE  /\ engine'[b] \in Engine /\ IsTimeline(engine'[b])
               /\ b \in Live => Trying(engine'[b], clock[b], taken[b], "probe", dt, part)
               /\ b \notin Live => Settled(engine'[b], clock[b], taken[b])
    <2>1. engine[b] \in Engine /\ IsTimeline(engine[b]) /\ taken[b] \in 0 .. HistoryLen BY LeafFacts
    <2>2. CASE b \in Live
      <3>1. Trying(engine[b], clock[b], taken[b], phase, dt, probe) BY <1>4, <2>2, LeafFacts
      <3>2. engine'[b] = Sought(engine[b], part) BY <1>3, <2>2
      <3>3. QED BY <1>1, <1>4, <2>1, <2>2, <3>1, <3>2, ProbeKeeps
    <2>3. CASE b \notin Live BY <1>3, <2>3, LeafFacts
    <2>4. QED BY <2>2, <2>3
  <1>7. TypeOK' BY <1>1, <1>3, <1>4, <1>6 DEF Inv, TypeOK, Probe
  <1>8. Fits' /\ Together' BY <1>4 DEF Inv, Fits, Together, Probe
  <1>9. Leaves' BY <1>4, <1>5, <1>6 DEF Leaves, Probe
  <1>10. QED BY <1>7, <1>8, <1>9 DEF Inv

LEMMA EndProbeInv == ASSUME Inv, EndProbe PROVE Inv'
  <1>1. Rolled = Live BY WhoTakesPart DEF Inv
  <1>2. engine' = [b \in Leaf |-> IF b \in Live THEN Reverted(SeekEnded(engine[b]))
                                                ELSE engine[b]]
    BY <1>1 DEF EndProbe
  <1>3. phase = "probe" /\ phase' = "idle" /\ probe' = 0 BY DEF EndProbe
  <1>4. ASSUME NEW b \in Leaf
        PROVE  /\ engine'[b] \in Engine /\ IsTimeline(engine'[b])
               /\ Settled(engine'[b], clock[b], taken[b])
    BY <1>2, <1>3, LeafFacts, RevertKeeps
  <1>5. TypeOK' BY <1>2, <1>3, <1>4 DEF Inv, TypeOK, EndProbe
  <1>6. Fits' /\ Together' BY <1>3 DEF Inv, Fits, Together, EndProbe
  <1>7. Leaves' BY <1>3, <1>4 DEF Leaves, EndProbe
  <1>8. QED BY <1>5, <1>6, <1>7 DEF Inv

LEMMA CommitInv ==
  ASSUME \A b \in Switched : b \in Block /\ AtTop(b), Inv, NEW f \in Effect, Commit(f)
  PROVE  Inv'
  <1> DEFINE done == [b \in Leaf |-> IF b \in Live THEN engine[b].x ELSE clock[b]]
             count(b) == IF b \in Live /\ taken[b] < HistoryLen THEN taken[b] + 1 ELSE taken[b]
  <1>1. /\ phase = "detect" /\ phase' = "idle" /\ time' = time + dt /\ time + dt <= MaxTime
        /\ \A b \in Leaf : taken'[b] = count(b)
        /\ taken' = [b \in Leaf |-> count(b)]
    BY DEF Commit, Inv, Fits
  <1>2. ASSUME NEW b \in Leaf
        PROVE  /\ count(b) \in 0 .. HistoryLen /\ done[b] \in State
               /\ Settled(engine[b], done[b], count(b))
    <2>1. CASE b \in Live
      <3>1. /\ engine[b] \in Engine /\ taken[b] \in 0 .. HistoryLen /\ IsTimeline(engine[b])
            /\ Trying(engine[b], clock[b], taken[b], "detect", dt, probe)
        BY <1>1, <2>1, LeafFacts
      <3>2. engine[b].x \in State BY <3>1 DEF Engine
      <3>3. done[b] = engine[b].x BY <2>1
      <3>4. count(b) = IF taken[b] < HistoryLen THEN taken[b] + 1 ELSE taken[b] BY <2>1
      <3> HIDE DEF done, count
      <3>5. QED BY <3>1, <3>2, <3>3, <3>4, CommitKeeps
    <2>2. CASE b \notin Live BY <2>2, LeafFacts
    <2>3. QED BY <2>1, <2>2
  <1>3. /\ f.kind # "assign" => clock' = done /\ engine' = engine
        /\ f.kind = "assign" => engine' = [engine EXCEPT ![f.of] = Assigned(@)]
        /\ f.kind = "assign" => clock' = [done EXCEPT ![f.of].epoch = @ + 1]
    BY DEF Commit
  <1>4. \A b \in Leaf : engine[b] \in Engine /\ IsTimeline(engine[b]) BY LeafFacts
  <1>5. engine = [b \in Leaf |-> engine[b]] /\ done = [b \in Leaf |-> done[b]]
    BY DEF Inv, TypeOK
  <1>6. f.kind = "assign" => f.of \in Leaf BY DEF Effect
  <1> HIDE DEF done, count
  <1>7. ASSUME NEW b \in Leaf
        PROVE  /\ engine'[b] \in Engine /\ clock'[b] \in State /\ IsTimeline(engine'[b])
               /\ Settled(engine'[b], clock'[b], count(b))
    <2>1. CASE f.kind = "assign" /\ b = f.of
      <3>1. engine'[b] = Assigned(engine[b]) BY <1>3, <1>5, <2>1
      <3>2. clock'[b] = [done[b] EXCEPT !.epoch = done[b].epoch + 1] BY <1>3, <1>5, <2>1
      <3>3. clock'[b] \in State
        <4>1. done[b] \in State /\ done[b].epoch + 1 \in Nat BY <1>2 DEF State
        <4>2. QED BY <3>2, <4>1 DEF State
      <3>4. QED BY <1>2, <1>4, <3>1, <3>2, <3>3, AssignKeeps
    <2>2. CASE ~(f.kind = "assign" /\ b = f.of)
      <3>1. engine'[b] = engine[b] /\ clock'[b] = done[b] BY <1>3, <1>5, <2>2
      <3>2. QED BY <1>2, <1>4, <3>1
    <2>3. QED BY <2>1, <2>2
  <1>8. engine' = [b \in Leaf |-> engine'[b]] /\ clock' = [b \in Leaf |-> clock'[b]]
    BY <1>3, <1>5
  <1>9. /\ on' \in [Block -> BOOLEAN] /\ armed' \in [Block -> BOOLEAN]
        /\ \A c \in Block : \A w \in Around[c] : on'[c] <=> on'[w]
    <2>1. CASE f.kind = "switch"
      <3>1. f.of \in Block /\ AtTop(f.of) /\ f.to \in BOOLEAN BY <2>1 DEF Effect
      <3>2. on' = Toggled(f.of, f.to) /\ armed' = Disarmed(f.of, f.to) BY <2>1 DEF Commit
      <3>3. Disarmed(f.of, f.to) \in [Block -> BOOLEAN]
        <4>1. \A c \in Block : (armed[c] /\ (c \in Inside(f.of) => f.to)) \in BOOLEAN OBVIOUS
        <4>2. QED BY <4>1 DEF Disarmed
      <3>4. QED BY <3>1, <3>2, <3>3, ToggledFacts DEF Inv, TypeOK
    <2>2. CASE f.kind # "switch" BY <2>2 DEF Commit, Inv, TypeOK, Together
    <2>3. QED BY <2>1, <2>2
  <1>10. TypeOK'
    <2>1. engine' \in [Leaf -> Engine] /\ clock' \in [Leaf -> State] BY <1>7, <1>8
    <2>2. taken' \in [Leaf -> 0 .. HistoryLen] BY <1>1, <1>2
    <2>3. time' \in 0 .. MaxTime
      <3>1. time \in Nat /\ dt \in Nat /\ MaxTime \in Nat BY TreeAssumption DEF Inv, TypeOK
      <3>2. QED BY <1>1, <3>1
    <2>4. QED BY <1>1, <1>9, <2>1, <2>2, <2>3 DEF Inv, TypeOK, Commit
  <1>11. Fits' /\ Together' BY <1>1, <1>9 DEF Fits, Together
  <1>12. Leaves' BY <1>1, <1>7 DEF Leaves
  <1>13. QED BY <1>10, <1>11, <1>12 DEF Inv

\* Between two steps the blocks may be switched, ...
LEMMA SwitchInv ==
  ASSUME \A b \in Switched : b \in Block /\ AtTop(b), Inv,
         NEW b \in Switched, NEW v \in BOOLEAN, Switch(b, v)
  PROVE  Inv'
  <1>1. phase = "idle" /\ phase' = "idle" BY DEF Switch, Edit
  <1>2. /\ on' \in [Block -> BOOLEAN] /\ armed' \in [Block -> BOOLEAN]
        /\ \A c \in Block : \A w \in Around[c] : on'[c] <=> on'[w]
    <2>1. on' = Toggled(b, v) /\ armed' = Disarmed(b, v) BY DEF Switch
    <2>2. Disarmed(b, v) \in [Block -> BOOLEAN]
      <3>1. \A c \in Block : (armed[c] /\ (c \in Inside(b) => v)) \in BOOLEAN OBVIOUS
      <3>2. QED BY <3>1 DEF Disarmed
    <2>3. QED BY <2>1, <2>2, ToggledFacts DEF Inv, TypeOK
  <1>3. TypeOK' BY <1>2 DEF Inv, TypeOK, Switch
  <1>4. Fits' /\ Together' BY <1>1, <1>2 DEF Fits, Together
  <1>5. Leaves' BY <1>1 DEF Inv, Leaves, Switch
  <1>6. QED BY <1>3, <1>4, <1>5 DEF Inv

\* ... another run begin, ...
LEMMA RerunInv == ASSUME Inv, Rerun PROVE Inv'
  <1>1. phase = "idle" /\ phase' = "idle" BY DEF Rerun, Edit
  <1>2. TypeOK' /\ Fits' /\ Together' BY <1>1 DEF Inv, TypeOK, Fits, Together, Rerun
  <1>3. Leaves' BY <1>1 DEF Inv, Leaves, Rerun
  <1>4. QED BY <1>2, <1>3 DEF Inv

\* ... a state be assigned, ...
LEMMA SetStateInv == ASSUME Inv, NEW a \in Leaf, SetState(a) PROVE Inv'
  <1>1. phase = "idle" /\ phase' = "idle" BY DEF SetState, Edit
  <1>2. /\ engine \in [Leaf -> Engine] /\ clock \in [Leaf -> State]
        /\ engine' = [engine EXCEPT ![a] = Assigned(engine[a])]
        /\ clock' = [clock EXCEPT ![a] = [clock[a] EXCEPT !.epoch = clock[a].epoch + 1]]
    BY DEF SetState, Inv, TypeOK
  <1>3. ASSUME NEW b \in Leaf
        PROVE  /\ engine'[b] \in Engine /\ clock'[b] \in State /\ IsTimeline(engine'[b])
               /\ Settled(engine'[b], clock'[b], taken[b])
    <2>1. /\ engine[b] \in Engine /\ clock[b] \in State /\ IsTimeline(engine[b])
          /\ Settled(engine[b], clock[b], taken[b])
      BY <1>1, LeafFacts
    <2>2. CASE b = a
      <3>1. engine'[b] = Assigned(engine[b]) BY <1>2, <2>2
      <3>2. clock'[b] = [clock[b] EXCEPT !.epoch = clock[b].epoch + 1] BY <1>2, <2>2
      <3>3. clock'[b] \in State
        <4>1. clock[b].epoch + 1 \in Nat BY <2>1 DEF State
        <4>2. QED BY <2>1, <3>2, <4>1 DEF State
      <3>4. QED BY <2>1, <3>1, <3>2, <3>3, AssignKeeps
    <2>3. CASE b # a BY <1>2, <2>1, <2>3
    <2>4. QED BY <2>2, <2>3
  <1>4. engine' \in [Leaf -> Engine] /\ clock' \in [Leaf -> State]
    <2>1. engine' = [b \in Leaf |-> engine'[b]] /\ clock' = [b \in Leaf |-> clock'[b]] BY <1>2
    <2>2. QED BY <1>3, <2>1
  <1>5. TypeOK' BY <1>4 DEF Inv, TypeOK, SetState
  <1>6. Fits' /\ Together' BY <1>1 DEF Inv, Fits, Together, SetState
  <1>7. Leaves' BY <1>1, <1>3 DEF Leaves, SetState
  <1>8. QED BY <1>5, <1>6, <1>7 DEF Inv

\* ... the engines be replaced or everything start anew.
LEMMA SetSolverInv == ASSUME Inv, SetSolver PROVE Inv'
  <1>1. phase = "idle" /\ phase' = "idle" /\ HistoryLen \in Nat
    BY GearAssumption DEF SetSolver, Edit
  <1>2. /\ engine' = [b \in Leaf |-> Replaced(engine[b])] /\ taken' = [b \in Leaf |-> 0]
    BY DEF SetSolver, Apply
  <1>3. ASSUME NEW b \in Leaf
        PROVE  engine'[b] \in Engine /\ IsTimeline(engine'[b]) /\ Settled(engine'[b], clock[b], 0)
    <2>1. engine[b] \in Engine /\ engine[b].x = clock[b] BY <1>1, LeafFacts DEF Settled
    <2>2. QED BY <1>2, <2>1, NewFacts, NewKeeps
  <1>4. TypeOK' BY <1>1, <1>2, <1>3 DEF Inv, TypeOK, SetSolver
  <1>5. Fits' /\ Together' BY <1>1 DEF Inv, Fits, Together, SetSolver
  <1>6. Leaves' BY <1>1, <1>2, <1>3 DEF Leaves, SetSolver
  <1>7. QED BY <1>4, <1>5, <1>6 DEF Inv

LEMMA ResetInv == ASSUME Inv, Reset PROVE Inv'
  <1>1. phase = "idle" /\ phase' = "idle" /\ HistoryLen \in Nat /\ MaxTime \in Nat
    BY GearAssumption, TreeAssumption DEF Reset, Edit
  <1>2. /\ engine' = [b \in Leaf |-> Restarted(engine[b])] /\ taken' = [b \in Leaf |-> 0]
        /\ clock' = [b \in Leaf |-> Initial] /\ armed' = [b \in Block |-> TRUE] /\ time' = 0
    BY DEF Reset, Apply
  <1>3. ASSUME NEW b \in Leaf
        PROVE  engine'[b] \in Engine /\ IsTimeline(engine'[b]) /\ Settled(engine'[b], Initial, 0)
    <2>1. engine[b] \in Engine BY LeafFacts
    <2>2. QED BY <1>2, <2>1, NewFacts, NewKeeps
  <1>4. TypeOK' BY <1>1, <1>2, <1>3, NewFacts DEF Inv, TypeOK, Reset
  <1>5. Fits' /\ Together' BY <1>1 DEF Inv, Fits, Together, Reset
  <1>6. Leaves' BY <1>1, <1>2, <1>3 DEF Leaves, Reset
  <1>7. QED BY <1>4, <1>5, <1>6 DEF Inv

LEMMA NextInv ==
  ASSUME \A b \in Switched : b \in Block /\ AtTop(b), Inv, [Next]_vars
  PROVE  Inv'
  <1>1. CASE UNCHANGED vars
    <2>1. TypeOK' /\ Fits' /\ Together' BY <1>1 DEF Inv, vars, TypeOK, Fits, Together
    <2>2. Live' = Live BY <1>1 DEF vars, Live
    <2>3. Leaves' BY <1>1, <2>2 DEF Inv, vars, Leaves
    <2>4. QED BY <2>1, <2>3 DEF Inv
  <1>2. CASE \E d \in Widths : Begin(d) BY <1>2, BeginInv
  <1>3. CASE Solve BY <1>3, SolveInv
  <1>4. CASE SolveFails BY <1>4, RejectInv DEF SolveFails
  <1>5. CASE Step BY <1>5, StepInv
  <1>6. CASE FarCrossing BY <1>6, RejectInv DEF FarCrossing
  <1>7. CASE \E part \in 1 .. dt - 1 : Probe(part) BY <1>7, ProbeInv
  <1>8. CASE EndProbe BY <1>8, EndProbeInv
  <1>9. CASE \E f \in Effect : Commit(f) BY <1>9, CommitInv
  <1>10. CASE \E b \in Switched, v \in BOOLEAN : Switch(b, v) BY <1>10, SwitchInv
  <1>11. CASE Rerun BY <1>11, RerunInv
  <1>12. CASE \E b \in Leaf : SetState(b) BY <1>12, SetStateInv
  <1>13. CASE SetSolver BY <1>13, SetSolverInv
  <1>14. CASE Reset BY <1>14, ResetInv
  <1>15. QED
    BY <1>1, <1>2, <1>3, <1>4, <1>5, <1>6, <1>7, <1>8, <1>9, <1>10, <1>11, <1>12, <1>13, <1>14
    DEF Next

-----------------------------------------------------------------------------
(* The theorems.  A subsystem hands a revert on to all it holds, also to a *)
(* block that was off when the attempt began (src/subsystem.rs); that only *)
(* blocks at the top are switched is what the first three assume.          *)

\* The invariant holds throughout.
LEMMA SpecInv ==
  ASSUME \A b \in Switched : b \in Block /\ AtTop(b)
  PROVE  Spec => []Inv
  <1>1. Init => Inv BY InitInv
  <1>2. Inv /\ [Next]_vars => Inv' BY NextInv
  <1>3. QED BY <1>1, <1>2, PTL DEF Spec

\* The variables keep their types, time its bound: no attempt goes beyond the
\* end of the run.
THEOREM SubsystemTypes ==
  ASSUME \A b \in Switched : b \in Block /\ AtTop(b)
  PROVE  Spec => []TypeOK
  <1>1. Inv => TypeOK BY DEF Inv
  <1>2. QED BY <1>1, SpecInv, PTL

\* Whatever was tried, probed and rejected, at any depth: between two attempts
\* every leaf has the state of the last step it took part in that was kept.
THEOREM StatesComeBack ==
  ASSUME \A b \in Switched : b \in Block /\ AtTop(b)
  PROVE  Spec => []StatesAreCommitted
  <1>1. Inv => StatesAreCommitted
    <2>1. SUFFICES ASSUME Inv, phase = "idle", NEW b \in Leaf PROVE engine[b].x = clock[b]
      BY DEF StatesAreCommitted
    <2>2. QED BY <2>1, LeafFacts DEF Settled
  <1>2. QED BY <1>1, SpecInv, PTL

\* The ring stays a timeline, and however many rejections came between, an
\* attempt finds in it all the steps committed, as far as it reaches back.
THEOREM HistoryStaysWhole ==
  ASSUME \A b \in Switched : b \in Block /\ AtTop(b)
  PROVE  Spec => []RejectionsCostNoHistory
  <1>1. Inv => RejectionsCostNoHistory
    <2>1. SUFFICES ASSUME Inv PROVE RejectionsCostNoHistory OBVIOUS
    <2>2. \A b \in Leaf : IsTimeline(engine[b]) BY <2>1, LeafFacts
    <2>3. Live \subseteq Leaf BY DEF Live
    <2>4. QED BY <2>1, <2>2, <2>3, LeafFacts DEF RejectionsCostNoHistory, Trying
  <1>2. QED BY <1>1, SpecInv, PTL

\* When no right-hand side leaves its domain, all that an event's guard sees
\* during a localization is one instant, and a dense output is over the step.
THEOREM ProbesSeeOneInstant ==
  ASSUME \A b \in Switched : b \in Block /\ AtTop(b), Poisoned = {}
  PROVE  Spec => []ProbesAreCoherent
  <1>1. Inv => ProbesAreCoherent
    <2>1. SUFFICES ASSUME Inv PROVE ProbesAreCoherent OBVIOUS
    <2>2. ASSUME NEW b \in Leaf PROVE WindowIsTheStep(engine[b])
      <3> DEFINE e == engine[b]
                 end == IF e.seeking THEN e.stash ELSE e.x
      <3>1. SUFFICES ASSUME e.open
                     PROVE  /\ e.span = Head(e.dts)
                            /\ end = [Head(e.history) EXCEPT !.at = Head(e.history).at + e.span]
        BY DEF WindowIsTheStep
      <3>2. /\ e \in Engine /\ IsTimeline(e) /\ clock[b] \in State /\ taken[b] \in 0 .. HistoryLen
            /\ phase # "idle" /\ b \in Live
                  => Trying(e, clock[b], taken[b], phase, dt, probe)
            /\ phase = "idle" \/ b \notin Live => Settled(e, clock[b], taken[b])
        BY <2>1, LeafFacts
      <3>3. end \in State BY <3>2 DEF Engine
      <3>4. CASE phase # "idle" /\ b \in Live
        <4>1. Trying(e, clock[b], taken[b], phase, dt, probe) BY <3>2, <3>4
        <4>2. Ends(end, clock[b], dt) /\ e.span = dt /\ Head(e.dts) = dt /\ Head(e.history) = clock[b]
          BY <3>1, <4>1 DEF Trying
        <4> HIDE DEF end, e
        <4>3. QED BY <3>2, <3>3, <4>2 DEF Ends, State
      <3>5. CASE ~(phase # "idle" /\ b \in Live)
        <4>1. Settled(e, clock[b], taken[b]) BY <3>2, <3>5
        <4>2. Head(e.history) \in State
          <5>1. e.history \in Seq(State) /\ e.history # <<>> BY <3>1, <3>2, <4>1 DEF Engine, Settled
          <5>2. QED BY <5>1
        <4>3. /\ e.span = Head(e.dts) /\ end = e.x /\ e.x.epoch = Head(e.history).epoch
              /\ e.x.at = Head(e.history).at + Head(e.dts) /\ e.x.nan = Head(e.history).nan
          BY <3>1, <4>1 DEF Settled, Linked
        <4> HIDE DEF end, e
        <4>4. QED BY <3>3, <4>2, <4>3 DEF State
      <3>6. QED BY <3>4, <3>5
    <2>3. ASSUME phase = "probe", NEW b \in Live
          PROVE  engine[b].x = [clock[b] EXCEPT !.at = clock[b].at + probe]
      <3>1. b \in Leaf BY DEF Live
      <3>2. /\ engine[b] \in Engine /\ clock[b] \in State
            /\ Trying(engine[b], clock[b], taken[b], "probe", dt, probe)
        BY <2>1, <2>3, <3>1, LeafFacts
      <3>3. engine[b].stash \in State BY <3>2 DEF Engine
      <3>4. /\ engine[b].stash.epoch = clock[b].epoch /\ engine[b].stash.nan = clock[b].nan
            /\ engine[b].x = [engine[b].stash EXCEPT !.at = clock[b].at + probe]
        BY <3>2 DEF Trying, Ends
      <3>5. QED BY <3>2, <3>3, <3>4 DEF State
    <2>4. QED BY <2>2, <2>3 DEF ProbesAreCoherent
  <1>2. QED BY <1>1, SpecInv, PTL

=============================================================================
