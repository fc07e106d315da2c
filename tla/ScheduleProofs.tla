----------------------------- MODULE ScheduleProofs -----------------------------
(***************************************************************************)
(* The evaluation order, for every diagram of any number of blocks: the    *)
(* two graph algorithms behind it, the tearing of a loop                   *)
(* (els_feedback_conns) and the strongly connected components              *)
(* (tarjan_sccs), as Schedule calls them; what one _update along the       *)
(* order comes to; which blocks the order leaves out; and the types.       *)
(***************************************************************************)
EXTENDS Schedule, Induction, FiniteSetTheorems

\* The modules of the algorithms see the same library.
LEMMA SameOperators ==
    /\ \A S : E!Cardinality(S) = Cardinality(S)
    /\ \A S : T!Cardinality(S) = Cardinality(S)
    /\ \A s : T!ToSet(s) = ToSet(s)
<1>1. \A S : E!Cardinality(S) = Cardinality(S)
  BY DEF E!Cardinality, Cardinality
<1>2. \A S : T!Cardinality(S) = Cardinality(S)
  BY DEF T!Cardinality, Cardinality
<1>3. \A s : T!ToSet(s) = ToSet(s)
  BY DEF T!ToSet, ToSet
<1> QED BY <1>1, <1>2, <1>3

LEMMA SeqFacts ==
    ASSUME NEW S, NEW s \in Seq(S)
    PROVE  Len(s) \in Nat /\ DOMAIN s = 1 .. Len(s) /\ \A i \in 1 .. Len(s) : s[i] \in S
OBVIOUS

LEMMA Ranges ==
    ASSUME NEW n \in Nat, n # 0
    PROVE  /\ n - 1 \in Nat /\ n \in 1 .. n
           /\ \A i \in 1 .. (n - 1) : i \in 1 .. n /\ i < n
           /\ \A i \in 1 .. n : i # n => i \in 1 .. (n - 1)
OBVIOUS

\* The k-th of some positions is one of them, with k - 1 before it.
UpTo(P, m) == {j \in P : j <= m}

LEMMA NthExists ==
    ASSUME NEW n \in Nat, NEW P \in SUBSET (1 .. n), NEW k \in 1 .. Cardinality(P)
    PROVE  Nth(P, k) \in P /\ Cardinality(UpTo(P, Nth(P, k))) = k
<1> DEFINE steps == {m \in Nat : k <= Cardinality(UpTo(P, m))}
<1>1. IsFiniteSet(P) /\ Cardinality(P) \in Nat /\ P \subseteq Int
  <2>1. IsFiniteSet(1 .. n) /\ P \in SUBSET (1 .. n)
    BY FS_Interval
  <2>2. IsFiniteSet(P)
    BY <2>1, FS_Subset
  <2> QED BY <2>2, FS_CardinalityType
<1>2. \A m \in Nat : IsFiniteSet(UpTo(P, m)) /\ Cardinality(UpTo(P, m)) \in Nat
  <2> SUFFICES ASSUME NEW m \in Nat PROVE IsFiniteSet(UpTo(P, m)) /\ Cardinality(UpTo(P, m)) \in Nat
    OBVIOUS
  <2>1. UpTo(P, m) \in SUBSET P
    BY DEF UpTo
  <2>2. IsFiniteSet(UpTo(P, m))
    BY <1>1, <2>1, FS_Subset
  <2> QED BY <2>2, FS_CardinalityType
<1>3. n \in steps
  <2>1. \A j \in P : j <= n
    OBVIOUS
  <2>2. UpTo(P, n) = P
    BY <2>1 DEF UpTo
  <2> QED BY <1>1, <2>2
<1>4. PICK m \in steps : \A y \in steps : m <= y
  <2>1. steps \in SUBSET Nat /\ steps # {}
    BY <1>3
  <2> QED BY <2>1, LeastNat
<1>5. m # 0
  <2>0. \A j \in P : ~(j <= 0)
    OBVIOUS
  <2>1. UpTo(P, 0) = {}
    BY <2>0 DEF UpTo
  <2>2. Cardinality(UpTo(P, 0)) = 0
    BY <2>1, FS_EmptySet
  <2>3. 0 \notin steps
    BY <1>1, <2>2
  <2> QED BY <1>4, <2>3
<1>6. m \in Nat /\ m - 1 \in Nat /\ m - 1 < m
  BY <1>4, <1>5
<1>7. Cardinality(UpTo(P, m - 1)) < k /\ k <= Cardinality(UpTo(P, m))
  <2>1. m - 1 \notin steps
    BY <1>4, <1>6
  <2> QED BY <1>1, <1>2, <1>4, <1>6, <2>1
<1>8. UpTo(P, m) = IF m \in P THEN UpTo(P, m - 1) \cup {m} ELSE UpTo(P, m - 1)
  <2>1. \A j \in P : j <= m <=> (j <= m - 1 \/ j = m)
    BY <1>1, <1>6
  <2>2. m <= m
    BY <1>6
  <2>3. ASSUME NEW j PROVE j \in UpTo(P, m) <=> (j \in UpTo(P, m - 1) \/ (m \in P /\ j = m))
    BY <2>1, <2>2 DEF UpTo
  <2> QED BY <2>3
<1>9. m \notin UpTo(P, m - 1)
  BY <1>6 DEF UpTo
<1>10. IsFiniteSet(UpTo(P, m - 1)) /\ Cardinality(UpTo(P, m - 1)) \in Nat /\ Cardinality(UpTo(P, m)) \in Nat
  BY <1>2, <1>6
<1>11. m \in P
  BY <1>1, <1>7, <1>8, <1>10
<1>12. Cardinality(UpTo(P, m)) = Cardinality(UpTo(P, m - 1)) + 1
  BY <1>8, <1>9, <1>10, <1>11, FS_AddElement
<1>13. Cardinality(UpTo(P, m)) = k
  BY <1>1, <1>7, <1>10, <1>12
<1>14. \E i \in P : Cardinality({j \in P : j <= i}) = k
  BY <1>11, <1>13 DEF UpTo
<1> QED BY <1>14 DEF Nth, UpTo

LEMMA PickedType ==
    ASSUME NEW S, NEW l \in Seq(S), NEW P \in SUBSET DOMAIN l
    PROVE  Picked(l, P) \in Seq(S)
<1>1. Len(l) \in Nat /\ DOMAIN l = 1 .. Len(l) /\ \A i \in 1 .. Len(l) : l[i] \in S
  BY SeqFacts
<1>2. IsFiniteSet(P) /\ Cardinality(P) \in Nat
  <2>1. IsFiniteSet(DOMAIN l)
    BY <1>1, FS_Interval
  <2>2. IsFiniteSet(P)
    BY <2>1, FS_Subset
  <2> QED BY <2>2, FS_CardinalityType
<1>3. \A k \in 1 .. Cardinality(P) : l[Nth(P, k)] \in S
  BY <1>1, NthExists
<1> QED BY <1>2, <1>3 DEF Picked

(* Theorem: the tearing of a loop *)

\* What the variables of a call of els_feedback_conns are.
TearingTypes ==
    /\ size \in Nat
    /\ IsFiniteSet(arcs) /\ \A a \in arcs : a[1] \in E!Block /\ a[2] \in E!Block
    /\ outdeg \in [E!Block -> Int] /\ indeg \in [E!Block -> Int]
    /\ removed \subseteq E!Block
    /\ pos \in [E!Block -> Int] /\ left \in Nat /\ right \in Int /\ right <= size
    /\ tearing = "core" => E!Live # {}
    /\ tearing = "done" => removed = E!Block

\* What is inductive.
TearingInv == TearingTypes /\ E!DegreesAreLive /\ E!OrderIsLinear

\* The arcs of A between v and the blocks L, both ways.
ArcsOut(A, v, L) == {a \in A : a[1] = v /\ a[2] \in L}
ArcsIn(A, v, L) == {a \in A : a[2] = v /\ a[1] \in L}

LEMMA DegreesOf ==
    /\ E!DegreesAreLive <=>
        \A v \in E!Live : /\ outdeg[v] = Cardinality(ArcsOut(arcs, v, E!Live))
                          /\ indeg[v] = Cardinality(ArcsIn(arcs, v, E!Live))
    /\ E!DegreesAreLive' <=>
        \A v \in E!Live' : /\ outdeg'[v] = Cardinality(ArcsOut(arcs', v, E!Live'))
                           /\ indeg'[v] = Cardinality(ArcsIn(arcs', v, E!Live'))
BY SameOperators DEF E!DegreesAreLive, ArcsOut, ArcsIn

LEMMA ArcsBetween ==
    \A v, w : E!Outs(v, w) = Cardinality(ArcsOut(arcs, v, {w})) /\ E!Outs(v, w) = Cardinality(ArcsIn(arcs, w, {v}))
<1> TAKE v, w
<1>1. /\ {a \in arcs : a[1] = v /\ a[2] = w} = ArcsOut(arcs, v, {w})
      /\ {a \in arcs : a[1] = v /\ a[2] = w} = ArcsIn(arcs, w, {v})
  BY DEF ArcsOut, ArcsIn
<1> QED BY <1>1, SameOperators DEF E!Outs

\* A block that leaves the live ones takes its arcs along.
LEMMA ArcsLost ==
    ASSUME NEW A, IsFiniteSet(A), NEW L, NEW u \in L, NEW v
    PROVE  /\ Cardinality(ArcsOut(A, v, L \ {u}))
                = Cardinality(ArcsOut(A, v, L)) - Cardinality(ArcsOut(A, v, {u}))
           /\ Cardinality(ArcsIn(A, v, L \ {u}))
                = Cardinality(ArcsIn(A, v, L)) - Cardinality(ArcsIn(A, v, {u}))
<1>1. IsFiniteSet(ArcsOut(A, v, L)) /\ IsFiniteSet(ArcsIn(A, v, L))
  BY FS_Subset DEF ArcsOut, ArcsIn
<1>2. /\ ArcsOut(A, v, L) \cap ArcsOut(A, v, {u}) = ArcsOut(A, v, {u})
      /\ ArcsOut(A, v, L \ {u}) = ArcsOut(A, v, L) \ ArcsOut(A, v, {u})
  BY DEF ArcsOut
<1>3. /\ ArcsIn(A, v, L) \cap ArcsIn(A, v, {u}) = ArcsIn(A, v, {u})
      /\ ArcsIn(A, v, L \ {u}) = ArcsIn(A, v, L) \ ArcsIn(A, v, {u})
  BY DEF ArcsIn
<1>4. Cardinality(ArcsOut(A, v, L) \ ArcsOut(A, v, {u}))
        = Cardinality(ArcsOut(A, v, L)) - Cardinality(ArcsOut(A, v, L) \cap ArcsOut(A, v, {u}))
  BY <1>1, FS_Difference
<1>5. Cardinality(ArcsIn(A, v, L) \ ArcsIn(A, v, {u}))
        = Cardinality(ArcsIn(A, v, L)) - Cardinality(ArcsIn(A, v, L) \cap ArcsIn(A, v, {u}))
  BY <1>1, FS_Difference
<1>6. Cardinality(ArcsOut(A, v, L \ {u})) = Cardinality(ArcsOut(A, v, L)) - Cardinality(ArcsOut(A, v, {u}))
  BY <1>2, <1>4
<1>7. Cardinality(ArcsIn(A, v, L \ {u})) = Cardinality(ArcsIn(A, v, L)) - Cardinality(ArcsIn(A, v, {u}))
  BY <1>3, <1>5
<1> QED BY <1>6, <1>7

\* drop_vertex keeps the degrees those of the arcs between live blocks.
LEMMA DropsVertex ==
    ASSUME TearingInv, NEW u \in E!Live, E!Drop(u), UNCHANGED <<size, arcs>>
    PROVE  /\ removed' \subseteq E!Block /\ u \in E!Block /\ u \notin removed /\ removed' = removed \cup {u}
           /\ E!Live' = E!Live \ {u}
           /\ E!Block' = E!Block
           /\ outdeg' \in [E!Block -> Int] /\ indeg' \in [E!Block -> Int]
           /\ E!DegreesAreLive'
           /\ Cardinality(E!Live) \in Nat \ {0}
           /\ Cardinality(E!Live') = Cardinality(E!Live) - 1
<1>1. /\ u \in E!Block /\ u \notin removed /\ removed' = removed \cup {u}
      /\ removed \subseteq E!Block /\ E!Block' = E!Block /\ arcs' = arcs /\ IsFiniteSet(arcs)
  BY DEF E!Live, E!Drop, TearingInv, TearingTypes, E!Block
<1>2. E!Live' = E!Live \ {u} /\ E!Live \subseteq E!Block
  BY <1>1 DEF E!Live
<1>3. /\ indeg' = [v \in E!Block |-> IF v \in E!Live \ {u} THEN indeg[v] - E!Outs(u, v) ELSE indeg[v]]
      /\ outdeg' = [v \in E!Block |-> IF v \in E!Live \ {u} THEN outdeg[v] - E!Outs(v, u) ELSE outdeg[v]]
  BY DEF E!Drop
<1>4. \A v, w : E!Outs(v, w) \in Int
  <2> TAKE v, w
  <2>1. IsFiniteSet(ArcsOut(arcs, v, {w}))
    BY <1>1, FS_Subset DEF ArcsOut
  <2>2. Cardinality(ArcsOut(arcs, v, {w})) \in Nat
    BY <2>1, FS_CardinalityType
  <2> QED BY <2>2, ArcsBetween
<1>5. outdeg' \in [E!Block -> Int] /\ indeg' \in [E!Block -> Int]
  BY <1>3, <1>4 DEF TearingInv, TearingTypes
<1>6. E!DegreesAreLive'
  <2> SUFFICES ASSUME NEW v \in E!Live \ {u}
               PROVE  /\ outdeg'[v] = Cardinality(ArcsOut(arcs, v, E!Live \ {u}))
                      /\ indeg'[v] = Cardinality(ArcsIn(arcs, v, E!Live \ {u}))
    BY <1>1, <1>2, DegreesOf
  <2>1. outdeg'[v] = outdeg[v] - E!Outs(v, u) /\ indeg'[v] = indeg[v] - E!Outs(u, v)
    BY <1>2, <1>3
  <2>2. /\ outdeg[v] = Cardinality(ArcsOut(arcs, v, E!Live))
        /\ indeg[v] = Cardinality(ArcsIn(arcs, v, E!Live))
    BY DegreesOf DEF TearingInv
  <2>3. /\ E!Outs(v, u) = Cardinality(ArcsOut(arcs, v, {u}))
        /\ E!Outs(u, v) = Cardinality(ArcsIn(arcs, v, {u}))
    BY ArcsBetween
  <2> QED BY <1>1, <2>1, <2>2, <2>3, ArcsLost
<1>7. IsFiniteSet(E!Live)
  <2>1. IsFiniteSet(E!Block)
    BY FS_Interval DEF TearingInv, TearingTypes, E!Block
  <2> QED BY <1>2, <2>1, FS_Subset
<1>8. Cardinality(E!Live) \in Nat /\ Cardinality(E!Live) # 0
  BY <1>7, FS_CardinalityType, FS_EmptySet
<1>9. Cardinality(E!Live \ {u}) = Cardinality(E!Live) - 1
  BY <1>7, FS_RemoveElement
<1> QED BY <1>1, <1>2, <1>5, <1>6, <1>8, <1>9

\* A place is handed out from the front or from the back, and not yet taken.
LEMMA TakesPlace ==
    ASSUME TearingInv, NEW u \in E!Live, E!ToFront(u) \/ E!ToBack(u), UNCHANGED <<size, arcs>>
    PROVE  /\ E!OrderIsLinear'
           /\ pos' \in [E!Block -> Int] /\ left' \in Nat /\ right' \in Int /\ right' <= size
<1>1. E!Drop(u)
  BY DEF E!ToFront, E!ToBack
<1> DEFINE c == Cardinality(E!Live)
           d == Cardinality(E!Live')
<1>2. /\ u \in E!Block /\ u \notin removed /\ removed' = removed \cup {u}
      /\ c \in Nat \ {0} /\ d = c - 1
  BY <1>1, DropsVertex
<1>3. /\ right - left = c
      /\ \A v, w \in removed : pos[v] = pos[w] => v = w
      /\ \A v \in removed : pos[v] \in (0 .. (left - 1)) \cup (right .. (size - 1))
  BY SameOperators DEF TearingInv, E!OrderIsLinear
<1> SUFFICES /\ right' - left' = d
             /\ \A v, w \in removed' : pos'[v] = pos'[w] => v = w
             /\ \A v \in removed' : pos'[v] \in (0 .. (left' - 1)) \cup (right' .. (size' - 1))
             /\ pos' \in [E!Block -> Int] /\ left' \in Nat /\ right' \in Int /\ right' <= size
  BY SameOperators DEF E!OrderIsLinear
<1> HIDE DEF c, d
<1>4. /\ pos \in [E!Block -> Int] /\ left \in Nat /\ right \in Int /\ size \in Nat /\ right <= size
      /\ removed \subseteq E!Block /\ size' = size
  BY DEF TearingInv, TearingTypes
<1>5. left < right
  BY <1>2, <1>3, <1>4
<1>6. ASSUME NEW v \in removed
      PROVE  pos[v] \in Int /\ (pos[v] < left \/ pos[v] >= right) /\ pos[v] >= 0 /\ pos[v] < size
  <2>1. pos[v] \in (0 .. (left - 1)) \cup (right .. (size - 1))
    BY <1>3
  <2> QED BY <1>4, <1>5, <2>1
<1>7. CASE E!ToFront(u)
  <2>1. pos' = [pos EXCEPT ![u] = left] /\ left' = left + 1 /\ right' = right
    BY <1>7 DEF E!ToFront
  <2>2. pos'[u] = left /\ \A v \in removed : pos'[v] = pos[v]
    BY <1>2, <1>4, <2>1
  <2>3. \A v \in removed' : pos'[v] \in (0 .. (left' - 1)) \cup (right' .. (size' - 1))
    BY <1>2, <1>4, <1>5, <1>6, <2>1, <2>2
  <2> QED BY <1>2, <1>3, <1>4, <1>5, <1>6, <2>1, <2>2, <2>3
<1>8. CASE E!ToBack(u)
  <2>1. pos' = [pos EXCEPT ![u] = right - 1] /\ left' = left /\ right' = right - 1
    BY <1>8 DEF E!ToBack
  <2>2. pos'[u] = right - 1 /\ \A v \in removed : pos'[v] = pos[v]
    BY <1>2, <1>4, <2>1
  <2>3. \A v \in removed' : pos'[v] \in (0 .. (left' - 1)) \cup (right' .. (size' - 1))
    BY <1>2, <1>4, <1>5, <1>6, <2>1, <2>2
  <2> QED BY <1>2, <1>3, <1>4, <1>5, <1>6, <2>1, <2>2, <2>3
<1> QED BY <1>7, <1>8

\* Every step of the ordering keeps the invariant; a core is entered only with
\* a block left, and the ordering ends only with none left.
LEMMA TearingStep ==
    ASSUME TearingInv, E!Next
    PROVE  TearingInv'
<1>1. size' = size /\ arcs' = arcs /\ E!Block' = E!Block
  BY DEF E!Next, E!PeelSink, E!SinksScanned, E!PeelSource, E!SourcesScanned, E!TakeBest, E!Block
<1>2. CASE E!SinksScanned \/ E!SourcesScanned
  <2>1. UNCHANGED <<size, arcs, outdeg, indeg, removed, pos, left, right>>
    BY <1>2 DEF E!SinksScanned, E!SourcesScanned
  <2>2. E!Live' = E!Live
    BY <1>1, <2>1 DEF E!Live
  <2>3. E!DegreesAreLive' /\ E!OrderIsLinear'
    BY <1>1, <2>1, <2>2 DEF TearingInv, E!DegreesAreLive, E!OrderIsLinear
  <2>4. /\ tearing' = "core" => E!Live # {}
        /\ tearing' = "done" => removed = E!Block
    BY <1>2 DEF E!SinksScanned, E!SourcesScanned, TearingInv, TearingTypes, E!Live
  <2> QED BY <1>1, <2>1, <2>2, <2>3, <2>4 DEF TearingInv, TearingTypes
<1>3. CASE E!PeelSink \/ E!PeelSource \/ E!TakeBest
  <2>1. PICK u \in E!Live : E!ToFront(u) \/ E!ToBack(u)
    BY <1>3 DEF E!PeelSink, E!PeelSource, E!TakeBest, E!Scanned, E!Best
  <2>2. E!Drop(u)
    BY <2>1 DEF E!ToFront, E!ToBack
  <2>3. /\ tearing' \in {"sinks", "sources", "done"}
        /\ tearing' = "done" => removed' = E!Block
    BY <1>3 DEF E!PeelSink, E!PeelSource, E!TakeBest
  <2> QED BY <1>1, <2>1, <2>2, <2>3, DropsVertex, TakesPlace DEF TearingInv, TearingTypes
<1> QED BY <1>2, <1>3 DEF E!Next

\* A call of the ordering begins with all blocks live and the whole loop free.
LEMMA TearingBegins ==
    ASSUME NEW n \in Nat, NEW A, IsFiniteSet(A), \A a \in A : a[1] \in 1 .. n /\ a[2] \in 1 .. n,
           E!Call(n, A)
    PROVE  TearingInv'
<1>1. /\ size' = n /\ arcs' = A /\ removed' = {} /\ left' = 0 /\ right' = n /\ tearing' = "sinks"
      /\ outdeg' = [v \in 1 .. n |-> Cardinality({a \in A : a[1] = v})]
      /\ indeg' = [v \in 1 .. n |-> Cardinality({a \in A : a[2] = v})]
      /\ pos' = [v \in 1 .. n |-> 0]
  BY SameOperators DEF E!Call
<1>2. E!Block' = 1 .. n /\ E!Live' = 1 .. n
  BY <1>1 DEF E!Block, E!Live
<1>3. \A v \in 1 .. n : /\ {a \in A : a[1] = v} = ArcsOut(A, v, 1 .. n)
                        /\ {a \in A : a[2] = v} = ArcsIn(A, v, 1 .. n)
  BY DEF ArcsOut, ArcsIn
<1>4. ASSUME NEW v \in 1 .. n
      PROVE  Cardinality({a \in A : a[1] = v}) \in Int /\ Cardinality({a \in A : a[2] = v}) \in Int
  <2>1. IsFiniteSet({a \in A : a[1] = v}) /\ IsFiniteSet({a \in A : a[2] = v})
    BY FS_Subset
  <2> QED BY <2>1, FS_CardinalityType
<1>5. TearingTypes'
  <2>1. outdeg' \in [1 .. n -> Int] /\ indeg' \in [1 .. n -> Int]
    BY <1>1, <1>4
  <2> QED BY <1>1, <1>2, <2>1 DEF TearingTypes
<1>6. E!DegreesAreLive'
  <2>1. \A v \in 1 .. n : /\ outdeg'[v] = Cardinality(ArcsOut(A, v, 1 .. n))
                          /\ indeg'[v] = Cardinality(ArcsIn(A, v, 1 .. n))
    BY <1>1, <1>3
  <2> QED BY <1>1, <1>2, <2>1, DegreesOf
<1>7. E!OrderIsLinear'
  <2>1. Cardinality(1 .. n) = n
    BY FS_Interval
  <2> QED BY <1>1, <1>2, <2>1, SameOperators DEF E!OrderIsLinear
<1> QED BY <1>5, <1>6, <1>7 DEF TearingInv

\* With every block placed, what is kept runs forward: no set of blocks feeds itself.
LEMMA ForwardOnly == ASSUME TearingInv PROVE E!TornBreaksAllCycles
<1> SUFFICES ASSUME tearing = "done" PROVE removed = E!Block /\ ~E!Cyclic(E!Kept)
  BY DEF E!TornBreaksAllCycles
<1>1. /\ removed = E!Block /\ pos \in [E!Block -> Int] /\ size \in Nat /\ left \in Nat /\ right \in Int
      /\ right <= size
      /\ \A a \in arcs : a[1] \in E!Block /\ a[2] \in E!Block
  BY DEF TearingInv, TearingTypes
<1>2. /\ \A v, w \in removed : pos[v] = pos[w] => v = w
      /\ \A v \in removed : pos[v] \in (0 .. (left - 1)) \cup (right .. (size - 1))
      /\ right - left = Cardinality(E!Live)
  BY SameOperators DEF TearingInv, E!OrderIsLinear
<1>3. ASSUME NEW S \in (SUBSET E!Block) \ {{}}, \A v \in S : \E a \in E!Kept : a[1] = v /\ a[2] \in S
      PROVE  FALSE
  <2>0. right = left
    <3>1. E!Live = {}
      BY <1>1 DEF E!Live
    <3> QED BY <1>1, <1>2, <3>1, FS_EmptySet
  <2>1. \A v \in S : size - pos[v] \in Nat
    <3> SUFFICES ASSUME NEW v \in S PROVE size - pos[v] \in Nat
      OBVIOUS
    <3>1. pos[v] \in (0 .. (left - 1)) \cup (right .. (size - 1))
      BY <1>1, <1>2
    <3> QED BY <1>1, <2>0, <3>1
  <2> DEFINE ends == {size - pos[v] : v \in S}
  <2>2. ends \in SUBSET Nat /\ ends # {}
    BY <2>1
  <2>3. PICK t \in ends : \A y \in ends : t <= y
    BY <2>2, LeastNat
  <2>4. PICK v \in S : t = size - pos[v]
    OBVIOUS
  <2>5. PICK a \in E!Kept : a[1] = v /\ a[2] \in S
    BY <1>3
  <2>6. a \in arcs /\ a[1] # a[2] /\ ~(pos[a[1]] > pos[a[2]])
    BY <2>5 DEF E!Kept, E!Torn
  <2>7. pos[v] \in Int /\ pos[a[2]] \in Int /\ pos[v] # pos[a[2]]
    BY <1>1, <1>2, <2>5, <2>6
  <2>8. size - pos[v] <= size - pos[a[2]]
    BY <2>3, <2>4, <2>5
  <2> QED BY <1>1, <2>5, <2>6, <2>7, <2>8
<1> QED BY <1>1, <1>3 DEF E!Cyclic

(* Theorem: the components of a graph *)

\* From v one comes to w along the arcs of g.
ClosedIn(g, S) == \A u \in S : \A k \in DOMAIN g[u] : g[u][k] \in S
Reaches(g, v, w) == w \in Block /\ \A S \in SUBSET Block : v \in S /\ ClosedIn(g, S) => w \in S

Graph == [Block -> Seq(Block)]

LEMMA ArcFacts ==
    ASSUME NEW g \in Graph, NEW x \in Block
    PROVE  /\ Len(g[x]) \in Nat /\ DOMAIN g[x] = 1 .. Len(g[x])
           /\ \A k \in DOMAIN g[x] : k \in Int /\ k \in Nat \ {0} /\ k <= Len(g[x]) /\ g[x][k] \in Block
<1>1. g[x] \in Seq(Block)
  BY DEF Graph
<1>2. Len(g[x]) \in Nat /\ DOMAIN g[x] = 1 .. Len(g[x]) /\ \A k \in 1 .. Len(g[x]) : g[x][k] \in Block
  BY <1>1, SeqFacts
<1> QED BY <1>2

LEMMA ReachesSelf == ASSUME NEW g, NEW v \in Block PROVE Reaches(g, v, v)
BY DEF Reaches

LEMMA ReachesNext ==
    ASSUME NEW g \in Graph, NEW v \in Block, NEW k \in DOMAIN g[v]
    PROVE  g[v][k] \in Block /\ Reaches(g, v, g[v][k])
<1>1. g[v] \in Seq(Block)
  BY DEF Graph
<1>2. g[v][k] \in Block
  BY <1>1
<1> QED BY <1>2 DEF Reaches, ClosedIn

LEMMA ReachesOn ==
    ASSUME NEW g, NEW u, NEW v, NEW w, Reaches(g, u, v), Reaches(g, v, w)
    PROVE  Reaches(g, u, w)
BY DEF Reaches

LEMMA ReachesWithin ==
    ASSUME NEW g, NEW S \in SUBSET Block, ClosedIn(g, S), NEW v \in S, NEW w, Reaches(g, v, w)
    PROVE  w \in S
BY DEF Reaches

LEMMA ReachIs ==
    ASSUME adj \in Graph, NEW v \in Block
    PROVE  T!Reach(v) = {w \in Block : Reaches(adj, v, w)}
<1>1. T!Node = Block
  BY DEF T!Node, Block
<1>2. ASSUME NEW S \in SUBSET Block PROVE T!Closed(S) <=> ClosedIn(adj, S)
  <2>1. ASSUME NEW u \in S PROVE ToSet(adj[u]) \subseteq S <=> \A k \in DOMAIN adj[u] : adj[u][k] \in S
    <3>1. ToSet(adj[u]) = {adj[u][k] : k \in DOMAIN adj[u]}
      BY DEF ToSet
    <3> QED BY <3>1
  <2> QED BY <2>1, SameOperators DEF T!Closed, ClosedIn
<1> QED BY <1>1, <1>2 DEF T!Reach, Reaches

\* What the search has seen, holds on its stack and has closed.
Seen == {v \in Block : index[v] # N}
Stacked == ToSet(stack)
Shut == UNION {ToSet(sccs[i]) : i \in DOMAIN sccs}

\* The path the search is on, and the entries of it that are visited.
Path(i) == work[i][1]
Cursor(i) == work[i][2]
Gray(i) == i \in DOMAIN work /\ Cursor(i) >= 1

\* The k-th arc from x has been dealt with.
Dealt(x, k) ==
    \A i \in DOMAIN work : Path(i) = x => k < Cursor(i) - (IF i = Len(work) THEN 0 ELSE 1)

CycleTypes ==
    /\ N \in Nat
    /\ adj \in Graph
    /\ index \in [Block -> 0 .. N] /\ lowlink \in [Block -> 0 .. N]
    /\ stack \in Seq(Block) /\ work \in Seq(Block \X Nat)
    /\ next \in 0 .. N
    /\ sccs \in Seq(Seq(Block))

Numbered ==
    /\ next = Cardinality(Seen)
    /\ \A v \in Seen : index[v] < next
    /\ \A v, w \in Seen : index[v] = index[w] => v = w

Ascending == \A i, j \in DOMAIN stack : i < j => index[stack[i]] < index[stack[j]]

Parted == Seen = Stacked \cup Shut /\ Stacked \cap Shut = {}

\* The path follows arcs, over ascending numbers.
OnPath ==
    \A i \in DOMAIN work :
        /\ Cursor(i) <= Len(adj[Path(i)]) + 1
        /\ Cursor(i) = 0 => i = Len(work) /\ Path(i) \notin Seen
        /\ Cursor(i) > 0 => /\ Path(i) \in Stacked
                            /\ \A j \in 1 .. (i - 1) : index[Path(j)] < index[Path(i)]
        /\ i < Len(work) => Cursor(i) >= 2 /\ adj[Path(i)][Cursor(i) - 1] = Path(i + 1)

Followed == \A x \in Stacked : \A k \in DOMAIN adj[x] : Dealt(x, k) => adj[x][k] \in Seen

\* The nodes on the stack that entry i of the path answers for.
Segment(i) ==
    {x \in Stacked : index[Path(i)] <= index[x] /\ \A j : Gray(j) /\ j > i => index[x] < index[Path(j)]}

\* lowlink bounds what the dealt arcs of the segment lead to on the stack,
LowBounds ==
    \A i : Gray(i) =>
        \A x \in Segment(i) : \A k \in DOMAIN adj[x] :
            Dealt(x, k) /\ adj[x][k] \in Stacked => lowlink[Path(i)] <= index[adj[x][k]]

\* and is the number of a node on the stack that can be reached.
LowReached ==
    \A i : Gray(i) =>
        /\ lowlink[Path(i)] <= index[Path(i)]
        /\ \E y \in Stacked : index[y] = lowlink[Path(i)] /\ Reaches(adj, Path(i), y)

\* The path leads to all later nodes on the stack, and they lead back to it.
Ahead ==
    \A i : Gray(i) => \A x \in Stacked : index[Path(i)] <= index[x] => Reaches(adj, Path(i), x)
Returning ==
    \A x \in Stacked : \E i : Gray(i) /\ index[Path(i)] <= index[x] /\ Reaches(adj, x, Path(i))

\* The closed components are classes of mutually reachable nodes, each once,
\* and closed downstream first.
Shape ==
    \A i \in DOMAIN sccs : \E v \in Block :
        ToSet(sccs[i]) = {w \in Block : Reaches(adj, v, w) /\ Reaches(adj, w, v)}
Apart == \A i, j \in DOMAIN sccs : i # j => ToSet(sccs[i]) \cap ToSet(sccs[j]) = {}
Order ==
    \A i \in DOMAIN sccs : \A u \in ToSet(sccs[i]) : \A k \in DOMAIN adj[u] :
        \E j \in 1 .. i : adj[u][k] \in ToSet(sccs[j])

TarjanInv ==
    /\ CycleTypes
    /\ Numbered /\ Ascending /\ Parted /\ OnPath
    /\ Followed /\ LowBounds /\ LowReached /\ Ahead /\ Returning
    /\ Shape /\ Apart /\ Order

\* What is on the stack is visited; what is visited has a number.
LEMMA StackSeen ==
    ASSUME TarjanInv
    PROVE  /\ Stacked = {stack[i] : i \in 1 .. Len(stack)}
           /\ Stacked \subseteq Seen /\ Seen \subseteq Block /\ Shut \subseteq Seen
           /\ \A v \in Seen : index[v] \in 0 .. (next - 1)
           /\ \A v \in Block \ Seen : index[v] = N
<1>1. /\ index \in [Block -> 0 .. N] /\ stack \in Seq(Block) /\ next \in 0 .. N /\ N \in Nat
      /\ Seen = Stacked \cup Shut
      /\ \A v \in Seen : index[v] < next
  BY DEF TarjanInv, CycleTypes, Parted, Numbered
<1>2. Stacked = {stack[i] : i \in 1 .. Len(stack)}
  BY <1>1 DEF Stacked, ToSet
<1>3. Seen \subseteq Block /\ \A v \in Block \ Seen : index[v] = N
  BY DEF Seen
<1> HIDE DEF Seen, Stacked, Shut
<1>4. \A v \in Seen : index[v] \in 0 .. (next - 1)
  BY <1>1, <1>3
<1> QED BY <1>1, <1>2, <1>3, <1>4

\* No two entries of the path are for one node.
LEMMA PathOnce ==
    ASSUME TarjanInv
    PROVE  /\ work \in Seq(Block \X Nat) /\ Len(work) \in Nat /\ DOMAIN work = 1 .. Len(work)
           /\ \A i \in 1 .. Len(work) : Path(i) \in Block /\ Cursor(i) \in Nat
           /\ \A i, j \in 1 .. Len(work) : Path(i) = Path(j) => i = j
           /\ \A i, j \in 1 .. Len(work) : Gray(i) /\ j < i => index[Path(j)] < index[Path(i)]
           /\ \A i \in 1 .. Len(work) : Gray(i) => Path(i) \in Stacked /\ Path(i) \in Seen
           /\ \A i \in 1 .. Len(work) : i < Len(work) => Gray(i)
<1>1. /\ work \in Seq(Block \X Nat) /\ Len(work) \in Nat /\ DOMAIN work = 1 .. Len(work)
      /\ index \in [Block -> 0 .. N]
  BY DEF TarjanInv, CycleTypes
<1>2. ASSUME NEW i \in 1 .. Len(work) PROVE Path(i) \in Block /\ Cursor(i) \in Nat
  BY <1>1 DEF Path, Cursor
<1>3. ASSUME NEW i \in 1 .. Len(work), i < Len(work) PROVE Gray(i)
  <2>1. i \in DOMAIN work /\ Cursor(i) >= 2
    BY <1>1, <1>3 DEF TarjanInv, OnPath
  <2> QED BY <1>2, <2>1 DEF Gray
<1>4. \A i \in 1 .. Len(work) : Gray(i) => Path(i) \in Stacked /\ Path(i) \in Seen
  BY <1>1, <1>2, StackSeen DEF TarjanInv, OnPath, Gray
<1>5. \A i, j \in 1 .. Len(work) : Gray(i) /\ j < i => index[Path(j)] < index[Path(i)]
  <2> SUFFICES ASSUME NEW i \in 1 .. Len(work), NEW j \in 1 .. Len(work), Gray(i), j < i
               PROVE  index[Path(j)] < index[Path(i)]
    OBVIOUS
  <2>1. i \in DOMAIN work /\ Cursor(i) >= 1 /\ Cursor(i) \in Nat
    BY <1>2 DEF Gray
  <2>2. Cursor(i) > 0
    BY <2>1
  <2>3. j \in 1 .. (i - 1)
    BY <1>1
  <2> QED BY <2>1, <2>2, <2>3 DEF TarjanInv, OnPath
<1>6. ASSUME NEW i \in 1 .. Len(work), NEW j \in 1 .. Len(work), j < i PROVE Path(i) # Path(j)
  <2>1. CASE Gray(i)
    <3>1. index[Path(j)] < index[Path(i)]
      BY <1>5, <1>6, <2>1
    <3> QED BY <1>1, <1>2, <3>1
  <2>2. CASE ~Gray(i)
    <3>1. j < Len(work) /\ i \in DOMAIN work /\ Cursor(i) \in Nat
      BY <1>1, <1>2, <1>6
    <3>2. Path(j) \in Seen
      BY <1>3, <1>4, <3>1
    <3>3. Cursor(i) = 0
      BY <2>2, <3>1 DEF Gray
    <3>4. Path(i) \notin Seen
      BY <3>1, <3>3 DEF TarjanInv, OnPath
    <3> QED BY <3>2, <3>4
  <2> QED BY <2>1, <2>2
<1> QED BY <1>1, <1>2, <1>3, <1>4, <1>5, <1>6

\* A call begins with nothing seen.
LEMMA CallBegins ==
    ASSUME N \in Nat, NEW g \in Graph, T!Call(g)
    PROVE  TarjanInv'
<1>1. /\ adj' = g /\ index' = [v \in Block |-> N] /\ lowlink' = [v \in Block |-> 0]
      /\ stack' = <<>> /\ work' = <<>> /\ next' = 0 /\ sccs' = <<>>
  BY DEF T!Call, T!Node, T!Unvisited, Block
<1>2. Seen' = {} /\ Stacked' = {} /\ Shut' = {}
  BY <1>1 DEF Seen, Stacked, Shut, ToSet
<1>3. CycleTypes'
  BY <1>1 DEF CycleTypes
<1>4. Numbered' /\ Ascending' /\ Parted'
  BY <1>1, <1>2, FS_EmptySet DEF Numbered, Ascending, Parted
<1>5. OnPath' /\ Followed' /\ Returning'
  BY <1>1, <1>2 DEF OnPath, Followed, Returning
<1>6. LowBounds' /\ LowReached' /\ Ahead'
  BY <1>1, <1>2 DEF LowBounds, LowReached, Ahead, Gray
<1>7. Shape' /\ Apart' /\ Order'
  BY <1>1 DEF Shape, Apart, Order
<1> QED BY <1>3, <1>4, <1>5, <1>6, <1>7 DEF TarjanInv

\* A new root: the stack is empty.
LEMMA StartKeeps == ASSUME TarjanInv, T!Start PROVE TarjanInv'
<1>1. /\ UNCHANGED <<adj, index, lowlink, stack, next, sccs>> /\ work = <<>>
      /\ \E v \in Block : index[v] = N /\ work' = <<<<v, 0>>>>
  BY DEF T!Start, T!Node, T!Unvisited, Block
<1>2. PICK v \in Block : index[v] = N /\ work' = <<<<v, 0>>>>
  BY <1>1
<1>3. Seen' = Seen /\ Stacked' = Stacked /\ Shut' = Shut
  BY <1>1 DEF Seen, Stacked, Shut
<1>4. Stacked = {}
  BY <1>1 DEF TarjanInv, Returning, Gray
<1>5. /\ Len(work') = 1 /\ DOMAIN work' = {1} /\ Path(1)' = v /\ Cursor(1)' = 0
      /\ \A i : ~Gray(i)'
  BY <1>2 DEF Path, Cursor, Gray
<1>6. CycleTypes'
  BY <1>1, <1>2 DEF TarjanInv, CycleTypes
<1>7. Numbered' /\ Ascending' /\ Parted'
  BY <1>1, <1>3 DEF TarjanInv, Numbered, Ascending, Parted
<1>8. OnPath'
  BY <1>1, <1>2, <1>5, <1>6 DEF OnPath, CycleTypes, Graph, Seen
<1>9. Followed' /\ Returning'
  BY <1>3, <1>4 DEF Followed, Returning
<1>10. LowBounds' /\ LowReached' /\ Ahead'
  BY <1>5 DEF LowBounds, LowReached, Ahead
<1>11. Shape' /\ Apart' /\ Order'
  BY <1>1 DEF TarjanInv, Shape, Apart, Order
<1> QED BY <1>6, <1>7, <1>8, <1>9, <1>10, <1>11 DEF TarjanInv

\* The work stack when the cursor of its top moves on.
LEMMA CursorMoves ==
    ASSUME work \in Seq(Block \X Nat), work # <<>>
    PROVE  /\ Len(work) \in Nat \ {0} /\ DOMAIN work = 1 .. Len(work)
           /\ T!Advanced \in Seq(Block \X Nat)
           /\ Len(T!Advanced) = Len(work)
           /\ \A i \in 1 .. Len(work) :
                  /\ T!Advanced[i][1] = Path(i)
                  /\ T!Advanced[i][2] = IF i = Len(work) THEN Cursor(i) + 1 ELSE Cursor(i)
           /\ Path(Len(work)) = T!Top[1] /\ Cursor(Len(work)) = T!Top[2]
           /\ T!Below \in Seq(Block \X Nat)
           /\ Len(T!Below) = Len(work) - 1
           /\ \A i \in 1 .. (Len(work) - 1) : T!Below[i] = work[i]
<1>1. Len(work) \in Nat \ {0} /\ DOMAIN work = 1 .. Len(work)
  OBVIOUS
<1>2. /\ T!Below \in Seq(Block \X Nat) /\ Len(T!Below) = Len(work) - 1
      /\ \A i \in 1 .. (Len(work) - 1) : T!Below[i] = work[i]
  BY <1>1 DEF T!Below
<1>3. work[Len(work)] \in Block \X Nat
  BY <1>1
<1>4. <<T!Top[1], T!Top[2] + 1>> \in Block \X Nat
  BY <1>3 DEF T!Top
<1>5. /\ T!Advanced = Append(T!Below, <<T!Top[1], T!Top[2] + 1>>)
      /\ T!Top = work[Len(work)]
  BY DEF T!Advanced, T!Top
<1>6. ASSUME NEW s \in Seq(Block \X Nat), NEW e \in Block \X Nat
      PROVE  /\ Append(s, e) \in Seq(Block \X Nat) /\ Len(Append(s, e)) = Len(s) + 1
             /\ \A i \in 1 .. Len(s) : Append(s, e)[i] = s[i]
             /\ Append(s, e)[Len(s) + 1] = e
  OBVIOUS
<1>7. T!Advanced \in Seq(Block \X Nat) /\ Len(T!Advanced) = Len(work)
  <2>1. T!Advanced \in Seq(Block \X Nat) /\ Len(T!Advanced) = Len(T!Below) + 1
    BY <1>2, <1>4, <1>5, <1>6
  <2> QED BY <1>1, <1>2, <2>1
<1>8. /\ \A i \in 1 .. (Len(work) - 1) : T!Advanced[i] = work[i]
      /\ T!Advanced[Len(work)] = <<T!Top[1], T!Top[2] + 1>>
  <2>1. /\ \A i \in 1 .. Len(T!Below) : T!Advanced[i] = T!Below[i]
        /\ T!Advanced[Len(T!Below) + 1] = <<T!Top[1], T!Top[2] + 1>>
    BY <1>2, <1>4, <1>5, <1>6
  <2>2. Len(T!Below) + 1 = Len(work)
    BY <1>1, <1>2
  <2> QED BY <1>2, <2>1, <2>2
<1>9. Path(Len(work)) = T!Top[1] /\ Cursor(Len(work)) = T!Top[2]
  BY <1>5 DEF Path, Cursor
<1>10. ASSUME NEW i \in 1 .. Len(work)
       PROVE  /\ T!Advanced[i][1] = Path(i)
              /\ T!Advanced[i][2] = IF i = Len(work) THEN Cursor(i) + 1 ELSE Cursor(i)
  <2>1. CASE i = Len(work)
    BY <1>8, <1>9, <2>1
  <2>2. CASE i # Len(work)
    <3>1. T!Advanced[i] = work[i]
      <4>1. i \in 1 .. (Len(work) - 1)
        BY <1>1, <2>2, Ranges
      <4> QED BY <1>8, <4>1
    <3> QED BY <2>2, <3>1 DEF Path, Cursor
  <2> QED BY <2>1, <2>2
<1> QED BY <1>1, <1>2, <1>7, <1>9, <1>10

\* The node at the top of the work stack.
LEMMA TopOf ==
    ASSUME TarjanInv, work # <<>>
    PROVE  \E top \in Nat, v \in Block, c \in Nat :
              /\ top # 0 /\ Len(work) = top /\ DOMAIN work = 1 .. top
              /\ Path(top) = v /\ T!Top[1] = v /\ Cursor(top) = c /\ T!Top[2] = c
<1>1. work \in Seq(Block \X Nat)
  BY DEF TarjanInv, CycleTypes
<1>2. Len(work) \in Nat /\ Len(work) # 0 /\ Len(work) \in 1 .. Len(work)
  BY <1>1, CursorMoves, Ranges
<1>3. /\ Path(Len(work)) \in Block /\ Cursor(Len(work)) \in Nat
      /\ Path(Len(work)) = T!Top[1] /\ Cursor(Len(work)) = T!Top[2]
      /\ DOMAIN work = 1 .. Len(work)
  BY <1>1, <1>2, CursorMoves, PathOnce
<1> QED BY <1>2, <1>3

\* The first visit of the node at the top.
LEMMA PreVisitKeeps == ASSUME TarjanInv, T!PreVisit PROVE TarjanInv'
<1>0. PICK top \in Nat, v \in Block, c \in Nat :
              /\ top # 0 /\ Len(work) = top /\ DOMAIN work = 1 .. top
              /\ Path(top) = v /\ T!Top[1] = v /\ Cursor(top) = c /\ T!Top[2] = c
  BY TopOf DEF T!PreVisit
<1>1. /\ UNCHANGED <<adj, sccs>> /\ work # <<>> /\ T!Top[2] = 0
      /\ index' = [index EXCEPT ![T!Top[1]] = next] /\ lowlink' = [lowlink EXCEPT ![T!Top[1]] = next]
      /\ next' = next + 1 /\ stack' = Append(stack, T!Top[1]) /\ work' = T!Advanced
  BY DEF T!PreVisit
<1>2. /\ N \in Nat /\ adj \in Graph /\ index \in [Block -> 0 .. N] /\ lowlink \in [Block -> 0 .. N]
      /\ stack \in Seq(Block) /\ work \in Seq(Block \X Nat) /\ next \in 0 .. N
      /\ sccs \in Seq(Seq(Block))
  BY DEF TarjanInv, CycleTypes
<1>3. /\ top \in Nat \ {0} /\ DOMAIN work = 1 .. top /\ DOMAIN work' = 1 .. top /\ Len(work') = top
      /\ Path(top) = v /\ Cursor(top) = 0
      /\ \A i \in 1 .. top : Path(i)' = Path(i)
      /\ \A i \in 1 .. (top - 1) : Cursor(i)' = Cursor(i)
      /\ Cursor(top)' = 1
      /\ work' \in Seq(Block \X Nat)
  <2>1. /\ Len(work') = top /\ work' \in Seq(Block \X Nat)
        /\ \A i \in 1 .. top : /\ work'[i][1] = Path(i)
                              /\ work'[i][2] = IF i = top THEN Cursor(i) + 1 ELSE Cursor(i)
    BY <1>0, <1>1, <1>2, CursorMoves
  <2>2. DOMAIN work' = 1 .. top
    BY <2>1, SeqFacts
  <2>3. \A i : Path(i)' = work'[i][1] /\ Cursor(i)' = work'[i][2]
    BY DEF Path, Cursor
  <2>4. top \in 1 .. top /\ \A i \in 1 .. (top - 1) : i \in 1 .. top /\ i # top
    BY <1>0
  <2>5. \A i \in 1 .. top : Path(i)' = Path(i)
    BY <2>1, <2>3
  <2>6. \A i \in 1 .. (top - 1) : Cursor(i)' = Cursor(i)
    BY <2>1, <2>3, <2>4
  <2>7. Cursor(top) = 0 /\ Cursor(top)' = 1
    <3>1. Cursor(top) = 0
      BY <1>0, <1>1
    <3>2. Cursor(top)' = Cursor(top) + 1
      BY <2>1, <2>3, <2>4
    <3> QED BY <3>1, <3>2
  <2> QED BY <1>0, <2>1, <2>2, <2>5, <2>6, <2>7
<1>4. v \in Block \ Seen /\ \A i \in 1 .. top : Path(i) \in Block
  <2>1. top \in DOMAIN work /\ Cursor(top) = 0 /\ Path(top) = v
    BY <1>0, <1>3
  <2>2. v \notin Seen
    BY <2>1 DEF TarjanInv, OnPath
  <2> QED BY <1>0, <2>2, PathOnce
<1>5. /\ \A i \in 1 .. (top - 1) : Gray(i) /\ Path(i) \in Stacked /\ Path(i) # v
      /\ \A i : Gray(i) <=> i \in 1 .. (top - 1)
      /\ \A i : Gray(i)' <=> i \in 1 .. top
  <2>1. \A i \in 1 .. (top - 1) : Gray(i) /\ Path(i) \in Stacked /\ Path(i) # v
    <3>1. \A i \in 1 .. (top - 1) : i \in 1 .. top /\ i < top
      BY <1>3, Ranges
    <3> QED BY <1>0, <1>3, <1>4, <3>1, PathOnce
  <2>2. \A i : Gray(i) => i \in 1 .. (top - 1)
    BY <1>0, <1>3 DEF Gray
  <2>3. ASSUME NEW i \in 1 .. (top - 1) PROVE Cursor(i)' >= 1 /\ i \in 1 .. top
    BY <1>3, <2>1 DEF Gray
  <2>4. \A i : Gray(i)' <=> i \in 1 .. top
    BY <1>3, <2>3 DEF Gray
  <2> QED BY <2>1, <2>2, <2>4
<1>6. /\ Stacked \subseteq Seen /\ Seen \subseteq Block /\ Shut \subseteq Seen
      /\ \A x \in Seen : index[x] \in 0 .. (next - 1)
  BY StackSeen
<1>7. next < N /\ next + 1 \in 0 .. N /\ Cardinality(Seen \cup {v}) = next + 1
  <2>1. IsFiniteSet(Block) /\ Cardinality(Block) = N
    BY <1>2, FS_Interval DEF Block
  <2>2. IsFiniteSet(Seen)
    BY <1>6, <2>1, FS_Subset
  <2>3. Cardinality(Seen \cup {v}) = Cardinality(Seen) + 1
    BY <1>4, <2>2, FS_AddElement
  <2>4. Cardinality(Seen \cup {v}) <= N
    BY <1>4, <1>6, <2>1, FS_Subset
  <2>5. next = Cardinality(Seen)
    BY DEF TarjanInv, Numbered
  <2> QED BY <1>2, <2>3, <2>4, <2>5
<1>8. /\ index'[v] = next /\ lowlink'[v] = next
      /\ \A x \in Block \ {v} : index'[x] = index[x] /\ lowlink'[x] = lowlink[x]
      /\ index' \in [Block -> 0 .. N] /\ lowlink' \in [Block -> 0 .. N]
  BY <1>0, <1>1, <1>2, <1>4, <1>7
<1>9. /\ Len(stack') = Len(stack) + 1 /\ stack'[Len(stack')] = v
      /\ \A i \in 1 .. Len(stack) : stack'[i] = stack[i]
      /\ stack' \in Seq(Block)
  BY <1>0, <1>1, <1>2
<1>10. Stacked' = Stacked \cup {v} /\ Shut' = Shut
  <2>1. Shut' = Shut
    BY <1>1 DEF Shut
  <2>2. Stacked' = {stack'[i] : i \in 1 .. Len(stack')}
    BY <1>9 DEF Stacked, ToSet
  <2>3. Stacked = {stack[i] : i \in 1 .. Len(stack)}
    BY StackSeen
  <2>4. 1 .. Len(stack') = (1 .. Len(stack)) \cup {Len(stack')}
    <3>1. Len(stack) \in Nat /\ Len(stack') = Len(stack) + 1
      BY <1>2, <1>9, SeqFacts
    <3> QED BY <3>1
  <2> QED BY <1>9, <2>1, <2>2, <2>3, <2>4
<1>11. Seen' = Seen \cup {v}
  BY <1>4, <1>7, <1>8 DEF Seen
<1>12. CycleTypes'
  BY <1>1, <1>2, <1>3, <1>7, <1>8, <1>9 DEF CycleTypes
<1>13. Parted'
  BY <1>4, <1>6, <1>10, <1>11 DEF TarjanInv, Parted
<1>14. Numbered'
  <2>1. /\ next = Cardinality(Seen) /\ \A x, y \in Seen : index[x] = index[y] => x = y
    BY DEF TarjanInv, Numbered
  <2>2. \A x \in Seen : index'[x] = index[x] /\ index'[x] \in 0 .. (next - 1)
    BY <1>4, <1>6, <1>8
  <2>3. \A x \in Seen' : index'[x] < next'
    <3>1. \A n \in 0 .. (next - 1) : n < next + 1
      BY <1>2
    <3>2. \A x \in Seen : index'[x] < next + 1
      BY <2>2, <3>1
    <3>3. index'[v] < next + 1
      BY <1>2, <1>8
    <3> QED BY <1>1, <1>11, <3>2, <3>3
  <2>4. \A x, y \in Seen' : index'[x] = index'[y] => x = y
    BY <1>2, <1>8, <1>11, <2>1, <2>2
  <2> QED BY <1>1, <1>7, <1>11, <2>3, <2>4 DEF Numbered
<1>15. Ascending'
  <2> SUFFICES ASSUME NEW i \in DOMAIN stack', NEW j \in DOMAIN stack', i < j
               PROVE  index'[stack'[i]] < index'[stack'[j]]
    BY DEF Ascending
  <2> \A k \in 1 .. Len(stack) : stack[k] \in Seen
    BY StackSeen
  <2>1. i \in 1 .. Len(stack) /\ stack'[i] = stack[i] /\ stack[i] \in Seen
    <3>1. i \in 1 .. Len(stack)
      BY <1>2, <1>9, SeqFacts
    <3> QED BY <1>9, <3>1
  <2>2. index'[stack'[i]] = index[stack[i]] /\ index[stack[i]] < next
    <3>1. stack[i] \in Block \ {v} /\ index[stack[i]] \in 0 .. (next - 1)
      BY <1>4, <1>6, <2>1
    <3>2. index'[stack'[i]] = index[stack[i]]
      BY <1>8, <2>1, <3>1
    <3>3. \A n \in 0 .. (next - 1) : n < next
      BY <1>2
    <3> QED BY <3>1, <3>2, <3>3
  <2>3. CASE j = Len(stack')
    BY <1>8, <1>9, <2>2, <2>3
  <2>4. CASE j # Len(stack')
    <3>1. j \in 1 .. Len(stack) /\ stack'[j] = stack[j] /\ stack[j] \in Seen
      <4>1. j \in 1 .. Len(stack)
        BY <1>2, <1>9, <2>4, SeqFacts
      <4> QED BY <1>9, <4>1
    <3>2. index'[stack'[j]] = index[stack[j]]
      BY <1>4, <1>6, <1>8, <3>1
    <3>3. i \in DOMAIN stack /\ j \in DOMAIN stack
      BY <1>2, <2>1, <3>1, SeqFacts
    <3>4. index[stack[i]] < index[stack[j]]
      BY <3>3 DEF TarjanInv, Ascending
    <3> QED BY <2>2, <3>2, <3>4
  <2> QED BY <2>3, <2>4
<1>16. \A x \in Stacked, k \in Int : Dealt(x, k)' <=> Dealt(x, k)
  <2> SUFFICES ASSUME NEW x \in Stacked, NEW k \in Int PROVE Dealt(x, k)' <=> Dealt(x, k)
    OBVIOUS
  <2>1. x # v
    BY <1>4, <1>6
  <2>2. \A i \in 1 .. top : Path(i) = x => i \in 1 .. (top - 1)
    BY <1>3, <2>1, Ranges
  <2> QED BY <1>3, <2>2 DEF Dealt
<1>17. \A k \in Nat \ {0} : ~Dealt(v, k)'
  <2>1. top \in DOMAIN work' /\ Path(top)' = v /\ Len(work') = top /\ Cursor(top)' = 1
    BY <1>3, Ranges
  <2> QED BY <2>1 DEF Dealt
<1>18. OnPath'
  <2> SUFFICES ASSUME NEW i \in 1 .. top
               PROVE  /\ Cursor(i)' <= Len(adj'[Path(i)']) + 1
                      /\ Cursor(i)' # 0
                      /\ Path(i)' \in Stacked'
                      /\ \A j \in 1 .. (i - 1) : index'[Path(j)'] < index'[Path(i)']
                      /\ i < top => Cursor(i)' >= 2 /\ adj'[Path(i)'][Cursor(i)' - 1] = Path(i + 1)'
    BY <1>3 DEF OnPath
  <2>1. CASE i = top
    <3>1. Len(adj[v]) \in Nat
      BY <1>0, <1>2 DEF Graph
    <3>2. ASSUME NEW j \in 1 .. (top - 1) PROVE index'[Path(j)'] < index'[v]
      <4>1. Path(j) \in Seen /\ Path(j) # v /\ Path(j)' = Path(j)
        BY <1>0, <1>3, <1>5, <1>6
      <4>2. index'[Path(j)] = index[Path(j)] /\ index[Path(j)] \in 0 .. (next - 1)
        BY <1>6, <1>8, <4>1
      <4>3. \A n \in 0 .. (next - 1) : n < next
        BY <1>2
      <4> QED BY <1>8, <4>1, <4>2, <4>3
    <3> QED BY <1>0, <1>1, <1>3, <1>10, <2>1, <3>1, <3>2
  <2>2. CASE i # top
    <3>1. i \in 1 .. (top - 1) /\ i \in DOMAIN work /\ i + 1 \in 1 .. top /\ i < top /\ i < Len(work)
      BY <1>0, <2>2
    <3>2. /\ Cursor(i) <= Len(adj[Path(i)]) + 1
          /\ Cursor(i) >= 2 /\ adj[Path(i)][Cursor(i) - 1] = Path(i + 1)
      BY <3>1 DEF TarjanInv, OnPath
    <3>3. Cursor(i)' = Cursor(i) /\ Path(i)' = Path(i) /\ Path(i + 1)' = Path(i + 1) /\ Cursor(i) \in Nat
      BY <1>0, <1>3, <3>1, PathOnce
    <3>4. ASSUME NEW j \in 1 .. (i - 1) PROVE index'[Path(j)'] < index'[Path(i)']
      <4>1. j \in 1 .. (top - 1) /\ j < i
        BY <1>0, <3>1
      <4>2. index[Path(j)] < index[Path(i)]
        BY <1>0, <1>5, <3>1, <4>1, PathOnce
      <4>3. /\ Path(j) \in Block \ {v} /\ Path(j)' = Path(j)
            /\ Path(i) \in Block \ {v} /\ Path(i)' = Path(i)
        BY <1>3, <1>5, <1>6, <3>1, <4>1
      <4> QED BY <1>8, <4>2, <4>3
    <3> QED BY <1>0, <1>1, <1>5, <1>10, <3>1, <3>2, <3>3, <3>4
  <2> QED BY <2>1, <2>2
<1>19. Followed'
  <2> SUFFICES ASSUME NEW x \in Stacked', NEW k \in DOMAIN adj[x], Dealt(x, k)'
               PROVE  adj[x][k] \in Seen'
    BY <1>1 DEF Followed
  <2>1. x \in Block /\ k \in Nat \ {0} /\ k \in Int
    <3>1. x \in Block
      BY <1>0, <1>6, <1>10
    <3> QED BY <1>2, <3>1, ArcFacts
  <2>2. x # v
    BY <1>17, <2>1
  <2>3. adj[x][k] \in Seen
    BY <1>10, <1>16, <2>1, <2>2 DEF TarjanInv, Followed
  <2> QED BY <1>11, <2>3
<1>20. LowBounds'
  <2> SUFFICES ASSUME NEW i \in 1 .. top, NEW x \in Segment(i)', NEW k \in DOMAIN adj[x],
                      Dealt(x, k)', adj[x][k] \in Stacked'
               PROVE  lowlink'[Path(i)'] <= index'[adj[x][k]]
    BY <1>1, <1>5 DEF LowBounds
  <2>1. x \in Stacked' /\ x \in Block /\ k \in Nat \ {0} /\ k \in Int
    <3>1. x \in Stacked'
      BY DEF Segment
    <3>2. x \in Block
      BY <1>0, <1>6, <1>10, <3>1
    <3> QED BY <1>2, <3>1, <3>2, ArcFacts
  <2>2. x \in Stacked /\ x # v /\ Dealt(x, k)
    BY <1>4, <1>6, <1>10, <1>16, <1>17, <2>1
  <2>3. adj[x][k] \in Stacked
    BY <1>4, <1>10, <2>2 DEF TarjanInv, Followed
  <2>4. i # top
    <3>1. SUFFICES ASSUME i = top PROVE FALSE
      OBVIOUS
    <3>2. index'[v] <= index'[x]
      BY <1>0, <1>3, <3>1 DEF Segment
    <3>3. index'[x] \in 0 .. (next - 1)
      BY <1>4, <1>6, <1>8, <2>2
    <3> QED BY <1>2, <1>8, <3>2, <3>3
  <2>5. i \in 1 .. (top - 1) /\ Path(i)' = Path(i) /\ Path(i) \in Block \ {v} /\ Gray(i)
    BY <1>0, <1>3, <1>5, <1>6, <2>4
  <2>6. x \in Segment(i)
    <3>1. index[Path(i)] <= index[x]
      BY <1>6, <1>8, <2>2, <2>5 DEF Segment
    <3>2. ASSUME NEW j, Gray(j), j > i PROVE index[x] < index[Path(j)]
      <4>1. /\ j \in 1 .. (top - 1) /\ Gray(j)' /\ Path(j)' = Path(j)
            /\ Path(j) \in Block \ {v}
        BY <1>0, <1>3, <1>5, <1>6, <3>2
      <4>2. index'[x] < index'[Path(j)']
        BY <3>2, <4>1 DEF Segment
      <4> QED BY <1>6, <1>8, <2>2, <4>1, <4>2
    <3> QED BY <2>2, <3>1, <3>2 DEF Segment
  <2>7. lowlink[Path(i)] <= index[adj[x][k]]
    BY <2>2, <2>3, <2>5, <2>6 DEF TarjanInv, LowBounds
  <2>8. adj[x][k] \in Block \ {v}
    BY <1>4, <1>6, <2>3
  <2> QED BY <1>8, <2>5, <2>7, <2>8
<1>21. LowReached'
  <2> SUFFICES ASSUME NEW i \in 1 .. top
               PROVE  /\ lowlink'[Path(i)'] <= index'[Path(i)']
                      /\ \E y \in Stacked' : index'[y] = lowlink'[Path(i)'] /\ Reaches(adj, Path(i)', y)
    BY <1>1, <1>5 DEF LowReached
  <2>1. CASE i = top
    <3>1. Reaches(adj, v, v) /\ v \in Stacked'
      BY <1>10, ReachesSelf
    <3>2. Path(i)' = v
      BY <1>0, <1>3, <2>1
    <3>3. next <= next
      BY <1>2
    <3> QED BY <1>8, <3>1, <3>2, <3>3
  <2>2. CASE i # top
    <3>1. i \in 1 .. (top - 1) /\ Path(i)' = Path(i) /\ Path(i) \in Block \ {v} /\ Gray(i)
      BY <1>0, <1>3, <1>5, <1>6, <2>2
    <3>2. PICK y \in Stacked : index[y] = lowlink[Path(i)] /\ Reaches(adj, Path(i), y)
      BY <3>1 DEF TarjanInv, LowReached
    <3>3. lowlink[Path(i)] <= index[Path(i)]
      BY <3>1 DEF TarjanInv, LowReached
    <3>4. y \in Stacked' /\ y \in Block \ {v}
      BY <1>4, <1>6, <1>10
    <3> QED BY <1>8, <3>1, <3>2, <3>3, <3>4
  <2> QED BY <2>1, <2>2
<1>22. Ahead'
  <2> SUFFICES ASSUME NEW i \in 1 .. top, NEW x \in Stacked', index'[Path(i)'] <= index'[x]
               PROVE  Reaches(adj, Path(i)', x)
    BY <1>1, <1>5 DEF Ahead
  <2>1. CASE i = top
    <3>1. index'[v] <= index'[x]
      BY <1>0, <1>3, <2>1
    <3>2. ASSUME x # v PROVE FALSE
      <4>1. x \in Seen /\ x \in Block \ {v}
        BY <1>4, <1>6, <1>10, <3>2
      <4>2. index'[x] \in 0 .. (next - 1)
        BY <1>6, <1>8, <4>1
      <4> QED BY <1>2, <1>8, <3>1, <4>2
    <3> QED BY <1>0, <1>3, <2>1, <3>2, ReachesSelf
  <2>2. CASE i # top
    <3>1. i \in 1 .. (top - 1) /\ Path(i)' = Path(i) /\ Path(i) \in Block \ {v} /\ Gray(i) /\ i < top
      BY <1>0, <1>3, <1>5, <1>6, <2>2
    <3>2. CASE x = v
      <4>1. /\ top - 1 \in 1 .. (top - 1) /\ top - 1 < top /\ i <= top - 1
            /\ top - 1 \in DOMAIN work /\ top - 1 \in 1 .. Len(work) /\ (top - 1) + 1 = top
        BY <1>0, <3>1
      <4>2. /\ Cursor(top - 1) >= 2 /\ adj[Path(top - 1)][Cursor(top - 1) - 1] = v
            /\ Cursor(top - 1) <= Len(adj[Path(top - 1)]) + 1
        BY <1>0, <4>1 DEF TarjanInv, OnPath
      <4>3. Path(top - 1) \in Stacked /\ Path(top - 1) \in Block /\ Cursor(top - 1) \in Nat /\ Gray(top - 1)
        BY <1>5, <4>1, PathOnce
      <4>4. Cursor(top - 1) - 1 \in DOMAIN adj[Path(top - 1)]
        BY <1>2, <4>2, <4>3, ArcFacts
      <4>5. Reaches(adj, Path(top - 1), v)
        BY <1>2, <4>2, <4>3, <4>4, ReachesNext
      <4>6. index[Path(i)] <= index[Path(top - 1)]
        <5>1. CASE i = top - 1
          BY <1>2, <3>1, <5>1
        <5>2. CASE i # top - 1
          <6>1. i < top - 1 /\ i \in 1 .. Len(work)
            BY <1>0, <4>1, <5>2
          <6>2. index[Path(i)] < index[Path(top - 1)]
            BY <4>1, <4>3, <6>1, PathOnce
          <6> QED BY <1>2, <3>1, <4>3, <6>2
        <5> QED BY <5>1, <5>2
      <4>7. Reaches(adj, Path(i), Path(top - 1))
        BY <3>1, <4>3, <4>6 DEF TarjanInv, Ahead
      <4> QED BY <3>1, <3>2, <4>5, <4>7, ReachesOn
    <3>3. CASE x # v
      <4>1. x \in Stacked /\ x \in Block \ {v}
        BY <1>6, <1>10, <3>3
      <4>2. index[Path(i)] <= index[x]
        BY <1>8, <3>1, <4>1
      <4> QED BY <3>1, <4>1, <4>2 DEF TarjanInv, Ahead
    <3> QED BY <3>2, <3>3
  <2> QED BY <2>1, <2>2
<1>23. Returning'
  <2> SUFFICES ASSUME NEW x \in Stacked'
               PROVE  \E i \in 1 .. top : index'[Path(i)'] <= index'[x] /\ Reaches(adj, x, Path(i)')
    BY <1>1, <1>5 DEF Returning
  <2>1. CASE x = v
    <3>1. top \in 1 .. top /\ Path(top)' = v /\ index'[v] <= index'[x]
      BY <1>0, <1>2, <1>3, <1>8, <2>1
    <3> QED BY <2>1, <3>1, ReachesSelf
  <2>2. CASE x # v
    <3>1. x \in Stacked /\ x \in Block \ {v}
      BY <1>6, <1>10, <2>2
    <3>2. PICK i : Gray(i) /\ index[Path(i)] <= index[x] /\ Reaches(adj, x, Path(i))
      BY <3>1 DEF TarjanInv, Returning
    <3>3. i \in 1 .. top /\ Path(i)' = Path(i) /\ Path(i) \in Block \ {v}
      BY <1>0, <1>3, <1>5, <1>6, <3>2
    <3> QED BY <1>8, <3>1, <3>2, <3>3
  <2> QED BY <2>1, <2>2
<1>24. Shape' /\ Apart' /\ Order'
  BY <1>1 DEF TarjanInv, Shape, Apart, Order
<1> QED BY <1>12, <1>13, <1>14, <1>15, <1>18, <1>19, <1>20, <1>21, <1>22, <1>23, <1>24 DEF TarjanInv
\* The search follows an arc to a node it has not seen.
LEMMA DescendKeeps == ASSUME TarjanInv, T!Descend PROVE TarjanInv'
<1>0. PICK top \in Nat, v \in Block, c \in Nat :
              /\ top # 0 /\ Len(work) = top /\ DOMAIN work = 1 .. top
              /\ Path(top) = v /\ T!Top[1] = v /\ Cursor(top) = c /\ T!Top[2] = c
  BY TopOf DEF T!Descend, T!AtChild
<1> DEFINE u == adj[v][c]
<1>1. /\ UNCHANGED <<adj, index, lowlink, stack, next, sccs>> /\ work # <<>>
      /\ c \in 1 .. Len(adj[v]) /\ index[u] = N
      /\ work' = Append(T!Advanced, <<u, 0>>)
  BY <1>0 DEF T!Descend, T!AtChild, T!Child, T!Unvisited
<1>2. /\ N \in Nat /\ adj \in Graph /\ index \in [Block -> 0 .. N] /\ work \in Seq(Block \X Nat)
  BY DEF TarjanInv, CycleTypes
<1>3. c \in DOMAIN adj[v] /\ c >= 1 /\ c <= Len(adj[v]) /\ Len(adj[v]) \in Nat /\ u \in Block
  BY <1>1, <1>2, ArcFacts
<1> HIDE DEF u
<1>4. /\ Len(work') = top + 1 /\ DOMAIN work' = 1 .. (top + 1) /\ work' \in Seq(Block \X Nat)
      /\ \A i \in 1 .. top : Path(i)' = Path(i)
      /\ \A i \in 1 .. (top - 1) : Cursor(i)' = Cursor(i)
      /\ Cursor(top)' = c + 1 /\ Path(top + 1)' = u /\ Cursor(top + 1)' = 0
  <2>1. /\ T!Advanced \in Seq(Block \X Nat) /\ Len(T!Advanced) = top
        /\ \A i \in 1 .. top : /\ T!Advanced[i][1] = Path(i)
                              /\ T!Advanced[i][2] = IF i = top THEN Cursor(i) + 1 ELSE Cursor(i)
    BY <1>0, <1>1, <1>2, CursorMoves
  <2>2. <<u, 0>> \in Block \X Nat
    BY <1>3
  <2>3. ASSUME NEW s \in Seq(Block \X Nat), NEW e \in Block \X Nat
        PROVE  /\ Append(s, e) \in Seq(Block \X Nat) /\ Len(Append(s, e)) = Len(s) + 1
               /\ \A i \in 1 .. Len(s) : Append(s, e)[i] = s[i]
               /\ Append(s, e)[Len(s) + 1] = e
    OBVIOUS
  <2>4. /\ Len(work') = top + 1 /\ work' \in Seq(Block \X Nat)
        /\ \A i \in 1 .. top : work'[i] = T!Advanced[i]
        /\ work'[top + 1] = <<u, 0>>
    BY <1>1, <2>1, <2>2, <2>3
  <2>5. DOMAIN work' = 1 .. (top + 1)
    BY <2>4, SeqFacts
  <2>6. \A i : Path(i)' = work'[i][1] /\ Cursor(i)' = work'[i][2]
    BY DEF Path, Cursor
  <2>7. top \in 1 .. top /\ \A i \in 1 .. (top - 1) : i \in 1 .. top /\ i # top
    BY <1>0
  <2>8. \A i \in 1 .. top : Path(i)' = Path(i)
    BY <2>1, <2>4, <2>6
  <2>9. \A i \in 1 .. (top - 1) : Cursor(i)' = Cursor(i)
    BY <2>1, <2>4, <2>6, <2>7
  <2>10. Cursor(top)' = Cursor(top) + 1
    BY <2>1, <2>4, <2>6, <2>7
  <2>11. Path(top + 1)' = u /\ Cursor(top + 1)' = 0
    BY <2>4, <2>6
  <2> QED BY <1>0, <2>4, <2>5, <2>8, <2>9, <2>10, <2>11
<1>5. Seen' = Seen /\ Stacked' = Stacked /\ Shut' = Shut
  BY <1>1 DEF Seen, Stacked, Shut
<1>6. u \notin Seen /\ u \notin Stacked
  BY <1>1, StackSeen DEF Seen
<1>7. /\ \A i \in 1 .. top : Gray(i) /\ Path(i) \in Stacked
      /\ \A i : Gray(i) <=> i \in 1 .. top
      /\ \A i : Gray(i)' <=> i \in 1 .. top
  <2>1. \A i \in 1 .. top : i # top => i \in 1 .. (top - 1) /\ i < top
    BY <1>0
  <2>2. Gray(top)
    BY <1>0, <1>3 DEF Gray
  <2>3. \A i \in 1 .. top : Gray(i) /\ Path(i) \in Stacked
    BY <1>0, <2>1, <2>2, PathOnce
  <2>4. \A i \in 1 .. top : Gray(i)'
    <3>1. \A i \in 1 .. top : i \in 1 .. (top + 1)
      BY <1>0
    <3>2. c + 1 >= 1
      BY <1>3
    <3>3. \A i \in 1 .. (top - 1) : Cursor(i)' >= 1
      BY <1>4, <2>1, <2>3, <3>1 DEF Gray
    <3> QED BY <1>4, <2>1, <3>1, <3>2, <3>3 DEF Gray
  <2>5. ASSUME NEW i, Gray(i)' PROVE i \in 1 .. top
    <3>1. i \in 1 .. (top + 1) /\ Cursor(i)' >= 1
      BY <1>4, <2>5 DEF Gray
    <3>2. i # top + 1
      BY <1>4, <3>1
    <3> QED BY <1>0, <3>1, <3>2
  <2>6. \A i : Gray(i) => i \in 1 .. top
    BY <1>0 DEF Gray
  <2> QED BY <2>3, <2>4, <2>5, <2>6
<1>8. \A x \in Stacked, k \in Int : Dealt(x, k)' <=> Dealt(x, k)
  <2> SUFFICES ASSUME NEW x \in Stacked, NEW k \in Int PROVE Dealt(x, k)' <=> Dealt(x, k)
    OBVIOUS
  <2>1. Dealt(x, k) <=> \A i \in 1 .. top : Path(i) = x => k < Cursor(i) - (IF i = top THEN 0 ELSE 1)
    BY <1>0 DEF Dealt
  <2>2. Dealt(x, k)' <=> \A i \in 1 .. (top + 1) : Path(i)' = x => k < Cursor(i)' - (IF i = top + 1 THEN 0 ELSE 1)
    BY <1>4 DEF Dealt
  <2>3. /\ Path(top + 1)' # x
        /\ \A i \in 1 .. (top + 1) : i # top + 1 => i \in 1 .. top
        /\ \A i \in 1 .. top : i \in 1 .. (top + 1) /\ i # top + 1
        /\ \A i \in 1 .. top : i # top => i \in 1 .. (top - 1)
    BY <1>0, <1>4, <1>6
  <2>4. Cursor(top)' - 1 = Cursor(top) - 0
    BY <1>0, <1>4
  <2>5. \A i \in 1 .. top : /\ Path(i)' = Path(i)
                           /\ Cursor(i)' - 1 = Cursor(i) - (IF i = top THEN 0 ELSE 1)
    BY <1>4, <2>3, <2>4
  <2> QED BY <2>1, <2>2, <2>3, <2>5
<1>9. CycleTypes'
  BY <1>1, <1>4 DEF TarjanInv, CycleTypes
<1>10. Numbered' /\ Ascending' /\ Parted'
  BY <1>1, <1>5 DEF TarjanInv, Numbered, Ascending, Parted
<1>11. OnPath'
  <2> SUFFICES ASSUME NEW i \in 1 .. (top + 1)
               PROVE  /\ Cursor(i)' <= Len(adj[Path(i)']) + 1
                      /\ Cursor(i)' = 0 => i = top + 1 /\ Path(i)' \notin Seen'
                      /\ Cursor(i)' > 0 => /\ Path(i)' \in Stacked
                                           /\ \A j \in 1 .. (i - 1) : index[Path(j)'] < index[Path(i)']
                      /\ i < top + 1 => Cursor(i)' >= 2 /\ adj[Path(i)'][Cursor(i)' - 1] = Path(i + 1)'
    BY <1>1, <1>4, <1>5 DEF OnPath
  <2>1. CASE i = top + 1
    <3>1. Len(adj[u]) \in Nat
      BY <1>2, <1>3, ArcFacts
    <3> QED BY <1>0, <1>4, <1>5, <1>6, <2>1, <3>1
  <2>2. CASE i # top + 1
    <3>1. i \in 1 .. top /\ i < top + 1 /\ i + 1 \in 1 .. (top + 1)
      BY <1>0, <2>2
    <3>2. Path(i)' = Path(i) /\ Path(i) \in Stacked /\ Gray(i)
      BY <1>4, <1>7, <3>1
    <3>3. ASSUME NEW j \in 1 .. (i - 1) PROVE index[Path(j)'] < index[Path(i)']
      <4>1. j \in 1 .. top /\ j < i
        BY <1>0, <3>1
      <4>2. index[Path(j)] < index[Path(i)]
        BY <1>0, <3>1, <3>2, <4>1, PathOnce
      <4> QED BY <1>4, <3>2, <4>1, <4>2
    <3>4. /\ Cursor(i)' <= Len(adj[Path(i)]) + 1
          /\ Cursor(i)' >= 2 /\ adj[Path(i)][Cursor(i)' - 1] = Path(i + 1)'
      <4>1. CASE i = top
        <5>1. (c + 1) - 1 = c /\ c + 1 >= 2 /\ c + 1 <= Len(adj[v]) + 1
          BY <1>3
        <5> QED BY <1>0, <1>4, <4>1, <5>1 DEF u
      <4>2. CASE i # top
        <5>1. i \in 1 .. (top - 1) /\ i \in DOMAIN work /\ i < Len(work) /\ i + 1 \in 1 .. top
          BY <1>0, <3>1, <4>2
        <5>2. /\ Cursor(i) <= Len(adj[Path(i)]) + 1
              /\ Cursor(i) >= 2 /\ adj[Path(i)][Cursor(i) - 1] = Path(i + 1)
          BY <5>1 DEF TarjanInv, OnPath
        <5> QED BY <1>4, <5>1, <5>2
      <4> QED BY <4>1, <4>2
    <3>5. Cursor(i)' # 0
      BY <3>4
    <3> QED BY <3>1, <3>2, <3>3, <3>4, <3>5
  <2> QED BY <2>1, <2>2
<1>12. \A x \in Stacked : \A k \in DOMAIN adj[x] : Dealt(x, k)' <=> Dealt(x, k)
  BY <1>2, <1>8, StackSeen, ArcFacts
<1>13. \A i \in 1 .. top : Segment(i)' = Segment(i)
  <2> SUFFICES ASSUME NEW i \in 1 .. top PROVE Segment(i)' = Segment(i)
    OBVIOUS
  <2>1. \A j : Gray(j)' => Path(j)' = Path(j) /\ Gray(j)
    BY <1>4, <1>7
  <2>2. \A j : Gray(j) => Path(j)' = Path(j) /\ Gray(j)'
    BY <1>4, <1>7
  <2>3. Path(i)' = Path(i)
    BY <1>4
  <2> QED BY <1>1, <1>5, <2>1, <2>2, <2>3 DEF Segment
<1>14. Followed'
  BY <1>1, <1>5, <1>12 DEF TarjanInv, Followed
<1>15. LowBounds'
  <2> SUFFICES ASSUME NEW i \in 1 .. top, NEW x \in Segment(i), NEW k \in DOMAIN adj[x],
                      Dealt(x, k)', adj[x][k] \in Stacked
               PROVE  lowlink[Path(i)'] <= index[adj[x][k]]
    BY <1>1, <1>5, <1>7, <1>13 DEF LowBounds
  <2>1. Dealt(x, k) /\ Path(i)' = Path(i) /\ Gray(i)
    BY <1>4, <1>7, <1>12 DEF Segment
  <2> QED BY <2>1 DEF TarjanInv, LowBounds
<1>16. LowReached' /\ Ahead'
  BY <1>1, <1>4, <1>5, <1>7 DEF TarjanInv, LowReached, Ahead
<1>17. Returning'
  BY <1>1, <1>4, <1>5, <1>7 DEF TarjanInv, Returning
<1>18. Shape' /\ Apart' /\ Order'
  BY <1>1 DEF TarjanInv, Shape, Apart, Order
<1> QED BY <1>9, <1>10, <1>11, <1>14, <1>15, <1>16, <1>17, <1>18 DEF TarjanInv

\* The search looks at an arc to a node it has seen.
LEMMA LinkKeeps == ASSUME TarjanInv, T!Link PROVE TarjanInv'
<1>0. PICK top \in Nat, v \in Block, c \in Nat :
              /\ top # 0 /\ Len(work) = top /\ DOMAIN work = 1 .. top
              /\ Path(top) = v /\ T!Top[1] = v /\ Cursor(top) = c /\ T!Top[2] = c
  BY TopOf DEF T!Link, T!AtChild
<1> DEFINE u == adj[v][c]
<1>1. /\ UNCHANGED <<adj, index, stack, next, sccs>> /\ work # <<>>
      /\ c \in 1 .. Len(adj[v]) /\ index[u] # N
      /\ lowlink' = IF u \in Stacked /\ index[u] < lowlink[v]
                    THEN [lowlink EXCEPT ![v] = index[u]] ELSE lowlink
      /\ work' = T!Advanced
  BY <1>0, SameOperators DEF T!Link, T!AtChild, T!Child, T!Unvisited, T!OnStack, Stacked
<1>2. /\ N \in Nat /\ adj \in Graph /\ index \in [Block -> 0 .. N] /\ work \in Seq(Block \X Nat)
      /\ lowlink \in [Block -> 0 .. N]
  BY DEF TarjanInv, CycleTypes
<1>3. c \in DOMAIN adj[v] /\ c >= 1 /\ c <= Len(adj[v]) /\ Len(adj[v]) \in Nat /\ u \in Block /\ Reaches(adj, v, u)
  <2>1. Len(adj[v]) \in Nat /\ DOMAIN adj[v] = 1 .. Len(adj[v])
    BY <1>0, <1>2, ArcFacts
  <2>2. c \in DOMAIN adj[v] /\ c >= 1 /\ c <= Len(adj[v])
    BY <1>1, <2>1
  <2>3. u \in Block /\ Reaches(adj, v, u)
    BY <1>0, <1>2, <2>2, ReachesNext
  <2> QED BY <2>1, <2>2, <2>3
<1> HIDE DEF u
<1>4. /\ Len(work') = top /\ DOMAIN work' = 1 .. top /\ work' \in Seq(Block \X Nat)
      /\ \A i \in 1 .. top : Path(i)' = Path(i)
      /\ \A i \in 1 .. (top - 1) : Cursor(i)' = Cursor(i)
      /\ Cursor(top)' = c + 1
  <2>1. /\ work' \in Seq(Block \X Nat) /\ Len(work') = top
        /\ \A i \in 1 .. top : /\ work'[i][1] = Path(i)
                              /\ work'[i][2] = IF i = top THEN Cursor(i) + 1 ELSE Cursor(i)
    BY <1>0, <1>1, <1>2, CursorMoves
  <2>2. DOMAIN work' = 1 .. top
    BY <2>1, SeqFacts
  <2>3. \A i : Path(i)' = work'[i][1] /\ Cursor(i)' = work'[i][2]
    BY DEF Path, Cursor
  <2>4. top \in 1 .. top /\ \A i \in 1 .. (top - 1) : i \in 1 .. top /\ i # top
    BY <1>0
  <2>5. \A i \in 1 .. top : Path(i)' = Path(i)
    BY <2>1, <2>3
  <2>6. \A i \in 1 .. (top - 1) : Cursor(i)' = Cursor(i)
    BY <2>1, <2>3, <2>4
  <2>7. Cursor(top)' = Cursor(top) + 1
    BY <2>1, <2>3, <2>4
  <2> QED BY <1>0, <2>1, <2>2, <2>5, <2>6, <2>7
<1>5. Seen' = Seen /\ Stacked' = Stacked /\ Shut' = Shut /\ Stacked \subseteq Seen /\ Seen \subseteq Block
  BY <1>1, StackSeen DEF Seen, Stacked, Shut
<1>6. u \in Seen
  BY <1>1, <1>3 DEF Seen
<1>7. /\ \A i \in 1 .. top : Gray(i) /\ Path(i) \in Stacked
      /\ \A i : Gray(i) <=> i \in 1 .. top
      /\ \A i : Gray(i)' <=> i \in 1 .. top
      /\ \A i \in 1 .. top : i # top => Path(i) # v /\ i \in 1 .. (top - 1)
  <2>1. \A i \in 1 .. top : i # top => i \in 1 .. (top - 1) /\ i < top
    BY <1>0
  <2>2. Gray(top)
    BY <1>0, <1>3 DEF Gray
  <2>3. \A i \in 1 .. top : Gray(i) /\ Path(i) \in Stacked
    BY <1>0, <2>1, <2>2, PathOnce
  <2>4. \A i \in 1 .. top : Gray(i)'
    <3>1. c + 1 >= 1
      BY <1>3
    <3>2. \A i \in 1 .. (top - 1) : Cursor(i)' >= 1
      <4>1. \A i \in 1 .. (top - 1) : i \in 1 .. top
        BY <1>0
      <4> QED BY <1>4, <2>3, <4>1 DEF Gray
    <3> QED BY <1>4, <2>1, <3>1, <3>2 DEF Gray
  <2>5. \A i : (Gray(i)' \/ Gray(i)) => i \in 1 .. top
    BY <1>0, <1>4 DEF Gray
  <2>6. \A i \in 1 .. top : i # top => Path(i) # v
    <3>1. top \in 1 .. top
      BY <1>0
    <3> QED BY <1>0, <3>1, PathOnce
  <2> QED BY <2>1, <2>3, <2>4, <2>5, <2>6
<1>8. \A x \in Stacked, k \in Int : Dealt(x, k)' <=> (Dealt(x, k) \/ (x = v /\ k = c))
  <2> SUFFICES ASSUME NEW x \in Stacked, NEW k \in Int
               PROVE Dealt(x, k)' <=> (Dealt(x, k) \/ (x = v /\ k = c))
    OBVIOUS
  <2>1. Dealt(x, k) <=> \A i \in 1 .. top : Path(i) = x => k < Cursor(i) - (IF i = top THEN 0 ELSE 1)
    BY <1>0 DEF Dealt
  <2>2. Dealt(x, k)' <=> \A i \in 1 .. top : Path(i)' = x => k < Cursor(i)' - (IF i = top THEN 0 ELSE 1)
    BY <1>4 DEF Dealt
  <2>3. CASE x = v
    <3>1. top \in 1 .. top
      BY <1>0
    <3>2. Dealt(x, k) <=> k < c - 0
      BY <1>0, <1>7, <2>1, <2>3, <3>1
    <3>3. Dealt(x, k)' <=> k < (c + 1) - 0
      BY <1>0, <1>4, <1>7, <2>2, <2>3, <3>1
    <3> QED BY <2>3, <3>2, <3>3
  <2>4. CASE x # v
    <3>1. \A i \in 1 .. top : Path(i) = x => i # top /\ i \in 1 .. (top - 1)
      BY <1>0, <1>7, <2>4
    <3> QED BY <1>4, <2>1, <2>2, <2>4, <3>1
  <2> QED BY <2>3, <2>4
<1>9. \A x \in Stacked : \A k \in DOMAIN adj[x] : Dealt(x, k)' <=> (Dealt(x, k) \/ (x = v /\ k = c))
  BY <1>2, <1>5, <1>8, ArcFacts
<1>10. /\ lowlink' \in [Block -> 0 .. N]
       /\ \A x \in Block : lowlink'[x] <= lowlink[x]
       /\ \A x \in Block \ {v} : lowlink'[x] = lowlink[x]
       /\ u \in Stacked => lowlink'[v] <= index[u]
       /\ \/ lowlink'[v] = lowlink[v]
          \/ u \in Stacked /\ lowlink'[v] = index[u] /\ index[u] < lowlink[v]
  <2>1. index[u] \in 0 .. N /\ \A x \in Block : lowlink[x] \in 0 .. N
    BY <1>2, <1>3
  <2>2. CASE u \in Stacked /\ index[u] < lowlink[v]
    <3>1. lowlink' = [lowlink EXCEPT ![v] = index[u]]
      BY <1>1, <2>2
    <3>2. /\ lowlink'[v] = index[u] /\ lowlink' \in [Block -> 0 .. N]
          /\ \A x \in Block \ {v} : lowlink'[x] = lowlink[x]
      BY <1>0, <1>2, <2>1, <3>1
    <3>3. \A x \in Block : lowlink'[x] <= lowlink[x]
      <4> TAKE x \in Block
      <4>1. CASE x = v
        BY <1>2, <2>1, <2>2, <3>2, <4>1
      <4>2. CASE x # v
        BY <1>2, <2>1, <3>2, <4>2
      <4> QED BY <4>1, <4>2
    <3>4. lowlink'[v] <= index[u]
      BY <1>2, <2>1, <3>2
    <3> QED BY <2>2, <3>2, <3>3, <3>4
  <2>3. CASE ~(u \in Stacked /\ index[u] < lowlink[v])
    BY <1>1, <1>2, <2>1, <2>3
  <2> QED BY <2>2, <2>3
<1>11. CycleTypes'
  BY <1>1, <1>4, <1>10 DEF TarjanInv, CycleTypes
<1>12. Numbered' /\ Ascending' /\ Parted'
  BY <1>1, <1>5 DEF TarjanInv, Numbered, Ascending, Parted
<1>13. OnPath'
  <2> SUFFICES ASSUME NEW i \in 1 .. top
               PROVE  /\ Cursor(i)' <= Len(adj[Path(i)']) + 1
                      /\ Cursor(i)' # 0
                      /\ Path(i)' \in Stacked
                      /\ \A j \in 1 .. (i - 1) : index[Path(j)'] < index[Path(i)']
                      /\ i < top => Cursor(i)' >= 2 /\ adj[Path(i)'][Cursor(i)' - 1] = Path(i + 1)'
    BY <1>1, <1>4, <1>5 DEF OnPath
  <2>1. Path(i)' = Path(i) /\ Path(i) \in Stacked /\ Gray(i)
    BY <1>4, <1>7
  <2>2. ASSUME NEW j \in 1 .. (i - 1) PROVE index[Path(j)'] < index[Path(i)']
    <3>1. j \in 1 .. top /\ j < i
      BY <1>0
    <3>2. index[Path(j)] < index[Path(i)]
      BY <1>0, <2>1, <3>1, PathOnce
    <3> QED BY <1>4, <2>1, <3>1, <3>2
  <2>3. CASE i = top
    <3>1. c + 1 # 0 /\ c + 1 <= Len(adj[v]) + 1 /\ ~(top < top)
      BY <1>0, <1>3
    <3> QED BY <1>0, <1>4, <2>1, <2>2, <2>3, <3>1
  <2>4. CASE i # top
    <3>1. i \in 1 .. (top - 1) /\ i \in DOMAIN work /\ i < Len(work) /\ i + 1 \in 1 .. top
      BY <1>0, <2>4
    <3>2. /\ Cursor(i) <= Len(adj[Path(i)]) + 1
          /\ Cursor(i) >= 2 /\ adj[Path(i)][Cursor(i) - 1] = Path(i + 1)
      BY <3>1 DEF TarjanInv, OnPath
    <3>3. Cursor(i) # 0
      BY <3>2
    <3> QED BY <1>4, <2>1, <2>2, <3>1, <3>2, <3>3
  <2> QED BY <2>3, <2>4
<1>14. \A i \in 1 .. top : Segment(i)' = Segment(i)
  <2> SUFFICES ASSUME NEW i \in 1 .. top PROVE Segment(i)' = Segment(i)
    OBVIOUS
  <2>1. \A j : Gray(j)' => Path(j)' = Path(j) /\ Gray(j)
    BY <1>4, <1>7
  <2>2. \A j : Gray(j) => Path(j)' = Path(j) /\ Gray(j)'
    BY <1>4, <1>7
  <2>3. Path(i)' = Path(i)
    BY <1>4
  <2> QED BY <1>1, <1>5, <2>1, <2>2, <2>3 DEF Segment
<1>15. Followed'
  <2> SUFFICES ASSUME NEW x \in Stacked, NEW k \in DOMAIN adj[x], Dealt(x, k)' PROVE adj[x][k] \in Seen
    BY <1>1, <1>5 DEF Followed
  <2> QED BY <1>6, <1>9 DEF TarjanInv, Followed, u
<1>16. LowBounds'
  <2> SUFFICES ASSUME NEW i \in 1 .. top, NEW x \in Segment(i), NEW k \in DOMAIN adj[x],
                      Dealt(x, k)', adj[x][k] \in Stacked
               PROVE  lowlink'[Path(i)'] <= index[adj[x][k]]
    BY <1>1, <1>5, <1>7, <1>14 DEF LowBounds
  <2>1. /\ x \in Stacked /\ Path(i)' = Path(i) /\ Gray(i) /\ Path(i) \in Block
        /\ lowlink'[Path(i)] <= lowlink[Path(i)]
        /\ lowlink'[Path(i)] \in 0 .. N /\ lowlink[Path(i)] \in 0 .. N
        /\ index[adj[x][k]] \in 0 .. N
    BY <1>2, <1>4, <1>5, <1>7, <1>10 DEF Segment
  <2>2. CASE Dealt(x, k)
    <3>1. lowlink[Path(i)] <= index[adj[x][k]]
      BY <2>1, <2>2 DEF TarjanInv, LowBounds
    <3> QED BY <1>2, <2>1, <3>1
  <2>3. CASE x = v /\ k = c
    <3>1. i = top
      <4>1. SUFFICES ASSUME i # top PROVE FALSE
        OBVIOUS
      <4>2. Gray(top) /\ top > i
        BY <1>0, <1>7, <4>1
      <4>3. index[v] < index[v]
        BY <1>0, <2>3, <4>2 DEF Segment
      <4>4. index[v] \in 0 .. N
        BY <1>2
      <4> QED BY <1>2, <4>3, <4>4
    <3> QED BY <1>0, <1>10, <2>1, <2>3, <3>1 DEF u
  <2> QED BY <1>9, <2>1, <2>2, <2>3
<1>17. LowReached'
  <2> SUFFICES ASSUME NEW i \in 1 .. top
               PROVE  /\ lowlink'[Path(i)'] <= index[Path(i)']
                      /\ \E y \in Stacked : index[y] = lowlink'[Path(i)'] /\ Reaches(adj, Path(i)', y)
    BY <1>1, <1>5, <1>7 DEF LowReached
  <2>1. Path(i)' = Path(i) /\ Gray(i) /\ Path(i) \in Block
    BY <1>4, <1>5, <1>7
  <2>2. /\ lowlink[Path(i)] <= index[Path(i)]
        /\ \E y \in Stacked : index[y] = lowlink[Path(i)] /\ Reaches(adj, Path(i), y)
    BY <2>1 DEF TarjanInv, LowReached
  <2>3. CASE lowlink'[Path(i)] = lowlink[Path(i)]
    BY <2>1, <2>2, <2>3
  <2>4. CASE lowlink'[Path(i)] # lowlink[Path(i)]
    <3>1. Path(i) = v /\ u \in Stacked /\ lowlink'[v] = index[u] /\ index[u] < lowlink[v]
      BY <1>10, <2>1, <2>4
    <3>2. lowlink[v] \in 0 .. N /\ index[u] \in 0 .. N /\ index[v] \in 0 .. N
      BY <1>2, <1>3
    <3>3. index[u] <= index[v]
      BY <1>2, <2>2, <3>1, <3>2
    <3> QED BY <1>3, <2>1, <3>1, <3>3
  <2> QED BY <2>3, <2>4
<1>18. Ahead' /\ Returning'
  BY <1>1, <1>4, <1>5, <1>7 DEF TarjanInv, Ahead, Returning
<1>19. Shape' /\ Apart' /\ Order'
  BY <1>1 DEF TarjanInv, Shape, Apart, Order
<1> QED BY <1>11, <1>12, <1>13, <1>15, <1>16, <1>17, <1>18, <1>19 DEF TarjanInv

\* What the search goes back from v, entry top of the path, to.
Parent(top) == Path(top - 1)
GoesBack(top, v) ==
    /\ top \in Nat /\ top # 0 /\ Len(work) = top /\ DOMAIN work = 1 .. top
    /\ v \in Block /\ Path(top) = v /\ Gray(top) /\ v \in Stacked
    /\ \A k \in DOMAIN adj[v] : Dealt(v, k)
    /\ Len(work') = top - 1 /\ DOMAIN work' = 1 .. (top - 1) /\ work' \in Seq(Block \X Nat)
    /\ \A i \in 1 .. (top - 1) : Path(i)' = Path(i) /\ Cursor(i)' = Cursor(i)
    /\ \A i : Gray(i) <=> i \in 1 .. top
    /\ \A i : Gray(i)' <=> i \in 1 .. (top - 1)
    /\ \A i \in 1 .. (top - 1) : index[Path(i)] < index[v] /\ Path(i) \in Stacked /\ Path(i) \in Block
    /\ top > 1 => /\ Parent(top) \in Block /\ Parent(top) \in Stacked /\ Gray(top - 1)
                  /\ Cursor(top - 1) - 1 \in DOMAIN adj[Parent(top)]
                  /\ adj[Parent(top)][Cursor(top - 1) - 1] = v
                  /\ Reaches(adj, Parent(top), v)
    /\ \A x \in Stacked : \A k \in DOMAIN adj[x] :
          Dealt(x, k)' => Dealt(x, k) \/ (top > 1 /\ x = Parent(top) /\ adj[x][k] = v)
    /\ \A x \in Block : ~(top > 1 /\ x = Parent(top)) => lowlink'[x] = lowlink[x]
    /\ top > 1 => lowlink'[Parent(top)] = IF lowlink[v] < lowlink[Parent(top)] THEN lowlink[v]
                                          ELSE lowlink[Parent(top)]
    /\ lowlink' \in [Block -> 0 .. N]

LEMMA GoingBack ==
    ASSUME TarjanInv, T!AtEnd, T!Fold, work' = T!Below, UNCHANGED <<adj, index>>
    PROVE  \E top, v : GoesBack(top, v) /\ T!Top[1] = v
<1>0. PICK top \in Nat, v \in Block, c \in Nat :
              /\ top # 0 /\ Len(work) = top /\ DOMAIN work = 1 .. top
              /\ Path(top) = v /\ T!Top[1] = v /\ Cursor(top) = c /\ T!Top[2] = c
  BY TopOf DEF T!AtEnd
<1>1. work # <<>> /\ c > Len(adj[v])
  BY <1>0 DEF T!AtEnd
<1>2. /\ N \in Nat /\ adj \in Graph /\ index \in [Block -> 0 .. N] /\ work \in Seq(Block \X Nat)
      /\ lowlink \in [Block -> 0 .. N]
  BY DEF TarjanInv, CycleTypes
<1>3. /\ Len(adj[v]) \in Nat /\ c >= 1 /\ DOMAIN adj[v] = 1 .. Len(adj[v])
      /\ \A k \in DOMAIN adj[v] : k \in Int /\ k < c
  <2>1. Len(adj[v]) \in Nat /\ DOMAIN adj[v] = 1 .. Len(adj[v])
    BY <1>2, ArcFacts
  <2> QED BY <1>0, <1>1, <2>1
<1>4. /\ Len(work') = top - 1 /\ DOMAIN work' = 1 .. (top - 1) /\ work' \in Seq(Block \X Nat)
      /\ \A i \in 1 .. (top - 1) : Path(i)' = Path(i) /\ Cursor(i)' = Cursor(i)
  <2>1. /\ work' \in Seq(Block \X Nat) /\ Len(work') = top - 1
        /\ \A i \in 1 .. (top - 1) : work'[i] = work[i]
    BY <1>0, <1>1, <1>2, CursorMoves
  <2>2. DOMAIN work' = 1 .. (top - 1)
    BY <2>1, SeqFacts
  <2>3. \A i : Path(i)' = work'[i][1] /\ Cursor(i)' = work'[i][2]
    BY DEF Path, Cursor
  <2> QED BY <2>1, <2>2, <2>3 DEF Path, Cursor
<1>5. \A i \in 1 .. top : i # top => i \in 1 .. (top - 1) /\ i < top
  BY <1>0
<1>6. \A i \in 1 .. (top - 1) : i \in 1 .. top /\ i < top
  BY <1>0
<1>7. /\ Gray(top) /\ \A i \in 1 .. top : Gray(i) /\ Path(i) \in Stacked
      /\ \A i : Gray(i) <=> i \in 1 .. top
      /\ \A i : Gray(i)' <=> i \in 1 .. (top - 1)
      /\ \A i \in 1 .. (top - 1) : index[Path(i)] < index[v] /\ Path(i) \in Stacked /\ Path(i) \in Block
      /\ \A i, j \in 1 .. top : Path(i) = Path(j) => i = j
  <2>1. Gray(top) /\ top \in 1 .. top
    BY <1>0, <1>3 DEF Gray
  <2>2. \A i \in 1 .. top : Gray(i) /\ Path(i) \in Stacked
    BY <1>0, <1>5, <2>1, PathOnce
  <2>3. \A i : Gray(i) => i \in 1 .. top
    BY <1>0 DEF Gray
  <2>4. \A i : Gray(i)' <=> i \in 1 .. (top - 1)
    BY <1>4, <1>6, <2>2 DEF Gray
  <2>5. \A i \in 1 .. (top - 1) : index[Path(i)] < index[v] /\ Path(i) \in Stacked /\ Path(i) \in Block
    BY <1>0, <1>6, <2>1, <2>2, PathOnce
  <2> QED BY <1>0, <2>1, <2>2, <2>3, <2>4, <2>5, PathOnce
<1>8. ASSUME top > 1
      PROVE  /\ Parent(top) \in Block /\ Parent(top) \in Stacked /\ Gray(top - 1)
             /\ Cursor(top - 1) - 1 \in DOMAIN adj[Parent(top)]
             /\ adj[Parent(top)][Cursor(top - 1) - 1] = v
             /\ Reaches(adj, Parent(top), v)
             /\ Cursor(top - 1) \in Nat /\ Cursor(top - 1) >= 2
  <2>1. top - 1 \in 1 .. (top - 1) /\ top - 1 \in DOMAIN work /\ top - 1 < Len(work) /\ (top - 1) + 1 = top
    BY <1>0, <1>8
  <2>2. /\ Cursor(top - 1) >= 2 /\ adj[Parent(top)][Cursor(top - 1) - 1] = v
        /\ Cursor(top - 1) <= Len(adj[Parent(top)]) + 1
    BY <1>0, <2>1 DEF TarjanInv, OnPath, Parent
  <2>3. Parent(top) \in Block /\ Parent(top) \in Stacked /\ Gray(top - 1)
    BY <1>6, <1>7, <2>1 DEF Parent
  <2>4. Cursor(top - 1) \in Nat
    BY <1>0, <2>1, PathOnce
  <2>5. Len(adj[Parent(top)]) \in Nat /\ DOMAIN adj[Parent(top)] = 1 .. Len(adj[Parent(top)])
    BY <1>2, <2>3, ArcFacts
  <2>6. Cursor(top - 1) - 1 \in DOMAIN adj[Parent(top)]
    BY <2>2, <2>4, <2>5
  <2>7. Reaches(adj, Parent(top), v)
    BY <1>2, <2>2, <2>3, <2>6, ReachesNext
  <2> QED BY <2>2, <2>3, <2>4, <2>6, <2>7
<1>9. ASSUME NEW x \in Stacked, NEW k \in DOMAIN adj[x], Dealt(x, k)', ~Dealt(x, k)
      PROVE  top > 1 /\ x = Parent(top) /\ adj[x][k] = v
  <2>1. PICK i \in 1 .. top : Path(i) = x /\ ~(k < Cursor(i) - (IF i = top THEN 0 ELSE 1))
    BY <1>0, <1>9 DEF Dealt
  <2>2. \A j \in 1 .. (top - 1) : Path(j)' = x => k < Cursor(j)' - (IF j = top - 1 THEN 0 ELSE 1)
    BY <1>4, <1>9 DEF Dealt
  <2>3. k \in Int /\ x \in Block
    BY <1>2, StackSeen, ArcFacts
  <2>4. i # top
    BY <1>0, <1>3, <2>1
  <2>5. i \in 1 .. (top - 1) /\ ~(k < Cursor(i) - 1) /\ k < Cursor(i) - (IF i = top - 1 THEN 0 ELSE 1)
    BY <1>4, <1>5, <2>1, <2>2, <2>4
  <2>6. i = top - 1 /\ ~(k < Cursor(i) - 1) /\ k < Cursor(i)
    <3>1. Cursor(i) \in Nat /\ Cursor(i) - 0 = Cursor(i)
      BY <1>0, <2>1, PathOnce
    <3>2. CASE i = top - 1
      BY <2>5, <3>1, <3>2
    <3>3. CASE i # top - 1
      BY <2>5, <3>3
    <3> QED BY <3>2, <3>3
  <2>7. top > 1
    BY <1>0, <2>5
  <2>8. k = Cursor(top - 1) - 1
    BY <1>8, <2>3, <2>6, <2>7
  <2> QED BY <1>8, <2>1, <2>6, <2>7, <2>8 DEF Parent
<1>10. \A k \in DOMAIN adj[v] : Dealt(v, k)
  <2> SUFFICES ASSUME NEW k \in DOMAIN adj[v], NEW i \in 1 .. top, Path(i) = v
               PROVE  k < Cursor(i) - (IF i = Len(work) THEN 0 ELSE 1)
    BY <1>0 DEF Dealt
  <2>1. top \in 1 .. top
    BY <1>0
  <2>2. i = top
    BY <1>0, <1>7, <2>1
  <2>3. k < c - 0
    BY <1>3
  <2> QED BY <1>0, <2>2, <2>3
<1>11. /\ \A x \in Block : ~(top > 1 /\ x = Parent(top)) => lowlink'[x] = lowlink[x]
       /\ top > 1 => lowlink'[Parent(top)] = IF lowlink[v] < lowlink[Parent(top)] THEN lowlink[v]
                                             ELSE lowlink[Parent(top)]
       /\ lowlink' \in [Block -> 0 .. N]
  <2>1. T!Below \in Seq(Block \X Nat) /\ Len(T!Below) = top - 1 /\ \A i \in 1 .. (top - 1) : T!Below[i] = work[i]
    BY <1>0, <1>1, <1>2, CursorMoves
  <2>2. CASE top > 1
    <3>1. T!Below # <<>> /\ T!Below[Len(T!Below)][1] = Parent(top)
      <4>1. top - 1 \in 1 .. (top - 1) /\ top - 1 # 0
        BY <1>0, <2>2
      <4> QED BY <2>1, <4>1 DEF Parent, Path
    <3>2. lowlink' = IF lowlink[v] < lowlink[Parent(top)] THEN [lowlink EXCEPT ![Parent(top)] = lowlink[v]]
                     ELSE lowlink
      BY <1>0, <3>1 DEF T!Fold
    <3>3. Parent(top) \in Block
      BY <1>8, <2>2
    <3> QED BY <1>0, <1>2, <2>2, <3>2, <3>3
  <2>3. CASE ~(top > 1)
    <3>1. top - 1 = 0
      BY <1>0, <2>3
    <3>2. T!Below = <<>>
      BY <2>1, <3>1
    <3>3. lowlink' = lowlink
      BY <3>2 DEF T!Fold
    <3> QED BY <1>2, <2>3, <3>3
  <2> QED BY <2>2, <2>3
<1>12. v \in Stacked
  BY <1>0, <1>7 DEF Gray
<1> QED
  <2>1. GoesBack(top, v)
    BY <1>0, <1>4, <1>7, <1>8, <1>9, <1>10, <1>11, <1>12 DEF GoesBack
  <2> QED BY <1>0, <2>1

LEMMA BackOnPath ==
    ASSUME TarjanInv, NEW top, NEW v, GoesBack(top, v), UNCHANGED <<adj, index>>,
           Seen' = Seen, \A i \in 1 .. (top - 1) : Path(i) \in Stacked'
    PROVE  OnPath'
<1>1. /\ top \in Nat /\ top # 0 /\ Len(work) = top /\ DOMAIN work = 1 .. top
      /\ Len(work') = top - 1 /\ DOMAIN work' = 1 .. (top - 1)
      /\ \A i \in 1 .. (top - 1) : Path(i)' = Path(i) /\ Cursor(i)' = Cursor(i)
      /\ \A i : Gray(i) <=> i \in 1 .. top
  BY DEF GoesBack
<1> SUFFICES ASSUME NEW i \in 1 .. (top - 1)
             PROVE  /\ Cursor(i)' <= Len(adj[Path(i)']) + 1
                    /\ Cursor(i)' # 0
                    /\ Path(i)' \in Stacked'
                    /\ \A j \in 1 .. (i - 1) : index[Path(j)'] < index[Path(i)']
                    /\ i < top - 1 => Cursor(i)' >= 2 /\ adj[Path(i)'][Cursor(i)' - 1] = Path(i + 1)'
  BY <1>1 DEF OnPath
<1>2. i \in 1 .. top /\ i \in DOMAIN work /\ i < Len(work)
  BY <1>1
<1>3. /\ Cursor(i) <= Len(adj[Path(i)]) + 1
      /\ Cursor(i) >= 2 /\ adj[Path(i)][Cursor(i) - 1] = Path(i + 1)
  BY <1>2 DEF TarjanInv, OnPath
<1>4. Cursor(i) # 0
  BY <1>3
<1>5. ASSUME NEW j \in 1 .. (i - 1) PROVE index[Path(j)'] < index[Path(i)']
  <2>1. j \in 1 .. (top - 1) /\ j \in 1 .. top /\ j < i
    BY <1>1
  <2>2. Gray(i)
    BY <1>1, <1>2
  <2>3. index[Path(j)] < index[Path(i)]
    BY <1>1, <1>2, <2>1, <2>2, PathOnce
  <2> QED BY <1>1, <2>1, <2>3
<1>6. i < top - 1 => i + 1 \in 1 .. (top - 1)
  BY <1>1
<1> QED BY <1>1, <1>3, <1>4, <1>5, <1>6

\* The search leaves a node that leads back to an earlier one.
LEMMA LeaveKeeps == ASSUME TarjanInv, T!Leave PROVE TarjanInv'
<1>0. PICK top, v : GoesBack(top, v) /\ T!Top[1] = v
  BY GoingBack DEF T!Leave
<1>1. UNCHANGED <<adj, index, stack, next, sccs>> /\ lowlink[v] # index[v]
  BY <1>0 DEF T!Leave
<1>2. /\ N \in Nat /\ adj \in Graph /\ index \in [Block -> 0 .. N] /\ lowlink \in [Block -> 0 .. N]
  BY DEF TarjanInv, CycleTypes
<1>3. Seen' = Seen /\ Stacked' = Stacked /\ Shut' = Shut /\ Stacked \subseteq Seen /\ Seen \subseteq Block
  BY <1>1, StackSeen DEF Seen, Stacked, Shut
<1>4. /\ top \in Nat /\ top # 0 /\ Path(top) = v /\ Gray(top) /\ v \in Stacked /\ v \in Block
      /\ \A i \in 1 .. (top - 1) : Path(i)' = Path(i) /\ index[Path(i)] < index[v] /\ Path(i) \in Stacked /\ Path(i) \in Block
      /\ \A i : Gray(i) <=> i \in 1 .. top
      /\ \A i : Gray(i)' <=> i \in 1 .. (top - 1)
      /\ lowlink' \in [Block -> 0 .. N] /\ work' \in Seq(Block \X Nat)
  BY <1>0 DEF GoesBack
<1>5. PICK z \in Stacked : index[z] = lowlink[v] /\ Reaches(adj, v, z)
  BY <1>4 DEF TarjanInv, LowReached
<1>6. lowlink[v] <= index[v] /\ lowlink[v] \in 0 .. N /\ index[v] \in 0 .. N
  BY <1>2, <1>4 DEF TarjanInv, LowReached
<1>7. PICK b \in 1 .. (top - 1) : index[Path(b)] <= index[z] /\ Reaches(adj, z, Path(b))
  <2>1. PICK b : Gray(b) /\ index[Path(b)] <= index[z] /\ Reaches(adj, z, Path(b))
    BY DEF TarjanInv, Returning
  <2>2. index[z] < index[v]
    BY <1>1, <1>2, <1>5, <1>6
  <2>3. b # top
    BY <1>2, <1>4, <1>5, <1>6, <2>1, <2>2
  <2> QED BY <1>4, <2>1, <2>3
<1>8. top > 1 /\ index[Path(b)] <= index[v]
  BY <1>2, <1>4, <1>5, <1>6, <1>7
<1> DEFINE p == Parent(top)
<1>9. /\ p \in Block /\ p \in Stacked /\ Gray(top - 1) /\ Path(top - 1) = p /\ Reaches(adj, p, v)
      /\ index[p] < index[v]
      /\ \A x \in Stacked : \A k \in DOMAIN adj[x] :
            Dealt(x, k)' => Dealt(x, k) \/ (x = p /\ adj[x][k] = v)
      /\ \A x \in Block \ {p} : lowlink'[x] = lowlink[x]
      /\ lowlink'[p] = IF lowlink[v] < lowlink[p] THEN lowlink[v] ELSE lowlink[p]
      /\ top - 1 \in 1 .. (top - 1)
  <2>1. top - 1 \in 1 .. (top - 1)
    BY <1>4, <1>8
  <2>2. Path(top - 1) = p
    BY DEF Parent
  <2>3. index[p] < index[v]
    BY <1>4, <2>1, <2>2
  <2> QED BY <1>0, <1>8, <2>1, <2>2, <2>3 DEF GoesBack
<1> HIDE DEF p
<1>10. lowlink'[p] <= lowlink[p] /\ lowlink'[p] <= lowlink[v] /\ lowlink[p] <= index[p]
  <2>1. lowlink[p] \in 0 .. N
    BY <1>2, <1>9
  <2>2. lowlink[p] <= index[p]
    BY <1>9 DEF TarjanInv, LowReached
  <2> QED BY <1>6, <1>9, <2>1, <2>2
<1>11. CycleTypes'
  BY <1>1, <1>4 DEF TarjanInv, CycleTypes
<1>12. Numbered' /\ Ascending' /\ Parted'
  BY <1>1, <1>3 DEF TarjanInv, Numbered, Ascending, Parted
<1>13. OnPath'
  BY <1>0, <1>1, <1>3, <1>4, BackOnPath
<1>14. Followed'
  <2> SUFFICES ASSUME NEW x \in Stacked, NEW k \in DOMAIN adj[x], Dealt(x, k)' PROVE adj[x][k] \in Seen
    BY <1>1, <1>3 DEF Followed
  <2>1. CASE Dealt(x, k)
    BY <2>1 DEF TarjanInv, Followed
  <2>2. CASE x = p /\ adj[x][k] = v
    BY <1>3, <1>4, <2>2
  <2> QED BY <1>9, <2>1, <2>2
<1>15. LowBounds'
  <2> SUFFICES ASSUME NEW i \in 1 .. (top - 1), NEW x \in Segment(i)', NEW k \in DOMAIN adj[x],
                      Dealt(x, k)', adj[x][k] \in Stacked
               PROVE  lowlink'[Path(i)] <= index[adj[x][k]]
    BY <1>1, <1>3, <1>4 DEF LowBounds
  <2>1. /\ x \in Stacked /\ Path(i) \in Block /\ Gray(i)
        /\ index[Path(i)] <= index[x]
        /\ \A j \in 1 .. (top - 1) : j > i => index[x] < index[Path(j)]
        /\ index[adj[x][k]] \in 0 .. N /\ index[x] \in 0 .. N /\ index[Path(i)] \in 0 .. N
    <3>1. x \in Stacked /\ index[Path(i)] <= index[x]
      BY <1>1, <1>3, <1>4 DEF Segment
    <3>2. \A j \in 1 .. (top - 1) : j > i => index[x] < index[Path(j)]
      BY <1>1, <1>4 DEF Segment
    <3>3. Path(i) \in Block /\ Gray(i)
      <4>1. i \in 1 .. top
        BY <1>4
      <4> QED BY <1>4, <4>1
    <3>4. index[adj[x][k]] \in 0 .. N /\ index[x] \in 0 .. N /\ index[Path(i)] \in 0 .. N
      BY <1>2, <1>3, <3>1, <3>3
    <3> QED BY <3>1, <3>2, <3>3, <3>4
  <2>2. CASE i # top - 1
    <3>1. top - 1 > i
      BY <1>4, <2>2
    <3>2. index[x] < index[p]
      BY <1>9, <2>1, <3>1
    <3>3. Path(i) # p /\ x # p
      <4>1. index[p] \in 0 .. N
        BY <1>2, <1>9
      <4> QED BY <2>1, <3>2, <4>1
    <3>4. Dealt(x, k) /\ lowlink'[Path(i)] = lowlink[Path(i)]
      BY <1>9, <2>1, <3>3
    <3>5. x \in Segment(i)
      <4>1. \A j : Gray(j) => j = top \/ j \in 1 .. (top - 1)
        BY <1>4
      <4>2. index[x] < index[Path(top)]
        <5>1. index[p] \in 0 .. N
          BY <1>2, <1>9
        <5> QED BY <1>4, <1>6, <1>9, <2>1, <3>2, <5>1
      <4> QED BY <2>1, <4>1, <4>2 DEF Segment
    <3> QED BY <2>1, <3>4, <3>5 DEF TarjanInv, LowBounds
  <2>3. CASE i = top - 1
    <3>0. Path(i) = p /\ \A j : Gray(j) /\ j > i => j = top
      BY <1>4, <1>9, <2>3
    <3>1. lowlink'[p] \in 0 .. N /\ lowlink[p] \in 0 .. N /\ index[p] \in 0 .. N
      BY <1>2, <1>4, <1>9
    <3>2. CASE x = p /\ adj[x][k] = v
      BY <1>6, <1>9, <1>10, <3>0, <3>1, <3>2
    <3>3. CASE Dealt(x, k) /\ index[x] < index[v]
      <4>1. x \in Segment(i)
        BY <1>4, <2>1, <3>0, <3>3 DEF Segment
      <4>2. lowlink[p] <= index[adj[x][k]]
        BY <2>1, <3>0, <3>3, <4>1 DEF TarjanInv, LowBounds
      <4> QED BY <1>10, <2>1, <3>0, <3>1, <4>2
    <3>4. CASE Dealt(x, k) /\ ~(index[x] < index[v])
      <4>1. index[v] <= index[x]
        BY <1>6, <2>1, <3>4
      <4>2. \A j : Gray(j) => ~(j > top)
        BY <1>4
      <4>3. x \in Segment(top)
        BY <1>4, <2>1, <4>1, <4>2 DEF Segment
      <4>4. lowlink[v] <= index[adj[x][k]]
        BY <1>4, <3>4, <4>3 DEF TarjanInv, LowBounds
      <4> QED BY <1>6, <1>10, <2>1, <3>0, <3>1, <4>4
    <3> QED BY <1>9, <2>1, <3>2, <3>3, <3>4
  <2> QED BY <2>2, <2>3
<1>16. LowReached'
  <2> SUFFICES ASSUME NEW i \in 1 .. (top - 1)
               PROVE  /\ lowlink'[Path(i)] <= index[Path(i)]
                      /\ \E y \in Stacked : index[y] = lowlink'[Path(i)] /\ Reaches(adj, Path(i), y)
    BY <1>1, <1>3, <1>4 DEF LowReached
  <2>1. Gray(i) /\ Path(i) \in Block
    <3>1. i \in 1 .. top
      BY <1>4
    <3> QED BY <1>4, <3>1
  <2>2. /\ lowlink[Path(i)] <= index[Path(i)]
        /\ \E y \in Stacked : index[y] = lowlink[Path(i)] /\ Reaches(adj, Path(i), y)
    BY <2>1 DEF TarjanInv, LowReached
  <2>3. CASE lowlink'[Path(i)] = lowlink[Path(i)]
    BY <2>2, <2>3
  <2>4. CASE lowlink'[Path(i)] # lowlink[Path(i)]
    <3>1. Path(i) = p /\ lowlink'[p] = lowlink[v]
      BY <1>9, <2>1, <2>4
    <3>2. Reaches(adj, p, z)
      BY <1>5, <1>9, ReachesOn
    <3>3. lowlink[p] \in 0 .. N /\ index[p] \in 0 .. N
      BY <1>2, <1>9
    <3>4. lowlink'[p] <= index[p]
      BY <1>6, <1>10, <3>1, <3>3
    <3> QED BY <1>5, <3>1, <3>2, <3>4
  <2> QED BY <2>3, <2>4
<1>17. Ahead'
  <2> SUFFICES ASSUME NEW i \in 1 .. (top - 1), NEW x \in Stacked, index[Path(i)] <= index[x]
               PROVE  Reaches(adj, Path(i), x)
    BY <1>1, <1>3, <1>4 DEF Ahead
  <2>1. i \in 1 .. top
    BY <1>4
  <2> QED BY <1>4, <2>1 DEF TarjanInv, Ahead
<1>18. Returning'
  <2> SUFFICES ASSUME NEW x \in Stacked
               PROVE  \E i \in 1 .. (top - 1) : index[Path(i)] <= index[x] /\ Reaches(adj, x, Path(i))
    BY <1>1, <1>3, <1>4 DEF Returning
  <2>1. PICK i : Gray(i) /\ index[Path(i)] <= index[x] /\ Reaches(adj, x, Path(i))
    BY DEF TarjanInv, Returning
  <2>2. CASE i = top
    <3>1. Reaches(adj, x, z)
      BY <1>4, <1>5, <2>1, <2>2, ReachesOn
    <3>2. Reaches(adj, x, Path(b))
      BY <1>7, <3>1, ReachesOn
    <3>3. index[Path(b)] \in 0 .. N /\ index[x] \in 0 .. N
      BY <1>2, <1>3, <1>4
    <3>4. index[Path(b)] <= index[x]
      BY <1>4, <1>6, <1>8, <2>1, <2>2, <3>3
    <3> QED BY <3>2, <3>4
  <2>3. CASE i # top
    <3>1. i \in 1 .. (top - 1)
      BY <1>4, <2>1, <2>3
    <3> QED BY <2>1, <3>1
  <2> QED BY <2>2, <2>3
<1>19. Shape' /\ Apart' /\ Order'
  BY <1>1 DEF TarjanInv, Shape, Apart, Order
<1> QED BY <1>11, <1>12, <1>13, <1>14, <1>15, <1>16, <1>17, <1>18, <1>19 DEF TarjanInv

\* What Close pops: the nodes numbered from v on.
Popped(v) == {x \in Stacked : index[v] <= index[x]}

LEMMA Popping ==
    ASSUME TarjanInv, NEW v \in Stacked
    PROVE  /\ T!Component(v) \in Seq(Block) /\ ToSet(T!Component(v)) = Popped(v)
           /\ \A i, j \in DOMAIN T!Component(v) : T!Component(v)[i] = T!Component(v)[j] => i = j
           /\ SubSeq(stack, 1, T!Position(v) - 1) \in Seq(Block)
           /\ ToSet(SubSeq(stack, 1, T!Position(v) - 1)) = Stacked \ Popped(v)
           /\ \A i \in 1 .. Len(SubSeq(stack, 1, T!Position(v) - 1)) :
                 i \in DOMAIN stack /\ SubSeq(stack, 1, T!Position(v) - 1)[i] = stack[i]
<1>1. /\ stack \in Seq(Block) /\ index \in [Block -> 0 .. N] /\ N \in Nat
      /\ Len(stack) \in Nat /\ DOMAIN stack = 1 .. Len(stack)
      /\ \A i \in 1 .. Len(stack) : stack[i] \in Block
  BY SeqFacts DEF TarjanInv, CycleTypes
<1>2. Stacked = {stack[i] : i \in 1 .. Len(stack)}
  BY StackSeen
<1>3. \E q \in DOMAIN stack : stack[q] = v
  BY <1>1, <1>2
<1>4. PICK q : q = T!Position(v) /\ q \in 1 .. Len(stack) /\ stack[q] = v
  BY <1>1, <1>3 DEF T!Position
<1>5. \A i, j \in 1 .. Len(stack) : i < j => index[stack[i]] < index[stack[j]]
  BY <1>1 DEF TarjanInv, Ascending
<1>6. \A i \in 1 .. Len(stack) : index[stack[i]] \in 0 .. N
  BY <1>1
<1>7. \A i \in 1 .. Len(stack) : stack[i] \in Popped(v) <=> q <= i
  <2> SUFFICES ASSUME NEW i \in 1 .. Len(stack) PROVE index[stack[q]] <= index[stack[i]] <=> q <= i
    BY <1>2, <1>4 DEF Popped
  <2>1. CASE i < q
    <3>1. index[stack[i]] < index[stack[q]]
      BY <1>4, <1>5, <2>1
    <3> QED BY <1>1, <1>4, <1>6, <2>1, <3>1
  <2>2. CASE q < i
    <3>1. index[stack[q]] < index[stack[i]]
      BY <1>4, <1>5, <2>2
    <3> QED BY <1>1, <1>4, <1>6, <2>2, <3>1
  <2>3. CASE i = q
    BY <1>1, <1>4, <1>6, <2>3
  <2> QED BY <1>1, <1>4, <2>1, <2>2, <2>3
<1> DEFINE low == SubSeq(stack, 1, q - 1)
           high == SubSeq(stack, q, Len(stack))
<1>8. /\ low \in Seq(Block) /\ Len(low) = q - 1
      /\ \A i \in 1 .. (q - 1) : low[i] = stack[i] /\ i \in 1 .. Len(stack)
  BY <1>1, <1>4
<1>9. /\ high \in Seq(Block) /\ Len(high) = Len(stack) - q + 1
      /\ \A i \in 1 .. (Len(stack) - q + 1) : high[i] = stack[q + i - 1] /\ q + i - 1 \in 1 .. Len(stack)
  <2>1. q \in Nat \ {0} /\ q <= Len(stack) /\ Len(stack) \in Nat
    BY <1>1, <1>4
  <2>2. \A i \in 1 .. (Len(stack) - q + 1) : q + i - 1 \in 1 .. Len(stack)
    BY <2>1
  <2>3. high \in Seq(Block) /\ Len(high) = Len(stack) - q + 1
    BY <1>1, <2>1
  <2>4. \A i \in 1 .. (Len(stack) - q + 1) : high[i] = stack[q + i - 1]
    BY <1>1, <2>1
  <2> QED BY <2>2, <2>3, <2>4
<1> HIDE DEF low, high
<1>10. ToSet(low) = Stacked \ Popped(v)
  <2>1. ToSet(low) = {low[i] : i \in 1 .. (q - 1)}
    BY <1>4, <1>8 DEF ToSet
  <2>2. ASSUME NEW i \in 1 .. (q - 1) PROVE low[i] \in Stacked \ Popped(v)
    <3>1. low[i] = stack[i] /\ i \in 1 .. Len(stack) /\ ~(q <= i)
      BY <1>4, <1>8
    <3> QED BY <1>2, <1>7, <3>1
  <2>3. ASSUME NEW x \in Stacked \ Popped(v) PROVE \E i \in 1 .. (q - 1) : x = low[i]
    <3>1. PICK i \in 1 .. Len(stack) : x = stack[i]
      BY <1>2
    <3>2. i \in 1 .. (q - 1)
      BY <1>1, <1>4, <1>7, <3>1
    <3> QED BY <1>8, <3>1, <3>2
  <2> QED BY <2>1, <2>2, <2>3
<1>11. T!Component(v) = [i \in 1 .. Len(high) |-> high[Len(high) - i + 1]]
  BY <1>4 DEF T!Component, T!Reverse, high
<1>12. T!Component(v) \in Seq(Block) /\ DOMAIN T!Component(v) = 1 .. Len(high)
       /\ \A i \in 1 .. Len(high) : T!Component(v)[i] = high[Len(high) - i + 1]
  <2>1. Len(high) \in Nat /\ \A i \in 1 .. Len(high) : Len(high) - i + 1 \in 1 .. Len(high) /\ high[Len(high) - i + 1] \in Block
    <3>1. Len(high) \in Nat /\ \A i \in 1 .. Len(high) : high[i] \in Block
      BY <1>9, SeqFacts
    <3>2. \A n \in Nat : \A i \in 1 .. n : n - i + 1 \in 1 .. n
      OBVIOUS
    <3> QED BY <3>1, <3>2
  <2>2. [i \in 1 .. Len(high) |-> high[Len(high) - i + 1]] \in Seq(Block)
    BY <2>1
  <2> QED BY <1>11, <2>2
<1>13. ToSet(T!Component(v)) = Popped(v)
  <2>1. ToSet(T!Component(v)) = {T!Component(v)[i] : i \in 1 .. Len(high)}
    BY <1>12 DEF ToSet
  <2>2. \A n \in Nat : \A i \in 1 .. n : n - i + 1 \in 1 .. n
    OBVIOUS
  <2>3. Len(high) \in Nat /\ Len(high) = Len(stack) - q + 1
    BY <1>9, SeqFacts
  <2>4. ASSUME NEW i \in 1 .. Len(high) PROVE T!Component(v)[i] \in Popped(v)
    <3>1. PICK j \in 1 .. (Len(stack) - q + 1) : T!Component(v)[i] = high[j]
      BY <1>12, <2>2, <2>3
    <3>2. high[j] = stack[q + j - 1] /\ q + j - 1 \in 1 .. Len(stack)
      BY <1>9
    <3>3. q <= q + j - 1
      BY <1>1, <1>4
    <3> QED BY <1>7, <3>1, <3>2, <3>3
  <2>5. ASSUME NEW x \in Popped(v) PROVE \E i \in 1 .. Len(high) : x = T!Component(v)[i]
    <3>1. PICK j \in 1 .. Len(stack) : x = stack[j]
      BY <1>2 DEF Popped
    <3>2. j >= q
      BY <1>1, <1>4, <1>7, <3>1
    <3>3. j - q + 1 \in 1 .. Len(high) /\ q + (j - q + 1) - 1 = j
      BY <1>1, <1>4, <2>3, <3>2
    <3>4. x = high[j - q + 1]
      BY <1>9, <2>3, <3>1, <3>3
    <3>5. /\ Len(high) - (j - q + 1) + 1 \in 1 .. Len(high)
          /\ Len(high) - (Len(high) - (j - q + 1) + 1) + 1 = j - q + 1
      <4>1. \A n \in Nat : \A m \in 1 .. n : n - m + 1 \in 1 .. n /\ n - (n - m + 1) + 1 = m
        OBVIOUS
      <4> QED BY <2>3, <3>3, <4>1
    <3> QED BY <1>12, <3>4, <3>5
  <2> QED BY <2>1, <2>4, <2>5
<1>14. low = SubSeq(stack, 1, T!Position(v) - 1)
  BY <1>4 DEF low
<1>15. \A i \in 1 .. Len(low) : i \in DOMAIN stack /\ low[i] = stack[i]
  BY <1>1, <1>8
<1>16. ASSUME NEW i \in DOMAIN T!Component(v), NEW j \in DOMAIN T!Component(v),
              T!Component(v)[i] = T!Component(v)[j]
       PROVE  i = j
  <2>1. i \in 1 .. Len(high) /\ j \in 1 .. Len(high) /\ Len(high) = Len(stack) - q + 1
    BY <1>9, <1>12
  <2>2. \A k \in 1 .. Len(high) : /\ T!Component(v)[k] = stack[Len(stack) - k + 1]
                                  /\ Len(stack) - k + 1 \in 1 .. Len(stack)
    <3> SUFFICES ASSUME NEW k \in 1 .. Len(high)
                 PROVE  /\ T!Component(v)[k] = stack[Len(stack) - k + 1]
                        /\ Len(stack) - k + 1 \in 1 .. Len(stack)
      OBVIOUS
    <3>1. Len(high) - k + 1 \in 1 .. (Len(stack) - q + 1) /\ q + (Len(high) - k + 1) - 1 = Len(stack) - k + 1
      <4>1. \A m, p \in Nat : \A r \in 1 .. (m - p + 1) :
               (m - p + 1) - r + 1 \in 1 .. (m - p + 1) /\ p + ((m - p + 1) - r + 1) - 1 = m - r + 1
        OBVIOUS
      <4>2. Len(stack) \in Nat /\ q \in Nat
        BY <1>1, <1>4
      <4> QED BY <2>1, <4>1, <4>2
    <3>2. high[Len(high) - k + 1] = stack[Len(stack) - k + 1] /\ Len(stack) - k + 1 \in 1 .. Len(stack)
      BY <1>9, <3>1
    <3> QED BY <1>12, <3>2
  <2>3. stack[Len(stack) - i + 1] = stack[Len(stack) - j + 1]
    BY <1>16, <2>1, <2>2
  <2>4. ~(Len(stack) - i + 1 < Len(stack) - j + 1) /\ ~(Len(stack) - j + 1 < Len(stack) - i + 1)
    <3> DEFINE a == Len(stack) - i + 1
               b == Len(stack) - j + 1
    <3>1. a \in 1 .. Len(stack) /\ b \in 1 .. Len(stack) /\ stack[a] = stack[b]
      BY <2>1, <2>2, <2>3
    <3> HIDE DEF a, b
    <3>2. index[stack[a]] \in 0 .. N
      BY <1>6, <3>1
    <3>3. ~(index[stack[a]] < index[stack[a]])
      BY <1>1, <3>2
    <3>4. ~(a < b) /\ ~(b < a)
      BY <1>5, <3>1, <3>3
    <3> QED BY <3>4 DEF a, b
  <2> QED BY <1>1, <1>4, <2>1, <2>4
<1> QED BY <1>8, <1>10, <1>12, <1>13, <1>14, <1>15, <1>16

\* A component is closed: it is the class of its root.
LEMMA ClosesClass ==
    ASSUME TarjanInv, NEW top, NEW v, GoesBack(top, v), lowlink[v] = index[v]
    PROVE  /\ Popped(v) = {w \in Block : Reaches(adj, v, w) /\ Reaches(adj, w, v)}
           /\ \A x \in Popped(v) : \A k \in DOMAIN adj[x] : adj[x][k] \in Popped(v) \cup Shut
<1>1. /\ N \in Nat /\ adj \in Graph /\ index \in [Block -> 0 .. N]
  BY DEF TarjanInv, CycleTypes
<1>2. /\ top \in Nat /\ Path(top) = v /\ Gray(top) /\ v \in Stacked /\ v \in Block
      /\ \A i : Gray(i) <=> i \in 1 .. top
      /\ \A i \in 1 .. (top - 1) : index[Path(i)] < index[v] /\ Path(i) \in Stacked /\ Path(i) \in Block
      /\ \A k \in DOMAIN adj[v] : Dealt(v, k)
      /\ DOMAIN work = 1 .. top
  BY DEF GoesBack
<1>3. /\ Stacked \subseteq Block /\ Shut \subseteq Block /\ Seen = Stacked \cup Shut
      /\ Stacked \cap Shut = {}
  BY StackSeen DEF TarjanInv, Parted
<1>4. ASSUME NEW x \in Popped(v)
      PROVE  x \in Block /\ x \in Stacked /\ x \in Segment(top) /\ \A k \in DOMAIN adj[x] : Dealt(x, k)
  <2>1. x \in Stacked /\ x \in Block /\ index[v] <= index[x]
    BY <1>3 DEF Popped
  <2>2. x \in Segment(top)
    BY <1>2, <2>1 DEF Segment
  <2>3. CASE x = v
    BY <1>2, <2>1, <2>2, <2>3
  <2>4. CASE x # v
    <3>1. index[x] \in 0 .. N /\ index[v] \in 0 .. N
      BY <1>1, <1>2, <2>1
    <3>2. \A i \in 1 .. (top - 1) : Path(i) # x
      <4> SUFFICES ASSUME NEW i \in 1 .. (top - 1), Path(i) = x PROVE FALSE
        OBVIOUS
      <4>1. index[x] < index[v]
        BY <1>2
      <4> QED BY <2>1, <3>1, <4>1
    <3>3. \A i \in 1 .. top : i = top \/ i \in 1 .. (top - 1)
      BY <1>2
    <3>4. \A i \in DOMAIN work : Path(i) # x
      BY <1>2, <2>4, <3>2, <3>3
    <3> QED BY <2>1, <2>2, <3>4 DEF Dealt
  <2> QED BY <2>3, <2>4
<1>5. ASSUME NEW x \in Popped(v), NEW k \in DOMAIN adj[x] PROVE adj[x][k] \in Popped(v) \cup Shut
  <2>1. adj[x][k] \in Stacked \cup Shut
    BY <1>3, <1>4 DEF TarjanInv, Followed
  <2>2. CASE adj[x][k] \in Stacked
    <3>1. lowlink[v] <= index[adj[x][k]]
      BY <1>2, <1>4, <2>2 DEF TarjanInv, LowBounds
    <3> QED BY <2>2, <3>1 DEF Popped
  <2> QED BY <2>1, <2>2
<1>6. ASSUME NEW x \in Shut, NEW k \in DOMAIN adj[x] PROVE adj[x][k] \in Shut
  <2>1. PICK i \in DOMAIN sccs : x \in ToSet(sccs[i])
    BY DEF Shut
  <2>2. PICK j \in 1 .. i : adj[x][k] \in ToSet(sccs[j])
    BY <2>1 DEF TarjanInv, Order
  <2>3. DOMAIN sccs = 1 .. Len(sccs) /\ Len(sccs) \in Nat
    BY SeqFacts DEF TarjanInv, CycleTypes
  <2>4. j \in DOMAIN sccs
    BY <2>1, <2>3
  <2> QED BY <2>2, <2>4 DEF Shut
<1>7. ClosedIn(adj, Shut) /\ ClosedIn(adj, Popped(v) \cup Shut)
  BY <1>5, <1>6 DEF ClosedIn
<1>8. v \in Popped(v) /\ Popped(v) \subseteq Block
  <2>1. index[v] <= index[v]
    BY <1>1, <1>2
  <2> QED BY <1>2, <1>3, <2>1 DEF Popped
<1>9. ASSUME NEW x \in Popped(v) PROVE x \in Block /\ Reaches(adj, v, x) /\ Reaches(adj, x, v)
  <2>1. x \in Block /\ x \in Stacked /\ index[v] <= index[x]
    BY <1>4 DEF Popped
  <2>2. Reaches(adj, v, x)
    BY <1>2, <2>1 DEF TarjanInv, Ahead
  <2>3. PICK i : Gray(i) /\ index[Path(i)] <= index[x] /\ Reaches(adj, x, Path(i))
    BY <2>1 DEF TarjanInv, Returning
  <2>4. index[Path(i)] <= index[v]
    <3>1. CASE i = top
      BY <1>1, <1>2, <3>1
    <3>2. CASE i # top
      <4>1. i \in 1 .. (top - 1)
        BY <1>2, <2>3, <3>2
      <4>2. index[Path(i)] < index[v] /\ index[Path(i)] \in 0 .. N /\ index[v] \in 0 .. N
        BY <1>1, <1>2, <4>1
      <4> QED BY <4>2
    <3> QED BY <3>1, <3>2
  <2>5. Reaches(adj, Path(i), v)
    BY <1>2, <2>3, <2>4 DEF TarjanInv, Ahead
  <2> QED BY <2>1, <2>2, <2>3, <2>5, ReachesOn
<1>10. ASSUME NEW w \in Block, Reaches(adj, v, w), Reaches(adj, w, v) PROVE w \in Popped(v)
  <2>1. w \in Popped(v) \cup Shut
    BY <1>3, <1>7, <1>8, <1>10, ReachesWithin
  <2>2. ASSUME w \in Shut PROVE FALSE
    <3>1. v \in Shut
      BY <1>3, <1>7, <1>10, <2>2, ReachesWithin
    <3> QED BY <1>2, <1>3, <3>1
  <2> QED BY <2>1, <2>2
<1> QED BY <1>5, <1>9, <1>10

\* The search closes a component.
LEMMA CloseKeeps == ASSUME TarjanInv, T!Close PROVE TarjanInv'
<1>0. PICK top, v : GoesBack(top, v) /\ T!Top[1] = v
  BY GoingBack DEF T!Close
<1>1. /\ UNCHANGED <<adj, index, next>> /\ lowlink[v] = index[v]
      /\ sccs' = Append(sccs, T!Component(v))
      /\ stack' = SubSeq(stack, 1, T!Position(v) - 1)
  BY <1>0 DEF T!Close
<1>2. /\ N \in Nat /\ adj \in Graph /\ index \in [Block -> 0 .. N] /\ lowlink \in [Block -> 0 .. N]
      /\ sccs \in Seq(Seq(Block)) /\ next \in 0 .. N
  BY DEF TarjanInv, CycleTypes
<1>3. /\ Stacked \subseteq Seen /\ Seen \subseteq Block /\ Seen = Stacked \cup Shut
      /\ Stacked \cap Shut = {}
  BY StackSeen DEF TarjanInv, Parted
<1>4. /\ top \in Nat /\ top # 0 /\ Path(top) = v /\ Gray(top) /\ v \in Stacked /\ v \in Block
      /\ \A i \in 1 .. (top - 1) : /\ Path(i)' = Path(i) /\ index[Path(i)] < index[v]
                                  /\ Path(i) \in Stacked /\ Path(i) \in Block
      /\ \A i : Gray(i) <=> i \in 1 .. top
      /\ \A i : Gray(i)' <=> i \in 1 .. (top - 1)
      /\ lowlink' \in [Block -> 0 .. N] /\ work' \in Seq(Block \X Nat)
      /\ \A x \in Stacked : \A k \in DOMAIN adj[x] :
            Dealt(x, k)' => Dealt(x, k) \/ (top > 1 /\ x = Parent(top) /\ adj[x][k] = v)
  BY <1>0 DEF GoesBack
<1> DEFINE K == Popped(v)
<1>5. /\ T!Component(v) \in Seq(Block) /\ ToSet(T!Component(v)) = K
      /\ stack' \in Seq(Block) /\ ToSet(stack') = Stacked \ K
      /\ \A i \in 1 .. Len(stack') : i \in DOMAIN stack /\ stack'[i] = stack[i]
  BY <1>1, <1>4, Popping
<1>6. /\ K = {w \in Block : Reaches(adj, v, w) /\ Reaches(adj, w, v)}
      /\ \A x \in K : \A k \in DOMAIN adj[x] : adj[x][k] \in K \cup Shut
  BY <1>0, <1>1, ClosesClass
<1>7. K \subseteq Stacked /\ v \in K /\ \A x \in Stacked \ K : index[x] < index[v]
  <2>1. \A x \in Stacked : index[x] \in 0 .. N
    BY <1>2, <1>3
  <2>2. \A x \in Stacked : index[v] <= index[x] \/ index[x] < index[v]
    BY <1>4, <2>1
  <2>3. index[v] <= index[v]
    BY <1>4, <2>1
  <2> QED BY <1>4, <2>2, <2>3 DEF Popped
<1>8. lowlink' = lowlink
  <2>1. ASSUME top > 1 PROVE lowlink'[Parent(top)] = lowlink[Parent(top)]
    <3>1. top - 1 \in 1 .. (top - 1)
      BY <1>4, <2>1
    <3>2. Gray(top - 1) /\ Parent(top) \in Block
      BY <1>0, <2>1 DEF GoesBack
    <3>3. index[Parent(top)] < index[v] /\ lowlink[Parent(top)] <= index[Parent(top)]
      BY <1>4, <3>1, <3>2 DEF TarjanInv, LowReached, Parent
    <3>4. index[Parent(top)] \in 0 .. N /\ lowlink[Parent(top)] \in 0 .. N /\ index[v] \in 0 .. N
      BY <1>2, <1>4, <3>2
    <3>5. ~(lowlink[v] < lowlink[Parent(top)])
      BY <1>1, <3>3, <3>4
    <3> QED BY <1>0, <2>1, <3>5 DEF GoesBack
  <2>2. \A x \in Block : lowlink'[x] = lowlink[x]
    BY <1>0, <2>1 DEF GoesBack
  <2> QED BY <1>2, <1>4, <2>2
<1> HIDE DEF K
<1>9. /\ DOMAIN sccs = 1 .. Len(sccs) /\ Len(sccs) \in Nat
      /\ sccs' \in Seq(Seq(Block)) /\ DOMAIN sccs' = 1 .. (Len(sccs) + 1)
      /\ \A i \in DOMAIN sccs : sccs'[i] = sccs[i]
      /\ ToSet(sccs'[Len(sccs) + 1]) = K
      /\ \A i \in DOMAIN sccs' : i \in DOMAIN sccs \/ i = Len(sccs) + 1
  <2>1. DOMAIN sccs = 1 .. Len(sccs) /\ Len(sccs) \in Nat
    BY <1>2, SeqFacts
  <2>2. ASSUME NEW s \in Seq(Seq(Block)), NEW e \in Seq(Block)
        PROVE  /\ Append(s, e) \in Seq(Seq(Block)) /\ Len(Append(s, e)) = Len(s) + 1
               /\ \A i \in 1 .. Len(s) : Append(s, e)[i] = s[i]
               /\ Append(s, e)[Len(s) + 1] = e
    OBVIOUS
  <2>3. /\ sccs' \in Seq(Seq(Block)) /\ Len(sccs') = Len(sccs) + 1
        /\ \A i \in 1 .. Len(sccs) : sccs'[i] = sccs[i]
        /\ sccs'[Len(sccs) + 1] = T!Component(v)
    BY <1>1, <1>2, <1>5, <2>2
  <2>4. DOMAIN sccs' = 1 .. (Len(sccs) + 1)
    BY <2>3, SeqFacts
  <2>5. \A i \in 1 .. (Len(sccs) + 1) : i \in 1 .. Len(sccs) \/ i = Len(sccs) + 1
    BY <2>1
  <2> QED BY <1>5, <2>1, <2>3, <2>4, <2>5
<1>10. Seen' = Seen /\ Stacked' = Stacked \ K /\ Shut' = Shut \cup K
  <2>1. Seen' = Seen /\ Stacked' = Stacked \ K
    BY <1>1, <1>5 DEF Seen, Stacked
  <2>2. ASSUME NEW x \in Shut' PROVE x \in Shut \cup K
    <3>1. PICK i \in DOMAIN sccs' : x \in ToSet(sccs'[i])
      BY DEF Shut
    <3> QED BY <1>9, <3>1 DEF Shut
  <2>3. ASSUME NEW x \in Shut \cup K PROVE x \in Shut'
    <3>1. CASE x \in Shut
      <4>1. PICK i \in DOMAIN sccs : x \in ToSet(sccs[i])
        BY <3>1 DEF Shut
      <4>2. i \in DOMAIN sccs' /\ sccs'[i] = sccs[i]
        BY <1>9
      <4> QED BY <4>1, <4>2 DEF Shut
    <3>2. CASE x \in K
      <4>1. Len(sccs) + 1 \in DOMAIN sccs'
        BY <1>9
      <4> QED BY <1>9, <3>2, <4>1 DEF Shut
    <3> QED BY <3>1, <3>2
  <2> QED BY <2>1, <2>2, <2>3
<1>11. CycleTypes'
  BY <1>1, <1>2, <1>4, <1>5, <1>9 DEF CycleTypes
<1>12. Numbered' /\ Parted'
  BY <1>1, <1>3, <1>7, <1>10 DEF TarjanInv, Numbered, Parted
<1>13. Ascending'
  <2> SUFFICES ASSUME NEW i \in 1 .. Len(stack'), NEW j \in 1 .. Len(stack'), i < j
               PROVE  index[stack'[i]] < index[stack'[j]]
    <3>1. DOMAIN stack' = 1 .. Len(stack')
      BY <1>5, SeqFacts
    <3> QED BY <1>1, <3>1 DEF Ascending
  <2> QED BY <1>5 DEF TarjanInv, Ascending
<1>14. \A i \in 1 .. (top - 1) : Path(i) \in Stacked'
  <2> SUFFICES ASSUME NEW i \in 1 .. (top - 1) PROVE Path(i) \notin K
    BY <1>4, <1>10
  <2>1. index[Path(i)] \in 0 .. N /\ index[v] \in 0 .. N /\ index[Path(i)] < index[v]
    BY <1>2, <1>4
  <2>2. ~(index[v] <= index[Path(i)])
    BY <2>1
  <2> QED BY <2>2 DEF K, Popped
<1>15. OnPath'
  BY <1>0, <1>1, <1>10, <1>14, BackOnPath
<1>16. Followed'
  <2> SUFFICES ASSUME NEW x \in Stacked \ K, NEW k \in DOMAIN adj[x], Dealt(x, k)' PROVE adj[x][k] \in Seen
    BY <1>1, <1>10 DEF Followed
  <2>1. CASE Dealt(x, k)
    BY <2>1 DEF TarjanInv, Followed
  <2>2. CASE adj[x][k] = v
    BY <1>3, <1>4, <2>2
  <2> QED BY <1>4, <2>1, <2>2
<1>17. LowBounds'
  <2> SUFFICES ASSUME NEW i \in 1 .. (top - 1), NEW x \in Segment(i)', NEW k \in DOMAIN adj[x],
                      Dealt(x, k)', adj[x][k] \in Stacked \ K
               PROVE  lowlink[Path(i)] <= index[adj[x][k]]
    BY <1>1, <1>4, <1>8, <1>10 DEF LowBounds
  <2>1. /\ x \in Stacked \ K /\ index[Path(i)] <= index[x]
        /\ \A j \in 1 .. (top - 1) : j > i => index[x] < index[Path(j)]
    <3>1. x \in Stacked' /\ index[Path(i)] <= index[x]
      BY <1>1, <1>4 DEF Segment
    <3>2. \A j \in 1 .. (top - 1) : j > i => index[x] < index[Path(j)]
      BY <1>1, <1>4 DEF Segment
    <3> QED BY <1>10, <3>1, <3>2
  <2>2. Dealt(x, k)
    BY <1>4, <1>7, <2>1
  <2>3. x \in Segment(i)
    <3>1. \A j : Gray(j) => j = top \/ j \in 1 .. (top - 1)
      BY <1>4
    <3>2. index[x] < index[Path(top)]
      BY <1>4, <1>7, <2>1
    <3> QED BY <2>1, <3>1, <3>2 DEF Segment
  <2>4. Gray(i)
    <3>1. i \in 1 .. top
      BY <1>4
    <3> QED BY <1>4, <3>1
  <2> QED BY <2>2, <2>3, <2>4 DEF TarjanInv, LowBounds
<1>18. LowReached'
  <2> SUFFICES ASSUME NEW i \in 1 .. (top - 1)
               PROVE  /\ lowlink[Path(i)] <= index[Path(i)]
                      /\ \E y \in Stacked \ K : index[y] = lowlink[Path(i)] /\ Reaches(adj, Path(i), y)
    BY <1>1, <1>4, <1>8, <1>10 DEF LowReached
  <2>1. Gray(i)
    <3>1. i \in 1 .. top
      BY <1>4
    <3> QED BY <1>4, <3>1
  <2>2. lowlink[Path(i)] <= index[Path(i)]
    BY <2>1 DEF TarjanInv, LowReached
  <2>3. PICK y \in Stacked : index[y] = lowlink[Path(i)] /\ Reaches(adj, Path(i), y)
    BY <2>1 DEF TarjanInv, LowReached
  <2>4. index[y] \in 0 .. N /\ index[Path(i)] \in 0 .. N /\ index[v] \in 0 .. N /\ index[Path(i)] < index[v]
    BY <1>2, <1>3, <1>4
  <2>5. ~(index[v] <= index[y])
    BY <2>2, <2>3, <2>4
  <2>6. y \notin K
    BY <2>5 DEF K, Popped
  <2> QED BY <2>2, <2>3, <2>6
<1>19. Ahead'
  <2> SUFFICES ASSUME NEW i \in 1 .. (top - 1), NEW x \in Stacked, index[Path(i)] <= index[x]
               PROVE  Reaches(adj, Path(i), x)
    BY <1>1, <1>4, <1>10 DEF Ahead
  <2>1. i \in 1 .. top
    BY <1>4
  <2> QED BY <1>4, <2>1 DEF TarjanInv, Ahead
<1>20. Returning'
  <2> SUFFICES ASSUME NEW x \in Stacked \ K
               PROVE  \E i \in 1 .. (top - 1) : index[Path(i)] <= index[x] /\ Reaches(adj, x, Path(i))
    BY <1>1, <1>4, <1>10 DEF Returning
  <2>1. PICK i : Gray(i) /\ index[Path(i)] <= index[x] /\ Reaches(adj, x, Path(i))
    BY DEF TarjanInv, Returning
  <2>2. index[x] < index[v] /\ index[x] \in 0 .. N /\ index[v] \in 0 .. N
    BY <1>2, <1>3, <1>4, <1>7
  <2>3. i # top
    BY <1>4, <2>1, <2>2
  <2>4. i \in 1 .. (top - 1)
    BY <1>4, <2>1, <2>3
  <2> QED BY <2>1, <2>4
<1>21. Shape'
  <2> SUFFICES ASSUME NEW i \in DOMAIN sccs'
               PROVE  \E r \in Block : ToSet(sccs'[i]) = {w \in Block : Reaches(adj, r, w) /\ Reaches(adj, w, r)}
    BY <1>1 DEF Shape
  <2>1. CASE i \in DOMAIN sccs
    BY <1>9, <2>1 DEF TarjanInv, Shape
  <2>2. CASE i = Len(sccs) + 1
    BY <1>4, <1>6, <1>9, <2>2
  <2> QED BY <1>9, <2>1, <2>2
<1>22. \A i \in DOMAIN sccs : ToSet(sccs[i]) \subseteq Shut /\ ToSet(sccs[i]) \cap K = {}
  <2>1. \A i \in DOMAIN sccs : ToSet(sccs[i]) \subseteq Shut
    BY DEF Shut
  <2> QED BY <1>3, <1>7, <2>1
<1>23. Apart'
  <2> SUFFICES ASSUME NEW i \in DOMAIN sccs', NEW j \in DOMAIN sccs', i # j
               PROVE  ToSet(sccs'[i]) \cap ToSet(sccs'[j]) = {}
    BY DEF Apart
  <2>1. CASE i \in DOMAIN sccs /\ j \in DOMAIN sccs
    BY <1>9, <2>1 DEF TarjanInv, Apart
  <2>2. CASE i = Len(sccs) + 1 /\ j \in DOMAIN sccs
    BY <1>9, <1>22, <2>2
  <2>3. CASE i \in DOMAIN sccs /\ j = Len(sccs) + 1
    BY <1>9, <1>22, <2>3
  <2> QED BY <1>9, <2>1, <2>2, <2>3
<1>24. Order'
  <2> SUFFICES ASSUME NEW i \in DOMAIN sccs', NEW u \in ToSet(sccs'[i]), NEW k \in DOMAIN adj[u]
               PROVE  \E j \in 1 .. i : adj[u][k] \in ToSet(sccs'[j])
    BY <1>1 DEF Order
  <2>1. CASE i \in DOMAIN sccs
    <3>1. PICK j \in 1 .. i : adj[u][k] \in ToSet(sccs[j])
      BY <1>9, <2>1 DEF TarjanInv, Order
    <3>2. j \in DOMAIN sccs
      BY <1>9, <2>1
    <3> QED BY <1>9, <3>1, <3>2
  <2>2. CASE i = Len(sccs) + 1
    <3>1. adj[u][k] \in K \cup Shut
      BY <1>6, <1>9, <2>2
    <3>2. CASE adj[u][k] \in K
      <4>1. i \in 1 .. i
        BY <1>9, <2>2
      <4> QED BY <1>9, <2>2, <3>2, <4>1
    <3>3. CASE adj[u][k] \in Shut
      <4>1. PICK j \in DOMAIN sccs : adj[u][k] \in ToSet(sccs[j])
        BY <3>3 DEF Shut
      <4>2. j \in 1 .. i
        BY <1>9, <2>2
      <4> QED BY <1>9, <4>1, <4>2
    <3> QED BY <3>1, <3>2, <3>3
  <2> QED BY <1>9, <2>1, <2>2
<1> QED BY <1>11, <1>12, <1>13, <1>15, <1>16, <1>17, <1>18, <1>19, <1>20, <1>21, <1>23, <1>24 DEF TarjanInv

\* Every step of the search keeps the invariant.
LEMMA TarjanStep == ASSUME TarjanInv, T!Next PROVE TarjanInv'
BY StartKeeps, PreVisitKeeps, DescendKeeps, LinkKeeps, CloseKeeps, LeaveKeeps DEF T!Next

\* What the search promises follows.
ClassOf(v) == {w \in Block : Reaches(adj, v, w) /\ Reaches(adj, w, v)}

LEMMA ClassIs == ASSUME adj \in Graph, NEW v \in Block PROVE T!Class(v) = ClassOf(v)
BY ReachIs DEF T!Class, ClassOf

LEMMA OrderIs == ASSUME TarjanInv PROVE T!DownstreamFirst
<1>1. ASSUME NEW i \in DOMAIN sccs, NEW u \in ToSet(sccs[i]), NEW w \in ToSet(adj[u])
      PROVE  \E j \in 1 .. i : w \in ToSet(sccs[j])
  <2>1. PICK k \in DOMAIN adj[u] : w = adj[u][k]
    BY DEF ToSet
  <2> QED BY <2>1 DEF TarjanInv, Order
<1> QED BY <1>1, SameOperators DEF T!DownstreamFirst

LEMMA ClassesAre == ASSUME TarjanInv PROVE T!ComponentsAreClasses
<1> SUFFICES ASSUME T!Done
             PROVE  /\ {ToSet(sccs[i]) : i \in DOMAIN sccs} = {T!Class(v) : v \in Block}
                    /\ Len(sccs) = Cardinality({T!Class(v) : v \in Block})
  BY SameOperators DEF T!ComponentsAreClasses, T!Node, Block
<1>1. work = <<>> /\ Seen = Block
  BY DEF T!Done, T!Node, T!Unvisited, Seen, Block
<1>2. Shut = Block
  <2>1. Stacked = {}
    BY <1>1 DEF TarjanInv, Returning, Gray
  <2> QED BY <1>1, <2>1 DEF TarjanInv, Parted
<1>3. adj \in Graph /\ sccs \in Seq(Seq(Block)) /\ DOMAIN sccs = 1 .. Len(sccs) /\ Len(sccs) \in Nat
  BY SeqFacts DEF TarjanInv, CycleTypes
<1> DEFINE classes == {T!Class(v) : v \in Block}
<1>4. \A i \in DOMAIN sccs : \E v \in Block : ToSet(sccs[i]) = ClassOf(v)
  BY DEF TarjanInv, Shape, ClassOf
<1>5. \A v \in Block : T!Class(v) = ClassOf(v) /\ v \in ClassOf(v)
  BY <1>3, ClassIs, ReachesSelf DEF ClassOf
<1>6. ASSUME NEW v \in Block PROVE \E i \in DOMAIN sccs : ToSet(sccs[i]) = T!Class(v)
  <2>1. PICK i \in DOMAIN sccs : v \in ToSet(sccs[i])
    BY <1>2 DEF Shut
  <2>2. PICK r \in Block : ToSet(sccs[i]) = ClassOf(r)
    BY <1>4
  <2>3. Reaches(adj, r, v) /\ Reaches(adj, v, r)
    BY <2>1, <2>2 DEF ClassOf
  <2>4. ASSUME NEW w \in Block PROVE w \in ClassOf(r) <=> w \in ClassOf(v)
    BY <2>3, ReachesOn DEF ClassOf
  <2>5. ClassOf(r) = ClassOf(v)
    BY <2>4 DEF ClassOf
  <2> QED BY <1>5, <2>2, <2>5
<1>7. \A i \in DOMAIN sccs : ToSet(sccs[i]) \in classes
  BY <1>4, <1>5
<1>8. {ToSet(sccs[i]) : i \in DOMAIN sccs} = classes
  BY <1>6, <1>7
<1> DEFINE f == [i \in 1 .. Len(sccs) |-> ToSet(sccs[i])]
<1>9. f \in Bijection(1 .. Len(sccs), classes)
  <2>1. f \in [1 .. Len(sccs) -> classes]
    BY <1>3, <1>7
  <2>2. ASSUME NEW i \in 1 .. Len(sccs), NEW j \in 1 .. Len(sccs), f[i] = f[j] PROVE i = j
    <3>1. ToSet(sccs[i]) = ToSet(sccs[j]) /\ ToSet(sccs[i]) # {}
      BY <1>3, <1>4, <1>5, <2>2
    <3> QED BY <1>3, <3>1 DEF TarjanInv, Apart
  <2>3. \A t \in classes : \E i \in 1 .. Len(sccs) : f[i] = t
    BY <1>3, <1>6
  <2> HIDE DEF f, classes
  <2> QED BY <2>1, <2>2, <2>3 DEF Bijection, Injection, Surjection, IsInjective
<1>10. IsFiniteSet(1 .. Len(sccs)) /\ Cardinality(1 .. Len(sccs)) = Len(sccs)
  <2>1. \A n \in Nat : IsFiniteSet(1 .. n) /\ Cardinality(1 .. n) = n
    <3> TAKE n \in Nat
    <3>1. n \in Int /\ 1 \in Int /\ (1 > n => n = 0)
      OBVIOUS
    <3>2. IsFiniteSet(1 .. n) /\ Cardinality(1 .. n) = IF 1 > n THEN 0 ELSE n - 1 + 1
      BY <3>1, FS_Interval
    <3> QED BY <3>1, <3>2
  <2> QED BY <1>3, <2>1
<1>11. Cardinality(classes) = Cardinality(1 .. Len(sccs))
  <2> HIDE DEF f, classes
  <2> QED BY <1>9, <1>10, FS_Bijection DEF ExistsBijection
<1> QED BY <1>8, <1>10, <1>11

(* The two as the schedule calls them *)

ScheduleInv ==
    /\ net \in Nets
    /\ open \in Seq(Seq(Block))
    /\ phase = "cycles" => TarjanInv
    /\ phase = "tear" => TearingInv /\ open # <<>>

\* The graph find_sccs builds is one.
LEMMA SuccIsGraph == ASSUME net \in Nets, NEW S PROVE Succ(S) \in Graph
<1> DEFINE targets == [i \in DOMAIN net.arcs |-> net.arcs[i].tgt]
           from(b) == {i \in DOMAIN net.arcs : net.arcs[i].src = b /\ net.arcs[i].tgt \in S /\ First(i)}
<1>1. net.arcs \in Seq(ToSet(net.arcs)) /\ \A a \in ToSet(net.arcs) : a.tgt \in Block
  BY NetAssumption
<1>2. targets \in Seq(Block) /\ DOMAIN targets = DOMAIN net.arcs
  <2>1. /\ Len(net.arcs) \in Nat /\ DOMAIN net.arcs = 1 .. Len(net.arcs)
        /\ \A i \in 1 .. Len(net.arcs) : net.arcs[i] \in ToSet(net.arcs)
    BY <1>1, SeqFacts
  <2>2. \A i \in 1 .. Len(net.arcs) : net.arcs[i].tgt \in Block
    BY <1>1, <2>1
  <2> QED BY <2>1, <2>2
<1>3. \A b : from(b) \in SUBSET DOMAIN targets
  BY <1>2
<1> HIDE DEF targets, from
<1>4. \A b : Picked(targets, from(b)) \in Seq(Block)
  BY <1>2, <1>3, PickedType
<1>5. <<>> \in Seq(Block)
  OBVIOUS
<1>6. Succ(S) = [b \in Block |-> IF b \in S THEN Picked(targets, from(b)) ELSE <<>>]
  BY DEF Succ, targets, from
<1> QED BY <1>4, <1>5, <1>6 DEF Graph

\* The arcs of a loop are handed over in finite number, with local indices.
LEMMA LocalArcsFit ==
    ASSUME net \in Nets, NEW l \in Seq(Block)
    PROVE  IsFiniteSet(LocalArcs(l)) /\ \A a \in LocalArcs(l) : a[1] \in 1 .. Len(l) /\ a[2] \in 1 .. Len(l)
<1> DEFINE at(b) == CHOOSE i \in DOMAIN l : l[i] = b
           inside == Inside(ToSet(l))
           f == [a \in inside |-> <<at(a.src), at(a.tgt), a.conn>>]
<1>1. DOMAIN l = 1 .. Len(l)
  BY SeqFacts
<1>2. \A b \in ToSet(l) : at(b) \in 1 .. Len(l)
  BY <1>1 DEF ToSet
<1>3. LocalArcs(l) = {<<at(a.src), at(a.tgt), a.conn>> : a \in inside}
  BY DEF LocalArcs
<1>4. \A a \in inside : a.src \in ToSet(l) /\ a.tgt \in ToSet(l)
  BY DEF Inside
<1> HIDE DEF at, inside
<1>5. \A a \in LocalArcs(l) : a[1] \in 1 .. Len(l) /\ a[2] \in 1 .. Len(l)
  BY <1>2, <1>3, <1>4
<1>6. IsFiniteSet(Arcs)
  <2>1. Len(net.arcs) \in Nat /\ DOMAIN net.arcs = 1 .. Len(net.arcs)
    BY NetAssumption, SeqFacts
  <2>2. IsFiniteSet(DOMAIN net.arcs)
    BY <2>1, FS_Interval
  <2> DEFINE g == [i \in DOMAIN net.arcs |-> net.arcs[i]]
  <2>3. g \in Surjection(DOMAIN net.arcs, Arcs)
    BY DEF Surjection, Arcs, ToSet
  <2> HIDE DEF g
  <2> QED BY <2>2, <2>3, FS_Surjection
<1>7. IsFiniteSet(inside)
  <2>1. inside \in SUBSET Arcs
    BY DEF inside, Inside
  <2> QED BY <1>6, <2>1, FS_Subset
<1>8. f \in Surjection(inside, LocalArcs(l))
  BY <1>3 DEF Surjection
<1> HIDE DEF f
<1>9. IsFiniteSet(LocalArcs(l))
  BY <1>7, <1>8, FS_Surjection
<1> QED BY <1>5, <1>9

LEMMA OnlyInCycles == ASSUME TarjanInv, UNCHANGED cycleSearch PROVE TarjanInv'
<1>1. UNCHANGED <<adj, index, lowlink, stack, work, next, sccs>>
  BY DEF cycleSearch
<1>2. /\ Seen' = Seen /\ Stacked' = Stacked /\ Shut' = Shut
      /\ \A i : Path(i)' = Path(i) /\ Cursor(i)' = Cursor(i) /\ (Gray(i)' <=> Gray(i))
      /\ \A x, k : Dealt(x, k)' <=> Dealt(x, k)
  BY <1>1 DEF Seen, Stacked, Shut, Path, Cursor, Gray, Dealt
<1>3. \A i : Segment(i)' = Segment(i)
  BY <1>1, <1>2 DEF Segment
<1>4. CycleTypes' /\ Numbered' /\ Ascending' /\ Parted' /\ OnPath' /\ Followed'
  BY <1>1, <1>2 DEF TarjanInv, CycleTypes, Numbered, Ascending, Parted, OnPath, Followed
<1>5. LowBounds' /\ LowReached' /\ Ahead' /\ Returning'
  BY <1>1, <1>2, <1>3 DEF TarjanInv, LowBounds, LowReached, Ahead, Returning
<1>6. Shape' /\ Apart' /\ Order'
  BY <1>1 DEF TarjanInv, Shape, Apart, Order
<1> QED BY <1>4, <1>5, <1>6 DEF TarjanInv

LEMMA ScheduleInvInit == Init => ScheduleInv
BY DEF Init, ScheduleInv

LEMMA ScheduleInvNext == ASSUME ScheduleInv, [Next]_vars PROVE ScheduleInv'
<1>1. N \in Nat
  BY NetAssumption
<1>2. CASE Layer
  <2>1. net' = net /\ open' = open /\ phase' # "tear"
    BY <1>2 DEF Layer
  <2>2. phase' = "cycles" => T!Call(Succ(Blocked))
    BY <1>2 DEF Layer
  <2>3. phase' = "cycles" => TarjanInv'
    BY <1>1, <2>2, SuccIsGraph, CallBegins DEF ScheduleInv
  <2> QED BY <2>1, <2>3 DEF ScheduleInv
<1>3. CASE FindCycles
  <2>1. net' = net /\ open' = open /\ phase' = "cycles" /\ phase = "cycles" /\ T!Next
    BY <1>3 DEF FindCycles, layout
  <2> QED BY <2>1, TarjanStep DEF ScheduleInv
<1>4. CASE CyclesFound
  <2>1. net' = net /\ phase' = "loops"
        /\ open' = Picked(sccs, {i \in DOMAIN sccs : IsCycle(sccs[i])})
    BY <1>4 DEF CyclesFound
  <2>2. sccs \in Seq(Seq(Block))
    BY <1>4 DEF CyclesFound, ScheduleInv, TarjanInv, CycleTypes
  <2>3. open' \in Seq(Seq(Block))
    BY <2>1, <2>2, PickedType
  <2> QED BY <2>1, <2>3 DEF ScheduleInv
<1>5. CASE NextLoop
  <2>1. net' = net /\ open' = open /\ phase' = "tear" /\ open # <<>>
        /\ E!Call(Len(Head(open)), LocalArcs(Head(open)))
    BY <1>5 DEF NextLoop, layout
  <2>2. Head(open) \in Seq(Block)
    BY <2>1 DEF ScheduleInv
  <2>3. Len(Head(open)) \in Nat
    BY <2>2
  <2>4. /\ IsFiniteSet(LocalArcs(Head(open)))
        /\ \A a \in LocalArcs(Head(open)) : a[1] \in 1 .. Len(Head(open)) /\ a[2] \in 1 .. Len(Head(open))
    BY <2>2, LocalArcsFit DEF ScheduleInv
  <2>5. TearingInv'
    BY <2>1, <2>3, <2>4, TearingBegins
  <2> QED BY <2>1, <2>5 DEF ScheduleInv
<1>6. CASE Tear
  <2>1. net' = net /\ open' = open /\ phase' = "tear" /\ phase = "tear" /\ E!Next
    BY <1>6 DEF Tear, layout
  <2> QED BY <2>1, TearingStep DEF ScheduleInv
<1>7. CASE PlaceLoop
  <2>1. net' = net /\ phase' = "loops" /\ open' = Tail(open)
    BY <1>7 DEF PlaceLoop
  <2>2. open # <<>> /\ open \in Seq(Seq(Block))
    BY <1>7 DEF PlaceLoop, ScheduleInv
  <2>3. Tail(open) \in Seq(Seq(Block))
    BY <2>2
  <2> QED BY <2>1, <2>3 DEF ScheduleInv
<1>8. CASE Assembled \/ DagLevel \/ DagDone \/ LoopLevel \/ Boost \/ GiveUp
  <2>1. net' = net /\ open' = open /\ phase' \notin {"cycles", "tear"}
    BY <1>8 DEF Assembled, DagLevel, DagDone, LoopLevel, Boost, GiveUp, layout
  <2> QED BY <2>1 DEF ScheduleInv
<1>9. CASE UNCHANGED vars
  <2>1. net' = net /\ open' = open /\ phase' = phase /\ UNCHANGED cycleSearch /\ UNCHANGED ordering
    BY <1>9 DEF vars, layout
  <2>2. TearingInv => TearingInv'
    <3>1. UNCHANGED <<size, arcs, outdeg, indeg, removed, pos, left, right, tearing>>
      BY <2>1 DEF ordering
    <3>2. E!Block' = E!Block /\ E!Live' = E!Live
      BY <3>1 DEF E!Block, E!Live
    <3>3. (E!DegreesAreLive' <=> E!DegreesAreLive) /\ (E!OrderIsLinear' <=> E!OrderIsLinear)
      BY <3>1, <3>2 DEF E!DegreesAreLive, E!OrderIsLinear
    <3> QED BY <3>1, <3>2, <3>3 DEF TearingInv, TearingTypes
  <2> QED BY <2>1, <2>2, OnlyInCycles DEF ScheduleInv
<1> QED BY <1>2, <1>3, <1>4, <1>5, <1>6, <1>7, <1>8, <1>9 DEF Next

\* The invariant of both searches over the whole run.
LEMMA ScheduleInvariant == Spec => []ScheduleInv
BY ScheduleInvInit, ScheduleInvNext, PTL DEF Spec

\* The loops the schedule iterates on are the classes of mutually reachable
\* blocks (tarjan_sccs), each once, and downstream first, for every diagram.
THEOREM ComponentsAreInOrder == Spec => []ComponentsInOrder
<1>1. ScheduleInv => ComponentsInOrder
  BY ClassesAre, OrderIs DEF ScheduleInv, ComponentsInOrder
<1> QED BY <1>1, ScheduleInvariant, PTL

\* The connections torn in a loop break all its cycles (els_feedback_conns):
\* the degrees it peels by are those of the blocks left, and no two blocks get
\* one place, for loops of every size and connections in any number.
THEOREM EveryLoopIsTorn == Spec => []LoopsAreTorn
<1>1. ScheduleInv => LoopsAreTorn
  BY ForwardOnly DEF ScheduleInv, LoopsAreTorn, TearingInv
<1> QED BY <1>1, ScheduleInvariant, PTL

-----------------------------------------------------------------------------
(* What the order is good for.  UpdateInv follows the assembly (the DAG    *)
(* part is layered along read inputs, the loops are listed downstream      *)
(* first and layered along what is not torn) and the pass: what it has     *)
(* come past is up to date and reads nothing that is not.                  *)

\* The loops, in the order of the search, and the blocks of the two passes.
Cycles == Picked(sccs, {i \in DOMAIN sccs : IsCycle(sccs[i])})
DagPart == UNION {dag[k] : k \in DOMAIN dag}
LoopPart == UNION {loop[k] : k \in DOMAIN loop}

\* A component lists no block twice.
Unrepeated ==
    \A i \in DOMAIN sccs : \A p, q \in DOMAIN sccs[i] : sccs[i][p] = sccs[i][q] => p = q

\* A block of the DAG part reads from lower depths only.
DagLayered ==
    /\ DOMAIN dag = 0 .. N
    /\ \A k \in 0 .. N : dag[k] \subseteq Block
    /\ \A a \in Arcs : \A k \in 0 .. N : a.read /\ a.tgt \in dag[k] => \E m \in 0 .. (k - 1) : a.src \in dag[m]

\* The loops are apart, and what leads out of one leads to loops listed before it.
CyclesOrdered ==
    /\ Cycles \in Seq(Seq(Block)) /\ \A i \in DOMAIN Cycles : ToSet(Cycles[i]) # {}
    /\ \A i, j \in DOMAIN Cycles : i # j => ToSet(Cycles[i]) \cap ToSet(Cycles[j]) = {}
    /\ \A a \in Arcs : \A i, j \in DOMAIN Cycles :
          a.src \in ToSet(Cycles[j]) /\ a.tgt \in ToSet(Cycles[i]) => i <= j

\* The loops placed so far are the first ones listed; inside each, what is not
\* torn leads to a later layer.
LoopsLayered ==
    /\ loop \in Seq(SUBSET Block) /\ torn \subseteq Connections
    /\ loops \in 0 .. Len(Cycles)
    /\ open = SubSeq(Cycles, loops + 1, Len(Cycles))
    /\ \A k \in DOMAIN loop : loop[k] \subseteq UNION {ToSet(Cycles[j]) : j \in 1 .. loops}
    /\ \A a \in Arcs : \A j \in 1 .. loops : \A m, k \in DOMAIN loop :
          a.src \in loop[m] \cap ToSet(Cycles[j]) /\ a.tgt \in loop[k] \cap ToSet(Cycles[j])
             => a.conn \in torn \/ m < k

\* The blocks below depth n of the DAG part.
DagBelow(n) == UNION {dag[k] : k \in {m \in 0 .. N : m < n}}
\* The last t loops, the most upstream ones.
LastLoops(t) == {b \in LoopPart : \E j \in DOMAIN Cycles : Len(Cycles) - t < j /\ b \in ToSet(Cycles[j])}
\* The blocks below a depth of the loop before the last t loops.
Coming(t, n) == (UNION {loop[k] : k \in {m \in DOMAIN loop : m < n}})
                   \cap (UNION {ToSet(Cycles[j]) : j \in {i \in DOMAIN Cycles : i = Len(Cycles) - t}})

\* Some blocks are up to date and have passed their outputs on; all those below
\* the depth of the DAG pass; all of the DAG part; and in the t-th iteration of the
\* loop pass the last t - 1 loops, and the next one as far as the pass has come.
Settled(Q) == Q \subseteq fresh /\ FiredBy(Q) \subseteq carried
DagUpTo == Settled(DagBelow(depth))
DagSettled == Settled(DagPart)
TailSettled ==
    Scheduled = Block =>
        /\ Settled(DagPart \cup LastLoops(iteration - 1))
        /\ Coming(iteration - 1, depth) \subseteq fresh
        /\ FiredBy(Coming(iteration - 1, depth)) \subseteq carried \cup torn

Assembling == {"layer", "cycles", "loops", "tear"}
Evaluating == {"dag", "iterate"}

\* The inductive invariant.
UpdateInv ==
    /\ fresh \subseteq Block /\ carried \subseteq Connections
    /\ phase \in {"layer", "cycles"} => loop = <<>> /\ loops = 0 /\ torn = {} /\ open = <<>>
    /\ phase = "layer" => sccs = <<>>
    /\ phase = "cycles" => adj = Succ(Blocked) /\ Unrepeated
    /\ phase # "layer" => DagLayered
    /\ phase \in Assembling => depth = 0
    /\ phase \in {"loops", "tear"} \cup Evaluating => CyclesOrdered /\ LoopsLayered
    /\ phase = "tear" => size = Len(Head(open)) /\ arcs = LocalArcs(Head(open))
    /\ phase \in Evaluating => loops = Len(Cycles) /\ depth \in Nat
    /\ phase = "dag" => DagUpTo
    /\ phase = "iterate" => depth # 0 /\ iteration \in Nat \ {0} /\ DagSettled /\ TailSettled
    /\ phase = "done" => DagSettled /\ LoopsSettle

-----------------------------------------------------------------------------
(* Recursive definitions along arcs *)

LEMMA ArcsFinite ==
    ASSUME net \in Nets
    PROVE  IsFiniteSet(Arcs) /\ \A a \in Arcs : a.src \in Block /\ a.tgt \in Block
<1> DEFINE g == [i \in DOMAIN net.arcs |-> net.arcs[i]]
<1>1. \A a \in Arcs : a.src \in Block /\ a.tgt \in Block
  BY NetAssumption DEF Arcs
<1>2. Len(net.arcs) \in Nat /\ DOMAIN net.arcs = 1 .. Len(net.arcs)
  BY NetAssumption, SeqFacts
<1>3. IsFiniteSet(DOMAIN net.arcs)
  BY <1>2, FS_Interval
<1>4. g \in Surjection(DOMAIN net.arcs, Arcs)
  BY DEF Surjection, Arcs, ToSet
<1> HIDE DEF g
<1>5. IsFiniteSet(Arcs)
  BY <1>3, <1>4, FS_Surjection
<1> QED BY <1>1, <1>5

\* A finite set of natural numbers that has an element has a largest one.
LEMMA LargestNat ==
    ASSUME NEW S \in SUBSET Nat, IsFiniteSet(S), S # {}
    PROVE  \E x \in S : \A y \in S : y <= x
<1> DEFINE large(R) == \E x \in R : \A y \in R : y <= x
           sizes == {n \in Nat : \A R \in SUBSET Nat :
                        IsFiniteSet(R) /\ Cardinality(R) = n + 1 => large(R)}
<1>1. 0 \in sizes
  <2> SUFFICES ASSUME NEW R \in SUBSET Nat, IsFiniteSet(R), Cardinality(R) = 1 PROVE large(R)
    OBVIOUS
  <2>1. PICK x : R = {x}
    BY FS_Singleton
  <2>2. x \in Nat
    BY <2>1
  <2>3. x <= x
    BY <2>2
  <2> QED BY <2>1, <2>3
<1>2. ASSUME NEW n \in sizes PROVE n + 1 \in sizes
  <2>0. n \in Nat
    OBVIOUS
  <2> SUFFICES ASSUME NEW R \in SUBSET Nat, IsFiniteSet(R), Cardinality(R) = (n + 1) + 1 PROVE large(R)
    BY <2>0
  <2>1. R # {}
    BY <2>0, FS_EmptySet
  <2>2. PICK r \in R : TRUE
    BY <2>1
  <2>3. IsFiniteSet(R \ {r}) /\ Cardinality(R \ {r}) = n + 1
    BY <2>0, FS_RemoveElement
  <2>4. large(R \ {r})
    BY <2>3
  <2>5. PICK x \in R \ {r} : \A y \in R \ {r} : y <= x
    BY <2>4
  <2>6. x \in Nat /\ r \in Nat /\ \A y \in R : y \in Nat
    OBVIOUS
  <2>7. CASE r <= x
    BY <2>5, <2>7
  <2>8. CASE x < r
    <3>1. \A y \in R : y <= r
      BY <2>5, <2>6, <2>8
    <3> QED BY <3>1
  <2> QED BY <2>6, <2>7, <2>8
<1> HIDE DEF large
<1>3. sizes = Nat
  <2>1. sizes \in SUBSET Nat
    OBVIOUS
  <2> HIDE DEF sizes
  <2> QED BY <1>1, <1>2, <2>1, SetInduction
<1>4. Cardinality(S) \in Nat /\ Cardinality(S) # 0
  BY FS_CardinalityType, FS_EmptySet
<1>5. Cardinality(S) - 1 \in sizes /\ Cardinality(S) = (Cardinality(S) - 1) + 1
  BY <1>3, <1>4
<1>6. large(S)
  BY <1>5
<1> QED BY <1>6 DEF large

LEMMA MaxIs ==
    ASSUME NEW S \in SUBSET Nat, IsFiniteSet(S), S # {}
    PROVE  Max(S) \in Nat /\ Max(S) \in S /\ \A y \in S : y <= Max(S)
<1>1. PICK x \in S : \A y \in S : y <= x
  BY LargestNat
<1>2. \A y \in S : x >= y
  BY <1>1
<1>3. Max(S) \in S /\ \A y \in S : Max(S) >= y
  BY <1>2 DEF Max
<1> QED BY <1>3

\* The length of the longest path to b along the arcs A, given those to its
\* sources: 0 for the blocks Z, and one more than the arcs for a block that counts
\* itself (inArcs is FALSE).
Longest(d, Z, A, inArcs, b) ==
    IF b \in Z THEN 0
    ELSE IF inArcs THEN Max({0} \cup {d[a.src] + 1 : a \in {e \in A : e.tgt = b}})
    ELSE 1 + Max({0} \cup {d[a.src] : a \in {e \in A : e.tgt = b}})
IsLongest(d, Z, A, inArcs) == d = [b \in Block |-> Longest(d, Z, A, inArcs, b)]

\* m grows along the arcs, but those into Z: there is no cycle among the others.
Graded(Z, A, M, m) ==
    /\ IsFiniteSet(A) /\ M \in Nat /\ m \in [Block -> 0 .. M]
    /\ \A a \in A : a.src \in Block /\ a.tgt \in Block
    /\ \A a \in A : a.tgt \notin Z => m[a.src] < m[a.tgt]

LEMMA LongestType ==
    ASSUME NEW Z, NEW A, IsFiniteSet(A), \A a \in A : a.src \in Block, NEW inArcs \in BOOLEAN,
           NEW d \in [Block -> Nat], NEW b
    PROVE  /\ Longest(d, Z, A, inArcs, b) \in Nat
           /\ b \notin Z => \A a \in A : a.tgt = b => d[a.src] < Longest(d, Z, A, inArcs, b)
<1> DEFINE into == {e \in A : e.tgt = b}
           step == IF inArcs THEN 1 ELSE 0
           g == [a \in into |-> d[a.src] + step]
           ends == {d[a.src] + step : a \in into}
           S == {0} \cup ends
<1>1. IsFiniteSet(into)
  <2>1. into \in SUBSET A
    OBVIOUS
  <2> QED BY <2>1, FS_Subset
<1>2. ends \in SUBSET Nat
  OBVIOUS
<1>3. IsFiniteSet(ends)
  <2>1. g \in Surjection(into, ends)
    BY DEF Surjection
  <2> HIDE DEF g, ends, into
  <2> QED BY <1>1, <2>1, FS_Surjection
<1>4. S \in SUBSET Nat /\ S # {} /\ IsFiniteSet(S)
  <2>1. S = ends \cup {0} /\ S \in SUBSET Nat /\ S # {}
    BY <1>2
  <2> HIDE DEF ends, S
  <2>2. IsFiniteSet(ends \cup {0})
    BY <1>3, FS_AddElement
  <2> QED BY <2>1, <2>2
<1>5. Max(S) \in Nat /\ \A y \in S : y <= Max(S)
  <2> HIDE DEF S
  <2> QED BY <1>4, MaxIs
<1>6. \A a \in into : d[a.src] + step \in S /\ d[a.src] \in Nat
  OBVIOUS
<1>7. \A a \in into : d[a.src] + step <= Max(S)
  <2> HIDE DEF S, into, step
  <2> QED BY <1>5, <1>6
<1>8. Longest(d, Z, A, inArcs, b) = IF b \in Z THEN 0 ELSE IF inArcs THEN Max(S) ELSE 1 + Max(S)
  <2>1. CASE inArcs
    BY <2>1 DEF Longest
  <2>2. CASE ~inArcs
    <3>1. \A a \in into : d[a.src] + step = d[a.src]
      BY <2>2
    <3>2. ends = {d[a.src] : a \in into}
      BY <3>1
    <3> HIDE DEF ends
    <3> QED BY <2>2, <3>2 DEF Longest
  <2> QED BY <2>1, <2>2
<1> HIDE DEF S
<1>9. Longest(d, Z, A, inArcs, b) \in Nat
  BY <1>5, <1>8
<1>10. ASSUME b \notin Z, NEW a \in A, a.tgt = b PROVE d[a.src] < Longest(d, Z, A, inArcs, b)
  <2>1. a \in into
    BY <1>10
  <2>2. d[a.src] \in Nat /\ d[a.src] + step <= Max(S)
    BY <1>6, <1>7, <2>1
  <2>3. CASE inArcs
    BY <1>5, <1>8, <1>10, <2>2, <2>3
  <2>4. CASE ~inArcs
    BY <1>5, <1>8, <1>10, <2>2, <2>4
  <2> QED BY <2>3, <2>4
<1> QED BY <1>9, <1>10

\* Only the sources of the arcs to b matter.
LEMMA LongestLocal ==
    ASSUME NEW Z, NEW A, NEW inArcs \in BOOLEAN, NEW d, NEW f, NEW b,
           b \notin Z => \A a \in A : a.tgt = b => d[a.src] = f[a.src]
    PROVE  Longest(d, Z, A, inArcs, b) = Longest(f, Z, A, inArcs, b)
<1> DEFINE into == {e \in A : e.tgt = b}
<1>1. CASE b \in Z
  BY <1>1 DEF Longest
<1>2. CASE b \notin Z
  <2>1. \A a \in into : d[a.src] = f[a.src] /\ d[a.src] + 1 = f[a.src] + 1
    BY <1>2
  <2>2. {d[a.src] + 1 : a \in into} = {f[a.src] + 1 : a \in into} /\ {d[a.src] : a \in into} = {f[a.src] : a \in into}
    BY <2>1
  <2> QED BY <1>2, <2>2 DEF Longest
<1> QED BY <1>1, <1>2

\* There are longest paths: level by level of the grading.
LEMMA LongestExists ==
    ASSUME NEW Z, NEW A, NEW M, NEW m, Graded(Z, A, M, m), NEW inArcs \in BOOLEAN
    PROVE  \E d \in [Block -> Nat] : IsLongest(d, Z, A, inArcs)
<1> DEFINE L(f, b) == Longest(f, Z, A, inArcs, b)
           known == {k \in Nat : \E f \in [Block -> Nat] : \A b \in Block : m[b] < k => f[b] = L(f, b)}
<1>0. /\ IsFiniteSet(A) /\ M \in Nat /\ m \in [Block -> 0 .. M]
      /\ \A a \in A : a.src \in Block /\ a.tgt \in Block
      /\ \A a \in A : a.tgt \notin Z => m[a.src] < m[a.tgt]
      /\ \A b \in Block : m[b] \in Nat /\ m[b] <= M
  BY DEF Graded
<1>1. 0 \in known
  <2>1. [b \in Block |-> 0] \in [Block -> Nat] /\ \A b \in Block : ~(m[b] < 0)
    BY <1>0
  <2> HIDE DEF L
  <2> QED BY <2>1
<1>2. ASSUME NEW k \in known PROVE k + 1 \in known
  <2>0. k \in Nat
    OBVIOUS
  <2>1. PICK f \in [Block -> Nat] : \A b \in Block : m[b] < k => f[b] = L(f, b)
    OBVIOUS
  <2> DEFINE g == [b \in Block |-> L(f, b)]
  <2>2. g \in [Block -> Nat]
    BY <1>0, LongestType
  <2>3. ASSUME NEW b \in Block, m[b] < k + 1 PROVE g[b] = L(g, b)
    <3>1. ASSUME b \notin Z, NEW a \in A, a.tgt = b PROVE f[a.src] = g[a.src]
      <4>1. a.src \in Block /\ m[a.src] < m[b] /\ m[a.src] \in Nat /\ m[b] \in Nat
        BY <1>0, <3>1
      <4>2. m[a.src] < k
        BY <2>0, <2>3, <4>1
      <4> HIDE DEF L
      <4> QED BY <2>1, <4>1, <4>2
    <3> HIDE DEF g
    <3>2. L(f, b) = L(g, b)
      BY <3>1, LongestLocal
    <3> QED BY <3>2 DEF g
  <2> HIDE DEF L, g
  <2> QED BY <2>0, <2>2, <2>3
<1>3. M + 1 \in known
  <2>1. known \in SUBSET Nat
    OBVIOUS
  <2> HIDE DEF known
  <2>2. known = Nat
    BY <1>1, <1>2, <2>1, SetInduction
  <2> QED BY <1>0, <2>2
<1>4. PICK f \in [Block -> Nat] : \A b \in Block : m[b] < M + 1 => f[b] = L(f, b)
  BY <1>3
<1>5. \A b \in Block : f[b] = L(f, b)
  <2> HIDE DEF L
  <2> QED BY <1>0, <1>4
<1>6. f = [b \in Block |-> L(f, b)]
  <2> HIDE DEF L
  <2> QED BY <1>5
<1> QED BY <1>6 DEF IsLongest

\* There is one answer only.
LEMMA LongestOnce ==
    ASSUME NEW Z, NEW A, NEW M, NEW m, Graded(Z, A, M, m), NEW inArcs \in BOOLEAN,
           NEW d, IsLongest(d, Z, A, inArcs), NEW f, IsLongest(f, Z, A, inArcs)
    PROVE  d = f
<1> DEFINE L(h, b) == Longest(h, Z, A, inArcs, b)
           known == {k \in Nat : \A b \in Block : m[b] < k => d[b] = f[b]}
<1>0. /\ M \in Nat /\ \A a \in A : a.src \in Block /\ a.tgt \in Block
      /\ \A a \in A : a.tgt \notin Z => m[a.src] < m[a.tgt]
      /\ \A b \in Block : m[b] \in Nat /\ m[b] <= M
  BY DEF Graded
<1>1. d = [b \in Block |-> L(d, b)] /\ f = [b \in Block |-> L(f, b)]
  BY DEF IsLongest
<1>2. \A b \in Block : d[b] = L(d, b) /\ f[b] = L(f, b)
  <2> HIDE DEF L
  <2> QED BY <1>1
<1>3. 0 \in known
  BY <1>0
<1>4. ASSUME NEW k \in known PROVE k + 1 \in known
  <2>0. k \in Nat /\ \A b \in Block : m[b] < k => d[b] = f[b]
    OBVIOUS
  <2>1. ASSUME NEW b \in Block, m[b] < k + 1 PROVE d[b] = f[b]
    <3>1. ASSUME b \notin Z, NEW a \in A, a.tgt = b PROVE d[a.src] = f[a.src]
      <4>1. a.src \in Block /\ m[a.src] < m[b] /\ m[a.src] \in Nat /\ m[b] \in Nat
        BY <1>0, <3>1
      <4>2. m[a.src] < k
        BY <2>0, <2>1, <4>1
      <4> QED BY <2>0, <4>1, <4>2
    <3>2. L(d, b) = L(f, b)
      BY <3>1, LongestLocal
    <3> HIDE DEF L
    <3> QED BY <1>2, <3>2
  <2> QED BY <2>0, <2>1
<1>5. M + 1 \in known
  <2>1. known \in SUBSET Nat
    OBVIOUS
  <2> HIDE DEF known
  <2>2. known = Nat
    BY <1>3, <1>4, <2>1, SetInduction
  <2> QED BY <1>0, <2>2
<1>6. \A b \in Block : d[b] = f[b]
  BY <1>0, <1>5
<1> HIDE DEF L
<1> QED BY <1>1, <1>6

LEMMA LongestIs ==
    ASSUME NEW Z, NEW A, NEW M, NEW m, Graded(Z, A, M, m), NEW inArcs \in BOOLEAN,
           NEW D, IsLongest(D, Z, A, inArcs)
    PROVE  D \in [Block -> Nat] /\ \A a \in A : a.tgt \notin Z => D[a.src] < D[a.tgt]
<1>1. PICK d \in [Block -> Nat] : IsLongest(d, Z, A, inArcs)
  BY LongestExists
<1>2. D = d
  BY <1>1, LongestOnce
<1>3. D \in [Block -> Nat]
  BY <1>2
<1>4. IsFiniteSet(A) /\ \A a \in A : a.src \in Block /\ a.tgt \in Block
  BY DEF Graded
<1>5. ASSUME NEW a \in A, a.tgt \notin Z PROVE D[a.src] < D[a.tgt]
  <2>1. D[a.src] < Longest(D, Z, A, inArcs, a.tgt)
    BY <1>3, <1>4, <1>5, LongestType
  <2>2. D[a.tgt] = Longest(D, Z, A, inArcs, a.tgt)
    BY <1>4 DEF IsLongest
  <2> QED BY <2>1, <2>2
<1> QED BY <1>3, <1>5

\* Longest paths stay below a grading that is positive outside Z.
LEMMA LongestBelow ==
    ASSUME NEW Z, NEW A, NEW M, NEW m, Graded(Z, A, M, m), \A b \in Block : b \notin Z => 1 <= m[b],
           NEW D, IsLongest(D, Z, A, FALSE)
    PROVE  \A b \in Block : D[b] <= M
<1> DEFINE known == {k \in Nat : \A b \in Block : b \notin Z /\ m[b] < k => D[b] <= m[b]}
<1>0. /\ IsFiniteSet(A) /\ M \in Nat /\ \A a \in A : a.src \in Block /\ a.tgt \in Block
      /\ \A a \in A : a.tgt \notin Z => m[a.src] < m[a.tgt]
      /\ \A b \in Block : m[b] \in Nat /\ m[b] <= M
  BY DEF Graded
<1>1. D \in [Block -> Nat]
  BY LongestIs
<1>2. ASSUME NEW b \in Block, b \in Z PROVE D[b] = 0
  BY <1>2 DEF IsLongest, Longest
<1>3. ASSUME NEW b \in Block, b \notin Z, NEW n \in Nat, \A a \in A : a.tgt = b => D[a.src] <= n
      PROVE  D[b] <= 1 + n
  <2> DEFINE into == {e \in A : e.tgt = b}
             ends == {D[a.src] : a \in into}
             S == ends \cup {0}
             g == [a \in into |-> D[a.src]]
  <2>1. D[b] = 1 + Max(S)
    <3>1. {0} \cup {D[a.src] : a \in {e \in A : e.tgt = b}} = S
      OBVIOUS
    <3> HIDE DEF S
    <3> QED BY <1>3, <3>1 DEF IsLongest, Longest
  <2>2. \A x \in ends : x \in Nat /\ x <= n
    BY <1>0, <1>1, <1>3
  <2>3. IsFiniteSet(into)
    <3>1. into \in SUBSET A
      OBVIOUS
    <3> QED BY <1>0, <3>1, FS_Subset
  <2>4. g \in Surjection(into, ends)
    BY DEF Surjection
  <2> HIDE DEF g, into
  <2>5. IsFiniteSet(ends)
    <3> HIDE DEF ends
    <3> QED BY <2>3, <2>4, FS_Surjection
  <2> HIDE DEF ends
  <2>6. IsFiniteSet(S) /\ S \in SUBSET Nat /\ S # {} /\ \A x \in S : x <= n
    <3>1. IsFiniteSet(ends \cup {0})
      BY <2>5, FS_AddElement
    <3> QED BY <2>2, <3>1
  <2> HIDE DEF S
  <2>7. Max(S) \in Nat /\ Max(S) <= n
    BY <2>6, MaxIs
  <2> QED BY <2>1, <2>7
<1>4. 0 \in known
  BY <1>0
<1>5. ASSUME NEW k \in known PROVE k + 1 \in known
  <2>0. k \in Nat /\ \A b \in Block : b \notin Z /\ m[b] < k => D[b] <= m[b]
    OBVIOUS
  <2>1. ASSUME NEW b \in Block, b \notin Z, m[b] < k + 1 PROVE D[b] <= m[b]
    <3>1. m[b] \in Nat /\ m[b] - 1 \in Nat /\ 1 + (m[b] - 1) = m[b]
      BY <1>0, <2>1
    <3>2. ASSUME NEW a \in A, a.tgt = b PROVE D[a.src] <= m[b] - 1
      <4>1. a.src \in Block /\ m[a.src] \in Nat /\ m[a.src] < m[b] /\ D[a.src] \in Nat
        BY <1>0, <1>1, <2>1, <3>2
      <4>2. CASE a.src \in Z
        BY <1>2, <3>1, <4>1, <4>2
      <4>3. CASE a.src \notin Z
        <5>1. m[a.src] < k
          BY <2>0, <2>1, <3>1, <4>1
        <5>2. D[a.src] <= m[a.src]
          BY <2>0, <4>1, <4>3, <5>1
        <5> QED BY <3>1, <4>1, <5>2
      <4> QED BY <4>2, <4>3
    <3>3. D[b] <= 1 + (m[b] - 1)
      <4> DEFINE n == m[b] - 1
      <4>1. n \in Nat /\ \A a \in A : a.tgt = b => D[a.src] <= n
        BY <3>1, <3>2
      <4> HIDE DEF n
      <4>2. D[b] <= 1 + n
        BY <1>3, <2>1, <4>1
      <4> QED BY <4>2 DEF n
    <3> QED BY <3>1, <3>3
  <2> QED BY <2>0, <2>1
<1>6. known = Nat
  <2>1. known \in SUBSET Nat
    OBVIOUS
  <2> HIDE DEF known
  <2> QED BY <1>4, <1>5, <2>1, SetInduction
<1>7. ASSUME NEW b \in Block PROVE D[b] <= M
  <2>1. M + 1 \in known /\ m[b] < M + 1 /\ m[b] \in Nat /\ m[b] <= M /\ D[b] \in Nat
    BY <1>0, <1>1, <1>6
  <2>2. CASE b \in Z
    BY <1>0, <1>2, <2>2
  <2>3. CASE b \notin Z
    <3>1. D[b] <= m[b]
      BY <2>1, <2>3
    <3> QED BY <1>0, <2>1, <3>1
  <2> QED BY <2>2, <2>3
<1> QED BY <1>7

-----------------------------------------------------------------------------
(* Reachability as Leads computes it, and the depths *)

\* r[k][b] is what b leads to in at most k steps.
StepsTo(r, some, n) ==
    r = [k \in 0 .. n |->
           IF k = 0 THEN [b \in Block |-> {}]
           ELSE [b \in Block |-> UNION {{a.tgt} \cup r[k - 1][a.tgt] : a \in {e \in some : e.src = b}}]]
StepByStep(r, some, n) ==
    /\ \A b \in Block : r[0][b] = {}
    /\ \A k \in 1 .. n : \A b \in Block :
          r[k][b] = UNION {{a.tgt} \cup r[k - 1][a.tgt] : a \in {e \in some : e.src = b}}
    /\ \A k \in 0 .. n : \A b \in Block : r[k][b] \subseteq Block
\* One step on from the blocks S.
After(some, S) == {a.tgt : a \in {e \in some : e.src \in S}}

LEMMA StepsExist ==
    ASSUME NEW some
    PROVE  \A n \in Nat : \E r : StepsTo(r, some, n)
<1> DEFINE Value(r, k) ==
             IF k = 0 THEN [b \in Block |-> {}]
             ELSE [b \in Block |-> UNION {{a.tgt} \cup r[k - 1][a.tgt] : a \in {e \in some : e.src = b}}]
           known == {n \in Nat : \E r : r = [k \in 0 .. n |-> Value(r, k)]}
<1>1. 0 \in known
  <2> DEFINE r == [k \in 0 .. 0 |-> [b \in Block |-> {}]]
  <2>1. \A k \in 0 .. 0 : Value(r, k) = [b \in Block |-> {}]
    OBVIOUS
  <2> HIDE DEF Value
  <2>2. r = [k \in 0 .. 0 |-> Value(r, k)]
    BY <2>1
  <2> QED BY <2>2
<1>2. ASSUME NEW n \in known PROVE n + 1 \in known
  <2>0. n \in Nat
    OBVIOUS
  <2>1. PICK r : r = [k \in 0 .. n |-> Value(r, k)]
    OBVIOUS
  <2> DEFINE f == [k \in 0 .. (n + 1) |-> Value(r, k)]
  <2>2. \A k \in 0 .. n : f[k] = r[k] /\ k \in 0 .. (n + 1)
    <3> HIDE DEF Value
    <3> QED BY <2>0, <2>1
  <2>3. ASSUME NEW k \in 0 .. (n + 1) PROVE f[k] = Value(f, k)
    <3>1. f[k] = Value(r, k)
      <4> HIDE DEF Value
      <4> QED OBVIOUS
    <3> HIDE DEF f
    <3>2. CASE k = 0
      BY <3>1, <3>2
    <3>3. CASE k # 0
      <4>1. k - 1 \in 0 .. n
        BY <2>0, <3>3
      <4>2. f[k - 1] = r[k - 1]
        BY <2>2, <4>1
      <4> QED BY <3>1, <3>3, <4>2
    <3> QED BY <3>2, <3>3
  <2> HIDE DEF Value
  <2>4. f = [k \in 0 .. (n + 1) |-> Value(f, k)]
    <3>1. f = [k \in 0 .. (n + 1) |-> f[k]]
      OBVIOUS
    <3> HIDE DEF f
    <3> QED BY <2>3, <3>1
  <2> HIDE DEF f
  <2> QED BY <2>0, <2>4
<1>3. known = Nat
  <2>1. known \in SUBSET Nat
    OBVIOUS
  <2> HIDE DEF known
  <2> QED BY <1>1, <1>2, <2>1, SetInduction
<1> SUFFICES ASSUME NEW n \in Nat PROVE \E r : StepsTo(r, some, n)
  OBVIOUS
<1>4. \E r : r = [k \in 0 .. n |-> Value(r, k)]
  <2> HIDE DEF Value
  <2> QED BY <1>3
<1> QED BY <1>4 DEF StepsTo

LEMMA LeadsFunction ==
    ASSUME NEW some, N \in Nat
    PROVE  \E r : StepsTo(r, some, N) /\ Leads(some) = r[N]
<1> DEFINE R == CHOOSE r : r = [k \in 0 .. N |->
             IF k = 0 THEN [b \in Block |-> {}]
             ELSE [b \in Block |-> UNION {{a.tgt} \cup r[k - 1][a.tgt] : a \in {e \in some : e.src = b}}]]
<1>1. \E r : StepsTo(r, some, N)
  BY StepsExist
<1>2. R = CHOOSE r : StepsTo(r, some, N)
  BY DEF StepsTo
<1>3. Leads(some) = R[N]
  BY DEF Leads
<1> HIDE DEF R
<1>4. StepsTo(R, some, N)
  BY <1>1, <1>2
<1> QED BY <1>3, <1>4

LEMMA StepsAre ==
    ASSUME NEW some, NEW n \in Nat, NEW r, StepsTo(r, some, n), \A a \in some : a.src \in Block /\ a.tgt \in Block
    PROVE  StepByStep(r, some, n)
<1>1. /\ \A b \in Block : r[0][b] = {}
      /\ \A k \in 1 .. n : \A b \in Block :
            r[k][b] = UNION {{a.tgt} \cup r[k - 1][a.tgt] : a \in {e \in some : e.src = b}}
  <2>1. r[0] = [b \in Block |-> {}]
    BY DEF StepsTo
  <2>2. ASSUME NEW k \in 1 .. n
        PROVE  r[k] = [b \in Block |-> UNION {{a.tgt} \cup r[k - 1][a.tgt] : a \in {e \in some : e.src = b}}]
    <3> DEFINE V(b) == UNION {{a.tgt} \cup r[k - 1][a.tgt] : a \in {e \in some : e.src = b}}
    <3>1. k \in 0 .. n /\ k # 0
      OBVIOUS
    <3>2. r[k] = IF k = 0 THEN [b \in Block |-> {}] ELSE [b \in Block |-> V(b)]
      BY <3>1 DEF StepsTo
    <3> QED BY <3>1, <3>2
  <2> QED BY <2>1, <2>2
<1> DEFINE within == {k \in Nat : k <= n => \A b \in Block : r[k][b] \subseteq Block}
<1>2. 0 \in within
  BY <1>1
<1>3. ASSUME NEW k \in within PROVE k + 1 \in within
  <2>0. k \in Nat
    OBVIOUS
  <2> SUFFICES ASSUME k + 1 <= n, NEW b \in Block PROVE r[k + 1][b] \subseteq Block
    BY <2>0
  <2>1. k + 1 \in 1 .. n /\ k <= n /\ (k + 1) - 1 = k
    BY <2>0
  <2>2. r[k + 1][b] = UNION {{a.tgt} \cup r[k][a.tgt] : a \in {e \in some : e.src = b}}
    BY <1>1, <2>1
  <2>3. \A a \in some : a.tgt \in Block /\ r[k][a.tgt] \subseteq Block
    BY <2>1
  <2> QED BY <2>2, <2>3
<1>4. within = Nat
  <2>1. within \in SUBSET Nat
    OBVIOUS
  <2> HIDE DEF within
  <2> QED BY <1>2, <1>3, <2>1, SetInduction
<1>5. ASSUME NEW k \in 0 .. n, NEW b \in Block PROVE r[k][b] \subseteq Block
  <2>1. k \in within /\ k <= n
    BY <1>4
  <2> QED BY <2>1
<1> QED BY <1>1, <1>5 DEF StepByStep

\* A step more adds what is one step on.
LEMMA StepsGrow ==
    ASSUME N \in Nat, NEW some, NEW r, StepByStep(r, some, N), \A a \in some : a.src \in Block /\ a.tgt \in Block
    PROVE  \A k \in Nat : 1 <= k /\ k < N => \A b \in Block : r[k + 1][b] = r[k][b] \cup After(some, r[k][b])
<1> DEFINE known == {k \in Nat : 1 <= k /\ k < N => \A b \in Block : r[k + 1][b] = r[k][b] \cup After(some, r[k][b])}
<1>1. /\ \A b \in Block : r[0][b] = {}
      /\ \A k \in 1 .. N : \A b \in Block :
            r[k][b] = UNION {{a.tgt} \cup r[k - 1][a.tgt] : a \in {e \in some : e.src = b}}
  BY DEF StepByStep
<1>2. 0 \in known
  OBVIOUS
<1>3. ASSUME NEW k \in known PROVE k + 1 \in known
  <2>0. k \in Nat
    OBVIOUS
  <2> DEFINE m == k + 1
  <2> SUFFICES ASSUME m < N, NEW b \in Block PROVE r[m + 1][b] = r[m][b] \cup After(some, r[m][b])
    BY <2>0
  <2>1. m \in 1 .. N /\ m + 1 \in 1 .. N /\ (m + 1) - 1 = m /\ m - 1 = k /\ k < N
    BY <2>0
  <2>2. \A c \in Block : r[m][c] = UNION {{a.tgt} \cup r[k][a.tgt] : a \in {e \in some : e.src = c}}
    BY <1>1, <2>1
  <2>3. \A c \in Block : r[m + 1][c] = UNION {{a.tgt} \cup r[m][a.tgt] : a \in {e \in some : e.src = c}}
    BY <1>1, <2>1
  <2>4. ASSUME NEW c \in Block PROVE r[m][c] = r[k][c] \cup After(some, r[k][c]) \/ k = 0
    BY <2>0, <2>1
  <2> HIDE DEF m
  <2>5. ASSUME NEW w PROVE w \in r[m + 1][b] <=> w \in r[m][b] \/ w \in After(some, r[m][b])
    <3>1. CASE k = 0
      <4>1. \A c \in Block : r[k][c] = {}
        BY <1>1, <3>1
      <4>2. \A c \in Block : r[m][c] = {a.tgt : a \in {e \in some : e.src = c}}
        BY <2>2, <4>1
      <4> QED BY <2>3, <4>2 DEF After
    <3>2. CASE k # 0
      <4>1. \A c \in Block : r[m][c] = r[k][c] \cup After(some, r[k][c])
        BY <2>4, <3>2
      <4>2. ASSUME w \in r[m + 1][b] PROVE w \in r[m][b] \/ w \in After(some, r[m][b])
        <5>1. PICK a \in some : a.src = b /\ (w = a.tgt \/ w \in r[m][a.tgt])
          BY <2>3, <4>2
        <5>2. CASE w = a.tgt
          BY <2>2, <5>1, <5>2
        <5>3. CASE w \in r[k][a.tgt]
          BY <2>2, <5>1, <5>3
        <5>4. CASE w \in After(some, r[k][a.tgt])
          <6>1. PICK e \in some : e.src \in r[k][a.tgt] /\ w = e.tgt
            BY <5>4 DEF After
          <6>2. e.src \in r[m][b]
            BY <2>2, <5>1, <6>1
          <6> QED BY <6>1, <6>2 DEF After
        <5> QED BY <4>1, <5>1, <5>2, <5>3, <5>4
      <4>3. ASSUME w \in r[m][b] PROVE w \in r[m + 1][b]
        <5>1. PICK a \in some : a.src = b /\ (w = a.tgt \/ w \in r[k][a.tgt])
          BY <2>2, <4>3
        <5>2. w = a.tgt \/ w \in r[m][a.tgt]
          BY <4>1, <5>1
        <5> QED BY <2>3, <5>1, <5>2
      <4>4. ASSUME w \in After(some, r[m][b]) PROVE w \in r[m + 1][b]
        <5>1. PICK e \in some : e.src \in r[m][b] /\ w = e.tgt
          BY <4>4 DEF After
        <5>2. PICK a \in some : a.src = b /\ (e.src = a.tgt \/ e.src \in r[k][a.tgt])
          BY <2>2, <5>1
        <5>3. w \in r[m][a.tgt]
          <6>1. CASE e.src = a.tgt
            BY <2>2, <5>1, <6>1
          <6>2. CASE e.src \in r[k][a.tgt]
            <7>1. w \in After(some, r[k][a.tgt])
              BY <5>1, <6>2 DEF After
            <7> QED BY <4>1, <7>1
          <6> QED BY <5>2, <6>1, <6>2
        <5> QED BY <2>3, <5>2, <5>3
      <4> QED BY <4>2, <4>3, <4>4
    <3> QED BY <3>1, <3>2
  <2> QED BY <2>5
<1>4. known = Nat
  <2>1. known \in SUBSET Nat
    OBVIOUS
  <2> HIDE DEF known
  <2> QED BY <1>2, <1>3, <2>1, SetInduction
<1> QED BY <1>4

\* Leads is closed under the arcs: N steps are enough for N blocks.
LEMMA LeadsOn ==
    ASSUME N \in Nat, NEW some, \A a \in some : a.src \in Block /\ a.tgt \in Block
    PROVE  /\ \A b \in Block : Leads(some)[b] \subseteq Block
           /\ \A a \in some : a.tgt \in Leads(some)[a.src]
           /\ \A a \in some : \A b \in Block : a.src \in Leads(some)[b] => a.tgt \in Leads(some)[b]
           /\ \A a \in some : Leads(some)[a.tgt] \subseteq Leads(some)[a.src]
<1>1. PICK r : StepsTo(r, some, N) /\ Leads(some) = r[N]
  BY LeadsFunction
<1>2. StepByStep(r, some, N)
  BY <1>1, StepsAre
<1>3. \A k \in Nat : 1 <= k /\ k < N => \A b \in Block : r[k + 1][b] = r[k][b] \cup After(some, r[k][b])
  BY <1>2, StepsGrow
<1>4. /\ \A k \in 1 .. N : \A b \in Block :
            r[k][b] = UNION {{a.tgt} \cup r[k - 1][a.tgt] : a \in {e \in some : e.src = b}}
      /\ \A k \in 0 .. N : \A b \in Block : r[k][b] \subseteq Block
  BY <1>2 DEF StepByStep
<1>5. IsFiniteSet(Block) /\ Cardinality(Block) = N
  <2>1. IsFiniteSet(1 .. N) /\ Cardinality(1 .. N) = IF 1 > N THEN 0 ELSE N - 1 + 1
    BY FS_Interval
  <2> QED BY <2>1 DEF Block
<1>6. \A k \in 0 .. N : \A b \in Block : IsFiniteSet(r[k][b]) /\ Cardinality(r[k][b]) \in Nat
  BY <1>4, <1>5, FS_Subset, FS_CardinalityType
<1> DEFINE Full(k, b) == After(some, r[k][b]) \subseteq r[k][b] \/ k <= Cardinality(r[k][b])
           known == {k \in Nat : 1 <= k /\ k <= N => \A b \in Block : Full(k, b)}
<1>7. 0 \in known
  OBVIOUS
<1>8. ASSUME NEW k \in known PROVE k + 1 \in known
  <2>0. k \in Nat
    OBVIOUS
  <2> SUFFICES ASSUME k + 1 <= N, NEW b \in Block PROVE Full(k + 1, b)
    BY <2>0
  <2>1. k \in 0 .. N /\ k + 1 \in 0 .. N /\ k + 1 \in 1 .. N /\ k < N
    BY <2>0
  <2> DEFINE old == r[k][b]
             new == r[k + 1][b]
  <2>2. CASE k = 0
    <3>1. CASE new = {}
      BY <3>1, <2>2 DEF After
    <3>2. CASE new # {}
      <4>1. IsFiniteSet(new) /\ Cardinality(new) \in Nat
        BY <1>6, <2>1
      <4> HIDE DEF new
      <4>2. Cardinality(new) # 0
        BY <3>2, <4>1, FS_EmptySet
      <4>3. k + 1 <= Cardinality(new)
        BY <2>2, <4>1, <4>2
      <4> QED BY <4>3 DEF new
    <3> QED BY <3>1, <3>2
  <2>3. CASE k # 0
    <3>1. 1 <= k
      BY <2>0, <2>3
    <3>2. new = old \cup After(some, old)
      BY <1>3, <2>0, <2>1, <3>1
    <3>3. Full(k, b)
      BY <2>1, <3>1
    <3>4. CASE After(some, old) \subseteq old
      <4>1. new = old
        BY <3>2, <3>4
      <4>2. After(some, new) \subseteq new
        BY <3>4, <4>1
      <4> QED BY <4>2
    <3>5. CASE ~(After(some, old) \subseteq old)
      <4>1. k <= Cardinality(old)
        BY <3>3, <3>5
      <4>2. IsFiniteSet(new) /\ Cardinality(new) \in Nat /\ Cardinality(old) \in Nat
        BY <1>6, <2>1
      <4> HIDE DEF new, old
      <4>3. old \in SUBSET new /\ old # new
        BY <3>2, <3>5
      <4>4. Cardinality(old) <= Cardinality(new) /\ Cardinality(old) # Cardinality(new)
        BY <4>2, <4>3, FS_Subset
      <4>5. k + 1 <= Cardinality(new)
        BY <2>0, <4>1, <4>2, <4>4
      <4> QED BY <4>5 DEF new
    <3> QED BY <3>4, <3>5
  <2> QED BY <2>2, <2>3
<1>9. known = Nat
  <2>1. known \in SUBSET Nat
    OBVIOUS
  <2> HIDE DEF known
  <2> QED BY <1>7, <1>8, <2>1, SetInduction
<1>10. ASSUME NEW b \in Block PROVE After(some, r[N][b]) \subseteq r[N][b] /\ N \in 1 .. N
  <2>1. N \in 0 .. N /\ 1 <= N /\ N <= N /\ N \in 1 .. N
    BY DEF Block
  <2>2. Full(N, b)
    BY <1>9, <2>1
  <2>3. CASE N <= Cardinality(r[N][b])
    <3>1. r[N][b] \in SUBSET Block
      BY <1>4, <2>1
    <3>2. Cardinality(r[N][b]) <= Cardinality(Block) /\ (Cardinality(Block) = Cardinality(r[N][b]) => Block = r[N][b])
      BY <1>5, <3>1, FS_Subset
    <3>3. r[N][b] = Block
      BY <1>5, <1>6, <2>1, <2>3, <3>2
    <3> QED BY <2>1, <3>3 DEF After
  <2> QED BY <2>1, <2>2, <2>3
<1> HIDE DEF known
<1>11. ASSUME NEW a \in some
       PROVE  /\ a.tgt \in r[N][a.src]
              /\ \A b \in Block : a.src \in r[N][b] => a.tgt \in r[N][b]
              /\ r[N][a.tgt] \subseteq r[N][a.src]
  <2>0. a.src \in Block /\ a.tgt \in Block
    OBVIOUS
  <2>1. N \in 1 .. N
    BY <1>10, <2>0
  <2>2. a.tgt \in r[N][a.src] /\ r[N - 1][a.tgt] \subseteq r[N][a.src]
    BY <1>4, <2>0, <2>1
  <2>3. \A b \in Block : a.src \in r[N][b] => a.tgt \in r[N][b]
    BY <1>10 DEF After
  <2>4. CASE N = 1
    <3>1. a.tgt = a.src
      BY <2>0, <2>4 DEF Block
    <3> QED BY <2>2, <2>3, <3>1
  <2>5. CASE N # 1
    <3>1. N - 1 \in Nat /\ 1 <= N - 1 /\ N - 1 < N /\ (N - 1) + 1 = N
      BY <2>1, <2>5
    <3>2. r[N][a.tgt] = r[N - 1][a.tgt] \cup After(some, r[N - 1][a.tgt])
      <4> DEFINE k == N - 1
      <4>1. k \in Nat /\ 1 <= k /\ k < N /\ k + 1 = N
        BY <3>1
      <4> HIDE DEF k
      <4>2. r[k + 1][a.tgt] = r[k][a.tgt] \cup After(some, r[k][a.tgt])
        BY <1>3, <2>0, <4>1
      <4>3. r[N][a.tgt] = r[k][a.tgt] \cup After(some, r[k][a.tgt])
        BY <4>1, <4>2
      <4> QED BY <4>3 DEF k
    <3>3. After(some, r[N - 1][a.tgt]) \subseteq After(some, r[N][a.src])
      BY <2>2 DEF After
    <3>4. After(some, r[N][a.src]) \subseteq r[N][a.src]
      BY <1>10, <2>0
    <3> QED BY <2>2, <2>3, <3>2, <3>3, <3>4
  <2> QED BY <2>4, <2>5
<1>12. \A b \in Block : r[N][b] \subseteq Block
  BY <1>4, <1>10
<1> QED BY <1>1, <1>11, <1>12

ReadArcs == {a \in Arcs : a.read}

\* What a blocked block is read by is blocked, and no other block reads itself,
\* through others or at once.
LEMMA BlockedCloses ==
    ASSUME net \in Nets
    PROVE  /\ \A a \in ReadArcs : a.src \in Blocked => a.tgt \in Blocked
           /\ \A b \in Block : b \notin Blocked => b \notin Leads(ReadArcs)[b]
<1> DEFINE leads == Leads(ReadArcs)
<1>0. N \in Nat /\ \A a \in ReadArcs : a.src \in Block /\ a.tgt \in Block
  BY NetAssumption, ArcsFinite DEF ReadArcs
<1>1. /\ \A a \in ReadArcs : a.tgt \in leads[a.src]
      /\ \A a \in ReadArcs : \A b \in Block : a.src \in leads[b] => a.tgt \in leads[b]
  BY <1>0, LeadsOn
<1>2. Blocked = UNION {{b} \cup leads[b] : b \in {c \in Block : c \in leads[c]}}
  BY DEF Blocked, ReadArcs
<1> HIDE DEF leads
<1>3. ASSUME NEW a \in ReadArcs, a.src \in Blocked PROVE a.tgt \in Blocked
  <2>1. PICK b \in {c \in Block : c \in leads[c]} : a.src \in {b} \cup leads[b]
    BY <1>2, <1>3
  <2>2. a.tgt \in leads[b]
    BY <1>1, <2>1
  <2> QED BY <1>2, <2>1, <2>2
<1>4. ASSUME NEW b \in Block, b \notin Blocked PROVE b \notin leads[b]
  BY <1>2, <1>4
<1> QED BY <1>3, <1>4 DEF leads

\* The depths of the DAG part grow along what is read, and do not exceed N.
LEMMA DepthsAre ==
    ASSUME net \in Nets
    PROVE  /\ Depths(Blocked) \in [Block -> Nat]
           /\ \A a \in ReadArcs :
                 a.tgt \notin Blocked => a.src \notin Blocked /\ Depths(Blocked)[a.src] < Depths(Blocked)[a.tgt]
           /\ \A b \in Block : Depths(Blocked)[b] <= N
<1> DEFINE leads == Leads(ReadArcs)
           Z == Blocked \cup (Block \ net.alg)
           m == [b \in Block |-> N - Cardinality(leads[b])]
           body(d, b) == IF b \in Blocked \/ b \notin net.alg THEN 0
                         ELSE 1 + Max({0} \cup {d[a.src] : a \in {e \in Arcs : e.read /\ e.tgt = b}})
           D == CHOOSE d : d = [b \in Block |-> body(d, b)]
<1>1. N \in Nat /\ \A a \in ReadArcs : a \in Arcs /\ a.src \in Block /\ a.tgt \in Block /\ a.tgt \in net.alg
  BY NetAssumption, ArcsFinite DEF ReadArcs, Arcs
<1>2. IsFiniteSet(ReadArcs)
  <2>1. ReadArcs \in SUBSET Arcs
    BY DEF ReadArcs
  <2> QED BY <2>1, ArcsFinite, FS_Subset
<1>3. /\ \A b \in Block : leads[b] \in SUBSET Block
      /\ \A a \in ReadArcs : a.tgt \in leads[a.src] /\ leads[a.tgt] \subseteq leads[a.src]
  BY <1>1, LeadsOn
<1>4. /\ \A a \in ReadArcs : a.src \in Blocked => a.tgt \in Blocked
      /\ \A b \in Block : b \notin Blocked => b \notin leads[b]
  BY BlockedCloses
<1> HIDE DEF leads
<1>5. IsFiniteSet(Block) /\ Cardinality(Block) = N
  <2>1. IsFiniteSet(1 .. N) /\ Cardinality(1 .. N) = IF 1 > N THEN 0 ELSE N - 1 + 1
    BY <1>1, FS_Interval
  <2> QED BY <1>1, <2>1 DEF Block
<1>6. \A b \in Block : IsFiniteSet(leads[b]) /\ Cardinality(leads[b]) \in Nat /\ Cardinality(leads[b]) <= N
  BY <1>3, <1>5, FS_Subset, FS_CardinalityType
<1>7. m \in [Block -> 0 .. N]
  BY <1>1, <1>6
<1>8. ASSUME NEW a \in ReadArcs, a.tgt \notin Z PROVE m[a.src] < m[a.tgt]
  <2>1. a.src \in Block /\ a.tgt \in Block /\ a.tgt \notin Blocked
    BY <1>1, <1>8
  <2>2. leads[a.tgt] \in SUBSET leads[a.src] /\ leads[a.tgt] # leads[a.src]
    BY <1>3, <1>4, <2>1
  <2>3. Cardinality(leads[a.tgt]) <= Cardinality(leads[a.src]) /\ Cardinality(leads[a.tgt]) # Cardinality(leads[a.src])
    BY <1>6, <2>1, <2>2, FS_Subset
  <2>4. Cardinality(leads[a.tgt]) \in Nat /\ Cardinality(leads[a.src]) \in Nat
    BY <1>6, <2>1
  <2> QED BY <1>1, <2>1, <2>3, <2>4
<1>9. ASSUME NEW b \in Block, b \notin Z PROVE 1 <= m[b]
  <2>1. b \notin leads[b] /\ leads[b] \in SUBSET Block
    BY <1>3, <1>4, <1>9
  <2>2. leads[b] # Block
    BY <2>1
  <2>3. Cardinality(leads[b]) # N
    BY <1>5, <2>1, <2>2, FS_Subset
  <2> QED BY <1>1, <1>6, <2>3
<1>10. Graded(Z, ReadArcs, N, m)
  <2> HIDE DEF m, Z
  <2> QED BY <1>1, <1>2, <1>7, <1>8 DEF Graded
<1>11. \A d : \A b \in Block : body(d, b) = Longest(d, Z, ReadArcs, FALSE, b)
  <2> SUFFICES ASSUME NEW d, NEW b \in Block PROVE body(d, b) = Longest(d, Z, ReadArcs, FALSE, b)
    OBVIOUS
  <2>1. {e \in Arcs : e.read /\ e.tgt = b} = {e \in ReadArcs : e.tgt = b}
    BY DEF ReadArcs
  <2>2. (b \in Blocked \/ b \notin net.alg) <=> b \in Z
    OBVIOUS
  <2> HIDE DEF Z
  <2> QED BY <2>1, <2>2 DEF Longest
<1> HIDE DEF body, m, Z
<1>12. \A d : d = [b \in Block |-> body(d, b)] <=> IsLongest(d, Z, ReadArcs, FALSE)
  BY <1>11 DEF IsLongest
<1>13. IsLongest(D, Z, ReadArcs, FALSE)
  <2>1. PICK d \in [Block -> Nat] : IsLongest(d, Z, ReadArcs, FALSE)
    BY <1>10, LongestExists
  <2>2. d = [b \in Block |-> body(d, b)]
    BY <1>12, <2>1
  <2>3. D = [b \in Block |-> body(D, b)]
    BY <2>2
  <2> HIDE DEF D
  <2> QED BY <1>12, <2>3
<1>14. Depths(Blocked) = D
  BY DEF Depths, body
<1> HIDE DEF D
<1>15. D \in [Block -> Nat] /\ \A a \in ReadArcs : a.tgt \notin Z => D[a.src] < D[a.tgt]
  BY <1>10, <1>13, LongestIs
<1>16. \A a \in ReadArcs : a.tgt \notin Blocked => a.tgt \notin Z /\ a.src \notin Blocked
  BY <1>1, <1>4 DEF Z
<1>17. \A b \in Block : D[b] <= N
  BY <1>10, <1>13, <1>9, LongestBelow
<1> QED BY <1>14, <1>15, <1>16, <1>17

-----------------------------------------------------------------------------
(* The order of the loops *)

\* Picked keeps the items at the positions, in their order.
LEMMA NthIs ==
    ASSUME NEW n \in Nat, NEW P \in SUBSET (1 .. n)
    PROVE  /\ Cardinality(P) \in Nat
           /\ \A k \in 1 .. Cardinality(P) : Nth(P, k) \in P
           /\ \A i \in P : \E k \in 1 .. Cardinality(P) : Nth(P, k) = i
           /\ \A j, k \in 1 .. Cardinality(P) : Nth(P, j) <= Nth(P, k) => j <= k
<1>1. IsFiniteSet(P) /\ Cardinality(P) \in Nat
  <2>1. IsFiniteSet(1 .. n)
    BY FS_Interval
  <2> QED BY <2>1, FS_Subset, FS_CardinalityType
<1>0. \A i \in P : i \in Int
  OBVIOUS
<1>2. \A k \in 1 .. Cardinality(P) : Nth(P, k) \in P /\ Cardinality(UpTo(P, Nth(P, k))) = k
  BY NthExists
<1>3. ASSUME NEW i \in P, NEW j \in P, i <= j
      PROVE  Cardinality(UpTo(P, i)) <= Cardinality(UpTo(P, j))
  <2>1. UpTo(P, j) \in SUBSET P
    BY DEF UpTo
  <2>2. IsFiniteSet(UpTo(P, j))
    BY <1>1, <2>1, FS_Subset
  <2>0. i \in Int /\ j \in Int /\ \A p \in P : p <= i => p <= j
    BY <1>0, <1>3
  <2>3. UpTo(P, i) \in SUBSET UpTo(P, j)
    BY <2>0 DEF UpTo
  <2> QED BY <2>2, <2>3, FS_Subset
<1>4. ASSUME NEW i \in P, NEW j \in P, i < j
      PROVE  Cardinality(UpTo(P, i)) # Cardinality(UpTo(P, j))
  <2> SUFFICES ASSUME Cardinality(UpTo(P, i)) = Cardinality(UpTo(P, j)) PROVE FALSE
    OBVIOUS
  <2>0. i \in Int /\ j \in Int /\ \A p \in P : p <= i => p <= j
    BY <1>0, <1>4
  <2>1. UpTo(P, i) \in SUBSET UpTo(P, j)
    BY <2>0 DEF UpTo
  <2>2. UpTo(P, j) \in SUBSET P
    BY DEF UpTo
  <2>3. IsFiniteSet(UpTo(P, j))
    BY <1>1, <2>2, FS_Subset
  <2>4. UpTo(P, i) = UpTo(P, j)
    BY <1>4, <2>1, <2>3, FS_Subset
  <2>5. j \in UpTo(P, j) /\ j \notin UpTo(P, i)
    BY <1>0, <1>4 DEF UpTo
  <2> QED BY <2>4, <2>5
<1>5. ASSUME NEW i \in P PROVE \E k \in 1 .. Cardinality(P) : Nth(P, k) = i
  <2> DEFINE k == Cardinality(UpTo(P, i))
  <2>1. UpTo(P, i) \in SUBSET P /\ i \in UpTo(P, i)
    BY DEF UpTo
  <2>2. IsFiniteSet(UpTo(P, i)) /\ k <= Cardinality(P) /\ k \in Nat
    BY <1>1, <2>1, FS_Subset, FS_CardinalityType
  <2>3. k # 0
    BY <2>1, <2>2, FS_EmptySet
  <2>4. k \in 1 .. Cardinality(P)
    BY <1>1, <2>2, <2>3
  <2>5. Nth(P, k) \in P /\ Cardinality(UpTo(P, Nth(P, k))) = Cardinality(UpTo(P, i))
    BY <1>2, <2>4
  <2> HIDE DEF k
  <2>6. ~(Nth(P, k) < i) /\ ~(i < Nth(P, k))
    BY <1>4, <2>5
  <2>7. Nth(P, k) \in Int /\ i \in Int
    BY <1>0, <2>5
  <2>8. Nth(P, k) = i
    BY <2>6, <2>7
  <2> QED BY <2>4, <2>8
<1>6. ASSUME NEW j \in 1 .. Cardinality(P), NEW k \in 1 .. Cardinality(P), Nth(P, j) <= Nth(P, k)
      PROVE  j <= k
  <2>1. Nth(P, j) \in P /\ Nth(P, k) \in P
    BY <1>2
  <2>2. Cardinality(UpTo(P, Nth(P, j))) <= Cardinality(UpTo(P, Nth(P, k)))
    BY <1>3, <1>6, <2>1
  <2> QED BY <1>2, <2>2
<1> QED BY <1>1, <1>2, <1>5, <1>6

LEMMA PickedIs ==
    ASSUME NEW l, NEW P, Cardinality(P) \in Nat
    PROVE  /\ DOMAIN Picked(l, P) = 1 .. Cardinality(P)
           /\ Len(Picked(l, P)) = Cardinality(P)
           /\ \A k \in 1 .. Cardinality(P) : Picked(l, P)[k] = l[Nth(P, k)]
BY DEF Picked

\* find_sccs: the graph has every arc between the blocks it is for.
LEMMA ArcsInGraph ==
    ASSUME net \in Nets, NEW S, NEW a \in Arcs, a.src \in S, a.tgt \in S
    PROVE  \E k \in DOMAIN Succ(S)[a.src] : Succ(S)[a.src][k] = a.tgt
<1> DEFINE targets == [i \in DOMAIN net.arcs |-> net.arcs[i].tgt]
           from(b) == {i \in DOMAIN net.arcs : net.arcs[i].src = b /\ net.arcs[i].tgt \in S /\ First(i)}
           alike == {i \in DOMAIN net.arcs : net.arcs[i].src = a.src /\ net.arcs[i].tgt = a.tgt}
<1>1. Len(net.arcs) \in Nat /\ DOMAIN net.arcs = 1 .. Len(net.arcs) /\ a.src \in Block
  BY NetAssumption, SeqFacts, ArcsFinite
<1>2. alike \in SUBSET Nat /\ alike # {}
  BY <1>1 DEF Arcs, ToSet
<1>3. PICK i \in alike : \A j \in alike : i <= j
  <2> HIDE DEF alike
  <2> QED BY <1>2, LeastNat
<1>4. First(i)
  <2> SUFFICES ASSUME NEW k \in 1 .. (i - 1),
                      <<net.arcs[k].src, net.arcs[k].tgt>> = <<net.arcs[i].src, net.arcs[i].tgt>>
               PROVE  FALSE
    BY DEF First
  <2>1. i \in 1 .. Len(net.arcs) /\ k \in 1 .. Len(net.arcs) /\ k < i
    BY <1>1
  <2>2. k \in alike
    BY <1>1, <2>1
  <2> QED BY <1>3, <2>1, <2>2
<1>5. i \in from(a.src) /\ targets[i] = a.tgt
  BY <1>3, <1>4
<1>6. from(a.src) \in SUBSET (1 .. Len(net.arcs))
  BY <1>1
<1>7. Succ(S)[a.src] = Picked(targets, from(a.src))
  BY <1>1 DEF Succ
<1> HIDE DEF from, targets
<1>8. PICK k \in 1 .. Cardinality(from(a.src)) : Nth(from(a.src), k) = i
  BY <1>1, <1>5, <1>6, NthIs
<1>9. Cardinality(from(a.src)) \in Nat
  BY <1>1, <1>6, NthIs
<1>10. k \in DOMAIN Picked(targets, from(a.src)) /\ Picked(targets, from(a.src))[k] = targets[i]
  BY <1>8, <1>9, PickedIs
<1> QED BY <1>5, <1>7, <1>10

\* What is on a cycle is in the blocked part: the other blocks have no arcs here.
LEMMA CyclesAreBlocked ==
    ASSUME net \in Nets, TarjanInv, Unrepeated, adj = Succ(Blocked),
           NEW i \in DOMAIN sccs, IsCycle(sccs[i])
    PROVE  ToSet(sccs[i]) \subseteq Blocked
<1> SUFFICES ASSUME NEW b \in ToSet(sccs[i]), b \notin Blocked PROVE FALSE
  OBVIOUS
<1>1. sccs[i] \in Seq(Block) /\ Len(sccs[i]) \in Nat /\ DOMAIN sccs[i] = 1 .. Len(sccs[i])
      /\ \A k \in 1 .. Len(sccs[i]) : sccs[i][k] \in Block
  <2>1. sccs[i] \in Seq(Block)
    BY SeqFacts DEF TarjanInv, CycleTypes
  <2> QED BY <2>1, SeqFacts
<1>2. ToSet(sccs[i]) = {sccs[i][k] : k \in 1 .. Len(sccs[i])}
  BY <1>1 DEF ToSet
<1>3. b \in Block
  BY <1>1, <1>2
<1>4. adj[b] = <<>>
  BY <1>3 DEF Succ
<1>5. ClosedIn(adj, {b})
  BY <1>4 DEF ClosedIn
<1>6. \A w : Reaches(adj, b, w) => w = b
  BY <1>3, <1>5 DEF Reaches
<1>7. PICK v \in Block : ToSet(sccs[i]) = {w \in Block : Reaches(adj, v, w) /\ Reaches(adj, w, v)}
  BY DEF TarjanInv, Shape
<1>8. v = b
  BY <1>6, <1>7
<1>9. \A w \in ToSet(sccs[i]) : w = b
  BY <1>6, <1>7, <1>8
<1>10. Len(sccs[i]) # 0
  BY <1>1, <1>2
<1>11. \A k \in 1 .. Len(sccs[i]) : sccs[i][k] = b
  BY <1>2, <1>9
<1>12. Len(sccs[i]) = 1
  <2>1. CASE Len(sccs[i]) > 1
    <3>1. 1 \in 1 .. Len(sccs[i]) /\ 2 \in 1 .. Len(sccs[i])
      BY <1>1, <2>1
    <3>2. sccs[i][1] = sccs[i][2]
      BY <1>11, <3>1
    <3>3. 1 = 2
      BY <1>1, <3>1, <3>2 DEF Unrepeated
    <3> QED BY <3>3
  <2> QED BY <1>1, <1>10, <2>1
<1>13. sccs[i][1] = b
  BY <1>11, <1>12
<1>14. b \in ToSet(adj[b])
  BY <1>12, <1>13 DEF IsCycle
<1> QED BY <1>4, <1>14 DEF ToSet

\* A component is a stretch of the stack, which holds no block twice.
LEMMA UnrepeatedStep == ASSUME TarjanInv, Unrepeated, T!Next PROVE Unrepeated'
<1>1. CASE T!Start \/ T!PreVisit \/ T!Descend \/ T!Link \/ T!Leave
  <2>1. sccs' = sccs
    BY <1>1 DEF T!Start, T!PreVisit, T!Descend, T!Link, T!Leave
  <2> QED BY <2>1 DEF Unrepeated
<1>2. CASE T!Close
  <2>1. PICK top, v : GoesBack(top, v) /\ T!Top[1] = v
    BY <1>2, GoingBack DEF T!Close
  <2>2. v \in Stacked /\ sccs' = Append(sccs, T!Component(v)) /\ sccs \in Seq(Seq(Block))
    BY <1>2, <2>1 DEF GoesBack, T!Close, TarjanInv, CycleTypes
  <2>3. /\ T!Component(v) \in Seq(Block)
        /\ \A i, j \in DOMAIN T!Component(v) : T!Component(v)[i] = T!Component(v)[j] => i = j
    BY <2>2, Popping
  <2>4. /\ DOMAIN sccs' = (DOMAIN sccs) \cup {Len(sccs) + 1}
        /\ \A i \in DOMAIN sccs : sccs'[i] = sccs[i]
        /\ sccs'[Len(sccs) + 1] = T!Component(v)
    BY <2>2, <2>3
  <2> QED BY <2>3, <2>4 DEF Unrepeated
<1> QED BY <1>1, <1>2 DEF T!Next

\* Components are closed downstream first and Picked keeps their order.
LEMMA CyclesAreOrdered ==
    ASSUME net \in Nets, TarjanInv, Unrepeated, adj = Succ(Blocked)
    PROVE  CyclesOrdered
<1> DEFINE P == {i \in DOMAIN sccs : IsCycle(sccs[i])}
           K == Cardinality(P)
<1>1. sccs \in Seq(Seq(Block)) /\ Len(sccs) \in Nat /\ DOMAIN sccs = 1 .. Len(sccs)
  BY SeqFacts DEF TarjanInv, CycleTypes
<1>2. P \in SUBSET (1 .. Len(sccs)) /\ P \in SUBSET DOMAIN sccs
  BY <1>1
<1>3. /\ K \in Nat
      /\ \A k \in 1 .. K : Nth(P, k) \in P
      /\ \A j, k \in 1 .. K : Nth(P, j) <= Nth(P, k) => j <= k
  <2> HIDE DEF P
  <2> QED BY <1>1, <1>2, NthIs
<1>4. Cycles \in Seq(Seq(Block))
  <2>1. Picked(sccs, P) \in Seq(Seq(Block))
    <3> HIDE DEF P
    <3> QED BY <1>1, <1>2, PickedType
  <2> QED BY <2>1 DEF Cycles
<1>5. DOMAIN Cycles = 1 .. K /\ \A k \in 1 .. K : Cycles[k] = sccs[Nth(P, k)]
  <2>1. Cycles = Picked(sccs, P)
    BY DEF Cycles
  <2> HIDE DEF P
  <2> QED BY <1>3, <2>1, PickedIs
<1>6. \A i, j \in DOMAIN sccs : i # j => ToSet(sccs[i]) \cap ToSet(sccs[j]) = {}
  BY DEF TarjanInv, Apart
<1>7. \A k \in 1 .. K : Nth(P, k) \in DOMAIN sccs /\ IsCycle(sccs[Nth(P, k)]) /\ Nth(P, k) \in Nat
  BY <1>1, <1>3
<1> HIDE DEF P, K
<1>8. ASSUME NEW i \in 1 .. K, NEW j \in 1 .. K, i # j
      PROVE  ToSet(Cycles[i]) \cap ToSet(Cycles[j]) = {}
  <2>1. Nth(P, i) # Nth(P, j)
    BY <1>3, <1>7, <1>8
  <2> QED BY <1>5, <1>6, <1>7, <2>1
<1>9. ASSUME NEW a \in Arcs, NEW i \in 1 .. K, NEW j \in 1 .. K,
             a.src \in ToSet(Cycles[j]), a.tgt \in ToSet(Cycles[i])
      PROVE  i <= j
  <2>1. a.src \in Blocked /\ a.tgt \in Blocked
    BY <1>5, <1>7, <1>9, CyclesAreBlocked
  <2>2. PICK k \in DOMAIN adj[a.src] : adj[a.src][k] = a.tgt
    BY <2>1, ArcsInGraph
  <2>3. PICK m \in 1 .. Nth(P, j) : a.tgt \in ToSet(sccs[m])
    BY <1>5, <1>7, <1>9, <2>2 DEF TarjanInv, Order
  <2>4. m \in DOMAIN sccs
    BY <1>1, <1>7
  <2>5. m = Nth(P, i)
    BY <1>5, <1>6, <1>7, <1>9, <2>3, <2>4
  <2> QED BY <1>3, <1>7, <2>3, <2>5
<1>10. ASSUME NEW i \in 1 .. K PROVE ToSet(Cycles[i]) # {}
  <2>1. PICK v \in Block : ToSet(Cycles[i]) = {w \in Block : Reaches(adj, v, w) /\ Reaches(adj, w, v)}
    BY <1>5, <1>7 DEF TarjanInv, Shape
  <2> QED BY <2>1, ReachesSelf
<1> QED BY <1>4, <1>5, <1>8, <1>9, <1>10 DEF CyclesOrdered

-----------------------------------------------------------------------------
(* Layers *)

\* The layers of a loop: without the torn connections every arc inside goes to
\* a later layer.
LEMMA LocalDepthsAre ==
    ASSUME net \in Nets, TearingInv, tearing = "done", NEW h \in Seq(Block), size = Len(h), arcs = LocalArcs(h)
    PROVE  /\ LocalDepths(ToSet(h)) \in [ToSet(h) -> Nat]
           /\ \A a \in Inside(ToSet(h)) :
                 a.conn \notin E!Torn => LocalDepths(ToSet(h))[a.src] < LocalDepths(ToSet(h))[a.tgt]
<1> DEFINE l == ToSet(h)
           at(b) == CHOOSE i \in DOMAIN h : h[i] = b
           A == {e \in Inside(l) : e.conn \notin E!Torn}
           m == [b \in Block |-> IF b \in l THEN pos[at(b)] ELSE 0]
           body(f, b) == Max({0} \cup {f[a.src] + 1 : a \in {e \in Inside(l) : e.tgt = b /\ e.conn \notin E!Torn}})
           D == CHOOSE f : f = [b \in Block |-> body(f, b)]
<1>1. /\ removed = E!Block /\ pos \in [E!Block -> Int] /\ size \in Nat /\ left \in Nat /\ right \in Int
      /\ right <= size /\ E!Block = 1 .. size
  BY DEF TearingInv, TearingTypes, E!Block
<1>2. /\ \A v, w \in removed : pos[v] = pos[w] => v = w
      /\ \A v \in removed : pos[v] \in (0 .. (left - 1)) \cup (right .. (size - 1))
      /\ right - left = Cardinality(E!Live)
  BY SameOperators DEF TearingInv, E!OrderIsLinear
<1>3. right = left
  <2>1. E!Live = {}
    BY <1>1 DEF E!Live
  <2> QED BY <1>1, <1>2, <2>1, FS_EmptySet
<1>4. ASSUME NEW v \in 1 .. size PROVE pos[v] \in 0 .. size
  <2>1. pos[v] \in (0 .. (left - 1)) \cup (right .. (size - 1))
    BY <1>1, <1>2
  <2> QED BY <1>1, <1>3, <2>1
<1>5. DOMAIN h = 1 .. Len(h) /\ l \subseteq Block
  <2>1. DOMAIN h = 1 .. Len(h) /\ \A i \in 1 .. Len(h) : h[i] \in Block
    BY SeqFacts
  <2> QED BY <2>1 DEF ToSet
<1>6. \A b \in l : at(b) \in 1 .. size
  BY <1>5 DEF ToSet
<1>7. \A a \in Inside(l) : a \in Arcs /\ a.src \in l /\ a.tgt \in l /\ <<at(a.src), at(a.tgt), a.conn>> \in arcs
  BY DEF LocalArcs, Inside
<1> HIDE DEF l, at
<1>8. m \in [Block -> 0 .. size]
  BY <1>1, <1>4, <1>6
<1>9. ASSUME NEW a \in A PROVE m[a.src] < m[a.tgt]
  <2> DEFINE e == <<at(a.src), at(a.tgt), a.conn>>
  <2>1. e \in arcs /\ e[3] \notin E!Torn /\ e[1] = at(a.src) /\ e[2] = at(a.tgt) /\ a.src \in l /\ a.tgt \in l
    BY <1>7
  <2>2. e[1] # e[2] /\ ~(pos[e[1]] > pos[e[2]])
    <3> HIDE DEF e
    <3> QED BY <2>1 DEF E!Torn
  <2>3. at(a.src) \in removed /\ at(a.tgt) \in removed
    BY <1>1, <1>6, <2>1
  <2>4. pos[at(a.src)] # pos[at(a.tgt)]
    BY <1>2, <2>1, <2>2, <2>3
  <2>5. pos[at(a.src)] \in Int /\ pos[at(a.tgt)] \in Int
    BY <1>1, <2>3
  <2>6. m[a.src] = pos[at(a.src)] /\ m[a.tgt] = pos[at(a.tgt)]
    BY <1>5, <2>1
  <2> QED BY <2>1, <2>2, <2>4, <2>5, <2>6
<1>10. IsFiniteSet(A) /\ \A a \in A : a.src \in Block /\ a.tgt \in Block
  <2>1. A \in SUBSET Arcs
    BY <1>7
  <2> QED BY <2>1, ArcsFinite, FS_Subset
<1>11. Graded({}, A, size, m)
  <2> HIDE DEF m, A
  <2> QED BY <1>1, <1>8, <1>9, <1>10 DEF Graded
<1>12. \A f : \A b \in Block : body(f, b) = Longest(f, {}, A, TRUE, b)
  <2> SUFFICES ASSUME NEW f, NEW b \in Block PROVE body(f, b) = Longest(f, {}, A, TRUE, b)
    OBVIOUS
  <2>1. {e \in Inside(l) : e.tgt = b /\ e.conn \notin E!Torn} = {e \in A : e.tgt = b}
    OBVIOUS
  <2> HIDE DEF A
  <2> QED BY <2>1 DEF Longest
<1>13. \A f : f = [b \in Block |-> body(f, b)] <=> IsLongest(f, {}, A, TRUE)
  <2> HIDE DEF body, A
  <2> QED BY <1>12 DEF IsLongest
<1>14. IsLongest(D, {}, A, TRUE)
  <2>1. PICK d \in [Block -> Nat] : IsLongest(d, {}, A, TRUE)
    <3> HIDE DEF m, A
    <3> QED BY <1>11, LongestExists
  <2>2. d = [b \in Block |-> body(d, b)]
    <3> HIDE DEF body, A
    <3> QED BY <1>13, <2>1
  <2>3. D = [b \in Block |-> body(D, b)]
    <3> HIDE DEF body
    <3> QED BY <2>2
  <2> HIDE DEF D, body, A
  <2> QED BY <1>13, <2>3
<1>15. D \in [Block -> Nat] /\ \A a \in A : D[a.src] < D[a.tgt]
  <2> HIDE DEF m, A, D
  <2> DEFINE Z == {}
  <2>1. Graded(Z, A, size, m) /\ IsLongest(D, Z, A, TRUE)
    BY <1>11, <1>14
  <2> HIDE DEF Z
  <2>2. D \in [Block -> Nat] /\ \A a \in A : a.tgt \notin Z => D[a.src] < D[a.tgt]
    BY <2>1, LongestIs
  <2> QED BY <2>2 DEF Z
<1>16. LocalDepths(l) = [b \in l |-> D[b]]
  BY DEF LocalDepths
<1> HIDE DEF D
<1> QED BY <1>5, <1>7, <1>15, <1>16 DEF l

\* The layout is a matter of the diagram and the components.
LEMMA LayoutStays ==
    ASSUME UNCHANGED <<net, dag, open, loop, loops, torn, adj, sccs>>
    PROVE  /\ Arcs' = Arcs /\ Cycles' = Cycles /\ DagPart' = DagPart /\ LoopPart' = LoopPart /\ Scheduled' = Scheduled
           /\ DagLayered' = DagLayered /\ CyclesOrdered' = CyclesOrdered /\ LoopsLayered' = LoopsLayered
           /\ \A n, t : DagBelow(n)' = DagBelow(n) /\ LastLoops(t)' = LastLoops(t) /\ Coming(t, n)' = Coming(t, n)
<1>1. Arcs' = Arcs /\ Cycles' = Cycles /\ DagPart' = DagPart /\ LoopPart' = LoopPart /\ Scheduled' = Scheduled
  BY DEF Arcs, Cycles, IsCycle, DagPart, LoopPart, Scheduled
<1>2. DagLayered' = DagLayered /\ CyclesOrdered' = CyclesOrdered /\ LoopsLayered' = LoopsLayered
  <2>1. Connections' = Connections
    BY DEF Connections, Arcs
  <2>2. DagLayered' = DagLayered
    BY <1>1 DEF DagLayered
  <2>3. CyclesOrdered' = CyclesOrdered
    BY <1>1 DEF CyclesOrdered
  <2>4. LoopsLayered' = LoopsLayered
    BY <1>1, <2>1 DEF LoopsLayered
  <2> QED BY <2>2, <2>3, <2>4
<1>3. \A n, t : DagBelow(n)' = DagBelow(n) /\ LastLoops(t)' = LastLoops(t) /\ Coming(t, n)' = Coming(t, n)
  BY <1>1 DEF DagBelow, LastLoops, Coming
<1> QED BY <1>1, <1>2, <1>3

\* Layer puts every block of the DAG part below all it reads.
LEMMA LayerLayers ==
    ASSUME net \in Nets, Layer
    PROVE  DagLayered'
<1> DEFINE d == Depths(Blocked)
<1>1. dag' = [k \in 0 .. N |-> {b \in Block \ Blocked : d[b] = k}] /\ net' = net
  BY DEF Layer
<1>2. d \in [Block -> Nat] /\ \A a \in ReadArcs : a.tgt \notin Blocked => a.src \notin Blocked /\ d[a.src] < d[a.tgt]
  BY DepthsAre
<1>3. Arcs' = Arcs /\ N \in Nat /\ \A a \in Arcs : a.src \in Block
  BY <1>1, ArcsFinite, NetAssumption DEF Arcs
<1> HIDE DEF d
<1>4. DOMAIN dag' = 0 .. N /\ \A k \in 0 .. N : dag'[k] = {b \in Block \ Blocked : d[b] = k}
  BY <1>1
<1>5. ASSUME NEW a \in Arcs, NEW k \in 0 .. N, a.read, a.tgt \in dag'[k]
      PROVE  \E m \in 0 .. (k - 1) : a.src \in dag'[m]
  <2>1. a.tgt \notin Blocked /\ d[a.tgt] = k /\ a \in ReadArcs
    BY <1>4, <1>5 DEF ReadArcs
  <2>2. a.src \notin Blocked /\ d[a.src] < k /\ d[a.src] \in Nat /\ a.src \in Block
    BY <1>2, <1>3, <2>1
  <2>3. d[a.src] \in 0 .. (k - 1) /\ d[a.src] \in 0 .. N
    BY <1>3, <2>2
  <2>4. a.src \in dag'[d[a.src]]
    BY <1>4, <2>2, <2>3
  <2> QED BY <2>3, <2>4
<1> QED BY <1>3, <1>4, <1>5 DEF DagLayered

LEMMA ConcatIs ==
    ASSUME NEW S, NEW s \in Seq(S), NEW t \in Seq(S)
    PROVE  /\ s \o t \in Seq(S) /\ DOMAIN (s \o t) = 1 .. (Len(s) + Len(t))
           /\ Len(s) \in Nat /\ Len(t) \in Nat /\ DOMAIN s = 1 .. Len(s)
           /\ \A k \in 1 .. Len(s) : (s \o t)[k] = s[k]
           /\ \A k \in (Len(s) + 1) .. (Len(s) + Len(t)) : (s \o t)[k] = t[k - Len(s)]
OBVIOUS

\* A loop is placed above the blocks placed before, its layers in order.
LEMMA PlacesLoop ==
    ASSUME net \in Nets, CyclesOrdered, LoopsLayered, TearingInv, open \in Seq(Seq(Block)), PlaceLoop,
           size = Len(Head(open)), arcs = LocalArcs(Head(open)), open # <<>>
    PROVE  LoopsLayered' /\ LoopPart' = LoopPart \cup ToSet(Head(open))
<1> DEFINE h == Head(open)
           l == ToSet(h)
           d == LocalDepths(l)
           top == Max({d[b] : b \in l})
           layers == [k \in 1 .. (top + 1) |-> {b \in l : d[b] = k - 1}]
<1>1. /\ tearing = "done" /\ loop' = loop \o layers /\ torn' = torn \cup E!Torn /\ open' = Tail(open)
      /\ loops' = loops + 1 /\ UNCHANGED <<net, dag, adj, sccs>>
  BY DEF PlaceLoop, cycleSearch
<1>2. Cycles' = Cycles /\ Arcs' = Arcs
  BY <1>1 DEF Cycles, IsCycle, Arcs
<1>3. h \in Seq(Block)
  OBVIOUS
<1>4. /\ d \in [l -> Nat]
      /\ \A a \in Inside(l) : a.conn \notin E!Torn => d[a.src] < d[a.tgt]
  BY <1>1, <1>3, LocalDepthsAre
<1>5. /\ loop \in Seq(SUBSET Block) /\ loops \in 0 .. Len(Cycles) /\ Cycles \in Seq(Seq(Block))
      /\ open = SubSeq(Cycles, loops + 1, Len(Cycles)) /\ Len(Cycles) \in Nat /\ DOMAIN Cycles = 1 .. Len(Cycles)
  BY SeqFacts DEF LoopsLayered, CyclesOrdered
<1>6. /\ loops + 1 \in 1 .. Len(Cycles) /\ h = Cycles[loops + 1]
      /\ Tail(open) = SubSeq(Cycles, loops + 2, Len(Cycles))
  <2>1. loops + 1 <= Len(Cycles)
    BY <1>5
  <2> QED BY <1>5, <2>1
<1>7. l # {} /\ l \subseteq Block
  <2>1. l # {}
    BY <1>5, <1>6 DEF CyclesOrdered
  <2>2. DOMAIN h = 1 .. Len(h) /\ \A i \in 1 .. Len(h) : h[i] \in Block
    BY <1>3, SeqFacts
  <2> QED BY <2>1, <2>2 DEF ToSet
<1> HIDE DEF l, h, d
<1>8. top \in Nat /\ \A b \in l : d[b] <= top
  <2> DEFINE ends == {d[b] : b \in l}
             g == [b \in l |-> d[b]]
  <2>1. ends \in SUBSET Nat /\ ends # {}
    BY <1>4, <1>7
  <2>2. g \in Surjection(l, ends)
    BY DEF Surjection
  <2>3. IsFiniteSet(l)
    <3>1. IsFiniteSet(Block)
      BY NetAssumption, FS_Interval DEF Block
    <3> QED BY <1>7, <3>1, FS_Subset
  <2>4. IsFiniteSet(ends)
    <3> HIDE DEF ends, g
    <3> QED BY <2>2, <2>3, FS_Surjection
  <2> HIDE DEF ends
  <2>5. Max(ends) \in Nat /\ \A y \in ends : y <= Max(ends)
    BY <2>1, <2>4, MaxIs
  <2>6. \A b \in l : d[b] \in ends
    BY DEF ends
  <2>7. top = Max(ends)
    BY DEF ends
  <2> QED BY <2>5, <2>6, <2>7
<1> HIDE DEF top
<1>9. layers \in Seq(SUBSET Block) /\ Len(layers) = top + 1
      /\ \A k \in 1 .. (top + 1) : layers[k] = {b \in l : d[b] = k - 1}
  BY <1>7, <1>8
<1> HIDE DEF layers
<1>10. /\ loop' \in Seq(SUBSET Block) /\ DOMAIN loop' = 1 .. (Len(loop) + (top + 1))
       /\ Len(loop) \in Nat /\ DOMAIN loop = 1 .. Len(loop)
       /\ \A k \in 1 .. Len(loop) : loop'[k] = loop[k]
       /\ \A k \in (Len(loop) + 1) .. (Len(loop) + (top + 1)) : loop'[k] = layers[k - Len(loop)]
  <2> DEFINE S == SUBSET Block
  <2>1. loop \in Seq(S) /\ layers \in Seq(S) /\ loop' = loop \o layers /\ Len(layers) = top + 1
    BY <1>1, <1>5, <1>9
  <2> HIDE DEF S
  <2>2. /\ loop \o layers \in Seq(S) /\ DOMAIN (loop \o layers) = 1 .. (Len(loop) + Len(layers))
        /\ Len(loop) \in Nat /\ DOMAIN loop = 1 .. Len(loop)
        /\ \A k \in 1 .. Len(loop) : (loop \o layers)[k] = loop[k]
        /\ \A k \in (Len(loop) + 1) .. (Len(loop) + Len(layers)) : (loop \o layers)[k] = layers[k - Len(loop)]
    BY <2>1, ConcatIs
  <2> QED BY <2>1, <2>2 DEF S
<1>11. ASSUME NEW k \in DOMAIN loop', k \notin DOMAIN loop
       PROVE  k \in Int /\ k > Len(loop) /\ loop'[k] = {b \in l : d[b] = k - Len(loop) - 1}
  <2>1. k \in (Len(loop) + 1) .. (Len(loop) + (top + 1)) /\ k - Len(loop) \in 1 .. (top + 1)
    BY <1>8, <1>10, <1>11
  <2> QED BY <1>9, <1>10, <2>1
<1>12. ASSUME NEW k \in DOMAIN loop PROVE k \in Int /\ k <= Len(loop) /\ loop'[k] = loop[k] /\ k \in DOMAIN loop'
  BY <1>8, <1>10, <1>12
<1>13. ASSUME NEW k \in DOMAIN loop' PROVE loop'[k] \subseteq UNION {ToSet(Cycles[j]) : j \in 1 .. (loops + 1)}
  <2>1. CASE k \in DOMAIN loop
    <3>1. loop[k] \subseteq UNION {ToSet(Cycles[j]) : j \in 1 .. loops}
      BY <2>1 DEF LoopsLayered
    <3>2. 1 .. loops \subseteq 1 .. (loops + 1)
      BY <1>5
    <3> QED BY <1>12, <2>1, <3>1, <3>2
  <2>2. CASE k \notin DOMAIN loop
    <3>1. loop'[k] \subseteq ToSet(Cycles[loops + 1])
      BY <1>6, <1>11, <2>2 DEF l, h
    <3>2. loops + 1 \in 1 .. (loops + 1)
      BY <1>5
    <3> QED BY <3>1, <3>2
  <2> QED BY <2>1, <2>2
<1>14. \A j \in 1 .. loops : ToSet(Cycles[j]) \cap l = {}
  <2>1. \A j \in 1 .. loops : j \in DOMAIN Cycles /\ loops + 1 \in DOMAIN Cycles /\ j # loops + 1
    BY <1>5, <1>6
  <2> QED BY <1>6, <2>1 DEF CyclesOrdered, l, h
<1>15. ASSUME NEW a \in Arcs, NEW j \in 1 .. (loops + 1), NEW m \in DOMAIN loop', NEW k \in DOMAIN loop',
              a.src \in loop'[m] \cap ToSet(Cycles[j]), a.tgt \in loop'[k] \cap ToSet(Cycles[j]),
              a.conn \notin torn \cup E!Torn
       PROVE  m < k
  <2>1. CASE j \in 1 .. loops
    <3>1. m \in DOMAIN loop /\ k \in DOMAIN loop
      BY <1>11, <1>14, <1>15, <2>1
    <3> QED BY <1>12, <1>15, <2>1, <3>1 DEF LoopsLayered
  <2>2. CASE j = loops + 1
    <3>1. a.src \in l /\ a.tgt \in l
      BY <1>6, <1>15, <2>2 DEF l, h
    <3>2. \A p \in DOMAIN loop : loop[p] \cap l = {}
      BY <1>14 DEF LoopsLayered
    <3>3. m \notin DOMAIN loop /\ k \notin DOMAIN loop
      BY <1>12, <1>15, <3>1, <3>2
    <3>4. d[a.src] = m - Len(loop) - 1 /\ d[a.tgt] = k - Len(loop) - 1 /\ m \in Int /\ k \in Int
      BY <1>11, <1>15, <3>3
    <3>5. d[a.src] < d[a.tgt]
      BY <1>4, <1>15, <3>1 DEF Inside
    <3> QED BY <1>10, <3>4, <3>5
  <2> QED BY <1>5, <2>1, <2>2
<1>16. loops + 1 \in 0 .. Len(Cycles) /\ Tail(open) = SubSeq(Cycles, (loops + 1) + 1, Len(Cycles))
  BY <1>5, <1>6
<1>17. \A k \in DOMAIN loop' : loop'[k] \subseteq UNION {ToSet(Cycles'[j]) : j \in 1 .. loops'}
  BY <1>1, <1>2, <1>13
<1>18. \A a \in Arcs' : \A j \in 1 .. loops' : \A m, k \in DOMAIN loop' :
          a.src \in loop'[m] \cap ToSet(Cycles'[j]) /\ a.tgt \in loop'[k] \cap ToSet(Cycles'[j])
             => a.conn \in torn' \/ m < k
  BY <1>1, <1>2, <1>15
<1>19. loop' \in Seq(SUBSET Block) /\ loops' \in 0 .. Len(Cycles') /\ open' = SubSeq(Cycles', loops' + 1, Len(Cycles'))
  BY <1>1, <1>2, <1>10, <1>16
<1>20. torn' \subseteq Connections'
  <2>1. E!Torn \subseteq Connections
    <3>1. \A e \in arcs : e[3] \in Connections
      BY DEF LocalArcs, Inside, Connections
    <3> QED BY <3>1 DEF E!Torn
  <2> QED BY <1>1, <1>2, <2>1 DEF LoopsLayered, Connections
<1>21. LoopPart' = LoopPart \cup l
  <2>1. ASSUME NEW k \in DOMAIN loop', NEW b \in loop'[k] PROVE b \in LoopPart \cup l
    BY <1>11, <1>12, <2>1 DEF LoopPart
  <2>2. ASSUME NEW k \in DOMAIN loop, NEW b \in loop[k] PROVE k \in DOMAIN loop' /\ b \in loop'[k]
    BY <1>12, <2>2
  <2>3. ASSUME NEW b \in l PROVE \E k \in DOMAIN loop' : b \in loop'[k]
    <3> DEFINE k == Len(loop) + 1 + d[b]
    <3>1. d[b] \in Nat /\ d[b] <= top
      BY <1>4, <1>8
    <3>2. k \in DOMAIN loop' /\ k \notin DOMAIN loop /\ k - Len(loop) - 1 = d[b]
      BY <1>8, <1>10, <3>1
    <3> HIDE DEF k
    <3>3. loop'[k] = {c \in l : d[c] = k - Len(loop) - 1}
      BY <1>11, <3>2
    <3> QED BY <3>2, <3>3
  <2> QED BY <2>1, <2>2, <2>3 DEF LoopPart
<1> QED BY <1>17, <1>18, <1>19, <1>20, <1>21 DEF LoopsLayered, l, h

-----------------------------------------------------------------------------
(* One _update *)

\* A connection has one source; what a block reads comes over arcs to it.
LEMMA SourcesAre ==
    ASSUME net \in Nets
    PROVE  /\ \A a \in Arcs : SourceOf(a.conn) = a.src /\ a.conn \in Connections
           /\ \A c \in Connections : SourceOf(c) \in Block
           /\ \A b : \A c \in ReadBy(b) : c \in Connections
                 /\ \E a \in Arcs : a.conn = c /\ a.tgt = b /\ a.read /\ a.src = SourceOf(c)
<1>1. /\ \A a, e \in Arcs : a.conn = e.conn => a.src = e.src
      /\ \A a \in Arcs : a.src \in Block
  BY NetAssumption DEF Arcs
<1>2. \A a \in Arcs : SourceOf(a.conn) = a.src /\ a.conn \in Connections
  BY <1>1 DEF SourceOf, Connections
<1>3. \A c \in Connections : SourceOf(c) \in Block
  BY <1>1, <1>2 DEF Connections
<1>4. \A b : \A c \in ReadBy(b) : \E a \in Arcs : a.conn = c /\ a.tgt = b /\ a.read
  BY DEF ReadBy
<1>5. \A b : \A c \in ReadBy(b) : c \in Connections
                 /\ \E a \in Arcs : a.conn = c /\ a.tgt = b /\ a.read /\ a.src = SourceOf(c)
  BY <1>2, <1>4
<1> QED BY <1>2, <1>3, <1>5

\* Blocks that read from each other only, but for some connections W, stay up
\* to date whatever is evaluated.
LEMMA Stays ==
    ASSUME NEW B, NEW C, NEW good, Evaluate(B, C, good), net \in Nets,
           NEW W, carried \cup W \subseteq good,
           NEW Q, Q \subseteq fresh, FiredBy(Q) \subseteq carried \cup W,
           \A b \in Q : \A c \in ReadBy(b) : c \in W \/ SourceOf(c) \in Q
    PROVE  Q \subseteq fresh' /\ FiredBy(Q) \subseteq carried' \cup W
<1>1. ASSUME NEW b \in Q PROVE ReadBy(b) \subseteq good
  <2> SUFFICES ASSUME NEW c \in ReadBy(b), c \notin W PROVE c \in good
    OBVIOUS
  <2>1. SourceOf(c) \in Q /\ c \in Connections
    BY SourcesAre
  <2> QED BY <2>1 DEF FiredBy
<1>2. fresh' = (fresh \ B) \cup UpToDate(B, good) /\ carried' = (carried \ C) \cup {c \in C : SourceOf(c) \in fresh'}
  BY DEF Evaluate
<1>3. Q \subseteq fresh'
  BY <1>1, <1>2 DEF UpToDate
<1>4. ASSUME NEW c \in FiredBy(Q), c \notin W PROVE c \in carried'
  <2>1. c \in carried /\ SourceOf(c) \in fresh'
    BY <1>3, <1>4 DEF FiredBy
  <2> QED BY <1>2, <2>1
<1> QED BY <1>3, <1>4

\* Blocks that read what is good only are up to date when they are evaluated.
LEMMA Joins ==
    ASSUME NEW B, NEW C, NEW good, Evaluate(B, C, good), NEW W,
           NEW Q, Q \subseteq B, \A b \in Q : ReadBy(b) \subseteq good, FiredBy(B) \ W \subseteq C
    PROVE  Q \subseteq fresh' /\ FiredBy(Q) \subseteq carried' \cup W
<1>1. fresh' = (fresh \ B) \cup UpToDate(B, good) /\ carried' = (carried \ C) \cup {c \in C : SourceOf(c) \in fresh'}
  BY DEF Evaluate
<1>2. Q \subseteq fresh'
  BY <1>1 DEF UpToDate
<1>3. ASSUME NEW c \in FiredBy(Q), c \notin W PROVE c \in carried'
  <2>1. c \in C /\ SourceOf(c) \in fresh'
    BY <1>2, <1>3 DEF FiredBy
  <2> QED BY <1>1, <2>1
<1> QED BY <1>2, <1>3

LEMMA EvaluateTypes ==
    ASSUME NEW B, NEW C, NEW good, Evaluate(B, C, good), fresh \subseteq Block, carried \subseteq Connections,
           B \subseteq Block, C \subseteq Connections
    PROVE  fresh' \subseteq Block /\ carried' \subseteq Connections
BY DEF Evaluate, UpToDate

LEMMA FiredByParts ==
    ASSUME NEW P, NEW Q
    PROVE  /\ FiredBy(P \cup Q) = FiredBy(P) \cup FiredBy(Q)
           /\ P \subseteq Q => FiredBy(P) \subseteq FiredBy(Q)
           /\ FiredBy({}) = {} /\ FiredBy(P) \subseteq Connections
BY DEF FiredBy

\* The DAG part reads from itself, every depth from the depths before.
LEMMA DagReads ==
    ASSUME net \in Nets, DagLayered
    PROVE  /\ \A n \in Nat : \A b \in DagBelow(n + 1) : \A c \in ReadBy(b) : SourceOf(c) \in DagBelow(n)
           /\ \A b \in DagPart : \A c \in ReadBy(b) : SourceOf(c) \in DagPart
<1>0. N \in Nat
  BY NetAssumption
<1>1. ASSUME NEW k \in 0 .. N, NEW b \in dag[k], NEW c \in ReadBy(b)
      PROVE  \E m \in 0 .. (k - 1) : SourceOf(c) \in dag[m]
  <2>1. PICK a \in Arcs : a.conn = c /\ a.tgt = b /\ a.read /\ a.src = SourceOf(c)
    BY SourcesAre
  <2> QED BY <2>1 DEF DagLayered
<1>2. ASSUME NEW n \in Nat, NEW b \in DagBelow(n + 1), NEW c \in ReadBy(b) PROVE SourceOf(c) \in DagBelow(n)
  <2>1. PICK k \in 0 .. N : k < n + 1 /\ b \in dag[k]
    BY DEF DagBelow
  <2>2. PICK m \in 0 .. (k - 1) : SourceOf(c) \in dag[m]
    BY <1>1, <2>1
  <2>3. m \in 0 .. N /\ m < n
    BY <1>0, <2>1
  <2> QED BY <2>2, <2>3 DEF DagBelow
<1>3. ASSUME NEW b \in DagPart, NEW c \in ReadBy(b) PROVE SourceOf(c) \in DagPart
  <2>1. PICK k \in 0 .. N : b \in dag[k]
    BY DEF DagPart, DagLayered
  <2>2. PICK m \in 0 .. (k - 1) : SourceOf(c) \in dag[m]
    BY <1>1, <2>1
  <2>3. m \in DOMAIN dag
    BY <1>0 DEF DagLayered
  <2> QED BY <2>2, <2>3 DEF DagPart
<1> QED BY <1>2, <1>3

\* Where every block is scheduled, a block of a loop reads from the DAG part,
\* from the loops upstream, over a torn connection, or from a lower depth.
LEMMA LoopReads ==
    ASSUME net \in Nets, DagLayered, CyclesOrdered, LoopsLayered, loops = Len(Cycles), Scheduled = Block,
           NEW j \in DOMAIN Cycles, NEW k \in DOMAIN loop, NEW b \in loop[k] \cap ToSet(Cycles[j]),
           NEW c \in ReadBy(b)
    PROVE  \/ SourceOf(c) \in DagPart
           \/ \E i \in DOMAIN Cycles, m \in DOMAIN loop :
                 /\ SourceOf(c) \in loop[m] \cap ToSet(Cycles[i])
                 /\ j < i \/ (i = j /\ (c \in torn \/ m < k))
<1>1. PICK a \in Arcs : a.conn = c /\ a.tgt = b /\ a.read /\ a.src = SourceOf(c)
  BY SourcesAre
<1>2. a.src \in DagPart \/ \E m \in DOMAIN loop : a.src \in loop[m]
  <2>1. a.src \in Scheduled
    BY ArcsFinite
  <2> QED BY <2>1 DEF Scheduled, DagPart
<1>3. ASSUME NEW m \in DOMAIN loop, a.src \in loop[m]
      PROVE  \E i \in DOMAIN Cycles : a.src \in ToSet(Cycles[i]) /\ (j < i \/ (i = j /\ (c \in torn \/ m < k)))
  <2>1. Len(Cycles) \in Nat /\ DOMAIN Cycles = 1 .. Len(Cycles)
    BY SeqFacts DEF CyclesOrdered
  <2>2. PICK i \in 1 .. loops : a.src \in ToSet(Cycles[i])
    BY <1>3 DEF LoopsLayered
  <2>3. i \in DOMAIN Cycles /\ j \in 1 .. loops
    BY <2>1
  <2>4. j <= i
    BY <1>1, <2>2, <2>3 DEF CyclesOrdered
  <2>5. i = j => c \in torn \/ m < k
    BY <1>1, <1>3, <2>2, <2>3 DEF LoopsLayered
  <2> QED BY <2>1, <2>2, <2>3, <2>4, <2>5
<1> QED BY <1>1, <1>2, <1>3

\* The last t loops read from the DAG part and from each other only.
LEMMA TailReads ==
    ASSUME net \in Nets, DagLayered, CyclesOrdered, LoopsLayered, loops = Len(Cycles), Scheduled = Block,
           NEW t \in Nat
    PROVE  \A b \in DagPart \cup LastLoops(t) : \A c \in ReadBy(b) : SourceOf(c) \in DagPart \cup LastLoops(t)
<1> SUFFICES ASSUME NEW b \in LastLoops(t), NEW c \in ReadBy(b), SourceOf(c) \notin DagPart
             PROVE  SourceOf(c) \in LastLoops(t)
  BY DagReads
<1>1. PICK j \in DOMAIN Cycles, k \in DOMAIN loop :
         Len(Cycles) - t < j /\ b \in ToSet(Cycles[j]) /\ b \in loop[k]
  BY DEF LastLoops, LoopPart
<1>2. PICK i \in DOMAIN Cycles, m \in DOMAIN loop : SourceOf(c) \in loop[m] \cap ToSet(Cycles[i]) /\ (j < i \/ i = j)
  BY <1>1, LoopReads
<1>3. Len(Cycles) \in Nat /\ DOMAIN Cycles = 1 .. Len(Cycles)
  BY SeqFacts DEF CyclesOrdered
<1>4. Len(Cycles) - t < i
  BY <1>1, <1>2, <1>3
<1> QED BY <1>2, <1>4 DEF LastLoops, LoopPart

\* The loop before them reads from them, from the DAG part, over torn connections
\* and from its own lower depths.
LEMMA ComingReads ==
    ASSUME net \in Nets, DagLayered, CyclesOrdered, LoopsLayered, loops = Len(Cycles), Scheduled = Block,
           NEW t \in Nat, NEW n \in Nat, NEW b \in Coming(t, n + 1), NEW c \in ReadBy(b)
    PROVE  c \in torn \/ SourceOf(c) \in (DagPart \cup LastLoops(t)) \cup Coming(t, n)
<1> SUFFICES ASSUME c \notin torn, SourceOf(c) \notin DagPart
             PROVE  SourceOf(c) \in LastLoops(t) \cup Coming(t, n)
  OBVIOUS
<1>1. PICK j \in DOMAIN Cycles, k \in DOMAIN loop :
         /\ j = Len(Cycles) - t /\ k < n + 1
         /\ b \in ToSet(Cycles[j]) /\ b \in loop[k]
  BY DEF Coming
<1>2. PICK i \in DOMAIN Cycles, m \in DOMAIN loop :
         SourceOf(c) \in loop[m] \cap ToSet(Cycles[i]) /\ (j < i \/ (i = j /\ m < k))
  BY <1>1, LoopReads
<1>3. /\ Len(Cycles) \in Nat /\ DOMAIN Cycles = 1 .. Len(Cycles)
      /\ Len(loop) \in Nat /\ DOMAIN loop = 1 .. Len(loop)
  BY SeqFacts DEF CyclesOrdered, LoopsLayered
<1>4. CASE j < i
  <2>1. Len(Cycles) - t < i
    BY <1>1, <1>3, <1>4
  <2> QED BY <1>2, <2>1 DEF LastLoops, LoopPart
<1>5. CASE i = j /\ m < k
  <2>1. m < n
    BY <1>1, <1>3, <1>5
  <2> QED BY <1>1, <1>2, <1>5, <2>1 DEF Coming
<1> QED BY <1>2, <1>4, <1>5

\* What a step that leaves the layout alone keeps settled.
LEMMA SettledNext ==
    ASSUME UNCHANGED <<net, dag, open, loop, loops, torn, adj, sccs>>
    PROVE  /\ DagUpTo' <=> DagBelow(depth') \subseteq fresh' /\ FiredBy(DagBelow(depth')) \subseteq carried'
           /\ DagSettled' <=> DagPart \subseteq fresh' /\ FiredBy(DagPart) \subseteq carried'
           /\ TailSettled' <=>
                 (Scheduled = Block =>
                     /\ DagPart \cup LastLoops(iteration' - 1) \subseteq fresh'
                     /\ FiredBy(DagPart \cup LastLoops(iteration' - 1)) \subseteq carried'
                     /\ Coming(iteration' - 1, depth') \subseteq fresh'
                     /\ FiredBy(Coming(iteration' - 1, depth')) \subseteq carried' \cup torn)
           /\ LoopsSettle' <=>
                 (phase' = "done" /\ Scheduled = Block /\ iteration' >= loops => fresh' = Block /\ carried' = Connections)
<1>1. /\ Arcs' = Arcs /\ DagPart' = DagPart /\ Scheduled' = Scheduled
      /\ \A n, t : DagBelow(n)' = DagBelow(n) /\ LastLoops(t)' = LastLoops(t) /\ Coming(t, n)' = Coming(t, n)
  BY LayoutStays
<1>2. Connections' = Connections /\ \A c : SourceOf(c)' = SourceOf(c)
  BY <1>1 DEF Connections, SourceOf
<1>3. DagUpTo' <=> DagBelow(depth') \subseteq fresh' /\ FiredBy(DagBelow(depth')) \subseteq carried'
  <2>1. DagBelow(depth)' = DagBelow(depth')
    BY DEF DagBelow
  <2> QED BY <1>2, <2>1 DEF DagUpTo, Settled, FiredBy
<1>4. DagSettled' <=> DagPart \subseteq fresh' /\ FiredBy(DagPart) \subseteq carried'
  BY <1>1, <1>2 DEF DagSettled, Settled, FiredBy
<1>5. TailSettled' <=>
                 (Scheduled = Block =>
                     /\ DagPart \cup LastLoops(iteration' - 1) \subseteq fresh'
                     /\ FiredBy(DagPart \cup LastLoops(iteration' - 1)) \subseteq carried'
                     /\ Coming(iteration' - 1, depth') \subseteq fresh'
                     /\ FiredBy(Coming(iteration' - 1, depth')) \subseteq carried' \cup torn)
  <2>1. LastLoops(iteration - 1)' = LastLoops(iteration' - 1)
    BY LayoutStays DEF LastLoops
  <2>2. Coming(iteration - 1, depth)' = Coming(iteration' - 1, depth')
    BY LayoutStays DEF Coming
  <2> QED BY <1>1, <1>2, <2>1, <2>2 DEF TailSettled, Settled, FiredBy
<1>6. LoopsSettle' <=>
         (phase' = "done" /\ Scheduled = Block /\ iteration' >= loops => fresh' = Block /\ carried' = Connections)
  BY <1>1, <1>2 DEF LoopsSettle
<1> QED BY <1>3, <1>4, <1>5, <1>6

LEMMA GraphStays == ASSUME net' = net PROVE Blocked' = Blocked /\ Succ(Blocked)' = Succ(Blocked)
<1>1. {a \in Arcs : a.read}' = {a \in Arcs : a.read}
  BY DEF Arcs
<1>2. Blocked' = Blocked
  BY <1>1 DEF Blocked
<1>3. \A i : First(i)' = First(i)
  BY DEF First
<1> QED BY <1>2, <1>3 DEF Succ

LEMMA NoCycles == ASSUME sccs = <<>> PROVE Cycles = <<>>
<1> DEFINE P == {i \in DOMAIN sccs : IsCycle(sccs[i])}
<1>1. P = {}
  OBVIOUS
<1>2. Cardinality(P) = 0
  BY <1>1, FS_EmptySet
<1>3. Cycles = [k \in 1 .. 0 |-> sccs[Nth(P, k)]]
  BY <1>2 DEF Cycles, Picked
<1> QED BY <1>3

\* Before the first loop is placed.
LEMMA LoopsBegin ==
    ASSUME CyclesOrdered, loop = <<>>, loops = 0, torn = {}, open = Cycles
    PROVE  LoopsLayered
<1>1. Cycles \in Seq(Seq(Block)) /\ Len(Cycles) \in Nat
  BY SeqFacts DEF CyclesOrdered
<1>2. SubSeq(Cycles, 0 + 1, Len(Cycles)) = Cycles
  BY <1>1
<1> QED BY <1>1, <1>2 DEF LoopsLayered

\* Without a search there are no loops.
LEMMA NothingToLoop ==
    ASSUME sccs = <<>>, loop = <<>>, loops = 0, torn = {}, open = <<>>
    PROVE  CyclesOrdered /\ LoopsLayered /\ Len(Cycles) = 0
<1>1. Cycles = <<>>
  BY NoCycles
<1>2. CyclesOrdered
  BY <1>1 DEF CyclesOrdered
<1> QED BY <1>1, <1>2, LoopsBegin

LEMMA NothingBelow ==
    DagBelow(0) = {} /\ (DagLayered => \A n \in Nat : n > N => DagBelow(n) = DagPart)
BY NetAssumption DEF DagBelow, DagLayered, DagPart

-----------------------------------------------------------------------------
(* The steps keep UpdateInv *)

LEMMA UpdateInvInit == Init => UpdateInv
BY DEF Init, T!Init, E!Init, UpdateInv, Assembling, Evaluating

LEMMA LayerKeeps == ASSUME ScheduleInv, UpdateInv, Layer PROVE UpdateInv'
<1>1. /\ net \in Nets /\ phase = "layer" /\ UNCHANGED <<net, open, loop, loops, torn, depth, iteration, fresh, carried>>
      /\ fresh \subseteq Block /\ carried \subseteq Connections /\ depth = 0
      /\ loop = <<>> /\ loops = 0 /\ torn = {} /\ open = <<>> /\ sccs = <<>>
  BY DEF Layer, ScheduleInv, UpdateInv, values, Assembling
<1>2. DagLayered'
  BY <1>1, LayerLayers
<1>3. Connections' = Connections
  BY <1>1 DEF Connections, Arcs
<1>4. CASE Blocked = {}
  <2>1. phase' = "dag" /\ UNCHANGED cycleSearch
    BY <1>4 DEF Layer
  <2>2. sccs' = <<>> /\ loop' = <<>> /\ loops' = 0 /\ torn' = {} /\ open' = <<>> /\ depth' = 0
    BY <1>1, <2>1 DEF cycleSearch
  <2>3. CyclesOrdered' /\ LoopsLayered' /\ (Len(Cycles) = 0)'
    <3>1. (sccs = <<>> /\ loop = <<>> /\ loops = 0 /\ torn = {} /\ open = <<>>)'
      BY <2>2
    <3> QED BY <3>1, NothingToLoop, PTL
  <2>4. (DagBelow(0) = {})'
    BY NetAssumption DEF DagBelow
  <2>5. DagUpTo'
    <3>1. DagBelow(depth)' = {}
      BY <2>2, <2>4 DEF DagBelow
    <3> QED BY <3>1 DEF DagUpTo, Settled, FiredBy
  <2> QED BY <1>1, <1>2, <1>3, <2>1, <2>2, <2>3, <2>5 DEF UpdateInv, Assembling, Evaluating
<1>5. CASE Blocked # {}
  <2>1. phase' = "cycles" /\ adj' = Succ(Blocked) /\ sccs' = <<>>
    BY <1>5 DEF Layer, T!Call
  <2>2. (adj = Succ(Blocked))' /\ Unrepeated'
    BY <1>1, <2>1, GraphStays DEF Unrepeated
  <2> QED BY <1>1, <1>2, <1>3, <2>1, <2>2 DEF UpdateInv, Assembling, Evaluating
<1> QED BY <1>4, <1>5

LEMMA FindCyclesKeeps == ASSUME ScheduleInv, UpdateInv, FindCycles PROVE UpdateInv'
<1>1. /\ phase = "cycles" /\ UNCHANGED <<net, phase, dag, open, loop, loops, torn, depth, iteration, fresh, carried>>
      /\ TarjanInv /\ Unrepeated /\ adj = Succ(Blocked) /\ DagLayered
  BY DEF FindCycles, ScheduleInv, UpdateInv, values, layout
<1>2. Unrepeated'
  BY <1>1, UnrepeatedStep DEF FindCycles
<1>3. adj' = adj
  BY DEF FindCycles, T!Next, T!Start, T!PreVisit, T!Descend, T!Link, T!Leave, T!Close
<1>4. (adj = Succ(Blocked))'
  BY <1>1, <1>3, GraphStays
<1>5. DagLayered' /\ Connections' = Connections
  BY <1>1 DEF DagLayered, Connections, Arcs
<1> QED BY <1>1, <1>2, <1>4, <1>5 DEF UpdateInv, Assembling, Evaluating

LEMMA CyclesFoundKeeps == ASSUME ScheduleInv, UpdateInv, CyclesFound PROVE UpdateInv'
<1>1. /\ net \in Nets /\ phase = "cycles" /\ phase' = "loops"
      /\ UNCHANGED <<net, dag, loop, loops, torn, depth, iteration, fresh, carried, adj, sccs>>
      /\ TarjanInv /\ Unrepeated /\ adj = Succ(Blocked) /\ DagLayered
      /\ loop = <<>> /\ loops = 0 /\ torn = {} /\ open' = Cycles
  BY DEF CyclesFound, ScheduleInv, UpdateInv, values, cycleSearch, Cycles
<1>2. CyclesOrdered
  BY <1>1, CyclesAreOrdered
<1>3. Cycles' = Cycles /\ Arcs' = Arcs
  BY <1>1 DEF Cycles, IsCycle, Arcs
<1>4. CyclesOrdered'
  BY <1>2, <1>3 DEF CyclesOrdered
<1>5. (loop = <<>> /\ loops = 0 /\ torn = {} /\ open = Cycles)'
  BY <1>1, <1>3
<1>6. LoopsLayered'
  BY <1>4, <1>5, LoopsBegin, PTL
<1>7. DagLayered' /\ Connections' = Connections
  BY <1>1, <1>3 DEF DagLayered, Connections
<1> QED BY <1>1, <1>4, <1>6, <1>7 DEF UpdateInv, Assembling, Evaluating

LEMMA LoopsKeep == ASSUME ScheduleInv, UpdateInv, NextLoop \/ Tear \/ Assembled PROVE UpdateInv'
<1>1. /\ phase \in {"loops", "tear"}
      /\ UNCHANGED <<net, dag, open, loop, loops, torn, depth, iteration, fresh, carried, adj, sccs>>
      /\ DagLayered /\ CyclesOrdered /\ LoopsLayered /\ depth = 0 /\ fresh \subseteq Block /\ carried \subseteq Connections
  BY DEF NextLoop, Tear, Assembled, UpdateInv, values, cycleSearch, layout, Assembling
<1>2. DagLayered' /\ CyclesOrdered' /\ LoopsLayered' /\ Arcs' = Arcs /\ Cycles' = Cycles
  BY <1>1, LayoutStays
<1>3. Connections' = Connections
  BY <1>2 DEF Connections
<1>4. CASE NextLoop \/ Tear
  <2>1. phase' = "tear" /\ size' = Len(Head(open)) /\ arcs' = LocalArcs(Head(open))
    <3>1. CASE NextLoop
      BY <3>1 DEF NextLoop, E!Call
    <3>2. CASE Tear
      <4>1. UNCHANGED <<size, arcs>>
        BY <3>2 DEF Tear, E!Next, E!PeelSink, E!SinksScanned, E!PeelSource, E!SourcesScanned, E!TakeBest
      <4> QED BY <3>2, <4>1 DEF Tear, UpdateInv
    <3> QED BY <1>4, <3>1, <3>2
  <2>2. (arcs = LocalArcs(Head(open)))' /\ (size = Len(Head(open)))'
    <3>1. \A l : Inside(l)' = Inside(l)
      BY <1>2 DEF Inside
    <3> QED BY <1>1, <2>1, <3>1 DEF LocalArcs
  <2> QED BY <1>1, <1>2, <1>3, <2>1, <2>2 DEF UpdateInv, Assembling, Evaluating
<1>5. CASE Assembled
  <2>1. phase' = "dag" /\ open = <<>>
    BY <1>5 DEF Assembled
  <2>2. loops = Len(Cycles)
    <3>1. Len(Cycles) \in Nat /\ loops \in 0 .. Len(Cycles) /\ SubSeq(Cycles, loops + 1, Len(Cycles)) = <<>>
      BY <1>1, <2>1, SeqFacts DEF CyclesOrdered, LoopsLayered
    <3>2. Cycles \in Seq(Seq(Block))
      BY <1>1 DEF CyclesOrdered
    <3>3. Len(SubSeq(Cycles, loops + 1, Len(Cycles))) = Len(Cycles) - loops
      BY <3>1, <3>2
    <3> QED BY <3>1, <3>3
  <2>3. loops' = Len(Cycles)' /\ depth' \in Nat
    BY <1>1, <1>2, <2>2
  <2>4. DagUpTo'
    <3>1. DagBelow(depth') = {}
      BY <1>1, NothingBelow
    <3>2. FiredBy({}) = {}
      BY DEF FiredBy
    <3> QED BY <1>1, <3>1, <3>2, SettledNext
  <2> QED BY <1>1, <1>2, <1>3, <2>1, <2>3, <2>4 DEF UpdateInv, Assembling, Evaluating
<1> QED BY <1>4, <1>5

LEMMA PlaceLoopKeeps == ASSUME ScheduleInv, UpdateInv, PlaceLoop PROVE UpdateInv'
<1>1. /\ net \in Nets /\ open \in Seq(Seq(Block)) /\ TearingInv /\ open # <<>>
      /\ phase = "tear" /\ phase' = "loops" /\ UNCHANGED <<net, dag, depth, iteration, fresh, carried, adj, sccs>>
      /\ DagLayered /\ CyclesOrdered /\ LoopsLayered /\ depth = 0 /\ fresh \subseteq Block /\ carried \subseteq Connections
      /\ size = Len(Head(open)) /\ arcs = LocalArcs(Head(open))
  BY DEF PlaceLoop, ScheduleInv, UpdateInv, values, cycleSearch, Assembling
<1>2. LoopsLayered'
  BY <1>1, PlacesLoop
<1>3. Cycles' = Cycles /\ Arcs' = Arcs
  BY <1>1 DEF Cycles, IsCycle, Arcs
<1>4. DagLayered' /\ CyclesOrdered' /\ Connections' = Connections
  BY <1>1, <1>3 DEF DagLayered, CyclesOrdered, Connections
<1> QED BY <1>1, <1>2, <1>4 DEF UpdateInv, Assembling, Evaluating

LEMMA DagLevelKeeps == ASSUME ScheduleInv, UpdateInv, DagLevel PROVE UpdateInv'
<1> DEFINE B == dag[depth]
           C == FiredBy(B)
<1>1. /\ net \in Nets /\ phase = "dag" /\ phase' = "dag" /\ depth <= N /\ depth' = depth + 1 /\ depth \in Nat
      /\ UNCHANGED <<net, dag, open, loop, loops, torn, iteration, adj, sccs>>
      /\ DagLayered /\ CyclesOrdered /\ LoopsLayered /\ loops = Len(Cycles)
      /\ fresh \subseteq Block /\ carried \subseteq Connections /\ DagUpTo /\ Evaluate(B, C, carried)
  BY DEF DagLevel, ScheduleInv, UpdateInv, cycleSearch, layout, Evaluating
<1>2. DagLayered' /\ CyclesOrdered' /\ LoopsLayered' /\ Arcs' = Arcs /\ Cycles' = Cycles
  BY <1>1, LayoutStays
<1>3. Connections' = Connections
  BY <1>2 DEF Connections
<1>4. depth \in 0 .. N /\ DOMAIN dag = 0 .. N
  BY <1>1, NetAssumption DEF DagLayered
<1>5. B \subseteq Block /\ C \subseteq Connections
  BY <1>1, <1>4 DEF DagLayered, FiredBy
<1> HIDE DEF B, C
<1>6. fresh' \subseteq Block /\ carried' \subseteq Connections
  BY <1>1, <1>5, EvaluateTypes
<1>7. \A b \in DagBelow(depth + 1) : \A c \in ReadBy(b) : SourceOf(c) \in DagBelow(depth)
  BY <1>1, DagReads
<1>8. DagBelow(depth + 1) = DagBelow(depth) \cup B
  <2>1. {m \in 0 .. N : m < depth + 1} = {m \in 0 .. N : m < depth} \cup {depth}
    BY <1>1, <1>4
  <2> QED BY <2>1 DEF DagBelow, B
<1>9. DagBelow(depth) \subseteq fresh /\ FiredBy(DagBelow(depth)) \subseteq carried
  BY <1>1 DEF DagUpTo, Settled
<1>10. DagBelow(depth) \subseteq fresh' /\ FiredBy(DagBelow(depth)) \subseteq carried'
  <2> DEFINE W == {}
             Q == DagBelow(depth)
  <2>1. \A b \in Q : \A c \in ReadBy(b) : c \in W \/ SourceOf(c) \in Q
    BY <1>7, <1>8
  <2>2. carried \cup W \subseteq carried /\ Q \subseteq fresh /\ FiredBy(Q) \subseteq carried \cup W
    BY <1>9
  <2> HIDE DEF W, Q
  <2>3. Q \subseteq fresh' /\ FiredBy(Q) \subseteq carried' \cup W
    BY <1>1, <2>1, <2>2, Stays
  <2> QED BY <2>3 DEF W, Q
<1>11. B \subseteq fresh' /\ FiredBy(B) \subseteq carried'
  <2> DEFINE W == {}
  <2>1. \A b \in B : ReadBy(b) \subseteq carried
    <3> SUFFICES ASSUME NEW b \in B, NEW c \in ReadBy(b) PROVE c \in carried
      OBVIOUS
    <3>1. c \in Connections /\ SourceOf(c) \in DagBelow(depth)
      BY <1>1, <1>7, <1>8, SourcesAre
    <3> QED BY <1>9, <3>1 DEF FiredBy
  <2>2. FiredBy(B) \ W \subseteq C
    BY DEF C
  <2> HIDE DEF W
  <2>3. B \subseteq fresh' /\ FiredBy(B) \subseteq carried' \cup W
    BY <1>1, <2>1, <2>2, Joins
  <2> QED BY <2>3 DEF W
<1>12. DagBelow(depth') \subseteq fresh' /\ FiredBy(DagBelow(depth')) \subseteq carried'
  BY <1>1, <1>8, <1>10, <1>11, FiredByParts
<1>13. DagUpTo'
  BY <1>1, <1>12, SettledNext
<1>14. loops' = Len(Cycles)' /\ depth' \in Nat
  BY <1>1, <1>2
<1>15. phase' = "dag"
  BY <1>1
<1> QED BY <1>2, <1>3, <1>6, <1>13, <1>14, <1>15 DEF UpdateInv, Assembling, Evaluating

LEMMA DagDoneKeeps == ASSUME ScheduleInv, UpdateInv, DagDone PROVE UpdateInv'
<1>1. /\ net \in Nets /\ phase = "dag" /\ depth > N /\ depth' = 1 /\ iteration' = 1 /\ depth \in Nat
      /\ UNCHANGED <<net, dag, open, loop, loops, torn, fresh, carried, adj, sccs>>
      /\ DagLayered /\ CyclesOrdered /\ LoopsLayered /\ loops = Len(Cycles)
      /\ fresh \subseteq Block /\ carried \subseteq Connections /\ DagUpTo
      /\ phase' = IF HasLoops THEN "iterate" ELSE "done"
  BY DEF DagDone, ScheduleInv, UpdateInv, cycleSearch, layout, Evaluating
<1>2. DagLayered' /\ CyclesOrdered' /\ LoopsLayered' /\ Arcs' = Arcs /\ Cycles' = Cycles
  BY <1>1, LayoutStays
<1>3. Connections' = Connections
  BY <1>2 DEF Connections
<1>4. DagPart \subseteq fresh /\ FiredBy(DagPart) \subseteq carried
  BY <1>1, NothingBelow DEF DagUpTo, Settled
<1>5. DagSettled'
  BY <1>1, <1>4, SettledNext
<1>6. CASE HasLoops
  <2>1. phase' = "iterate"
    BY <1>1, <1>6
  <2>2. LastLoops(0) = {}
    <3>1. Len(Cycles) \in Nat /\ DOMAIN Cycles = 1 .. Len(Cycles)
      BY <1>1, SeqFacts DEF CyclesOrdered
    <3> QED BY <3>1 DEF LastLoops
  <2>3. Coming(0, 1) = {}
    <3>1. Len(loop) \in Nat /\ DOMAIN loop = 1 .. Len(loop)
      BY <1>1, SeqFacts DEF LoopsLayered
    <3> QED BY <3>1 DEF Coming
  <2>4. TailSettled'
    <3>1. iteration' - 1 = 0 /\ FiredBy({}) = {}
      BY <1>1 DEF FiredBy
    <3>2. DagPart \cup LastLoops(iteration' - 1) = DagPart /\ Coming(iteration' - 1, depth') = {}
      BY <1>1, <2>2, <2>3, <3>1
    <3> QED BY <1>1, <1>4, <3>1, <3>2, SettledNext
  <2>5. loops' = Len(Cycles)' /\ depth' \in Nat /\ depth' # 0 /\ iteration' \in Nat \ {0}
    BY <1>1, <1>2
  <2> QED BY <1>1, <1>2, <1>3, <1>5, <2>1, <2>4, <2>5 DEF UpdateInv, Assembling, Evaluating
<1>7. CASE ~HasLoops
  <2>1. phase' = "done" /\ DagPart = Block
    BY <1>1, <1>7 DEF HasLoops, DagPart
  <2>2. fresh' = Block
    BY <1>1, <1>4, <2>1
  <2>3. carried' = Connections
    <3>1. FiredBy(Block) = Connections
      BY <1>1, SourcesAre DEF FiredBy
    <3> QED BY <1>1, <1>4, <2>1, <3>1
  <2>4. LoopsSettle'
    BY <1>1, <2>2, <2>3, SettledNext
  <2> QED BY <1>1, <1>2, <1>3, <1>5, <2>1, <2>4 DEF UpdateInv, Assembling, Evaluating
<1> QED BY <1>6, <1>7

\* One depth of the loop pass: the settled loops stay so, whatever is guessed, and
\* the next depth of the loop before them joins what is up to date.
LEMMA LoopLevelKeeps == ASSUME ScheduleInv, UpdateInv, LoopLevel PROVE UpdateInv'
<1> DEFINE B == loop[depth]
           C == FiredBy(B) \ torn
           good == carried \cup torn
           t == iteration - 1
           tail == DagPart \cup LastLoops(t)
<1>1. /\ net \in Nets /\ phase = "iterate" /\ phase' = "iterate" /\ depth <= Len(loop) /\ depth' = depth + 1
      /\ depth \in Nat /\ depth # 0 /\ iteration \in Nat \ {0}
      /\ UNCHANGED <<net, dag, open, loop, loops, torn, iteration, adj, sccs>>
      /\ DagLayered /\ CyclesOrdered /\ LoopsLayered /\ loops = Len(Cycles)
      /\ fresh \subseteq Block /\ carried \subseteq Connections /\ DagSettled /\ TailSettled /\ Evaluate(B, C, good)
  BY DEF LoopLevel, ScheduleInv, UpdateInv, cycleSearch, layout, Evaluating
<1>2. DagLayered' /\ CyclesOrdered' /\ LoopsLayered' /\ Arcs' = Arcs /\ Cycles' = Cycles
  BY <1>1, LayoutStays
<1>3. Connections' = Connections
  BY <1>2 DEF Connections
<1>4. loop \in Seq(SUBSET Block) /\ Len(loop) \in Nat /\ DOMAIN loop = 1 .. Len(loop) /\ depth \in DOMAIN loop
  <2>1. loop \in Seq(SUBSET Block) /\ Len(loop) \in Nat /\ DOMAIN loop = 1 .. Len(loop)
    BY <1>1, SeqFacts DEF LoopsLayered
  <2> QED BY <1>1, <2>1
<1>5. B \subseteq Block /\ C \subseteq Connections /\ t \in Nat
  <2>1. B \subseteq Block
    BY <1>4
  <2> QED BY <1>1, <2>1 DEF FiredBy
<1> HIDE DEF t
<1>6. fresh' \subseteq Block /\ carried' \subseteq Connections
  <2> HIDE DEF B, C, good
  <2> QED BY <1>1, <1>5, EvaluateTypes
<1>7. DagSettled'
  <2> DEFINE W == {}
  <2>1. /\ \A b \in DagPart : \A c \in ReadBy(b) : c \in W \/ SourceOf(c) \in DagPart
        /\ carried \cup W \subseteq good /\ DagPart \subseteq fresh /\ FiredBy(DagPart) \subseteq carried \cup W
    BY <1>1, DagReads DEF DagSettled, Settled
  <2> HIDE DEF W, B, C, good
  <2>2. DagPart \subseteq fresh' /\ FiredBy(DagPart) \subseteq carried' \cup W
    BY <1>1, <2>1, Stays
  <2> QED BY <1>1, <2>2, SettledNext DEF W
<1>8. ASSUME Scheduled = Block
      PROVE  /\ tail \subseteq fresh' /\ FiredBy(tail) \subseteq carried'
             /\ Coming(t, depth') \subseteq fresh' /\ FiredBy(Coming(t, depth')) \subseteq carried' \cup torn
  <2>1. /\ tail \subseteq fresh /\ FiredBy(tail) \subseteq carried
        /\ Coming(t, depth) \subseteq fresh /\ FiredBy(Coming(t, depth)) \subseteq carried \cup torn
    BY <1>1, <1>8 DEF TailSettled, Settled, t
  <2>2. \A b \in tail : \A c \in ReadBy(b) : SourceOf(c) \in tail
    BY <1>1, <1>5, <1>8, TailReads
  <2>3. \A b \in Coming(t, depth + 1) : \A c \in ReadBy(b) : c \in torn \/ SourceOf(c) \in tail \cup Coming(t, depth)
    BY <1>1, <1>5, <1>8, ComingReads
  <2>4. Coming(t, depth) \subseteq Coming(t, depth + 1) /\ Coming(t, depth + 1) \subseteq Coming(t, depth) \cup B
    BY <1>1, <1>4 DEF Coming
  <2> HIDE DEF tail
  <2>5. tail \subseteq fresh' /\ FiredBy(tail) \subseteq carried'
    <3> DEFINE W == {}
    <3>1. /\ \A b \in tail : \A c \in ReadBy(b) : c \in W \/ SourceOf(c) \in tail
          /\ carried \cup W \subseteq good /\ FiredBy(tail) \subseteq carried \cup W
      BY <2>1, <2>2
    <3> HIDE DEF W, B, C, good
    <3>2. tail \subseteq fresh' /\ FiredBy(tail) \subseteq carried' \cup W
      BY <1>1, <2>1, <3>1, Stays
    <3> QED BY <3>2 DEF W
  <2> DEFINE Q == tail \cup Coming(t, depth)
             P == B \cap Coming(t, depth + 1)
  <2>6. Q \subseteq fresh' /\ FiredBy(Q) \subseteq carried' \cup torn
    <3>1. Q \subseteq fresh /\ FiredBy(Q) \subseteq carried \cup torn
      BY <2>1, FiredByParts
    <3>2. \A b \in Q : \A c \in ReadBy(b) : c \in torn \/ SourceOf(c) \in Q
      BY <2>2, <2>3, <2>4
    <3>3. carried \cup torn \subseteq good
      OBVIOUS
    <3> HIDE DEF Q, B, C, good
    <3> QED BY <1>1, <3>1, <3>2, <3>3, Stays
  <2>7. P \subseteq fresh' /\ FiredBy(P) \subseteq carried' \cup torn
    <3>1. \A b \in P : ReadBy(b) \subseteq good
      <4> SUFFICES ASSUME NEW b \in P, NEW c \in ReadBy(b), c \notin torn PROVE c \in carried
        OBVIOUS
      <4>1. c \in Connections /\ SourceOf(c) \in Q
        BY <1>1, <2>3, SourcesAre
      <4>2. FiredBy(Q) \subseteq carried \cup torn
        BY <2>1, FiredByParts
      <4> QED BY <4>1, <4>2 DEF FiredBy
    <3>2. FiredBy(B) \ torn \subseteq C /\ P \subseteq B
      OBVIOUS
    <3> HIDE DEF P, B, C, good
    <3> QED BY <1>1, <3>1, <3>2, Joins
  <2>8. Coming(t, depth + 1) \subseteq Q \cup P
    BY <2>4
  <2> HIDE DEF Q, P
  <2>9. FiredBy(Coming(t, depth + 1)) \subseteq FiredBy(Q) \cup FiredBy(P)
    BY <2>8 DEF FiredBy
  <2> QED BY <1>1, <2>5, <2>6, <2>7, <2>8, <2>9
<1>9. TailSettled'
  BY <1>1, <1>8, SettledNext DEF t
<1>10. loops' = Len(Cycles)' /\ depth' \in Nat /\ depth' # 0 /\ iteration' \in Nat \ {0} /\ phase' = "iterate"
  BY <1>1, <1>2
<1> QED BY <1>2, <1>3, <1>6, <1>7, <1>9, <1>10 DEF UpdateInv, Assembling, Evaluating

\* The boosters fire the torn connections: the loop the iteration has come past is
\* settled as well.
LEMMA BoostKeeps == ASSUME ScheduleInv, UpdateInv, Boost PROVE UpdateInv'
<1> DEFINE t == iteration - 1
           tail == DagPart \cup LastLoops(t)
           longer == DagPart \cup LastLoops(iteration)
<1>1. /\ net \in Nets /\ phase = "iterate" /\ depth > Len(loop)
      /\ depth \in Nat /\ depth # 0 /\ iteration \in Nat \ {0}
      /\ UNCHANGED <<net, dag, open, loop, loops, torn, adj, sccs>>
      /\ DagLayered /\ CyclesOrdered /\ LoopsLayered /\ loops = Len(Cycles)
      /\ fresh \subseteq Block /\ carried \subseteq Connections /\ DagSettled /\ TailSettled
      /\ \/ phase' = "done" /\ UNCHANGED <<iteration, depth>>
         \/ phase' = "iterate" /\ iteration' = iteration + 1 /\ depth' = 1
  BY DEF Boost, ScheduleInv, UpdateInv, cycleSearch, layout, Evaluating
<1>2. DagLayered' /\ CyclesOrdered' /\ LoopsLayered' /\ Arcs' = Arcs /\ Cycles' = Cycles
  BY <1>1, LayoutStays
<1>3. Connections' = Connections
  BY <1>2 DEF Connections
<1>4. /\ loop \in Seq(SUBSET Block) /\ Len(loop) \in Nat /\ DOMAIN loop = 1 .. Len(loop)
      /\ Len(Cycles) \in Nat /\ DOMAIN Cycles = 1 .. Len(Cycles) /\ torn \subseteq Connections
  BY <1>1, SeqFacts DEF LoopsLayered, CyclesOrdered
<1>5. fresh' = fresh /\ carried' = (carried \ torn) \cup {c \in torn : SourceOf(c) \in fresh}
  BY DEF Boost, Evaluate, UpToDate
<1>6. fresh' \subseteq Block /\ carried' \subseteq Connections
  BY <1>1, <1>4, <1>5
<1>7. ASSUME NEW Q, Q \subseteq fresh, FiredBy(Q) \subseteq carried \cup torn
      PROVE  Q \subseteq fresh' /\ FiredBy(Q) \subseteq carried'
  BY <1>5, <1>7 DEF FiredBy
<1>8. DagPart \subseteq fresh' /\ FiredBy(DagPart) \subseteq carried'
  <2>1. DagPart \subseteq fresh /\ FiredBy(DagPart) \subseteq carried \cup torn
    BY <1>1 DEF DagSettled, Settled
  <2> QED BY <1>7, <2>1
<1>9. DagSettled'
  BY <1>1, <1>8, SettledNext
<1>10. ASSUME Scheduled = Block PROVE longer \subseteq fresh' /\ FiredBy(longer) \subseteq carried'
  <2>1. /\ tail \subseteq fresh /\ FiredBy(tail) \subseteq carried
        /\ Coming(t, depth) \subseteq fresh /\ FiredBy(Coming(t, depth)) \subseteq carried \cup torn
    BY <1>1, <1>10 DEF TailSettled, Settled
  <2>2. longer \subseteq tail \cup Coming(t, depth)
    <3> SUFFICES ASSUME NEW b \in LastLoops(iteration), b \notin LastLoops(t) PROVE b \in Coming(t, depth)
      OBVIOUS
    <3>1. PICK j \in DOMAIN Cycles, k \in DOMAIN loop :
             b \in ToSet(Cycles[j]) /\ Len(Cycles) - iteration < j /\ b \in loop[k]
      BY DEF LastLoops, LoopPart
    <3>2. ~(Len(Cycles) - t < j)
      BY <3>1 DEF LastLoops
    <3>3. j = Len(Cycles) - t /\ k < depth
      BY <1>1, <1>4, <3>1, <3>2
    <3> QED BY <3>1, <3>3 DEF Coming
  <2>3. FiredBy(longer) \subseteq FiredBy(tail) \cup FiredBy(Coming(t, depth))
    BY <2>2 DEF FiredBy
  <2> QED BY <1>7, <2>1, <2>2, <2>3
<1>11. CASE phase' = "done" /\ UNCHANGED <<iteration, depth>>
  <2>1. ASSUME Scheduled = Block, iteration >= loops PROVE fresh' = Block /\ carried' = Connections
    <3>1. LastLoops(iteration) = LoopPart
      <4> SUFFICES ASSUME NEW k \in DOMAIN loop, NEW b \in loop[k]
                   PROVE  \E j \in DOMAIN Cycles : Len(Cycles) - iteration < j /\ b \in ToSet(Cycles[j])
        BY DEF LastLoops, LoopPart
      <4>1. PICK j \in 1 .. loops : b \in ToSet(Cycles[j])
        BY <1>1 DEF LoopsLayered
      <4> QED BY <1>1, <1>4, <2>1, <4>1
    <3>2. longer = Block
      BY <2>1, <3>1 DEF Scheduled, DagPart, LoopPart
    <3>3. FiredBy(Block) = Connections
      BY <1>1, SourcesAre DEF FiredBy
    <3> QED BY <1>6, <1>10, <2>1, <3>2, <3>3
  <2>2. LoopsSettle'
    BY <1>1, <1>11, <2>1, SettledNext
  <2> QED BY <1>2, <1>3, <1>6, <1>9, <1>11, <2>2 DEF UpdateInv, Assembling, Evaluating
<1>12. CASE phase' = "iterate" /\ iteration' = iteration + 1 /\ depth' = 1
  <2>1. Coming(iteration, 1) = {} /\ FiredBy({}) = {}
    BY <1>4 DEF Coming, FiredBy
  <2>2. iteration' - 1 = iteration
    BY <1>1, <1>12
  <2>3. TailSettled'
    BY <1>1, <1>10, <1>12, <2>1, <2>2, SettledNext
  <2>4. loops' = Len(Cycles)' /\ depth' \in Nat /\ depth' # 0 /\ iteration' \in Nat \ {0}
    BY <1>1, <1>2, <1>12
  <2> QED BY <1>2, <1>3, <1>6, <1>9, <1>12, <2>3, <2>4 DEF UpdateInv, Assembling, Evaluating
<1> QED BY <1>1, <1>11, <1>12

LEMMA OthersKeep == ASSUME ScheduleInv, UpdateInv, GiveUp \/ UNCHANGED vars PROVE UpdateInv'
<1>1. CASE GiveUp
  <2>1. /\ phase = "iterate" /\ phase' = "failed"
        /\ UNCHANGED <<net, dag, open, loop, loops, torn, fresh, carried, adj, sccs>>
    BY <1>1 DEF GiveUp, values, layout, cycleSearch
  <2>2. DagLayered' /\ fresh' \subseteq Block /\ carried' \subseteq Connections'
    BY <2>1 DEF UpdateInv, DagLayered, Connections, Arcs
  <2> QED BY <2>1, <2>2 DEF UpdateInv, Assembling, Evaluating
<1>2. CASE UNCHANGED vars
  <2>1. /\ UNCHANGED <<net, dag, open, loop, loops, torn, adj, sccs>>
        /\ UNCHANGED <<phase, depth, iteration, fresh, carried, size, arcs>>
    BY <1>2 DEF vars, values, layout, cycleSearch, ordering
  <2>2. /\ DagLayered' = DagLayered /\ CyclesOrdered' = CyclesOrdered /\ LoopsLayered' = LoopsLayered
        /\ Arcs' = Arcs /\ Cycles' = Cycles /\ Succ(Blocked)' = Succ(Blocked)
    BY <2>1, LayoutStays, GraphStays
  <2>3. Connections' = Connections /\ \A l : Inside(l)' = Inside(l)
    BY <2>2 DEF Connections, Inside
  <2>4. (DagUpTo => DagUpTo') /\ (DagSettled => DagSettled') /\ (TailSettled => TailSettled')
    BY <2>1, SettledNext DEF DagUpTo, DagSettled, TailSettled, Settled
  <2>5. LoopsSettle => LoopsSettle'
    BY <2>1, SettledNext DEF LoopsSettle
  <2>6. Unrepeated' = Unrepeated /\ (adj = Succ(Blocked))' = (adj = Succ(Blocked))
    BY <2>1, <2>2 DEF Unrepeated
  <2>7. (size = Len(Head(open)) /\ arcs = LocalArcs(Head(open)))' = (size = Len(Head(open)) /\ arcs = LocalArcs(Head(open)))
    BY <2>1, <2>3 DEF LocalArcs
  <2> QED BY <2>1, <2>2, <2>3, <2>4, <2>5, <2>6, <2>7 DEF UpdateInv
<1> QED BY <1>1, <1>2

LEMMA UpdateInvNext == ASSUME ScheduleInv, UpdateInv, [Next]_vars PROVE UpdateInv'
BY LayerKeeps, FindCyclesKeeps, CyclesFoundKeeps, LoopsKeep, PlaceLoopKeeps, DagLevelKeeps, DagDoneKeeps,
   LoopLevelKeeps, BoostKeeps, OthersKeep DEF Next

LEMMA UpdateInvariant == Spec => []UpdateInv
<1>1. Init => UpdateInv
  BY UpdateInvInit
<1>2. ScheduleInv /\ UpdateInv /\ [Next]_vars => UpdateInv'
  BY UpdateInvNext
<1> QED BY <1>1, <1>2, ScheduleInvariant, PTL DEF Spec

\* After the DAG pass all that is outside the loops, and not fed by them, is up to
\* date and passed on; where every block is scheduled, an _update that ends after
\* as many iterations as there are loops leaves every block and connection up to
\* date (_dag, _loops), for every diagram and every bound on the iterations.
THEOREM UpdateComesToRest == Spec => []UpdateSettles
<1>1. UpdateInv => UpdateSettles
  BY DEF UpdateInv, UpdateSettles, DagPartSettles, LoopsSettle, DagSettled, Settled, DagPart
<1> QED BY <1>1, UpdateInvariant, PTL

-----------------------------------------------------------------------------
(* Which blocks the order has *)

\* The blocks of some of the loops, and those on a cycle of arcs that stay within
\* what compute_depths gives no depth.
InCycles(J) == UNION {ToSet(Cycles[j]) : j \in J}
OnLoops == {b \in Blocked : b \in Leads(Inside(Blocked))[b]}

\* The two schedules have what is not blocked, and of the blocked blocks those on a loop.
WhatIsScheduled ==
    phase \in {"dag", "iterate", "done", "failed"} => Scheduled = (Block \ Blocked) \cup OnLoops
\* So the update comes to rest in every diagram in which no block is merely fed by a loop.
SettlesUnlessFed ==
    phase = "done" /\ Blocked \subseteq OnLoops /\ iteration >= loops =>
        fresh = Block /\ carried = Connections

\* The parts of both schedules as they are put together.
PlacedInv ==
    /\ phase # "layer" => DagPart = Block \ Blocked
    /\ phase \in {"loops", "tear"} =>
          InCycles(DOMAIN Cycles) = OnLoops /\ LoopPart = InCycles(1 .. loops)
    /\ phase \in {"dag", "iterate", "done", "failed"} => LoopPart = OnLoops

LEMMA BlockedAreBlocks == ASSUME net \in Nets PROVE Blocked \subseteq Block
<1>1. N \in Nat /\ \A a \in ReadArcs : a.src \in Block /\ a.tgt \in Block
  BY NetAssumption, ArcsFinite DEF ReadArcs
<1>2. \A c \in Block : Leads(ReadArcs)[c] \subseteq Block
  BY <1>1, LeadsOn
<1>3. Blocked = UNION {{c} \cup Leads(ReadArcs)[c] : c \in {d \in Block : d \in Leads(ReadArcs)[d]}}
  BY DEF Blocked, ReadArcs
<1> QED BY <1>2, <1>3

\* Inside a set of blocks, the graph of the search has the arcs of the diagram.
LEMMA SuccArcs ==
    ASSUME net \in Nets, NEW S, NEW b \in Block, NEW k \in DOMAIN Succ(S)[b]
    PROVE  \E a \in Inside(S) : a.src = b /\ a.tgt = Succ(S)[b][k]
<1> DEFINE targets == [i \in DOMAIN net.arcs |-> net.arcs[i].tgt]
           from == {i \in DOMAIN net.arcs : net.arcs[i].src = b /\ net.arcs[i].tgt \in S /\ First(i)}
<1>1. Len(net.arcs) \in Nat /\ DOMAIN net.arcs = 1 .. Len(net.arcs)
  BY NetAssumption, SeqFacts
<1>2. b \in S
  <2>1. CASE b \notin S
    <3>1. Succ(S)[b] = <<>>
      BY <2>1 DEF Succ
    <3> QED BY <3>1
  <2> QED BY <2>1
<1>3. Succ(S)[b] = Picked(targets, from)
  BY <1>2 DEF Succ
<1>4. from \in SUBSET (1 .. Len(net.arcs))
  BY <1>1
<1>5. \A i \in from : net.arcs[i] \in Inside(S) /\ net.arcs[i].src = b /\ net.arcs[i].tgt = targets[i]
  BY <1>2 DEF Inside, Arcs, ToSet
<1> HIDE DEF from, targets
<1>6. Cardinality(from) \in Nat /\ \A j \in 1 .. Cardinality(from) : Nth(from, j) \in from
  BY <1>1, <1>4, NthIs
<1>7. k \in 1 .. Cardinality(from) /\ Succ(S)[b][k] = targets[Nth(from, k)]
  BY <1>3, <1>6, PickedIs
<1> QED BY <1>5, <1>6, <1>7

\* What is reached from v, if it is not v itself, is reached over the first arc of a path.
LEMMA FirstStep ==
    ASSUME NEW g \in Graph, NEW v \in Block, NEW w, w # v, Reaches(g, v, w)
    PROVE  \E k \in DOMAIN g[v] : Reaches(g, g[v][k], w)
<1> DEFINE S == {v} \cup {x \in Block : \E k \in DOMAIN g[v] : Reaches(g, g[v][k], x)}
<1>1. ASSUME NEW u \in S, NEW k \in DOMAIN g[u] PROVE g[u][k] \in S
  <2>1. u \in Block /\ g[u][k] \in Block /\ Reaches(g, u, g[u][k])
    BY ReachesNext
  <2>2. CASE u = v
    BY <2>1, <2>2, ReachesSelf
  <2>3. CASE u # v
    <3>1. PICK j \in DOMAIN g[v] : Reaches(g, g[v][j], u)
      BY <2>3
    <3>2. Reaches(g, g[v][j], g[u][k])
      BY <2>1, <3>1, ReachesOn
    <3> QED BY <2>1, <3>2
  <2> QED BY <2>2, <2>3
<1>2. S \in SUBSET Block /\ v \in S
  OBVIOUS
<1>3. ClosedIn(g, S)
  <2> HIDE DEF S
  <2> QED BY <1>1 DEF ClosedIn
<1>4. w \in S
  <2> HIDE DEF S
  <2> QED BY <1>2, <1>3, ReachesWithin
<1> QED BY <1>4

\* Leads says of the diagram what the search finds out of its graph.
LEMMA LeadsIs ==
    ASSUME net \in Nets, NEW S, NEW b \in Block, NEW w
    PROVE  w \in Leads(Inside(S))[b] <=> \E a \in Inside(S) : a.src = b /\ Reaches(Succ(S), a.tgt, w)
<1> DEFINE some == Inside(S)
           g == Succ(S)
           ahead(v) == {x \in Block : \E a \in some : a.src = v /\ Reaches(g, a.tgt, x)}
<1>1. /\ N \in Nat /\ g \in Graph /\ \A a \in some : a.src \in Block /\ a.tgt \in Block
      /\ \A a \in some : a \in Arcs /\ a.src \in S /\ a.tgt \in S
  BY NetAssumption, SuccIsGraph, ArcsFinite DEF Inside
<1>2. ASSUME NEW a \in some PROVE \E k \in DOMAIN g[a.src] : g[a.src][k] = a.tgt
  BY <1>1, ArcsInGraph
<1>3. ASSUME NEW v \in Block, NEW k \in DOMAIN g[v] PROVE \E a \in some : a.src = v /\ a.tgt = g[v][k]
  BY SuccArcs
<1> HIDE DEF some, g
<1>4. ASSUME NEW a \in some, a.src = b, Reaches(g, a.tgt, w) PROVE w \in Leads(some)[b]
  <2> DEFINE R == Leads(some)[b]
  <2>1. /\ R \in SUBSET Block /\ a.tgt \in R
        /\ \A e \in some : e.src \in R => e.tgt \in R
    BY <1>1, <1>4, LeadsOn
  <2> HIDE DEF R
  <2>2. ClosedIn(g, R)
    <3> SUFFICES ASSUME NEW u \in R, NEW k \in DOMAIN g[u] PROVE g[u][k] \in R
      BY DEF ClosedIn
    <3>1. PICK e \in some : e.src = u /\ e.tgt = g[u][k]
      BY <1>3, <2>1
    <3> QED BY <2>1, <3>1
  <2>3. w \in R
    BY <1>4, <2>1, <2>2, ReachesWithin
  <2> QED BY <2>3 DEF R
<1>5. Leads(some)[b] \subseteq ahead(b)
  <2>1. PICK r : StepsTo(r, some, N) /\ Leads(some) = r[N]
    BY <1>1, LeadsFunction
  <2>2. StepByStep(r, some, N)
    BY <1>1, <2>1, StepsAre
  <2>3. /\ \A v \in Block : r[0][v] = {}
        /\ \A k \in 1 .. N : \A v \in Block :
              r[k][v] = UNION {{a.tgt} \cup r[k - 1][a.tgt] : a \in {e \in some : e.src = v}}
        /\ \A k \in 0 .. N : \A v \in Block : r[k][v] \subseteq Block
    BY <2>2 DEF StepByStep
  <2> DEFINE known == {k \in Nat : k <= N => \A v \in Block : r[k][v] \subseteq ahead(v)}
  <2>4. 0 \in known
    BY <2>3
  <2>5. ASSUME NEW k \in known PROVE k + 1 \in known
    <3>0. k \in Nat
      OBVIOUS
    <3> SUFFICES ASSUME k + 1 <= N, NEW v \in Block, NEW x \in r[k + 1][v] PROVE x \in ahead(v)
      BY <3>0
    <3>1. k + 1 \in 1 .. N /\ k + 1 \in 0 .. N /\ k <= N /\ (k + 1) - 1 = k
      BY <1>1, <3>0
    <3>2. r[k + 1][v] = UNION {{a.tgt} \cup r[k][a.tgt] : a \in {e \in some : e.src = v}}
      BY <2>3, <3>1
    <3>3. PICK a \in some : a.src = v /\ (x = a.tgt \/ x \in r[k][a.tgt])
      BY <3>2
    <3>4. x \in Block /\ a.tgt \in Block
      BY <1>1, <2>3, <3>1
    <3>5. CASE x = a.tgt
      BY <3>3, <3>4, <3>5, ReachesSelf
    <3>6. CASE x \in r[k][a.tgt]
      <4>1. x \in ahead(a.tgt)
        BY <3>1, <3>4, <3>6
      <4>2. PICK e \in some : e.src = a.tgt /\ Reaches(g, e.tgt, x)
        BY <4>1
      <4>3. PICK j \in DOMAIN g[a.tgt] : g[a.tgt][j] = e.tgt
        BY <1>2, <4>2
      <4>4. Reaches(g, a.tgt, e.tgt)
        BY <1>1, <3>4, <4>3, ReachesNext
      <4>5. Reaches(g, a.tgt, x)
        BY <4>2, <4>4, ReachesOn
      <4> QED BY <3>3, <3>4, <4>5
    <3> QED BY <3>3, <3>5, <3>6
  <2>6. known = Nat
    <3>1. known \in SUBSET Nat
      OBVIOUS
    <3> HIDE DEF known
    <3> QED BY <2>4, <2>5, <3>1, SetInduction
  <2>7. r[N][b] \subseteq ahead(b)
    <3>1. N \in known /\ N <= N
      BY <1>1, <2>6
    <3> QED BY <3>1
  <2> QED BY <2>1, <2>7
<1>6. w \in Leads(some)[b] => \E a \in some : a.src = b /\ Reaches(g, a.tgt, w)
  BY <1>5
<1> QED BY <1>4, <1>6 DEF some, g

\* The loops found are all there are: a component is a cycle if its blocks are on one.
LEMMA CyclesAreLoops ==
    ASSUME net \in Nets, TarjanInv, Unrepeated, adj = Succ(Blocked), T!Done
    PROVE  InCycles(DOMAIN Cycles) = OnLoops
<1> DEFINE P == {i \in DOMAIN sccs : IsCycle(sccs[i])}
<1>1. /\ sccs \in Seq(Seq(Block)) /\ Len(sccs) \in Nat /\ DOMAIN sccs = 1 .. Len(sccs) /\ adj \in Graph
  BY SeqFacts DEF TarjanInv, CycleTypes
<1>2. ASSUME NEW i \in DOMAIN sccs
      PROVE  /\ Len(sccs[i]) \in Nat /\ DOMAIN sccs[i] = 1 .. Len(sccs[i])
             /\ ToSet(sccs[i]) = {sccs[i][k] : k \in 1 .. Len(sccs[i])}
             /\ ToSet(sccs[i]) \subseteq Block
  <2>1. sccs[i] \in Seq(Block)
    BY <1>1
  <2>2. Len(sccs[i]) \in Nat /\ DOMAIN sccs[i] = 1 .. Len(sccs[i]) /\ \A k \in 1 .. Len(sccs[i]) : sccs[i][k] \in Block
    BY <2>1, SeqFacts
  <2> QED BY <2>2 DEF ToSet
<1>3. \A i \in DOMAIN sccs : \E v \in Block :
         ToSet(sccs[i]) = {w \in Block : Reaches(adj, v, w) /\ Reaches(adj, w, v)}
  BY DEF TarjanInv, Shape
<1>4. \A i \in DOMAIN sccs : \A u, w \in ToSet(sccs[i]) : Reaches(adj, u, w)
  BY <1>3, ReachesOn
<1>5. \A b \in Block : b \in OnLoops <=> b \in Blocked /\ \E a \in Inside(Blocked) : a.src = b /\ Reaches(adj, a.tgt, b)
  BY LeadsIs DEF OnLoops
<1>6. \A a \in Inside(Blocked) : a \in Arcs /\ a.src \in Block /\ a.tgt \in Block /\ a.src \in Blocked /\ a.tgt \in Blocked
  BY ArcsFinite DEF Inside
<1>7. ASSUME NEW i \in DOMAIN sccs, IsCycle(sccs[i]), NEW b \in ToSet(sccs[i]) PROVE b \in OnLoops
  <2>1. b \in Blocked /\ b \in Block
    BY <1>2, <1>7, CyclesAreBlocked
  <2>2. CASE Len(sccs[i]) > 1
    <3>1. PICK w \in ToSet(sccs[i]) : w # b
      <4>1. 1 \in 1 .. Len(sccs[i]) /\ 2 \in 1 .. Len(sccs[i])
        BY <1>2, <2>2
      <4>2. sccs[i][1] # sccs[i][2]
        <5>1. 1 # 2
          OBVIOUS
        <5> QED BY <1>2, <4>1, <5>1 DEF Unrepeated
      <4> QED BY <1>2, <4>1, <4>2
    <3>2. Reaches(adj, b, w) /\ Reaches(adj, w, b)
      BY <1>4
    <3>3. PICK k \in DOMAIN adj[b] : Reaches(adj, adj[b][k], w)
      BY <1>1, <2>1, <3>1, <3>2, FirstStep
    <3>4. PICK a \in Inside(Blocked) : a.src = b /\ a.tgt = adj[b][k]
      BY <2>1, SuccArcs
    <3>5. Reaches(adj, a.tgt, b)
      BY <3>2, <3>3, <3>4, ReachesOn
    <3> QED BY <1>5, <2>1, <3>4, <3>5
  <2>3. CASE ~(Len(sccs[i]) > 1)
    <3>1. Len(sccs[i]) = 1
      <4>1. Len(sccs[i]) \in Nat
        BY <1>2
      <4>2. ASSUME Len(sccs[i]) = 0 PROVE FALSE
        <5>1. 1 .. Len(sccs[i]) = {}
          BY <4>2
        <5> QED BY <1>2, <5>1
      <4>3. \A n \in Nat : ~(n > 1) /\ n # 0 => n = 1
        OBVIOUS
      <4> QED BY <2>3, <4>1, <4>2, <4>3
    <3>2. sccs[i][1] = b
      BY <1>2, <3>1
    <3>3. PICK k \in DOMAIN adj[b] : adj[b][k] = b
      BY <1>7, <2>3, <3>2 DEF IsCycle, ToSet
    <3>4. PICK a \in Inside(Blocked) : a.src = b /\ a.tgt = b
      BY <2>1, <3>3, SuccArcs
    <3> QED BY <1>5, <2>1, <3>4, ReachesSelf
  <2> QED BY <2>2, <2>3
<1>8. ASSUME NEW b \in OnLoops PROVE \E i \in P : b \in ToSet(sccs[i])
  <2>1. b \in Block /\ b \in Blocked
    <3>1. b \in Blocked /\ b \in Leads(Inside(Blocked))[b]
      BY DEF OnLoops
    <3>2. Blocked \subseteq Block
      BY BlockedAreBlocks
    <3> QED BY <3>1, <3>2
  <2>2. PICK a \in Inside(Blocked) : a.src = b /\ Reaches(adj, a.tgt, b)
    BY <1>5, <2>1
  <2>3. PICK k \in DOMAIN adj[b] : adj[b][k] = a.tgt
    BY <1>6, <2>2, ArcsInGraph
  <2>4. Reaches(adj, b, a.tgt)
    BY <1>1, <2>1, <2>3, ReachesNext
  <2>5. Seen = Block /\ work = <<>>
    BY DEF T!Done, T!Node, T!Unvisited, Seen, Block
  <2>6. Stacked = {}
    BY <2>5 DEF TarjanInv, Returning, Gray
  <2>7. PICK i \in DOMAIN sccs : b \in ToSet(sccs[i])
    BY <2>1, <2>5, <2>6 DEF TarjanInv, Parted, Shut
  <2>8. a.tgt \in ToSet(sccs[i])
    <3>1. PICK v \in Block : ToSet(sccs[i]) = {w \in Block : Reaches(adj, v, w) /\ Reaches(adj, w, v)}
      BY <1>3
    <3>2. Reaches(adj, v, b) /\ Reaches(adj, b, v)
      BY <2>7, <3>1
    <3>3. Reaches(adj, v, a.tgt) /\ Reaches(adj, a.tgt, v)
      BY <2>2, <2>4, <3>2, ReachesOn
    <3> QED BY <1>6, <3>1, <3>3
  <2>9. IsCycle(sccs[i])
    <3>1. CASE Len(sccs[i]) > 1
      BY <3>1 DEF IsCycle
    <3>2. CASE ~(Len(sccs[i]) > 1)
      <4>1. \A p \in 1 .. Len(sccs[i]) : p = 1
        BY <1>2, <3>2
      <4>2. sccs[i][1] = b /\ a.tgt = b
        BY <1>2, <2>7, <2>8, <4>1
      <4>3. b \in ToSet(adj[b])
        BY <2>3, <4>2 DEF ToSet
      <4> QED BY <4>2, <4>3 DEF IsCycle
    <3> QED BY <3>1, <3>2
  <2> QED BY <2>7, <2>9
<1>9. P \in SUBSET (1 .. Len(sccs))
  BY <1>1
<1>10. \A i \in P : i \in DOMAIN sccs /\ IsCycle(sccs[i])
  OBVIOUS
<1>11. Cycles = Picked(sccs, P)
  BY DEF Cycles
<1> HIDE DEF P
<1>12. /\ Cardinality(P) \in Nat
       /\ \A k \in 1 .. Cardinality(P) : Nth(P, k) \in P
       /\ \A i \in P : \E k \in 1 .. Cardinality(P) : Nth(P, k) = i
  BY <1>1, <1>9, NthIs
<1>13. DOMAIN Cycles = 1 .. Cardinality(P) /\ \A k \in 1 .. Cardinality(P) : Cycles[k] = sccs[Nth(P, k)]
  BY <1>11, <1>12, PickedIs
<1>14. ASSUME NEW k \in DOMAIN Cycles, NEW b \in ToSet(Cycles[k]) PROVE b \in OnLoops
  <2>1. Nth(P, k) \in DOMAIN sccs /\ IsCycle(sccs[Nth(P, k)]) /\ b \in ToSet(sccs[Nth(P, k)])
    BY <1>10, <1>12, <1>13
  <2> QED BY <1>7, <2>1
<1>15. ASSUME NEW b \in OnLoops PROVE \E k \in DOMAIN Cycles : b \in ToSet(Cycles[k])
  <2>1. PICK i \in P : b \in ToSet(sccs[i])
    BY <1>8
  <2>2. PICK k \in 1 .. Cardinality(P) : Nth(P, k) = i
    BY <1>12
  <2> QED BY <1>13, <2>1, <2>2
<1> QED BY <1>14, <1>15 DEF InCycles


\* Which blocks are blocked or on a loop is a matter of the diagram.
LEMMA PartsStay == ASSUME net' = net PROVE Blocked' = Blocked /\ OnLoops' = OnLoops
<1>1. Blocked' = Blocked
  BY GraphStays
<1>2. \A S : Inside(S)' = Inside(S)
  BY DEF Inside, Arcs
<1>3. \A some : Leads(some)' = Leads(some)
  BY DEF Leads
<1>4. Inside(Blocked)' = Inside(Blocked)
  BY <1>1 DEF Inside, Arcs
<1> QED BY <1>1, <1>4 DEF OnLoops, Leads

LEMMA PlacedStays ==
    ASSUME UNCHANGED <<net, dag, loop, loops, adj, sccs>>
    PROVE  /\ Blocked' = Blocked /\ OnLoops' = OnLoops /\ DagPart' = DagPart /\ LoopPart' = LoopPart
           /\ (InCycles(DOMAIN Cycles) = OnLoops /\ LoopPart = InCycles(1 .. loops))'
                 <=> InCycles(DOMAIN Cycles) = OnLoops /\ LoopPart = InCycles(1 .. loops)
<1>1. Blocked' = Blocked /\ OnLoops' = OnLoops
  BY PartsStay
<1>2. DagPart' = DagPart /\ LoopPart' = LoopPart /\ Cycles' = Cycles
  BY DEF DagPart, LoopPart, Cycles, IsCycle
<1> QED BY <1>1, <1>2 DEF InCycles

\* No block of the DAG part lies too deep for its schedule.
LEMMA LayerPlaces == ASSUME net \in Nets, Layer PROVE DagPart' = Block \ Blocked
<1> DEFINE d == Depths(Blocked)
<1>1. dag' = [k \in 0 .. N |-> {b \in Block \ Blocked : d[b] = k}]
  BY DEF Layer
<1>2. d \in [Block -> Nat] /\ \A b \in Block : d[b] <= N
  BY DepthsAre
<1>3. N \in Nat
  BY NetAssumption
<1> HIDE DEF d
<1>4. \A b \in Block : d[b] \in 0 .. N
  BY <1>2, <1>3
<1>5. DOMAIN dag' = 0 .. N /\ \A k \in 0 .. N : dag'[k] = {b \in Block \ Blocked : d[b] = k}
  BY <1>1
<1> QED BY <1>4, <1>5 DEF DagPart

LEMMA PlacedInvNext == ASSUME ScheduleInv, UpdateInv, PlacedInv, [Next]_vars PROVE PlacedInv'
<1>1. CASE Layer
  <2>1. /\ net \in Nets /\ phase = "layer" /\ UNCHANGED <<net, open, loop, loops, torn>> /\ loop = <<>>
        /\ phase' = IF Blocked = {} THEN "dag" ELSE "cycles"
    BY <1>1 DEF Layer, ScheduleInv, UpdateInv
  <2>2. DagPart' = Block \ Blocked'
    BY <1>1, <2>1, LayerPlaces, PartsStay
  <2>3. Blocked = {} => OnLoops' = {}
    BY <2>1, PartsStay DEF OnLoops
  <2>4. LoopPart' = {}
    BY <2>1 DEF LoopPart
  <2> QED BY <2>1, <2>2, <2>3, <2>4 DEF PlacedInv
<1>2. CASE FindCycles
  <2>1. phase = "cycles" /\ UNCHANGED <<net, phase, dag, open, loop, loops, torn>>
    BY <1>2 DEF FindCycles, layout
  <2>2. DagPart' = DagPart /\ Blocked' = Blocked
    BY <2>1, PartsStay DEF DagPart
  <2> QED BY <2>1, <2>2 DEF PlacedInv
<1>3. CASE CyclesFound
  <2>1. /\ net \in Nets /\ phase = "cycles" /\ phase' = "loops" /\ UNCHANGED <<net, dag, loop, loops, adj, sccs>>
        /\ TarjanInv /\ Unrepeated /\ adj = Succ(Blocked) /\ T!Done /\ loop = <<>> /\ loops = 0
    BY <1>3 DEF CyclesFound, ScheduleInv, UpdateInv, cycleSearch
  <2>2. InCycles(DOMAIN Cycles) = OnLoops
    BY <2>1, CyclesAreLoops
  <2>3. LoopPart = {} /\ InCycles(1 .. loops) = {}
    BY <2>1 DEF LoopPart, InCycles
  <2>4. DagPart' = Block \ Blocked' /\ (InCycles(DOMAIN Cycles) = OnLoops /\ LoopPart = InCycles(1 .. loops))'
    BY <2>1, <2>2, <2>3, PlacedStays DEF PlacedInv
  <2> QED BY <2>1, <2>4 DEF PlacedInv
<1>4. CASE NextLoop \/ Tear
  <2>1. /\ phase \in {"loops", "tear"} /\ phase' = "tear" /\ UNCHANGED <<net, dag, loop, loops, adj, sccs>>
    BY <1>4 DEF NextLoop, Tear, layout, cycleSearch
  <2>2. DagPart' = Block \ Blocked' /\ (InCycles(DOMAIN Cycles) = OnLoops /\ LoopPart = InCycles(1 .. loops))'
    BY <2>1, PlacedStays DEF PlacedInv
  <2> QED BY <2>1, <2>2 DEF PlacedInv
<1>5. CASE PlaceLoop
  <2>1. /\ net \in Nets /\ open \in Seq(Seq(Block)) /\ TearingInv /\ open # <<>>
        /\ phase = "tear" /\ phase' = "loops" /\ UNCHANGED <<net, dag, adj, sccs>> /\ loops' = loops + 1
        /\ CyclesOrdered /\ LoopsLayered /\ size = Len(Head(open)) /\ arcs = LocalArcs(Head(open))
    BY <1>5 DEF PlaceLoop, ScheduleInv, UpdateInv, cycleSearch
  <2>2. LoopPart' = LoopPart \cup ToSet(Head(open))
    BY <1>5, <2>1, PlacesLoop
  <2>3. /\ Cycles \in Seq(Seq(Block)) /\ Len(Cycles) \in Nat /\ loops \in 0 .. Len(Cycles)
        /\ open = SubSeq(Cycles, loops + 1, Len(Cycles))
    BY <2>1, SeqFacts DEF LoopsLayered, CyclesOrdered
  <2>4. Head(open) = Cycles[loops + 1]
    <3>1. loops + 1 <= Len(Cycles)
      BY <2>1, <2>3
    <3> QED BY <2>3, <3>1
  <2>5. InCycles(1 .. (loops + 1)) = InCycles(1 .. loops) \cup ToSet(Cycles[loops + 1])
    <3>1. 1 .. (loops + 1) = (1 .. loops) \cup {loops + 1}
      BY <2>3
    <3> QED BY <3>1 DEF InCycles
  <2>6. LoopPart = InCycles(1 .. loops) /\ InCycles(DOMAIN Cycles) = OnLoops
    BY <2>1 DEF PlacedInv
  <2>7. Cycles' = Cycles /\ OnLoops' = OnLoops /\ DagPart' = DagPart /\ Blocked' = Blocked
    BY <2>1, PartsStay DEF Cycles, IsCycle, DagPart
  <2>8. InCycles(DOMAIN Cycles)' = InCycles(DOMAIN Cycles) /\ InCycles(1 .. loops)' = InCycles(1 .. (loops + 1))
    BY <2>1, <2>7 DEF InCycles
  <2>9. (InCycles(DOMAIN Cycles) = OnLoops /\ LoopPart = InCycles(1 .. loops))'
    BY <2>2, <2>4, <2>5, <2>6, <2>7, <2>8
  <2> QED BY <2>1, <2>7, <2>9 DEF PlacedInv
<1>6. CASE Assembled
  <2>1. /\ phase = "loops" /\ open = <<>> /\ phase' = "dag" /\ UNCHANGED <<net, dag, loop, loops, adj, sccs>>
        /\ CyclesOrdered /\ LoopsLayered
    BY <1>6 DEF Assembled, UpdateInv, layout, cycleSearch
  <2>2. Cycles \in Seq(Seq(Block)) /\ Len(Cycles) \in Nat /\ DOMAIN Cycles = 1 .. Len(Cycles)
    BY <2>1, SeqFacts DEF CyclesOrdered
  <2>3. loops = Len(Cycles)
    <3>1. Len(Cycles) \in Nat /\ loops \in 0 .. Len(Cycles) /\ SubSeq(Cycles, loops + 1, Len(Cycles)) = <<>>
      BY <2>1, <2>2 DEF LoopsLayered
    <3>2. Cycles \in Seq(Seq(Block))
      BY <2>2
    <3>3. Len(SubSeq(Cycles, loops + 1, Len(Cycles))) = Len(Cycles) - loops
      BY <3>1, <3>2
    <3> QED BY <3>1, <3>3
  <2>4. LoopPart = OnLoops
    BY <2>1, <2>2, <2>3 DEF PlacedInv
  <2> QED BY <2>1, <2>4, PlacedStays DEF PlacedInv
<1>7. CASE DagLevel \/ DagDone \/ LoopLevel \/ Boost \/ GiveUp
  <2>1. /\ phase \in {"dag", "iterate"} /\ phase' \in {"dag", "iterate", "done", "failed"}
        /\ UNCHANGED <<net, dag, loop, loops, adj, sccs>>
    BY <1>7 DEF DagLevel, DagDone, LoopLevel, Boost, GiveUp, layout, cycleSearch
  <2> QED BY <2>1, PlacedStays DEF PlacedInv
<1>8. CASE UNCHANGED vars
  <2>1. UNCHANGED <<net, phase, dag, loop, loops, adj, sccs>>
    BY <1>8 DEF vars, layout, cycleSearch
  <2> QED BY <2>1, PlacedStays DEF PlacedInv
<1> QED BY <1>1, <1>2, <1>3, <1>4, <1>5, <1>6, <1>7, <1>8 DEF Next

LEMMA PlacedInvariant == Spec => []PlacedInv
<1>1. Init => PlacedInv
  BY DEF Init, PlacedInv
<1>2. ScheduleInv /\ UpdateInv /\ PlacedInv /\ [Next]_vars => PlacedInv'
  BY PlacedInvNext
<1> QED BY <1>1, <1>2, ScheduleInvariant, UpdateInvariant, PTL DEF Spec

\* The order leaves out exactly the blocks that are fed by an algebraic loop and on
\* no loop themselves (assemble, compute_depths, process_loops), in every diagram:
\* no block lies deeper than the DAG schedule goes, no loop is missed, no layer of a
\* loop is lost.  Where there are no such blocks, the update comes to rest.
THEOREM OnlyFedByLoopsIsDropped == Spec => [](WhatIsScheduled /\ SettlesUnlessFed)
<1>1. PlacedInv => WhatIsScheduled
  <2> SUFFICES ASSUME PlacedInv, phase \in {"dag", "iterate", "done", "failed"}
               PROVE  Scheduled = (Block \ Blocked) \cup OnLoops
    BY DEF WhatIsScheduled
  <2>1. DagPart = Block \ Blocked /\ LoopPart = OnLoops
    BY DEF PlacedInv
  <2> QED BY <2>1 DEF Scheduled, DagPart, LoopPart
<1>2. ScheduleInv /\ WhatIsScheduled /\ UpdateSettles => SettlesUnlessFed
  <2> SUFFICES ASSUME ScheduleInv, WhatIsScheduled, UpdateSettles,
                      phase = "done", Blocked \subseteq OnLoops, iteration >= loops
               PROVE  fresh = Block /\ carried = Connections
    BY DEF SettlesUnlessFed
  <2>1. Scheduled = (Block \ Blocked) \cup OnLoops
    BY DEF WhatIsScheduled
  <2>2. Blocked \subseteq Block
    BY BlockedAreBlocks DEF ScheduleInv
  <2>3. OnLoops \subseteq Blocked
    BY DEF OnLoops
  <2>4. Scheduled = Block
    BY <2>1, <2>2, <2>3
  <2> QED BY <2>4 DEF UpdateSettles, LoopsSettle
<1> QED BY <1>1, <1>2, PlacedInvariant, ScheduleInvariant, UpdateComesToRest, PTL

-----------------------------------------------------------------------------
(* Types: the unsigned counters of both searches stay in their ranges *)

\* A degree is that of the live blocks or was when its block was dropped, and the
\* places handed out lie in the loop.
LEMMA TearingStaysTyped ==
    ASSUME TearingInv, E!TypeOK, E!Next
    PROVE  E!TypeOK'
<1>1. TearingInv'
  BY TearingStep
<1>2. size' = size /\ arcs' = arcs /\ E!Block' = E!Block /\ size \in Nat
  BY DEF E!Next, E!PeelSink, E!SinksScanned, E!PeelSource, E!SourcesScanned, E!TakeBest, E!Block, TearingInv, TearingTypes
<1>3. /\ tearing' \in {"sinks", "sources", "core", "done"} /\ progressed' \in BOOLEAN
      /\ cursor' \in 1 .. (size + 1)
  <2>1. CASE E!SinksScanned \/ E!SourcesScanned
    <3>1. cursor' = 1 /\ tearing' \in {"sinks", "sources", "core", "done"}
      BY <2>1 DEF E!SinksScanned, E!SourcesScanned
    <3>2. progressed' = progressed \/ progressed' = FALSE
      BY <2>1 DEF E!SinksScanned, E!SourcesScanned
    <3>3. progressed' \in BOOLEAN
      BY <3>2, Zenon DEF E!TypeOK
    <3>4. 1 \in 1 .. (size + 1)
      BY <1>2
    <3> QED BY <3>1, <3>3, <3>4
  <2>2. CASE E!PeelSink \/ E!PeelSource
    <3>1. /\ tearing' = tearing /\ progressed' = TRUE
          /\ \E u \in E!Live : cursor' = u + 1
      BY <2>2 DEF E!PeelSink, E!PeelSource, E!Scanned
    <3>2. E!Live \subseteq 1 .. size
      BY DEF E!Live, E!Block
    <3> QED BY <1>2, <3>1, <3>2 DEF E!TypeOK
  <2>3. CASE E!TakeBest
    BY <1>2, <2>3 DEF E!TakeBest, E!TypeOK
  <2> QED BY <2>1, <2>2, <2>3 DEF E!Next
<1>4. left' \in 0 .. size /\ right' \in 0 .. size
  <2>1. IsFiniteSet(E!Live')
    <3>1. IsFiniteSet(1 .. size)
      BY <1>2, FS_Interval
    <3>2. E!Live' \in SUBSET (1 .. size)
      BY <1>2 DEF E!Live, E!Block
    <3> QED BY <3>1, <3>2, FS_Subset
  <2>2. Cardinality(E!Live') \in Nat
    BY <2>1, FS_CardinalityType
  <2>3. right' - left' = Cardinality(E!Live') /\ left' \in Nat /\ right' \in Int /\ right' <= size
    BY <1>1, <1>2, SameOperators DEF TearingInv, TearingTypes, E!OrderIsLinear
  <2> QED BY <1>2, <2>2, <2>3
<1>5. /\ \A v \in removed' : pos'[v] \in 0 .. (size - 1)
      /\ \A v \in E!Live' : outdeg'[v] \in Nat /\ indeg'[v] \in Nat
  <2>1. \A v \in removed' : pos'[v] \in (0 .. (left' - 1)) \cup (right' .. (size - 1))
    BY <1>1, <1>2 DEF TearingInv, E!OrderIsLinear
  <2>2. \A v \in removed' : pos'[v] \in 0 .. (size - 1)
    BY <1>2, <1>4, <2>1
  <2>3. IsFiniteSet(arcs')
    BY <1>1 DEF TearingInv, TearingTypes
  <2>4. ASSUME NEW v \in E!Live' PROVE outdeg'[v] \in Nat /\ indeg'[v] \in Nat
    <3>1. outdeg'[v] = Cardinality(ArcsOut(arcs', v, E!Live')) /\ indeg'[v] = Cardinality(ArcsIn(arcs', v, E!Live'))
      BY <1>1, DegreesOf DEF TearingInv
    <3>2. ArcsOut(arcs', v, E!Live') \in SUBSET arcs' /\ ArcsIn(arcs', v, E!Live') \in SUBSET arcs'
      BY DEF ArcsOut, ArcsIn
    <3>3. IsFiniteSet(ArcsOut(arcs', v, E!Live')) /\ IsFiniteSet(ArcsIn(arcs', v, E!Live'))
      BY <2>3, <3>2, FS_Subset
    <3> QED BY <3>1, <3>3, FS_CardinalityType
  <2> QED BY <2>2, <2>4
<1>6. /\ \A v \in E!Block \ removed' : pos'[v] \in 0 .. (size - 1)
      /\ \A v \in removed' : outdeg'[v] \in Nat /\ indeg'[v] \in Nat
  <2>1. CASE E!SinksScanned \/ E!SourcesScanned
    BY <2>1 DEF E!SinksScanned, E!SourcesScanned, E!TypeOK
  <2>2. CASE E!PeelSink \/ E!PeelSource \/ E!TakeBest
    <3>1. PICK u \in E!Live : E!ToFront(u) \/ E!ToBack(u)
      BY <2>2 DEF E!PeelSink, E!PeelSource, E!TakeBest, E!Scanned, E!Best
    <3>2. /\ removed' = removed \cup {u} /\ u \in E!Block
          /\ \A v \in E!Block \ {u} : pos'[v] = pos[v]
      BY <3>1 DEF E!ToFront, E!ToBack, E!Drop, E!Live, E!TypeOK
    <3>3. \A v \in removed' : v \in E!Block /\ outdeg'[v] = outdeg[v] /\ indeg'[v] = indeg[v]
      <4>1. /\ indeg' = [v \in E!Block |-> IF v \in E!Live \ {u} THEN indeg[v] - E!Outs(u, v) ELSE indeg[v]]
            /\ outdeg' = [v \in E!Block |-> IF v \in E!Live \ {u} THEN outdeg[v] - E!Outs(v, u) ELSE outdeg[v]]
        BY <3>1 DEF E!ToFront, E!ToBack, E!Drop
      <4>2. \A v \in removed' : v \in E!Block /\ v \notin E!Live \ {u}
        BY <3>2 DEF E!Live, E!TypeOK
      <4> QED BY <4>1, <4>2
    <3> QED BY <3>2, <3>3 DEF E!TypeOK
  <2> QED BY <2>1, <2>2 DEF E!Next
<1>7. /\ outdeg' \in [E!Block -> Int] /\ indeg' \in [E!Block -> Int] /\ pos' \in [E!Block -> Int]
      /\ removed' \subseteq E!Block
  BY <1>1, <1>2 DEF TearingInv, TearingTypes
<1>8. /\ outdeg' \in [E!Block -> Nat] /\ indeg' \in [E!Block -> Nat]
      /\ pos' \in [E!Block -> 0 .. (size - 1)]
  <2>1. \A v \in E!Block : v \in removed' \/ v \in E!Live'
    BY <1>2 DEF E!Live
  <2>2. \A v \in E!Block : outdeg'[v] \in Nat /\ indeg'[v] \in Nat
    BY <1>5, <1>6, <2>1
  <2>3. \A v \in E!Block : pos'[v] \in 0 .. (size - 1)
    BY <1>5, <1>6
  <2> QED BY <1>7, <2>2, <2>3
<1> QED BY <1>2, <1>3, <1>4, <1>7, <1>8 DEF E!TypeOK

\* A call: all degrees are numbers of arcs.
LEMMA TearingStartsTyped ==
    ASSUME NEW n \in Nat, NEW A, IsFiniteSet(A), E!Call(n, A)
    PROVE  E!TypeOK'
<1>1. /\ size' = n /\ removed' = {} /\ left' = 0 /\ right' = n
      /\ tearing' = "sinks" /\ cursor' = 1 /\ progressed' = FALSE
      /\ outdeg' = [v \in 1 .. n |-> Cardinality({a \in A : a[1] = v})]
      /\ indeg' = [v \in 1 .. n |-> Cardinality({a \in A : a[2] = v})]
      /\ pos' = [v \in 1 .. n |-> 0]
  BY SameOperators DEF E!Call
<1>2. ASSUME NEW v \in 1 .. n
      PROVE  Cardinality({a \in A : a[1] = v}) \in Nat /\ Cardinality({a \in A : a[2] = v}) \in Nat
  <2>1. IsFiniteSet({a \in A : a[1] = v}) /\ IsFiniteSet({a \in A : a[2] = v})
    BY FS_Subset
  <2> QED BY <2>1, FS_CardinalityType
<1>3. outdeg' \in [1 .. n -> Nat] /\ indeg' \in [1 .. n -> Nat]
  BY <1>1, <1>2
<1>4. pos' \in [1 .. n -> 0 .. (n - 1)]
  BY <1>1
<1>5. E!Block' = 1 .. n
  BY <1>1 DEF E!Block
<1>6. progressed' \in BOOLEAN
  BY <1>1, Zenon
<1>7. size' \in Nat /\ left' \in 0 .. n /\ right' \in 0 .. n /\ cursor' \in 1 .. (n + 1)
  BY <1>1
<1>8. removed' \subseteq 1 .. n /\ tearing' \in {"sinks", "sources", "core", "done"} /\ size' = n
  BY <1>1
<1> QED BY <1>3, <1>4, <1>5, <1>6, <1>7, <1>8, Zenon DEF E!TypeOK

\* The loops are apart, so there are no more than blocks.
LEMMA LoopsCounted == ASSUME N \in Nat, CyclesOrdered PROVE Len(Cycles) <= N
<1> DEFINE f == [i \in 1 .. Len(Cycles) |-> CHOOSE b \in ToSet(Cycles[i]) : TRUE]
<1>1. Len(Cycles) \in Nat /\ DOMAIN Cycles = 1 .. Len(Cycles) /\ \A i \in 1 .. Len(Cycles) : Cycles[i] \in Seq(Block)
  BY SeqFacts DEF CyclesOrdered
<1>2. ASSUME NEW i \in 1 .. Len(Cycles) PROVE f[i] \in ToSet(Cycles[i])
  BY <1>1 DEF CyclesOrdered
<1>3. ASSUME NEW i \in 1 .. Len(Cycles) PROVE ToSet(Cycles[i]) \subseteq Block
  <2>1. Cycles[i] \in Seq(Block)
    BY <1>1
  <2>2. DOMAIN Cycles[i] = 1 .. Len(Cycles[i]) /\ \A j \in 1 .. Len(Cycles[i]) : Cycles[i][j] \in Block
    BY <2>1, SeqFacts
  <2> QED BY <2>2 DEF ToSet
<1>4. \A i, j \in 1 .. Len(Cycles) : f[i] = f[j] => i = j
  <2> HIDE DEF f
  <2>1. \A i, j \in 1 .. Len(Cycles) : i # j => ToSet(Cycles[i]) \cap ToSet(Cycles[j]) = {}
    BY <1>1 DEF CyclesOrdered
  <2> QED BY <1>2, <2>1
<1>5. f \in Injection(1 .. Len(Cycles), Block)
  <2>1. f \in [1 .. Len(Cycles) -> Block]
    <3>1. \A i \in 1 .. Len(Cycles) : f[i] \in Block
      BY <1>2, <1>3
    <3> QED BY <3>1
  <2> HIDE DEF f
  <2> QED BY <1>4, <2>1 DEF Injection, IsInjective
<1> HIDE DEF f
<1>6. /\ IsFiniteSet(Block) /\ Cardinality(Block) = N
      /\ Cardinality(1 .. Len(Cycles)) = Len(Cycles)
  <2>1. \A n \in Nat : IsFiniteSet(1 .. n) /\ Cardinality(1 .. n) = n
    BY FS_Interval
  <2> QED BY <1>1, <2>1 DEF Block
<1>7. Cardinality(1 .. Len(Cycles)) <= Cardinality(Block)
  BY <1>5, <1>6, FS_Injection
<1> QED BY <1>6, <1>7

\* The three parts of the type invariant.
LayoutTypes ==
    /\ phase # "layer" => dag \in [0 .. N -> SUBSET Block]
    /\ loop \in Seq(SUBSET Block) /\ loops \in 0 .. N /\ torn \subseteq Connections
PassTypes == phase \in Phases /\ depth \in Nat /\ iteration \in 0 .. (MaxIterations + 1)

LEMMA TypeOKIs ==
    ASSUME ScheduleInv, UpdateInv
    PROVE  TypeOK <=> LayoutTypes /\ PassTypes /\ T!TypeOK /\ E!TypeOK
BY DEF TypeOK, ScheduleInv, UpdateInv, LayoutTypes, PassTypes

LEMMA SearchTyped ==
    /\ CycleTypes => T!TypeOK
    /\ CycleTypes' => T!TypeOK'
    /\ T!TypeOK /\ UNCHANGED cycleSearch => T!TypeOK'
    /\ E!TypeOK /\ UNCHANGED ordering => E!TypeOK'
<1>1. CycleTypes => T!TypeOK
  BY DEF CycleTypes, T!TypeOK, T!Node, Block, Graph
<1>2. CycleTypes' => T!TypeOK'
  BY DEF CycleTypes, T!TypeOK, T!Node, Block, Graph
<1>3. T!TypeOK /\ UNCHANGED cycleSearch => T!TypeOK'
  BY DEF cycleSearch, T!TypeOK
<1>4. E!TypeOK /\ UNCHANGED ordering => E!TypeOK'
  BY DEF ordering, E!TypeOK, E!Block
<1> QED BY <1>1, <1>2, <1>3, <1>4

LEMMA TypeOKInit == Init => TypeOK
<1> SUFFICES ASSUME Init PROVE TypeOK
  OBVIOUS
<1>1. N \in Nat /\ MaxIterations \in Nat
  BY NetAssumption
<1>2. T!TypeOK
  BY <1>1 DEF Init, T!Init, T!TypeOK, T!Unvisited
<1>3. E!TypeOK
  <2>1. size = 0 /\ removed = {} /\ outdeg = <<>> /\ indeg = <<>> /\ pos = <<>>
    BY DEF Init, E!Init
  <2>2. E!Block = {}
    BY <2>1 DEF E!Block
  <2>3. \A S : <<>> \in [{} -> S]
    OBVIOUS
  <2>4. progressed \in BOOLEAN
    BY Zenon DEF Init, E!Init
  <2>5. /\ size \in Nat /\ left \in 0 .. size /\ right \in 0 .. size /\ cursor \in 1 .. (size + 1)
        /\ tearing \in {"sinks", "sources", "core", "done"}
    BY DEF Init, E!Init
  <2>6. /\ outdeg \in [E!Block -> Nat] /\ indeg \in [E!Block -> Nat] /\ removed \subseteq E!Block
        /\ pos \in [E!Block -> 0 .. (size - 1)]
    BY <2>1, <2>2, <2>3
  <2> QED BY <2>4, <2>5, <2>6, Zenon DEF E!TypeOK
<1> QED BY <1>1, <1>2, <1>3 DEF Init, TypeOK, Phases

\* What is assembled.
LEMMA LayoutStaysTyped ==
    ASSUME ScheduleInv, ScheduleInv', UpdateInv, UpdateInv', LayoutTypes, [Next]_vars
    PROVE  LayoutTypes'
<1>1. N \in Nat
  BY NetAssumption
<1>2. CASE Layer
  <2>1. /\ dag' = [k \in 0 .. N |-> {b \in Block \ Blocked : Depths(Blocked)[b] = k}]
        /\ UNCHANGED <<net, loop, loops, torn>>
    BY <1>2 DEF Layer
  <2>2. dag' \in [0 .. N -> SUBSET Block] /\ Connections' = Connections
    BY <2>1 DEF Connections, Arcs
  <2> QED BY <2>1, <2>2 DEF LayoutTypes
<1>3. CASE PlaceLoop
  <2>1. phase = "tear" /\ phase' = "loops" /\ dag' = dag
    BY <1>3 DEF PlaceLoop
  <2>2. CyclesOrdered' /\ LoopsLayered'
    BY <2>1 DEF UpdateInv
  <2>3. CyclesOrdered /\ LoopsLayered /\ open # <<>> /\ loops' = loops + 1
    BY <1>3, <2>1 DEF PlaceLoop, ScheduleInv, UpdateInv
  <2>4. Len(Cycles) \in Nat /\ Len(Cycles) <= N
    BY <1>1, <2>3, LoopsCounted DEF CyclesOrdered
  <2>5. loop' \in Seq(SUBSET Block) /\ torn' \subseteq Connections'
    BY <2>2 DEF LoopsLayered
  <2>6. loops' \in 0 .. N
    <3>1. loops \in 0 .. Len(Cycles) /\ SubSeq(Cycles, loops + 1, Len(Cycles)) # <<>>
      BY <2>3 DEF LoopsLayered
    <3>2. loops + 1 <= Len(Cycles)
      BY <2>4, <3>1
    <3> QED BY <1>1, <2>3, <2>4, <3>1, <3>2
  <2> QED BY <2>1, <2>5, <2>6 DEF LayoutTypes
<1>4. CASE ~Layer /\ ~PlaceLoop
  <2>1. /\ UNCHANGED <<net, dag, loop, loops, torn>>
        /\ phase' = "layer" => phase = "layer"
        /\ phase = "layer" => phase' = "layer"
    BY <1>4 DEF Next, vars, layout, FindCycles, CyclesFound, NextLoop, Tear, Assembled,
                DagLevel, DagDone, LoopLevel, Boost, GiveUp
  <2>2. Connections' = Connections
    BY <2>1 DEF Connections, Arcs
  <2> QED BY <2>1, <2>2 DEF LayoutTypes
<1> QED BY <1>2, <1>3, <1>4

LEMMA PassStaysTyped == ASSUME PassTypes, [Next]_vars PROVE PassTypes'
<1>1. MaxIterations \in Nat
  BY NetAssumption
<1>2. phase' \in Phases
  BY DEF PassTypes, Phases, Next, vars, layout, Layer, FindCycles, CyclesFound, NextLoop, Tear, PlaceLoop, Assembled,
         DagLevel, DagDone, LoopLevel, Boost, GiveUp
<1>3. CASE Layer \/ FindCycles \/ CyclesFound \/ NextLoop \/ Tear \/ PlaceLoop \/ Assembled \/ GiveUp \/ UNCHANGED vars
  <2>1. UNCHANGED <<depth, iteration>>
    BY <1>3 DEF vars, values, Layer, FindCycles, CyclesFound, NextLoop, Tear, PlaceLoop, Assembled, GiveUp
  <2> QED BY <1>2, <2>1 DEF PassTypes
<1>4. CASE DagLevel \/ LoopLevel
  <2>1. iteration' = iteration /\ depth' = depth + 1
    BY <1>4 DEF DagLevel, LoopLevel
  <2> QED BY <1>2, <2>1 DEF PassTypes
<1>5. CASE DagDone
  BY <1>1, <1>2, <1>5 DEF DagDone, PassTypes
<1>6. CASE Boost
  <2>1. iteration < MaxIterations /\ (UNCHANGED <<iteration, depth>> \/ (iteration' = iteration + 1 /\ depth' = 1))
    BY <1>6 DEF Boost, IterationsLeft
  <2> QED BY <1>1, <1>2, <2>1 DEF PassTypes
<1> QED BY <1>3, <1>4, <1>5, <1>6 DEF Next

\* The two searches.
LEMMA SearchesStayTyped ==
    ASSUME ScheduleInv, ScheduleInv', T!TypeOK, E!TypeOK, [Next]_vars
    PROVE  T!TypeOK' /\ E!TypeOK'
<1>1. CASE Layer
  <2>1. /\ UNCHANGED ordering
        /\ UNCHANGED cycleSearch \/ phase' = "cycles"
    BY <1>1 DEF Layer
  <2> QED BY <2>1, SearchTyped DEF ScheduleInv, TarjanInv
<1>2. CASE FindCycles
  <2>1. UNCHANGED ordering /\ phase' = "cycles"
    BY <1>2 DEF FindCycles
  <2> QED BY <2>1, SearchTyped DEF ScheduleInv, TarjanInv
<1>3. CASE NextLoop
  <2>1. /\ net \in Nets /\ open # <<>> /\ open \in Seq(Seq(Block)) /\ UNCHANGED cycleSearch
        /\ E!Call(Len(Head(open)), LocalArcs(Head(open)))
    BY <1>3 DEF NextLoop, ScheduleInv
  <2>2. Head(open) \in Seq(Block)
    BY <2>1
  <2>3. Len(Head(open)) \in Nat /\ IsFiniteSet(LocalArcs(Head(open)))
    BY <2>1, <2>2, LocalArcsFit
  <2> QED BY <2>1, <2>3, SearchTyped, TearingStartsTyped
<1>4. CASE Tear
  <2>1. UNCHANGED cycleSearch /\ E!Next /\ TearingInv
    BY <1>4 DEF Tear, ScheduleInv
  <2> QED BY <2>1, SearchTyped, TearingStaysTyped
<1>5. CASE CyclesFound \/ PlaceLoop \/ Assembled \/ DagLevel \/ DagDone \/ LoopLevel \/ Boost \/ GiveUp \/ UNCHANGED vars
  <2>1. UNCHANGED cycleSearch /\ UNCHANGED ordering
    BY <1>5 DEF vars, CyclesFound, PlaceLoop, Assembled, DagLevel, DagDone, LoopLevel, Boost, GiveUp
  <2> QED BY <2>1, SearchTyped
<1> QED BY <1>1, <1>2, <1>3, <1>4, <1>5 DEF Next

\* All that the schedule and its searches count stays in range, for every diagram:
\* the degrees els_feedback_conns decrements are never below zero, whatever
\* connections run in parallel, its places and cursor stay inside the loop, the
\* visiting numbers of tarjan_sccs do not exceed the number of blocks, and there are
\* no more loops than blocks (the usize arithmetic of assemble and the searches).
THEOREM ScheduleTypes == Spec => []TypeOK
<1>1. Init => TypeOK
  BY TypeOKInit
<1>2. ScheduleInv /\ ScheduleInv' /\ UpdateInv /\ UpdateInv' /\ TypeOK /\ [Next]_vars => TypeOK'
  <2> SUFFICES ASSUME ScheduleInv, ScheduleInv', UpdateInv, UpdateInv', TypeOK, [Next]_vars
               PROVE  TypeOK'
    OBVIOUS
  <2>1. LayoutTypes /\ PassTypes /\ T!TypeOK /\ E!TypeOK
    BY TypeOKIs
  <2>2. LayoutTypes' /\ PassTypes' /\ T!TypeOK' /\ E!TypeOK'
    BY <2>1, LayoutStaysTyped, PassStaysTyped, SearchesStayTyped
  <2>3. /\ net' \in Nets /\ open' \in Seq(Seq(Block))
        /\ fresh' \subseteq Block /\ carried' \subseteq Connections'
    BY DEF ScheduleInv, UpdateInv
  <2> QED BY <2>2, <2>3 DEF TypeOK, LayoutTypes, PassTypes
<1> QED BY <1>1, <1>2, ScheduleInvariant, UpdateInvariant, PTL DEF Spec

=============================================================================
