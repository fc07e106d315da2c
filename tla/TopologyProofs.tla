----------------------------- MODULE TopologyProofs -----------------------------
(***************************************************************************)
(* Proofs about Topology for every system, any number of edits and lists   *)
(* and queues of any length: the indices, the evaluation graph and what is *)
(* in the system follow every edit.                                        *)
(***************************************************************************)
EXTENDS Topology, Induction

USE SystemAssumption

-----------------------------------------------------------------------------
(* Kept, along the list.                                                   *)

KeptNext(list, places, s, i) == IF i \in places THEN Append(s, list[i]) ELSE s
KeptTo(f, list, places, n) ==
    f = [i \in 0 .. n |-> IF i = 0 THEN <<>>
                          ELSE IF i \in places THEN Append(f[i - 1], list[i]) ELSE f[i - 1]]

\* The function Kept is defined by exists for every list.
LEMMA KeptExists ==
  ASSUME NEW list, NEW places PROVE \A n \in Nat : \E f : KeptTo(f, list, places, n)
  <1> DEFINE T == {n \in Nat : \E f : KeptTo(f, list, places, n)}
  <1>1. 0 \in T
    <2>1. KeptTo([i \in 0 .. 0 |-> <<>>], list, places, 0) BY DEF KeptTo
    <2>2. QED BY <2>1
  <1>2. ASSUME NEW n \in T PROVE n + 1 \in T
    <2>1. PICK f : KeptTo(f, list, places, n) OBVIOUS
    <2> DEFINE Value(h, i) == IF i \in places THEN Append(h[i - 1], list[i]) ELSE h[i - 1]
               g == [i \in 0 .. n + 1 |-> IF i <= n THEN f[i] ELSE Value(f, i)]
    <2>2. KeptTo(g, list, places, n + 1)
      <3>1. n \in Nat OBVIOUS
      <3>2. \A i \in 0 .. n : g[i] = f[i] BY <3>1
      <3>3. ASSUME NEW i \in 0 .. n + 1 PROVE g[i] = IF i = 0 THEN <<>> ELSE Value(g, i)
        <4>1. CASE i \in 0 .. n
          <5>1. i # 0 => i - 1 \in 0 .. n BY <4>1, <3>1
          <5>2. f[i] = IF i = 0 THEN <<>> ELSE Value(f, i) BY <2>1, <4>1 DEF KeptTo
          <5>3. g[i] = f[i] BY <4>1, <3>2
          <5> HIDE DEF g
          <5>4. QED BY <5>1, <5>2, <5>3, <3>2
        <4>2. CASE i = n + 1
          <5>1. i # 0 /\ i - 1 = n /\ ~(i <= n) BY <4>2, <3>1
          <5>2. g[i] = Value(f, i) BY <5>1
          <5>3. g[i - 1] = f[i - 1] BY <5>1, <3>2, <3>1
          <5> HIDE DEF g
          <5>4. QED BY <5>1, <5>2, <5>3
        <4>3. QED BY <4>1, <4>2, <3>1
      <3>4. QED BY <3>3 DEF KeptTo
    <2>3. QED BY <2>2
  <1>3. QED BY <1>1, <1>2, SetInduction

\* Kept is the last value of the function it is defined by.
LEMMA KeptFunction ==
  ASSUME NEW list, NEW places, Len(list) \in Nat
  PROVE  \E f : KeptTo(f, list, places, Len(list)) /\ Kept(list, places) = f[Len(list)]
  <1>1. \E f : KeptTo(f, list, places, Len(list)) BY KeptExists
  <1> DEFINE F == CHOOSE f : f = [i \in 0 .. Len(list) |->
                    IF i = 0 THEN <<>>
                    ELSE IF i \in places THEN Append(f[i - 1], list[i]) ELSE f[i - 1]]
  <1>2. F = [i \in 0 .. Len(list) |->
                IF i = 0 THEN <<>>
                ELSE IF i \in places THEN Append(F[i - 1], list[i]) ELSE F[i - 1]]
    BY <1>1 DEF KeptTo
  <1>3. Kept(list, places) = F[Len(list)] BY DEF Kept
  <1>4. QED BY <1>2, <1>3 DEF KeptTo

\* What the first n steps of Kept have made of a list over S.
KeptSoFar(s, list, places, n, S) ==
    /\ s \in Seq(S)
    /\ ToSet(s) = {list[k] : k \in places \cap (1 .. n)}
    /\ (\A j, k \in places \cap (1 .. n) : list[j] = list[k] => j = k)
          => \A j, k \in DOMAIN s : s[j] = s[k] => j = k
    /\ 1 .. n \subseteq places => Len(s) = n /\ \A k \in 1 .. n : s[k] = list[k]

\* What Append does, in the form the proofs below use.
LEMMA AppendFacts ==
  ASSUME NEW S, NEW s \in Seq(S), NEW e \in S
  PROVE  /\ Append(s, e) \in Seq(S)
         /\ Len(Append(s, e)) = Len(s) + 1
         /\ DOMAIN Append(s, e) = 1 .. Len(s) + 1
         /\ \A k \in 1 .. Len(s) : Append(s, e)[k] = s[k]
         /\ Append(s, e)[Len(s) + 1] = e
         /\ ToSet(Append(s, e)) = ToSet(s) \cup {e}
  <1>1. /\ Append(s, e) \in Seq(S)
        /\ Len(Append(s, e)) = Len(s) + 1
        /\ DOMAIN Append(s, e) = 1 .. Len(s) + 1
        /\ \A k \in 1 .. Len(s) : Append(s, e)[k] = s[k]
        /\ Append(s, e)[Len(s) + 1] = e
    OBVIOUS
  <1>2. Len(s) \in Nat /\ DOMAIN s = 1 .. Len(s) OBVIOUS
  <1>3. 1 .. Len(s) + 1 = (1 .. Len(s)) \cup {Len(s) + 1} BY <1>2
  <1>4. ToSet(Append(s, e)) = ToSet(s) \cup {e}
    BY <1>1, <1>2, <1>3 DEF ToSet
  <1>5. QED BY <1>1, <1>4

\* One more item is kept or dropped; the others stay.
LEMMA KeptStep ==
  ASSUME NEW S, NEW list \in Seq(S), NEW places, NEW n \in Nat, n + 1 <= Len(list),
         NEW s, KeptSoFar(s, list, places, n, S)
  PROVE  KeptSoFar(KeptNext(list, places, s, n + 1), list, places, n + 1, S)
  <1> DEFINE r == KeptNext(list, places, s, n + 1)
  <1>1. n + 1 \in 1 .. Len(list) /\ list[n + 1] \in S /\ Len(list) \in Nat
    OBVIOUS
  <1>2. 1 .. n + 1 = (1 .. n) \cup {n + 1} OBVIOUS
  <1>3. s \in Seq(S) /\ Len(s) \in Nat /\ DOMAIN s = 1 .. Len(s) BY DEF KeptSoFar
  <1>4. CASE n + 1 \notin places
    <2>1. r = s BY <1>4 DEF KeptNext
    <2>2. places \cap (1 .. n + 1) = places \cap (1 .. n) BY <1>4, <1>2
    <2>3. ~(1 .. n + 1 \subseteq places) BY <1>4, <1>2
    <2>4. QED BY <2>1, <2>2, <2>3 DEF KeptSoFar
  <1>5. CASE n + 1 \in places
    <2>1. r = Append(s, list[n + 1]) BY <1>5 DEF KeptNext
    <2>2. places \cap (1 .. n + 1) = (places \cap (1 .. n)) \cup {n + 1} BY <1>5, <1>2
    <2>3. /\ r \in Seq(S) /\ Len(r) = Len(s) + 1 /\ DOMAIN r = 1 .. Len(s) + 1
          /\ \A k \in 1 .. Len(s) : r[k] = s[k]
          /\ r[Len(s) + 1] = list[n + 1]
          /\ ToSet(r) = ToSet(s) \cup {list[n + 1]}
      <3>1. s \in Seq(S) /\ list[n + 1] \in S BY <1>1, <1>3
      <3> HIDE DEF r
      <3>2. QED BY <2>1, <3>1, AppendFacts
    <2> HIDE DEF r
    <2>4. ToSet(r) = {list[k] : k \in places \cap (1 .. n + 1)}
      BY <2>2, <2>3 DEF KeptSoFar
    <2>5. ASSUME \A j, k \in places \cap (1 .. n + 1) : list[j] = list[k] => j = k,
                 NEW j \in DOMAIN r, NEW k \in DOMAIN r, r[j] = r[k]
          PROVE  j = k
      <3>1. \A i, l \in DOMAIN s : s[i] = s[l] => i = l
        BY <2>5, <2>2 DEF KeptSoFar
      <3>2. ASSUME NEW i \in 1 .. Len(s) PROVE r[i] # list[n + 1]
        <4>1. r[i] \in ToSet(s) BY <2>3, <1>3 DEF ToSet
        <4>2. PICK l \in places \cap (1 .. n) : r[i] = list[l] BY <4>1 DEF KeptSoFar
        <4>3. l # n + 1 BY <4>2
        <4>4. QED BY <4>2, <4>3, <2>5, <2>2
      <3>3. j \in 1 .. Len(s) \/ j = Len(s) + 1 BY <2>3, <1>3
      <3>4. k \in 1 .. Len(s) \/ k = Len(s) + 1 BY <2>3, <1>3
      <3>5. QED BY <3>1, <3>2, <3>3, <3>4, <2>3, <2>5, <1>3
    <2>6. ASSUME 1 .. n + 1 \subseteq places
          PROVE  Len(r) = n + 1 /\ \A k \in 1 .. n + 1 : r[k] = list[k]
      <3>1. Len(s) = n /\ \A k \in 1 .. n : s[k] = list[k]
        BY <2>6, <1>2 DEF KeptSoFar
      <3>2. QED BY <3>1, <2>3, <1>2
    <2>7. QED BY <2>3, <2>4, <2>5, <2>6 DEF KeptSoFar, r
  <1>6. QED BY <1>4, <1>5

\* What Kept returns: a list of the elements at the places, each once if they
\* differ there, and the list itself if all are kept.
LEMMA KeptFacts ==
  ASSUME NEW S, NEW list \in Seq(S), NEW places
  PROVE  KeptSoFar(Kept(list, places), list, places, Len(list), S)
  <1>1. Len(list) \in Nat OBVIOUS
  <1>2. PICK f : KeptTo(f, list, places, Len(list)) /\ Kept(list, places) = f[Len(list)]
    BY <1>1, KeptFunction
  <1> DEFINE T == {n \in Nat : n <= Len(list) => KeptSoFar(f[n], list, places, n, S)}
  <1>3. 0 \in T
    <2>1. f[0] = <<>> BY <1>1, <1>2 DEF KeptTo
    <2>2. 1 .. 0 = {} OBVIOUS
    <2>3. <<>> \in Seq(S) /\ Len(<<>>) = 0 /\ DOMAIN <<>> = {} OBVIOUS
    <2>4. ToSet(<<>>) = {} BY <2>3 DEF ToSet
    <2>5. KeptSoFar(f[0], list, places, 0, S) BY <2>1, <2>2, <2>3, <2>4 DEF KeptSoFar
    <2>6. QED BY <2>5
  <1>4. ASSUME NEW n \in T PROVE n + 1 \in T
    <2>1. SUFFICES ASSUME n + 1 <= Len(list)
                   PROVE  KeptSoFar(f[n + 1], list, places, n + 1, S)
      OBVIOUS
    <2>2. n \in Nat /\ n <= Len(list) BY <2>1, <1>1
    <2>3. KeptSoFar(f[n], list, places, n, S) BY <2>2
    <2>4. n + 1 \in 0 .. Len(list) /\ n + 1 # 0 /\ n + 1 - 1 = n BY <2>1, <2>2, <1>1
    <2>5. f[n + 1] = KeptNext(list, places, f[n], n + 1)
      <3>1. \A i \in 0 .. Len(list) :
               f[i] = IF i = 0 THEN <<>>
                      ELSE IF i \in places THEN Append(f[i - 1], list[i]) ELSE f[i - 1]
        BY <1>2 DEF KeptTo
      <3>2. f[n + 1] = IF n + 1 \in places THEN Append(f[n], list[n + 1]) ELSE f[n]
        BY <3>1, <2>4
      <3>3. QED BY <3>2 DEF KeptNext
    <2>6. QED BY <2>1, <2>2, <2>3, <2>5, KeptStep
  <1>5. T = Nat BY <1>3, <1>4, SetInduction
  <1>6. Len(list) \in T BY <1>1, <1>5
  <1>7. QED BY <1>1, <1>2, <1>6

-----------------------------------------------------------------------------
(* The operators on lists of the model.                                    *)

Distinct(s) == \A i, j \in DOMAIN s : s[i] = s[j] => i = j

\* Without removes one item and keeps the order of the rest.
LEMMA WithoutFacts ==
  ASSUME NEW S, NEW list \in Seq(S), NEW items
  PROVE  /\ Without(list, items) \in Seq(S)
         /\ ToSet(Without(list, items)) = ToSet(list) \ items
         /\ Distinct(list) => Distinct(Without(list, items))
         /\ ToSet(list) \cap items = {} => Without(list, items) = list
  <1> DEFINE places == {i \in DOMAIN list : list[i] \notin items}
             s == Kept(list, places)
  <1>1. Len(list) \in Nat /\ DOMAIN list = 1 .. Len(list) OBVIOUS
  <1>2. KeptSoFar(s, list, places, Len(list), S) BY KeptFacts
  <1>3. s = Without(list, items) BY DEF Without
  <1>4. places \cap (1 .. Len(list)) = places BY <1>1
  <1> HIDE DEF s
  <1>5. ToSet(s) = {list[k] : k \in places} BY <1>2, <1>4 DEF KeptSoFar
  <1>6. ToSet(s) = ToSet(list) \ items BY <1>5 DEF ToSet
  <1>7. ASSUME Distinct(list) PROVE Distinct(s)
    <2>1. \A j, k \in places \cap (1 .. Len(list)) : list[j] = list[k] => j = k
      BY <1>7, <1>1 DEF Distinct
    <2> HIDE DEF places
    <2>2. QED BY <2>1, <1>2 DEF KeptSoFar, Distinct
  <1>8. ASSUME ToSet(list) \cap items = {} PROVE s = list
    <2>1. 1 .. Len(list) \subseteq places
      <3>1. ASSUME NEW i \in 1 .. Len(list) PROVE i \in places
        <4>1. i \in DOMAIN list /\ list[i] \in ToSet(list) BY <1>1 DEF ToSet
        <4>2. QED BY <4>1, <1>8
      <3>2. QED BY <3>1
    <2> HIDE DEF places
    <2>2. Len(s) = Len(list) /\ \A k \in 1 .. Len(list) : s[k] = list[k]
      BY <2>1, <1>2 DEF KeptSoFar
    <2>3. s \in Seq(S) BY <1>2 DEF KeptSoFar
    <2>4. QED BY <2>2, <2>3
  <1>9. s \in Seq(S) BY <1>2 DEF KeptSoFar
  <1>10. QED BY <1>3, <1>6, <1>7, <1>8, <1>9

\* A concatenation has the items of both lists, the first ones first.
LEMMA ConcatFacts ==
  ASSUME NEW S, NEW s \in Seq(S), NEW r \in Seq(S)
  PROVE  /\ s \o r \in Seq(S)
         /\ ToSet(s \o r) = ToSet(s) \cup ToSet(r)
         /\ Distinct(s) /\ Distinct(r) /\ ToSet(s) \cap ToSet(r) = {} => Distinct(s \o r)
  <1>1. /\ s \o r \in Seq(S) /\ DOMAIN (s \o r) = 1 .. Len(s) + Len(r)
        /\ Len(s) \in Nat /\ Len(r) \in Nat
        /\ DOMAIN s = 1 .. Len(s) /\ DOMAIN r = 1 .. Len(r)
    OBVIOUS
  <1>2. \A k \in 1 .. Len(s) : k \in 1 .. Len(s) + Len(r) /\ (s \o r)[k] = s[k]
    OBVIOUS
  <1>3. \A k \in 1 .. Len(r) : Len(s) + k \in 1 .. Len(s) + Len(r) /\ (s \o r)[Len(s) + k] = r[k]
    OBVIOUS
  <1>4. ASSUME NEW k \in 1 .. Len(s) + Len(r)
        PROVE  k \in 1 .. Len(s) \/ \E i \in 1 .. Len(r) : k = Len(s) + i
    <2>1. CASE k <= Len(s) BY <2>1
    <2>2. CASE k > Len(s)
      <3>1. k - Len(s) \in 1 .. Len(r) /\ k = Len(s) + (k - Len(s)) BY <2>2, <1>1
      <3>2. QED BY <3>1
    <2>3. QED BY <2>1, <2>2, <1>1
  <1> DEFINE q == s \o r
  <1>5. q = s \o r OBVIOUS
  <1> HIDE DEF q
  <1>6. ToSet(q) \subseteq ToSet(s) \cup ToSet(r)
    <2>1. ASSUME NEW k \in 1 .. Len(s) + Len(r) PROVE q[k] \in ToSet(s) \cup ToSet(r)
      <3>1. CASE k \in 1 .. Len(s) BY <3>1, <1>1, <1>2, <1>5 DEF ToSet
      <3>2. CASE \E i \in 1 .. Len(r) : k = Len(s) + i BY <3>2, <1>1, <1>3, <1>5 DEF ToSet
      <3>3. QED BY <3>1, <3>2, <1>4
    <2>2. QED BY <2>1, <1>1, <1>5 DEF ToSet
  <1>7. ToSet(s) \subseteq ToSet(q) BY <1>1, <1>2, <1>5 DEF ToSet
  <1>8. ToSet(r) \subseteq ToSet(q) BY <1>1, <1>3, <1>5 DEF ToSet
  <1>9. ASSUME Distinct(s), Distinct(r), ToSet(s) \cap ToSet(r) = {},
               NEW j \in 1 .. Len(s) + Len(r), NEW k \in 1 .. Len(s) + Len(r), q[j] = q[k]
        PROVE  j = k
    <2>1. \A i \in 1 .. Len(s), l \in 1 .. Len(r) : s[i] # r[l]
      BY <1>9, <1>1 DEF ToSet
    <2>2. CASE j \in 1 .. Len(s) /\ k \in 1 .. Len(s)
      <3>1. s[j] = s[k] BY <2>2, <1>2, <1>5, <1>9
      <3>2. QED BY <3>1, <2>2, <1>1, <1>9 DEF Distinct
    <2>3. CASE j \in 1 .. Len(s) /\ \E l \in 1 .. Len(r) : k = Len(s) + l
      BY <2>3, <2>1, <1>2, <1>3, <1>5, <1>9
    <2>4. CASE k \in 1 .. Len(s) /\ \E l \in 1 .. Len(r) : j = Len(s) + l
      BY <2>4, <2>1, <1>2, <1>3, <1>5, <1>9
    <2>5. ASSUME NEW i \in 1 .. Len(r), NEW l \in 1 .. Len(r), j = Len(s) + i, k = Len(s) + l
          PROVE  j = k
      <3>1. r[i] = r[l] BY <2>5, <1>3, <1>5, <1>9
      <3>2. i = l BY <3>1, <1>1, <1>9 DEF Distinct
      <3>3. QED BY <3>2, <2>5
    <2>6. QED BY <1>4, <2>2, <2>3, <2>4, <2>5
  <1>10. Distinct(s) /\ Distinct(r) /\ ToSet(s) \cap ToSet(r) = {} => Distinct(q)
    BY <1>9, <1>1, <1>5 DEF Distinct
  <1>11. QED BY <1>1, <1>5, <1>6, <1>7, <1>8, <1>10

\* EnlistedOnce lists every block of either list, and each one once.
LEMMA EnlistedFacts ==
  ASSUME NEW S, NEW bs \in Seq(S), Distinct(bs), NEW new \in Seq(S)
  PROVE  /\ EnlistedOnce(bs, new) \in Seq(S)
         /\ ToSet(EnlistedOnce(bs, new)) = ToSet(bs) \cup ToSet(new)
         /\ Distinct(EnlistedOnce(bs, new))
  <1> DEFINE First(i) == new[i] \notin ToSet(bs) /\ \A j \in 1 .. i - 1 : new[j] # new[i]
             places == {i \in DOMAIN new : First(i)}
             s == Kept(new, places)
  <1>1. Len(new) \in Nat /\ DOMAIN new = 1 .. Len(new) OBVIOUS
  <1>2. KeptSoFar(s, new, places, Len(new), S) BY KeptFacts
  <1>3. bs \o s = EnlistedOnce(bs, new) BY DEF EnlistedOnce
  <1>4. places \cap (1 .. Len(new)) = places BY <1>1
  <1> HIDE DEF s
  <1>5. ToSet(s) = {new[k] : k \in places} /\ s \in Seq(S) BY <1>2, <1>4 DEF KeptSoFar
  <1>6. ToSet(s) = ToSet(new) \ ToSet(bs)
    <2>1. ToSet(s) \subseteq ToSet(new) \ ToSet(bs) BY <1>5 DEF ToSet
    <2>2. ASSUME NEW x \in ToSet(new) \ ToSet(bs) PROVE x \in ToSet(s)
      <3> DEFINE T == {i \in 1 .. Len(new) : new[i] = x}
      <3>1. T # {} /\ T \in SUBSET Nat BY <1>1 DEF ToSet
      <3>2. PICK i \in T : \A j \in T : i <= j BY <3>1, LeastNat
      <3>3. ASSUME NEW j \in 1 .. i - 1 PROVE new[j] # new[i]
        <4>1. i \in 1 .. Len(new) /\ i \in Int /\ j < i /\ j \in 1 .. Len(new) BY <1>1, <3>2, <3>3
        <4>2. ~(i <= j) BY <4>1
        <4>3. j \notin T BY <4>2, <3>2
        <4>4. QED BY <4>1, <4>3, <3>2
      <3>4. i \in places BY <1>1, <3>2, <3>3
      <3>5. new[i] = x BY <3>2
      <3>6. QED BY <3>4, <3>5, <1>5
    <2>3. QED BY <2>1, <2>2
  <1>7. Distinct(s)
    <2>1. ASSUME NEW j \in places, NEW k \in places, new[j] = new[k] PROVE j = k
      <3>1. j \in Int /\ k \in Int /\ j >= 1 /\ k >= 1 BY <1>1
      <3>2. ~(j \in 1 .. k - 1) BY <2>1
      <3>3. ~(k \in 1 .. j - 1) BY <2>1
      <3>4. QED BY <3>1, <3>2, <3>3
    <2> HIDE DEF places
    <2>2. \A j, k \in places \cap (1 .. Len(new)) : new[j] = new[k] => j = k
      BY <2>1, <1>4
    <2>3. QED BY <2>2, <1>2 DEF KeptSoFar, Distinct
  <1>8. ToSet(bs) \cap ToSet(s) = {} BY <1>6
  <1>9. ToSet(bs) \cup ToSet(s) = ToSet(bs) \cup ToSet(new) BY <1>6
  <1>10. /\ bs \o s \in Seq(S)
         /\ ToSet(bs \o s) = ToSet(bs) \cup ToSet(s)
         /\ Distinct(bs \o s)
    BY <1>5, <1>7, <1>8, ConcatFacts
  <1>11. QED BY <1>3, <1>9, <1>10

\* Added lists the items of a kind whose addition is pending.
LEMMA AddedFacts ==
  ASSUME NEW kind, queue \in Seq(Operations)
  PROVE  /\ Added(kind) \in Seq(kind \cap Items)
         /\ ToSet(Added(kind)) = {x \in kind : Pending(TRUE, x)}
  <1> DEFINE places == {i \in DOMAIN queue : queue[i].add /\ queue[i].item \in kind}
             s == Additions(kind)
             r == Added(kind)
  <1>1. Len(queue) \in Nat /\ DOMAIN queue = 1 .. Len(queue) OBVIOUS
  <1>2. KeptSoFar(s, queue, places, Len(queue), Operations) BY KeptFacts DEF Additions
  <1>3. places \cap (1 .. Len(queue)) = places BY <1>1
  <1>4. r = [i \in DOMAIN s |-> s[i].item] BY DEF Added
  <1> HIDE DEF s, r
  <1>5. ToSet(s) = {queue[k] : k \in places} /\ s \in Seq(Operations)
    BY <1>2, <1>3 DEF KeptSoFar
  <1>6. Len(s) \in Nat /\ DOMAIN s = 1 .. Len(s) BY <1>5
  <1>7. ToSet(s) = {op \in ToSet(queue) : op.add /\ op.item \in kind} BY <1>5 DEF ToSet
  <1>8. \A i \in DOMAIN s : s[i].add /\ s[i].item \in kind \cap Items
    <2>1. \A i \in DOMAIN s : s[i] \in ToSet(s) BY DEF ToSet
    <2>2. \A i \in DOMAIN s : s[i] \in Operations BY <1>5
    <2>3. QED BY <1>7, <2>1, <2>2 DEF Operations
  <1>9. r \in Seq(kind \cap Items)
    <2>1. r \in [1 .. Len(s) -> kind \cap Items] BY <1>4, <1>6, <1>8
    <2>2. QED BY <2>1, <1>6
  <1>10. ToSet(r) = {op.item : op \in ToSet(s)} BY <1>4 DEF ToSet
  <1>11. \A op \in ToSet(queue) : op.add => op = [add |-> TRUE, item |-> op.item]
    <2>1. \A op \in ToSet(queue) : op \in Operations BY <1>1 DEF ToSet
    <2>2. \A op \in Operations : op.add => op = [add |-> TRUE, item |-> op.item]
      BY DEF Operations
    <2>3. QED BY <2>1, <2>2
  <1>12. ToSet(r) = {x \in kind : Pending(TRUE, x)}
    <2>1. ASSUME NEW x \in ToSet(r) PROVE x \in kind /\ Pending(TRUE, x)
      BY <1>7, <1>10, <1>11 DEF Pending
    <2>2. ASSUME NEW x \in kind, Pending(TRUE, x) PROVE x \in ToSet(r)
      <3> DEFINE op == [add |-> TRUE, item |-> x]
      <3>1. op \in ToSet(queue) /\ op.add /\ op.item = x BY <2>2 DEF Pending
      <3> HIDE DEF op
      <3>2. QED BY <3>1, <2>2, <1>7, <1>10
    <2>3. QED BY <2>1, <2>2
  <1>13. QED BY <1>9, <1>12 DEF r

\* Removed lists the items of a kind whose removal is pending.
LEMMA RemovedFacts ==
  ASSUME queue \in Seq(Operations)
  PROVE  \A x : x \in Removed <=> Pending(FALSE, x)
  <1>1. \A op \in ToSet(queue) : ~op.add => op = [add |-> FALSE, item |-> op.item]
    <2>1. \A op \in ToSet(queue) : op \in Operations BY DEF ToSet
    <2>2. \A op \in Operations : ~op.add => op = [add |-> FALSE, item |-> op.item]
      BY DEF Operations
    <2>3. QED BY <2>1, <2>2
  <1>2. ASSUME NEW x, Pending(FALSE, x) PROVE x \in Removed
    <2> DEFINE op == [add |-> FALSE, item |-> x]
    <2>1. op \in ToSet(queue) /\ ~op.add /\ op.item = x BY <1>2 DEF Pending
    <2> HIDE DEF op
    <2>2. QED BY <2>1 DEF Removed
  <1>3. ASSUME NEW x \in Removed PROVE Pending(FALSE, x)
    BY <1>1, <1>3 DEF Removed, Pending
  <1>4. QED BY <1>2, <1>3

-----------------------------------------------------------------------------
(* The inductive invariants.                                               *)

\* What will be there once the queue is drained is what was asked for.
Landing ==
    \A x \in Items \ overtaken :
        x \in wanted <=> \/ Pending(TRUE, x)
                         \/ x \in Present /\ ~Pending(FALSE, x)

Inv == TypeOK /\ IndicesCurrent /\ Landing

\* There is a graph; while it is not dirty it is that of the lists, and an
\* evaluation leaves it so.
GraphFollows ==
    /\ graph # NoGraph
    /\ ~dirty => graph = Assembled(blocks, connections)
    /\ pc = "evaluated" => ~dirty

-----------------------------------------------------------------------------
(* Edits.                                                                  *)

\* Appending a block gives it the next index and changes no other.
LEMMA BlockAppended ==
  ASSUME NEW bs \in Seq(Blocks), Distinct(bs), NEW b \in Blocks, b \notin ToSet(bs)
  PROVE  /\ Append(bs, b) \in Seq(Blocks)
         /\ ToSet(Append(bs, b)) = ToSet(bs) \cup {b}
         /\ Distinct(Append(bs, b))
         /\ Indices(Append(bs, b)) =
                Indices(bs) \cup (IF b \in Dynamic THEN {Len(Append(bs, b))} ELSE {})
  <1> DEFINE r == Append(bs, b)
  <1>1. /\ r \in Seq(Blocks) /\ Len(r) = Len(bs) + 1 /\ DOMAIN r = 1 .. Len(bs) + 1
        /\ \A k \in 1 .. Len(bs) : r[k] = bs[k]
        /\ r[Len(bs) + 1] = b
        /\ ToSet(r) = ToSet(bs) \cup {b}
    BY AppendFacts
  <1>2. Len(bs) \in Nat /\ DOMAIN bs = 1 .. Len(bs) OBVIOUS
  <1>3. 1 .. Len(bs) + 1 = (1 .. Len(bs)) \cup {Len(bs) + 1} BY <1>2
  <1> HIDE DEF r
  <1>4. \A k \in 1 .. Len(bs) : bs[k] # b BY <1>2 DEF ToSet
  <1>5. Distinct(r) BY <1>1, <1>2, <1>3, <1>4 DEF Distinct
  <1>6. Indices(r) = Indices(bs) \cup (IF b \in Dynamic THEN {Len(r)} ELSE {})
    BY <1>1, <1>2, <1>3 DEF Indices
  <1>7. QED BY <1>1, <1>5, <1>6 DEF r

\* The lists, their indices and the items in the system after an edit.
Edited(op) ==
    /\ blocks' \in Seq(Blocks) /\ connections' \in Seq(Connections) /\ events' \in Seq(Events)
    /\ Distinct(blocks') /\ dynamic' = Indices(blocks') /\ dirty' \in BOOLEAN
    /\ Present' = IF op.add THEN Present \cup {op.item} ELSE Present \ {op.item}

\* An edit made at once changes one list by one item.
LEMMA EditNowEdits ==
  ASSUME Inv, NEW op \in Operations, EditNow(op)
  PROVE  Edited(op)
  <1> USE DEF Inv, TypeOK
  <1>1. Distinct(blocks) /\ dynamic = Indices(blocks) BY DEF IndicesCurrent, Distinct
  <1>2. /\ ToSet(blocks) \subseteq Blocks /\ ToSet(connections) \subseteq Connections
        /\ ToSet(events) \subseteq Events
    BY DEF ToSet
  <1>3. op.add \in BOOLEAN BY DEF Operations
  <1>4. CASE op.add /\ AddBlock(op.item)
    <2> DEFINE b == op.item
    <2>1. b \in Blocks /\ connections' = connections /\ events' = events BY <1>4 DEF AddBlock
    <2>2. CASE b \in ToSet(blocks)
      <3>1. blocks' = blocks /\ dynamic' = dynamic /\ dirty' = dirty
        BY <1>4, <2>2 DEF AddBlock
      <3>2. QED BY <1>1, <1>4, <2>1, <2>2, <3>1 DEF Edited, Present
    <2>3. CASE b \notin ToSet(blocks)
      <3>1. /\ blocks' = Append(blocks, b)
            /\ dynamic' = dynamic \cup (IF b \in Dynamic THEN {Len(blocks')} ELSE {})
            /\ dirty' \in BOOLEAN
        BY <1>4, <2>3 DEF AddBlock, Touch
      <3>2. /\ blocks' \in Seq(Blocks) /\ ToSet(blocks') = ToSet(blocks) \cup {b}
            /\ Distinct(blocks') /\ dynamic' = Indices(blocks')
        BY <3>1, <2>1, <2>3, <1>1, BlockAppended
      <3>3. QED BY <1>4, <2>1, <3>1, <3>2 DEF Edited, Present
    <2>4. QED BY <2>2, <2>3
  <1>5. CASE op.add /\ AddConnection(op.item)
    <2>1. /\ op.item \in Connections /\ connections' = Append(connections, op.item)
          /\ blocks' = blocks /\ events' = events /\ dynamic' = dynamic /\ dirty' \in BOOLEAN
      BY <1>5 DEF AddConnection, Touch
    <2>2. /\ connections' \in Seq(Connections)
          /\ ToSet(connections') = ToSet(connections) \cup {op.item}
      BY <2>1, AppendFacts
    <2>3. QED BY <1>1, <1>5, <2>1, <2>2 DEF Edited, Present
  <1>6. CASE ~op.add /\ RemoveBlock(op.item)
    <2>1. /\ op.item \in Blocks /\ blocks' = Without(blocks, {op.item})
          /\ connections' = connections /\ events' = events /\ dynamic' = Indices(blocks')
          /\ dirty' \in BOOLEAN
      BY <1>6 DEF RemoveBlock, Touch
    <2>2. /\ blocks' \in Seq(Blocks) /\ ToSet(blocks') = ToSet(blocks) \ {op.item}
          /\ Distinct(blocks')
      BY <2>1, <1>1, WithoutFacts
    <2>3. Present' = Present \ {op.item}
      BY <2>1, <2>2, <1>2 DEF Present
    <2>4. QED BY <1>6, <2>1, <2>2, <2>3 DEF Edited
  <1>7. CASE ~op.add /\ RemoveConnection(op.item)
    <2>1. /\ op.item \in Connections /\ connections' = Without(connections, {op.item})
          /\ blocks' = blocks /\ events' = events /\ dynamic' = dynamic /\ dirty' \in BOOLEAN
      BY <1>7 DEF RemoveConnection, Touch
    <2>2. /\ connections' \in Seq(Connections)
          /\ ToSet(connections') = ToSet(connections) \ {op.item}
      BY <2>1, WithoutFacts
    <2>3. Present' = Present \ {op.item}
      BY <2>1, <2>2, <1>2 DEF Present
    <2>4. QED BY <1>1, <1>7, <2>1, <2>2, <2>3 DEF Edited
  <1>8. CASE EditEvents(op)
    <2>1. /\ op.item \in Events /\ blocks' = blocks /\ connections' = connections
          /\ dynamic' = dynamic /\ dirty' = dirty
      BY <1>8 DEF EditEvents
    <2>2. CASE op.add
      <3>1. events' = Append(events, op.item) BY <1>8, <2>2 DEF EditEvents
      <3>2. events' \in Seq(Events) /\ ToSet(events') = ToSet(events) \cup {op.item}
        BY <2>1, <3>1, AppendFacts
      <3>3. QED BY <1>1, <2>1, <2>2, <3>2 DEF Edited, Present
    <2>3. CASE ~op.add
      <3>1. events' = Without(events, {op.item}) BY <1>8, <2>3 DEF EditEvents
      <3>2. events' \in Seq(Events) /\ ToSet(events') = ToSet(events) \ {op.item}
        BY <3>1, WithoutFacts
      <3>3. Present' = Present \ {op.item}
        BY <2>1, <3>2, <1>2 DEF Present
      <3>4. QED BY <1>1, <2>1, <2>3, <3>2, <3>3 DEF Edited
    <2>4. QED BY <2>2, <2>3
  <1>9. QED BY <1>4, <1>5, <1>6, <1>7, <1>8 DEF EditNow

\* An edit made at once keeps the invariant.
LEMMA EditNowKeeps ==
  ASSUME Inv, NEW op \in Operations, EditNow(op)
  PROVE  Inv'
  <1>1. Edited(op) BY EditNowEdits
  <1>2. /\ graph' = graph /\ error' = error /\ active' = active /\ queue' = queue /\ pc' = pc
        /\ Wish(op)
        /\ overtaken' = IF Pending(TRUE, op.item) \/ Pending(FALSE, op.item)
                        THEN overtaken \cup {op.item} ELSE overtaken \ {op.item}
    BY DEF EditNow
  <1>3. op.item \in Items /\ op.add \in BOOLEAN BY DEF Operations
  <1>4. wanted' \subseteq Items /\ overtaken' \subseteq Items
    BY <1>2, <1>3 DEF Inv, TypeOK, Wish
  <1>5. dynamic' \subseteq DOMAIN blocks' BY <1>1 DEF Edited, Indices
  <1>6. TypeOK' BY <1>1, <1>2, <1>4, <1>5 DEF Inv, TypeOK, Edited
  <1>7. IndicesCurrent' BY <1>1 DEF Edited, IndicesCurrent, Distinct
  <1>8. \A a, x : Pending(a, x)' <=> Pending(a, x) BY <1>2 DEF Pending
  <1>9. ASSUME NEW x \in Items \ overtaken'
        PROVE  x \in wanted' <=> \/ Pending(TRUE, x)'
                                 \/ x \in Present' /\ ~Pending(FALSE, x)'
    <2>1. CASE x = op.item
      <3>1. ~Pending(TRUE, x) /\ ~Pending(FALSE, x) BY <1>2, <1>9, <2>1
      <3>2. x \in wanted' <=> op.add BY <1>2, <2>1 DEF Wish
      <3>3. x \in Present' <=> op.add BY <1>1, <2>1 DEF Edited
      <3>4. QED BY <1>8, <3>1, <3>2, <3>3
    <2>2. CASE x # op.item
      <3>1. x \notin overtaken BY <1>2, <1>9, <2>2
      <3>2. x \in wanted' <=> x \in wanted BY <1>2, <2>2 DEF Wish
      <3>3. x \in Present' <=> x \in Present BY <1>1, <2>2 DEF Edited
      <3>4. x \in wanted <=> Pending(TRUE, x) \/ (x \in Present /\ ~Pending(FALSE, x))
        BY <1>9, <3>1 DEF Inv, Landing
      <3>5. QED BY <1>8, <3>2, <3>3, <3>4
    <2>3. QED BY <2>1, <2>2
  <1>10. Landing' BY <1>9 DEF Landing
  <1>11. QED BY <1>6, <1>7, <1>10 DEF Inv

\* So does one that is queued ...
LEMMA EnqueueKeeps ==
  ASSUME Inv, NEW op \in Operations, Enqueue(op)
  PROVE  Inv'
  <1>1. /\ queue' = Append(queue, op) /\ Wish(op)
        /\ overtaken' = IF ~op.add /\ Pending(TRUE, op.item) THEN overtaken \cup {op.item}
                        ELSE IF Pending(TRUE, op.item) \/ Pending(FALSE, op.item) THEN overtaken
                        ELSE overtaken \ {op.item}
        /\ blocks' = blocks /\ connections' = connections /\ events' = events
        /\ dynamic' = dynamic /\ graph' = graph /\ dirty' = dirty /\ error' = error
        /\ active' = active /\ pc' = pc
    BY DEF Enqueue, system, derived
  <1>2. op.item \in Items /\ op.add \in BOOLEAN /\ op = [add |-> op.add, item |-> op.item]
    BY DEF Operations
  <1>3. queue' \in Seq(Operations) /\ ToSet(queue') = ToSet(queue) \cup {op}
    BY <1>1, AppendFacts DEF Inv, TypeOK
  <1>4. wanted' \subseteq Items /\ overtaken' \subseteq Items
    BY <1>1, <1>2 DEF Inv, TypeOK, Wish
  <1>5. TypeOK' BY <1>1, <1>3, <1>4 DEF Inv, TypeOK
  <1>6. IndicesCurrent' BY <1>1 DEF Inv, IndicesCurrent, Indices
  <1>7. \A a, x : Pending(a, x)' <=> Pending(a, x) \/ (a = op.add /\ x = op.item)
    <2>1. \A a, x : op = [add |-> a, item |-> x] <=> a = op.add /\ x = op.item
      BY <1>2
    <2>2. QED BY <2>1, <1>3 DEF Pending
  <1>8. Present' = Present BY <1>1 DEF Present
  <1>9. ASSUME NEW x \in Items \ overtaken'
        PROVE  x \in wanted' <=> \/ Pending(TRUE, x)'
                                 \/ x \in Present' /\ ~Pending(FALSE, x)'
    <2>1. CASE x = op.item /\ op.add
      BY <2>1, <1>1, <1>7 DEF Wish
    <2>2. CASE x = op.item /\ ~op.add
      <3>1. ~Pending(TRUE, x) BY <1>1, <1>9, <2>2
      <3>2. Pending(FALSE, x)' /\ ~Pending(TRUE, x)' BY <1>2, <1>7, <2>2, <3>1
      <3>3. x \notin wanted' BY <1>1, <2>2 DEF Wish
      <3>4. QED BY <3>2, <3>3
    <2>3. CASE x # op.item
      <3>1. x \notin overtaken BY <1>1, <1>9, <2>3
      <3>2. x \in wanted' <=> x \in wanted BY <1>1, <2>3 DEF Wish
      <3>3. x \in wanted <=> Pending(TRUE, x) \/ (x \in Present /\ ~Pending(FALSE, x))
        BY <1>9, <3>1 DEF Inv, Landing
      <3>4. \A a : Pending(a, x)' <=> Pending(a, x) BY <1>7, <2>3
      <3>5. QED BY <1>8, <3>2, <3>3, <3>4
    <2>4. QED BY <2>1, <2>2, <2>3, <1>2
  <1>10. Landing' BY <1>9 DEF Landing
  <1>11. QED BY <1>5, <1>6, <1>10 DEF Inv

-----------------------------------------------------------------------------
(* A drained batch.                                                        *)

\* ... and the application of the queue.
LEMMA ApplyPendingKeeps ==
  ASSUME Inv, StepBegin
  PROVE  Inv'
  <1> USE DEF Inv, TypeOK
  <1>1. /\ blocks' = EnlistedOnce(Without(blocks, Removed), Added(Blocks))
        /\ connections' = Without(connections, Removed) \o Added(Connections)
        /\ events' = Without(events, Removed) \o Added(Events)
        /\ dynamic' = IF Changed(blocks') THEN Indices(blocks') ELSE dynamic
        /\ dirty' \in BOOLEAN /\ queue' = <<>>
        /\ graph' = graph /\ error' = error /\ active' = active /\ pc' = "step"
        /\ wanted' = wanted /\ overtaken' = overtaken
    BY DEF StepBegin, ApplyPending, Drained, Touch, asked
  <1>2. Distinct(blocks) /\ dynamic = Indices(blocks) BY DEF IndicesCurrent, Distinct
  <1>3. \A kind : /\ Added(kind) \in Seq(kind \cap Items)
                  /\ ToSet(Added(kind)) = {x \in kind : Pending(TRUE, x)}
    BY AddedFacts
  <1>4. /\ Blocks \cap Items = Blocks /\ Connections \cap Items = Connections
        /\ Events \cap Items = Events
    BY DEF Items
  <1>5. /\ Added(Blocks) \in Seq(Blocks) /\ Added(Connections) \in Seq(Connections)
        /\ Added(Events) \in Seq(Events)
    BY <1>3, <1>4
  <1>6. /\ Without(blocks, Removed) \in Seq(Blocks)
        /\ ToSet(Without(blocks, Removed)) = ToSet(blocks) \ Removed
        /\ Distinct(Without(blocks, Removed))
    BY <1>2, WithoutFacts
  <1>7. /\ blocks' \in Seq(Blocks) /\ Distinct(blocks')
        /\ ToSet(blocks') = (ToSet(blocks) \ Removed) \cup ToSet(Added(Blocks))
    BY <1>1, <1>5, <1>6, EnlistedFacts
  <1>8. /\ connections' \in Seq(Connections)
        /\ ToSet(connections') = (ToSet(connections) \ Removed) \cup ToSet(Added(Connections))
    <2>1. /\ Without(connections, Removed) \in Seq(Connections)
          /\ ToSet(Without(connections, Removed)) = ToSet(connections) \ Removed
      BY WithoutFacts
    <2>2. QED BY <2>1, <1>1, <1>5, ConcatFacts
  <1>9. /\ events' \in Seq(Events)
        /\ ToSet(events') = (ToSet(events) \ Removed) \cup ToSet(Added(Events))
    <2>1. /\ Without(events, Removed) \in Seq(Events)
          /\ ToSet(Without(events, Removed)) = ToSet(events) \ Removed
      BY WithoutFacts
    <2>2. QED BY <2>1, <1>1, <1>5, ConcatFacts
  <1>10. dynamic' = Indices(blocks')
    <2>1. CASE Changed(blocks') BY <1>1, <2>1
    <2>2. CASE ~Changed(blocks')
      <3>1. blocks' = blocks BY <2>2 DEF Changed
      <3>2. QED BY <1>1, <1>2, <2>2, <3>1
    <2>3. QED BY <2>1, <2>2
  <1>11. dynamic' \subseteq DOMAIN blocks' BY <1>10 DEF Indices
  <1>12. TypeOK'
    <2>1. queue' \in Seq(Operations) BY <1>1
    <2>2. QED BY <1>1, <1>7, <1>8, <1>9, <1>11, <2>1
  <1>13. IndicesCurrent' BY <1>7, <1>10 DEF IndicesCurrent, Distinct
  <1>14. \A a, x : ~Pending(a, x)'
    <2>1. ToSet(<<>>) = {} BY DEF ToSet
    <2>2. QED BY <1>1, <2>1 DEF Pending
  <1>15. ASSUME NEW x \in Items
         PROVE  x \in Present' <=> Pending(TRUE, x) \/ (x \in Present /\ ~Pending(FALSE, x))
    <2>1. x \in Removed <=> Pending(FALSE, x) BY RemovedFacts
    <2>2. x \in ToSet(Added(Blocks)) \cup ToSet(Added(Connections)) \cup ToSet(Added(Events))
            <=> Pending(TRUE, x)
      <3>1. /\ ToSet(Added(Blocks)) = {y \in Blocks : Pending(TRUE, y)}
            /\ ToSet(Added(Connections)) = {y \in Connections : Pending(TRUE, y)}
            /\ ToSet(Added(Events)) = {y \in Events : Pending(TRUE, y)}
        BY <1>3
      <3>2. x \in Blocks \/ x \in Connections \/ x \in Events BY DEF Items
      <3>3. QED BY <3>1, <3>2
    <2>3. Present' = (Present \ Removed)
            \cup (ToSet(Added(Blocks)) \cup ToSet(Added(Connections)) \cup ToSet(Added(Events)))
      BY <1>7, <1>8, <1>9 DEF Present
    <2>4. QED BY <2>1, <2>2, <2>3
  <1>16. Landing'
    <2>1. ASSUME NEW x \in Items \ overtaken'
          PROVE  x \in wanted' <=> \/ Pending(TRUE, x)'
                                   \/ x \in Present' /\ ~Pending(FALSE, x)'
      <3>1. x \in wanted <=> Pending(TRUE, x) \/ (x \in Present /\ ~Pending(FALSE, x))
        BY <1>1, <2>1 DEF Landing
      <3>2. QED BY <3>1, <1>1, <1>14, <1>15
    <2>2. QED BY <2>1 DEF Landing
  <1>17. QED BY <1>12, <1>13, <1>16

-----------------------------------------------------------------------------
(* Every step.                                                             *)

\* The invariant holds initially.
LEMMA InitInv == Init => Inv
  <1> SUFFICES ASSUME Init PROVE Inv OBVIOUS
  <1>1. \A S : SeqOf(S, MaxLength) \subseteq Seq(S)
    <2>1. ASSUME NEW S, NEW s \in SeqOf(S, MaxLength) PROVE s \in Seq(S)
      <3>1. PICK m \in 0 .. MaxLength : s \in [1 .. m -> S] BY <2>1 DEF SeqOf
      <3>2. m \in Nat OBVIOUS
      <3>3. QED BY <3>1, <3>2
    <2>2. QED BY <2>1
  <1>2. PICK bs \in SeqOf(Blocks, MaxLength) : blocks = EnlistedOnce(<<>>, bs) BY DEF Init
  <1>3. blocks \in Seq(Blocks) /\ Distinct(blocks)
    <2>1. <<>> \in Seq(Blocks) /\ Distinct(<<>>) BY DEF Distinct
    <2>2. bs \in Seq(Blocks) BY <1>1
    <2>3. QED BY <1>2, <2>1, <2>2, EnlistedFacts
  <1>4. connections \in Seq(Connections) /\ events \in Seq(Events) BY <1>1 DEF Init
  <1>5. Present \subseteq Items BY <1>3, <1>4 DEF Present, Items, ToSet
  <1>6. dynamic \subseteq DOMAIN blocks BY DEF Init, Indices
  <1>7. TypeOK
    <2>1. <<>> \in Seq(Operations) OBVIOUS
    <2>2. graph = NoGraph \/ graph \in Seq(Blocks) \X Seq(Connections)
      BY <1>3, <1>4 DEF Init, Assembled
    <2>3. error \in BOOLEAN BY DEF Init, Fails
    <2>4. QED BY <1>3, <1>4, <1>5, <1>6, <2>1, <2>2, <2>3 DEF Init, TypeOK
  <1>8. IndicesCurrent BY <1>3 DEF Init, IndicesCurrent, Distinct
  <1>9. Landing
    <2>1. ToSet(<<>>) = {} BY DEF ToSet
    <2>2. QED BY <2>1 DEF Init, Landing, Pending
  <1>10. QED BY <1>7, <1>8, <1>9 DEF Inv

\* A step that leaves the lists, the queue and what was asked for as they are.
LEMMA OtherStepsKeep ==
  ASSUME Inv, UNCHANGED <<system, queue, asked>>,
         graph' = NoGraph \/ graph' \in Seq(Blocks) \X Seq(Connections),
         dirty' \in BOOLEAN, error' \in BOOLEAN, active' \in BOOLEAN,
         pc' \in {"idle", "run", "step", "evaluated", "bailed"}
  PROVE  Inv'
  <1>1. /\ blocks' = blocks /\ connections' = connections /\ events' = events
        /\ dynamic' = dynamic /\ queue' = queue /\ wanted' = wanted /\ overtaken' = overtaken
    BY DEF system, asked
  <1>2. TypeOK' BY <1>1 DEF Inv, TypeOK
  <1>3. IndicesCurrent' BY <1>1 DEF Inv, IndicesCurrent, Indices
  <1>4. Landing' BY <1>1 DEF Inv, Landing, Pending, Present
  <1>5. QED BY <1>2, <1>3, <1>4 DEF Inv

\* An evaluation keeps the types.
LEMMA EvaluateTypes ==
  ASSUME Inv, Evaluate
  PROVE  /\ UNCHANGED <<system, queue, asked>>
         /\ graph' = NoGraph \/ graph' \in Seq(Blocks) \X Seq(Connections)
         /\ dirty' \in BOOLEAN /\ error' \in BOOLEAN /\ active' \in BOOLEAN
         /\ pc' \in {"evaluated", "bailed"}
  <1> USE DEF Inv, TypeOK
  <1>1. UNCHANGED <<system, queue, asked>> /\ Update BY DEF Evaluate
  <1>2. /\ graph' = NoGraph \/ graph' \in Seq(Blocks) \X Seq(Connections)
        /\ dirty' \in BOOLEAN /\ error' \in BOOLEAN
    <2>1. CASE dirty
      <3>1. /\ graph' = IF Fails(connections) THEN graph ELSE Assembled(blocks, connections)
            /\ error' = Fails(connections) /\ dirty' = FALSE
        BY <1>1, <2>1 DEF Update
      <3>2. Assembled(blocks, connections) \in Seq(Blocks) \X Seq(Connections)
        BY DEF Assembled
      <3>3. Fails(connections) \in BOOLEAN BY DEF Fails
      <3>4. QED BY <3>1, <3>2, <3>3
    <2>2. CASE ~dirty BY <1>1, <2>2 DEF Update, derived
    <2>3. QED BY <2>1, <2>2
  <1>3. active' \in BOOLEAN /\ pc' \in {"evaluated", "bailed"}
    <2>1. CASE error' BY <1>1, <2>1 DEF Update
    <2>2. CASE ~error' BY <1>1, <2>2 DEF Update
    <2>3. QED BY <2>1, <2>2
  <1>4. QED BY <1>1, <1>2, <1>3

\* Every step keeps the invariant.
LEMMA NextInv == Inv /\ [Next]_vars => Inv'
  <1> SUFFICES ASSUME Inv, [Next]_vars PROVE Inv' OBVIOUS
  <1> USE DEF Inv, TypeOK
  <1>1. CASE Edit
    <2>1. PICK op \in Operations : EditNow(op) \/ Enqueue(op) BY <1>1 DEF Edit
    <2>2. QED BY <2>1, EditNowKeeps, EnqueueKeeps
  <1>2. CASE RunBegin BY <1>2, OtherStepsKeep DEF RunBegin, derived
  <1>3. CASE Evaluate
    <2>1. pc' \in {"idle", "run", "step", "evaluated", "bailed"} BY <1>3, EvaluateTypes
    <2>2. QED BY <1>3, <2>1, EvaluateTypes, OtherStepsKeep
  <1>4. CASE StepDone BY <1>4, OtherStepsKeep DEF StepDone, derived
  <1>5. CASE StepBegin BY <1>5, ApplyPendingKeeps
  <1>6. CASE RunEnd BY <1>6, OtherStepsKeep DEF RunEnd
  <1>7. CASE UNCHANGED vars BY <1>7, OtherStepsKeep DEF vars, derived
  <1>8. QED BY <1>1, <1>2, <1>3, <1>4, <1>5, <1>6, <1>7 DEF Next

-----------------------------------------------------------------------------
(* The graph.                                                              *)

\* An edit that is not worth a rebuild has not changed the lists of the graph.
LEMMA EditNowKeepsGraph ==
  ASSUME Inv, GraphFollows, NEW op \in Operations, EditNow(op), pc = "idle"
  PROVE  GraphFollows'
  <1> USE DEF Inv, TypeOK
  <1>1. graph' = graph /\ pc' = "idle" BY DEF EditNow
  <1>2. graph # NoGraph /\ (~dirty => graph = Assembled(blocks, connections)) BY DEF GraphFollows
  <1>3. ASSUME ~dirty' PROVE ~dirty /\ blocks' = blocks /\ connections' = connections
    <2>1. CASE AddBlock(op.item)
      <3>1. op.item \in ToSet(blocks)
        <4>1. ~Touch(TRUE) BY <1>2, <1>3 DEF Touch
        <4>2. QED BY <2>1, <4>1 DEF AddBlock
      <3>2. QED BY <1>3, <2>1, <3>1 DEF AddBlock
    <2>2. CASE AddConnection(op.item)
      <3>1. Touch(TRUE) BY <2>2 DEF AddConnection
      <3>2. QED BY <1>2, <1>3, <3>1 DEF Touch
    <2>3. CASE RemoveBlock(op.item)
      <3>1. /\ Touch(op.item \in ToSet(blocks)) /\ blocks' = Without(blocks, {op.item})
            /\ connections' = connections
        BY <2>3 DEF RemoveBlock
      <3>2. ~dirty /\ op.item \notin ToSet(blocks) BY <1>2, <1>3, <3>1 DEF Touch
      <3>3. ToSet(blocks) \cap {op.item} = {} BY <3>2
      <3>4. Without(blocks, {op.item}) = blocks BY <3>3, WithoutFacts
      <3>5. QED BY <3>1, <3>2, <3>4
    <2>4. CASE RemoveConnection(op.item)
      <3>1. /\ Touch(op.item \in ToSet(connections)) /\ blocks' = blocks
            /\ connections' = Without(connections, {op.item})
        BY <2>4 DEF RemoveConnection
      <3>2. ~dirty /\ op.item \notin ToSet(connections) BY <1>2, <1>3, <3>1 DEF Touch
      <3>3. ToSet(connections) \cap {op.item} = {} BY <3>2
      <3>4. Without(connections, {op.item}) = connections BY <3>3, WithoutFacts
      <3>5. QED BY <3>1, <3>2, <3>4
    <2>5. CASE EditEvents(op) BY <1>3, <2>5 DEF EditEvents
    <2>6. QED BY <2>1, <2>2, <2>3, <2>4, <2>5 DEF EditNow
  <1>4. QED BY <1>1, <1>2, <1>3 DEF GraphFollows, Assembled

\* After the queue is applied the graph is current or marked as out of date.
LEMMA ApplyPendingKeepsGraph ==
  ASSUME Inv, GraphFollows, StepBegin
  PROVE  GraphFollows'
  <1> USE DEF Inv, TypeOK
  <1>1. /\ Touch(Changed(blocks'))
        /\ connections' = Without(connections, Removed) \o Added(Connections)
        /\ graph' = graph /\ pc' = "step"
    BY DEF StepBegin, ApplyPending, Drained
  <1>2. graph # NoGraph /\ (~dirty => graph = Assembled(blocks, connections)) BY DEF GraphFollows
  <1>3. ASSUME ~dirty' PROVE ~dirty /\ blocks' = blocks /\ connections' = connections
    <2>1. ~dirty /\ ~Changed(blocks') BY <1>1, <1>2, <1>3 DEF Touch
    <2>2. /\ blocks' = blocks /\ Added(Connections) = <<>>
          /\ Removed \cap ToSet(connections) = {}
      BY <2>1 DEF Changed
    <2>3. ToSet(connections) \cap Removed = {} BY <2>2
    <2>4. Without(connections, Removed) = connections BY <2>3, WithoutFacts
    <2>5. connections \o <<>> = connections OBVIOUS
    <2>6. QED BY <1>1, <2>1, <2>2, <2>4, <2>5
  <1>4. QED BY <1>1, <1>2, <1>3 DEF GraphFollows, Assembled

\* The graph is that of the initial lists if its assembly did not fail.
LEMMA InitGraphFollows == Init /\ ~error => GraphFollows
  BY DEF Init, GraphFollows, Assembled, NoGraph

\* As long as no assembly fails the graph follows the lists.
LEMMA NextGraphFollows == Inv /\ GraphFollows /\ [Next]_vars /\ ~error /\ ~error' => GraphFollows'
  <1> SUFFICES ASSUME Inv, GraphFollows, [Next]_vars, ~error, ~error' PROVE GraphFollows'
    OBVIOUS
  <1>1. CASE Edit
    <2>1. PICK op \in Operations : (pc = "idle" /\ EditNow(op)) \/ Enqueue(op)
      BY <1>1 DEF Edit
    <2>2. CASE pc = "idle" /\ EditNow(op) BY <2>2, EditNowKeepsGraph
    <2>3. CASE Enqueue(op)
      BY <2>3 DEF Enqueue, system, derived, GraphFollows, Assembled
    <2>4. QED BY <2>1, <2>2, <2>3
  <1>2. CASE RunBegin BY <1>2 DEF RunBegin, system, derived, GraphFollows, Assembled
  <1>3. CASE Evaluate
    <2>1. Update /\ blocks' = blocks /\ connections' = connections BY <1>3 DEF Evaluate, system
    <2>2. CASE dirty
      <3>1. /\ graph' = IF Fails(connections) THEN graph ELSE Assembled(blocks, connections)
            /\ ~Fails(connections) /\ dirty' = FALSE
        BY <2>1, <2>2 DEF Update
      <3>2. QED BY <2>1, <3>1 DEF GraphFollows, Assembled, NoGraph
    <2>3. CASE ~dirty BY <2>1, <2>3 DEF Update, derived, GraphFollows, Assembled
    <2>4. QED BY <2>2, <2>3
  <1>4. CASE StepDone BY <1>4 DEF StepDone, system, derived, GraphFollows, Assembled
  <1>5. CASE StepBegin BY <1>5, ApplyPendingKeepsGraph
  <1>6. CASE RunEnd BY <1>6 DEF RunEnd, system, GraphFollows, Assembled
  <1>7. CASE UNCHANGED vars BY <1>7 DEF vars, system, derived, GraphFollows, Assembled
  <1>8. QED BY <1>1, <1>2, <1>3, <1>4, <1>5, <1>6, <1>7 DEF Next

-----------------------------------------------------------------------------
\* The invariant holds always.
LEMMA InvAlways == Spec => []Inv
  <1>1. QED BY InitInv, NextInv, PTL DEF Spec

\* Every variable keeps its type, for lists and queues of any length.
THEOREM TopologyTypes == Spec => []TypeOK
  <1>1. Inv => TypeOK BY DEF Inv
  <1>2. QED BY <1>1, InvAlways, PTL

\* _blocks_dyn_indices holds the places of the dynamic blocks, and no block is
\* listed twice, after any edits and batches (add_block, remove_block,
\* _apply_pending_ops), failed assemblies or not.
THEOREM IndicesFollow == Spec => []IndicesCurrent
  <1>1. Inv => IndicesCurrent BY DEF Inv
  <1>2. QED BY <1>1, InvAlways, PTL

\* Every edit lands, whatever was queued and applied at once in between.
THEOREM EveryEditLands == Spec => []EditsLand
  <1>1. Inv => EditsLand
    <2>1. SUFFICES ASSUME Inv, queue = <<>>, NEW x \in Items \ overtaken
                   PROVE  x \in Present <=> x \in wanted
      BY DEF EditsLand
    <2>2. \A a : ~Pending(a, x)
      <3>1. ToSet(<<>>) = {} BY DEF ToSet
      <3>2. QED BY <2>1, <3>1 DEF Pending
    <2>3. QED BY <2>1, <2>2 DEF Inv, Landing
  <1>2. QED BY <1>1, InvAlways, PTL

\* As long as every graph can be assembled, an evaluation uses the graph of the
\* current lists.
THEOREM StructuresFollow == Spec /\ []~error => []StructuresAreCurrent
  <1>1. Inv /\ GraphFollows => StructuresAreCurrent
    BY DEF Inv, GraphFollows, StructuresAreCurrent, GraphIsCurrent
  <1>2. QED BY <1>1, InvAlways, InitGraphFollows, NextGraphFollows, PTL DEF Spec

\* In particular, where every port alias exists.
COROLLARY StructuresFollowIfResolvable ==
  ASSUME Unresolvable = {}
  PROVE  Spec => []StructuresAreCurrent
  <1>1. \A cs : ~Fails(cs) BY DEF Fails
  <1>2. Init => ~error BY <1>1 DEF Init
  <1>3. ~error /\ [Next]_vars => ~error'
    <2>1. SUFFICES ASSUME ~error, [Next]_vars PROVE ~error' OBVIOUS
    <2>2. CASE Edit BY <2>1, <2>2 DEF Edit, EditNow, Enqueue, derived
    <2>3. CASE Evaluate
      <3>1. Update BY <2>3 DEF Evaluate
      <3>2. QED BY <1>1, <2>1, <3>1 DEF Update, derived
    <2>4. QED BY <2>1, <2>2, <2>3
          DEF Next, RunBegin, StepDone, StepBegin, RunEnd, vars, derived
  <1>4. QED BY <1>2, <1>3, StructuresFollow, PTL DEF Spec

=============================================================================
