------------------------------ MODULE MCSchedule ------------------------------
(* Small diagrams for Schedule, of two kinds.                                *)
EXTENDS Schedule

CONSTANT MaxArcs

\* Pairs of blocks in lexicographic order.
AllPairs == [i \in 1 .. (N * N) |-> <<((i - 1) \div N) + 1, ((i - 1) % N) + 1>>]
Sorted(g) == SelectSeq(AllPairs, LAMBDA p : p \in g)

\* Block 1 has no feedthrough, the others are algebraic, with up to MaxArcs
\* wires.  Every connection has one target, or all that leave a block are one;
\* the input from the last block to block 2 is read or not.
Arc(p, shared, unread) ==
    [src |-> p[1], tgt |-> p[2], conn |-> <<p[1], IF shared THEN 0 ELSE p[2]>>,
     read |-> ~unread \/ p # <<N, 2>>]

Mixed ==
    {[alg |-> 2 .. N, arcs |-> [i \in 1 .. Cardinality(g) |-> Arc(Sorted(g)[i], shared, unread)]] :
        g \in {h \in SUBSET ((1 .. N) \X (2 .. N)) : Cardinality(h) <= MaxArcs},
        shared \in BOOLEAN, unread \in BOOLEAN}

\* All blocks are algebraic and on one ring, with any chords; the connections
\* are listed upwards or downwards, and block 1 feeds itself and has every
\* connection twice, or not.
Pairs == {p \in (1 .. N) \X (1 .. N) : p[1] # p[2]}
Ring == {<<b, (b % N) + 1>> : b \in 1 .. N}
Doubled(g) == SelectSeq(Sorted(g \cup {<<1, 1>>}), LAMBDA p : p[1] = 1)

Rings ==
    LET upward(g) == [i \in 1 .. Cardinality(g) |-> Arc(Sorted(g)[i], FALSE, FALSE)]
        again(g) == [i \in DOMAIN Doubled(g) |->
                        [Arc(Doubled(g)[i], FALSE, FALSE) EXCEPT !.conn = <<0, Doubled(g)[i][2]>>]]
    IN  {[alg |-> 1 .. N, arcs |-> f] :
            f \in UNION {{upward(g), Reverse(upward(g)), upward(g) \o again(g)} :
                            g \in {Ring \cup h : h \in SUBSET (Pairs \ Ring)}}}

MCNets == Mixed \cup Rings

=============================================================================
