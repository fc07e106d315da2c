---------------------------- MODULE CompilerFront ----------------------------
(***************************************************************************)
(* The front of the static compiler (src/compile/flatten.rs): each input   *)
(* element of a leaf is traced back through the interfaces to the leaf     *)
(* output that drives it.                                                  *)
(***************************************************************************)
EXTENDS Diagram

\* elems_or0: None stands for element 0.
ElemsOr0(els) == IF els = Whole THEN <<0>> ELSE els

ParentOf(s) == CHOOSE p \in Scopes : s \in ToSet(Members[p])

\* The connections of a scope that deliver an element to a target; the first one
\* counts.
Delivering(ir, s, target, e) ==
    SelectSeq(ir[s].conns, LAMBDA c : c.dst.block = target /\ e \in ToSet(ElemsOr0(c.dst.els)))

\* The source element a connection has for element e of its target.
SourceElem(c, e) ==
    LET src == ElemsOr0(c.src.els)
        j == CHOOSE k \in DOMAIN ElemsOr0(c.dst.els) : ElemsOr0(c.dst.els)[k] = e
    IN  IF j \in DOMAIN src THEN src[j] ELSE 0

Cycle == <<"cycle">>

\* resolve and find_producer: the leaf outputs behind element e of a block that
\* scope s sees as a source; {Cycle} when the trace returns to where it was.
RECURSIVE Resolve(_, _, _, _, _), FindProducer(_, _, _, _, _)
Resolve(ir, s, block, e, visiting) ==
    IF <<s, block, e>> \in visiting THEN {Cycle}
    ELSE LET visited == visiting \cup {<<s, block, e>>}
         IN  IF block = s
             THEN IF s = Top THEN {} ELSE FindProducer(ir, ParentOf(s), s, e, visited)
             ELSE IF block \in Leaves THEN {<<"out", block, e>>}
             ELSE FindProducer(ir, block, block, e, visited)

FindProducer(ir, s, target, e, visiting) ==
    LET from == Delivering(ir, s, target, e)
    IN  IF from = <<>> THEN {}
        ELSE Resolve(ir, s, from[1].src.block, SourceElem(from[1], e), visiting)

-----------------------------------------------------------------------------
(* flatten and splice *)

\* build_scopes: leaves in the order they were added, depth first.
RECURSIVE DeclaredIn(_)
DeclaredIn(s) ==
    FlattenSeq([i \in DOMAIN Members[s] |->
                   LET b == Members[s][i] IN IF b \in Leaves THEN <<b>> ELSE DeclaredIn(b)])
Declared == DeclaredIn(Top)

\* flatten_scopes: a wire, or none, for every input element of a leaf that a
\* connection addresses.
Traced(ir) ==
    UNION {UNION {{[from |-> Resolve(ir, s, c.src.block, SourceElem(c, e), {}), to |-> <<"in", c.dst.block, e>>] :
                      e \in ToSet(ElemsOr0(c.dst.els))} :
                  c \in {x \in ToSet(ir[s].conns) : x.dst.block \in Leaves}} :
           s \in Scopes}

\* BlockRole::Algebraic: neither a source nor a block with continuous state, so
\* that sampled blocks count.
Algebraic(b) == Kind[b] # "ramp"

\* acyclic: no cycle of algebraic blocks, whichever elements they read.
RECURSIVE Acyclic(_, _)
Acyclic(blocks, arcs) ==
    LET free == {b \in blocks : \A a \in arcs : a[2] = b => a[1] \notin blocks}
    IN  blocks = {} \/ (free # {} /\ Acyclic(blocks \ free, arcs))

\* flatten, and the input index of splice.
Compiled(ir) ==
    LET traced == Traced(ir)
        arcs == {<<w[1][2], w[2][2]>> : w \in UNION {{<<o, t.to>> : o \in t.from \ {Cycle}} : t \in traced}}
    IN  IF (\E t \in traced : t.from = {Cycle}) \/ ~Acyclic({b \in Leaves : Algebraic(b)}, arcs)
        THEN [ok |-> FALSE]
        ELSE [ok |-> TRUE,
              input |-> [end \in LeafInputs |-> UNION {t.from : t \in {x \in traced : x.to = end}}]]
=============================================================================
