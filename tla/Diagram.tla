------------------------------- MODULE Diagram -------------------------------
(***************************************************************************)
(* Block diagrams with subsystems, and what is derived from them before    *)
(* anything runs: the direct feedthrough of every block                    *)
(* (src/blocks/block.rs, src/subsystem.rs), the schedule of every scope    *)
(* (src/utils/schedule.rs) and the intermediate representation that the    *)
(* code generator and the compiler read (src/ir/builder.rs).               *)
(*                                                                         *)
(* A diagram gives each scope its connections.  Inside a scope the         *)
(* interface of the scope goes by the name of the scope: as a source it    *)
(* stands for the inputs of the subsystem, as a target for its outputs.    *)
(***************************************************************************)
EXTENDS Integers, FiniteSets, SequencesExt, TLC

CONSTANTS
    Top,            \* the scope of the simulation
    Subsystems,
    Leaves,
    Members,        \* Members[s]: the blocks of scope s in the order they were added
    Kind,           \* Kind[b]: "ramp", "shift", "hold" or "sum"
    Ins, Outs       \* widths of the inputs and the outputs of every block

Scopes == {Top} \cup Subsystems
Blocks == Leaves \cup Subsystems

ASSUME DiagramAssumption ==
    /\ Top \notin Blocks /\ Leaves \cap Subsystems = {}
    /\ Kind \in [Leaves -> {"ramp", "shift", "hold", "sum"}]
    /\ Ins \in [Blocks -> Nat] /\ Outs \in [Blocks -> Nat]
    /\ \A b \in Blocks : \E s \in Scopes : b \in ToSet(Members[s])

\* Blocks whose outputs are memory that a periodic event writes.
Sampled == {b \in Leaves : Kind[b] \in {"hold", "sum"}}

\* A connection carries element src.els[k] of a block to dst.els[k] of another.
Pairs(c) == {<<c.src.els[k], c.dst.els[k]>> : k \in 1 .. Min({Len(c.src.els), Len(c.dst.els)})}

\* The ends of wires: elements of inputs and of outputs of blocks.
SourceEnd(s, b, e) == IF b = s THEN <<"in", s, e>> ELSE <<"out", b, e>>
TargetEnd(s, b, e) == IF b = s THEN <<"out", s, e>> ELSE <<"in", b, e>>

WiresOf(s, c) == {<<SourceEnd(s, c.src.block, p[1]), TargetEnd(s, c.dst.block, p[2])>> : p \in Pairs(c)}
WiresIn(d, s) == UNION {WiresOf(s, c) : c \in ToSet(d[s])}
Wires(d) == UNION {WiresIn(d, s) : s \in Scopes}

Elements(w) == {i - 1 : i \in 1 .. w}
InEnds(b) == {<<"in", b, e>> : e \in Elements(Ins[b])}
OutEnds(b) == {<<"out", b, e>> : e \in Elements(Outs[b])}
Ends == UNION {InEnds(b) \cup OutEnds(b) : b \in Blocks}

\* Diagrams of this model drive no input twice.
DrivenOnce(d) == \A v, w \in Wires(d) : v[2] = w[2] => v = w

-----------------------------------------------------------------------------
(* feedthrough and schedule *)

\* The ends that a wire or a block's atomic evaluation reaches from end, where
\* reads[b] are the input elements that some output of b reads.
RECURSIVE Reached(_, _, _)
Reached(wires, reads, from) ==
    LET through(end) ==
            {w[2] : w \in {x \in wires : x[1] = end}}
            \cup (IF end[1] = "in" /\ end[2] \in DOMAIN reads /\ end[3] \in reads[end[2]]
                  THEN OutEnds(end[2]) ELSE {})
        more == from \cup UNION {through(end) : end \in from}
    IN  IF more = from THEN from ELSE Reached(wires, reads, more)

\* The input elements that some output of a block reads; for a subsystem, those
\* from which its interior leads to one of its outputs.
\* (Mutant: a subsystem counts as a block with state.)
ReadsOfLeaves(d, b) == IF b \in Leaves /\ Kind[b] = "shift" THEN Elements(Ins[b]) ELSE {}

RECURSIVE Reads(_, _)
Reads(d, b) ==
    IF b \in Leaves THEN IF Kind[b] = "shift" THEN Elements(Ins[b]) ELSE {}
    ELSE LET inside == [m \in ToSet(Members[b]) |-> Reads(d, m)]
         IN  {e \in Elements(Ins[b]) :
                Reached(WiresIn(d, b), inside, {<<"in", b, e>>}) \cap OutEnds(b) # {}}

\* The members of a scope that must be evaluated before b: those that drive an
\* input it reads.
Before(d, s, reads) ==
    [b \in ToSet(Members[s]) |->
        {a \in ToSet(Members[s]) :
            \E w \in WiresIn(d, s) :
                /\ w[1] \in OutEnds(a)
                /\ w[2][1] = "in" /\ w[2][2] = b /\ w[2][3] \in reads[b]}]

\* Layers of a scope: depth 0 for blocks that read no input, one more than what
\* they read for the others.  A scope with an algebraic loop has none.
RECURSIVE Layered(_, _, _)
Layered(layers, rest, before) ==
    LET ready == SelectSeq(rest, LAMBDA b : before[b] \cap ToSet(rest) = {})
    IN  IF rest = <<>> THEN layers
        ELSE IF ready = <<>> THEN <<>>
        ELSE Layered(Append(layers, ready),
                     SelectSeq(rest, LAMBDA b : before[b] \cap ToSet(rest) # {}), before)

Layers(d, s) ==
    LET reads == [b \in ToSet(Members[s]) |-> Reads(d, b)]
        state == SelectSeq(Members[s], LAMBDA b : reads[b] = {})
        algebraic == SelectSeq(Members[s], LAMBDA b : reads[b] # {})
    IN  Layered(<<state>>, algebraic, Before(d, s, reads))

HasLoops(d) == \E s \in Scopes : Layers(d, s) = <<>>

-----------------------------------------------------------------------------
(* intermediate representation *)

Whole == <<>>       \* elems = None: all elements of the port

ElemsOf(els) == IF els = <<0>> THEN Whole ELSE els

\* build_scope: the connections of a scope with their slices.
IrConnections(d, s) ==
    [i \in DOMAIN d[s] |->
        [src |-> [d[s][i].src EXCEPT !.els = ElemsOf(@)],
         dst |-> [d[s][i].dst EXCEPT !.els = ElemsOf(@)]]]

\* schedule.topo: layer by layer, members in their order.
Topo(d, s) == FlattenSeq(Layers(d, s))

Ir(d) == [s \in Scopes |-> [conns |-> IrConnections(d, s), topo |-> Topo(d, s),
                            looped |-> Layers(d, s) = <<>>]]

-----------------------------------------------------------------------------
(* what the wires of a diagram mean *)

\* The leaf output that an end carries, "none" if it carries nothing.
RECURSIVE OriginOf(_, _)
OriginOf(wires, end) ==
    IF end[1] = "out" /\ end[2] \in Leaves THEN {end}
    ELSE UNION {OriginOf(wires, w[1]) : w \in {x \in wires : x[2] = end}}

LeafInputs == UNION {InEnds(b) : b \in Leaves}
LeafOutputs == UNION {OutEnds(b) : b \in Leaves}
=============================================================================
