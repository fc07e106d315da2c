------------------------------ MODULE Generator ------------------------------
(***************************************************************************)
(* The front of the C code generator (src/codegen/system.rs): subsystems   *)
(* are inlined scope by scope into a flat list of leaf blocks and wires    *)
(* between their elements, and the blocks are put into the order of the    *)
(* algebraic pass.                                                         *)
(***************************************************************************)
EXTENDS Diagram

\* addressed_elems: None stands for the whole port.
Addressed(width, els) == IF els = Whole THEN [i \in 1 .. width |-> i - 1] ELSE els

The(S) == CHOOSE x \in S : TRUE

Rejected == [ok |-> FALSE]

\* What flatten_scope returns for a member: a leaf, or the splice of a subsystem
\* (targets: what an input element feeds inside, out: what drives an output
\* element, or nothing).

\* resolve_src: the leaf outputs behind a source, one per addressed element; an
\* output that nothing drives inside the subsystem fails (nothing).
ResolveSrc(refs, end) ==
    LET els == Addressed(Outs[end.block], end.els)
    IN  [i \in DOMAIN els |->
            IF end.block \in Leaves THEN {<<"out", end.block, els[i]>>}
            ELSE refs[end.block].out[els[i]]]

\* resolve_target: the leaf inputs behind a target, grouped by element.
ResolveTarget(refs, end) ==
    LET els == Addressed(Ins[end.block], end.els)
    IN  [i \in DOMAIN els |->
            IF end.block \in Leaves THEN <<<<"in", end.block, els[i]>>>>
            ELSE refs[end.block].targets[els[i]]]

\* An element of the interface feeds these leaf inputs too.
Feed(targets, element, ends) == [targets EXCEPT ![element] = @ \o ends]

WiresTo(src, ends) == [k \in DOMAIN ends |-> [src |-> The(src), dst |-> ends[k]]]

\* One connection of a scope, added to the splice element by element.
Route(s, refs, splice, c) ==
    LET inward == c.src.block = s
        outward == c.dst.block = s
        src == IF inward THEN Addressed(Ins[s], c.src.els) ELSE ResolveSrc(refs, c.src)
        dst == IF outward THEN Addressed(Outs[s], c.dst.els) ELSE ResolveTarget(refs, c.dst)
        n == Min({Len(src), Len(dst)})
        each(op(_, _), start) == FoldLeft(op, start, [i \in 1 .. n |-> i])
    IN  IF ~splice.ok \/ (inward /\ outward) \/ (~inward /\ {} \in ToSet(src)) THEN Rejected
        ELSE IF inward
        THEN [splice EXCEPT !.targets = each(LAMBDA t, i : Feed(t, src[i], dst[i]), @)]
        ELSE IF outward
        THEN [splice EXCEPT !.out = each(LAMBDA o, i : [o EXCEPT ![dst[i]] = src[i]], @)]
        ELSE [splice EXCEPT !.wires = each(LAMBDA w, i : w \o WiresTo(src[i], dst[i]), @)]

\* flatten_scope: members in the order of the scope's schedule, the leaves and
\* wires of a subsystem at its place, then the connections of the scope.
RECURSIVE FlattenScope(_, _)
FlattenScope(ir, s) ==
    LET subs == SelectSeq(ir[s].topo, LAMBDA b : b \in Subsystems)
        refs == [b \in ToSet(subs) |-> FlattenScope(ir, b)]
        leaves == FlattenSeq([i \in DOMAIN ir[s].topo |->
                                 LET b == ir[s].topo[i]
                                 IN  IF b \in Leaves THEN <<b>> ELSE refs[b].blocks])
        inlined == FlattenSeq([i \in DOMAIN subs |-> refs[subs[i]].wires])
    IN  IF ir[s].looped \/ \E b \in DOMAIN refs : ~refs[b].ok THEN Rejected
        ELSE FoldLeft(LAMBDA splice, c : Route(s, refs, splice, c),
                      [ok |-> TRUE, blocks |-> leaves, wires |-> inlined,
                       targets |-> [e \in (IF s = Top THEN {} ELSE Elements(Ins[s])) |-> <<>>],
                       out |-> [e \in (IF s = Top THEN {} ELSE Elements(Outs[s])) |-> {}]],
                      ir[s].conns)

-----------------------------------------------------------------------------
(* the plan *)

\* input_src: the last wire into an input element drives it.
InputSrc(wires) ==
    [end \in LeafInputs |->
        LET into == SelectSeq(wires, LAMBDA w : w.dst = end)
        IN  IF into = <<>> THEN {} ELSE {Last(into).src}]

HasFeedthrough(b) == Kind[b] = "shift"

\* topo_order: always the first block all of whose drivers are done; what is
\* left over comes in the order of the list.
RECURSIVE TopoOrder(_, _, _)
TopoOrder(order, rest, deps) ==
    LET ready == SelectSeq(rest, LAMBDA b : deps[b] \subseteq ToSet(order))
    IN  IF ready = <<>> THEN order \o rest
        ELSE TopoOrder(Append(order, Head(ready)), Remove(rest, Head(ready)), deps)

Deps(flat) ==
    [b \in ToSet(flat.blocks) |->
        {a \in ToSet(flat.blocks) \ {b} :
            HasFeedthrough(b) /\ \E w \in ToSet(flat.wires) : w.src[2] = a /\ w.dst[2] = b}]

\* flatten and build_plan.
Generated(ir) ==
    LET flat == FlattenScope(ir, Top)
    IN  IF ~flat.ok THEN Rejected
        ELSE [ok |-> TRUE, wires |-> flat.wires, input |-> InputSrc(flat.wires),
              order |-> TopoOrder(<<>>, flat.blocks, Deps(flat))]
=============================================================================
