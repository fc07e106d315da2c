------------------------------ MODULE Lowering ------------------------------
(***************************************************************************)
(* One diagram, three programs: the interpreter of the simulation, which   *)
(* moves values between the registers of nested blocks                     *)
(* (src/simulation.rs, src/subsystem.rs), the generated C, which computes  *)
(* a flat array of signals (src/codegen/), and the compiled runtime, which *)
(* evaluates expressions over states and memory (src/compile/).  All run   *)
(* with a fixed step of 1 and one stage, next to the sampled blocks of     *)
(* src/blocks/constructors/discrete.rs.                                    *)
(***************************************************************************)
EXTENDS Generator, CompilerFront

CONSTANTS
    Diagrams,           \* diagrams to start from
    Period, Phase,      \* of the event of every sampled block, whole steps
    MaxTime

ASSUME LoweringAssumption ==
    /\ Period \in [Sampled -> Nat \ {0}] /\ Phase \in [Sampled -> Nat]
    /\ MaxTime \in Nat
    /\ \A d \in Diagrams : DrivenOnce(d)

VARIABLES
    diagram,
    phase,      \* "drawn", "lowered", "running" or "looped"
    program,    \* the evaluation order of the interpreter, by scope
    generated,  \* the plan of the code generator, or its rejection
    compiled,   \* the wiring of the compiler, or its rejection
    live,       \* the interpreter: x, mem, regs
    target,     \* the C program: x, mem, sig
    fused       \* the compiled runtime: x, mem

vars == <<diagram, phase, program, generated, compiled, live, target, fused>>

Due(b, t) == t >= Phase[b] /\ (t - Phase[b]) % Period[b] = 0

\* Sampled blocks whose event is due, in the order events are collected: as the
\* blocks were added, those of a subsystem in its place.
DueEvents(t) == SelectSeq(Declared, LAMBDA b : b \in Sampled /\ Due(b, t))

Zero(width) == [e \in Elements(width) |-> 0]
Blank == [b \in Sampled |-> [held |-> Zero(Outs[b]), state |-> Zero(Outs[b])]]

\* The event of a sampled block with inputs u: a hold takes them over, a sum
\* shows what it had and adds them.
Fired(b, cell, u) ==
    IF Kind[b] = "hold" THEN [cell EXCEPT !.held = u]
    ELSE [held |-> cell.state, state |-> [e \in DOMAIN u |-> cell.state[e] + u[e]]]

\* What a leaf puts out for element e: a ramp its state, a shift its input plus
\* one, a sampled block what it holds.
Output(b, e, x, mem, u) ==
    CASE Kind[b] = "ramp"  -> x + 10 * e
      [] Kind[b] = "shift" -> u[e] + 1
      [] OTHER             -> mem[b].held[e]

-----------------------------------------------------------------------------
(* the interpreter *)

\* dag_iter of a scope: blocks by depth, and the wires that leave them.
Program(d) ==
    [s \in Scopes |->
        [enter |-> {w \in WiresIn(d, s) : s # Top /\ w[1] \in InEnds(s)},
         layers |-> [k \in DOMAIN Layers(d, s) |->
                        [blocks |-> Layers(d, s)[k],
                         wires |-> {w \in WiresIn(d, s) :
                                      w[1] \in UNION {OutEnds(b) : b \in ToSet(Layers(d, s)[k])}}]]]]

\* Connection.update on every wire: targets take what their sources have.
Transferred(regs, wires) ==
    [end \in DOMAIN regs |->
        IF \E w \in wires : w[2] = end THEN regs[The({w \in wires : w[2] = end})[1]] ELSE regs[end]]

\* Block.update and SubsystemInner.update: the interior is evaluated with the
\* inputs the subsystem has when its turn comes.
RECURSIVE UpdateScope(_, _, _, _)
UpdateBlock(p, m, regs, b) ==
    IF b \in Subsystems THEN UpdateScope(p, m, regs, b)
    ELSE LET u == [e \in Elements(Ins[b]) |-> regs[<<"in", b, e>>]]
         IN  [end \in DOMAIN regs |->
                IF end \in OutEnds(b) THEN Output(b, end[3], m.x, m.mem, u) ELSE regs[end]]
UpdateScope(p, m, regs, s) ==
    FoldLeft(LAMBDA r, layer :
                Transferred(FoldLeft(LAMBDA q, b : UpdateBlock(p, m, q, b), r, layer.blocks), layer.wires),
             Transferred(regs, p[s].enter), p[s].layers)

Update(p, m) == [m EXCEPT !.regs = UpdateScope(p, m, @, Top)]

\* An event resolves with the inputs the registers of its block hold.
Resolved(m, b) ==
    [m EXCEPT !.mem[b] = Fired(b, @, [e \in Elements(Ins[b]) |-> m.regs[<<"in", b, e>>]])]

\* run: evaluate, then resolve what is due one by one, each with an evaluation.
LiveStart(p) ==
    FoldLeft(LAMBDA m, b : Update(p, Resolved(m, b)),
             Update(p, [x |-> 0, mem |-> Blank, regs |-> [end \in Ends |-> 0]]), DueEvents(0))

\* timestep: evaluate for the stage, step, evaluate, resolve what is due and
\* evaluate again.
LiveStep(p, m) ==
    LET stepped == Update(p, [Update(p, m) EXCEPT !.x = @ + 1])
        due == DueEvents(stepped.x)
    IN  IF due = <<>> THEN stepped ELSE Update(p, FoldLeft(Resolved, stepped, due))

-----------------------------------------------------------------------------
(* the generated C *)

SignalAt(sig, input) == IF input = {} THEN 0 ELSE sig[The(input)]

\* <name>_outputs: every block in the order of the plan.
Outputs(plan, m) ==
    LET value(sig, b, e) ==
            Output(b, e, m.x, m.mem, [k \in Elements(Ins[b]) |-> SignalAt(sig, plan.input[<<"in", b, k>>])])
    IN  [m EXCEPT !.sig =
            FoldLeft(LAMBDA sig, b : [end \in DOMAIN sig |->
                                        IF end \in OutEnds(b) THEN value(sig, b, end[3]) ELSE sig[end]],
                     @, plan.order)]

\* <name>_handle_events: signals are computed once, then every effect that is
\* due reads them.  (Mutant: the signals of the last stage are good enough.)
HandledAsIs(plan, m) ==
    LET u(b) == [e \in Elements(Ins[b]) |-> SignalAt(m.sig, plan.input[<<"in", b, e>>])]
    IN  [m EXCEPT !.mem = [b \in Sampled |-> IF Due(b, m.x) THEN Fired(b, @[b], u(b)) ELSE @[b]]]
Handled(plan, before) ==
    LET m == Outputs(plan, before)
        u(b) == [e \in Elements(Ins[b]) |-> SignalAt(m.sig, plan.input[<<"in", b, e>>])]
    IN  [m EXCEPT !.mem = [b \in Sampled |-> IF Due(b, m.x) THEN Fired(b, @[b], u(b)) ELSE @[b]]]

TargetStart(plan) ==
    Outputs(plan, Handled(plan, Outputs(plan,
        [x |-> 0, mem |-> Blank, sig |-> [end \in LeafOutputs |-> 0]])))

\* <name>_step: one integrator step, events, outputs.
TargetStep(plan, m) == Outputs(plan, Handled(plan, [Outputs(plan, m) EXCEPT !.x = @ + 1]))

-----------------------------------------------------------------------------
(* the compiled runtime *)

\* The expression of a leaf output (resolve_output, resolve_input).
RECURSIVE ValueOf(_, _, _)
ValueOf(wiring, m, end) ==
    LET b == end[2]
        input(k) == LET src == wiring.input[<<"in", b, k>>]
                    IN  IF src = {} THEN 0 ELSE ValueOf(wiring, m, The(src))
    IN  Output(b, end[3], m.x, m.mem, [k \in Elements(Ins[b]) |-> input(k)])

InputOf(wiring, m, end) == IF wiring.input[end] = {} THEN 0 ELSE ValueOf(wiring, m, The(wiring.input[end]))

\* The effect of an event reads states and memory as they are.
Applied(wiring, m, b) ==
    [m EXCEPT !.mem[b] = Fired(b, @, [e \in Elements(Ins[b]) |-> InputOf(wiring, m, <<"in", b, e>>)])]

\* Events are applied one after the other.  (Mutant: the last one first.)
ApplyAllBackwards(wiring, m) ==
    FoldRight(LAMBDA b, n : Applied(wiring, n, b), DueEvents(m.x), m)
ApplyAll(wiring, m) ==
    FoldLeft(LAMBDA n, b : Applied(wiring, n, b), m, DueEvents(m.x))

FusedStart(wiring) == ApplyAll(wiring, [x |-> 0, mem |-> Blank])
FusedStep(wiring, m) == ApplyAll(wiring, [m EXCEPT !.x = @ + 1])

-----------------------------------------------------------------------------

None == [x |-> 0]

Init ==
    /\ diagram \in Diagrams
    /\ phase = "drawn"
    /\ program = <<>> /\ generated = Rejected /\ compiled = Rejected
    /\ live = None /\ target = None /\ fused = None

\* The graph is assembled, exported, flattened for C and compiled.
Lower ==
    /\ phase = "drawn"
    /\ LET ir == Ir(diagram)
       IN  generated' = Generated(ir) /\ compiled' = Compiled(ir)
    /\ IF HasLoops(diagram) THEN phase' = "looped" /\ UNCHANGED program
       ELSE phase' = "lowered" /\ program' = Program(diagram)
    /\ UNCHANGED <<diagram, live, target, fused>>

Start ==
    /\ phase = "lowered"
    /\ phase' = "running"
    /\ live' = LiveStart(program)
    /\ target' = IF generated.ok THEN TargetStart(generated) ELSE None
    /\ fused' = IF compiled.ok THEN FusedStart(compiled) ELSE None
    /\ UNCHANGED <<diagram, program, generated, compiled>>

Step ==
    /\ phase = "running" /\ live.x < MaxTime
    /\ live' = LiveStep(program, live)
    /\ target' = IF generated.ok THEN TargetStep(generated, target) ELSE None
    /\ fused' = IF compiled.ok THEN FusedStep(compiled, fused) ELSE None
    /\ UNCHANGED <<diagram, phase, program, generated, compiled>>

Next == Lower \/ Start \/ Step

Spec == Init /\ [][Next]_vars
FairSpec == Spec /\ WF_vars(Next)

-----------------------------------------------------------------------------
(* properties *)

\* Loops are only looked for scope by scope, and yet no loop survives inlining:
\* in the order of the generated algebraic pass every block with feedthrough
\* comes after all blocks that drive it.
NoLoopSlipsThrough ==
    generated.ok =>
        \A w \in ToSet(generated.wires) :
            HasFeedthrough(w.dst[2]) =>
                \E i, j \in DOMAIN generated.order :
                    i < j /\ generated.order[i] = w.src[2] /\ generated.order[j] = w.dst[2]

Rates == [b \in Leaves |-> Reads(diagram, b)]

\* A sampled block of some feeds a later one of them within one evaluation.
Chained(some) ==
    \E i, j \in DOMAIN Declared :
        /\ i < j /\ {Declared[i], Declared[j]} \subseteq some
        /\ Reached(Wires(diagram), Rates, OutEnds(Declared[i])) \cap InEnds(Declared[j]) # {}

\* A sampled block is fed through an input of a subsystem that no output of the
\* subsystem reads.
Lagging ==
    \E s \in Subsystems : \E e \in Elements(Ins[s]) \ Reads(diagram, s) :
        \E b \in Sampled : Reached(Wires(diagram), Rates, {<<"in", s, e>>}) \cap InEnds(b) # {}

\* What the blocks of the top scope put out.
LiveOutputs == [end \in UNION {OutEnds(b) : b \in ToSet(Members[Top])} |-> live.regs[end]]

TargetOutputs ==
    [end \in DOMAIN LiveOutputs |-> SignalAt(target.sig, OriginOf(Wires(diagram), end))]

FusedOutputs ==
    [end \in DOMAIN LiveOutputs |->
        LET from == OriginOf(Wires(diagram), end)
        IN  IF from = {} THEN 0 ELSE ValueOf(compiled, fused, The(from))]

\* After every step the generated program holds and puts out what the interpreter
\* does, unless blocks sampled at time 0 feed each other in the order in which
\* the interpreter resolves their first events, or a subsystem delays an input.
GeneratedFollowsRuntime ==
    phase = "running" /\ generated.ok /\ ~Chained({b \in Sampled : Phase[b] = 0}) /\ ~Lagging =>
        target.mem = live.mem /\ TargetOutputs = LiveOutputs

\* So does the compiled runtime, unless any sampled block feeds a later one, whose
\* event would see what the event of the first has just stored.
CompiledFollowsRuntime ==
    phase = "running" /\ compiled.ok /\ ~Chained(Sampled) /\ ~Lagging =>
        fused.mem = live.mem /\ FusedOutputs = LiveOutputs

=============================================================================
