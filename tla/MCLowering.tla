----------------------------- MODULE MCLowering -----------------------------
(***************************************************************************)
(* A source of two elements, two sampled blocks and a subsystem with       *)
(* another one inside, wired in all the ways the options below give.       *)
(***************************************************************************)
EXTENDS Lowering

CONSTANTS top, outer, inner, clock, wide, tally, bias, gain, latch

MCMembers ==
    top :> <<outer, wide, tally, clock>> @@ outer :> <<bias, inner>> @@ inner :> <<gain, latch>>
MCKind ==
    clock :> "ramp" @@ wide :> "hold" @@ tally :> "sum" @@ bias :> "shift"
    @@ gain :> "shift" @@ latch :> "hold"
MCIns ==
    clock :> 0 @@ wide :> 2 @@ tally :> 1 @@ outer :> 2 @@ bias :> 1
    @@ inner :> 1 @@ gain :> 1 @@ latch :> 1
MCOuts == [b \in DOMAIN MCIns |-> IF b \in {clock, wide, outer} THEN 2 ELSE 1]
MCPeriod == wide :> 1 @@ tally :> 1 @@ latch :> 2
MCPhase == wide :> 0 @@ tally :> 1 @@ latch :> 0

Both == <<0, 1>>
Crossed == <<1, 0>>
Link(a, x, b, y) == [src |-> [block |-> a, els |-> x], dst |-> [block |-> b, els |-> y]]
\* One connection between single elements.
Wire(a, x, b, y) == Link(a, <<x>>, b, <<y>>)

\* One choice from each set of options, one after the other.
Joined(P, Q) == {p \o q : p \in P, q \in Q}

InnerWirings ==
    Joined(Joined({<<Wire(inner, 0, gain, 0)>>, <<Wire(latch, 0, gain, 0)>>},
                  {<<Wire(inner, 0, latch, 0)>>, <<Wire(gain, 0, latch, 0)>>}),
           {<<Wire(gain, 0, inner, 0)>>, <<Wire(latch, 0, inner, 0)>>})

OuterWirings ==
    Joined(Joined({<<Wire(outer, 0, bias, 0)>>, <<Wire(inner, 0, bias, 0)>>},
                  {<<Wire(outer, 1, inner, 0)>>, <<Wire(bias, 0, inner, 0)>>}),
           {<<Wire(bias, 0, outer, 0), Wire(inner, 0, outer, 1)>>,
            <<Wire(inner, 0, outer, 0), Wire(bias, 0, outer, 1)>>,
            <<Wire(inner, 0, outer, 0), Wire(outer, 0, outer, 1)>>,
            <<Wire(bias, 0, outer, 0)>>})

TopWirings ==
    Joined(Joined({<<Link(clock, Both, outer, Both)>>, <<Link(wide, Crossed, outer, Both)>>,
                   <<Wire(tally, 0, outer, 1), Wire(clock, 1, outer, 0)>>,
                   <<Wire(clock, 0, outer, 0), Wire(outer, 0, outer, 1)>>},
                  {<<Link(clock, Crossed, wide, Both)>>, <<Link(outer, Both, wide, Crossed)>>,
                   <<Wire(tally, 0, wide, 1), Wire(wide, 1, wide, 0)>>}),
           {<<Wire(clock, 1, tally, 0)>>, <<Wire(wide, 1, tally, 0)>>, <<Wire(outer, 0, tally, 0)>>})

Drawn(tops) ==
    {top :> t @@ outer :> o @@ inner :> i : t \in tops, o \in OuterWirings, i \in InnerWirings}

MCDiagrams == Drawn(TopWirings)
=============================================================================
