---------------------------- MODULE MCSimulation ----------------------------
(***************************************************************************)
(* Values of the constants of Simulation for TLC: one system of events per *)
(* question, on a time grid whose unit is the smallest step.               *)
(***************************************************************************)
EXTENDS Simulation

CONSTANTS b1, b2

\* Three events: a periodic tick owned by block b1, a crossing of b1's output,
\* a one-shot condition on the clock.
MCKind       == <<"periodic", "crossing", "condition">>
MCStart      == <<1, 0, 0>>
MCPeriod     == <<2, 0, 0>>
MCLongPeriod == <<3, 0, 0>>
MCLast       == <<100, 0, 0>>
MCList       == <<<<>>, <<>>, <<>>>>
MCDirection  == <<"both", "both", "both">>
MCSource     == <<Clock, b1, Clock>>
MCThreshold  == <<0, 0, 3>>
MCTol        == <<0, 0, 2>>
MCTightTol   == <<0, 0, 1>>
MCOwner      == <<b1, NoValue, NoValue>>

\* The same with explicit tick times in place of the condition.
MCKindMixed == <<"periodic", "crossing", "list">>
MCLateList  == <<<<>>, <<>>, <<3, 6>>>>

MCLevel     == -1 .. 1
MCTwoLevels == {-1, 0}
MCInitial   == [b \in Block |-> -1]
MCScales    == {<<1, 1>>, <<2, 1>>}
=============================================================================
