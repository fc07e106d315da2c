---------------------------- MODULE MCCompiledRun ----------------------------
(* One state and one memory element; a tick, a crossing of the state, and a  *)
(* guard on the memory that stays true once an effect has set it.            *)
EXTENDS CompiledRun

CONSTANTS s1, m1

MCKind      == <<"periodic", "crossing", "condition">>
MCStart     == <<1, 0, 0>>
MCPeriod    == <<2, 0, 0>>
MCLast      == <<100, 0, 0>>
MCList      == <<<<>>, <<>>, <<>>>>
MCDirection == <<"both", "both", "both">>
MCSource    == <<Clock, s1, m1>>
MCThreshold == <<0, 0, 0>>
MCTol       == <<0, 0, 2>>
MCLevel     == -1 .. 1
MCInitial   == [s \in Slot |-> -1]
MCScales    == {<<1, 1>>, <<2, 1>>}

=============================================================================
