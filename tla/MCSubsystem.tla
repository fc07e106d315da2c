----------------------------- MODULE MCSubsystem -----------------------------
(***************************************************************************)
(* A block at the top and one in a subsystem inside a subsystem.           *)
(***************************************************************************)
EXTENDS Subsystem, TLC

CONSTANTS plant, outer, inner, rotor

MCAround == plant :> {} @@ outer :> {} @@ inner :> {outer} @@ rotor :> {outer, inner}
=============================================================================
