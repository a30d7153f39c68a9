------------------------------- MODULE MCDrill -------------------------------
(***************************************************************************)
(* The calls of the two stages: one key each.                              *)
(***************************************************************************)
EXTENDS TransferDrill, TLC

CONSTANTS k1, k2

DrillKeys   == (lost :> k1) @@ (sending :> k2) @@ (retry :> k2) @@ (after :> k2)
DrillBodies == [c \in Call |-> 1]
=============================================================================
