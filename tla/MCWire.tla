---------------------------------- MODULE MCWire -------------------------------
(***************************************************************************)
(* The wire for TLC.                                                       *)
(***************************************************************************)
EXTENDS MCDescription, Wire

TsiOfEach == [t \in Transmitters |-> IF t = t1 THEN 1 ELSE HalfWord - 1]
================================================================================
