------------------------------ MODULE MCAssign ------------------------------
(***************************************************************************)
(* Instances of Assign for TLC.                                            *)
(***************************************************************************)
EXTENDS Assign

CONSTANTS a1, s1
=============================================================================
