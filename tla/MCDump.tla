------------------------------- MODULE MCDump -------------------------------
(***************************************************************************)
(* Instances of Dump for TLC.                                              *)
(***************************************************************************)
EXTENDS Dump, TLC

CONSTANTS a1, s1, s2

Symmetry == Permutations(Switches)
=============================================================================
