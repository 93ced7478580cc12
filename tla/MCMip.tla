------------------------------- MODULE MCMip -------------------------------
(***************************************************************************)
(* Instances of Mip for TLC.                                               *)
(***************************************************************************)
EXTENDS MipInv, TLC

CONSTANTS a1, a2, s1, s2

Symmetry == Permutations(Agents) \cup Permutations(Switches)
=============================================================================
