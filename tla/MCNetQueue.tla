----------------------------- MODULE MCNetQueue -----------------------------
(***************************************************************************)
(* Instances of NetQueue for TLC.                                          *)
(***************************************************************************)
EXTENDS NetQueue, TLC

CONSTANTS f1, f2

Symmetry == Permutations(Fds)
=============================================================================
