----------------------------- MODULE Endpoints -----------------------------
(***************************************************************************)
(* The names the black box of a switch deals in: agents, virtual IPv4      *)
(* addresses and file descriptors.  Address 0 is the code's "not found",   *)
(* None its null pointer, its empty string and its descriptor -1.          *)
(***************************************************************************)
EXTENDS Naturals, Sequences

CONSTANTS Agents, Ips, Fds, None

ASSUME EndpointAssumption ==
    /\ Ips \subseteq Nat \ {0}
    /\ None \notin Agents /\ None \notin Fds
=============================================================================
