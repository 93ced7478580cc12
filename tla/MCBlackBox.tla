----------------------------- MODULE MCBlackBox -----------------------------
(***************************************************************************)
(* Instances of BlackBox for TLC.                                          *)
(***************************************************************************)
EXTENDS BlackBox, SequencesExt

CONSTANTS a, b, s1, s2, f1, f2

Ip(n, i)       == [kind |-> "ip", first |-> n, second |-> i]
Internet(n, i) == [kind |-> "internet", first |-> n, second |-> i]
Pair(n, m)     == [kind |-> "agent", first |-> n, second |-> m]
Malformed      == [kind |-> "malformed"]

\* Every order of a working file, and every file of at most two of these lines.
Working == <<Ip(a, 1), Ip(b, 2), Pair(a, b), Internet(a, 9)>>
SomeLines == {Ip(a, 0), Ip(a, 1), Ip(a, 2), Ip(b, 1), Pair(a, b), Pair(a, a),
              Internet(a, 0), Internet(a, 9), Malformed}
MCFiles ==
    {[i \in 1 .. 4 |-> Working[q[i]]] : q \in {q \in [1 .. 4 -> 1 .. 4] : IsInjective(q)}}
    \cup BoundedSeq(SomeLines, 2)

\* Packets around the sizes that matter.
MCRaw ==
    [len : {0, 19, 20, 23, 24, 27, 28, 60, 63, 64}, version : {4, 6}, ihl : {0, 4, 5, 6, 15},
     total_length : {0, 20, 24, 28, 64, 65535}, ports : BOOLEAN]
MCArriving ==
    {[len |-> n, version |-> 4, ihl |-> 5, total_length |-> 28, ports |-> TRUE] : n \in {23, 28}}

Symmetry == Permutations(Fds)
=============================================================================
