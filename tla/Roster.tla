------------------------------- MODULE Roster -------------------------------
(***************************************************************************)
(* The rosters of the conductor and of the switches: vectors of ConnInfo*  *)
(* to which handlers push_back, and from which onClose erases.             *)
(***************************************************************************)
EXTENDS Naturals, Sequences

Members(v) == {v[i] : i \in 1 .. Len(v)}

NoDuplicates(v) == \A i, j \in 1 .. Len(v) : v[i] = v[j] => i = j

(***************************************************************************)
(* v.erase(std::remove(v.begin(), v.end(), p), v.end()).  Only one entry   *)
(* goes here; std::remove takes them all, which is the same on a roster    *)
(* with NoDuplicates, an invariant of every specification that uses it.    *)
(***************************************************************************)
Erase_Nothing(v, p) == v        \* mutants of Erase
Erase_Last(v, p) == SubSeq(v, 1, Len(v) - 1)
Erase(v, p) ==
    IF p \in Members(v)
    THEN LET k == CHOOSE k \in 1 .. Len(v) : v[k] = p
         IN  [i \in 1 .. Len(v) - 1 |-> IF i < k THEN v[i] ELSE v[i + 1]]
    ELSE v
=============================================================================
