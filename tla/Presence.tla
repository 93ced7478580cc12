------------------------------ MODULE Presence ------------------------------
(***************************************************************************)
(* What AgentRegistry promises, without its indexes: each switch knows, of *)
(* every agent, the one descriptor that speaks for it.  An agent gets it   *)
(* by authenticating on a descriptor; when that is refused or fails,       *)
(* nothing speaks for the agent, and what another agent has stays.  It     *)
(* loses it by authenticating again or when that very descriptor closes.   *)
(* The close of any other descriptor, an older one of its own too, changes *)
(* nothing.                                                                *)
(***************************************************************************)
CONSTANTS Switches, Agents, Fds, None

VARIABLES
    current,    \* the descriptor that speaks for an agent at a switch, or None
    speaker     \* the agent that has authenticated on a descriptor, or None

vars == <<current, speaker>>

Init ==
    /\ current = [s \in Switches |-> [n \in Agents |-> None]]
    /\ speaker = [s \in Switches |-> [f \in Fds |-> None]]

\* Agent n authenticates on a descriptor: it is registered, or refused.
Authenticates(s, f, n) ==
    /\ speaker[s][f] = None
    /\ speaker' = [speaker EXCEPT ![s][f] = n]
    /\ \/ current' = [current EXCEPT ![s][n] = f]
       \/ current' = [current EXCEPT ![s][n] = None]

Closes(s, f) ==
    /\ speaker[s][f] # None
    /\ speaker' = [speaker EXCEPT ![s][f] = None]
    /\ current' = [current EXCEPT ![s] =
                      [n \in Agents |-> IF current[s][n] = f THEN None ELSE current[s][n]]]

Next ==
    \E s \in Switches, f \in Fds :
        Closes(s, f) \/ \E n \in Agents : Authenticates(s, f, n)

Spec == Init /\ [][Next]_vars
=============================================================================
