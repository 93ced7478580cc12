----------------------------- MODULE Admission -----------------------------
(***************************************************************************)
(* What the three-party handshake promises, whatever happens on the way: a *)
(* session between an agent and a switch begins only with a grant that     *)
(* names both, and no grant begins two sessions.                           *)
(***************************************************************************)
CONSTANTS Agents, Switches, Conn, Token, None

VARIABLES
    grants,     \* what was granted under each token
    sessions    \* the session held on each connection

Grants   == [agent : Agents, switch : Switches]
Sessions == [agent : Agents, switch : Switches, token : Token, state : {"live", "ended"}]

Init ==
    /\ grants = [t \in Token |-> None]
    /\ sessions = [c \in Conn |-> None]

Issue(t) ==
    /\ grants[t] = None
    /\ \E g \in Grants : grants' = [grants EXCEPT ![t] = g]
    /\ UNCHANGED sessions

Spent(t) == \E c \in Conn : sessions[c] # None /\ sessions[c].token = t

Begin(c, t) ==
    /\ sessions[c] = None /\ grants[t] # None /\ ~Spent(t)
    /\ sessions' = [sessions EXCEPT ![c] =
          [agent |-> grants[t].agent, switch |-> grants[t].switch,
           token |-> t, state |-> "live"]]
    /\ UNCHANGED grants

\* Sessions end one at a time, or together when a switch stops.
End(S) ==
    /\ \A c \in S : sessions[c] # None
    /\ sessions' = [c \in Conn |->
          IF c \in S THEN [sessions[c] EXCEPT !.state = "ended"] ELSE sessions[c]]
    /\ UNCHANGED grants

Next ==
    \/ \E t \in Token : Issue(t)
    \/ \E c \in Conn, t \in Token : Begin(c, t)
    \/ \E S \in SUBSET Conn : End(S)

Spec == Init /\ [][Next]_<<grants, sessions>>
=============================================================================
