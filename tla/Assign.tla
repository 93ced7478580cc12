------------------------------- MODULE Assign -------------------------------
(***************************************************************************)
(* The conductor alone, with switches and agents of any network: what      *)
(* pick_switch does as switches come and go between two assignments.  The  *)
(* clients of this module connect, register and close as they like; one    *)
(* acts when the conductor has caught up with the others, since a handler  *)
(* sees one connection and the order in which clients act is free anyway.  *)
(***************************************************************************)
EXTENDS Conductor

VARIABLE recent         \* history: switches picked since the roster last changed

assign_vars == <<net_vars, cdt_vars, recent>>

AssignInit == NetInit /\ CdtInit /\ recent = <<>>

-----------------------------------------------------------------------------
CaughtUp ==
    /\ Idle
    /\ \A c \in Conn : srv_up[c] => cdt_info[c] # None /\ cli_up[c] /\ to_srv[c] = <<>>

\* A client opens a connection and writes the packet m.
Greets(p, c, m) ==
    /\ CaughtUp
    /\ Unused(c)
    /\ cli' = [cli EXCEPT ![c] = p]
    /\ srv' = [srv EXCEPT ![c] = CDT]
    /\ cli_up' = [cli_up EXCEPT ![c] = TRUE]
    /\ srv_up' = [srv_up EXCEPT ![c] = TRUE]
    /\ to_srv' = [to_srv EXCEPT ![c] = <<m>>]
    /\ UNCHANGED <<to_cli, cdt_vars>>
SwitchGreets(s, c, n) == Greets(s, c, [type |-> "SWITCH_MIP", name |-> s, network |-> n])
AgentGreets(a, c, n)  == Greets(a, c, [type |-> "AGENT_MIP", name |-> a, network |-> n])

\* An agent may be gone before its packet is read, so that the first send of onAgentMIP fails.
Closes(c) ==
    /\ CaughtUp \/ (cli[c] \in Agents /\ to_srv[c] # <<>>)
    /\ cli_up[c] /\ CloseCli(c) /\ UNCHANGED cdt_vars

Clients ==
    /\ \E c \in Conn :
         \/ \E s \in Switches, n \in Networks : SwitchGreets(s, c, n)
         \/ \E a \in Agents, n \in Networks : AgentGreets(a, c, n)
         \/ Closes(c)
    /\ UNCHANGED recent

\* A step that draws a token has picked a switch, for the agent whose packet it reads.
Picked ==
    LET c == CHOOSE c \in Conn : to_srv'[c] # to_srv[c] IN pick_switch(AgentInfo(c).network)
Conducts ==
    /\ CdtStart \/ CdtStep
    /\ recent' = IF switches' # switches THEN <<>>
                 ELSE IF issued' # issued THEN Append(recent, Picked)
                 ELSE recent

AssignNext == Clients \/ Conducts

AssignSpec == AssignInit /\ [][AssignNext]_assign_vars

-----------------------------------------------------------------------------
AllReachable == \A c \in Members(switches) : cdt_info[c].network = "::internet"

(***************************************************************************)
(* Load balancing (pick_switch: "We also round-robin"): while the roster   *)
(* stands and everybody reaches every switch, no switch is picked a second *)
(* time before all the others had their turn, wherever rr_index was left   *)
(* by earlier and longer rosters, and whether the agent got its assignment *)
(* or was gone (the turn is taken all the same).                           *)
(***************************************************************************)
RoundRobin ==
    AllReachable =>
        \A i, j \in 1 .. Len(recent) :
            i < j /\ j - i < Len(switches) => recent[i] # recent[j]

\* A step that fills busy is an assignment.
Assigns == busy = None /\ busy' # None

(***************************************************************************)
(* An agent is not sent to a switch it cannot reach while a switch that it *)
(* can reach is registered.                                                *)
(***************************************************************************)
ReachableFirst ==
    [][Assigns =>
         \/ Reachable(busy'.switch, cdt_info'[busy'.agent].network)
         \/ \A c \in Members(switches) :
               ~Reachable(c, cdt_info'[busy'.agent].network)]_assign_vars

(***************************************************************************)
(* The comment in pick_switch: "the conductor should ensure the agent can  *)
(* theoretically reach the switch (same network OR switch is ::internet)". *)
(***************************************************************************)
AssignsReachable ==
    busy # None => Reachable(busy.switch, cdt_info[busy.agent].network)
=============================================================================
