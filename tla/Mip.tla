-------------------------------- MODULE Mip --------------------------------
(***************************************************************************)
(* The machine initialisation protocol: conductor, switches and agents     *)
(* together.  A step is a step of one process; the processes share only    *)
(* the connections of Net.                                                 *)
(***************************************************************************)
EXTENDS Conductor, Switch, Agent, FiniteSets

CONSTANT MaxFaults      \* bound: processes stopped and put_sck calls failed, in a behaviour
ASSUME FaultAssumption == MaxFaults \in Nat

VARIABLE faults         \* how many of them so far

vars == <<net_vars, cdt_vars, sw_vars, ag_vars, faults>>

TypeOK == NetTypeOK /\ CdtTypeOK /\ SwTypeOK /\ AgTypeOK /\ faults \in Nat

Init == NetInit /\ CdtInit /\ SwInit /\ AgInit /\ faults = 0

Listens(s) == sw_pc[s] = "running"
SwitchListens(a) == ag_assign[a] # None /\ Listens(ag_assign[a].switch)

(***************************************************************************)
(* The bound on connections: a process connects only if n identifiers are  *)
(* left besides those that handshakes under way will need to dial.         *)
(***************************************************************************)
Dialling == {a \in Agents : ag_pc[a] \in {"connected", "wait_assignment", "assigned"}}
Spare(n) == Cardinality({c \in Conn : cli[c] = None}) >= n + Cardinality(Dialling)

-----------------------------------------------------------------------------
\* What each process does by itself once it is started ...
CdtActs == CdtStep /\ UNCHANGED <<sw_vars, ag_vars, faults>>
SwActs(s) == SwStep(s) /\ UNCHANGED <<cdt_vars, ag_vars, faults>>
AgActs(a) ==
    /\ \/ AgRegister(a)
       \/ AgAssigned(a)
       \/ \E c \in Conn : AgDial(a, c, SwitchListens(a))
       \/ AgAuthenticate(a)
       \/ AgAccepted(a)
       \/ AgFails(a, SwitchListens(a))
       \/ AgOnConductorClose(a)
       \/ AgOnSwitchClose(a)
    /\ UNCHANGED <<cdt_vars, sw_vars, faults>>

\* ... and what is done to it: it is started, or tries again, time passes, it fails or
\* is stopped.
Starts ==
    /\ \/ CdtStart /\ UNCHANGED <<sw_vars, ag_vars>>
       \/ \E s \in Switches, c \in Conn :
            /\ Spare(1) /\ SwConnect(s, c, cdt_up)
            /\ UNCHANGED <<cdt_vars, ag_vars>>
       \/ \E a \in Agents, c \in Conn :
            /\ \/ Spare(2) /\ AgConnect(a, c, cdt_up)
               \/ Spare(1) /\ AgReconnect(a, c, cdt_up)
            /\ UNCHANGED <<cdt_vars, sw_vars>>
       \/ \E a \in Agents : Spare(1) /\ AgRetry(a) /\ UNCHANGED <<cdt_vars, sw_vars>>
    /\ UNCHANGED faults
Ages ==
    /\ \E s \in Switches, t \in Token : SwTokenAges(s, t)
    /\ UNCHANGED <<cdt_vars, ag_vars, faults>>
Faults ==
    /\ faults < MaxFaults
    /\ faults' = faults + 1
    /\ \/ /\ CdtCrash \/ \E c \in Conn : CdtAcceptFails(c)
          /\ UNCHANGED <<sw_vars, ag_vars>>
       \/ /\ \E s \in Switches : SwCrash(s) \/ \E c \in Conn : SwAcceptFails(s, c)
          /\ UNCHANGED <<cdt_vars, ag_vars>>
       \/ \E a \in Agents : AgCrash(a) /\ UNCHANGED <<cdt_vars, sw_vars>>

Next ==
    \/ CdtActs
    \/ \E s \in Switches : SwActs(s)
    \/ \E a \in Agents : AgActs(a)
    \/ Starts
    \/ Ages
    \/ Faults

Spec == Init /\ [][Next]_vars

(***************************************************************************)
(* Every process keeps running its loop: epoll returns every ready socket, *)
(* blocking calls return once there is something to return, and nothing in *)
(* a handler waits but the conductor's write to a full socket.  No process *)
(* has to start, stop or lose a connection.                                *)
(***************************************************************************)
Fairness ==
    /\ WF_vars(CdtActs)
    /\ \A s \in Switches : WF_vars(SwActs(s))
    /\ \A a \in Agents : WF_vars(AgActs(a))

FairSpec == Spec /\ Fairness

-----------------------------------------------------------------------------
Authenticated(c) == sw_info[c] # None /\ sw_info[c].role = "AGENT_AUTHENTICATED"

(***************************************************************************)
(* A connection that a switch lists as an authenticated agent was opened   *)
(* by that very agent: the name comes from the token, not from the peer    *)
(* (onAuthConnectToSwitch), so this rests on the whole path of the token.  *)
(***************************************************************************)
AuthenticIdentity ==
    \A c \in Conn : Authenticated(c) => sw_info[c].name = cli[c]

(***************************************************************************)
(* A token admits one connection, the one of the agent and the switch it   *)
(* was drawn for (README: "a one-time token"), whatever crashes, expiries  *)
(* and restarts happen between drawing and presenting it, and although it  *)
(* may be presented again, while the first time is still to be answered.   *)
(***************************************************************************)
OneTimeToken ==
    /\ \A c \in Conn : admitted[c] # None =>
          issued[admitted[c]] = [agent |-> cli[c], switch |-> srv[c]]
    /\ \A c, d \in Conn :
          admitted[c] # None /\ admitted[c] = admitted[d] => c = d

(***************************************************************************)
(* The conductor's rosters hold no dangling and no repeated pointer: every *)
(* entry is the ConnInfo, of the right role, of a connection it has not    *)
(* closed, every registered switch is on its roster, and the handler's sw  *)
(* and info survive until the second send of onAgentMIP.                   *)
(***************************************************************************)
RosterValid ==
    /\ NoDuplicates(switches) /\ NoDuplicates(agents)
    /\ \A c \in Conn :
          c \in Members(switches)
            <=> cdt_info[c] # None /\ cdt_info[c].role = "SWITCH_CONN"
    /\ \A c \in Members(agents) :
          cdt_info[c] # None /\ cdt_info[c].role = "AGENT_CONN"
    /\ \A c \in Conn : cdt_info[c] # None => srv[c] = CDT /\ srv_up[c]
    /\ busy # None => /\ busy.switch \in Members(switches)
                      /\ busy.agent \notin Members(agents)
                      /\ cdt_info[busy.agent] # None

\* SwitchState.agents is exactly the open, authenticated connections of the switch.
SwitchRosterExact ==
    \A s \in Switches :
        /\ NoDuplicates(sw_agents[s])
        /\ \A c \in Conn : c \in Members(sw_agents[s])
                             <=> srv[c] = s /\ srv_up[c] /\ Authenticated(c)

(***************************************************************************)
(* An agent in its event loop is right about its switch: the connection it *)
(* holds was admitted by the assigned switch with the agent's token, and   *)
(* the switch lists it until it closes the connection.                     *)
(***************************************************************************)
AgentView ==
    \A a \in Agents : ag_pc[a] = "running" /\ ag_sw[a] # None =>
        LET c == ag_sw[a] IN
          /\ cli[c] = a /\ srv[c] = ag_assign[a].switch
          /\ admitted[c] = ag_assign[a].token
          /\ srv_up[c] => Authenticated(c)

(***************************************************************************)
(* The pending tokens of a dump refer to a switch of the same dump:        *)
(* remove_switch drops the tokens of the switch it removes.                *)
(***************************************************************************)
PendingHasSwitch ==
    \A p \in pending_tokens :
        \E c \in Members(switches) : cdt_info[c].name = p.switch

\* The sessions and grants of the handshake, as Admission sees them.
Sessions == [c \in Conn |->
    IF admitted[c] = None THEN None
    ELSE [agent |-> cli[c], switch |-> srv[c], token |-> admitted[c],
          state |-> IF sw_info[c] # None THEN "live" ELSE "ended"]]

A == INSTANCE Admission WITH grants <- issued, sessions <- Sessions

ASSUME SessionNoneAssumption == None \notin A!Sessions

\* The handshake implements Admission.
AdmissionSpec == A!Spec

(***************************************************************************)
(* The comment on SwitchState::pending_tokens: tokens are "pushed by the   *)
(* conductor before the agent connects".  No AUTH_CONNECT_TO_SWITCH is     *)
(* read while its token is still on the way from the conductor.            *)
(***************************************************************************)
OnTheWay(t) ==
    \/ busy # None /\ busy.token = t
    \/ \E c \in Conn : \E i \in 1 .. Len(to_cli[c]) :
          to_cli[c][i].type = "AGENT_CONNECTION_TOKEN" /\ to_cli[c][i].token = t
TokenFirst ==
    \A s \in Switches, c \in Conn :
        SwReads(s, c, "AUTH_CONNECT_TO_SWITCH") => ~OnTheWay(Head(to_srv[c]).token)

-----------------------------------------------------------------------------
\* The blocking handshake of an agent ends: in the event loop, or with the process.
HandshakeEnds ==
    \A a \in Agents : ag_pc[a] \notin {"off", "running"} ~> ag_pc[a] \in {"off", "running"}

\* onAgentMIP returns, even if the switch it writes to is slow or gone.
AssignmentEnds == busy # None ~> busy = None

\* A switch that is gone stops being assigned to agents.
DeadSwitchLeaves ==
    \A c \in Conn :
        (c \in Members(switches) /\ ~cli_up[c]) ~> c \notin Members(switches)

\* A switch notices that an agent is gone and takes it off its roster.
DeadAgentLeaves ==
    \A s \in Switches, c \in Conn :
        (c \in Members(sw_agents[s]) /\ ~cli_up[c]) ~> c \notin Members(sw_agents[s])
=============================================================================
