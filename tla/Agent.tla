------------------------------- MODULE Agent -------------------------------
(***************************************************************************)
(* The agents (src/src/agent/setup.cpp): a sequential, blocking handshake  *)
(* with the conductor and then the assigned switch, then an event loop     *)
(* that only notices closed connections.  Any failure before the loop ends *)
(* the process, which is then started again (docker-compose.yml).          *)
(***************************************************************************)
EXTENDS Net

CONSTANTS
    Reconnecting,       \* agents that use PacketAgentMRP (see AgReconnect)
    Retrying            \* agents that present their token again (see AgRetry)
ASSUME ReconnectingAssumption == Reconnecting \subseteq Agents /\ Retrying \subseteq Agents

VARIABLES
    ag_pc,      \* progress of main
    ag_cdt,     \* the conductor's socket, None once closed
    ag_sw,      \* the switch's socket, None once closed
    ag_assign   \* the CONNECT_TO_SWITCH packet

ag_vars == <<ag_pc, ag_cdt, ag_sw, ag_assign>>

AgPC == {"off", "connected", "wait_assignment", "assigned",
         "dialled", "wait_accepted", "running"}
Assignment == [switch : Switches, token : Token]
ASSUME AgNoneAssumption == None \notin Assignment

AgTypeOK ==
    /\ ag_pc \in [Agents -> AgPC]
    /\ ag_cdt \in [Agents -> Conn \cup {None}]
    /\ ag_sw \in [Agents -> Conn \cup {None}]
    /\ ag_assign \in [Agents -> Assignment \cup {None}]

AgInit ==
    /\ ag_pc = [a \in Agents |-> "off"]
    /\ ag_cdt = [a \in Agents |-> None]
    /\ ag_sw = [a \in Agents |-> None]
    /\ ag_assign = [a \in Agents |-> None]

-----------------------------------------------------------------------------
\* Step 1: connect_with_retry to the conductor, then AGENT_MIP.
AgConnect(a, c, listening) ==
    /\ ag_pc[a] = "off" /\ listening
    /\ Connect(a, CDT, c)
    /\ ag_pc' = [ag_pc EXCEPT ![a] = "connected"]
    /\ ag_cdt' = [ag_cdt EXCEPT ![a] = c]
    /\ UNCHANGED <<ag_sw, ag_assign>>

AgRegister(a) ==
    /\ ag_pc[a] = "connected"
    /\ CliWrites(ag_cdt[a],
                 [type |-> "AGENT_MIP", name |-> a, network |-> "vnet.internal"])
    /\ ag_pc' = [ag_pc EXCEPT ![a] = "wait_assignment"]
    /\ UNCHANGED <<ag_cdt, ag_sw, ag_assign>>

\* Step 2: read_protobuf_packet of the assignment.
AgAssigned(a) ==
    /\ ag_pc[a] = "wait_assignment"
    /\ CliReads(ag_cdt[a], "CONNECT_TO_SWITCH")
    /\ LET pkt == Head(to_cli[ag_cdt[a]]) IN
         ag_assign' = [ag_assign EXCEPT ![a] =
                          [switch |-> pkt.switch, token |-> pkt.token]]
    /\ CliTakes(ag_cdt[a])
    /\ ag_pc' = [ag_pc EXCEPT ![a] = "assigned"]
    /\ UNCHANGED <<ag_cdt, ag_sw>>

\* Step 3: connect_with_retry to the switch, which must listen by then.
AgDial(a, c, listening) ==
    /\ ag_pc[a] = "assigned" /\ listening
    /\ Connect(a, ag_assign[a].switch, c)
    /\ ag_pc' = [ag_pc EXCEPT ![a] = "dialled"]
    /\ ag_sw' = [ag_sw EXCEPT ![a] = c]
    /\ UNCHANGED <<ag_cdt, ag_assign>>

AgAuthenticate(a) ==
    /\ ag_pc[a] = "dialled"
    /\ CliWrites(ag_sw[a],
                 [type |-> "AUTH_CONNECT_TO_SWITCH", token |-> ag_assign[a].token])
    /\ ag_pc' = [ag_pc EXCEPT ![a] = "wait_accepted"]
    /\ UNCHANGED <<ag_cdt, ag_sw, ag_assign>>

AgAccepted_Early(a) ==          \* mutant of AgAccepted
    /\ ag_pc[a] = "wait_accepted"
    /\ ag_pc' = [ag_pc EXCEPT ![a] = "running"]
    /\ UNCHANGED <<ag_cdt, ag_sw, ag_assign>>
    /\ UNCHANGED net_vars
\* Step 4: the acknowledgement is read, both sockets go to the NetQueue.
AgAccepted(a) ==
    /\ ag_pc[a] = "wait_accepted"
    /\ CliReads(ag_sw[a], "CONNECTION_ACCEPTED")
    /\ CliTakes(ag_sw[a])
    /\ ag_pc' = [ag_pc EXCEPT ![a] = "running"]
    /\ UNCHANGED <<ag_cdt, ag_sw, ag_assign>>

-----------------------------------------------------------------------------
\* Every socket is closed and the process ends.
AgGone(a) ==
    /\ ag_pc' = [ag_pc EXCEPT ![a] = "off"]
    /\ ag_cdt' = [ag_cdt EXCEPT ![a] = None]
    /\ ag_sw' = [ag_sw EXCEPT ![a] = None]
    /\ ag_assign' = [ag_assign EXCEPT ![a] = None]
    /\ CloseAll(a)

(***************************************************************************)
(* main returns 1: a send to a peer that is gone fails, a blocking read    *)
(* meets end-of-file, or connect_with_retry to the switch runs out of      *)
(* attempts while the switch does not listen.                              *)
(***************************************************************************)
AgFails_Patient(a, listening) ==        \* mutant of AgFails
    /\ \/ ag_pc[a] = "connected" /\ ~srv_up[ag_cdt[a]]
       \/ ag_pc[a] = "wait_assignment" /\ CliEOF(ag_cdt[a])
       \/ ag_pc[a] = "assigned" /\ ~listening
       \/ ag_pc[a] = "dialled" /\ ~srv_up[ag_sw[a]]
    /\ AgGone(a)
AgFails(a, listening) ==
    /\ \/ ag_pc[a] = "connected" /\ ~srv_up[ag_cdt[a]]
       \/ ag_pc[a] = "wait_assignment" /\ CliEOF(ag_cdt[a])
       \/ ag_pc[a] = "assigned" /\ ~listening
       \/ ag_pc[a] = "dialled" /\ ~srv_up[ag_sw[a]]
       \/ ag_pc[a] = "wait_accepted" /\ CliEOF(ag_sw[a])
    /\ AgGone(a)

\* The process is stopped or dies.
AgCrash(a) == ag_pc[a] # "off" /\ AgGone(a)

-----------------------------------------------------------------------------
\* onClose in the event loop: the connection is forgotten, nothing else happens.
AgOnConductorClose(a) ==
    /\ ag_pc[a] = "running" /\ ag_cdt[a] # None /\ CliEOF(ag_cdt[a])
    /\ ag_cdt' = [ag_cdt EXCEPT ![a] = None]
    /\ CloseCli(ag_cdt[a])
    /\ UNCHANGED <<ag_pc, ag_sw, ag_assign>>

AgOnSwitchClose(a) ==
    /\ ag_pc[a] = "running" /\ ag_sw[a] # None /\ CliEOF(ag_sw[a])
    /\ ag_sw' = [ag_sw EXCEPT ![a] = None]
    /\ CloseCli(ag_sw[a])
    /\ UNCHANGED <<ag_pc, ag_cdt, ag_assign>>

(***************************************************************************)
(* External: an agent that lost the conductor opens a new control socket   *)
(* and sends AGENT_MRP.  The conductor handles it (onAgentMRP); the agent  *)
(* of this repository never does it.                                       *)
(***************************************************************************)
AgReconnect(a, c, listening) ==
    /\ a \in Reconnecting /\ listening
    /\ ag_pc[a] = "running" /\ ag_cdt[a] = None
    /\ Unused(c)
    /\ cli' = [cli EXCEPT ![c] = a]
    /\ srv' = [srv EXCEPT ![c] = CDT]
    /\ cli_up' = [cli_up EXCEPT ![c] = TRUE]
    /\ srv_up' = [srv_up EXCEPT ![c] = TRUE]
    /\ to_srv' = [to_srv EXCEPT ![c] = <<[type |-> "AGENT_MRP", name |-> a]>>]
    /\ ag_cdt' = [ag_cdt EXCEPT ![a] = c]
    /\ UNCHANGED <<to_cli, ag_pc, ag_sw, ag_assign>>

(***************************************************************************)
(* External: an agent that does not wait for CONNECTION_ACCEPTED any       *)
(* longer gives its connection up and goes back to step 3 with the same    *)
(* token, which the switch may have read, or may still read.  The agent of *)
(* this repository waits, or ends and asks for a new token.                *)
(***************************************************************************)
AgRetry(a) ==
    /\ a \in Retrying /\ ag_pc[a] = "wait_accepted"
    /\ CloseCli(ag_sw[a])
    /\ ag_pc' = [ag_pc EXCEPT ![a] = "assigned"]
    /\ ag_sw' = [ag_sw EXCEPT ![a] = None]
    /\ UNCHANGED <<ag_cdt, ag_assign>>
=============================================================================
