----------------------------- MODULE Conductor -----------------------------
(***************************************************************************)
(* The conductor (src/src/conductor/setup.cpp): it accepts connections,    *)
(* keeps the rosters of switches and agents, and assigns every agent that  *)
(* registers to a switch with a fresh connection token.                    *)
(*                                                                         *)
(* The process has one thread, so a handler is one step, with one          *)
(* exception: onAgentMIP writes to two sockets, and between the two writes *)
(* the agent may already act on the first.  busy is the handler's local    *)
(* state at that point; no other handler runs until it is None again.      *)
(*                                                                         *)
(* Left out: auth_key (stored, never compared), timestamps, the heartbeats *)
(* (no receiver reacts to one, read_protobuf_packet skips them).  The dump *)
(* file is in Dump.                                                        *)
(***************************************************************************)
EXTENDS Net, Roster

VARIABLES
    cdt_up,         \* the process runs and listens
    cdt_info,       \* the ConnInfo of each accepted connection
    switches,       \* ConductorState.switches
    agents,         \* ConductorState.agents
    pending_tokens, \* ConductorState.pending_tokens
    rr_index,       \* ConductorState.rr_index
    busy,           \* onAgentMIP between its two sends, or None
    issued          \* history: to whom each token drawn was assigned

cdt_vars ==
    <<cdt_up, cdt_info, switches, agents, pending_tokens, rr_index, busy, issued>>

Roles == {"UNKNOWN", "SWITCH_CONN", "AGENT_CONN"}
CdtConnInfo == [role : Roles, name : Proc \cup {None}, network : Networks \cup {""}]
PendingTokenInfo == [agent : Agents, switch : Switches, token : Token]
Grant == [agent : Agents, switch : Switches]
Handling == [agent : Conn, switch : Conn, token : Token]

\* A null pointer is no object.
ASSUME CdtNoneAssumption == None \notin CdtConnInfo \cup Grant \cup Handling

CdtTypeOK ==
    /\ cdt_up \in BOOLEAN
    /\ cdt_info \in [Conn -> CdtConnInfo \cup {None}]
    /\ switches \in Seq(Conn)
    /\ agents \in Seq(Conn)
    /\ pending_tokens \subseteq PendingTokenInfo
    /\ rr_index \in Nat
    /\ busy \in Handling \cup {None}
    /\ issued \in [Token -> Grant \cup {None}]

CdtInit ==
    /\ cdt_up = FALSE
    /\ cdt_info = [c \in Conn |-> None]
    /\ switches = <<>>
    /\ agents = <<>>
    /\ pending_tokens = {}
    /\ rr_index = 0
    /\ busy = None
    /\ issued = [t \in Token |-> None]

-----------------------------------------------------------------------------
(***************************************************************************)
(* ConductorState's methods.                                               *)
(***************************************************************************)

Fresh_Constant(t) == t = 1      \* mutant of Fresh
\* generate_token: 64 random bits, taken to be different from every earlier draw.
Fresh(t) == issued[t] = None /\ \A u \in Token : u < t => issued[u] # None

\* An agent on this network can theoretically reach the switch at c.
Reachable(c, network) == cdt_info[c].network \in {network, "::internet"}

\* The offsets from rr_index, modulo the size, at which a reachable switch sits.
ReachableOffsets(network) ==
    {i \in 0 .. Len(switches) - 1 :
        Reachable(switches[((rr_index + i) % Len(switches)) + 1], network)}

(***************************************************************************)
(* pick_switch, for a roster that is not empty: the 0-based position it    *)
(* picks and the rr_index it leaves.  Without a reachable switch it falls  *)
(* back to plain round-robin.                                              *)
(***************************************************************************)
PickIndex_AnySwitch(network) == rr_index % Len(switches)        \* mutant of PickIndex
PickIndex(network) ==
    LET R == ReachableOffsets(network)
        i == IF R = {} THEN 0 ELSE CHOOSE i \in R : \A j \in R : i <= j
    IN  (rr_index + i) % Len(switches)
NextRR_Same(network) == PickIndex(network)      \* mutants of NextRR
NextRR_Before(network) == PickIndex(network) - 1
NextRR(network) ==
    IF ReachableOffsets(network) = {} THEN rr_index + 1 ELSE PickIndex(network) + 1
pick_switch(network) == switches[PickIndex(network) + 1]

\* remove_switch: the pending tokens that stay when the switch of this name goes.
TokensWithout_Kept(name) == pending_tokens      \* mutants of TokensWithout
TokensWithout_Others(name) == {t \in pending_tokens : t.switch = name}
TokensWithout(name) == {t \in pending_tokens : t.switch # name}

-----------------------------------------------------------------------------
(***************************************************************************)
(* The event loop.                                                         *)
(***************************************************************************)
Idle_Reentrant == cdt_up        \* mutant of Idle
Idle == cdt_up /\ busy = None

\* main: the process starts listening with an empty state.
CdtStart ==
    /\ ~cdt_up
    /\ cdt_up' = TRUE
    /\ UNCHANGED <<cdt_info, switches, agents, pending_tokens, rr_index, busy, issued>>
    /\ UNCHANGED net_vars

\* accept4 and put_sck.
CdtAccept(c) ==
    /\ Idle /\ srv[c] = CDT /\ srv_up[c] /\ cdt_info[c] = None
    /\ cdt_info' = [cdt_info EXCEPT ![c] =
                        [role |-> "UNKNOWN", name |-> None, network |-> ""]]
    /\ UNCHANGED <<cdt_up, switches, agents, pending_tokens, rr_index, busy, issued>>
    /\ UNCHANGED net_vars

\* put_sck fails: the connection is closed at once.
CdtAcceptFails(c) ==
    /\ Idle /\ srv[c] = CDT /\ srv_up[c] /\ cdt_info[c] = None
    /\ CloseSrv(c)
    /\ UNCHANGED cdt_vars

CdtReads(c, type) == Idle /\ srv[c] = CDT /\ cdt_info[c] # None /\ SrvReads(c, type)

onSwitchMIP(c) ==
    /\ CdtReads(c, "SWITCH_MIP")
    /\ LET pkt == Head(to_srv[c]) IN
         cdt_info' = [cdt_info EXCEPT ![c] =
             [role |-> "SWITCH_CONN", name |-> pkt.name, network |-> pkt.network]]
    /\ switches' = Append(switches, c)
    /\ SrvTakes(c)
    /\ UNCHANGED <<cdt_up, agents, pending_tokens, rr_index, busy, issued>>

\* What onAgentMIP records of the agent before it looks for a switch.
AgentInfo(c) ==
    LET pkt == Head(to_srv[c])
    IN  [role |-> "AGENT_CONN", name |-> pkt.name, network |-> pkt.network]

(***************************************************************************)
(* onAgentMIP without a switch: the agent is dropped.  queue->close frees  *)
(* the element whose packet is being processed; the outcome modelled here  *)
(* is the one in which the connection ends up closed and its ConnInfo      *)
(* deleted, the other one is a crash.                                      *)
(***************************************************************************)
onAgentMIP_NoSwitch(c) ==
    /\ CdtReads(c, "AGENT_MIP")
    /\ switches = <<>>
    /\ cdt_info' = [cdt_info EXCEPT ![c] = None]
    /\ CloseSrv(c)
    /\ UNCHANGED <<cdt_up, switches, agents, pending_tokens, rr_index, busy, issued>>

\* onAgentMIP up to the first send: the agent learns its switch and token.
onAgentMIP_Assign(c, t) ==
    /\ CdtReads(c, "AGENT_MIP")
    /\ switches # <<>>
    /\ Fresh(t)
    /\ LET info == AgentInfo(c)
           sw   == pick_switch(info.network)
       IN  /\ cdt_info' = [cdt_info EXCEPT ![c] = info]
           /\ rr_index' = NextRR(info.network)
           /\ issued' = [issued EXCEPT ![t] =
                            [agent |-> info.name, switch |-> cdt_info[sw].name]]
           /\ busy' = [agent |-> c, switch |-> sw, token |-> t]
           /\ SrvAnswers(c, [type |-> "CONNECT_TO_SWITCH",
                             switch |-> cdt_info[sw].name, token |-> t])
    /\ UNCHANGED <<cdt_up, switches, agents, pending_tokens>>

\* The same, when the first send fails: the token is forgotten, the handler returns.
onAgentMIP_AssignFails(c, t) ==
    /\ CdtReads(c, "AGENT_MIP")
    /\ switches # <<>>
    /\ ~cli_up[c]
    /\ Fresh(t)
    /\ LET info == AgentInfo(c)
       IN  /\ cdt_info' = [cdt_info EXCEPT ![c] = info]
           /\ rr_index' = NextRR(info.network)
           /\ issued' = [issued EXCEPT ![t] =
                  [agent |-> info.name, switch |-> cdt_info[pick_switch(info.network)].name]]
    /\ SrvTakes(c)
    /\ UNCHANGED <<cdt_up, switches, agents, pending_tokens, busy>>

\* The second send and the bookkeeping.  A full socket makes the write spin.
onAgentMIP_Notify ==
    /\ cdt_up /\ busy # None
    /\ CliRoom(busy.switch)
    /\ LET agent == cdt_info[busy.agent].name
       IN  /\ pending_tokens' = pending_tokens \cup
                 {[agent |-> agent, switch |-> cdt_info[busy.switch].name,
                   token |-> busy.token]}
           /\ SrvWrites(busy.switch, [type |-> "AGENT_CONNECTION_TOKEN",
                                      agent |-> agent, token |-> busy.token])
    /\ agents' = Append(agents, busy.agent)
    /\ busy' = None
    /\ UNCHANGED <<cdt_up, cdt_info, switches, rr_index, issued>>

\* The second send fails: the agent has its assignment, but is on no roster.
onAgentMIP_NotifyFails ==
    /\ cdt_up /\ busy # None
    /\ ~cli_up[busy.switch]
    /\ busy' = None
    /\ UNCHANGED <<cdt_up, cdt_info, switches, agents, pending_tokens, rr_index, issued>>
    /\ UNCHANGED net_vars

onAgentMRP(c) ==
    /\ CdtReads(c, "AGENT_MRP")
    /\ cdt_info' = [cdt_info EXCEPT ![c].role = "AGENT_CONN",
                                    ![c].name = Head(to_srv[c]).name]
    /\ agents' = Append(agents, c)
    /\ SrvTakes(c)
    /\ UNCHANGED <<cdt_up, switches, pending_tokens, rr_index, busy, issued>>

\* remove_switch / remove_agent, by role, then the ConnInfo is deleted.
CdtOnClose(c) ==
    /\ Idle /\ srv[c] = CDT /\ cdt_info[c] # None /\ SrvEOF(c)
    /\ CASE cdt_info[c].role = "SWITCH_CONN" ->
              /\ switches' = Erase(switches, c)
              /\ pending_tokens' = TokensWithout(cdt_info[c].name)
              /\ UNCHANGED agents
         [] cdt_info[c].role = "AGENT_CONN" ->
              /\ agents' = Erase(agents, c)
              /\ UNCHANGED <<switches, pending_tokens>>
         [] OTHER -> UNCHANGED <<switches, agents, pending_tokens>>
    /\ cdt_info' = [cdt_info EXCEPT ![c] = None]
    /\ CloseSrv(c)
    /\ UNCHANGED <<cdt_up, rr_index, busy, issued>>

\* The process is stopped or dies, at any point; its state is gone.
CdtCrash ==
    /\ cdt_up
    /\ cdt_up' = FALSE
    /\ cdt_info' = [c \in Conn |-> None]
    /\ switches' = <<>>
    /\ agents' = <<>>
    /\ pending_tokens' = {}
    /\ rr_index' = 0
    /\ busy' = None
    /\ CloseAll(CDT)
    /\ UNCHANGED issued

\* The handlers and the loop: everything the process does by itself.
CdtStep ==
    \/ onAgentMIP_Notify
    \/ onAgentMIP_NotifyFails
    \/ \E c \in Conn :
         \/ CdtAccept(c)
         \/ onSwitchMIP(c)
         \/ onAgentMIP_NoSwitch(c)
         \/ \E t \in Token : onAgentMIP_Assign(c, t) \/ onAgentMIP_AssignFails(c, t)
         \/ onAgentMRP(c)
         \/ CdtOnClose(c)
=============================================================================
