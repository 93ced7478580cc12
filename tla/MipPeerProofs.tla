--------------------------- MODULE MipPeerProofs ---------------------------
(***************************************************************************)
(* Every action of the conductor's peers, the agents and the switches,     *)
(* preserves the inductive invariant of Mip.                               *)
(***************************************************************************)
EXTENDS MipLemmas

(***************************************************************************)
(* The agents.                                                             *)
(***************************************************************************)
\* An agent opens its control connection.
LEMMA AgConnectStep ==
    ASSUME IInv, NEW a \in Agents, NEW c \in Conn, NEW l, AgConnect(a, c, l),
           UNCHANGED <<cdt_vars, sw_vars, faults>>
    PROVE  IInv'
<1>0. /\ cli[c] = None /\ ag_pc[a] = "off"
      /\ cli' = [cli EXCEPT ![c] = a] /\ srv' = [srv EXCEPT ![c] = CDT]
      /\ cli_up' = [cli_up EXCEPT ![c] = TRUE] /\ srv_up' = [srv_up EXCEPT ![c] = TRUE]
      /\ to_srv' = to_srv /\ to_cli' = to_cli
      /\ ag_pc' = [ag_pc EXCEPT ![a] = "connected"]
      /\ ag_cdt' = [ag_cdt EXCEPT ![a] = c]
      /\ ag_sw' = ag_sw /\ ag_assign' = ag_assign
      /\ UNCHANGED cdt_vars /\ UNCHANGED <<sw_info, sw_pending, sw_agents, admitted, faults>>
  BY DEF AgConnect, Connect, Unused, sw_vars
<1>1. /\ GrantsKept /\ \A d \in Conn : cli[d] # None => Kept(d)
      /\ cli'[c] = a /\ srv'[c] = CDT
      /\ to_srv[c] = <<>> /\ cdt_info'[c] = None /\ admitted'[c] = None
  <2>1. /\ cli'[c] = a /\ srv'[c] = CDT
        /\ \A d \in Conn : d # c =>
              cli'[d] = cli[d] /\ srv'[d] = srv[d] /\ to_srv'[d] = to_srv[d]
    BY <1>0 DEF IInv, TypeOK, NetTypeOK
  <2>2. UNCHANGED admitted
    BY <1>0
  <2> QED BY <1>0, <2>1, <2>2, OpenKeeps
<1>2. SwTypeOK' /\ SwProcInv'
  BY <1>1, SwsFrame, ProcAssumption DEF Proc
<1>3. /\ AgTypeOK'
      /\ ag_pc'[a] = "connected" /\ ag_cdt'[a] = c
      /\ \A b \in Agents : b # a => ag_pc'[b] = ag_pc[b] /\ ag_cdt'[b] = ag_cdt[b]
  BY <1>0 DEF IInv, TypeOK, AgTypeOK, AgPC
<1>4. AgCdtOK(a)' /\ AgAssignOK(a)' /\ AgSwOK(a)'
  <2>1. AgSwOK(a)
    BY DEF IInv, AgInv
  <2>2. c # None
    BY ProcAssumption DEF Conn
  <2> QED BY <1>0, <1>1, <1>3, <2>1, <2>2 DEF AgCdtOK, AgAssignOK, AgSwOK
<1>5. AgInv'
  BY <1>0, <1>1, <1>3, <1>4, OtherAgents, ProcAssumption DEF Proc
<1>6. ToSrvInv'
  <2>1. \A d \in Conn : cli[d] # None => cli'[d] = cli[d] /\ srv'[d] = srv[d]
    BY <1>1 DEF Kept
  <2>2. \A d \in Conn : to_srv[d] # <<>> => cli[d] # None
    BY DEF IInv, ConnInv
  <2> QED BY <1>0, <1>1, <2>1, <2>2, ToSrvShrinks DEF cdt_vars
<1>7. to_srv' \in [Conn -> Seq(Packet)]
  BY <1>0 DEF IInv, TypeOK, NetTypeOK
<1> QED BY <1>0, <1>2, <1>3, <1>5, <1>6, <1>7, ClientOpens

\* An agent writes AGENT_MIP.
LEMMA AgRegisterStep ==
    ASSUME IInv, NEW a \in Agents, AgRegister(a),
           UNCHANGED <<cdt_vars, sw_vars, faults>>
    PROVE  IInv'
<1> DEFINE m == [type |-> "AGENT_MIP", name |-> a, network |-> "vnet.internal"]
<1>a. PICK c \in Conn : c = ag_cdt[a]
  BY DEF IInv, TypeOK, AgTypeOK, AgInv, AgCdtOK, AgRegister
<1>0. /\ ag_pc[a] = "connected" /\ to_srv' = Written(to_srv, c, srv_up[c], m)
      /\ UNCHANGED <<cli, srv, cli_up, srv_up, to_cli, ag_cdt, ag_sw, ag_assign>>
      /\ ag_pc' = [ag_pc EXCEPT ![a] = "wait_assignment"]
      /\ UNCHANGED cdt_vars /\ UNCHANGED <<sw_info, sw_pending, sw_agents, admitted, faults>>
  BY <1>a DEF AgRegister, CliWrites, sw_vars
<1>b. /\ cli[c] = a /\ srv[c] = CDT /\ to_srv[c] = <<>> /\ cli[c] # None
      /\ cdt_info[c] # None => cdt_info[c].role = "UNKNOWN"
      /\ admitted[c] = None
  BY <1>0, <1>a, ProcAssumption DEF IInv, AgInv, AgCdtOK, SwConnInv, Proc
<1>c. m.type = "AGENT_MIP" /\ m.name = cli[c] /\ m \in Packet
  BY <1>b, PacketsWritten, NetworksAssumption
<1> HIDE DEF m
<1>d. (\A d \in Conn : d # c => Kept(d)) /\ GrantsKept
  BY <1>0, <1>b, <1>c, ClientWrote
<1>1. SwTypeOK' /\ SwProcInv'
  BY <1>b, <1>d, SwsFrame, ProcAssumption
<1>2. AgTypeOK' /\ ag_pc'[a] = "wait_assignment"
      /\ \A b \in Agents : b # a => ag_pc'[b] = ag_pc[b]
  BY <1>0 DEF IInv, TypeOK, AgTypeOK, AgPC
<1>3. AgCdtOK(a)' /\ AgAssignOK(a)' /\ AgSwOK(a)'
  BY <1>0, <1>2 DEF IInv, AgInv, AgCdtOK, AgAssignOK, AgSwOK
<1>4. AgInv'
  BY <1>0, <1>b, <1>d, <1>2, <1>3, OtherAgents
<1> QED BY <1>0, <1>b, <1>c, <1>1, <1>2, <1>4, ClientWrites

\* An agent writes AUTH_CONNECT_TO_SWITCH, with the token it was granted.
LEMMA AgAuthenticateStep ==
    ASSUME IInv, NEW a \in Agents, AgAuthenticate(a),
           UNCHANGED <<cdt_vars, sw_vars, faults>>
    PROVE  IInv'
<1> DEFINE m == [type |-> "AUTH_CONNECT_TO_SWITCH", token |-> ag_assign[a].token]
<1>a. PICK c \in Conn : c = ag_sw[a]
  BY DEF IInv, TypeOK, AgTypeOK, AgInv, AgSwOK, AgAuthenticate
<1>0. /\ ag_pc[a] = "dialled" /\ to_srv' = Written(to_srv, c, srv_up[c], m)
      /\ UNCHANGED <<cli, srv, cli_up, srv_up, to_cli, ag_cdt, ag_sw, ag_assign>>
      /\ ag_pc' = [ag_pc EXCEPT ![a] = "wait_accepted"]
      /\ UNCHANGED cdt_vars /\ UNCHANGED <<sw_info, sw_pending, sw_agents, admitted, faults>>
  BY <1>a DEF AgAuthenticate, CliWrites, sw_vars
<1>e. /\ ag_assign[a] # None /\ Granted(ag_assign[a].token, a, ag_assign[a].switch)
      /\ ag_assign[a].switch \in Switches /\ ag_assign[a].token \in Token
  BY <1>0 DEF IInv, TypeOK, AgTypeOK, Assignment, AgInv, AgAssignOK
<1>b. /\ cli[c] = a /\ srv[c] = ag_assign[a].switch /\ to_srv[c] = <<>> /\ cli[c] # None
      /\ admitted[c] = None /\ srv[c] \in Switches
  BY <1>0, <1>a, <1>e, ProcAssumption DEF IInv, AgInv, AgSwOK, Proc
<1>f. cdt_info[c] = None
  BY <1>b, ProcAssumption DEF IInv, CdtInv
<1>c. m.type = "AUTH_CONNECT_TO_SWITCH" /\ m.token = ag_assign[a].token /\ m \in Packet
  BY <1>e, PacketsWritten
<1> HIDE DEF m
<1>d. /\ (\A d \in Conn : d # c => Kept(d)) /\ GrantsKept
      /\ to_srv'[c] # <<>> => to_srv'[c][1] = m
  BY <1>0, <1>b, <1>c, ClientWrote
<1>1. SwTypeOK' /\ SwProcInv'
  BY <1>b, <1>d, SwsFrame, ProcAssumption
<1>2. AgTypeOK' /\ ag_pc'[a] = "wait_accepted"
      /\ \A b \in Agents : b # a => ag_pc'[b] = ag_pc[b]
  BY <1>0 DEF IInv, TypeOK, AgTypeOK, AgPC
<1>3. AgCdtOK(a)' /\ AgAssignOK(a)'
  BY <1>0, <1>e, <1>2 DEF IInv, AgInv, AgCdtOK, AgAssignOK, Granted, cdt_vars
<1>4. AgSwOK(a)'
  BY <1>0, <1>a, <1>b, <1>c, <1>d, <1>2 DEF IInv, AgInv, AgSwOK
<1>5. AgInv'
  BY <1>0, <1>b, <1>d, <1>2, <1>3, <1>4, OtherAgents
<1> QED BY <1>0, <1>b, <1>c, <1>e, <1>f, <1>1, <1>2, <1>5, ClientWrites

\* An agent reads its assignment.
LEMMA AgAssignedStep ==
    ASSUME IInv, NEW a \in Agents, AgAssigned(a),
           UNCHANGED <<cdt_vars, sw_vars, faults>>
    PROVE  IInv'
<1>a. PICK c \in Conn : c = ag_cdt[a]
  BY DEF IInv, TypeOK, AgTypeOK, AgInv, AgCdtOK, AgAssigned
<1> DEFINE m == Head(to_cli[c])
<1>0. /\ ag_pc[a] = "wait_assignment" /\ to_cli' = ReadOne(to_cli, c)
      /\ to_cli[c] # <<>> /\ m.type = "CONNECT_TO_SWITCH" /\ cli_up[c]
      /\ UNCHANGED <<cli, srv, cli_up, srv_up, to_srv, ag_cdt, ag_sw>>
      /\ ag_pc' = [ag_pc EXCEPT ![a] = "assigned"]
      /\ ag_assign' = [ag_assign EXCEPT ![a] = [switch |-> m.switch, token |-> m.token]]
      /\ UNCHANGED cdt_vars
      /\ UNCHANGED <<sw_info, sw_pending, sw_agents, admitted>> /\ faults' \in Nat
  BY <1>a DEF AgAssigned, CliTakes, CliReads, sw_vars, IInv, TypeOK
<1>b. to_cli \in [Conn -> Seq(Packet)]
  BY DEF IInv, TypeOK, NetTypeOK
<1>c. /\ to_cli' \in [Conn -> Seq(Packet)]
      /\ \A d \in Conn : d # c => to_cli'[d] = to_cli[d]
      /\ m = to_cli[c][1] /\ m \in Packet /\ 1 \in 1 .. Len(to_cli[c])
  BY <1>0, <1>b, ReadFacts
<1> HIDE DEF m
<1>d. m.switch \in Switches /\ m.token \in Token
  BY <1>0, <1>c, PacketFields
<1>e. Granted(m.token, a, m.switch)
  BY <1>0, <1>a, <1>c DEF IInv, ToCliInv, AgInv, AgCdtOK
<1>f. GrantsKept /\ \A d \in Conn : Kept(d)
  BY <1>0 DEF cdt_vars, GrantsKept, Granted, Kept
<1>1. SwTypeOK' /\ SwProcInv'
  BY <1>f, SwsFrame
<1>2. /\ AgTypeOK'
      /\ ag_pc'[a] = "assigned" /\ ag_assign'[a] = [switch |-> m.switch, token |-> m.token]
      /\ \A b \in Agents : b # a => ag_pc'[b] = ag_pc[b] /\ ag_assign'[b] = ag_assign[b]
  BY <1>0, <1>d DEF IInv, TypeOK, AgTypeOK, AgPC, Assignment
<1>3. AgCdtOK(a)' /\ AgSwOK(a)'
  BY <1>0, <1>2 DEF IInv, AgInv, AgCdtOK, AgSwOK
<1>4. AgAssignOK(a)'
  <2>1. ag_assign'[a] # None
    BY <1>d, <1>2, AgNoneAssumption DEF Assignment
  <2> QED BY <1>0, <1>e, <1>2, <2>1 DEF AgAssignOK, Granted, cdt_vars
<1>5. AgInv'
  BY <1>0, <1>f, <1>2, <1>3, <1>4, OtherAgents
<1>6. ToCliInv' /\ TokenInv'
  BY <1>0, ReadShrinks DEF cdt_vars
<1>7. /\ cli_up' \in [Conn -> BOOLEAN]
      /\ \A d \in Conn : ~cli_up'[d] => to_cli'[d] = <<>>
  BY <1>0, <1>c DEF IInv, TypeOK, NetTypeOK, ConnInv
<1> QED BY <1>0, <1>c, <1>1, <1>2, <1>5, <1>6, <1>7, ClientTakes

\* An agent reads the acknowledgement of its switch.
LEMMA AgAcceptedStep ==
    ASSUME IInv, NEW a \in Agents, AgAccepted(a),
           UNCHANGED <<cdt_vars, sw_vars, faults>>
    PROVE  IInv'
<1>a. PICK c \in Conn : c = ag_sw[a]
  BY DEF IInv, TypeOK, AgTypeOK, AgInv, AgSwOK, AgAccepted
<1>0. /\ ag_pc[a] = "wait_accepted" /\ to_cli' = ReadOne(to_cli, c)
      /\ to_cli[c] # <<>> /\ Head(to_cli[c]).type = "CONNECTION_ACCEPTED" /\ cli_up[c]
      /\ UNCHANGED <<cli, srv, cli_up, srv_up, to_srv, ag_cdt, ag_sw, ag_assign>>
      /\ ag_pc' = [ag_pc EXCEPT ![a] = "running"]
      /\ UNCHANGED cdt_vars
      /\ UNCHANGED <<sw_info, sw_pending, sw_agents, admitted>> /\ faults' \in Nat
  BY <1>a DEF AgAccepted, CliTakes, CliReads, sw_vars, IInv, TypeOK
<1>b. to_cli \in [Conn -> Seq(Packet)]
  BY DEF IInv, TypeOK, NetTypeOK
<1>c. /\ to_cli' \in [Conn -> Seq(Packet)]
      /\ \A d \in Conn : d # c => to_cli'[d] = to_cli[d]
      /\ Head(to_cli[c]) = to_cli[c][1] /\ 1 \in 1 .. Len(to_cli[c])
  BY <1>0, <1>b, ReadFacts
<1>d. admitted[c] # None
  BY <1>0, <1>c DEF IInv, ToCliInv
<1>f. GrantsKept /\ \A d \in Conn : Kept(d)
  BY <1>0 DEF cdt_vars, GrantsKept, Granted, Kept
<1>1. SwTypeOK' /\ SwProcInv'
  BY <1>f, SwsFrame
<1>2. /\ AgTypeOK' /\ ag_pc'[a] = "running"
      /\ \A b \in Agents : b # a => ag_pc'[b] = ag_pc[b]
  BY <1>0 DEF IInv, TypeOK, AgTypeOK, AgPC
<1>3. AgCdtOK(a)' /\ AgSwOK(a)'
  BY <1>0, <1>a, <1>d, <1>2 DEF IInv, AgInv, AgCdtOK, AgSwOK
<1>4. AgAssignOK(a)'
  BY <1>0, <1>2 DEF IInv, AgInv, AgAssignOK, Granted, cdt_vars
<1>5. AgInv'
  BY <1>0, <1>f, <1>2, <1>3, <1>4, OtherAgents
<1>6. ToCliInv' /\ TokenInv'
  BY <1>0, ReadShrinks DEF cdt_vars
<1>7. /\ cli_up' \in [Conn -> BOOLEAN]
      /\ \A d \in Conn : ~cli_up'[d] => to_cli'[d] = <<>>
  BY <1>0, <1>c DEF IInv, TypeOK, NetTypeOK, ConnInv
<1> QED BY <1>0, <1>c, <1>1, <1>2, <1>5, <1>6, <1>7, ClientTakes

\* An agent closes some of its ends; what it knows afterwards is settled apart.
LEMMA AgentCloses ==
    ASSUME IInv, NEW a \in Agents, UNCHANGED cdt_vars, UNCHANGED sw_vars, faults' \in Nat,
           UNCHANGED <<cli, srv, srv_up, to_srv>>,
           cli_up' \in [Conn -> BOOLEAN], to_cli' \in [Conn -> Seq(Packet)],
           \A c \in Conn : cli_up'[c] => cli_up[c],
           \A c \in Conn : ~cli_up'[c] => to_cli'[c] = <<>>,
           \A c \in Conn : to_cli'[c] = to_cli[c] \/ to_cli'[c] = <<>>,
           AgTypeOK',
           \A b \in Agents : b # a =>
              /\ ag_pc'[b] = ag_pc[b] /\ ag_cdt'[b] = ag_cdt[b]
              /\ ag_sw'[b] = ag_sw[b] /\ ag_assign'[b] = ag_assign[b],
           AgCdtOK(a)', AgAssignOK(a)', AgSwOK(a)'
    PROVE  IInv'
<1>0. /\ UNCHANGED <<sw_info, sw_pending, sw_agents, admitted>>
      /\ UNCHANGED <<busy, issued>>
  BY DEF cdt_vars, sw_vars
<1>1. GrantsKept /\ \A d \in Conn : Kept(d)
  BY <1>0 DEF cdt_vars, GrantsKept, Granted, Kept
<1>2. SwTypeOK' /\ SwProcInv'
  BY <1>1, SwsFrame
<1>3. AgInv'
  BY <1>1, OtherAgents
<1>4. ToCliInv' /\ TokenInv'
  BY <1>0, CloseShrinks
<1> QED BY <1>0, <1>2, <1>3, <1>4, ClientTakes

\* The event loop forgets the conductor.
LEMMA AgOnConductorCloseStep ==
    ASSUME IInv, NEW a \in Agents, AgOnConductorClose(a),
           UNCHANGED <<cdt_vars, sw_vars, faults>>
    PROVE  IInv'
<1>0. /\ ag_pc[a] = "running" /\ ag_cdt[a] \in Conn
      /\ ag_cdt' = [ag_cdt EXCEPT ![a] = None]
      /\ cli_up' = [cli_up EXCEPT ![ag_cdt[a]] = FALSE]
      /\ to_cli' = [to_cli EXCEPT ![ag_cdt[a]] = <<>>]
      /\ UNCHANGED <<cli, srv, srv_up, to_srv, ag_pc, ag_sw, ag_assign>>
      /\ UNCHANGED cdt_vars /\ UNCHANGED sw_vars /\ faults' \in Nat
  BY DEF AgOnConductorClose, CloseCli, IInv, TypeOK, AgTypeOK
<1>1. /\ cli_up' \in [Conn -> BOOLEAN] /\ to_cli' \in [Conn -> Seq(Packet)]
      /\ \A c \in Conn : cli_up'[c] => cli_up[c]
      /\ \A c \in Conn : ~cli_up'[c] => to_cli'[c] = <<>>
      /\ \A c \in Conn : to_cli'[c] = to_cli[c] \/ to_cli'[c] = <<>>
  BY <1>0 DEF IInv, TypeOK, NetTypeOK, ConnInv
<1>2. /\ AgTypeOK' /\ ag_cdt'[a] = None
      /\ \A b \in Agents : b # a => ag_cdt'[b] = ag_cdt[b]
  BY <1>0 DEF IInv, TypeOK, AgTypeOK
<1>3. AgCdtOK(a)' /\ AgAssignOK(a)' /\ AgSwOK(a)'
  BY <1>0, <1>2 DEF IInv, AgInv, AgCdtOK, AgAssignOK, AgSwOK, Granted, cdt_vars, sw_vars
<1> QED BY <1>0, <1>1, <1>2, <1>3, AgentCloses

\* The event loop forgets the switch.
LEMMA AgOnSwitchCloseStep ==
    ASSUME IInv, NEW a \in Agents, AgOnSwitchClose(a),
           UNCHANGED <<cdt_vars, sw_vars, faults>>
    PROVE  IInv'
<1>0. /\ ag_pc[a] = "running" /\ ag_sw[a] \in Conn
      /\ ag_sw' = [ag_sw EXCEPT ![a] = None]
      /\ cli_up' = [cli_up EXCEPT ![ag_sw[a]] = FALSE]
      /\ to_cli' = [to_cli EXCEPT ![ag_sw[a]] = <<>>]
      /\ UNCHANGED <<cli, srv, srv_up, to_srv, ag_pc, ag_cdt, ag_assign>>
      /\ UNCHANGED cdt_vars /\ UNCHANGED sw_vars /\ faults' \in Nat
  BY DEF AgOnSwitchClose, CloseCli, IInv, TypeOK, AgTypeOK
<1>1. /\ cli_up' \in [Conn -> BOOLEAN] /\ to_cli' \in [Conn -> Seq(Packet)]
      /\ \A c \in Conn : cli_up'[c] => cli_up[c]
      /\ \A c \in Conn : ~cli_up'[c] => to_cli'[c] = <<>>
      /\ \A c \in Conn : to_cli'[c] = to_cli[c] \/ to_cli'[c] = <<>>
  BY <1>0 DEF IInv, TypeOK, NetTypeOK, ConnInv
<1>2. /\ AgTypeOK' /\ ag_sw'[a] = None
      /\ \A b \in Agents : b # a => ag_sw'[b] = ag_sw[b]
  BY <1>0 DEF IInv, TypeOK, AgTypeOK
<1>3. AgCdtOK(a)' /\ AgAssignOK(a)' /\ AgSwOK(a)'
  BY <1>0, <1>2 DEF IInv, AgInv, AgCdtOK, AgAssignOK, AgSwOK, Granted, cdt_vars, sw_vars
<1> QED BY <1>0, <1>1, <1>2, <1>3, AgentCloses

\* An agent that waits for the answer of its switch leaves the connection, to present its
\* token on a new one.
LEMMA AgRetryStep ==
    ASSUME IInv, NEW a \in Agents, AgRetry(a),
           UNCHANGED <<cdt_vars, sw_vars, faults>>
    PROVE  IInv'
<1>0. /\ ag_pc[a] = "wait_accepted" /\ ag_sw[a] \in Conn
      /\ ag_pc' = [ag_pc EXCEPT ![a] = "assigned"]
      /\ ag_sw' = [ag_sw EXCEPT ![a] = None]
      /\ cli_up' = [cli_up EXCEPT ![ag_sw[a]] = FALSE]
      /\ to_cli' = [to_cli EXCEPT ![ag_sw[a]] = <<>>]
      /\ UNCHANGED <<cli, srv, srv_up, to_srv, ag_cdt, ag_assign>>
      /\ UNCHANGED cdt_vars /\ UNCHANGED sw_vars /\ faults' \in Nat
  BY DEF AgRetry, CloseCli, IInv, TypeOK, AgTypeOK, AgInv, AgSwOK
<1>1. /\ cli_up' \in [Conn -> BOOLEAN] /\ to_cli' \in [Conn -> Seq(Packet)]
      /\ \A c \in Conn : cli_up'[c] => cli_up[c]
      /\ \A c \in Conn : ~cli_up'[c] => to_cli'[c] = <<>>
      /\ \A c \in Conn : to_cli'[c] = to_cli[c] \/ to_cli'[c] = <<>>
  BY <1>0 DEF IInv, TypeOK, NetTypeOK, ConnInv
<1>2. /\ AgTypeOK' /\ ag_sw'[a] = None /\ ag_pc'[a] = "assigned"
      /\ \A b \in Agents : b # a => ag_sw'[b] = ag_sw[b] /\ ag_pc'[b] = ag_pc[b]
  BY <1>0 DEF IInv, TypeOK, AgTypeOK, AgPC
<1>3. AgCdtOK(a)' /\ AgAssignOK(a)' /\ AgSwOK(a)'
  BY <1>0, <1>2 DEF IInv, AgInv, AgCdtOK, AgAssignOK, AgSwOK, Granted, cdt_vars, sw_vars
<1> QED BY <1>0, <1>1, <1>2, <1>3, AgentCloses

\* The process of an agent ends.
LEMMA AgGoneStep ==
    ASSUME IInv, NEW a \in Agents, AgGone(a), UNCHANGED <<cdt_vars, sw_vars>>, faults' \in Nat
    PROVE  IInv'
<1>0. /\ ag_pc' = [ag_pc EXCEPT ![a] = "off"]
      /\ ag_cdt' = [ag_cdt EXCEPT ![a] = None]
      /\ ag_sw' = [ag_sw EXCEPT ![a] = None]
      /\ ag_assign' = [ag_assign EXCEPT ![a] = None]
      /\ cli_up' = [c \in Conn |-> cli_up[c] /\ cli[c] # a]
      /\ to_cli' = [c \in Conn |-> IF cli[c] = a THEN <<>> ELSE to_cli[c]]
      /\ UNCHANGED <<cli, srv>>
      /\ UNCHANGED cdt_vars /\ UNCHANGED sw_vars
  BY DEF AgGone, CloseAll
<1>1. UNCHANGED <<srv_up, to_srv>>
  <2>1. \A c \in Conn : srv[c] # a
    BY ProcAssumption DEF IInv, ConnInv, Proc
  <2>2. srv_up \in [Conn -> BOOLEAN] /\ to_srv \in [Conn -> Seq(Packet)]
    BY DEF IInv, TypeOK, NetTypeOK
  <2>3. /\ srv_up' = [c \in Conn |-> srv_up[c]]
        /\ to_srv' = [c \in Conn |-> to_srv[c]]
    BY <2>1, <2>2 DEF AgGone, CloseAll
  <2> QED BY <2>2, <2>3
<1>2. /\ cli_up' \in [Conn -> BOOLEAN] /\ to_cli' \in [Conn -> Seq(Packet)]
      /\ \A c \in Conn : cli_up'[c] => cli_up[c]
      /\ \A c \in Conn : ~cli_up'[c] => to_cli'[c] = <<>>
      /\ \A c \in Conn : to_cli'[c] = to_cli[c] \/ to_cli'[c] = <<>>
  BY <1>0 DEF IInv, TypeOK, NetTypeOK, ConnInv
<1>3. /\ AgTypeOK'
      /\ ag_pc'[a] = "off" /\ ag_cdt'[a] = None /\ ag_sw'[a] = None
      /\ \A b \in Agents : b # a =>
              /\ ag_pc'[b] = ag_pc[b] /\ ag_cdt'[b] = ag_cdt[b]
              /\ ag_sw'[b] = ag_sw[b] /\ ag_assign'[b] = ag_assign[b]
  BY <1>0 DEF IInv, TypeOK, AgTypeOK, AgPC
<1>4. AgCdtOK(a)' /\ AgAssignOK(a)' /\ AgSwOK(a)'
  BY <1>3 DEF AgCdtOK, AgAssignOK, AgSwOK
<1> QED BY <1>0, <1>1, <1>2, <1>3, <1>4, AgentCloses

\* An agent opens a connection to its switch.
LEMMA AgDialStep ==
    ASSUME IInv, NEW a \in Agents, NEW c \in Conn, NEW l, AgDial(a, c, l),
           UNCHANGED <<cdt_vars, sw_vars, faults>>
    PROVE  IInv'
<1>a. PICK s \in Switches : s = ag_assign[a].switch
  BY DEF AgDial, IInv, TypeOK, AgTypeOK, Assignment, AgInv, AgAssignOK
<1>0. /\ cli[c] = None /\ ag_pc[a] = "assigned"
      /\ cli' = [cli EXCEPT ![c] = a] /\ srv' = [srv EXCEPT ![c] = s]
      /\ cli_up' = [cli_up EXCEPT ![c] = TRUE] /\ srv_up' = [srv_up EXCEPT ![c] = TRUE]
      /\ to_srv' = to_srv /\ to_cli' = to_cli
      /\ ag_pc' = [ag_pc EXCEPT ![a] = "dialled"]
      /\ ag_sw' = [ag_sw EXCEPT ![a] = c]
      /\ ag_cdt' = ag_cdt /\ ag_assign' = ag_assign
      /\ UNCHANGED cdt_vars /\ UNCHANGED <<sw_info, sw_pending, sw_agents, admitted, faults>>
  BY <1>a DEF AgDial, Connect, Unused, sw_vars
<1>1. /\ GrantsKept /\ \A d \in Conn : cli[d] # None => Kept(d)
      /\ cli'[c] = a /\ srv'[c] = s
      /\ to_srv[c] = <<>> /\ cdt_info'[c] = None /\ admitted'[c] = None
  <2>1. /\ cli'[c] = a /\ srv'[c] = s
        /\ \A d \in Conn : d # c =>
              cli'[d] = cli[d] /\ srv'[d] = srv[d] /\ to_srv'[d] = to_srv[d]
    BY <1>0 DEF IInv, TypeOK, NetTypeOK
  <2>2. UNCHANGED admitted
    BY <1>0
  <2> QED BY <1>0, <2>1, <2>2, OpenKeeps
<1>2. SwTypeOK' /\ SwProcInv'
  BY <1>1, SwsFrame, ProcAssumption DEF Proc
<1>3. /\ AgTypeOK'
      /\ ag_pc'[a] = "dialled" /\ ag_sw'[a] = c
      /\ \A b \in Agents : b # a => ag_pc'[b] = ag_pc[b] /\ ag_sw'[b] = ag_sw[b]
  BY <1>0 DEF IInv, TypeOK, AgTypeOK, AgPC
<1>4. AgCdtOK(a)' /\ AgAssignOK(a)'
  <2>1. AgCdtOK(a) /\ AgAssignOK(a) /\ ag_cdt[a] \in Conn \cup {None}
    BY DEF IInv, TypeOK, AgTypeOK, AgInv
  <2>2. ag_cdt[a] # None /\ cli[ag_cdt[a]] = a /\ srv[ag_cdt[a]] = CDT
    BY <1>0, <2>1 DEF AgCdtOK
  <2>3. Kept(ag_cdt[a])
    BY <1>1, <2>1, <2>2, ProcAssumption DEF Proc
  <2> QED BY <1>0, <1>3, <2>1, <2>2, <2>3 DEF AgCdtOK, AgAssignOK, Granted, cdt_vars, Kept
<1>5. AgSwOK(a)'
  <2>1. c # None
    BY ProcAssumption DEF Conn
  <2> QED BY <1>0, <1>a, <1>1, <1>3, <2>1 DEF AgSwOK
<1>6. AgInv'
  BY <1>0, <1>1, <1>3, <1>4, <1>5, OtherAgents, ProcAssumption DEF Proc
<1>7. ToSrvInv'
  <2>1. \A d \in Conn : cli[d] # None => cli'[d] = cli[d] /\ srv'[d] = srv[d]
    BY <1>1 DEF Kept
  <2>2. \A d \in Conn : to_srv[d] # <<>> => cli[d] # None
    BY DEF IInv, ConnInv
  <2> QED BY <1>0, <1>1, <2>1, <2>2, ToSrvShrinks DEF cdt_vars
<1>8. to_srv' \in [Conn -> Seq(Packet)]
  BY <1>0 DEF IInv, TypeOK, NetTypeOK
<1> QED BY <1>0, <1>2, <1>3, <1>6, <1>7, <1>8, ClientOpens

\* An agent reconnects to the conductor.
LEMMA AgReconnectStep ==
    ASSUME IInv, NEW a \in Agents, NEW c \in Conn, NEW l, AgReconnect(a, c, l),
           UNCHANGED <<cdt_vars, sw_vars, faults>>
    PROVE  IInv'
<1> DEFINE m == [type |-> "AGENT_MRP", name |-> a]
<1>0. /\ cli[c] = None /\ ag_pc[a] = "running" /\ ag_cdt[a] = None
      /\ cli' = [cli EXCEPT ![c] = a] /\ srv' = [srv EXCEPT ![c] = CDT]
      /\ cli_up' = [cli_up EXCEPT ![c] = TRUE] /\ srv_up' = [srv_up EXCEPT ![c] = TRUE]
      /\ to_srv' = [to_srv EXCEPT ![c] = <<m>>] /\ to_cli' = to_cli
      /\ ag_cdt' = [ag_cdt EXCEPT ![a] = c]
      /\ ag_pc' = ag_pc /\ ag_sw' = ag_sw /\ ag_assign' = ag_assign
      /\ UNCHANGED cdt_vars /\ UNCHANGED <<sw_info, sw_pending, sw_agents, admitted, faults>>
  BY DEF AgReconnect, Unused, sw_vars
<1>b. m \in Packet /\ m.type = "AGENT_MRP" /\ m.name = a
  BY PacketsWritten
<1> HIDE DEF m
<1>1. /\ GrantsKept /\ \A d \in Conn : cli[d] # None => Kept(d)
      /\ cli'[c] = a /\ srv'[c] = CDT
      /\ to_srv[c] = <<>> /\ cdt_info'[c] = None /\ admitted'[c] = None
      /\ \A d \in Conn : d # c =>
              cli'[d] = cli[d] /\ srv'[d] = srv[d] /\ to_srv'[d] = to_srv[d]
  <2>1. /\ cli'[c] = a /\ srv'[c] = CDT
        /\ \A d \in Conn : d # c =>
              cli'[d] = cli[d] /\ srv'[d] = srv[d] /\ to_srv'[d] = to_srv[d]
    BY <1>0 DEF IInv, TypeOK, NetTypeOK
  <2>2. UNCHANGED admitted
    BY <1>0
  <2> QED BY <1>0, <2>1, <2>2, OpenKeeps
<1>2. SwTypeOK' /\ SwProcInv'
  BY <1>1, SwsFrame, ProcAssumption DEF Proc
<1>3. /\ AgTypeOK' /\ ag_cdt'[a] = c
      /\ \A b \in Agents : b # a => ag_cdt'[b] = ag_cdt[b]
  BY <1>0 DEF IInv, TypeOK, AgTypeOK
<1>4. AgCdtOK(a)' /\ AgAssignOK(a)'
  <2>1. AgAssignOK(a)
    BY DEF IInv, AgInv
  <2> QED BY <1>0, <1>1, <1>3, <2>1 DEF AgCdtOK, AgAssignOK, Granted, cdt_vars
<1>5. AgSwOK(a)'
  <2>1. AgSwOK(a) /\ ag_sw[a] \in Conn \cup {None}
    BY DEF IInv, TypeOK, AgTypeOK, AgInv
  <2>2. CASE ag_sw[a] = None
    BY <1>0, <2>2 DEF AgSwOK
  <2>3. CASE ag_sw[a] # None
    <3>1. Kept(ag_sw[a])
      BY <1>1, <2>1, <2>3, ProcAssumption DEF AgSwOK, Proc
    <3> QED BY <1>0, <2>1, <2>3, <3>1 DEF AgSwOK, Kept
  <2> QED BY <2>2, <2>3
<1>6. AgInv'
  BY <1>0, <1>1, <1>3, <1>4, <1>5, OtherAgents, ProcAssumption DEF Proc
<1>7. to_srv' \in [Conn -> Seq(Packet)] /\ to_srv'[c] = <<m>>
  BY <1>0, <1>b DEF IInv, TypeOK, NetTypeOK
<1>8. ToSrvInv'
  <2>1. /\ Len(to_srv'[c]) = 1 /\ admitted'[c] = None /\ cdt_info'[c] = None
        /\ to_srv'[c][1].type = "AGENT_MRP" /\ to_srv'[c][1].name = cli'[c] /\ srv'[c] = CDT
    BY <1>b, <1>1, <1>7
  <2>2. \A d \in Conn : d # c =>
              cli'[d] = cli[d] /\ srv'[d] = srv[d] /\ to_srv'[d] = to_srv[d]
    BY <1>1
  <2>3. UNCHANGED <<cdt_info, admitted, issued>>
    BY <1>0 DEF cdt_vars
  <2> QED BY <2>1, <2>2, <2>3 DEF IInv, ToSrvInv, Granted
<1>9. \A d \in Conn : d # c => to_srv'[d] = to_srv[d]
  BY <1>1
<1> QED BY <1>0, <1>2, <1>3, <1>6, <1>7, <1>8, <1>9, ClientOpens

-----------------------------------------------------------------------------
\* What an agent does by itself.
LEMMA AgActsStep ==
    ASSUME IInv, NEW a \in Agents, AgActs(a)
    PROVE  IInv'
<1>0. faults' \in Nat
  BY DEF AgActs, IInv, TypeOK
<1> QED
  BY <1>0, AgRegisterStep, AgAssignedStep, AgDialStep, AgAuthenticateStep, AgAcceptedStep,
     AgGoneStep, AgOnConductorCloseStep, AgOnSwitchCloseStep
     DEF AgActs, AgFails

-----------------------------------------------------------------------------
(***************************************************************************)
(* The switches.                                                           *)
(***************************************************************************)
\* What a step of switches leaves alone of the conductor and of the agents.
LEMMA SwitchServes ==
    ASSUME IInv, UNCHANGED cdt_vars, UNCHANGED ag_vars, faults' \in Nat,
           UNCHANGED <<cli, srv>>,
           cli_up' \in [Conn -> BOOLEAN], srv_up' \in [Conn -> BOOLEAN],
           to_srv' \in [Conn -> Seq(Packet)], to_cli' \in [Conn -> Seq(Packet)],
           \A c \in Conn :
              /\ cli_up'[c] => cli_up[c]
              /\ srv_up'[c] => srv_up[c]
              /\ srv[c] = CDT => srv_up'[c] = srv_up[c]
              /\ ~cli_up'[c] => to_cli'[c] = <<>>
              /\ ~srv_up'[c] => to_srv'[c] = <<>>
              /\ to_srv'[c] = to_srv[c] \/ to_srv'[c] = <<>>
              /\ \/ admitted'[c] = admitted[c]
                 \/ /\ to_srv[c] # <<>> /\ to_srv'[c] = <<>>
                    /\ admitted'[c] # None /\ admitted'[c] = to_srv[c][1].token,
           SwTypeOK', SwProcInv', SwConnInv', SwitchRosterExact', ToCliInv', TokenInv'
    PROVE  IInv'
<1>0. UNCHANGED <<cdt_up, cdt_info, switches, agents, pending_tokens, rr_index, busy, issued>>
  BY DEF cdt_vars
<1>a. GrantsKept /\ \A c \in Conn : Kept(c)
  BY <1>0 DEF GrantsKept, Granted, Kept
<1>1. AgTypeOK' /\ AgInv'
  BY <1>a, AgsFrame
<1>2. TypeOK'
  BY <1>0, <1>1 DEF IInv, TypeOK, NetTypeOK, CdtTypeOK
<1>3. ConnInv'
  BY DEF IInv, ConnInv
<1>4. ToSrvInv'
  BY <1>0, <1>a, ToSrvShrinks
<1>5. CdtInv'
  BY <1>0 DEF IInv, CdtInv, Granted
<1>6. RosterValid'
  BY <1>0 DEF IInv, RosterValid
<1>7. PendingHasSwitch'
  BY <1>0 DEF IInv, PendingHasSwitch
<1> QED BY <1>1, <1>2, <1>3, <1>4, <1>5, <1>6, <1>7 DEF IInv

\* The processes of the switches, in a step that touches only connections and ConnInfos.
LEMMA SwitchesQuiet ==
    ASSUME IInv, UNCHANGED cdt_vars, UNCHANGED <<cli, srv, sw_pc, sw_conn, sw_pending>>,
           \A c \in Conn : cli[c] \in Switches =>
              (to_srv'[c] = to_srv[c] \/ to_srv'[c] = <<>>) /\ admitted'[c] = admitted[c]
    PROVE  SwProcInv'
<1>1. GrantsKept /\ \A c \in Conn : cli[c] \in Switches => Kept(c)
  BY DEF cdt_vars, GrantsKept, Granted, Kept
<1>2. ASSUME NEW s \in Switches PROVE SwOK(s)'
  BY <1>1, SwFrame
<1> QED BY <1>2 DEF SwProcInv

\* A switch accepts a connection.
LEMMA SwAcceptStep ==
    ASSUME IInv, NEW s \in Switches, NEW c \in Conn, SwAccept(s, c),
           UNCHANGED <<cdt_vars, ag_vars, faults>>
    PROVE  IInv'
<1> DEFINE info == [role |-> "AGENT_PENDING", name |-> None]
<1>0. /\ srv[c] = s /\ srv_up[c] /\ sw_info[c] = None
      /\ sw_info' = [sw_info EXCEPT ![c] = info]
      /\ UNCHANGED <<sw_pc, sw_conn, sw_conductor, sw_pending, sw_agents, admitted>>
      /\ UNCHANGED <<cli, srv, cli_up, srv_up, to_srv, to_cli>>
      /\ UNCHANGED cdt_vars /\ UNCHANGED ag_vars /\ faults' \in Nat
  BY DEF SwAccept, net_vars, IInv, TypeOK
<1>1. SwTypeOK' /\ sw_info'[c] # None /\ sw_info'[c].role = "AGENT_PENDING"
      /\ \A d \in Conn : d # c => sw_info'[d] = sw_info[d]
  <2>1. info \in SwConnInfo /\ info # None
    BY SwNoneAssumption DEF SwConnInfo
  <2> QED BY <1>0, <2>1 DEF IInv, TypeOK, SwTypeOK
<1>2. SwProcInv'
  BY <1>0, SwitchesQuiet
<1>3. admitted[c] = None /\ ~Authenticated(c) /\ ~Authenticated(c)'
  BY <1>0, <1>1 DEF IInv, SwConnInv, Authenticated
<1>4. \A d \in Conn : Authenticated(d)' <=> Authenticated(d)
  BY <1>1, <1>3 DEF Authenticated
<1>5. SwConnInv'
  <2>1. UNCHANGED issued
    BY DEF cdt_vars
  <2> QED BY <1>0, <1>1, <1>3, <1>4, <2>1 DEF IInv, SwConnInv, Granted
<1>6. SwitchRosterExact'
  BY <1>0, <1>4 DEF IInv, SwitchRosterExact
<1>7. ToCliInv' /\ TokenInv'
  BY <1>0, CloseShrinks DEF cdt_vars
<1>8. /\ cli_up' \in [Conn -> BOOLEAN] /\ srv_up' \in [Conn -> BOOLEAN]
      /\ to_srv' \in [Conn -> Seq(Packet)] /\ to_cli' \in [Conn -> Seq(Packet)]
      /\ \A d \in Conn : ~cli_up'[d] => to_cli'[d] = <<>>
      /\ \A d \in Conn : ~srv_up'[d] => to_srv'[d] = <<>>
  BY <1>0 DEF IInv, TypeOK, NetTypeOK, ConnInv
<1> QED BY <1>0, <1>1, <1>2, <1>5, <1>6, <1>7, <1>8, SwitchServes

\* A switch closes its end of a connection and forgets its ConnInfo.
LEMMA SwitchCloses ==
    ASSUME IInv, NEW s \in Switches, NEW c \in Conn, srv[c] = s, CloseSrv(c),
           UNCHANGED <<sw_pc, sw_conn, sw_conductor, sw_pending, admitted>>,
           UNCHANGED cdt_vars, UNCHANGED ag_vars, faults' \in Nat,
           sw_info' \in [Conn -> SwConnInfo \cup {None}], sw_info'[c] = None,
           \A d \in Conn : d # c => sw_info'[d] = sw_info[d],
           sw_agents' \in [Switches -> Seq(Conn)],
           \A r \in Switches : r # s => sw_agents'[r] = sw_agents[r],
           NoDuplicates(sw_agents[s])', Members(sw_agents[s])' = Members(sw_agents[s]) \ {c}
    PROVE  IInv'
<1>0. /\ srv_up' = [srv_up EXCEPT ![c] = FALSE]
      /\ to_srv' = [to_srv EXCEPT ![c] = <<>>]
      /\ UNCHANGED <<cli, srv, cli_up, to_cli>>
  BY DEF CloseSrv
<1>1. /\ srv_up' \in [Conn -> BOOLEAN] /\ to_srv' \in [Conn -> Seq(Packet)]
      /\ cli_up' \in [Conn -> BOOLEAN] /\ to_cli' \in [Conn -> Seq(Packet)]
      /\ ~srv_up'[c] /\ to_srv'[c] = <<>>
      /\ \A d \in Conn : d # c => srv_up'[d] = srv_up[d] /\ to_srv'[d] = to_srv[d]
  BY <1>0 DEF IInv, TypeOK, NetTypeOK
<1>2. SwTypeOK'
  BY DEF IInv, TypeOK, SwTypeOK
<1>3. SwProcInv'
  BY <1>0, <1>1, SwitchesQuiet
<1>4. ~Authenticated(c)' /\ \A d \in Conn : d # c => (Authenticated(d)' <=> Authenticated(d))
  BY DEF Authenticated
<1>5. SwConnInv'
  <2>1. UNCHANGED issued
    BY DEF cdt_vars
  <2> SUFFICES ASSUME NEW d \in Conn
               PROVE  /\ sw_info'[d] # None => srv'[d] \in Switches /\ srv_up'[d]
                      /\ Authenticated(d)' => sw_info'[d].name = cli'[d]
                      /\ Authenticated(d)' <=> admitted'[d] # None /\ sw_info'[d] # None
                      /\ admitted'[d] # None =>
                            /\ srv'[d] \in Switches
                            /\ Granted(admitted[d], cli[d], srv[d])'
                            /\ srv_up'[d] => sw_info'[d] # None
    BY DEF SwConnInv
  <2>2. /\ sw_info[d] # None => srv[d] \in Switches /\ srv_up[d]
        /\ Authenticated(d) => sw_info[d].name = cli[d]
        /\ Authenticated(d) <=> admitted[d] # None /\ sw_info[d] # None
        /\ admitted[d] # None =>
              /\ srv[d] \in Switches /\ Granted(admitted[d], cli[d], srv[d])'
              /\ srv_up[d] => sw_info[d] # None
    BY <1>0, <2>1 DEF IInv, SwConnInv, Granted
  <2>3. CASE d = c
    BY <1>0, <1>1, <1>4, <2>2, <2>3
  <2>4. CASE d # c
    BY <1>0, <1>1, <1>4, <2>2, <2>4
  <2> QED BY <2>3, <2>4
<1>6. SwitchRosterExact'
  <2>1. ASSUME NEW r \in Switches, r # s
        PROVE  /\ NoDuplicates(sw_agents'[r])
               /\ \A d \in Conn : d \in Members(sw_agents'[r])
                                  <=> srv'[d] = r /\ srv_up'[d] /\ Authenticated(d)'
    <3>1. /\ NoDuplicates(sw_agents[r]) /\ sw_agents'[r] = sw_agents[r]
          /\ \A d \in Conn : d \in Members(sw_agents[r])
                             <=> srv[d] = r /\ srv_up[d] /\ Authenticated(d)
      BY <2>1 DEF IInv, SwitchRosterExact
    <3> QED BY <1>0, <1>1, <1>4, <2>1, <3>1
  <2>2. \A d \in Conn : d \in Members(sw_agents'[s])
                          <=> srv'[d] = s /\ srv_up'[d] /\ Authenticated(d)'
    BY <1>0, <1>1, <1>4 DEF IInv, SwitchRosterExact
  <2> QED BY <2>1, <2>2 DEF SwitchRosterExact
<1>7. ToCliInv' /\ TokenInv'
  BY <1>0, CloseShrinks DEF cdt_vars
<1>8. /\ \A d \in Conn : ~cli_up'[d] => to_cli'[d] = <<>>
      /\ \A d \in Conn : ~srv_up'[d] => to_srv'[d] = <<>>
      /\ \A d \in Conn : srv[d] = CDT => d # c
  BY <1>0, <1>1, ProcAssumption DEF IInv, ConnInv
<1> QED BY <1>0, <1>1, <1>2, <1>3, <1>5, <1>6, <1>7, <1>8, SwitchServes

\* put_sck fails.
LEMMA SwAcceptFailsStep ==
    ASSUME IInv, NEW s \in Switches, NEW c \in Conn, SwAcceptFails(s, c),
           UNCHANGED <<cdt_vars, ag_vars>>, faults' \in Nat
    PROVE  IInv'
<1>0. /\ srv[c] = s /\ sw_info[c] = None /\ CloseSrv(c)
      /\ UNCHANGED <<sw_pc, sw_conn, sw_conductor, sw_info, sw_pending, sw_agents, admitted>>
      /\ UNCHANGED cdt_vars /\ UNCHANGED ag_vars
  BY DEF SwAcceptFails, sw_vars
<1>1. /\ NoDuplicates(sw_agents[s])
      /\ Members(sw_agents[s]) = Members(sw_agents[s]) \ {c}
  BY <1>0 DEF IInv, SwitchRosterExact, Authenticated
<1>2. /\ sw_info' \in [Conn -> SwConnInfo \cup {None}]
      /\ sw_agents' \in [Switches -> Seq(Conn)]
  BY <1>0 DEF IInv, TypeOK, SwTypeOK
<1> QED BY <1>0, <1>1, <1>2, SwitchCloses

\* An agent with an unknown token is dropped.
LEMMA RejectStep ==
    ASSUME IInv, NEW s \in Switches, NEW c \in Conn, onAuthConnectToSwitch_Reject(s, c),
           UNCHANGED <<cdt_vars, ag_vars, faults>>
    PROVE  IInv'
<1>0. /\ srv[c] = s /\ sw_info' = [sw_info EXCEPT ![c] = None] /\ CloseSrv(c)
      /\ to_srv[c] # <<>>
      /\ UNCHANGED <<sw_pc, sw_conn, sw_conductor, sw_pending, sw_agents, admitted>>
      /\ UNCHANGED cdt_vars /\ UNCHANGED ag_vars /\ faults' \in Nat
  BY DEF onAuthConnectToSwitch_Reject, SwReads, SrvReads, IInv, TypeOK
<1>1. ~Authenticated(c)
  BY <1>0 DEF IInv, ToSrvInv, SwConnInv
<1>2. /\ NoDuplicates(sw_agents[s])
      /\ Members(sw_agents[s]) = Members(sw_agents[s]) \ {c}
  BY <1>1 DEF IInv, SwitchRosterExact
<1>3. /\ sw_info' \in [Conn -> SwConnInfo \cup {None}]
      /\ sw_info'[c] = None /\ \A d \in Conn : d # c => sw_info'[d] = sw_info[d]
      /\ sw_agents' \in [Switches -> Seq(Conn)]
  BY <1>0 DEF IInv, TypeOK, SwTypeOK
<1> QED BY <1>0, <1>2, <1>3, SwitchCloses

\* An agent's connection is closed.
LEMMA SwOnCloseStep ==
    ASSUME IInv, NEW s \in Switches, NEW c \in Conn, SwOnClose(s, c),
           UNCHANGED <<cdt_vars, ag_vars, faults>>
    PROVE  IInv'
<1>0. /\ srv[c] = s /\ sw_info' = [sw_info EXCEPT ![c] = None] /\ CloseSrv(c)
      /\ sw_info[c] # None
      /\ sw_agents' = IF sw_info[c].role = "AGENT_AUTHENTICATED"
                      THEN [sw_agents EXCEPT ![s] = Erase(sw_agents[s], c)] ELSE sw_agents
      /\ UNCHANGED <<sw_pc, sw_conn, sw_conductor, sw_pending, admitted>>
      /\ UNCHANGED cdt_vars /\ UNCHANGED ag_vars /\ faults' \in Nat
  BY DEF SwOnClose, RostersWithout, IInv, TypeOK
<1>1. /\ sw_agents \in [Switches -> Seq(Conn)] /\ sw_agents[s] \in Seq(Conn)
      /\ NoDuplicates(sw_agents[s])
  BY DEF IInv, TypeOK, SwTypeOK, SwitchRosterExact
<1>2. /\ Erase(sw_agents[s], c) \in Seq(Conn) /\ NoDuplicates(Erase(sw_agents[s], c))
      /\ Members(Erase(sw_agents[s], c)) = Members(sw_agents[s]) \ {c}
  BY <1>1, EraseRoster
<1>3. /\ sw_agents' \in [Switches -> Seq(Conn)]
      /\ \A r \in Switches : r # s => sw_agents'[r] = sw_agents[r]
      /\ NoDuplicates(sw_agents'[s]) /\ Members(sw_agents'[s]) = Members(sw_agents[s]) \ {c}
  <2>1. CASE sw_info[c].role = "AGENT_AUTHENTICATED"
    <3>1. sw_agents' = [sw_agents EXCEPT ![s] = Erase(sw_agents[s], c)]
      BY <1>0, <2>1
    <3>2. sw_agents'[s] = Erase(sw_agents[s], c)
      BY <1>1, <3>1
    <3> QED BY <1>1, <1>2, <3>1, <3>2
  <2>2. CASE sw_info[c].role # "AGENT_AUTHENTICATED"
    <3>1. c \notin Members(sw_agents[s])
      BY <2>2 DEF IInv, SwitchRosterExact, Authenticated
    <3>2. sw_agents' = sw_agents
      BY <1>0, <2>2
    <3> QED BY <1>1, <3>1, <3>2
  <2> QED BY <2>1, <2>2
<1>4. /\ sw_info' \in [Conn -> SwConnInfo \cup {None}]
      /\ sw_info'[c] = None /\ \A d \in Conn : d # c => sw_info'[d] = sw_info[d]
  BY <1>0 DEF IInv, TypeOK, SwTypeOK
<1> QED BY <1>0, <1>3, <1>4, SwitchCloses

\* An agent presents a token that was announced: it is admitted.
LEMMA AcceptStep ==
    ASSUME IInv, NEW s \in Switches, NEW c \in Conn, onAuthConnectToSwitch_Accept(s, c),
           UNCHANGED <<cdt_vars, ag_vars, faults>>
    PROVE  IInv'
<1> DEFINE m == [type |-> "CONNECTION_ACCEPTED"]
<1>a. /\ srv[c] = s /\ srv_up[c] /\ to_srv[c] # <<>> /\ sw_info[c] # None
      /\ Head(to_srv[c]).type = "AUTH_CONNECT_TO_SWITCH"
      /\ to_srv \in [Conn -> Seq(Packet)]
  BY DEF onAuthConnectToSwitch_Accept, SwReads, SrvReads, IInv, TypeOK, NetTypeOK
<1>b. /\ Head(to_srv[c]) = to_srv[c][1] /\ Head(to_srv[c]) \in Packet
      /\ Len(to_srv[c]) = 1 /\ admitted[c] = None
      /\ Granted(Head(to_srv[c]).token, cli[c], s)
  <2>1. Head(to_srv[c]) = to_srv[c][1] /\ Head(to_srv[c]) \in Packet
    BY <1>a, ReadFacts
  <2> QED BY <1>a, <2>1 DEF IInv, ToSrvInv
<1>c. PICK t \in Token : t = Head(to_srv[c]).token
  BY <1>a, <1>b, PacketFields
<1>0. /\ sw_pending[s][t] # None
      /\ sw_info' = [sw_info EXCEPT ![c] =
            [role |-> "AGENT_AUTHENTICATED", name |-> sw_pending[s][t].agent]]
      /\ sw_pending' = [sw_pending EXCEPT ![s][t] = None]
      /\ admitted' = [admitted EXCEPT ![c] = t]
      /\ sw_agents' = [sw_agents EXCEPT ![s] = Append(sw_agents[s], c)]
      /\ to_srv' = ReadOne(to_srv, c)
      /\ to_cli' = Written(to_cli, c, cli_up[c], m)
      /\ UNCHANGED <<cli, srv, cli_up, srv_up, sw_pc, sw_conn, sw_conductor>>
      /\ UNCHANGED cdt_vars /\ UNCHANGED ag_vars /\ faults' \in Nat
  BY <1>c DEF onAuthConnectToSwitch_Accept, Used, SrvAnswers, IInv, TypeOK
<1>d. UNCHANGED <<issued, busy>>
  BY DEF cdt_vars
<1>e. m \in Packet /\ m.type = "CONNECTION_ACCEPTED"
  BY PacketsWritten
<1> HIDE DEF m
<1>f. /\ to_srv' \in [Conn -> Seq(Packet)] /\ to_srv'[c] = <<>>
      /\ \A d \in Conn : d # c => to_srv'[d] = to_srv[d]
  BY <1>0, <1>a, <1>b, ReadFacts
<1>g. /\ to_cli' \in [Conn -> Seq(Packet)]
      /\ \A d \in Conn : d # c => to_cli'[d] = to_cli[d]
      /\ ~cli_up[c] => to_cli' = to_cli
      /\ Len(to_cli[c]) \in Nat
      /\ \A i \in 1 .. Len(to_cli'[c]) :
                \/ i \in 1 .. Len(to_cli[c]) /\ to_cli'[c][i] = to_cli[c][i]
                \/ i = Len(to_cli[c]) + 1 /\ to_cli'[c][i] = m
  BY <1>0, <1>e, ServerWrote
<1>h. /\ Granted(t, cli[c], s) /\ sw_pending[s][t].agent = cli[c]
      /\ sw_pending[s][t].agent \in Agents /\ t # None
  <2>1. Granted(t, sw_pending[s][t].agent, s) /\ sw_pending[s][t].agent \in Agents
    BY <1>0 DEF IInv, SwProcInv, SwOK, TypeOK, SwTypeOK, PendingToken
  <2>2. t # None
    BY ProcAssumption DEF Token
  <2> QED BY <1>b, <1>c, <2>1, <2>2 DEF Granted
<1>i. /\ sw_info \in [Conn -> SwConnInfo \cup {None}]
      /\ sw_pending \in [Switches -> [Token -> PendingToken \cup {None}]]
      /\ sw_agents \in [Switches -> Seq(Conn)] /\ sw_agents[s] \in Seq(Conn)
      /\ admitted \in [Conn -> Token \cup {None}]
  BY DEF IInv, TypeOK, SwTypeOK
<1>1. /\ sw_info' \in [Conn -> SwConnInfo \cup {None}]
      /\ sw_info'[c] # None /\ sw_info'[c].role = "AGENT_AUTHENTICATED"
      /\ sw_info'[c].name = cli[c]
      /\ \A d \in Conn : d # c => sw_info'[d] = sw_info[d]
  <2>1. [role |-> "AGENT_AUTHENTICATED", name |-> sw_pending[s][t].agent] \in SwConnInfo
    BY <1>h DEF SwConnInfo
  <2> QED BY <1>0, <1>h, <1>i, <2>1, SwNoneAssumption
<1>2. /\ sw_pending' \in [Switches -> [Token -> PendingToken \cup {None}]]
      /\ sw_pending'[s][t] = None
      /\ \A u \in Token : u # t => sw_pending'[s][u] = sw_pending[s][u]
      /\ \A r \in Switches : r # s => sw_pending'[r] = sw_pending[r]
  BY <1>0, <1>i
<1>3. /\ admitted' \in [Conn -> Token \cup {None}] /\ admitted'[c] = t
      /\ \A d \in Conn : d # c => admitted'[d] = admitted[d]
  BY <1>0, <1>i
<1>4. /\ Append(sw_agents[s], c) \in Seq(Conn)
      /\ Members(Append(sw_agents[s], c)) = Members(sw_agents[s]) \cup {c}
      /\ NoDuplicates(Append(sw_agents[s], c))
  <2>1. c \notin Members(sw_agents[s]) /\ NoDuplicates(sw_agents[s])
    BY <1>b DEF IInv, SwConnInv, SwitchRosterExact
  <2> QED BY <1>i, <2>1, AppendRoster
<1>5. /\ sw_agents' \in [Switches -> Seq(Conn)]
      /\ sw_agents'[s] = Append(sw_agents[s], c)
      /\ \A r \in Switches : r # s => sw_agents'[r] = sw_agents[r]
  BY <1>0, <1>i, <1>4
<1>6. SwTypeOK'
  BY <1>0, <1>1, <1>2, <1>3, <1>5 DEF IInv, TypeOK, SwTypeOK
<1>7. SwProcInv'
  <2>1. cli[c] \in Agents
    BY <1>h
  <2>2. GrantsKept /\ \A d \in Conn : d # c => Kept(d)
    BY <1>0, <1>f, <1>3 DEF cdt_vars, GrantsKept, Granted, Kept
  <2>3. SwOK(s)'
    <3>1. SwOK(s) /\ sw_conn[s] \in Conn \cup {None}
      BY DEF IInv, TypeOK, SwTypeOK, SwProcInv
    <3>2. \A u \in Token : sw_pending'[s][u] # None => Granted(u, sw_pending[s][u].agent, s)'
      BY <1>2, <1>d, <3>1 DEF SwOK, Granted
    <3>3. CASE sw_conn[s] = None
      BY <1>0, <3>1, <3>2, <3>3 DEF SwOK
    <3>4. CASE sw_conn[s] # None
      <4>1. sw_conn[s] # c /\ Kept(sw_conn[s])
        BY <2>1, <2>2, <3>1, <3>4, ProcAssumption DEF SwOK
      <4> QED BY <1>0, <3>1, <3>2, <4>1 DEF SwOK, Kept
    <3> QED BY <3>3, <3>4
  <2> QED BY <1>0, <1>2, <2>1, <2>2, <2>3, OtherSwitches, ProcAssumption
<1>8. Authenticated(c)' /\ ~Authenticated(c)
      /\ \A d \in Conn : d # c => (Authenticated(d)' <=> Authenticated(d))
  BY <1>b, <1>1 DEF Authenticated, IInv, SwConnInv
<1>9. SwConnInv'
  <2> SUFFICES ASSUME NEW d \in Conn
               PROVE  /\ sw_info'[d] # None => srv'[d] \in Switches /\ srv_up'[d]
                      /\ Authenticated(d)' => sw_info'[d].name = cli'[d]
                      /\ Authenticated(d)' <=> admitted'[d] # None /\ sw_info'[d] # None
                      /\ admitted'[d] # None =>
                            /\ srv'[d] \in Switches
                            /\ Granted(admitted[d], cli[d], srv[d])'
                            /\ srv_up'[d] => sw_info'[d] # None
    BY DEF SwConnInv
  <2>1. CASE d = c
    BY <1>0, <1>a, <1>d, <1>h, <1>1, <1>3, <1>8, <2>1 DEF Granted
  <2>2. CASE d # c
    BY <1>0, <1>d, <1>1, <1>3, <1>8, <2>2 DEF IInv, SwConnInv, Granted
  <2> QED BY <2>1, <2>2
<1>10. SwitchRosterExact'
  <2>1. ASSUME NEW r \in Switches, r # s
        PROVE  /\ NoDuplicates(sw_agents'[r])
               /\ \A d \in Conn : d \in Members(sw_agents'[r])
                                  <=> srv'[d] = r /\ srv_up'[d] /\ Authenticated(d)'
    <3>1. /\ NoDuplicates(sw_agents[r]) /\ sw_agents'[r] = sw_agents[r]
          /\ \A d \in Conn : d \in Members(sw_agents[r])
                             <=> srv[d] = r /\ srv_up[d] /\ Authenticated(d)
      BY <1>5, <2>1 DEF IInv, SwitchRosterExact
    <3> QED BY <1>0, <1>a, <1>8, <2>1, <3>1
  <2>2. \A d \in Conn : d \in Members(sw_agents'[s])
                          <=> srv'[d] = s /\ srv_up'[d] /\ Authenticated(d)'
    BY <1>0, <1>a, <1>4, <1>5, <1>8 DEF IInv, SwitchRosterExact
  <2>3. NoDuplicates(sw_agents'[s])
    BY <1>4, <1>5
  <2> QED BY <2>1, <2>2, <2>3 DEF SwitchRosterExact
<1>11. ToCliInv'
  <2>1. \A d \in Conn : admitted[d] # None => admitted'[d] # None
    BY <1>3, <1>h
  <2>2. \A i \in 1 .. Len(to_cli'[c]) : i \notin 1 .. Len(to_cli[c]) =>
            /\ to_cli'[c][i].type = "CONNECTION_ACCEPTED"
            /\ srv'[c] \in Switches /\ admitted'[c] # None
    BY <1>0, <1>a, <1>e, <1>g, <1>h, <1>3
  <2>3. ASSUME NEW d \in Conn, NEW i \in 1 .. Len(to_cli'[d]), i \in 1 .. Len(to_cli[d])
        PROVE  to_cli'[d][i] = to_cli[d][i]
    BY <1>g, <2>3
  <2>4. \A d \in Conn : d # c => to_cli'[d] = to_cli[d]
    BY <1>g
  <2> QED BY <1>0, <1>d, <2>1, <2>2, <2>3, <2>4 DEF IInv, ToCliInv, Granted
<1>12. TokenInv'
  <2>1. ASSUME NEW d \in Conn, NEW i \in 1 .. Len(to_cli'[d]), NEW u, Announces(d, i, u)'
        PROVE  i \in 1 .. Len(to_cli[d]) /\ Announces(d, i, u)
    BY <1>e, <1>g, <2>1 DEF Announces
  <2>2. \A r \in Switches, u \in Token : sw_pending'[r][u] # None => sw_pending[r][u] # None /\ u # t
    <3>1. \A r \in Switches : sw_pending[r][t] # None => r = s
      <4>1. ASSUME NEW r \in Switches, sw_pending[r][t] # None PROVE r = s
        <5>1. /\ issued[t] = [agent |-> sw_pending[r][t].agent, switch |-> r]
              /\ issued[t] = [agent |-> cli[c], switch |-> s]
          BY <1>h, <4>1 DEF IInv, SwProcInv, SwOK, Granted
        <5> QED BY <5>1
      <4> QED BY <4>1
    <3> QED BY <1>2, <3>1
  <2>3. busy # None => busy.token # t /\ busy.token \in Token
    BY <1>0 DEF IInv, TokenInv, TypeOK, CdtTypeOK, Handling
  <2>4. \A d \in Conn : admitted[d] # t
    BY <1>0 DEF IInv, TokenInv
  <2>5. \A d \in Conn : \A i \in 1 .. Len(to_cli[d]) : ~Announces(d, i, t)
    BY <1>0 DEF IInv, TokenInv
  <2>6. busy' # None =>
          /\ \A d \in Conn : \A i \in 1 .. Len(to_cli'[d]) : ~Announces(d, i, busy.token)'
          /\ \A r \in Switches : sw_pending'[r][busy'.token] = None
          /\ \A d \in Conn : admitted'[d] # busy'.token
    BY <1>d, <1>3, <2>1, <2>2, <2>3 DEF IInv, TokenInv
  <2>7. ASSUME NEW d \in Conn, NEW i \in 1 .. Len(to_cli'[d]), NEW u \in Token,
               Announces(d, i, u)'
        PROVE  /\ \A e \in Conn : \A j \in 1 .. Len(to_cli'[e]) :
                     Announces(e, j, u)' => d = e /\ i = j
               /\ \A r \in Switches : sw_pending'[r][u] = None
               /\ \A e \in Conn : admitted'[e] # u
    BY <1>3, <2>1, <2>2, <2>5, <2>7 DEF IInv, TokenInv
  <2>8. \A r \in Switches, u \in Token : sw_pending'[r][u] # None =>
            \A d \in Conn : admitted'[d] # u
    BY <1>3, <2>2 DEF IInv, TokenInv
  <2>9. \A d, e \in Conn : admitted'[d] # None /\ admitted'[d] = admitted'[e] => d = e
    BY <1>3, <2>4 DEF IInv, TokenInv
  <2> QED BY <2>6, <2>7, <2>8, <2>9 DEF TokenInv
<1>13. /\ cli_up' \in [Conn -> BOOLEAN] /\ srv_up' \in [Conn -> BOOLEAN]
       /\ \A d \in Conn : ~cli_up'[d] => to_cli'[d] = <<>>
       /\ \A d \in Conn : ~srv_up'[d] => to_srv'[d] = <<>>
  BY <1>0, <1>f, <1>g DEF IInv, TypeOK, NetTypeOK, ConnInv
<1>14. \A d \in Conn :
          \/ admitted'[d] = admitted[d]
          \/ /\ to_srv[d] # <<>> /\ to_srv'[d] = <<>>
             /\ admitted'[d] # None /\ admitted'[d] = to_srv[d][1].token
  BY <1>a, <1>b, <1>c, <1>f, <1>h, <1>3
<1> QED BY <1>0, <1>f, <1>g, <1>6, <1>7, <1>9, <1>10, <1>11, <1>12, <1>13, <1>14, SwitchServes

\* Only the processes' own variables change: their progress and their tokens.
LEMMA SwitchesAlone ==
    ASSUME IInv, UNCHANGED cdt_vars, UNCHANGED ag_vars, faults' \in Nat, UNCHANGED net_vars,
           UNCHANGED <<sw_info, sw_agents, admitted>>,
           SwTypeOK', SwProcInv', PendingShrinks
    PROVE  IInv'
<1>0. UNCHANGED <<cli, srv, cli_up, srv_up, to_srv, to_cli>>
  BY DEF net_vars
<1>1. ToCliInv' /\ TokenInv'
  BY <1>0, CloseShrinks DEF cdt_vars
<1>2. SwConnInv' /\ SwitchRosterExact'
  BY <1>0, QuietServers
<1>3. /\ cli_up' \in [Conn -> BOOLEAN] /\ srv_up' \in [Conn -> BOOLEAN]
      /\ to_srv' \in [Conn -> Seq(Packet)] /\ to_cli' \in [Conn -> Seq(Packet)]
      /\ \A d \in Conn : ~cli_up'[d] => to_cli'[d] = <<>>
      /\ \A d \in Conn : ~srv_up'[d] => to_srv'[d] = <<>>
  BY <1>0 DEF IInv, TypeOK, NetTypeOK, ConnInv
<1> QED BY <1>0, <1>1, <1>2, <1>3, SwitchServes

\* A switch starts to listen.
LEMMA SwListenStep ==
    ASSUME IInv, NEW s \in Switches, SwListen(s), UNCHANGED <<cdt_vars, ag_vars, faults>>
    PROVE  IInv'
<1>0. /\ sw_pc[s] = "registered" /\ sw_pc' = [sw_pc EXCEPT ![s] = "running"]
      /\ sw_conductor' = [sw_conductor EXCEPT ![s] = TRUE]
      /\ UNCHANGED <<sw_conn, sw_info, sw_pending, sw_agents, admitted>>
      /\ UNCHANGED net_vars /\ UNCHANGED cdt_vars /\ UNCHANGED ag_vars /\ faults' \in Nat
  BY DEF SwListen, IInv, TypeOK
<1>1. SwTypeOK' /\ sw_pc'[s] = "running" /\ \A r \in Switches : r # s => sw_pc'[r] = sw_pc[r]
  BY <1>0 DEF IInv, TypeOK, SwTypeOK
<1>2. GrantsKept /\ \A d \in Conn : Kept(d)
  BY <1>0 DEF cdt_vars, net_vars, GrantsKept, Granted, Kept
<1>3. SwOK(s)'
  BY <1>0, <1>1 DEF IInv, SwProcInv, SwOK, Granted, cdt_vars, net_vars
<1>4. SwProcInv'
  BY <1>0, <1>1, <1>2, <1>3, OtherSwitches
<1>5. PendingShrinks
  BY <1>0 DEF PendingShrinks, cdt_vars
<1> QED BY <1>0, <1>1, <1>4, <1>5, SwitchesAlone

\* The tokens announced to switches age or expire.
LEMMA PendingFewer ==
    ASSUME IInv, UNCHANGED <<cdt_vars, ag_vars, faults, net_vars>>,
           UNCHANGED <<sw_pc, sw_conn, sw_conductor, sw_info, sw_agents, admitted>>,
           sw_pending' \in [Switches -> [Token -> PendingToken \cup {None}]],
           \A s \in Switches, t \in Token : sw_pending'[s][t] # None =>
              sw_pending[s][t] # None /\ sw_pending'[s][t].agent = sw_pending[s][t].agent
    PROVE  IInv'
<1>0. /\ UNCHANGED cdt_vars /\ UNCHANGED ag_vars /\ UNCHANGED net_vars /\ faults' \in Nat
      /\ UNCHANGED <<cli, srv, to_srv, cdt_info, issued, busy>>
  BY DEF IInv, TypeOK, net_vars, cdt_vars
<1>1. SwTypeOK'
  BY DEF IInv, TypeOK, SwTypeOK
<1>2. SwProcInv'
  BY <1>0 DEF IInv, SwProcInv, SwOK, Granted
<1>3. PendingShrinks
  BY <1>0 DEF PendingShrinks
<1> QED BY <1>0, <1>1, <1>2, <1>3, SwitchesAlone

LEMMA SwTokenAgesStep ==
    ASSUME IInv, NEW s \in Switches, NEW t \in Token, SwTokenAges(s, t),
           UNCHANGED <<cdt_vars, ag_vars, faults>>
    PROVE  IInv'
<1>0. /\ sw_pending[s][t] # None
      /\ sw_pending' = [sw_pending EXCEPT ![s][t].expired = TRUE]
      /\ UNCHANGED <<sw_pc, sw_conn, sw_conductor, sw_info, sw_agents, admitted>>
      /\ UNCHANGED <<cdt_vars, ag_vars, faults, net_vars>>
  BY DEF SwTokenAges
<1>1. sw_pending \in [Switches -> [Token -> PendingToken \cup {None}]]
  BY DEF IInv, TypeOK, SwTypeOK
<1>2. PICK p \in PendingToken : sw_pending[s][t] = p
  BY <1>0, <1>1
<1>3. /\ [p EXCEPT !.expired = TRUE] \in PendingToken
      /\ [p EXCEPT !.expired = TRUE].agent = p.agent
  BY DEF PendingToken
<1>4. /\ sw_pending' \in [Switches -> [Token -> PendingToken \cup {None}]]
      /\ sw_pending'[s][t] = [p EXCEPT !.expired = TRUE]
      /\ \A u \in Token : u # t => sw_pending'[s][u] = sw_pending[s][u]
      /\ \A r \in Switches : r # s => sw_pending'[r] = sw_pending[r]
  BY <1>0, <1>1, <1>2, <1>3
<1>5. \A r \in Switches, u \in Token : sw_pending'[r][u] # None =>
          sw_pending[r][u] # None /\ sw_pending'[r][u].agent = sw_pending[r][u].agent
  BY <1>0, <1>2, <1>3, <1>4
<1> QED BY <1>0, <1>4, <1>5, PendingFewer

LEMMA ExpireTokensStep ==
    ASSUME IInv, NEW s \in Switches, expire_tokens(s), UNCHANGED <<cdt_vars, ag_vars, faults>>
    PROVE  IInv'
<1> DEFINE f == [t \in Token |-> IF sw_pending[s][t] # None /\ sw_pending[s][t].expired
                                 THEN None ELSE sw_pending[s][t]]
<1>0. /\ sw_pending' = [sw_pending EXCEPT ![s] = f]
      /\ UNCHANGED <<sw_pc, sw_conn, sw_conductor, sw_info, sw_agents, admitted>>
      /\ UNCHANGED <<cdt_vars, ag_vars, faults, net_vars>>
  BY DEF expire_tokens
<1>1. sw_pending \in [Switches -> [Token -> PendingToken \cup {None}]]
  BY DEF IInv, TypeOK, SwTypeOK
<1>2. /\ f \in [Token -> PendingToken \cup {None}]
      /\ \A t \in Token : f[t] # None => f[t] = sw_pending[s][t]
  BY <1>1
<1> HIDE DEF f
<1>3. /\ sw_pending' \in [Switches -> [Token -> PendingToken \cup {None}]]
      /\ sw_pending'[s] = f
      /\ \A r \in Switches : r # s => sw_pending'[r] = sw_pending[r]
  BY <1>0, <1>1, <1>2
<1>4. \A r \in Switches, u \in Token : sw_pending'[r][u] # None =>
          sw_pending[r][u] # None /\ sw_pending'[r][u].agent = sw_pending[r][u].agent
  BY <1>2, <1>3
<1> QED BY <1>0, <1>3, <1>4, PendingFewer

\* A switch opens its control connection.
LEMMA SwConnectStep ==
    ASSUME IInv, NEW s \in Switches, NEW c \in Conn, NEW l, SwConnect(s, c, l),
           UNCHANGED <<cdt_vars, ag_vars, faults>>
    PROVE  IInv'
<1>0. /\ cli[c] = None /\ sw_pc[s] = "off"
      /\ cli' = [cli EXCEPT ![c] = s] /\ srv' = [srv EXCEPT ![c] = CDT]
      /\ cli_up' = [cli_up EXCEPT ![c] = TRUE] /\ srv_up' = [srv_up EXCEPT ![c] = TRUE]
      /\ to_srv' = to_srv /\ to_cli' = to_cli
      /\ sw_pc' = [sw_pc EXCEPT ![s] = "connected"]
      /\ sw_conn' = [sw_conn EXCEPT ![s] = c]
      /\ sw_conductor' = sw_conductor
      /\ UNCHANGED cdt_vars /\ UNCHANGED ag_vars
      /\ UNCHANGED <<sw_info, sw_pending, sw_agents, admitted, faults>>
  BY DEF SwConnect, Connect, Unused
<1>1. /\ GrantsKept /\ \A d \in Conn : cli[d] # None => Kept(d)
      /\ cli'[c] = s /\ srv'[c] = CDT
      /\ to_srv[c] = <<>> /\ cdt_info'[c] = None /\ admitted'[c] = None
  <2>1. /\ cli'[c] = s /\ srv'[c] = CDT
        /\ \A d \in Conn : d # c =>
              cli'[d] = cli[d] /\ srv'[d] = srv[d] /\ to_srv'[d] = to_srv[d]
    BY <1>0 DEF IInv, TypeOK, NetTypeOK
  <2>2. UNCHANGED admitted
    BY <1>0
  <2> QED BY <1>0, <2>1, <2>2, OpenKeeps
<1>2. AgTypeOK' /\ AgInv'
  BY <1>0, <1>1, AgsFrame, ProcAssumption DEF Proc
<1>3. /\ SwTypeOK'
      /\ sw_pc'[s] = "connected" /\ sw_conn'[s] = c
      /\ \A r \in Switches : r # s => sw_pc'[r] = sw_pc[r] /\ sw_conn'[r] = sw_conn[r]
  BY <1>0 DEF IInv, TypeOK, SwTypeOK
<1>4. SwOK(s)'
  <2>1. c # None
    BY ProcAssumption DEF Conn
  <2>2. \A t \in Token : sw_pending'[s][t] # None => Granted(t, sw_pending[s][t].agent, s)'
    BY <1>0 DEF IInv, SwProcInv, SwOK, Granted, cdt_vars
  <2> QED BY <1>0, <1>1, <1>3, <2>1, <2>2 DEF SwOK
<1>5. SwProcInv'
  BY <1>0, <1>1, <1>3, <1>4, OtherSwitches, ProcAssumption DEF Proc
<1>6. ToSrvInv'
  <2>1. \A d \in Conn : cli[d] # None => cli'[d] = cli[d] /\ srv'[d] = srv[d]
    BY <1>1 DEF Kept
  <2>2. \A d \in Conn : to_srv[d] # <<>> => cli[d] # None
    BY DEF IInv, ConnInv
  <2> QED BY <1>0, <1>1, <2>1, <2>2, ToSrvShrinks DEF cdt_vars
<1>7. to_srv' \in [Conn -> Seq(Packet)]
  BY <1>0 DEF IInv, TypeOK, NetTypeOK
<1> QED BY <1>0, <1>2, <1>3, <1>5, <1>6, <1>7, ClientOpens

\* A switch writes SWITCH_MIP.
LEMMA SwRegisterStep ==
    ASSUME IInv, NEW s \in Switches, SwRegister(s),
           UNCHANGED <<cdt_vars, ag_vars, faults>>
    PROVE  IInv'
<1> DEFINE m == [type |-> "SWITCH_MIP", name |-> s, network |-> "::internet"]
<1>a. PICK c \in Conn : c = sw_conn[s]
  BY DEF IInv, TypeOK, SwTypeOK, SwProcInv, SwOK, SwRegister
<1>0. /\ sw_pc[s] = "connected" /\ to_srv' = Written(to_srv, c, srv_up[c], m)
      /\ UNCHANGED <<cli, srv, cli_up, srv_up, to_cli, sw_conn, sw_conductor>>
      /\ sw_pc' = [sw_pc EXCEPT ![s] = "registered"]
      /\ UNCHANGED cdt_vars /\ UNCHANGED ag_vars
      /\ UNCHANGED <<sw_info, sw_pending, sw_agents, admitted, faults>>
  BY <1>a DEF SwRegister, CliWrites
<1>b. /\ cli[c] = s /\ srv[c] = CDT /\ to_srv[c] = <<>> /\ cli[c] # None
      /\ cdt_info[c] # None => cdt_info[c].role = "UNKNOWN"
      /\ admitted[c] = None
  BY <1>0, <1>a, ProcAssumption DEF IInv, SwProcInv, SwOK, SwConnInv, Proc
<1>c. m.type = "SWITCH_MIP" /\ m.name = cli[c] /\ m \in Packet
  BY <1>b, PacketsWritten, NetworksAssumption
<1> HIDE DEF m
<1>d. (\A d \in Conn : d # c => Kept(d)) /\ GrantsKept
  BY <1>0, <1>b, <1>c, ClientWrote
<1>1. AgTypeOK' /\ AgInv'
  BY <1>0, <1>b, <1>d, AgsFrame, ProcAssumption
<1>2. SwTypeOK' /\ sw_pc'[s] = "registered"
      /\ \A r \in Switches : r # s => sw_pc'[r] = sw_pc[r]
  BY <1>0 DEF IInv, TypeOK, SwTypeOK
<1>3. SwOK(s)'
  BY <1>0, <1>2 DEF IInv, SwProcInv, SwOK, Granted, cdt_vars
<1>4. SwProcInv'
  BY <1>0, <1>b, <1>d, <1>2, <1>3, OtherSwitches
<1> QED BY <1>0, <1>b, <1>c, <1>1, <1>2, <1>4, ClientWrites

\* The conductor is gone.
LEMMA SwOnConductorCloseStep ==
    ASSUME IInv, NEW s \in Switches, SwOnConductorClose(s),
           UNCHANGED <<cdt_vars, ag_vars, faults>>
    PROVE  IInv'
<1>a. PICK c \in Conn : c = sw_conn[s]
  BY DEF IInv, TypeOK, SwTypeOK, SwProcInv, SwOK, SwOnConductorClose, Running
<1>0. /\ sw_conductor' = [sw_conductor EXCEPT ![s] = FALSE]
      /\ cli_up' = [cli_up EXCEPT ![c] = FALSE]
      /\ to_cli' = [to_cli EXCEPT ![c] = <<>>]
      /\ UNCHANGED <<cli, srv, srv_up, to_srv>>
      /\ UNCHANGED <<sw_pc, sw_conn, sw_info, sw_pending, sw_agents, admitted>>
      /\ UNCHANGED cdt_vars /\ UNCHANGED ag_vars /\ faults' \in Nat
  BY <1>a DEF SwOnConductorClose, CloseCli, IInv, TypeOK
<1>1. /\ cli_up' \in [Conn -> BOOLEAN] /\ to_cli' \in [Conn -> Seq(Packet)]
      /\ \A d \in Conn : cli_up'[d] => cli_up[d]
      /\ \A d \in Conn : ~cli_up'[d] => to_cli'[d] = <<>>
      /\ \A d \in Conn : to_cli'[d] = to_cli[d] \/ to_cli'[d] = <<>>
  BY <1>0 DEF IInv, TypeOK, NetTypeOK, ConnInv
<1>2. SwTypeOK' /\ SwProcInv'
  <2>1. SwProcInv'
    BY <1>0, SwitchesQuiet
  <2> QED BY <1>0, <2>1 DEF IInv, TypeOK, SwTypeOK
<1>3. AgTypeOK' /\ AgInv'
  <2>1. GrantsKept /\ \A d \in Conn : Kept(d)
    BY <1>0 DEF cdt_vars, GrantsKept, Granted, Kept
  <2> QED BY <1>0, <2>1, AgsFrame
<1>4. ToCliInv' /\ TokenInv'
  BY <1>0, <1>1, CloseShrinks DEF cdt_vars
<1> QED BY <1>0, <1>1, <1>2, <1>3, <1>4, ClientTakes

\* The process of a switch ends.
LEMMA SwCrashStep ==
    ASSUME IInv, NEW s \in Switches, SwCrash(s), UNCHANGED <<cdt_vars, ag_vars>>, faults' \in Nat
    PROVE  IInv'
<1>0. /\ sw_pc' = [sw_pc EXCEPT ![s] = "off"]
      /\ sw_conn' = [sw_conn EXCEPT ![s] = None]
      /\ sw_conductor' = [sw_conductor EXCEPT ![s] = FALSE]
      /\ sw_info' = [c \in Conn |-> IF srv[c] = s THEN None ELSE sw_info[c]]
      /\ sw_pending' = [sw_pending EXCEPT ![s] = NoTokens]
      /\ sw_agents' = [sw_agents EXCEPT ![s] = <<>>]
      /\ cli_up' = [c \in Conn |-> cli_up[c] /\ cli[c] # s]
      /\ srv_up' = [c \in Conn |-> srv_up[c] /\ srv[c] # s]
      /\ to_srv' = [c \in Conn |-> IF srv[c] = s THEN <<>> ELSE to_srv[c]]
      /\ to_cli' = [c \in Conn |-> IF cli[c] = s THEN <<>> ELSE to_cli[c]]
      /\ UNCHANGED <<cli, srv, admitted>>
      /\ UNCHANGED cdt_vars /\ UNCHANGED ag_vars
  BY DEF SwCrash, CloseAll
<1>1. /\ cli_up' \in [Conn -> BOOLEAN] /\ srv_up' \in [Conn -> BOOLEAN]
      /\ to_srv' \in [Conn -> Seq(Packet)] /\ to_cli' \in [Conn -> Seq(Packet)]
      /\ \A d \in Conn : /\ cli_up'[d] => cli_up[d]
                         /\ srv_up'[d] <=> srv_up[d] /\ srv[d] # s
                         /\ ~cli_up'[d] => to_cli'[d] = <<>>
                         /\ ~srv_up'[d] => to_srv'[d] = <<>>
                         /\ to_srv'[d] = to_srv[d] \/ to_srv'[d] = <<>>
                         /\ to_cli'[d] = to_cli[d] \/ to_cli'[d] = <<>>
  <2>1. NetTypeOK
    BY DEF IInv, TypeOK
  <2>2. /\ cli_up' \in [Conn -> BOOLEAN] /\ srv_up' \in [Conn -> BOOLEAN]
        /\ to_srv' \in [Conn -> Seq(Packet)] /\ to_cli' \in [Conn -> Seq(Packet)]
    BY <1>0, <2>1 DEF NetTypeOK
  <2>3. ASSUME NEW d \in Conn
        PROVE  /\ cli_up'[d] <=> cli_up[d] /\ cli[d] # s
               /\ srv_up'[d] <=> srv_up[d] /\ srv[d] # s
               /\ to_srv'[d] = IF srv[d] = s THEN <<>> ELSE to_srv[d]
               /\ to_cli'[d] = IF cli[d] = s THEN <<>> ELSE to_cli[d]
               /\ ~srv_up[d] => to_srv[d] = <<>>
               /\ ~cli_up[d] => to_cli[d] = <<>>
    BY <1>0 DEF IInv, ConnInv
  <2> QED BY <2>2, <2>3
<1>2. /\ sw_info' \in [Conn -> SwConnInfo \cup {None}]
      /\ \A d \in Conn : srv[d] = s => sw_info'[d] = None
      /\ \A d \in Conn : srv[d] # s => sw_info'[d] = sw_info[d]
  BY <1>0 DEF IInv, TypeOK, SwTypeOK
<1>3. /\ sw_pending' \in [Switches -> [Token -> PendingToken \cup {None}]]
      /\ \A t \in Token : sw_pending'[s][t] = None
      /\ \A r \in Switches : r # s => sw_pending'[r] = sw_pending[r]
  BY <1>0 DEF IInv, TypeOK, SwTypeOK, NoTokens
<1>4. /\ sw_agents' \in [Switches -> Seq(Conn)] /\ sw_agents'[s] = <<>>
      /\ \A r \in Switches : r # s => sw_agents'[r] = sw_agents[r]
  BY <1>0 DEF IInv, TypeOK, SwTypeOK
<1>5. /\ SwTypeOK' /\ sw_pc'[s] = "off" /\ sw_conn'[s] = None
      /\ \A r \in Switches : r # s => sw_pc'[r] = sw_pc[r] /\ sw_conn'[r] = sw_conn[r]
  BY <1>0, <1>2, <1>3, <1>4 DEF IInv, TypeOK, SwTypeOK
<1>6. GrantsKept /\ \A d \in Conn : Kept(d)
  BY <1>0, <1>1 DEF cdt_vars, GrantsKept, Granted, Kept
<1>7. SwProcInv'
  <2>1. SwOK(s)'
    BY <1>3, <1>5 DEF SwOK
  <2> QED BY <1>3, <1>5, <1>6, <2>1, OtherSwitches
<1>8. \A d \in Conn : Authenticated(d)' <=> Authenticated(d) /\ srv[d] # s
  BY <1>2 DEF Authenticated
<1>9. SwConnInv'
  <2>1. UNCHANGED issued
    BY DEF cdt_vars
  <2> SUFFICES ASSUME NEW d \in Conn
               PROVE  /\ sw_info'[d] # None => srv'[d] \in Switches /\ srv_up'[d]
                      /\ Authenticated(d)' => sw_info'[d].name = cli'[d]
                      /\ Authenticated(d)' <=> admitted'[d] # None /\ sw_info'[d] # None
                      /\ admitted'[d] # None =>
                            /\ srv'[d] \in Switches
                            /\ Granted(admitted[d], cli[d], srv[d])'
                            /\ srv_up'[d] => sw_info'[d] # None
    BY DEF SwConnInv
  <2>2. /\ sw_info[d] # None => srv[d] \in Switches /\ srv_up[d]
        /\ Authenticated(d) => sw_info[d].name = cli[d]
        /\ Authenticated(d) <=> admitted[d] # None /\ sw_info[d] # None
        /\ admitted[d] # None =>
              /\ srv[d] \in Switches /\ Granted(admitted[d], cli[d], srv[d])'
              /\ srv_up[d] => sw_info[d] # None
    BY <1>0, <2>1 DEF IInv, SwConnInv, Granted
  <2>3. CASE srv[d] = s
    BY <1>0, <1>1, <1>2, <1>8, <2>2, <2>3
  <2>4. CASE srv[d] # s
    BY <1>0, <1>1, <1>2, <1>8, <2>2, <2>4
  <2> QED BY <2>3, <2>4
<1>10. SwitchRosterExact'
  <2>1. ASSUME NEW r \in Switches, r # s
        PROVE  /\ NoDuplicates(sw_agents'[r])
               /\ \A d \in Conn : d \in Members(sw_agents'[r])
                                  <=> srv'[d] = r /\ srv_up'[d] /\ Authenticated(d)'
    <3>1. /\ NoDuplicates(sw_agents[r]) /\ sw_agents'[r] = sw_agents[r]
          /\ \A d \in Conn : d \in Members(sw_agents[r])
                             <=> srv[d] = r /\ srv_up[d] /\ Authenticated(d)
      BY <1>4, <2>1 DEF IInv, SwitchRosterExact
    <3> QED BY <1>0, <1>1, <1>8, <2>1, <3>1
  <2>2. NoDuplicates(sw_agents'[s]) /\ Members(sw_agents'[s]) = {}
    BY <1>4 DEF NoDuplicates, Members
  <2>3. \A d \in Conn : d \in Members(sw_agents'[s])
                          <=> srv'[d] = s /\ srv_up'[d] /\ Authenticated(d)'
    BY <1>0, <1>1, <2>2
  <2> QED BY <2>1, <2>2, <2>3 DEF SwitchRosterExact
<1>11. ToCliInv' /\ TokenInv'
  <2>1. PendingShrinks
    BY <1>3 DEF PendingShrinks, cdt_vars
  <2> QED BY <1>0, <1>1, <2>1, CloseShrinks DEF cdt_vars
<1>12. \A d \in Conn : srv[d] = CDT => srv_up'[d] = srv_up[d]
  BY <1>0, <1>1, ProcAssumption DEF IInv, TypeOK, NetTypeOK
<1>13. \A d \in Conn : (srv_up'[d] => srv_up[d]) /\ admitted'[d] = admitted[d]
  BY <1>0, <1>1
<1> QED
  BY <1>0, <1>1, <1>5, <1>7, <1>9, <1>10, <1>11, <1>12, <1>13, SwitchServes

\* The conductor announces a token.
LEMMA OnAgentConnectionTokenStep ==
    ASSUME IInv, NEW s \in Switches, onAgentConnectionToken(s),
           UNCHANGED <<cdt_vars, ag_vars, faults>>
    PROVE  IInv'
<1>a. PICK c \in Conn : c = sw_conn[s]
  BY DEF IInv, TypeOK, SwTypeOK, SwProcInv, SwOK, onAgentConnectionToken, HearsConductor,
         Running
<1> DEFINE m == Head(to_cli[c])
           p == [agent |-> m.agent, expired |-> FALSE]
<1>0. /\ to_cli' = ReadOne(to_cli, c)
      /\ to_cli[c] # <<>> /\ m.type = "AGENT_CONNECTION_TOKEN" /\ cli_up[c]
      /\ sw_pending' = [sw_pending EXCEPT ![s][m.token] = p]
      /\ UNCHANGED <<cli, srv, cli_up, srv_up, to_srv>>
      /\ UNCHANGED <<sw_pc, sw_conn, sw_conductor, sw_info, sw_agents, admitted>>
      /\ UNCHANGED cdt_vars /\ UNCHANGED ag_vars /\ faults' \in Nat
  BY <1>a DEF onAgentConnectionToken, HearsConductor, CliTakes, CliReads, IInv, TypeOK
<1>b. UNCHANGED <<issued, busy>>
  BY DEF cdt_vars
<1>c. to_cli \in [Conn -> Seq(Packet)]
  BY DEF IInv, TypeOK, NetTypeOK
<1>d. /\ to_cli' \in [Conn -> Seq(Packet)]
      /\ \A d \in Conn : d # c => to_cli'[d] = to_cli[d]
      /\ Len(to_cli[c]) \in Nat \ {0} /\ Len(to_cli'[c]) = Len(to_cli[c]) - 1
      /\ \A i \in 1 .. Len(to_cli[c]) - 1 : to_cli'[c][i] = to_cli[c][i + 1]
      /\ m = to_cli[c][1] /\ m \in Packet /\ 1 \in 1 .. Len(to_cli[c])
  BY <1>0, <1>c, ReadFacts
<1> HIDE DEF m
<1>e. m.agent \in Agents /\ m.token \in Token
  BY <1>0, <1>d, PacketFields
<1>f. PICK t \in Token : t = m.token
  BY <1>e
<1>g. Granted(t, m.agent, s) /\ Announces(c, 1, t)
  <2>1. cli[c] = s
    BY <1>a, ProcAssumption DEF IInv, SwProcInv, SwOK, Conn
  <2> QED BY <1>0, <1>d, <1>f, <2>1 DEF IInv, ToCliInv, Announces
<1>h. /\ \A d \in Conn : \A i \in 1 .. Len(to_cli[d]) : Announces(d, i, t) => d = c /\ i = 1
      /\ \A r \in Switches : sw_pending[r][t] = None
      /\ \A d \in Conn : admitted[d] # t
      /\ busy # None => busy.token # t /\ busy.token \in Token
  <2>1. 1 \in 1 .. Len(to_cli[c])
    BY <1>d
  <2>2. /\ \A d \in Conn : \A i \in 1 .. Len(to_cli[d]) : Announces(d, i, t) => c = d /\ 1 = i
        /\ \A r \in Switches : sw_pending[r][t] = None
        /\ \A d \in Conn : admitted[d] # t
    BY <1>g, <2>1 DEF IInv, TokenInv
  <2>3. busy # None => ~Announces(c, 1, busy.token)
    BY <2>1 DEF IInv, TokenInv
  <2>4. busy # None => busy.token \in Token
    BY DEF IInv, TypeOK, CdtTypeOK, Handling
  <2> QED BY <1>g, <2>2, <2>3, <2>4
<1>1. /\ sw_pending' \in [Switches -> [Token -> PendingToken \cup {None}]]
      /\ sw_pending'[s][t] = p
      /\ \A u \in Token : u # t => sw_pending'[s][u] = sw_pending[s][u]
      /\ \A r \in Switches : r # s => sw_pending'[r] = sw_pending[r]
  <2>1. p \in PendingToken
    BY <1>e DEF PendingToken
  <2> HIDE DEF p
  <2> QED BY <1>0, <1>f, <2>1 DEF IInv, TypeOK, SwTypeOK
<1>2. SwTypeOK'
  BY <1>0, <1>1 DEF IInv, TypeOK, SwTypeOK
<1>3. SwProcInv'
  <2>1. GrantsKept /\ \A d \in Conn : Kept(d)
    BY <1>0 DEF cdt_vars, GrantsKept, Granted, Kept
  <2>2. \A u \in Token : sw_pending'[s][u] # None => Granted(u, sw_pending[s][u].agent, s)'
    BY <1>b, <1>g, <1>1 DEF IInv, SwProcInv, SwOK, Granted
  <2>3. SwOK(s)'
    BY <1>0, <2>2 DEF IInv, SwProcInv, SwOK, cdt_vars
  <2> QED BY <1>0, <1>1, <2>1, <2>3, OtherSwitches
<1>4. SwConnInv' /\ SwitchRosterExact'
  BY <1>0, QuietServers
<1>5. ToCliInv'
  BY <1>0, <1>b, ReadShrinks
<1>6. TokenInv'
  <2> DEFINE k(d, i) == IF d = c THEN i + 1 ELSE i
  <2>1. ASSUME NEW d \in Conn, NEW i \in 1 .. Len(to_cli'[d]), NEW u, Announces(d, i, u)'
        PROVE  k(d, i) \in 1 .. Len(to_cli[d]) /\ Announces(d, k(d, i), u) /\ u # t
    <3>1. CASE d = c
      <4>1. i \in 1 .. Len(to_cli[c]) - 1 /\ i + 1 \in 1 .. Len(to_cli[c]) /\ i + 1 # 1
        BY <1>d, <3>1
      <4>2. to_cli'[c][i] = to_cli[c][i + 1]
        BY <1>d, <4>1
      <4>3. Announces(c, i + 1, u)
        BY <2>1, <3>1, <4>2 DEF Announces
      <4> QED BY <1>h, <3>1, <4>1, <4>3
    <3>2. CASE d # c
      <4>1. Announces(d, i, u) /\ i \in 1 .. Len(to_cli[d])
        BY <1>d, <2>1, <3>2 DEF Announces
      <4> QED BY <1>h, <3>2, <4>1
    <3> QED BY <3>1, <3>2
  <2>2. \A d \in Conn : \A i, j \in 1 .. Len(to_cli'[d]) : k(d, i) = k(d, j) => i = j
    OBVIOUS
  <2>3. \A r \in Switches, u \in Token :
            sw_pending'[r][u] = sw_pending[r][u] \/ (r = s /\ u = t)
    BY <1>1
  <2> HIDE DEF k
  <2>4. busy' # None =>
          /\ \A d \in Conn : \A i \in 1 .. Len(to_cli'[d]) : ~Announces(d, i, busy.token)'
          /\ \A r \in Switches : sw_pending'[r][busy'.token] = None
          /\ \A d \in Conn : admitted'[d] # busy'.token
    BY <1>0, <1>b, <1>h, <2>1, <2>3 DEF IInv, TokenInv
  <2>5. ASSUME NEW d \in Conn, NEW i \in 1 .. Len(to_cli'[d]), NEW u \in Token,
               Announces(d, i, u)'
        PROVE  /\ \A e \in Conn : \A j \in 1 .. Len(to_cli'[e]) :
                     Announces(e, j, u)' => d = e /\ i = j
               /\ \A r \in Switches : sw_pending'[r][u] = None
               /\ \A e \in Conn : admitted'[e] # u
    <3>1. k(d, i) \in 1 .. Len(to_cli[d]) /\ Announces(d, k(d, i), u) /\ u # t
      BY <2>1, <2>5
    <3>2. ASSUME NEW e \in Conn, NEW j \in 1 .. Len(to_cli'[e]), Announces(e, j, u)'
          PROVE  d = e /\ i = j
      <4>1. k(e, j) \in 1 .. Len(to_cli[e]) /\ Announces(e, k(e, j), u)
        BY <2>1, <3>2
      <4>2. d = e /\ k(d, i) = k(e, j)
        BY <3>1, <4>1 DEF IInv, TokenInv
      <4> QED BY <4>2, <2>2
    <3> QED BY <1>0, <2>3, <3>1, <3>2 DEF IInv, TokenInv
  <2>6. \A r \in Switches, u \in Token : sw_pending'[r][u] # None =>
            \A d \in Conn : admitted'[d] # u
    BY <1>0, <1>h, <2>3 DEF IInv, TokenInv
  <2>7. \A d, e \in Conn : admitted'[d] # None /\ admitted'[d] = admitted'[e] => d = e
    BY <1>0 DEF IInv, TokenInv
  <2> QED BY <2>4, <2>5, <2>6, <2>7 DEF TokenInv
<1>7. /\ cli_up' \in [Conn -> BOOLEAN] /\ srv_up' \in [Conn -> BOOLEAN]
      /\ to_srv' \in [Conn -> Seq(Packet)]
      /\ \A d \in Conn : ~cli_up'[d] => to_cli'[d] = <<>>
      /\ \A d \in Conn : ~srv_up'[d] => to_srv'[d] = <<>>
  BY <1>0, <1>d DEF IInv, TypeOK, NetTypeOK, ConnInv
<1> QED BY <1>0, <1>d, <1>2, <1>3, <1>4, <1>5, <1>6, <1>7, SwitchServes

-----------------------------------------------------------------------------
\* What a running switch does by itself.
LEMMA SwActsStep ==
    ASSUME IInv, NEW s \in Switches, SwActs(s)
    PROVE  IInv'
BY SwRegisterStep, SwListenStep, OnAgentConnectionTokenStep, SwOnConductorCloseStep,
   ExpireTokensStep, SwAcceptStep, AcceptStep, RejectStep, SwOnCloseStep
   DEF SwActs, SwStep
=============================================================================
