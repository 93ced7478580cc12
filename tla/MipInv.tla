------------------------------- MODULE MipInv -------------------------------
(***************************************************************************)
(* The inductive invariant of Mip, in parts: what has to be known of every *)
(* connection, packet and local variable for the safety properties of Mip  *)
(* to follow.                                                              *)
(***************************************************************************)
EXTENDS Mip

\* A connection that was never opened is nowhere; the ends have their kinds.
ConnInv ==
    \A c \in Conn :
        /\ cli[c] = None =>
              /\ srv[c] = None /\ ~cli_up[c] /\ ~srv_up[c]
              /\ to_srv[c] = <<>> /\ to_cli[c] = <<>>
              /\ admitted[c] = None
        /\ cli[c] # None =>
              \/ cli[c] \in Switches \cup Agents /\ srv[c] = CDT
              \/ cli[c] \in Agents /\ srv[c] \in Switches
        /\ ~srv_up[c] => to_srv[c] = <<>>
        /\ ~cli_up[c] => to_cli[c] = <<>>

Granted(t, a, s) == issued[t] = [agent |-> a, switch |-> s]

\* A client writes one packet, about itself or with the token it was granted.
ToSrvInv ==
    \A c \in Conn : to_srv[c] # <<>> =>
        /\ Len(to_srv[c]) = 1
        /\ cdt_info[c] # None => cdt_info[c].role = "UNKNOWN"
        /\ admitted[c] = None
        /\ LET m == to_srv[c][1] IN
             \/ m.type \in {"SWITCH_MIP", "AGENT_MIP", "AGENT_MRP"}
                /\ m.name = cli[c] /\ srv[c] = CDT
             \/ m.type = "AUTH_CONNECT_TO_SWITCH"
                /\ Granted(m.token, cli[c], srv[c]) /\ srv[c] \in Switches

\* Everything a server writes is about a token that was granted to the client.
ToCliInv ==
    \A c \in Conn : \A i \in 1 .. Len(to_cli[c]) :
        LET m == to_cli[c][i] IN
          \/ m.type = "CONNECT_TO_SWITCH"
             /\ srv[c] = CDT /\ cli[c] \in Agents /\ Granted(m.token, cli[c], m.switch)
          \/ m.type = "AGENT_CONNECTION_TOKEN"
             /\ srv[c] = CDT /\ cli[c] \in Switches /\ Granted(m.token, m.agent, cli[c])
          \/ m.type = "CONNECTION_ACCEPTED"
             /\ srv[c] \in Switches /\ admitted[c] # None

\* The conductor's view of its connections is that of the clients.
CdtInv ==
    /\ \A c \in Conn : cdt_info[c] # None =>
          /\ cdt_up /\ srv[c] = CDT /\ srv_up[c]
          /\ cdt_info[c].role = "SWITCH_CONN" =>
                cdt_info[c].name = cli[c] /\ cli[c] \in Switches
          /\ cdt_info[c].role = "AGENT_CONN" =>
                cdt_info[c].name = cli[c] /\ cli[c] \in Agents
    /\ busy # None =>
          /\ cdt_info[busy.agent] # None
          /\ cdt_info[busy.agent].role = "AGENT_CONN"
          /\ Granted(busy.token, cli[busy.agent], cli[busy.switch])

\* A switch's own view of its control connection and of the tokens announced to it.
SwOK(s) ==
    /\ sw_pc[s] = "off" <=> sw_conn[s] = None
    /\ sw_conn[s] # None => cli[sw_conn[s]] = s /\ srv[sw_conn[s]] = CDT
    /\ sw_pc[s] = "connected" =>
          /\ to_srv[sw_conn[s]] = <<>>
          /\ cdt_info[sw_conn[s]] # None => cdt_info[sw_conn[s]].role = "UNKNOWN"
    /\ \A t \in Token : sw_pending[s][t] # None =>
          Granted(t, sw_pending[s][t].agent, s)
SwProcInv == \A s \in Switches : SwOK(s)

\* The switches' view of the agents' connections.
SwConnInv ==
    \A c \in Conn :
        /\ sw_info[c] # None => srv[c] \in Switches /\ srv_up[c]
        /\ Authenticated(c) => sw_info[c].name = cli[c]
        /\ Authenticated(c) <=> admitted[c] # None /\ sw_info[c] # None
        /\ admitted[c] # None =>
              /\ srv[c] \in Switches /\ Granted(admitted[c], cli[c], srv[c])
              /\ srv_up[c] => sw_info[c] # None

\* An agent's own view: of the conductor ...
AgCdtOK(a) ==
    /\ ag_cdt[a] # None => cli[ag_cdt[a]] = a /\ srv[ag_cdt[a]] = CDT
    /\ ag_pc[a] \notin {"off", "running"} => ag_cdt[a] # None
    /\ ag_pc[a] = "connected" =>
          /\ to_srv[ag_cdt[a]] = <<>>
          /\ cdt_info[ag_cdt[a]] # None => cdt_info[ag_cdt[a]].role = "UNKNOWN"

\* ... of its assignment ...
AgAssignOK(a) ==
    ag_pc[a] \in {"assigned", "dialled", "wait_accepted", "running"} =>
        /\ ag_assign[a] # None
        /\ Granted(ag_assign[a].token, a, ag_assign[a].switch)

\* ... and of its switch.
AgSwOK(a) ==
    /\ ag_pc[a] \in {"dialled", "wait_accepted"} => ag_sw[a] # None
    /\ ag_sw[a] # None =>
          /\ ag_pc[a] \in {"dialled", "wait_accepted", "running"}
          /\ cli[ag_sw[a]] = a /\ srv[ag_sw[a]] = ag_assign[a].switch
          /\ ag_pc[a] = "dialled" =>
                to_srv[ag_sw[a]] = <<>> /\ admitted[ag_sw[a]] = None
          /\ to_srv[ag_sw[a]] # <<>> =>
                to_srv[ag_sw[a]][1].token = ag_assign[a].token
          /\ admitted[ag_sw[a]] # None => admitted[ag_sw[a]] = ag_assign[a].token
    /\ ag_pc[a] = "running" /\ ag_sw[a] # None => admitted[ag_sw[a]] # None

AgInv == \A a \in Agents : AgCdtOK(a) /\ AgAssignOK(a) /\ AgSwOK(a)

\* A token is at most in one place on its way from the conductor to an agent's ConnInfo.
Announces(c, i, t) ==
    to_cli[c][i].type = "AGENT_CONNECTION_TOKEN" /\ to_cli[c][i].token = t
TokenInv ==
    /\ busy # None =>
          /\ \A c \in Conn : \A i \in 1 .. Len(to_cli[c]) : ~Announces(c, i, busy.token)
          /\ \A s \in Switches : sw_pending[s][busy.token] = None
          /\ \A c \in Conn : admitted[c] # busy.token
    /\ \A c \in Conn : \A i \in 1 .. Len(to_cli[c]) : \A t \in Token :
          Announces(c, i, t) =>
            /\ \A d \in Conn : \A j \in 1 .. Len(to_cli[d]) :
                  Announces(d, j, t) => c = d /\ i = j
            /\ \A s \in Switches : sw_pending[s][t] = None
            /\ \A d \in Conn : admitted[d] # t
    /\ \A s \in Switches, t \in Token : sw_pending[s][t] # None =>
          \A c \in Conn : admitted[c] # t
    /\ \A c, d \in Conn : admitted[c] # None /\ admitted[c] = admitted[d] => c = d

IInv ==
    /\ TypeOK
    /\ ConnInv
    /\ ToSrvInv
    /\ ToCliInv
    /\ CdtInv
    /\ RosterValid
    /\ PendingHasSwitch
    /\ SwProcInv
    /\ SwConnInv
    /\ SwitchRosterExact
    /\ AgInv
    /\ TokenInv
=============================================================================
