------------------------- MODULE MipConductorProofs -------------------------
(***************************************************************************)
(* Every action of the conductor preserves the inductive invariant of Mip. *)
(***************************************************************************)
EXTENDS MipLemmas

\* A ConnInfo is left alone, deleted, or new.
InfoKept(c) ==
    \/ cdt_info'[c] = cdt_info[c]
    \/ cdt_info'[c] = None
    \/ cdt_info'[c].role = "UNKNOWN"

\* What a step of the conductor leaves alone of the switches and of the agents.
LEMMA ConductorServes ==
    ASSUME IInv, UNCHANGED sw_vars, UNCHANGED ag_vars, faults' \in Nat,
           UNCHANGED <<cli, srv, cli_up>>, GrantsKept,
           srv_up' \in [Conn -> BOOLEAN],
           to_srv' \in [Conn -> Seq(Packet)], to_cli' \in [Conn -> Seq(Packet)],
           \A c \in Conn :
              /\ srv_up'[c] => srv_up[c]
              /\ srv[c] # CDT => srv_up'[c] = srv_up[c]
              /\ ~cli_up[c] => to_cli'[c] = <<>>
              /\ ~srv_up'[c] => to_srv'[c] = <<>>
              /\ to_srv'[c] = to_srv[c] \/ to_srv'[c] = <<>>
              /\ to_srv'[c] = to_srv[c] => InfoKept(c),
           CdtTypeOK', CdtInv', RosterValid', PendingHasSwitch', ToCliInv', TokenInv'
    PROVE  IInv'
<1>0. UNCHANGED <<sw_pc, sw_conn, sw_conductor, sw_info, sw_pending, sw_agents, admitted>>
  BY DEF sw_vars
<1>a. \A c \in Conn : Kept(c)
  BY <1>0 DEF Kept, InfoKept
<1>1. AgTypeOK' /\ AgInv'
  BY <1>a, AgsFrame
<1>2. SwTypeOK' /\ SwProcInv'
  BY <1>a, SwsFrame
<1>3. TypeOK'
  BY <1>1, <1>2 DEF IInv, TypeOK, NetTypeOK
<1>4. ConnInv'
  BY <1>0 DEF IInv, ConnInv
<1>5. ToSrvInv'
  <2>1. \A c \in Conn : to_srv'[c] = <<>> \/
              /\ to_srv'[c] = to_srv[c]
              /\ cli'[c] = cli[c] /\ srv'[c] = srv[c]
              /\ admitted'[c] = admitted[c]
              /\ cdt_info'[c] = cdt_info[c] \/ cdt_info'[c] = None
                 \/ cdt_info'[c].role = "UNKNOWN"
    BY <1>0 DEF InfoKept
  <2> QED BY <2>1, ToSrvShrinks
<1>6. \A c \in Conn : Authenticated(c)' <=> Authenticated(c)
  BY <1>0 DEF Authenticated
<1>7. SwConnInv'
  <2> SUFFICES ASSUME NEW c \in Conn
               PROVE  /\ sw_info'[c] # None => srv'[c] \in Switches /\ srv_up'[c]
                      /\ Authenticated(c)' => sw_info'[c].name = cli'[c]
                      /\ Authenticated(c)' <=> admitted'[c] # None /\ sw_info'[c] # None
                      /\ admitted'[c] # None =>
                            /\ srv'[c] \in Switches
                            /\ Granted(admitted[c], cli[c], srv[c])'
                            /\ srv_up'[c] => sw_info'[c] # None
    BY DEF SwConnInv
  <2>1. /\ sw_info[c] # None => srv[c] \in Switches /\ srv_up[c]
        /\ Authenticated(c) => sw_info[c].name = cli[c]
        /\ Authenticated(c) <=> admitted[c] # None /\ sw_info[c] # None
        /\ admitted[c] # None =>
              /\ srv[c] \in Switches /\ Granted(admitted[c], cli[c], srv[c])
              /\ srv_up[c] => sw_info[c] # None
    BY DEF IInv, SwConnInv
  <2>2. srv[c] \in Switches => srv[c] # CDT
    BY ProcAssumption
  <2>3. admitted[c] # None => Granted(admitted[c], cli[c], srv[c])'
    <3>1. admitted[c] # None => admitted[c] \in Token /\ cli[c] \in Agents
      BY <2>1, ProcAssumption DEF IInv, TypeOK, SwTypeOK, ConnInv
    <3> QED BY <1>0, <2>1, <3>1 DEF GrantsKept, Granted
  <2> QED BY <1>0, <1>6, <2>1, <2>2, <2>3
<1>8. SwitchRosterExact'
  <2>1. \A s \in Switches, d \in Conn : srv[d] = s => srv_up'[d] = srv_up[d]
    BY ProcAssumption
  <2> QED BY <1>0, <1>6, <2>1 DEF IInv, SwitchRosterExact
<1> QED BY <1>1, <1>2, <1>3, <1>4, <1>5, <1>7, <1>8 DEF IInv

\* A packet the conductor reads: it comes from a client that has no role yet.
LEMMA ConductorReads ==
    ASSUME IInv, NEW c \in Conn, NEW type, CdtReads(c, type)
    PROVE  /\ cdt_up /\ busy = None /\ srv[c] = CDT /\ srv_up[c]
           /\ cdt_info[c] # None /\ cdt_info[c].role = "UNKNOWN"
           /\ c \notin Members(switches) /\ c \notin Members(agents)
           /\ to_srv[c] # <<>> /\ Len(to_srv[c]) = 1
           /\ Head(to_srv[c]) \in Packet /\ Head(to_srv[c]).type = type
           /\ Head(to_srv[c]).name = cli[c]
<1>1. /\ cdt_up /\ busy = None /\ srv[c] = CDT /\ srv_up[c]
      /\ cdt_info[c] # None /\ to_srv[c] # <<>> /\ Head(to_srv[c]).type = type
  BY DEF CdtReads, Idle, SrvReads
<1>2. to_srv \in [Conn -> Seq(Packet)]
  BY DEF IInv, TypeOK, NetTypeOK
<1>3. Head(to_srv[c]) = to_srv[c][1] /\ Head(to_srv[c]) \in Packet
  BY <1>1, <1>2, ReadFacts
<1>4. /\ cdt_info[c].role = "UNKNOWN" /\ Len(to_srv[c]) = 1
      /\ Head(to_srv[c]).name = cli[c]
  BY <1>1, <1>3, ProcAssumption DEF IInv, ToSrvInv
<1>5. c \notin Members(switches) /\ c \notin Members(agents)
  BY <1>4 DEF IInv, RosterValid
<1> QED BY <1>1, <1>3, <1>4, <1>5

\* The channels to the servers after the conductor read a packet.
LEMMA ConductorTook ==
    ASSUME IInv, NEW c \in Conn, to_srv[c] # <<>>, Len(to_srv[c]) = 1,
           to_srv' = ReadOne(to_srv, c)
    PROVE  /\ to_srv' \in [Conn -> Seq(Packet)] /\ to_srv'[c] = <<>> /\ to_srv'[c] # to_srv[c]
           /\ \A d \in Conn : d # c => to_srv'[d] = to_srv[d]
<1>1. to_srv \in [Conn -> Seq(Packet)]
  BY DEF IInv, TypeOK, NetTypeOK
<1> QED BY <1>1, ReadFacts

\* The rest of the channels when the conductor writes nothing and closes nothing.
LEMMA ConductorQuiet ==
    ASSUME IInv, UNCHANGED <<cli, srv, cli_up, srv_up, to_cli>>
    PROVE  /\ srv_up' \in [Conn -> BOOLEAN] /\ to_cli' \in [Conn -> Seq(Packet)]
           /\ \A c \in Conn : ~cli_up[c] => to_cli'[c] = <<>>
           /\ \A c \in Conn : ~srv_up'[c] => to_srv[c] = <<>>
BY DEF IInv, TypeOK, NetTypeOK, ConnInv

\* The conductor starts.
LEMMA CdtStartStep ==
    ASSUME IInv, CdtStart, UNCHANGED <<sw_vars, ag_vars, faults>>
    PROVE  IInv'
<1>0. /\ ~cdt_up /\ cdt_up' = TRUE
      /\ UNCHANGED <<cdt_info, switches, agents, pending_tokens, rr_index, busy, issued>>
      /\ UNCHANGED <<cli, srv, cli_up, srv_up, to_srv, to_cli>>
      /\ UNCHANGED sw_vars /\ UNCHANGED ag_vars /\ faults' \in Nat
      /\ UNCHANGED <<admitted, sw_pending>>
  BY DEF CdtStart, net_vars, sw_vars, IInv, TypeOK
<1>1. CdtTypeOK'
  BY <1>0 DEF IInv, TypeOK, CdtTypeOK
<1>2. CdtInv'
  BY <1>0 DEF IInv, CdtInv, Granted
<1>3. RosterValid' /\ PendingHasSwitch'
  BY <1>0 DEF IInv, RosterValid, PendingHasSwitch
<1>4. ToCliInv' /\ TokenInv'
  BY <1>0, CloseShrinks
<1>5. GrantsKept /\ (\A c \in Conn : InfoKept(c)) /\ to_srv' \in [Conn -> Seq(Packet)]
  BY <1>0 DEF GrantsKept, Granted, InfoKept, IInv, TypeOK, NetTypeOK
<1> QED BY <1>0, <1>1, <1>2, <1>3, <1>4, <1>5, ConductorServes, ConductorQuiet

\* A connection is accepted.
LEMMA CdtAcceptStep ==
    ASSUME IInv, NEW c \in Conn, CdtAccept(c), UNCHANGED <<sw_vars, ag_vars, faults>>
    PROVE  IInv'
<1> DEFINE info == [role |-> "UNKNOWN", name |-> None, network |-> ""]
<1>0. /\ cdt_up /\ busy = None /\ srv[c] = CDT /\ srv_up[c] /\ cdt_info[c] = None
      /\ cdt_info' = [cdt_info EXCEPT ![c] = info]
      /\ UNCHANGED <<cdt_up, switches, agents, pending_tokens, rr_index, busy, issued>>
      /\ UNCHANGED <<cli, srv, cli_up, srv_up, to_srv, to_cli>>
      /\ UNCHANGED sw_vars /\ UNCHANGED ag_vars /\ faults' \in Nat
      /\ UNCHANGED <<admitted, sw_pending>>
  BY DEF CdtAccept, Idle, net_vars, sw_vars, IInv, TypeOK
<1>1. info \in CdtConnInfo /\ info # None /\ info.role = "UNKNOWN"
  <2>1. info \in CdtConnInfo
    BY DEF CdtConnInfo, Roles
  <2> QED BY <2>1, CdtNoneAssumption
<1> HIDE DEF info
<1>2. /\ CdtTypeOK' /\ cdt_info'[c] = info
      /\ \A d \in Conn : d # c => cdt_info'[d] = cdt_info[d]
  BY <1>0, <1>1 DEF IInv, TypeOK, CdtTypeOK
<1>3. CdtInv'
  BY <1>0, <1>1, <1>2 DEF IInv, CdtInv, Granted
<1>4. c \notin Members(switches) /\ c \notin Members(agents)
  BY <1>0 DEF IInv, RosterValid
<1>5. RosterValid'
  BY <1>0, <1>1, <1>2, <1>4 DEF IInv, RosterValid
<1>6. PendingHasSwitch'
  <2>1. \A d \in Members(switches) : d \in Conn
    BY DEF Members, IInv, TypeOK, CdtTypeOK
  <2> QED BY <1>0, <1>2, <1>4, <2>1 DEF IInv, PendingHasSwitch
<1>7. ToCliInv' /\ TokenInv'
  BY <1>0, CloseShrinks
<1>8. GrantsKept /\ (\A d \in Conn : InfoKept(d)) /\ to_srv' \in [Conn -> Seq(Packet)]
  BY <1>0, <1>1, <1>2 DEF GrantsKept, Granted, InfoKept, IInv, TypeOK, NetTypeOK
<1> QED BY <1>0, <1>2, <1>3, <1>5, <1>6, <1>7, <1>8, ConductorServes, ConductorQuiet

\* The conductor closes a connection and forgets its ConnInfo.
LEMMA ConductorCloses ==
    ASSUME IInv, NEW c \in Conn, srv[c] = CDT, CloseSrv(c), busy = None,
           UNCHANGED sw_vars, UNCHANGED ag_vars, faults' \in Nat,
           UNCHANGED <<cdt_up, rr_index, busy, issued>>,
           cdt_info' \in [Conn -> CdtConnInfo \cup {None}], cdt_info'[c] = None,
           \A d \in Conn : d # c => cdt_info'[d] = cdt_info[d],
           switches' \in Seq(Conn), NoDuplicates(switches'),
           Members(switches') = Members(switches) \ {c},
           agents' \in Seq(Conn), NoDuplicates(agents'),
           Members(agents') = Members(agents) \ {c},
           pending_tokens' \subseteq pending_tokens, PendingHasSwitch'
    PROVE  IInv'
<1>0. /\ srv_up' = [srv_up EXCEPT ![c] = FALSE]
      /\ to_srv' = [to_srv EXCEPT ![c] = <<>>]
      /\ UNCHANGED <<cli, srv, cli_up, to_cli>>
      /\ UNCHANGED <<admitted, sw_pending>>
  BY DEF CloseSrv, sw_vars
<1>1. /\ srv_up' \in [Conn -> BOOLEAN] /\ to_srv' \in [Conn -> Seq(Packet)]
      /\ to_cli' \in [Conn -> Seq(Packet)]
      /\ ~srv_up'[c] /\ to_srv'[c] = <<>>
      /\ \A d \in Conn : d # c => srv_up'[d] = srv_up[d] /\ to_srv'[d] = to_srv[d]
  BY <1>0 DEF IInv, TypeOK, NetTypeOK
<1>2. CdtTypeOK'
  BY DEF IInv, TypeOK, CdtTypeOK
<1>3. CdtInv'
  <2> SUFFICES ASSUME NEW d \in Conn, cdt_info'[d] # None
               PROVE  /\ cdt_up /\ srv[d] = CDT /\ srv_up'[d]
                      /\ cdt_info'[d].role = "SWITCH_CONN" =>
                            cdt_info'[d].name = cli[d] /\ cli[d] \in Switches
                      /\ cdt_info'[d].role = "AGENT_CONN" =>
                            cdt_info'[d].name = cli[d] /\ cli[d] \in Agents
    BY <1>0 DEF CdtInv
  <2>1. d # c /\ cdt_info'[d] = cdt_info[d] /\ srv_up'[d] = srv_up[d]
    BY <1>1
  <2> QED BY <2>1 DEF IInv, CdtInv
<1>4. RosterValid'
  <2>1. ASSUME NEW d \in Conn
        PROVE  /\ d \in Members(switches')
                     <=> cdt_info'[d] # None /\ cdt_info'[d].role = "SWITCH_CONN"
               /\ cdt_info'[d] # None => srv'[d] = CDT /\ srv_up'[d]
    <3>1. CASE d = c
      BY <3>1
    <3>2. CASE d # c
      <4>1. /\ d \in Members(switches)
                  <=> cdt_info[d] # None /\ cdt_info[d].role = "SWITCH_CONN"
            /\ cdt_info[d] # None => srv[d] = CDT /\ srv_up[d]
        BY DEF IInv, RosterValid
      <4>2. /\ d \in Members(switches') <=> d \in Members(switches)
            /\ cdt_info'[d] = cdt_info[d] /\ srv'[d] = srv[d] /\ srv_up'[d] = srv_up[d]
        BY <1>0, <1>1, <3>2
      <4> QED BY <4>1, <4>2
    <3> QED BY <3>1, <3>2
  <2>2. ASSUME NEW d \in Members(agents')
        PROVE  cdt_info'[d] # None /\ cdt_info'[d].role = "AGENT_CONN"
    <3>1. d \in Members(agents) /\ d # c
      OBVIOUS
    <3>2. d \in Conn
      BY <3>1 DEF Members, IInv, TypeOK, CdtTypeOK
    <3> QED BY <3>1, <3>2 DEF IInv, RosterValid
  <2> QED BY <2>1, <2>2 DEF RosterValid
<1>5. ToCliInv' /\ TokenInv'
  BY <1>0, CloseShrinks
<1>6. GrantsKept /\ (\A d \in Conn : InfoKept(d))
  BY DEF GrantsKept, Granted, InfoKept
<1>7. /\ \A d \in Conn : ~cli_up'[d] => to_cli'[d] = <<>>
      /\ \A d \in Conn : ~srv_up'[d] => to_srv'[d] = <<>>
      /\ \A d \in Conn : srv[d] # CDT => srv_up'[d] = srv_up[d]
      /\ \A d \in Conn : srv_up'[d] => srv_up[d]
  BY <1>0, <1>1 DEF IInv, ConnInv
<1> QED BY <1>0, <1>1, <1>2, <1>3, <1>4, <1>5, <1>6, <1>7, ConductorServes

\* put_sck fails.
LEMMA CdtAcceptFailsStep ==
    ASSUME IInv, NEW c \in Conn, CdtAcceptFails(c), UNCHANGED <<sw_vars, ag_vars>>, faults' \in Nat
    PROVE  IInv'
<1>0. /\ busy = None /\ srv[c] = CDT /\ cdt_info[c] = None /\ CloseSrv(c)
      /\ UNCHANGED <<cdt_up, cdt_info, switches, agents, pending_tokens, rr_index, busy, issued>>
      /\ UNCHANGED sw_vars /\ UNCHANGED ag_vars
  BY DEF CdtAcceptFails, Idle, cdt_vars
<1>1. /\ cdt_info \in [Conn -> CdtConnInfo \cup {None}]
      /\ switches \in Seq(Conn) /\ agents \in Seq(Conn)
      /\ NoDuplicates(switches) /\ NoDuplicates(agents)
      /\ c \notin Members(switches) /\ c \notin Members(agents)
  BY <1>0 DEF IInv, TypeOK, CdtTypeOK, RosterValid
<1>2. PendingHasSwitch'
  BY <1>0 DEF IInv, PendingHasSwitch
<1> QED BY <1>0, <1>1, <1>2, ConductorCloses

\* An agent is dropped because there is no switch.
LEMMA NoSwitchStep ==
    ASSUME IInv, NEW c \in Conn, onAgentMIP_NoSwitch(c), UNCHANGED <<sw_vars, ag_vars, faults>>
    PROVE  IInv'
<1>0. /\ CdtReads(c, "AGENT_MIP") /\ switches = <<>> /\ CloseSrv(c)
      /\ cdt_info' = [cdt_info EXCEPT ![c] = None]
      /\ UNCHANGED <<cdt_up, switches, agents, pending_tokens, rr_index, busy, issued>>
      /\ UNCHANGED sw_vars /\ UNCHANGED ag_vars /\ faults' \in Nat
  BY DEF onAgentMIP_NoSwitch, IInv, TypeOK
<1>1. /\ busy = None /\ srv[c] = CDT
      /\ c \notin Members(switches) /\ c \notin Members(agents)
  BY <1>0, ConductorReads
<1>2. /\ cdt_info' \in [Conn -> CdtConnInfo \cup {None}] /\ cdt_info'[c] = None
      /\ \A d \in Conn : d # c => cdt_info'[d] = cdt_info[d]
      /\ switches \in Seq(Conn) /\ agents \in Seq(Conn)
      /\ NoDuplicates(switches) /\ NoDuplicates(agents)
  BY <1>0 DEF IInv, TypeOK, CdtTypeOK, RosterValid
<1>3. PendingHasSwitch'
  <2>1. Members(switches) = {}
    BY <1>0 DEF Members
  <2> QED BY <1>0, <2>1 DEF IInv, PendingHasSwitch
<1> QED BY <1>0, <1>1, <1>2, <1>3, ConductorCloses

\* The peer of a connection is gone: its entry leaves the roster.
LEMMA CdtOnCloseStep ==
    ASSUME IInv, NEW c \in Conn, CdtOnClose(c), UNCHANGED <<sw_vars, ag_vars, faults>>
    PROVE  IInv'
<1>0. /\ busy = None /\ srv[c] = CDT /\ cdt_info[c] # None /\ CloseSrv(c)
      /\ cdt_info' = [cdt_info EXCEPT ![c] = None]
      /\ UNCHANGED <<cdt_up, rr_index, busy, issued>>
      /\ UNCHANGED sw_vars /\ UNCHANGED ag_vars /\ faults' \in Nat
  BY DEF CdtOnClose, Idle, IInv, TypeOK
<1>1. /\ cdt_info \in [Conn -> CdtConnInfo \cup {None}]
      /\ switches \in Seq(Conn) /\ agents \in Seq(Conn)
      /\ NoDuplicates(switches) /\ NoDuplicates(agents)
      /\ \A d \in Members(switches) : d \in Conn
  BY DEF IInv, TypeOK, CdtTypeOK, RosterValid, Members
<1>2. /\ cdt_info' \in [Conn -> CdtConnInfo \cup {None}] /\ cdt_info'[c] = None
      /\ \A d \in Conn : d # c => cdt_info'[d] = cdt_info[d]
  BY <1>0, <1>1
<1>3. /\ c \in Members(switches) <=> cdt_info[c].role = "SWITCH_CONN"
      /\ c \in Members(agents) => cdt_info[c].role = "AGENT_CONN"
  BY <1>0 DEF IInv, RosterValid
<1>4. CASE cdt_info[c].role = "SWITCH_CONN"
  <2>1. /\ switches' = Erase(switches, c)
        /\ pending_tokens' = {t \in pending_tokens : t.switch # cdt_info[c].name}
        /\ agents' = agents
    BY <1>4 DEF CdtOnClose, TokensWithout
  <2>2. /\ switches' \in Seq(Conn) /\ NoDuplicates(switches')
        /\ Members(switches') = Members(switches) \ {c}
    BY <1>1, <2>1, EraseRoster
  <2>3. Members(agents') = Members(agents) \ {c}
    BY <1>3, <1>4, <2>1
  <2>4. PendingHasSwitch'
    <3> SUFFICES ASSUME NEW p \in pending_tokens'
                 PROVE  \E d \in Members(switches') : cdt_info'[d].name = p.switch
      BY DEF PendingHasSwitch
    <3>1. p \in pending_tokens /\ p.switch # cdt_info[c].name
      BY <2>1
    <3>2. PICK d \in Members(switches) : cdt_info[d].name = p.switch
      BY <3>1 DEF IInv, PendingHasSwitch
    <3>3. d # c /\ d \in Conn
      BY <1>1, <3>1, <3>2
    <3> QED BY <1>2, <2>2, <3>2, <3>3
  <2>5. pending_tokens' \subseteq pending_tokens
    BY <2>1
  <2> QED BY <1>0, <1>1, <1>2, <2>1, <2>2, <2>3, <2>4, <2>5, ConductorCloses
<1>5. CASE cdt_info[c].role # "SWITCH_CONN"
  <2>1. UNCHANGED <<switches, pending_tokens>>
    BY <1>5 DEF CdtOnClose
  <2>2. /\ agents' \in Seq(Conn) /\ NoDuplicates(agents')
        /\ Members(agents') = Members(agents) \ {c}
    <3>1. CASE cdt_info[c].role = "AGENT_CONN"
      <4>1. agents' = Erase(agents, c)
        BY <3>1 DEF CdtOnClose
      <4> QED BY <1>1, <4>1, EraseRoster
    <3>2. CASE cdt_info[c].role # "AGENT_CONN"
      <4>1. agents' = agents
        BY <1>5, <3>2 DEF CdtOnClose
      <4> QED BY <1>1, <1>3, <3>2, <4>1
    <3> QED BY <3>1, <3>2
  <2>3. Members(switches') = Members(switches) \ {c}
    BY <1>3, <1>5, <2>1
  <2>4. PendingHasSwitch'
    BY <1>1, <1>2, <1>3, <1>5, <2>1 DEF IInv, PendingHasSwitch
  <2> QED BY <1>0, <1>1, <1>2, <2>1, <2>2, <2>3, <2>4, ConductorCloses
<1> QED BY <1>4, <1>5

\* A switch registers.
LEMMA OnSwitchMIPStep ==
    ASSUME IInv, NEW c \in Conn, onSwitchMIP(c), UNCHANGED <<sw_vars, ag_vars, faults>>
    PROVE  IInv'
<1> DEFINE m == Head(to_srv[c])
           info == [role |-> "SWITCH_CONN", name |-> m.name, network |-> m.network]
<1>0. /\ CdtReads(c, "SWITCH_MIP") /\ cdt_info' = [cdt_info EXCEPT ![c] = info]
      /\ switches' = Append(switches, c) /\ to_srv' = ReadOne(to_srv, c)
      /\ UNCHANGED <<cdt_up, agents, pending_tokens, rr_index, busy, issued>>
      /\ UNCHANGED <<cli, srv, cli_up, srv_up, to_cli>>
      /\ UNCHANGED sw_vars /\ UNCHANGED ag_vars /\ faults' \in Nat
      /\ UNCHANGED <<admitted, sw_pending>>
  BY DEF onSwitchMIP, SrvTakes, sw_vars, IInv, TypeOK
<1>1. /\ cdt_up /\ busy = None /\ srv[c] = CDT /\ srv_up[c] /\ cdt_info[c].role = "UNKNOWN"
      /\ c \notin Members(switches) /\ c \notin Members(agents)
      /\ to_srv[c] # <<>> /\ Len(to_srv[c]) = 1
      /\ m \in Packet /\ m.type = "SWITCH_MIP" /\ m.name = cli[c]
  BY <1>0, ConductorReads
<1> HIDE DEF m
<1>2. /\ info \in CdtConnInfo /\ info.role = "SWITCH_CONN"
      /\ info.name = cli[c] /\ cli[c] \in Switches
  BY <1>1, PacketFields DEF CdtConnInfo, Roles, Proc
<1> HIDE DEF info
<1>3. info # None
  BY <1>2, CdtNoneAssumption
<1>4. /\ switches' \in Seq(Conn) /\ NoDuplicates(switches')
      /\ Members(switches') = Members(switches) \cup {c}
  <2>1. switches \in Seq(Conn) /\ NoDuplicates(switches)
    BY DEF IInv, TypeOK, CdtTypeOK, RosterValid
  <2> QED BY <1>0, <1>1, <2>1, AppendRoster
<1>5. /\ CdtTypeOK' /\ cdt_info'[c] = info
      /\ \A d \in Conn : d # c => cdt_info'[d] = cdt_info[d]
  BY <1>0, <1>2, <1>4 DEF IInv, TypeOK, CdtTypeOK
<1>6. CdtInv'
  BY <1>0, <1>1, <1>2, <1>5 DEF IInv, CdtInv, Granted
<1>7. RosterValid'
  <2>1. ASSUME NEW d \in Conn
        PROVE  /\ d \in Members(switches')
                     <=> cdt_info'[d] # None /\ cdt_info'[d].role = "SWITCH_CONN"
               /\ cdt_info'[d] # None => srv'[d] = CDT /\ srv_up'[d]
    <3>1. CASE d = c
      BY <1>0, <1>1, <1>2, <1>3, <1>4, <1>5, <3>1
    <3>2. CASE d # c
      BY <1>0, <1>4, <1>5, <3>2 DEF IInv, RosterValid
    <3> QED BY <3>1, <3>2
  <2>2. ASSUME NEW d \in Members(agents)
        PROVE  cdt_info'[d] # None /\ cdt_info'[d].role = "AGENT_CONN"
    <3>1. d \in Conn /\ d # c
      BY <1>1 DEF Members, IInv, TypeOK, CdtTypeOK
    <3> QED BY <1>5, <3>1 DEF IInv, RosterValid
  <2>3. NoDuplicates(agents')
    BY <1>0 DEF IInv, RosterValid
  <2> QED BY <1>0, <1>1, <1>4, <2>1, <2>2, <2>3 DEF RosterValid
<1>8. PendingHasSwitch'
  <2>1. \A d \in Members(switches) : d \in Conn /\ d # c
    BY <1>1 DEF Members, IInv, TypeOK, CdtTypeOK
  <2> QED BY <1>0, <1>4, <1>5, <2>1 DEF IInv, PendingHasSwitch
<1>9. ToCliInv' /\ TokenInv'
  BY <1>0, CloseShrinks
<1>10. GrantsKept /\ (\A d \in Conn : d # c => InfoKept(d))
  BY <1>0, <1>5 DEF GrantsKept, Granted, InfoKept
<1>11. /\ to_srv' \in [Conn -> Seq(Packet)] /\ to_srv'[c] = <<>> /\ to_srv'[c] # to_srv[c]
       /\ \A d \in Conn : d # c => to_srv'[d] = to_srv[d]
  BY <1>0, <1>1, ConductorTook
<1>12. /\ srv_up' \in [Conn -> BOOLEAN] /\ to_cli' \in [Conn -> Seq(Packet)]
       /\ \A d \in Conn : ~cli_up[d] => to_cli'[d] = <<>>
       /\ \A d \in Conn : ~srv_up'[d] => to_srv[d] = <<>>
  BY <1>0, ConductorQuiet
<1> QED BY <1>0, <1>5, <1>6, <1>7, <1>8, <1>9, <1>10, <1>11, <1>12, ConductorServes

\* An agent that reconnects is put on the roster.
LEMMA OnAgentMRPStep ==
    ASSUME IInv, NEW c \in Conn, onAgentMRP(c), UNCHANGED <<sw_vars, ag_vars, faults>>
    PROVE  IInv'
<1> DEFINE m == Head(to_srv[c])
<1>0. /\ CdtReads(c, "AGENT_MRP")
      /\ cdt_info' = [cdt_info EXCEPT ![c].role = "AGENT_CONN", ![c].name = m.name]
      /\ agents' = Append(agents, c) /\ to_srv' = ReadOne(to_srv, c)
      /\ UNCHANGED <<cdt_up, switches, pending_tokens, rr_index, busy, issued>>
      /\ UNCHANGED <<cli, srv, cli_up, srv_up, to_cli>>
      /\ UNCHANGED sw_vars /\ UNCHANGED ag_vars /\ faults' \in Nat
      /\ UNCHANGED <<admitted, sw_pending>>
  BY DEF onAgentMRP, SrvTakes, sw_vars, IInv, TypeOK
<1>1. /\ cdt_up /\ busy = None /\ srv[c] = CDT /\ srv_up[c] /\ cdt_info[c].role = "UNKNOWN"
      /\ cdt_info[c] # None
      /\ c \notin Members(switches) /\ c \notin Members(agents)
      /\ to_srv[c] # <<>> /\ Len(to_srv[c]) = 1
      /\ m \in Packet /\ m.type = "AGENT_MRP" /\ m.name = cli[c]
  BY <1>0, ConductorReads
<1>2. m.name \in Agents
  BY <1>1, PacketFields
<1> HIDE DEF m
<1>a. cdt_info \in [Conn -> CdtConnInfo \cup {None}]
  BY DEF IInv, TypeOK, CdtTypeOK
<1>3. PICK info \in CdtConnInfo :
          /\ cdt_info'[c] = info /\ info.role = "AGENT_CONN" /\ info.name = cli[c]
          /\ cdt_info' \in [Conn -> CdtConnInfo \cup {None}]
          /\ \A d \in Conn : d # c => cdt_info'[d] = cdt_info[d]
  <2>1. PICK old \in CdtConnInfo : cdt_info[c] = old
    BY <1>1, <1>a
  <2> DEFINE info == [old EXCEPT !.role = "AGENT_CONN", !.name = m.name]
  <2>2. info \in CdtConnInfo /\ info.role = "AGENT_CONN" /\ info.name = m.name
    BY <1>2 DEF CdtConnInfo, Roles, Proc
  <2>4. cdt_info' = [cdt_info EXCEPT ![c] = info]
    BY <1>0, <1>a, <2>1
  <2> HIDE DEF info
  <2> QED BY <1>1, <1>a, <2>2, <2>4
<1>4. /\ agents' \in Seq(Conn) /\ NoDuplicates(agents')
      /\ Members(agents') = Members(agents) \cup {c}
  <2>1. agents \in Seq(Conn) /\ NoDuplicates(agents)
    BY DEF IInv, TypeOK, CdtTypeOK, RosterValid
  <2> QED BY <1>0, <1>1, <2>1, AppendRoster
<1>5. CdtTypeOK' /\ info # None
  BY <1>0, <1>3, <1>4, CdtNoneAssumption DEF IInv, TypeOK, CdtTypeOK
<1>6. CdtInv'
  BY <1>0, <1>1, <1>2, <1>3 DEF IInv, CdtInv, Granted
<1>7. RosterValid'
  <2>1. ASSUME NEW d \in Conn
        PROVE  /\ d \in Members(switches')
                     <=> cdt_info'[d] # None /\ cdt_info'[d].role = "SWITCH_CONN"
               /\ cdt_info'[d] # None => srv'[d] = CDT /\ srv_up'[d]
    <3>1. CASE d = c
      BY <1>0, <1>1, <1>3, <3>1
    <3>2. CASE d # c
      BY <1>0, <1>3, <3>2 DEF IInv, RosterValid
    <3> QED BY <3>1, <3>2
  <2>2. ASSUME NEW d \in Members(agents')
        PROVE  cdt_info'[d] # None /\ cdt_info'[d].role = "AGENT_CONN"
    <3>1. CASE d = c
      BY <1>3, <1>5, <3>1
    <3>2. CASE d # c
      <4>1. d \in Members(agents)
        BY <1>4, <3>2
      <4>2. d \in Conn
        BY <4>1 DEF Members, IInv, TypeOK, CdtTypeOK
      <4> QED BY <1>3, <3>2, <4>1, <4>2 DEF IInv, RosterValid
    <3> QED BY <3>1, <3>2
  <2>3. NoDuplicates(switches')
    BY <1>0 DEF IInv, RosterValid
  <2> QED BY <1>0, <1>1, <1>4, <2>1, <2>2, <2>3 DEF RosterValid
<1>8. PendingHasSwitch'
  <2>1. \A d \in Members(switches) : d \in Conn /\ d # c
    BY <1>1 DEF Members, IInv, TypeOK, CdtTypeOK
  <2> QED BY <1>0, <1>3, <2>1 DEF IInv, PendingHasSwitch
<1>9. ToCliInv' /\ TokenInv'
  BY <1>0, CloseShrinks
<1>10. GrantsKept /\ (\A d \in Conn : d # c => InfoKept(d))
  BY <1>0, <1>3 DEF GrantsKept, Granted, InfoKept
<1>11. /\ to_srv' \in [Conn -> Seq(Packet)] /\ to_srv'[c] = <<>> /\ to_srv'[c] # to_srv[c]
       /\ \A d \in Conn : d # c => to_srv'[d] = to_srv[d]
  BY <1>0, <1>1, ConductorTook
<1>12. /\ srv_up' \in [Conn -> BOOLEAN] /\ to_cli' \in [Conn -> Seq(Packet)]
       /\ \A d \in Conn : ~cli_up[d] => to_cli'[d] = <<>>
       /\ \A d \in Conn : ~srv_up'[d] => to_srv[d] = <<>>
  BY <1>0, ConductorQuiet
<1> QED BY <1>0, <1>5, <1>6, <1>7, <1>8, <1>9, <1>10, <1>11, <1>12, ConductorServes

\* The switch is gone: the handler gives up.
LEMMA NotifyFailsStep ==
    ASSUME IInv, onAgentMIP_NotifyFails, UNCHANGED <<sw_vars, ag_vars, faults>>
    PROVE  IInv'
<1>0. /\ busy' = None
      /\ UNCHANGED <<cdt_up, cdt_info, switches, agents, pending_tokens, rr_index, issued>>
      /\ UNCHANGED <<cli, srv, cli_up, srv_up, to_srv, to_cli>>
      /\ UNCHANGED sw_vars /\ UNCHANGED ag_vars /\ faults' \in Nat
      /\ UNCHANGED <<admitted, sw_pending>>
  BY DEF onAgentMIP_NotifyFails, net_vars, sw_vars, IInv, TypeOK
<1>1. CdtTypeOK'
  BY <1>0 DEF IInv, TypeOK, CdtTypeOK
<1>2. CdtInv'
  BY <1>0 DEF IInv, CdtInv
<1>3. RosterValid' /\ PendingHasSwitch'
  BY <1>0 DEF IInv, RosterValid, PendingHasSwitch
<1>4. ToCliInv'
  BY <1>0, CloseShrinks
<1>5. TokenInv'
  BY <1>0 DEF IInv, TokenInv, Announces
<1>6. GrantsKept /\ (\A c \in Conn : InfoKept(c)) /\ to_srv' \in [Conn -> Seq(Packet)]
  BY <1>0 DEF GrantsKept, Granted, InfoKept, IInv, TypeOK, NetTypeOK
<1> QED BY <1>0, <1>1, <1>2, <1>3, <1>4, <1>5, <1>6, ConductorServes, ConductorQuiet

\* A token that was never drawn is nowhere.
LEMMA FreshToken ==
    ASSUME IInv, NEW t \in Token, issued[t] = None
    PROVE  /\ \A c \in Conn : \A i \in 1 .. Len(to_cli[c]) : ~Announces(c, i, t)
           /\ \A s \in Switches : sw_pending[s][t] = None
           /\ \A c \in Conn : admitted[c] # t
<1>1. \A a \in Agents, s \in Switches : ~Granted(t, a, s)
  <2>1. \A a \in Agents, s \in Switches : [agent |-> a, switch |-> s] \in Grant
    BY DEF Grant
  <2> QED BY <2>1, CdtNoneAssumption DEF Granted
<1>2. ASSUME NEW c \in Conn, NEW i \in 1 .. Len(to_cli[c]), Announces(c, i, t) PROVE FALSE
  <2>1. to_cli[c][i] \in Packet /\ to_cli[c][i].type = "AGENT_CONNECTION_TOKEN"
        /\ to_cli[c][i].token = t
    BY <1>2 DEF IInv, TypeOK, NetTypeOK, Announces
  <2>2. to_cli[c][i].agent \in Agents
    BY <2>1, PacketFields
  <2>3. cli[c] \in Switches /\ Granted(t, to_cli[c][i].agent, cli[c])
    BY <2>1 DEF IInv, ToCliInv
  <2> QED BY <1>1, <2>2, <2>3
<1>3. ASSUME NEW s \in Switches, sw_pending[s][t] # None PROVE FALSE
  <2>1. Granted(t, sw_pending[s][t].agent, s) /\ sw_pending[s][t].agent \in Agents
    BY <1>3 DEF IInv, SwProcInv, SwOK, TypeOK, SwTypeOK, PendingToken
  <2> QED BY <1>1, <2>1
<1>4. ASSUME NEW c \in Conn, admitted[c] = t PROVE FALSE
  <2>1. t # None
    BY ProcAssumption DEF Token
  <2>2. srv[c] \in Switches /\ Granted(t, cli[c], srv[c])
    BY <1>4, <2>1 DEF IInv, SwConnInv
  <2>3. cli[c] \in Agents
    BY <2>2, ProcAssumption DEF IInv, ConnInv, Proc
  <2> QED BY <1>1, <2>2, <2>3
<1> QED BY <1>2, <1>3, <1>4

\* Drawing a token keeps the other grants.
LEMMA DrawKeeps ==
    ASSUME IInv, NEW t \in Token, issued[t] = None, NEW g \in Grant,
           issued' = [issued EXCEPT ![t] = g]
    PROVE  /\ issued' \in [Token -> Grant \cup {None}] /\ issued'[t] = g
           /\ GrantsKept
<1>1. issued \in [Token -> Grant \cup {None}]
  BY DEF IInv, TypeOK, CdtTypeOK
<1>2. \A a \in Agents, s \in Switches : ~Granted(t, a, s)
  <2>1. \A a \in Agents, s \in Switches : [agent |-> a, switch |-> s] \in Grant
    BY DEF Grant
  <2> QED BY <2>1, CdtNoneAssumption DEF Granted
<1>3. issued'[t] = g /\ \A u \in Token : u # t => issued'[u] = issued[u]
  BY <1>1
<1>4. GrantsKept
  BY <1>2, <1>3 DEF GrantsKept, Granted
<1> QED BY <1>1, <1>3, <1>4

\* Packets on their way to a client stay what they were.
LEMMA OldPackets ==
    ASSUME IInv, GrantsKept, UNCHANGED <<cli, srv, admitted>>,
           NEW c \in Conn, NEW i \in 1 .. Len(to_cli[c]), NEW m, m = to_cli[c][i]
    PROVE  \/ m.type = "CONNECT_TO_SWITCH"
              /\ srv'[c] = CDT /\ cli'[c] \in Agents
              /\ issued'[m.token] = [agent |-> cli'[c], switch |-> m.switch]
           \/ m.type = "AGENT_CONNECTION_TOKEN"
              /\ srv'[c] = CDT /\ cli'[c] \in Switches
              /\ issued'[m.token] = [agent |-> m.agent, switch |-> cli'[c]]
           \/ m.type = "CONNECTION_ACCEPTED"
              /\ srv'[c] \in Switches /\ admitted'[c] # None
<1>1. m \in Packet
  BY DEF IInv, TypeOK, NetTypeOK
<1>2. \/ m.type = "CONNECT_TO_SWITCH"
         /\ srv[c] = CDT /\ cli[c] \in Agents /\ Granted(m.token, cli[c], m.switch)
      \/ m.type = "AGENT_CONNECTION_TOKEN"
         /\ srv[c] = CDT /\ cli[c] \in Switches /\ Granted(m.token, m.agent, cli[c])
      \/ m.type = "CONNECTION_ACCEPTED"
         /\ srv[c] \in Switches /\ admitted[c] # None
  BY DEF IInv, ToCliInv
<1>3. CASE m.type = "CONNECT_TO_SWITCH"
  BY <1>1, <1>2, <1>3, PacketFields DEF GrantsKept, Granted
<1>4. CASE m.type = "AGENT_CONNECTION_TOKEN"
  BY <1>1, <1>2, <1>4, PacketFields DEF GrantsKept, Granted
<1>5. CASE m.type = "CONNECTION_ACCEPTED"
  BY <1>2, <1>5
<1> QED BY <1>2, <1>3, <1>4, <1>5

\* The roster after an agent's ConnInfo is filled in, before the agent is put on it.
LEMMA AgentKnown ==
    ASSUME IInv, NEW c \in Conn, cdt_up, busy = None, srv[c] = CDT, srv_up[c],
           c \notin Members(switches), c \notin Members(agents), cli[c] \in Agents,
           NEW info \in CdtConnInfo, info.role = "AGENT_CONN", info.name = cli[c],
           cdt_info' = [cdt_info EXCEPT ![c] = info],
           UNCHANGED <<cli, srv, srv_up, cdt_up, switches, agents, pending_tokens>>,
           \/ busy' = None
           \/ /\ busy'.agent = c /\ busy'.switch \in Members(switches)
              /\ issued'[busy'.token] = [agent |-> cli[c], switch |-> cli[busy'.switch]]
    PROVE  /\ cdt_info' \in [Conn -> CdtConnInfo \cup {None}]
           /\ CdtInv' /\ RosterValid' /\ PendingHasSwitch'
           /\ \A d \in Conn : d # c => InfoKept(d)
<1>1. info # None
  BY CdtNoneAssumption
<1>2. /\ cdt_info' \in [Conn -> CdtConnInfo \cup {None}] /\ cdt_info'[c] = info
      /\ \A d \in Conn : d # c => cdt_info'[d] = cdt_info[d]
  BY DEF IInv, TypeOK, CdtTypeOK
<1>3. \A d \in Members(switches) \cup Members(agents) : d \in Conn /\ d # c
  BY DEF Members, IInv, TypeOK, CdtTypeOK
<1>4. CdtInv'
  <2>1. ASSUME NEW d \in Conn, cdt_info'[d] # None
        PROVE  /\ cdt_up /\ srv[d] = CDT /\ srv_up[d]
               /\ cdt_info'[d].role = "SWITCH_CONN" =>
                     cdt_info'[d].name = cli[d] /\ cli[d] \in Switches
               /\ cdt_info'[d].role = "AGENT_CONN" =>
                     cdt_info'[d].name = cli[d] /\ cli[d] \in Agents
    BY <1>2, <2>1 DEF IInv, CdtInv
  <2>2. busy' # None => /\ cdt_info'[busy'.agent] # None
                        /\ cdt_info'[busy'.agent].role = "AGENT_CONN"
                        /\ Granted(busy.token, cli[busy.agent], cli[busy.switch])'
    BY <1>1, <1>2 DEF Granted
  <2> QED BY <2>1, <2>2 DEF CdtInv
<1>5. RosterValid'
  <2>1. ASSUME NEW d \in Conn
        PROVE  /\ d \in Members(switches)
                     <=> cdt_info'[d] # None /\ cdt_info'[d].role = "SWITCH_CONN"
               /\ cdt_info'[d] # None => srv[d] = CDT /\ srv_up[d]
    <3>1. CASE d = c
      BY <1>2, <3>1
    <3>2. CASE d # c
      BY <1>2, <3>2 DEF IInv, RosterValid
    <3> QED BY <3>1, <3>2
  <2>2. \A d \in Members(agents) : cdt_info'[d] # None /\ cdt_info'[d].role = "AGENT_CONN"
    BY <1>2, <1>3 DEF IInv, RosterValid
  <2>3. NoDuplicates(switches) /\ NoDuplicates(agents)
    BY DEF IInv, RosterValid
  <2>4. busy' # None => /\ busy'.switch \in Members(switches)
                        /\ busy'.agent \notin Members(agents)
                        /\ cdt_info'[busy'.agent] # None
    BY <1>1, <1>2
  <2> QED BY <2>1, <2>2, <2>3, <2>4 DEF RosterValid
<1>6. PendingHasSwitch'
  BY <1>2, <1>3 DEF IInv, PendingHasSwitch
<1> QED BY <1>2, <1>4, <1>5, <1>6 DEF InfoKept

\* The agent that registers, and the switch that is picked for it.
LEMMA AgentRegisters ==
    ASSUME IInv, NEW c \in Conn, CdtReads(c, "AGENT_MIP"), switches # <<>>
    PROVE  LET info == AgentInfo(c)
               sw   == pick_switch(info.network)
           IN  /\ cdt_up /\ busy = None /\ srv[c] = CDT /\ srv_up[c]
               /\ c \notin Members(switches) /\ c \notin Members(agents)
               /\ to_srv[c] # <<>> /\ Len(to_srv[c]) = 1
               /\ info \in CdtConnInfo /\ info.role = "AGENT_CONN"
               /\ info.name = cli[c] /\ cli[c] \in Agents
               /\ sw \in Members(switches) /\ sw \in Conn
               /\ cdt_info[sw].name = cli[sw] /\ cli[sw] \in Switches
               /\ NextRR(info.network) \in Nat
<1> DEFINE info == AgentInfo(c)
           sw   == pick_switch(info.network)
<1>1. /\ cdt_up /\ busy = None /\ srv[c] = CDT /\ srv_up[c]
      /\ c \notin Members(switches) /\ c \notin Members(agents)
      /\ to_srv[c] # <<>> /\ Len(to_srv[c]) = 1
      /\ Head(to_srv[c]) \in Packet /\ Head(to_srv[c]).type = "AGENT_MIP"
      /\ Head(to_srv[c]).name = cli[c]
  BY ConductorReads
<1>2. Head(to_srv[c]).name \in Agents /\ Head(to_srv[c]).network \in Networks
  BY <1>1, PacketFields
<1>3. /\ info \in CdtConnInfo /\ info.role = "AGENT_CONN"
      /\ info.name = cli[c] /\ cli[c] \in Agents
  BY <1>1, <1>2 DEF AgentInfo, CdtConnInfo, Roles, Proc
<1> HIDE DEF info
<1>4. sw \in Members(switches) /\ sw \in Conn /\ NextRR(info.network) \in Nat
  <2>1. switches \in Seq(Conn) /\ rr_index \in Nat
    BY DEF IInv, TypeOK, CdtTypeOK
  <2> QED BY <2>1, PickSwitch
<1> HIDE DEF sw
<1>5. cdt_info[sw] # None /\ cdt_info[sw].role = "SWITCH_CONN"
  BY <1>4 DEF IInv, RosterValid
<1>6. cdt_info[sw].name = cli[sw] /\ cli[sw] \in Switches
  BY <1>4, <1>5 DEF IInv, CdtInv
<1> QED BY <1>1, <1>3, <1>4, <1>6 DEF info, sw

\* The agent is told its switch and token.
LEMMA AssignStep ==
    ASSUME IInv, NEW c \in Conn, NEW t \in Token, onAgentMIP_Assign(c, t),
           UNCHANGED <<sw_vars, ag_vars, faults>>
    PROVE  IInv'
<1> DEFINE info == AgentInfo(c)
           sw   == pick_switch(info.network)
           m    == [type |-> "CONNECT_TO_SWITCH", switch |-> cdt_info[sw].name, token |-> t]
           g    == [agent |-> info.name, switch |-> cdt_info[sw].name]
           h    == [agent |-> c, switch |-> sw, token |-> t]
<1>0. /\ CdtReads(c, "AGENT_MIP") /\ switches # <<>> /\ issued[t] = None
      /\ cdt_info' = [cdt_info EXCEPT ![c] = info]
      /\ rr_index' = NextRR(info.network)
      /\ issued' = [issued EXCEPT ![t] = g] /\ busy' = h
      /\ to_srv' = ReadOne(to_srv, c) /\ to_cli' = Written(to_cli, c, cli_up[c], m)
      /\ UNCHANGED <<cdt_up, switches, agents, pending_tokens>>
      /\ UNCHANGED <<cli, srv, cli_up, srv_up>>
      /\ UNCHANGED sw_vars /\ UNCHANGED ag_vars /\ faults' \in Nat
      /\ UNCHANGED <<admitted, sw_pending>>
  BY DEF onAgentMIP_Assign, Fresh, SrvAnswers, sw_vars, IInv, TypeOK
<1>1. /\ cdt_up /\ busy = None /\ srv[c] = CDT /\ srv_up[c]
      /\ c \notin Members(switches) /\ c \notin Members(agents)
      /\ to_srv[c] # <<>> /\ Len(to_srv[c]) = 1
      /\ info \in CdtConnInfo /\ info.role = "AGENT_CONN"
      /\ info.name = cli[c] /\ cli[c] \in Agents
      /\ sw \in Members(switches) /\ sw \in Conn
      /\ cdt_info[sw].name = cli[sw] /\ cli[sw] \in Switches
      /\ NextRR(info.network) \in Nat
  BY <1>0, AgentRegisters
<1> HIDE DEF info, sw
<1>2. /\ m \in Packet /\ m.type = "CONNECT_TO_SWITCH"
      /\ m.switch = cli[sw] /\ m.token = t
      /\ g \in Grant /\ g = [agent |-> cli[c], switch |-> cli[sw]]
      /\ h \in Handling /\ h.agent = c /\ h.switch = sw /\ h.token = t
  BY <1>1, PacketsWritten DEF Grant, Handling
<1> HIDE DEF m, g, h
<1>3. issued' \in [Token -> Grant \cup {None}] /\ issued'[t] = g /\ GrantsKept
  BY <1>0, <1>2, DrawKeeps
<1>4. /\ cdt_info' \in [Conn -> CdtConnInfo \cup {None}]
      /\ CdtInv' /\ RosterValid' /\ PendingHasSwitch'
      /\ \A d \in Conn : d # c => InfoKept(d)
  <2>1. /\ busy'.agent = c /\ busy'.switch \in Members(switches)
        /\ issued'[busy'.token] = [agent |-> cli[c], switch |-> cli[busy'.switch]]
    BY <1>0, <1>1, <1>2, <1>3
  <2>2. UNCHANGED <<cli, srv, srv_up, cdt_up, switches, agents, pending_tokens>>
    BY <1>0
  <2> QED BY <1>0, <1>1, <2>1, <2>2, AgentKnown
<1>5. CdtTypeOK'
  BY <1>0, <1>1, <1>2, <1>3, <1>4 DEF IInv, TypeOK, CdtTypeOK
<1>6. /\ to_cli' \in [Conn -> Seq(Packet)]
      /\ \A d \in Conn : d # c => to_cli'[d] = to_cli[d]
      /\ ~cli_up[c] => to_cli' = to_cli
      /\ \A i \in 1 .. Len(to_cli'[c]) :
                \/ i \in 1 .. Len(to_cli[c]) /\ to_cli'[c][i] = to_cli[c][i]
                \/ to_cli'[c][i] = m
  BY <1>0, <1>2, ServerWrote
<1>7. ToCliInv'
  <2> SUFFICES ASSUME NEW d \in Conn, NEW i \in 1 .. Len(to_cli'[d]), NEW n,
                      n = to_cli'[d][i]
               PROVE  \/ n.type = "CONNECT_TO_SWITCH"
                         /\ srv'[d] = CDT /\ cli'[d] \in Agents
                         /\ issued'[n.token] = [agent |-> cli'[d], switch |-> n.switch]
                      \/ n.type = "AGENT_CONNECTION_TOKEN"
                         /\ srv'[d] = CDT /\ cli'[d] \in Switches
                         /\ issued'[n.token] = [agent |-> n.agent, switch |-> cli'[d]]
                      \/ n.type = "CONNECTION_ACCEPTED"
                         /\ srv'[d] \in Switches /\ admitted'[d] # None
    BY DEF ToCliInv, Granted
  <2>1. CASE i \in 1 .. Len(to_cli[d]) /\ n = to_cli[d][i]
    BY <1>0, <1>3, <2>1, OldPackets
  <2>2. CASE d = c /\ n = m
    BY <1>0, <1>1, <1>2, <1>3, <2>2
  <2> QED BY <1>6, <2>1, <2>2
<1>8. TokenInv'
  <2>1. ASSUME NEW d \in Conn, NEW i \in 1 .. Len(to_cli'[d]), NEW u, Announces(d, i, u)'
        PROVE  i \in 1 .. Len(to_cli[d]) /\ Announces(d, i, u)
    BY <1>2, <1>6, <2>1 DEF Announces
  <2>2. /\ \A d \in Conn : \A i \in 1 .. Len(to_cli[d]) : ~Announces(d, i, t)
        /\ \A s \in Switches : sw_pending[s][t] = None
        /\ \A d \in Conn : admitted[d] # t
    BY <1>0, FreshToken
  <2>3. busy'.token = t
    BY <1>0, <1>2
  <2> QED BY <1>0, <2>1, <2>2, <2>3 DEF IInv, TokenInv
<1>9. /\ to_srv' \in [Conn -> Seq(Packet)] /\ to_srv'[c] = <<>> /\ to_srv'[c] # to_srv[c]
      /\ \A d \in Conn : d # c => to_srv'[d] = to_srv[d]
  BY <1>0, <1>1, ConductorTook
<1>10. /\ srv_up' \in [Conn -> BOOLEAN]
       /\ \A d \in Conn : ~cli_up[d] => to_cli'[d] = <<>>
       /\ \A d \in Conn : ~srv_up'[d] => to_srv'[d] = <<>>
  BY <1>0, <1>6, <1>9 DEF IInv, TypeOK, NetTypeOK, ConnInv
<1> QED BY <1>0, <1>3, <1>4, <1>5, <1>6, <1>7, <1>8, <1>9, <1>10, ConductorServes

\* The agent is gone before it can be told.
LEMMA AssignFailsStep ==
    ASSUME IInv, NEW c \in Conn, NEW t \in Token, onAgentMIP_AssignFails(c, t),
           UNCHANGED <<sw_vars, ag_vars, faults>>
    PROVE  IInv'
<1> DEFINE info == AgentInfo(c)
           sw   == pick_switch(info.network)
           g    == [agent |-> info.name, switch |-> cdt_info[sw].name]
<1>0. /\ CdtReads(c, "AGENT_MIP") /\ switches # <<>> /\ issued[t] = None
      /\ cdt_info' = [cdt_info EXCEPT ![c] = info]
      /\ rr_index' = NextRR(info.network)
      /\ issued' = [issued EXCEPT ![t] = g] /\ busy' = busy
      /\ to_srv' = ReadOne(to_srv, c)
      /\ UNCHANGED <<cdt_up, switches, agents, pending_tokens>>
      /\ UNCHANGED <<cli, srv, cli_up, srv_up, to_cli>>
      /\ UNCHANGED sw_vars /\ UNCHANGED ag_vars /\ faults' \in Nat
      /\ UNCHANGED <<admitted, sw_pending>>
  BY DEF onAgentMIP_AssignFails, Fresh, SrvTakes, sw_vars, IInv, TypeOK
<1>1. /\ cdt_up /\ busy = None /\ srv[c] = CDT /\ srv_up[c]
      /\ c \notin Members(switches) /\ c \notin Members(agents)
      /\ to_srv[c] # <<>> /\ Len(to_srv[c]) = 1
      /\ info \in CdtConnInfo /\ info.role = "AGENT_CONN"
      /\ info.name = cli[c] /\ cli[c] \in Agents
      /\ cdt_info[sw].name = cli[sw] /\ cli[sw] \in Switches
      /\ NextRR(info.network) \in Nat
  BY <1>0, AgentRegisters
<1> HIDE DEF info, sw
<1>2. g \in Grant
  BY <1>1 DEF Grant
<1> HIDE DEF g
<1>3. issued' \in [Token -> Grant \cup {None}] /\ GrantsKept
  BY <1>0, <1>2, DrawKeeps
<1>4. /\ cdt_info' \in [Conn -> CdtConnInfo \cup {None}]
      /\ CdtInv' /\ RosterValid' /\ PendingHasSwitch'
      /\ \A d \in Conn : d # c => InfoKept(d)
  <2>1. UNCHANGED <<cli, srv, srv_up, cdt_up, switches, agents, pending_tokens>> /\ busy' = None
    BY <1>0, <1>1
  <2> QED BY <1>0, <1>1, <2>1, AgentKnown
<1>5. CdtTypeOK'
  BY <1>0, <1>1, <1>3, <1>4 DEF IInv, TypeOK, CdtTypeOK
<1>6. ToCliInv'
  <2> SUFFICES ASSUME NEW d \in Conn, NEW i \in 1 .. Len(to_cli[d]), NEW n,
                      n = to_cli[d][i]
               PROVE  \/ n.type = "CONNECT_TO_SWITCH"
                         /\ srv'[d] = CDT /\ cli'[d] \in Agents
                         /\ issued'[n.token] = [agent |-> cli'[d], switch |-> n.switch]
                      \/ n.type = "AGENT_CONNECTION_TOKEN"
                         /\ srv'[d] = CDT /\ cli'[d] \in Switches
                         /\ issued'[n.token] = [agent |-> n.agent, switch |-> cli'[d]]
                      \/ n.type = "CONNECTION_ACCEPTED"
                         /\ srv'[d] \in Switches /\ admitted'[d] # None
    BY <1>0 DEF ToCliInv, Granted
  <2> QED BY <1>0, <1>3, OldPackets
<1>7. TokenInv'
  BY <1>0, QuietTokens
<1>9. /\ to_srv' \in [Conn -> Seq(Packet)] /\ to_srv'[c] = <<>> /\ to_srv'[c] # to_srv[c]
      /\ \A d \in Conn : d # c => to_srv'[d] = to_srv[d]
  BY <1>0, <1>1, ConductorTook
<1>10. /\ srv_up' \in [Conn -> BOOLEAN] /\ to_cli' \in [Conn -> Seq(Packet)]
       /\ \A d \in Conn : ~cli_up[d] => to_cli'[d] = <<>>
       /\ \A d \in Conn : ~srv_up'[d] => to_srv[d] = <<>>
  BY <1>0, ConductorQuiet
<1> QED BY <1>0, <1>3, <1>4, <1>5, <1>6, <1>7, <1>9, <1>10, ConductorServes

\* The assignment that onAgentMIP is about to announce to the switch.
LEMMA InHand ==
    ASSUME IInv, busy # None
    PROVE  /\ busy \in Handling /\ busy.agent \in Conn /\ busy.switch \in Conn
           /\ busy.token \in Token
           /\ busy.switch \in Members(switches) /\ busy.agent \notin Members(agents)
           /\ cdt_info[busy.switch] # None /\ cdt_info[busy.switch].role = "SWITCH_CONN"
           /\ cdt_info[busy.switch].name = cli[busy.switch] /\ cli[busy.switch] \in Switches
           /\ srv[busy.switch] = CDT
           /\ cdt_info[busy.agent] # None /\ cdt_info[busy.agent].role = "AGENT_CONN"
           /\ cdt_info[busy.agent].name = cli[busy.agent] /\ cli[busy.agent] \in Agents
           /\ Granted(busy.token, cli[busy.agent], cli[busy.switch])
<1>1. /\ busy \in Handling /\ busy.agent \in Conn /\ busy.switch \in Conn
      /\ busy.token \in Token
  BY DEF IInv, TypeOK, CdtTypeOK, Handling
<1>2. /\ busy.switch \in Members(switches) /\ busy.agent \notin Members(agents)
      /\ cdt_info[busy.switch] # None /\ cdt_info[busy.switch].role = "SWITCH_CONN"
  BY <1>1 DEF IInv, RosterValid
<1>3. /\ cdt_info[busy.agent] # None /\ cdt_info[busy.agent].role = "AGENT_CONN"
      /\ Granted(busy.token, cli[busy.agent], cli[busy.switch])
  BY DEF IInv, CdtInv
<1>4. /\ cdt_info[busy.switch].name = cli[busy.switch] /\ cli[busy.switch] \in Switches
      /\ srv[busy.switch] = CDT
      /\ cdt_info[busy.agent].name = cli[busy.agent] /\ cli[busy.agent] \in Agents
  BY <1>1, <1>2, <1>3 DEF IInv, CdtInv
<1> QED BY <1>1, <1>2, <1>3, <1>4

\* The switch is told which agent to expect.
LEMMA NotifyStep ==
    ASSUME IInv, onAgentMIP_Notify, UNCHANGED <<sw_vars, ag_vars, faults>>
    PROVE  IInv'
<1> DEFINE t    == busy.token
           sw   == busy.switch
           ag   == busy.agent
           name == cdt_info[ag].name
           m    == [type |-> "AGENT_CONNECTION_TOKEN", agent |-> name, token |-> t]
           p    == [agent |-> name, switch |-> cdt_info[sw].name, token |-> t]
<1>0. /\ busy # None /\ busy' = None
      /\ pending_tokens' = pending_tokens \cup {p}
      /\ agents' = Append(agents, ag)
      /\ to_cli' = Written(to_cli, sw, cli_up[sw], m)
      /\ UNCHANGED <<cdt_up, cdt_info, switches, rr_index, issued>>
      /\ UNCHANGED <<cli, srv, cli_up, srv_up, to_srv>>
      /\ UNCHANGED sw_vars /\ UNCHANGED ag_vars /\ faults' \in Nat
      /\ UNCHANGED <<admitted, sw_pending>>
  BY DEF onAgentMIP_Notify, SrvWrites, sw_vars, IInv, TypeOK
<1>1. /\ ag \in Conn /\ sw \in Conn /\ t \in Token
      /\ sw \in Members(switches) /\ ag \notin Members(agents)
      /\ cdt_info[sw].name = cli[sw] /\ cli[sw] \in Switches /\ srv[sw] = CDT
      /\ cdt_info[ag] # None /\ cdt_info[ag].role = "AGENT_CONN"
      /\ name = cli[ag] /\ cli[ag] \in Agents
      /\ issued[t] = [agent |-> cli[ag], switch |-> cli[sw]]
  BY <1>0, InHand DEF Granted
<1>2. /\ \A c \in Conn : \A i \in 1 .. Len(to_cli[c]) : ~Announces(c, i, t)
      /\ \A s \in Switches : sw_pending[s][t] = None
      /\ \A c \in Conn : admitted[c] # t
  BY <1>0 DEF IInv, TokenInv
<1> HIDE DEF t, sw, ag, name
<1>3. /\ m \in Packet /\ m.type = "AGENT_CONNECTION_TOKEN" /\ m.token = t /\ m.agent = cli[ag]
      /\ p \in PendingTokenInfo /\ p.switch = cdt_info[sw].name
  BY <1>1, PacketsWritten DEF PendingTokenInfo
<1> HIDE DEF m, p
<1>4. /\ agents' \in Seq(Conn) /\ NoDuplicates(agents')
      /\ Members(agents') = Members(agents) \cup {ag}
  <2>1. agents \in Seq(Conn) /\ NoDuplicates(agents)
    BY DEF IInv, TypeOK, CdtTypeOK, RosterValid
  <2> QED BY <1>0, <1>1, <2>1, AppendRoster
<1>5. CdtTypeOK'
  BY <1>0, <1>3, <1>4 DEF IInv, TypeOK, CdtTypeOK
<1>6. CdtInv'
  BY <1>0 DEF IInv, CdtInv
<1>7. RosterValid'
  BY <1>0, <1>1, <1>4 DEF IInv, RosterValid
<1>8. PendingHasSwitch'
  BY <1>0, <1>1, <1>3 DEF IInv, PendingHasSwitch
<1>9. /\ to_cli' \in [Conn -> Seq(Packet)]
      /\ \A d \in Conn : d # sw => to_cli'[d] = to_cli[d]
      /\ ~cli_up[sw] => to_cli' = to_cli
      /\ \A i \in 1 .. Len(to_cli'[sw]) :
            \/ i \in 1 .. Len(to_cli[sw]) /\ to_cli'[sw][i] = to_cli[sw][i]
            \/ i = Len(to_cli[sw]) + 1 /\ to_cli'[sw][i] = m
  BY <1>0, <1>1, <1>3, ServerWrote
<1>10. GrantsKept
  BY <1>0 DEF GrantsKept, Granted
<1>11. ToCliInv'
  <2> SUFFICES ASSUME NEW d \in Conn, NEW i \in 1 .. Len(to_cli'[d]), NEW n,
                      n = to_cli'[d][i]
               PROVE  \/ n.type = "CONNECT_TO_SWITCH"
                         /\ srv'[d] = CDT /\ cli'[d] \in Agents
                         /\ issued'[n.token] = [agent |-> cli'[d], switch |-> n.switch]
                      \/ n.type = "AGENT_CONNECTION_TOKEN"
                         /\ srv'[d] = CDT /\ cli'[d] \in Switches
                         /\ issued'[n.token] = [agent |-> n.agent, switch |-> cli'[d]]
                      \/ n.type = "CONNECTION_ACCEPTED"
                         /\ srv'[d] \in Switches /\ admitted'[d] # None
    BY DEF ToCliInv, Granted
  <2>1. CASE i \in 1 .. Len(to_cli[d]) /\ n = to_cli[d][i]
    BY <1>0, <1>10, <2>1, OldPackets
  <2>2. CASE d = sw /\ n = m
    BY <1>0, <1>1, <1>3, <2>2
  <2> QED BY <1>9, <2>1, <2>2
<1>12. TokenInv'
  <2>1. ASSUME NEW d \in Conn, NEW i \in 1 .. Len(to_cli'[d]), NEW u, Announces(d, i, u)'
        PROVE  \/ i \in 1 .. Len(to_cli[d]) /\ Announces(d, i, u)
               \/ d = sw /\ i = Len(to_cli[sw]) + 1 /\ u = t
    BY <1>3, <1>9, <2>1 DEF Announces
  <2>2. ASSUME NEW c \in Conn, NEW i \in 1 .. Len(to_cli'[c]), NEW u \in Token,
               Announces(c, i, u)'
        PROVE  /\ \A d \in Conn : \A j \in 1 .. Len(to_cli'[d]) :
                     Announces(d, j, u)' => c = d /\ i = j
               /\ \A s \in Switches : sw_pending[s][u] = None
               /\ \A d \in Conn : admitted[d] # u
    <3>1. CASE u = t
      BY <1>2, <2>1, <2>2, <3>1
    <3>2. CASE u # t
      <4>1. i \in 1 .. Len(to_cli[c]) /\ Announces(c, i, u)
        BY <2>1, <2>2, <3>2
      <4>2. \A d \in Conn : \A j \in 1 .. Len(to_cli'[d]) :
                Announces(d, j, u)' => j \in 1 .. Len(to_cli[d]) /\ Announces(d, j, u)
        BY <2>1, <3>2
      <4> QED BY <4>1, <4>2 DEF IInv, TokenInv
    <3> QED BY <3>1, <3>2
  <2>3. /\ \A s \in Switches, u \in Token : sw_pending[s][u] # None =>
              \A c \in Conn : admitted[c] # u
        /\ \A c, d \in Conn : admitted[c] # None /\ admitted[c] = admitted[d] => c = d
    BY DEF IInv, TokenInv
  <2> QED BY <1>0, <2>2, <2>3 DEF TokenInv
<1>13. /\ srv_up' \in [Conn -> BOOLEAN] /\ to_srv' \in [Conn -> Seq(Packet)]
       /\ \A d \in Conn : ~cli_up[d] => to_cli'[d] = <<>>
       /\ \A d \in Conn : ~srv_up'[d] => to_srv'[d] = <<>>
       /\ \A d \in Conn : InfoKept(d)
  BY <1>0, <1>9 DEF IInv, TypeOK, NetTypeOK, ConnInv, InfoKept
<1> QED BY <1>0, <1>5, <1>6, <1>7, <1>8, <1>9, <1>10, <1>11, <1>12, <1>13, ConductorServes

\* The conductor is stopped, at any point of a handler.
LEMMA CdtCrashStep ==
    ASSUME IInv, CdtCrash, UNCHANGED <<sw_vars, ag_vars>>, faults' \in Nat
    PROVE  IInv'
<1>0. /\ cdt_up' = FALSE /\ cdt_info' = [c \in Conn |-> None]
      /\ switches' = <<>> /\ agents' = <<>> /\ pending_tokens' = {}
      /\ rr_index' = 0 /\ busy' = None
      /\ cli_up' = [c \in Conn |-> cli_up[c] /\ cli[c] # CDT]
      /\ srv_up' = [c \in Conn |-> srv_up[c] /\ srv[c] # CDT]
      /\ to_srv' = [c \in Conn |-> IF srv[c] = CDT THEN <<>> ELSE to_srv[c]]
      /\ to_cli' = [c \in Conn |-> IF cli[c] = CDT THEN <<>> ELSE to_cli[c]]
      /\ UNCHANGED <<cli, srv, issued>>
      /\ UNCHANGED sw_vars /\ UNCHANGED ag_vars
      /\ UNCHANGED <<admitted, sw_pending>>
  BY DEF CdtCrash, CloseAll, sw_vars
<1>1. NetTypeOK
  BY DEF IInv, TypeOK
<1>2. cli_up' = cli_up /\ to_cli' = to_cli
  <2>1. \A c \in Conn : cli[c] # CDT
    BY ProcAssumption DEF IInv, ConnInv, Proc
  <2> QED BY <1>0, <1>1, <2>1 DEF NetTypeOK
<1>3. /\ srv_up' \in [Conn -> BOOLEAN] /\ to_srv' \in [Conn -> Seq(Packet)]
      /\ to_cli' \in [Conn -> Seq(Packet)]
  BY <1>0, <1>1, <1>2 DEF NetTypeOK
<1>4. ASSUME NEW c \in Conn
      PROVE  /\ srv_up'[c] => srv_up[c]
             /\ srv[c] # CDT => srv_up'[c] = srv_up[c]
             /\ ~cli_up[c] => to_cli'[c] = <<>>
             /\ ~srv_up'[c] => to_srv'[c] = <<>>
             /\ to_srv'[c] = to_srv[c] \/ to_srv'[c] = <<>>
             /\ InfoKept(c)
  <2>1. /\ srv_up'[c] = (srv_up[c] /\ srv[c] # CDT) /\ cdt_info'[c] = None
        /\ to_srv'[c] = IF srv[c] = CDT THEN <<>> ELSE to_srv[c]
        /\ srv_up[c] \in BOOLEAN
    BY <1>0, <1>1 DEF NetTypeOK
  <2>2. /\ ~cli_up[c] => to_cli[c] = <<>>
        /\ ~srv_up[c] => to_srv[c] = <<>>
    BY DEF IInv, ConnInv
  <2> QED BY <1>2, <2>1, <2>2 DEF InfoKept
<1>5. CdtTypeOK'
  <2>1. cdt_info' \in [Conn -> CdtConnInfo \cup {None}]
    BY <1>0
  <2>2. issued' \in [Token -> Grant \cup {None}]
    BY <1>0 DEF IInv, TypeOK, CdtTypeOK
  <2>3. <<>> \in Seq(Conn)
    OBVIOUS
  <2> QED BY <1>0, <2>1, <2>2, <2>3 DEF CdtTypeOK
<1>6. CdtInv'
  BY <1>0 DEF CdtInv
<1>7. RosterValid' /\ PendingHasSwitch'
  BY <1>0 DEF RosterValid, PendingHasSwitch, Members, NoDuplicates
<1>8. ToCliInv'
  BY <1>0, <1>2 DEF IInv, ToCliInv, Granted
<1>9. TokenInv'
  BY <1>0, <1>2 DEF IInv, TokenInv, Announces
<1>10. GrantsKept
  BY <1>0 DEF GrantsKept, Granted
<1> QED BY <1>0, <1>2, <1>3, <1>4, <1>5, <1>6, <1>7, <1>8, <1>9, <1>10, ConductorServes

\* Everything the conductor does by itself.
LEMMA CdtActsStep ==
    ASSUME IInv, CdtActs
    PROVE  IInv'
<1>0. UNCHANGED <<sw_vars, ag_vars, faults>>
  BY DEF CdtActs
<1>1. CASE onAgentMIP_Notify
  BY <1>0, <1>1, NotifyStep
<1>2. CASE onAgentMIP_NotifyFails
  BY <1>0, <1>2, NotifyFailsStep
<1>3. ASSUME NEW c \in Conn,
             \/ CdtAccept(c) \/ onSwitchMIP(c) \/ onAgentMIP_NoSwitch(c)
             \/ onAgentMRP(c) \/ CdtOnClose(c)
      PROVE  IInv'
  BY <1>0, <1>3, CdtAcceptStep, OnSwitchMIPStep, NoSwitchStep, OnAgentMRPStep, CdtOnCloseStep
<1>4. ASSUME NEW c \in Conn, NEW t \in Token,
             onAgentMIP_Assign(c, t) \/ onAgentMIP_AssignFails(c, t)
      PROVE  IInv'
  BY <1>0, <1>4, AssignStep, AssignFailsStep
<1> QED BY <1>1, <1>2, <1>3, <1>4 DEF CdtActs, CdtStep
=============================================================================
