----------------------------- MODULE MipProofs -----------------------------
(***************************************************************************)
(* The safety properties of Mip, for any number of agents, switches,       *)
(* connections, tokens and faults.  IInv (MipInv) holds initially, every   *)
(* action preserves it (the lemmas of MipPeerProofs and                    *)
(* MipConductorProofs), and it implies the properties.  From it follows as *)
(* well that Mip implements Admission.                                     *)
(***************************************************************************)
EXTENDS MipPeerProofs, MipConductorProofs

LEMMA InitInv == Init => IInv
<1> SUFFICES ASSUME Init PROVE IInv
  OBVIOUS
<1>0. NetInit /\ CdtInit /\ SwInit /\ AgInit /\ faults = 0
  BY DEF Init
<1>1. /\ \A c \in Conn : /\ cli[c] = None /\ srv[c] = None /\ ~cli_up[c] /\ ~srv_up[c]
                         /\ to_srv[c] = <<>> /\ to_cli[c] = <<>>
                         /\ cdt_info[c] = None /\ sw_info[c] = None /\ admitted[c] = None
      /\ \A s \in Switches : /\ sw_pc[s] = "off" /\ sw_conn[s] = None
                             /\ sw_agents[s] = <<>>
      /\ \A s \in Switches, t \in Token : sw_pending[s][t] = None
      /\ \A a \in Agents : ag_pc[a] = "off" /\ ag_cdt[a] = None /\ ag_sw[a] = None
      /\ switches = <<>> /\ agents = <<>> /\ pending_tokens = {} /\ busy = None
  BY <1>0 DEF NetInit, CdtInit, SwInit, AgInit, NoTokens
<1>2. TypeOK
  <2>1. NetTypeOK
    BY <1>0 DEF NetInit, NetTypeOK
  <2>2. CdtTypeOK
    <3>1. /\ cdt_info \in [Conn -> CdtConnInfo \cup {None}]
          /\ issued \in [Token -> Grant \cup {None}]
      BY <1>0 DEF CdtInit
    <3>2. <<>> \in Seq(Conn)
      OBVIOUS
    <3> QED BY <1>0, <3>1, <3>2 DEF CdtInit, CdtTypeOK
  <2>3. SwTypeOK
    BY <1>0 DEF SwInit, SwTypeOK, NoTokens
  <2>4. AgTypeOK
    BY <1>0 DEF AgInit, AgTypeOK, AgPC
  <2> QED BY <1>0, <2>1, <2>2, <2>3, <2>4 DEF TypeOK
<1>3. Members(<<>>) = {} /\ NoDuplicates(<<>>)
  BY DEF Members, NoDuplicates
<1>4. ConnInv /\ ToSrvInv
  BY <1>1 DEF ConnInv, ToSrvInv
<1>5. ToCliInv
  BY <1>1 DEF ToCliInv
<1>6. CdtInv /\ RosterValid /\ PendingHasSwitch
  BY <1>1, <1>3 DEF CdtInv, RosterValid, PendingHasSwitch
<1>7. SwProcInv /\ SwConnInv /\ SwitchRosterExact
  BY <1>1, <1>3 DEF SwProcInv, SwOK, SwConnInv, SwitchRosterExact, Authenticated
<1>8. AgInv
  BY <1>1 DEF AgInv, AgCdtOK, AgAssignOK, AgSwOK
<1>9. TokenInv
  BY <1>1 DEF TokenInv, Announces
<1> QED BY <1>2, <1>4, <1>5, <1>6, <1>7, <1>8, <1>9 DEF IInv

\* A process is started, or an agent reconnects.
LEMMA StartsStep ==
    ASSUME IInv, Starts
    PROVE  IInv'
<1>0. UNCHANGED faults
  BY DEF Starts
<1>1. CASE CdtStart /\ UNCHANGED <<sw_vars, ag_vars>>
  BY <1>0, <1>1, CdtStartStep
<1>2. ASSUME NEW s \in Switches, NEW c \in Conn, SwConnect(s, c, cdt_up),
             UNCHANGED <<cdt_vars, ag_vars>>
      PROVE  IInv'
  BY <1>0, <1>2, SwConnectStep
<1>3. ASSUME NEW a \in Agents, NEW c \in Conn, AgConnect(a, c, cdt_up),
             UNCHANGED <<cdt_vars, sw_vars>>
      PROVE  IInv'
  BY <1>0, <1>3, AgConnectStep
<1>4. ASSUME NEW a \in Agents, NEW c \in Conn, AgReconnect(a, c, cdt_up),
             UNCHANGED <<cdt_vars, sw_vars>>
      PROVE  IInv'
  BY <1>0, <1>4, AgReconnectStep
<1>5. ASSUME NEW a \in Agents, AgRetry(a), UNCHANGED <<cdt_vars, sw_vars>>
      PROVE  IInv'
  BY <1>0, <1>5, AgRetryStep
<1> QED BY <1>1, <1>2, <1>3, <1>4, <1>5 DEF Starts

\* A process is stopped, or put_sck fails.
LEMMA FaultsStep ==
    ASSUME IInv, Faults
    PROVE  IInv'
<1>0. faults' \in Nat
  BY DEF Faults, IInv, TypeOK
<1>1. CASE CdtCrash /\ UNCHANGED <<sw_vars, ag_vars>>
  BY <1>0, <1>1, CdtCrashStep
<1>2. ASSUME NEW c \in Conn, CdtAcceptFails(c), UNCHANGED <<sw_vars, ag_vars>>
      PROVE  IInv'
  BY <1>0, <1>2, CdtAcceptFailsStep
<1>3. ASSUME NEW s \in Switches, SwCrash(s), UNCHANGED <<cdt_vars, ag_vars>>
      PROVE  IInv'
  BY <1>0, <1>3, SwCrashStep
<1>4. ASSUME NEW s \in Switches, NEW c \in Conn, SwAcceptFails(s, c),
             UNCHANGED <<cdt_vars, ag_vars>>
      PROVE  IInv'
  BY <1>0, <1>4, SwAcceptFailsStep
<1>5. ASSUME NEW a \in Agents, AgCrash(a), UNCHANGED <<cdt_vars, sw_vars>>
      PROVE  IInv'
  BY <1>0, <1>5, AgGoneStep DEF AgCrash
<1> QED BY <1>1, <1>2, <1>3, <1>4, <1>5 DEF Faults

LEMMA NextInv == IInv /\ [Next]_vars => IInv'
<1> SUFFICES ASSUME IInv, [Next]_vars PROVE IInv'
  OBVIOUS
<1>1. CASE CdtActs
  BY <1>1, CdtActsStep
<1>2. ASSUME NEW s \in Switches, SwActs(s) PROVE IInv'
  BY <1>2, SwActsStep
<1>3. ASSUME NEW a \in Agents, AgActs(a) PROVE IInv'
  BY <1>3, AgActsStep
<1>4. CASE Starts
  BY <1>4, StartsStep
<1>5. CASE Ages
  <2>1. PICK s \in Switches, t \in Token : SwTokenAges(s, t)
    BY <1>5 DEF Ages
  <2>2. UNCHANGED <<cdt_vars, ag_vars, faults>>
    BY <1>5 DEF Ages
  <2> QED BY <2>1, <2>2, SwTokenAgesStep
<1>6. CASE Faults
  BY <1>6, FaultsStep
<1>7. CASE UNCHANGED vars
  <2>1. /\ UNCHANGED <<cli, srv, cli_up, srv_up, to_srv, to_cli>>
        /\ UNCHANGED <<cdt_up, cdt_info, switches, agents, pending_tokens, rr_index, busy, issued>>
        /\ UNCHANGED <<sw_pc, sw_conn, sw_conductor, sw_info, sw_pending, sw_agents, admitted>>
        /\ UNCHANGED <<ag_pc, ag_cdt, ag_sw, ag_assign>>
        /\ UNCHANGED faults
    BY <1>7 DEF vars, net_vars, cdt_vars, sw_vars, ag_vars
  <2>2. TypeOK'
    BY <2>1 DEF IInv, TypeOK, NetTypeOK, CdtTypeOK, SwTypeOK, AgTypeOK
  <2>3. ConnInv' /\ ToSrvInv' /\ ToCliInv'
    BY <2>1 DEF IInv, ConnInv, ToSrvInv, ToCliInv, Granted
  <2>4. CdtInv' /\ RosterValid' /\ PendingHasSwitch'
    BY <2>1 DEF IInv, CdtInv, RosterValid, PendingHasSwitch, Granted
  <2>5. SwProcInv' /\ SwConnInv' /\ SwitchRosterExact'
    BY <2>1 DEF IInv, SwProcInv, SwOK, SwConnInv, SwitchRosterExact, Authenticated, Granted
  <2>6. AgInv' /\ TokenInv'
    BY <2>1 DEF IInv, AgInv, AgCdtOK, AgAssignOK, AgSwOK, TokenInv, Announces, Granted
  <2> QED BY <2>2, <2>3, <2>4, <2>5, <2>6 DEF IInv
<1> QED BY <1>1, <1>2, <1>3, <1>4, <1>5, <1>6, <1>7 DEF Next

-----------------------------------------------------------------------------
\* The inductive invariant of the handshake: conductor, switches and agents agree on
\* every connection, packet and token.
THEOREM Inductive == Spec => []IInv
BY InitInv, NextInv, PTL DEF Spec

\* Every variable keeps its type.
THEOREM TypeCorrect == Spec => []TypeOK
<1>1. IInv => TypeOK
  BY DEF IInv
<1> QED BY <1>1, Inductive, PTL

\* The name a switch lists an authenticated connection under (onAuthConnectToSwitch) is
\* the name of the agent that opened it.
THEOREM AuthenticIdentityHolds == Spec => []AuthenticIdentity
<1>1. IInv => AuthenticIdentity
  BY DEF IInv, SwConnInv, AuthenticIdentity
<1> QED BY <1>1, Inductive, PTL

\* A connection token admits at most one connection, of the agent and at the switch it
\* was drawn for, however often that agent presents it.
THEOREM OneTimeTokenHolds == Spec => []OneTimeToken
<1>1. IInv => OneTimeToken
  BY DEF IInv, SwConnInv, TokenInv, OneTimeToken, Granted
<1> QED BY <1>1, Inductive, PTL

\* The conductor's rosters hold exactly the ConnInfos they should: no dangling pointer.
THEOREM RosterValidHolds == Spec => []RosterValid
<1>1. IInv => RosterValid
  BY DEF IInv
<1> QED BY <1>1, Inductive, PTL

\* A switch's roster is exactly its open authenticated connections.
THEOREM SwitchRosterExactHolds == Spec => []SwitchRosterExact
<1>1. IInv => SwitchRosterExact
  BY DEF IInv
<1> QED BY <1>1, Inductive, PTL

\* An agent in its event loop holds the connection its assigned switch admitted it on.
THEOREM AgentViewHolds == Spec => []AgentView
<1>1. IInv => AgentView
  <2> SUFFICES ASSUME IInv, NEW a \in Agents, ag_pc[a] = "running", ag_sw[a] # None
               PROVE  /\ cli[ag_sw[a]] = a /\ srv[ag_sw[a]] = ag_assign[a].switch
                      /\ admitted[ag_sw[a]] = ag_assign[a].token
                      /\ srv_up[ag_sw[a]] => Authenticated(ag_sw[a])
    BY DEF AgentView
  <2>1. ag_sw[a] \in Conn
    BY DEF IInv, TypeOK, AgTypeOK
  <2>2. /\ cli[ag_sw[a]] = a /\ srv[ag_sw[a]] = ag_assign[a].switch
        /\ admitted[ag_sw[a]] # None /\ admitted[ag_sw[a]] = ag_assign[a].token
    BY DEF IInv, AgInv, AgSwOK
  <2> QED BY <2>1, <2>2 DEF IInv, SwConnInv
<1> QED BY <1>1, Inductive, PTL

\* No pending token of the conductor refers to a switch that left its roster.
THEOREM PendingHasSwitchHolds == Spec => []PendingHasSwitch
<1>1. IInv => PendingHasSwitch
  BY DEF IInv
<1> QED BY <1>1, Inductive, PTL

-----------------------------------------------------------------------------
(***************************************************************************)
(* Mip implements Admission.  The mapping keeps the grants (issued) and    *)
(* shows a connection as a session once a token admitted it: live as long  *)
(* as the switch keeps its ConnInfo.                                       *)
(***************************************************************************)
\* The session on a connection, as the mapping sees it.
Session(c) ==
    IF admitted[c] = None THEN None
    ELSE [agent |-> cli[c], switch |-> srv[c], token |-> admitted[c],
          state |-> IF sw_info[c] # None THEN "live" ELSE "ended"]

\* Where nothing of an admitted connection changes, the sessions stay.
LEMMA SessionsStay ==
    ASSUME UNCHANGED admitted,
           \A c \in Conn : admitted[c] # None =>
              /\ cli'[c] = cli[c] /\ srv'[c] = srv[c]
              /\ sw_info'[c] = None <=> sw_info[c] = None
    PROVE  Sessions' = Sessions
<1>1. \A c \in Conn : Session(c)' = Session(c)
  BY DEF Session
<1> QED BY <1>1 DEF Sessions, Session

\* A connection that was admitted was opened, and is not identified anew.
LEMMA AdmittedIsUsed ==
    ASSUME IInv, NEW c \in Conn, admitted[c] # None
    PROVE  cli[c] # None /\ srv[c] \in Switches
BY DEF IInv, ConnInv, SwConnInv

\* Opening a connection leaves the others alone.
LEMMA OpeningStays ==
    ASSUME IInv, NEW c \in Conn, NEW p, NEW q, cli[c] = None,
           cli' = [cli EXCEPT ![c] = p], srv' = [srv EXCEPT ![c] = q],
           UNCHANGED sw_info, UNCHANGED admitted
    PROVE  Sessions' = Sessions
<1>1. cli \in [Conn -> Proc \cup {None}] /\ srv \in [Conn -> Proc \cup {None}]
  BY DEF IInv, TypeOK, NetTypeOK
<1>2. \A d \in Conn : admitted[d] # None => d # c
  BY AdmittedIsUsed
<1> QED BY <1>1, <1>2, SessionsStay

\* An agent opens connections or leaves them alone; it admits nobody.
LEMMA AgentStays ==
    ASSUME IInv, NEW a \in Agents, UNCHANGED <<cdt_vars, sw_vars>>,
           \/ AgActs(a)
           \/ AgGone(a)
           \/ AgRetry(a)
           \/ \E c \in Conn : AgConnect(a, c, cdt_up) \/ AgReconnect(a, c, cdt_up)
    PROVE  UNCHANGED <<issued, Sessions>>
<1>1. UNCHANGED issued /\ UNCHANGED sw_info /\ UNCHANGED admitted
  BY DEF cdt_vars, sw_vars
<1>2. CASE UNCHANGED <<cli, srv>>
  BY <1>1, <1>2, SessionsStay
<1>3. ASSUME NEW c \in Conn, NEW l,
             AgConnect(a, c, l) \/ AgReconnect(a, c, l) \/ AgDial(a, c, l)
      PROVE  Sessions' = Sessions
  <2>1. \E q : /\ cli[c] = None
               /\ cli' = [cli EXCEPT ![c] = a] /\ srv' = [srv EXCEPT ![c] = q]
    BY <1>3 DEF AgConnect, AgReconnect, AgDial, Connect, Unused
  <2> QED BY <1>1, <2>1, OpeningStays
<1>4. \/ UNCHANGED <<cli, srv>>
      \/ \E c \in Conn : \/ AgConnect(a, c, cdt_up) \/ AgReconnect(a, c, cdt_up)
                         \/ AgDial(a, c, SwitchListens(a))
  BY DEF AgActs, AgRegister, AgAssigned, AgAuthenticate, AgAccepted, AgFails, AgGone,
         AgOnConductorClose, AgOnSwitchClose, AgRetry, CliWrites, CliTakes, CloseCli,
         CloseAll
<1> QED BY <1>1, <1>2, <1>3, <1>4

\* A step of the conductor draws a token or leaves grants and sessions alone.
LEMMA ConductorIssues ==
    ASSUME IInv, CdtStep \/ CdtStart \/ CdtCrash \/ (\E c \in Conn : CdtAcceptFails(c)),
           UNCHANGED <<sw_vars, ag_vars>>
    PROVE  [A!Next]_<<issued, Sessions>>
<1>0. Sessions' = Sessions
  <2>1. UNCHANGED <<cli, srv>>
    BY DEF CdtStep, CdtStart, CdtCrash, CdtAcceptFails, onAgentMIP_Notify,
           onAgentMIP_NotifyFails, CdtAccept, onSwitchMIP, onAgentMIP_NoSwitch,
           onAgentMIP_Assign, onAgentMIP_AssignFails, onAgentMRP, CdtOnClose,
           CloseAll, CloseSrv, SrvTakes, SrvAnswers, SrvWrites, net_vars
  <2> QED BY <2>1, SessionsStay DEF sw_vars
<1>1. ASSUME NEW c \in Conn, NEW t \in Token, CdtReads(c, "AGENT_MIP"), switches # <<>>,
             Fresh(t), issued' = [issued EXCEPT ![t] =
                [agent |-> AgentInfo(c).name,
                 switch |-> cdt_info[pick_switch(AgentInfo(c).network)].name]]
      PROVE  A!Next
  <2>1. [agent |-> AgentInfo(c).name,
         switch |-> cdt_info[pick_switch(AgentInfo(c).network)].name] \in A!Grants
    BY <1>1, AgentRegisters DEF A!Grants
  <2>2. A!Issue(t)
    BY <1>0, <1>1, <2>1 DEF A!Issue, Fresh
  <2> QED BY <2>2 DEF A!Next
<1>2. CASE \E c \in Conn, t \in Token : onAgentMIP_Assign(c, t) \/ onAgentMIP_AssignFails(c, t)
  BY <1>1, <1>2 DEF onAgentMIP_Assign, onAgentMIP_AssignFails
<1>3. CASE ~\E c \in Conn, t \in Token : onAgentMIP_Assign(c, t) \/ onAgentMIP_AssignFails(c, t)
  <2>1. UNCHANGED issued
    BY <1>3 DEF CdtStep, CdtStart, CdtCrash, CdtAcceptFails, onAgentMIP_Notify,
           onAgentMIP_NotifyFails, CdtAccept, onSwitchMIP, onAgentMIP_NoSwitch,
           onAgentMRP, CdtOnClose, cdt_vars
  <2> QED BY <1>0, <2>1
<1> QED BY <1>2, <1>3

\* A switch admits a connection: a session begins.
LEMMA AcceptBegins ==
    ASSUME IInv, NEW s \in Switches, NEW c \in Conn, onAuthConnectToSwitch_Accept(s, c),
           UNCHANGED <<cdt_vars, ag_vars>>
    PROVE  A!Next
<1> DEFINE t == Head(to_srv[c]).token
<1>0. /\ srv[c] = s /\ srv_up[c] /\ sw_info[c] # None /\ to_srv[c] # <<>>
      /\ Head(to_srv[c]).type = "AUTH_CONNECT_TO_SWITCH"
      /\ sw_pending[s][t] # None
      /\ sw_info' = [sw_info EXCEPT ![c] =
                [role |-> "AGENT_AUTHENTICATED", name |-> sw_pending[s][t].agent]]
      /\ admitted' = [admitted EXCEPT ![c] = t]
      /\ UNCHANGED <<cli, srv, issued>>
  BY DEF onAuthConnectToSwitch_Accept, SwReads, SrvReads, SrvAnswers, cdt_vars
<1>1. Head(to_srv[c]) = to_srv[c][1] /\ Head(to_srv[c]) \in Packet
  BY <1>0, ReadFacts DEF IInv, TypeOK, NetTypeOK
<1>2. t \in Token
  BY <1>0, <1>1, PacketFields
<1>3. admitted[c] = None /\ issued[t] = [agent |-> cli[c], switch |-> s]
  BY <1>0, <1>1 DEF IInv, ToSrvInv, Granted
<1>4. sw_pending[s][t].agent \in Agents /\ \A d \in Conn : admitted[d] # t
  BY <1>0, <1>2 DEF IInv, TypeOK, SwTypeOK, PendingToken, TokenInv
<1> HIDE DEF t
<1>5. sw_info'[c] # None /\ \A d \in Conn : d # c => sw_info'[d] = sw_info[d]
  <2>1. [role |-> "AGENT_AUTHENTICATED", name |-> sw_pending[s][t].agent] \in SwConnInfo
    BY <1>4 DEF SwConnInfo
  <2> QED BY <1>0, <2>1, SwNoneAssumption DEF IInv, TypeOK, SwTypeOK
<1>6. t # None /\ admitted'[c] = t /\ \A d \in Conn : d # c => admitted'[d] = admitted[d]
  BY <1>0, <1>2, ProcAssumption DEF IInv, TypeOK, SwTypeOK, Token
<1>7. /\ Session(c)' = [agent |-> cli[c], switch |-> s, token |-> t, state |-> "live"]
      /\ \A d \in Conn : d # c => Session(d)' = Session(d)
  BY <1>0, <1>5, <1>6 DEF Session
<1>8. /\ Sessions = [d \in Conn |-> Session(d)]
      /\ Sessions' = [d \in Conn |-> Session(d)']
  BY DEF Sessions, Session
<1>9. Sessions' = [Sessions EXCEPT ![c] =
          [agent |-> cli[c], switch |-> s, token |-> t, state |-> "live"]]
  BY <1>7, <1>8
<1>10. Sessions[c] = None /\ ~A!Spent(t)
  BY <1>3, <1>4, <1>8 DEF Session, A!Spent
<1>11. issued[t] # None
  <2>1. cli[c] \in Agents
    BY <1>0, ProcAssumption DEF IInv, ConnInv
  <2>2. [agent |-> cli[c], switch |-> s] \in Grant
    BY <2>1 DEF Grant
  <2> QED BY <1>3, <2>2, CdtNoneAssumption
<1>12. A!Begin(c, t)
  BY <1>0, <1>3, <1>9, <1>10, <1>11 DEF A!Begin
<1> QED BY <1>2, <1>12 DEF A!Next

\* A switch forgets connections: their sessions end.
LEMMA ForgettingEnds ==
    ASSUME IInv, UNCHANGED <<cli, srv, issued, admitted>>, NEW S \in SUBSET Conn,
           \A c \in Conn : sw_info'[c] = IF c \in S THEN None ELSE sw_info[c]
    PROVE  A!Next
<1> DEFINE E == {c \in S : admitted[c] # None}
<1>1. \A c \in Conn :
          /\ c \in E => /\ Session(c) # None
                        /\ Session(c)' = [Session(c) EXCEPT !.state = "ended"]
          /\ c \notin E => Session(c)' = Session(c)
  <2>1. ASSUME NEW c \in E PROVE Session(c) # None
    <3>1. admitted[c] # None /\ c \in Conn
      OBVIOUS
    <3>2. cli[c] \in Agents /\ srv[c] \in Switches /\ admitted[c] \in Token
      BY <3>1, AdmittedIsUsed, ProcAssumption DEF IInv, ConnInv, TypeOK, SwTypeOK
    <3>3. Session(c) \in A!Sessions
      BY <3>1, <3>2 DEF Session, A!Sessions
    <3> QED BY <3>3, SessionNoneAssumption
  <2>2. ASSUME NEW c \in E PROVE Session(c)' = [Session(c) EXCEPT !.state = "ended"]
    <3>1. admitted[c] # None /\ admitted'[c] # None /\ sw_info'[c] = None
          /\ cli'[c] = cli[c] /\ srv'[c] = srv[c] /\ admitted'[c] = admitted[c]
      OBVIOUS
    <3>2. Session(c) = [agent |-> cli[c], switch |-> srv[c], token |-> admitted[c],
                        state |-> IF sw_info[c] # None THEN "live" ELSE "ended"]
      BY <3>1 DEF Session
    <3>3. Session(c)' = [agent |-> cli[c], switch |-> srv[c], token |-> admitted[c],
                         state |-> "ended"]
      BY <3>1 DEF Session
    <3> QED BY <3>2, <3>3
  <2>3. ASSUME NEW c \in Conn, c \notin E PROVE Session(c)' = Session(c)
    BY <2>3 DEF Session
  <2> QED BY <2>1, <2>2, <2>3
<1>2. /\ Sessions = [d \in Conn |-> Session(d)]
      /\ Sessions' = [d \in Conn |-> Session(d)']
  BY DEF Sessions, Session
<1>3. E \in SUBSET Conn
  OBVIOUS
<1> HIDE DEF E
<1>4. A!End(E)
  BY <1>1, <1>2, <1>3 DEF A!End
<1> QED BY <1>3, <1>4 DEF A!Next

\* A step of a switch begins or ends sessions, or leaves them alone.
LEMMA SwitchAdmits ==
    ASSUME IInv, NEW s \in Switches, UNCHANGED <<cdt_vars, ag_vars>>,
           \/ SwStep(s)
           \/ SwCrash(s)
           \/ \E c \in Conn : SwConnect(s, c, cdt_up) \/ SwAcceptFails(s, c)
           \/ \E t \in Token : SwTokenAges(s, t)
    PROVE  [A!Next]_<<issued, Sessions>>
<1>0. UNCHANGED issued
  BY DEF cdt_vars
<1>a. sw_info \in [Conn -> SwConnInfo \cup {None}]
  BY DEF IInv, TypeOK, SwTypeOK
<1>1. ASSUME NEW c \in Conn, onAuthConnectToSwitch_Accept(s, c) PROVE A!Next
  BY <1>1, AcceptBegins
<1>2. ASSUME NEW c \in Conn, SwOnClose(s, c) \/ onAuthConnectToSwitch_Reject(s, c) PROVE A!Next
  <2>1. sw_info' = [sw_info EXCEPT ![c] = None] /\ UNCHANGED <<cli, srv, issued, admitted>>
    BY <1>0, <1>2 DEF SwOnClose, onAuthConnectToSwitch_Reject, CloseSrv
  <2>2. \A d \in Conn : sw_info'[d] = IF d \in {c} THEN None ELSE sw_info[d]
    BY <1>a, <2>1
  <2> QED BY <2>1, <2>2, ForgettingEnds
<1>3. CASE SwCrash(s)
  <2>1. /\ sw_info' = [c \in Conn |-> IF srv[c] = s THEN None ELSE sw_info[c]]
        /\ UNCHANGED <<cli, srv, issued, admitted>>
    BY <1>0, <1>3 DEF SwCrash, CloseAll
  <2> DEFINE S == {c \in Conn : srv[c] = s}
  <2>2. \A d \in Conn : sw_info'[d] = IF d \in S THEN None ELSE sw_info[d]
    BY <2>1
  <2> QED BY <2>1, <2>2, ForgettingEnds
<1>4. ASSUME NEW c \in Conn, SwConnect(s, c, cdt_up) PROVE Sessions' = Sessions
  <2>1. /\ cli[c] = None /\ cli' = [cli EXCEPT ![c] = s] /\ srv' = [srv EXCEPT ![c] = CDT]
        /\ UNCHANGED sw_info /\ UNCHANGED admitted
    BY <1>4 DEF SwConnect, Connect, Unused
  <2> QED BY <2>1, OpeningStays
<1>5. ASSUME NEW c \in Conn, SwAccept(s, c) PROVE Sessions' = Sessions
  <2>1. /\ srv_up[c] /\ sw_info[c] = None /\ UNCHANGED <<cli, srv, admitted>>
        /\ \A d \in Conn : d # c => sw_info'[d] = sw_info[d]
    BY <1>a, <1>5 DEF SwAccept, net_vars
  <2>2. admitted[c] = None
    BY <2>1 DEF IInv, SwConnInv
  <2> QED BY <2>1, <2>2, SessionsStay
<1>6. ASSUME UNCHANGED <<cli, srv, sw_info, admitted>> PROVE Sessions' = Sessions
  BY <1>6, SessionsStay
<1>7. \/ \E c \in Conn : \/ onAuthConnectToSwitch_Accept(s, c)
                         \/ SwOnClose(s, c) \/ onAuthConnectToSwitch_Reject(s, c)
                         \/ SwConnect(s, c, cdt_up) \/ SwAccept(s, c)
      \/ SwCrash(s)
      \/ UNCHANGED <<cli, srv, sw_info, admitted>>
  BY DEF SwStep, SwRegister, SwListen, onAgentConnectionToken, HearsConductor, SwOnConductorClose,
         expire_tokens, SwAcceptFails, SwTokenAges, CliWrites, CliTakes, CloseCli, CloseSrv,
         net_vars, sw_vars
<1> QED BY <1>0, <1>1, <1>2, <1>3, <1>4, <1>5, <1>6, <1>7

LEMMA StepsRefine == IInv /\ [Next]_vars => [A!Next]_<<issued, Sessions>>
<1> SUFFICES ASSUME IInv, [Next]_vars PROVE [A!Next]_<<issued, Sessions>>
  OBVIOUS
<1>1. CASE CdtActs
  BY <1>1, ConductorIssues DEF CdtActs
<1>2. ASSUME NEW s \in Switches, SwActs(s) PROVE [A!Next]_<<issued, Sessions>>
  BY <1>2, SwitchAdmits DEF SwActs
<1>3. ASSUME NEW a \in Agents, AgActs(a) PROVE UNCHANGED <<issued, Sessions>>
  <2>1. UNCHANGED <<cdt_vars, sw_vars>>
    BY <1>3 DEF AgActs
  <2> QED BY <1>3, <2>1, AgentStays
<1>4. CASE Starts
  BY <1>4, ConductorIssues, SwitchAdmits, AgentStays DEF Starts
<1>5. CASE Ages
  BY <1>5, SwitchAdmits DEF Ages
<1>6. CASE Faults
  BY <1>6, ConductorIssues, SwitchAdmits, AgentStays DEF Faults, AgCrash
<1>7. CASE UNCHANGED vars
  <2>1. UNCHANGED <<cli, srv, sw_info, admitted, issued>>
    BY <1>7 DEF vars, net_vars, cdt_vars, sw_vars
  <2> QED BY <2>1, SessionsStay
<1> QED BY <1>1, <1>2, <1>3, <1>4, <1>5, <1>6, <1>7 DEF Next

\* The handshake implements Admission: a session begins only with a grant that names its
\* agent and its switch, and no grant begins two sessions.
THEOREM Refinement == Spec => AdmissionSpec
<1>1. Init => A!Init
  <2> SUFFICES ASSUME Init PROVE A!Init
    OBVIOUS
  <2>1. issued = [t \in Token |-> None] /\ \A c \in Conn : admitted[c] = None
    BY DEF Init, CdtInit, SwInit
  <2> QED BY <2>1 DEF Sessions, A!Init
<1> QED BY <1>1, StepsRefine, Inductive, PTL DEF Spec, AdmissionSpec, A!Spec
=============================================================================
