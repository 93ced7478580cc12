------------------------------ MODULE Switch ------------------------------
(***************************************************************************)
(* The switches (src/src/switch/setup.cpp).  A switch registers with the   *)
(* conductor, only then starts to listen, and admits the agents that       *)
(* present a token the conductor announced.  It never reconnects to the    *)
(* conductor.  One thread: every handler is one step.                      *)
(*                                                                         *)
(* "off" stands for the process being down or still retrying connect():    *)
(* when the retries run out the process exits and is started again         *)
(* (docker-compose.yml, restart: unless-stopped).                          *)
(***************************************************************************)
EXTENDS Net, Roster

VARIABLES
    sw_pc,          \* progress of main
    sw_conn,        \* cdt_sock
    sw_conductor,   \* SwitchState.conductor is not null
    sw_info,        \* the ConnInfo of each accepted connection
    sw_pending,     \* SwitchState.pending_tokens
    sw_agents,      \* SwitchState.agents
    admitted        \* history: the token that authenticated a connection

sw_vars == <<sw_pc, sw_conn, sw_conductor, sw_info, sw_pending, sw_agents, admitted>>

SwConnInfo ==
    [role : {"AGENT_PENDING", "AGENT_AUTHENTICATED"}, name : Agents \cup {None}]

\* created, as far as expire_tokens tells it apart: TOKEN_EXPIRY has passed or not.
PendingToken == [agent : Agents, expired : BOOLEAN]

ASSUME SwNoneAssumption == None \notin SwConnInfo \cup PendingToken

SwTypeOK ==
    /\ sw_pc \in [Switches -> {"off", "connected", "registered", "running"}]
    /\ sw_conn \in [Switches -> Conn \cup {None}]
    /\ sw_conductor \in [Switches -> BOOLEAN]
    /\ sw_info \in [Conn -> SwConnInfo \cup {None}]
    /\ sw_pending \in [Switches -> [Token -> PendingToken \cup {None}]]
    /\ sw_agents \in [Switches -> Seq(Conn)]
    /\ admitted \in [Conn -> Token \cup {None}]

NoTokens == [t \in Token |-> None]

SwInit ==
    /\ sw_pc = [s \in Switches |-> "off"]
    /\ sw_conn = [s \in Switches |-> None]
    /\ sw_conductor = [s \in Switches |-> FALSE]
    /\ sw_info = [c \in Conn |-> None]
    /\ sw_pending = [s \in Switches |-> NoTokens]
    /\ sw_agents = [s \in Switches |-> <<>>]
    /\ admitted = [c \in Conn |-> None]

-----------------------------------------------------------------------------
(***************************************************************************)
(* main, up to the event loop.                                             *)
(***************************************************************************)

\* connect_with_retry succeeds: the conductor listens.
SwConnect(s, c, listening) ==
    /\ sw_pc[s] = "off" /\ listening
    /\ Connect(s, CDT, c)
    /\ sw_pc' = [sw_pc EXCEPT ![s] = "connected"]
    /\ sw_conn' = [sw_conn EXCEPT ![s] = c]
    /\ UNCHANGED <<sw_conductor, sw_info, sw_pending, sw_agents, admitted>>

\* The SWITCH_MIP packet is sent before the switch listens.
SwRegister(s) ==
    /\ sw_pc[s] = "connected"
    /\ CliWrites(sw_conn[s],
                 [type |-> "SWITCH_MIP", name |-> s, network |-> "::internet"])
    /\ sw_pc' = [sw_pc EXCEPT ![s] = "registered"]
    /\ UNCHANGED <<sw_conn, sw_conductor, sw_info, sw_pending, sw_agents, admitted>>

SwListen_Unqueued(s) ==         \* mutant of SwListen: put_sck is forgotten
    /\ sw_pc[s] = "registered"
    /\ sw_pc' = [sw_pc EXCEPT ![s] = "running"]
    /\ UNCHANGED <<sw_conn, sw_conductor, sw_info, sw_pending, sw_agents, admitted>>
    /\ UNCHANGED net_vars
\* The listener is created and the conductor's socket goes to the NetQueue.
SwListen(s) ==
    /\ sw_pc[s] = "registered"
    /\ sw_pc' = [sw_pc EXCEPT ![s] = "running"]
    /\ sw_conductor' = [sw_conductor EXCEPT ![s] = TRUE]
    /\ UNCHANGED <<sw_conn, sw_info, sw_pending, sw_agents, admitted>>
    /\ UNCHANGED net_vars

-----------------------------------------------------------------------------
(***************************************************************************)
(* The event loop.                                                         *)
(***************************************************************************)
Running(s) == sw_pc[s] = "running"

SwAccept(s, c) ==
    /\ Running(s) /\ srv[c] = s /\ srv_up[c] /\ sw_info[c] = None
    /\ sw_info' = [sw_info EXCEPT ![c] = [role |-> "AGENT_PENDING", name |-> None]]
    /\ UNCHANGED <<sw_pc, sw_conn, sw_conductor, sw_pending, sw_agents, admitted>>
    /\ UNCHANGED net_vars

\* put_sck fails.
SwAcceptFails(s, c) ==
    /\ Running(s) /\ srv[c] = s /\ srv_up[c] /\ sw_info[c] = None
    /\ CloseSrv(c)
    /\ UNCHANGED sw_vars

\* Only the conductor sends AGENT_CONNECTION_TOKEN, so the handler does not look who did.
HearsConductor(s) ==
    /\ Running(s) /\ sw_conductor[s]
    /\ CliReads(sw_conn[s], "AGENT_CONNECTION_TOKEN")

onAgentConnectionToken(s) ==
    /\ HearsConductor(s)
    /\ LET pkt == Head(to_cli[sw_conn[s]]) IN
         sw_pending' = [sw_pending EXCEPT ![s][pkt.token] =
                            [agent |-> pkt.agent, expired |-> FALSE]]
    /\ CliTakes(sw_conn[s])
    /\ UNCHANGED <<sw_pc, sw_conn, sw_conductor, sw_info, sw_agents, admitted>>

SwReads(s, c, type) == Running(s) /\ srv[c] = s /\ sw_info[c] # None /\ SrvReads(c, type)

\* An unknown token: the agent is dropped.  On queue->close see the conductor.
onAuthConnectToSwitch_Reject(s, c) ==
    /\ SwReads(s, c, "AUTH_CONNECT_TO_SWITCH")
    /\ sw_pending[s][Head(to_srv[c]).token] = None
    /\ sw_info' = [sw_info EXCEPT ![c] = None]
    /\ CloseSrv(c)
    /\ UNCHANGED <<sw_pc, sw_conn, sw_conductor, sw_pending, sw_agents, admitted>>

\* The tokens of a switch once one of them is used.
Used_Kept(s, t) == sw_pending           \* mutant of Used: pending_tokens.erase is missing
Used(s, t) == [sw_pending EXCEPT ![s][t] = None]

\* A token that is past TOKEN_EXPIRY but still in the map is as good as any.
onAuthConnectToSwitch_Accept(s, c) ==
    /\ SwReads(s, c, "AUTH_CONNECT_TO_SWITCH")
    /\ LET t == Head(to_srv[c]).token IN
         /\ sw_pending[s][t] # None
         /\ sw_info' = [sw_info EXCEPT ![c] =
                [role |-> "AGENT_AUTHENTICATED", name |-> sw_pending[s][t].agent]]
         /\ sw_pending' = Used(s, t)
         /\ admitted' = [admitted EXCEPT ![c] = t]
    /\ sw_agents' = [sw_agents EXCEPT ![s] = Append(@, c)]
    /\ SrvAnswers(c, [type |-> "CONNECTION_ACCEPTED"])
    /\ UNCHANGED <<sw_pc, sw_conn, sw_conductor>>

\* onClose of an agent's connection: only an authenticated one is on the roster.
RostersWithout_Pending(s, c) == \* mutant of RostersWithout
    IF sw_info[c].role = "AGENT_PENDING"
    THEN [sw_agents EXCEPT ![s] = Erase(@, c)] ELSE sw_agents
RostersWithout(s, c) ==
    IF sw_info[c].role = "AGENT_AUTHENTICATED"
    THEN [sw_agents EXCEPT ![s] = Erase(@, c)] ELSE sw_agents
SwOnClose(s, c) ==
    /\ Running(s) /\ srv[c] = s /\ sw_info[c] # None /\ SrvEOF(c)
    /\ sw_agents' = RostersWithout(s, c)
    /\ sw_info' = [sw_info EXCEPT ![c] = None]
    /\ CloseSrv(c)
    /\ UNCHANGED <<sw_pc, sw_conn, sw_conductor, sw_pending, admitted>>

\* onClose of the conductor's connection.
SwOnConductorClose(s) ==
    /\ Running(s) /\ sw_conductor[s] /\ CliEOF(sw_conn[s])
    /\ sw_conductor' = [sw_conductor EXCEPT ![s] = FALSE]
    /\ CloseCli(sw_conn[s])
    /\ UNCHANGED <<sw_pc, sw_conn, sw_info, sw_pending, sw_agents, admitted>>

\* Time passes: a token has been there for longer than TOKEN_EXPIRY.
SwTokenAges(s, t) ==
    /\ sw_pending[s][t] # None /\ ~sw_pending[s][t].expired
    /\ sw_pending' = [sw_pending EXCEPT ![s][t].expired = TRUE]
    /\ UNCHANGED <<sw_pc, sw_conn, sw_conductor, sw_info, sw_agents, admitted>>
    /\ UNCHANGED net_vars

expire_tokens(s) ==
    /\ Running(s)
    /\ \E t \in Token : sw_pending[s][t] # None /\ sw_pending[s][t].expired
    /\ sw_pending' = [sw_pending EXCEPT ![s] =
          [t \in Token |-> IF @[t] # None /\ @[t].expired THEN None ELSE @[t]]]
    /\ UNCHANGED <<sw_pc, sw_conn, sw_conductor, sw_info, sw_agents, admitted>>
    /\ UNCHANGED net_vars

\* The process is stopped, dies, or main returns 1 (e.g. SWITCH_MIP not sent).
SwCrash(s) ==
    /\ sw_pc[s] # "off"
    /\ sw_pc' = [sw_pc EXCEPT ![s] = "off"]
    /\ sw_conn' = [sw_conn EXCEPT ![s] = None]
    /\ sw_conductor' = [sw_conductor EXCEPT ![s] = FALSE]
    /\ sw_info' = [c \in Conn |-> IF srv[c] = s THEN None ELSE sw_info[c]]
    /\ sw_pending' = [sw_pending EXCEPT ![s] = NoTokens]
    /\ sw_agents' = [sw_agents EXCEPT ![s] = <<>>]
    /\ CloseAll(s)
    /\ UNCHANGED admitted

\* What a running switch does by itself.
SwStep(s) ==
    \/ SwRegister(s)
    \/ SwListen(s)
    \/ onAgentConnectionToken(s)
    \/ SwOnConductorClose(s)
    \/ expire_tokens(s)
    \/ \E c \in Conn :
         \/ SwAccept(s, c)
         \/ onAuthConnectToSwitch_Accept(s, c)
         \/ onAuthConnectToSwitch_Reject(s, c)
         \/ SwOnClose(s, c)
=============================================================================
