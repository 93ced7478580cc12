-------------------------------- MODULE Net --------------------------------
(***************************************************************************)
(* The TCP connections between conductor, switches and agents, as the code *)
(* under src/ uses them: connect, accept, read, write, close.  The kernel  *)
(* is external.                                                            *)
(*                                                                         *)
(* A connection is an identifier that is used once; it stands for the fd   *)
(* and for the ConnInfo that the server allocates for it.  Each direction  *)
(* is a FIFO of whole packets: cutting the byte stream into packets is     *)
(* NetQueue's job.  An end that is closed discards what it had not read;   *)
(* what it had sent stays readable, then the peer reads end-of-file.       *)
(***************************************************************************)
EXTENDS Naturals, Sequences

CONSTANTS
    Switches,   \* switch names (argv[1] of the switch)
    Agents,     \* agent names (argv[1] of the agent)
    CDT,        \* the conductor
    Networks,   \* network names (PacketSwitchMIP.network, PacketAgentMIP.network)
    None,       \* a null pointer, an absent entry
    MaxConn,    \* bound: connections opened in a behaviour
    MaxToken,   \* bound: connection tokens drawn in a behaviour
    SockBuf     \* bound: packets the kernel buffers per direction

Conn  == 1 .. MaxConn
Token == 1 .. MaxToken
Proc  == Switches \cup Agents \cup {CDT}

ASSUME ProcAssumption ==
    /\ Switches \cap Agents = {}
    /\ CDT \notin Switches \cup Agents
    /\ None \notin Proc
    /\ None \notin Nat
ASSUME NetworksAssumption == {"::internet", "vnet.internal"} \subseteq Networks
ASSUME BoundAssumption ==
    MaxConn \in Nat /\ MaxToken \in Nat /\ SockBuf \in Nat \ {0}

(***************************************************************************)
(* The packets of proto/mip.proto.  CONNECT_TO_SWITCH carries the address  *)
(* of the switch (ipv4 and port), which is abstracted to its name.         *)
(***************************************************************************)
Packet ==
    [type : {"SWITCH_MIP"}, name : Switches, network : Networks]
    \cup [type : {"AGENT_MIP"}, name : Agents, network : Networks]
    \cup [type : {"AGENT_MRP"}, name : Agents]
    \cup [type : {"CONNECT_TO_SWITCH"}, switch : Switches, token : Token]
    \cup [type : {"AGENT_CONNECTION_TOKEN"}, agent : Agents, token : Token]
    \cup [type : {"AUTH_CONNECT_TO_SWITCH"}, token : Token]
    \cup [type : {"CONNECTION_ACCEPTED"}]

VARIABLES
    cli,        \* the process that opened the connection
    srv,        \* the process that listens at the other end
    cli_up,     \* the client's end is open
    srv_up,     \* the server's end is open
    to_srv,     \* packets written by the client, not read by the server
    to_cli      \* packets written by the server, not read by the client

net_vars == <<cli, srv, cli_up, srv_up, to_srv, to_cli>>

NetTypeOK ==
    /\ cli \in [Conn -> Proc \cup {None}]
    /\ srv \in [Conn -> Proc \cup {None}]
    /\ cli_up \in [Conn -> BOOLEAN]
    /\ srv_up \in [Conn -> BOOLEAN]
    /\ to_srv \in [Conn -> Seq(Packet)]
    /\ to_cli \in [Conn -> Seq(Packet)]

NetInit ==
    /\ cli = [c \in Conn |-> None]
    /\ srv = [c \in Conn |-> None]
    /\ cli_up = [c \in Conn |-> FALSE]
    /\ srv_up = [c \in Conn |-> FALSE]
    /\ to_srv = [c \in Conn |-> <<>>]
    /\ to_cli = [c \in Conn |-> <<>>]

\* Identifiers are handed out in order.
Unused(c) == cli[c] = None /\ \A d \in Conn : d < c => cli[d] # None

(***************************************************************************)
(* p connects to q.  connect() succeeds as soon as q listens: q need not   *)
(* have called accept().                                                   *)
(***************************************************************************)
Connect(p, q, c) ==
    /\ Unused(c)
    /\ cli' = [cli EXCEPT ![c] = p]
    /\ srv' = [srv EXCEPT ![c] = q]
    /\ cli_up' = [cli_up EXCEPT ![c] = TRUE]
    /\ srv_up' = [srv_up EXCEPT ![c] = TRUE]
    /\ UNCHANGED <<to_srv, to_cli>>

\* A packet of the given type is the next one the server / the client reads.
SrvReads(c, type) == srv_up[c] /\ to_srv[c] # <<>> /\ Head(to_srv[c]).type = type
CliReads(c, type) == cli_up[c] /\ to_cli[c] # <<>> /\ Head(to_cli[c]).type = type

\* read() returns 0: the peer closed and everything it sent has been read.
SrvEOF(c) == srv_up[c] /\ ~cli_up[c] /\ to_srv[c] = <<>>
CliEOF(c) == cli_up[c] /\ ~srv_up[c] /\ to_cli[c] = <<>>

(***************************************************************************)
(* The buffers of one direction, q, after m is written to connection c     *)
(* whose reader is open or not.  A write to a peer that is gone is either  *)
(* taken by the kernel and lost (here) or it fails (PeerGone).             *)
(***************************************************************************)
Written(q, c, open, m) == IF open THEN [q EXCEPT ![c] = Append(@, m)] ELSE q
ReadOne(q, c)          == [q EXCEPT ![c] = Tail(@)]
CliRoom(c)             == Len(to_cli[c]) < SockBuf

\* The server reads the head of c, and answers nothing.
SrvTakes(c) ==
    /\ to_srv' = ReadOne(to_srv, c)
    /\ UNCHANGED <<cli, srv, cli_up, srv_up, to_cli>>

\* The client reads the head of c.
CliTakes(c) ==
    /\ to_cli' = ReadOne(to_cli, c)
    /\ UNCHANGED <<cli, srv, cli_up, srv_up, to_srv>>

\* The server reads the head of c and writes m to c.
SrvAnswers(c, m) ==
    /\ to_srv' = ReadOne(to_srv, c)
    /\ to_cli' = Written(to_cli, c, cli_up[c], m)
    /\ UNCHANGED <<cli, srv, cli_up, srv_up>>

\* The server writes m to c.
SrvWrites(c, m) ==
    /\ to_cli' = Written(to_cli, c, cli_up[c], m)
    /\ UNCHANGED <<cli, srv, cli_up, srv_up, to_srv>>

\* The client writes m to c.
CliWrites(c, m) ==
    /\ to_srv' = Written(to_srv, c, srv_up[c], m)
    /\ UNCHANGED <<cli, srv, cli_up, srv_up, to_cli>>

\* The server closes its end of c.
CloseSrv(c) ==
    /\ srv_up' = [srv_up EXCEPT ![c] = FALSE]
    /\ to_srv' = [to_srv EXCEPT ![c] = <<>>]
    /\ UNCHANGED <<cli, srv, cli_up, to_cli>>

\* The client closes its end of c.
CloseCli(c) ==
    /\ cli_up' = [cli_up EXCEPT ![c] = FALSE]
    /\ to_cli' = [to_cli EXCEPT ![c] = <<>>]
    /\ UNCHANGED <<cli, srv, srv_up, to_srv>>

\* Process p ends: the kernel closes every end it owned.
CloseAll(p) ==
    /\ cli_up' = [c \in Conn |-> cli_up[c] /\ cli[c] # p]
    /\ srv_up' = [c \in Conn |-> srv_up[c] /\ srv[c] # p]
    /\ to_srv' = [c \in Conn |-> IF srv[c] = p THEN <<>> ELSE to_srv[c]]
    /\ to_cli' = [c \in Conn |-> IF cli[c] = p THEN <<>> ELSE to_cli[c]]
    /\ UNCHANGED <<cli, srv>>
=============================================================================
