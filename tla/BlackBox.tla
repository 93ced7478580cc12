------------------------------ MODULE BlackBox ------------------------------
(***************************************************************************)
(* BlackBox (src/src/blackbox/blackbox.cpp): what a switch does with an    *)
(* IPv4 packet, from its registry of agents, its routes and the rules of   *)
(* its Config.  One BlackBox per switch, all built from the same file.     *)
(*                                                                         *)
(* No program calls the library yet.  The calls modelled here are the ones *)
(* its header documents: a hook runs when the event it names happens on a  *)
(* descriptor, before the kernel can give that descriptor to anybody else  *)
(* (NetQueue calls onClose before it closes), and the caller does with a   *)
(* packet what the decision says.  The agent behind a connection is the    *)
(* one its name says (Mip!AuthenticIdentity) and authenticates once.       *)
(***************************************************************************)
EXTENDS Config, AgentRegistry, RoutingTable, IPv4

CONSTANTS
    Switches,
    TunSwitches,    \* the switches with an internet TUN device (tun_fd >= 0)
    Arriving        \* the shapes of the packets that arrive

VARIABLES
    built,      \* the BlackBoxes exist, each with its copy of the Config
    registry,   \* registry_ of each switch
    routing,    \* routing_ of each switch
    conn,       \* what each descriptor of a switch is connected to, or None
    wire        \* a packet on its way to another switch, or None

box_vars == <<built, registry, routing>>
vars == <<config_vars, box_vars, conn, wire>>

Client == [agent : Agents, authenticated : BOOLEAN]
Peer == [switch : Switches]
IsClient(c) == c \in Client
IsPeer(c) == c \in Peer
Packet == [raw : Arriving, src : Ips, dst : Ips]
Forwarded == [to : Switches, from : Agents, packet : Packet]

ASSUME ArrivingAssumption == Arriving \subseteq Raw
ASSUME ConnAssumption == None \notin Client \cup Peer \cup Forwarded

TypeOK ==
    /\ ConfigTypeOK
    /\ built \in BOOLEAN
    /\ registry \in [Switches -> Registry]
    /\ routing \in [Switches -> Routes]
    /\ conn \in [Switches -> [Fds -> Client \cup Peer \cup {None}]]
    /\ wire \in Forwarded \cup {None}

Init ==
    /\ ConfigInit
    /\ built = FALSE
    /\ registry = [s \in Switches |-> EmptyRegistry]
    /\ routing = [s \in Switches |-> NoRoutes]
    /\ conn = [s \in Switches |-> [f \in Fds |-> None]]
    /\ wire = None

-----------------------------------------------------------------------------
(***************************************************************************)
(* Decisions.                                                              *)
(***************************************************************************)
Decision(action, fd, reason) == [action |-> action, target_fd |-> fd, drop_reason |-> reason]
Drop(reason) == Decision("DROP", None, reason)
Deliver(entry) == Decision("DELIVER_LOCAL", entry.fd, "NONE")

can_agents_communicate(src, dst) == <<src, dst>> \in agent_acl
can_reach_internet_ip(agent, ip) == <<agent, ip>> \in internet_acl

\* An address of the Config is an agent, here or at another switch; others are internet.
route_to_destination_LocalFirst(s, src, dst) ==     \* mutant of route_to_destination
    IF registry[s].by_ipv4[dst] # None THEN Deliver(registry[s].by_ipv4[dst])
    ELSE Drop("DEST_UNREACHABLE")
route_to_destination(s, src, dst) ==
    IF ip_to_name[dst] # None
    THEN CASE ~can_agents_communicate(src, dst) -> Drop("ACL_DENIED")
           [] can_agents_communicate(src, dst) /\ registry[s].by_ipv4[dst] # None ->
                Deliver(registry[s].by_ipv4[dst])
           [] OTHER -> IF routing[s][dst] # None
                       THEN Decision("FORWARD_SWITCH", routing[s][dst], "NONE")
                       ELSE Decision("REQUEST_ROUTE", None, "NONE")
    ELSE CASE s \notin TunSwitches -> Drop("DEST_UNREACHABLE")
           [] s \in TunSwitches /\ ~can_reach_internet_ip(src, dst) -> Drop("ACL_DENIED")
           [] OTHER -> Decision("FORWARD_INTERNET", None, "NONE")

process_from_agent(s, fd, p) ==
    LET sender == registry[s].by_fd[fd]
    IN  IF sender = None THEN Drop("SOURCE_UNKNOWN")
        ELSE IF p.src # sender.virtual_ipv4 THEN Drop("SOURCE_SPOOF")
        ELSE route_to_destination(s, sender.virtual_ipv4, p.dst)

\* The switch that sent it has checked the rules.
process_from_switch(s, p) ==
    LET dest == registry[s].by_ipv4[p.dst]
    IN  IF dest = None THEN Drop("DEST_UNREACHABLE") ELSE Deliver(dest)

process_from_tun_Swapped(s, p) ==       \* mutant of process_from_tun
    LET dest == registry[s].by_ipv4[p.dst]
    IN  IF dest = None THEN Drop("DEST_UNREACHABLE")
        ELSE IF ~can_reach_internet_ip(p.src, p.dst) THEN Drop("ACL_DENIED")
        ELSE Deliver(dest)
process_from_tun(s, p) ==
    LET dest == registry[s].by_ipv4[p.dst]
    IN  IF dest = None THEN Drop("DEST_UNREACHABLE")
        ELSE IF ~can_reach_internet_ip(p.dst, p.src) THEN Drop("ACL_DENIED")
        ELSE Deliver(dest)

\* fd is the descriptor of a packet from an agent.
process(s, source, fd, p) ==
    IF ~ipv4_parse(p.raw) THEN Drop("MALFORMED_PACKET")
    ELSE CASE source = "AGENT"  -> process_from_agent(s, fd, p)
           [] source = "SWITCH" -> process_from_switch(s, p)
           [] source = "TUN"    -> process_from_tun(s, p)

-----------------------------------------------------------------------------
(***************************************************************************)
(* Lifecycle hooks.                                                        *)
(***************************************************************************)
LoadsConfig == ~built /\ Load /\ UNCHANGED <<box_vars, conn, wire>>

\* The constructor, with a Config that load accepted; the file is done with.
Construct ==
    /\ ~built /\ pass = "none" /\ result = "true"
    /\ built' = TRUE
    /\ lines' = <<>> /\ pos' = 1 /\ result' = "none"
    /\ UNCHANGED <<maps, pass, registry, routing, conn, wire>>

\* An agent connects to a switch.
Connects(s, f, n) ==
    /\ built /\ conn[s][f] = None
    /\ conn' = [conn EXCEPT ![s][f] = [agent |-> n, authenticated |-> FALSE]]
    /\ UNCHANGED <<config_vars, box_vars, wire>>

AuthenticatedWith(s, f, r) ==
    /\ IsClient(conn[s][f]) /\ ~conn[s][f].authenticated
    /\ conn' = [conn EXCEPT ![s][f].authenticated = TRUE]
    /\ registry' = [registry EXCEPT ![s] = r]
    /\ UNCHANGED <<config_vars, built, routing, wire>>
on_agent_authenticated_Unknown(s, f) ==     \* mutant of on_agent_authenticated
    LET n == conn[s][f].agent IN
      AuthenticatedWith(s, f, register_agent(registry[s], n, name_to_ip[n], f))
on_agent_authenticated(s, f) ==
    LET n == conn[s][f].agent IN
      AuthenticatedWith(s, f, IF name_to_ip[n] = 0 THEN registry[s]
                              ELSE register_agent(registry[s], n, name_to_ip[n], f))
\* The entry cannot be allocated: the older one is gone already.
on_agent_authenticated_NoMemory(s, f) ==
    /\ IsClient(conn[s][f]) /\ name_to_ip[conn[s][f].agent] # 0
    /\ AuthenticatedWith(s, f, unregister_by_name(registry[s], conn[s][f].agent))

\* The connection of an agent closes, authenticated or not.
DisconnectedWith(s, f, r) ==
    /\ IsClient(conn[s][f])
    /\ registry' = [registry EXCEPT ![s] = r]
    /\ conn' = [conn EXCEPT ![s][f] = None]
    /\ UNCHANGED <<config_vars, built, routing, wire>>
on_agent_disconnected_ByName(s, f) ==   \* mutant of on_agent_disconnected
    DisconnectedWith(s, f, unregister_by_name(registry[s], conn[s][f].agent))
on_agent_disconnected(s, f) == DisconnectedWith(s, f, unregister_by_fd(registry[s], f))

\* A connection to another switch opens ...
PeerConnects(s, f, t) ==
    /\ built /\ s # t /\ conn[s][f] = None
    /\ conn' = [conn EXCEPT ![s][f] = [switch |-> t]]
    /\ UNCHANGED <<config_vars, box_vars, wire>>
\* ... and closes.
on_switch_disconnected(s, f) ==
    /\ IsPeer(conn[s][f])
    /\ routing' = [routing EXCEPT ![s] = remove_routes_for_switch(@, f)]
    /\ conn' = [conn EXCEPT ![s][f] = None]
    /\ UNCHANGED <<config_vars, built, registry, wire>>

\* The conductor names the next switch for an address, or says that it is gone.  That
\* f is an open connection to a switch is up to the caller, outside the repository.
on_route_update(s, dst, f) ==
    /\ IsPeer(conn[s][f])
    /\ routing' = [routing EXCEPT ![s] = set_route(@, dst, f)]
    /\ UNCHANGED <<config_vars, built, registry, conn, wire>>
on_route_update_Gone(s, dst) ==
    /\ built
    /\ routing' = [routing EXCEPT ![s] = remove_route(@, dst)]
    /\ UNCHANGED <<config_vars, built, registry, conn, wire>>

-----------------------------------------------------------------------------
(***************************************************************************)
(* The packets that need a second switch; the others change nothing.       *)
(***************************************************************************)
Forwards(s, f, p) ==
    /\ wire = None /\ IsClient(conn[s][f])
    /\ LET d == process(s, "AGENT", f, p) IN
         /\ d.action = "FORWARD_SWITCH"
         /\ wire' = [to |-> conn[s][d.target_fd].switch, from |-> conn[s][f].agent, packet |-> p]
    /\ UNCHANGED <<config_vars, box_vars, conn>>
\* It arrives and is delivered or dropped, or is lost with its connection.
Arrives ==
    /\ wire # None
    /\ wire' = None
    /\ UNCHANGED <<config_vars, box_vars, conn>>

Next ==
    \/ LoadsConfig
    \/ Construct
    \/ \E s \in Switches, f \in Fds :
         \/ \E n \in Agents : Connects(s, f, n)
         \/ on_agent_authenticated(s, f) \/ on_agent_authenticated_NoMemory(s, f)
         \/ on_agent_disconnected(s, f)
         \/ \E t \in Switches : PeerConnects(s, f, t)
         \/ on_switch_disconnected(s, f)
         \/ \E i \in Ips : on_route_update(s, i, f)
         \/ \E p \in Packet : Forwards(s, f, p)
    \/ \E s \in Switches, i \in Ips : on_route_update_Gone(s, i)
    \/ Arrives

Spec == Init /\ [][Next]_vars

-----------------------------------------------------------------------------
(***************************************************************************)
(* The registry of a switch is one set of agents under three keys, and     *)
(* each of them is connected by the very descriptor it is listed with,     *)
(* under its own name and the address of the Config: an agent that came    *)
(* back on another descriptor, a late close of the old one and the next    *)
(* owner of the same number leave nothing behind.                          *)
(***************************************************************************)
RegistryExact ==
    \A s \in Switches :
        /\ OneEntryThreeKeys(registry[s])
        /\ \A n \in Agents : registry[s].by_name[n] # None =>
              LET e == registry[s].by_name[n] IN
                /\ conn[s][e.fd] = [agent |-> n, authenticated |-> TRUE]
                /\ e.virtual_ipv4 = name_to_ip[n]

(***************************************************************************)
(* A route leads to a connection to another switch, never to a descriptor  *)
(* that was closed, or that an agent has got in the meantime.              *)
(***************************************************************************)
RoutesLive ==
    \A s \in Switches, i \in Ips :
        routing[s][i] # None => IsPeer(conn[s][routing[s][i]])

(***************************************************************************)
(* README: "Each agent can only reach what the config explicitly allows".  *)
(* A packet goes only to the agent, or the internet host, that it is for,  *)
(* and only from the agent, or the host, that it says it is from, with a   *)
(* rule between the two.  A switch does not check again what another one   *)
(* has forwarded, so this spans the two of them.                           *)
(***************************************************************************)
Target(s, d) == conn[s][d.target_fd].agent
Allowed(from, s, d, p) ==
    /\ d.action = "DELIVER_LOCAL" =>
          /\ name_to_ip[from] = p.src /\ name_to_ip[Target(s, d)] = p.dst
          /\ <<p.src, p.dst>> \in agent_acl
    /\ d.action = "FORWARD_INTERNET" =>
          name_to_ip[from] = p.src /\ <<p.src, p.dst>> \in internet_acl
AllowedBack(s, d, p) ==
    d.action = "DELIVER_LOCAL" =>
        name_to_ip[Target(s, d)] = p.dst /\ <<p.dst, p.src>> \in internet_acl
DeliveryAllowed ==
    /\ \A s \in Switches, f \in Fds, p \in Packet : IsClient(conn[s][f]) =>
          Allowed(conn[s][f].agent, s, process(s, "AGENT", f, p), p)
    /\ \A s \in Switches, p \in Packet : AllowedBack(s, process(s, "TUN", None, p), p)
    /\ wire # None =>
          Allowed(wire.from, wire.to, process(wire.to, "SWITCH", None, wire.packet), wire.packet)

(***************************************************************************)
(* Rules work both ways: an agent that reaches another one on the same     *)
(* switch is reached by it, and what an agent may send to the internet may *)
(* be answered, to the descriptor that it was sent from.                   *)
(***************************************************************************)
Reply(p) == [p EXCEPT !.src = p.dst, !.dst = p.src]
AnswersReturn ==
    \A s \in Switches, f \in Fds, p \in Packet :
        LET d == process(s, "AGENT", f, p) IN
          /\ d.action = "DELIVER_LOCAL" =>
                process(s, "AGENT", d.target_fd, Reply(p)) = Decision("DELIVER_LOCAL", f, "NONE")
          /\ d.action = "FORWARD_INTERNET" =>
                process(s, "TUN", None, Reply(p)) = Decision("DELIVER_LOCAL", f, "NONE")

\* What Presence sees of the registries and the connections.
FdOf(r) == [n \in Agents |-> IF r.by_name[n] = None THEN None ELSE r.by_name[n].fd]
Current == [s \in Switches |-> FdOf(registry[s])]
SpeakerOn(c) == IF IsClient(c) /\ c.authenticated THEN c.agent ELSE None
Speaker == [s \in Switches |-> [f \in Fds |-> SpeakerOn(conn[s][f])]]

P == INSTANCE Presence WITH current <- Current, speaker <- Speaker

\* The three indexes implement the map from agents to descriptors of Presence.
PresenceSpec == P!Spec

\* No packet makes a BlackBox read past its end (IPv4!StaysInside).
ParsesInside == built => StaysInside
=============================================================================
