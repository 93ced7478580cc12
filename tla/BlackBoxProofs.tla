--------------------------- MODULE BlackBoxProofs ---------------------------
(***************************************************************************)
(* Proofs about BlackBox, for every set of agents, switches, addresses,    *)
(* descriptors and configuration files: types, what load makes of a file,  *)
(* the exact registry, live routes and the rules from end to end.          *)
(***************************************************************************)
EXTENDS BlackBox, TLAPS

-----------------------------------------------------------------------------
(***************************************************************************)
(* The registry.                                                           *)
(***************************************************************************)

\* A new registry has its type and nothing in it.
LEMMA EmptyRegistryOK == EmptyRegistry \in Registry /\ OneEntryThreeKeys(EmptyRegistry)
BY DEF EmptyRegistry, Registry, OneEntryThreeKeys

\* remove_entry of a listed entry: its name goes, the others stay.
LEMMA RemoveEntry ==
    ASSUME NEW r \in Registry, OneEntryThreeKeys(r),
           NEW n \in Agents, r.by_name[n] # None
    PROVE  LET q == remove_entry(r, r.by_name[n]) IN
             /\ q \in Registry
             /\ OneEntryThreeKeys(q)
             /\ q.by_name = [r.by_name EXCEPT ![n] = None]
<1> DEFINE e == r.by_name[n]
           q == remove_entry(r, e)
<1>1. e \in AgentEntry /\ e.name = n /\ e.virtual_ipv4 \in Ips /\ e.fd \in Fds
  BY DEF Registry, AgentEntry, OneEntryThreeKeys
<1>2. /\ q.by_ipv4 = [r.by_ipv4 EXCEPT ![e.virtual_ipv4] = None]
      /\ q.by_fd = [r.by_fd EXCEPT ![e.fd] = None]
      /\ q.by_name = [r.by_name EXCEPT ![n] = None]
  BY <1>1 DEF remove_entry
<1>3. q \in Registry
  BY <1>1 DEF remove_entry, Registry
<1> HIDE DEF q
<1>4. ASSUME NEW i \in Ips, q.by_ipv4[i] # None
      PROVE  /\ q.by_ipv4[i].virtual_ipv4 = i
             /\ q.by_name[q.by_ipv4[i].name] = q.by_ipv4[i]
  BY <1>1, <1>2, <1>4 DEF Registry, AgentEntry, OneEntryThreeKeys
<1>5. ASSUME NEW f \in Fds, q.by_fd[f] # None
      PROVE  q.by_fd[f].fd = f /\ q.by_name[q.by_fd[f].name] = q.by_fd[f]
  BY <1>1, <1>2, <1>5 DEF Registry, AgentEntry, OneEntryThreeKeys
<1>6. ASSUME NEW m \in Agents, q.by_name[m] # None
      PROVE  /\ q.by_name[m].name = m
             /\ q.by_ipv4[q.by_name[m].virtual_ipv4] = q.by_name[m]
             /\ q.by_fd[q.by_name[m].fd] = q.by_name[m]
  BY <1>1, <1>2, <1>6 DEF Registry, AgentEntry, OneEntryThreeKeys
<1>7. OneEntryThreeKeys(q)
  BY <1>4, <1>5, <1>6 DEF OneEntryThreeKeys
<1> QED BY <1>2, <1>3, <1>7 DEF q, e

\* Both ways to unregister.
LEMMA Unregister ==
    ASSUME NEW r \in Registry, OneEntryThreeKeys(r)
    PROVE  /\ \A n \in Agents :
                /\ unregister_by_name(r, n) \in Registry
                /\ OneEntryThreeKeys(unregister_by_name(r, n))
                /\ unregister_by_name(r, n).by_name = [r.by_name EXCEPT ![n] = None]
           /\ \A f \in Fds :
                /\ unregister_by_fd(r, f) \in Registry
                /\ OneEntryThreeKeys(unregister_by_fd(r, f))
                /\ unregister_by_fd(r, f).by_name =
                     [n \in Agents |-> IF r.by_name[n] # None /\ r.by_name[n].fd = f
                                       THEN None ELSE r.by_name[n]]
<1>1. ASSUME NEW n \in Agents
      PROVE  /\ unregister_by_name(r, n) \in Registry
             /\ OneEntryThreeKeys(unregister_by_name(r, n))
             /\ unregister_by_name(r, n).by_name = [r.by_name EXCEPT ![n] = None]
  <2>1. CASE r.by_name[n] = None
    BY <2>1 DEF unregister_by_name, Registry
  <2>2. CASE r.by_name[n] # None
    BY <2>2, RemoveEntry DEF unregister_by_name
  <2> QED BY <2>1, <2>2
<1>2. ASSUME NEW f \in Fds
      PROVE  /\ unregister_by_fd(r, f) \in Registry
             /\ OneEntryThreeKeys(unregister_by_fd(r, f))
             /\ unregister_by_fd(r, f).by_name =
                  [n \in Agents |-> IF r.by_name[n] # None /\ r.by_name[n].fd = f
                                    THEN None ELSE r.by_name[n]]
  <2>1. CASE r.by_fd[f] = None
    <3>1. \A n \in Agents : r.by_name[n] # None => r.by_name[n].fd # f
      BY <2>1 DEF OneEntryThreeKeys
    <3> QED BY <2>1, <3>1 DEF unregister_by_fd, Registry
  <2>2. CASE r.by_fd[f] # None
    <3> DEFINE m == r.by_fd[f].name
    <3>1. m \in Agents /\ r.by_name[m] = r.by_fd[f] /\ r.by_name[m].fd = f
      BY <2>2 DEF Registry, AgentEntry, OneEntryThreeKeys
    <3>2. unregister_by_fd(r, f) = remove_entry(r, r.by_name[m])
      BY <2>2, <3>1 DEF unregister_by_fd
    <3>3. \A n \in Agents : r.by_name[n] # None /\ r.by_name[n].fd = f => n = m
      BY <3>1 DEF OneEntryThreeKeys
    <3>4. [r.by_name EXCEPT ![m] = None] =
            [n \in Agents |-> IF r.by_name[n] # None /\ r.by_name[n].fd = f
                              THEN None ELSE r.by_name[n]]
      BY <2>2, <3>1, <3>3 DEF Registry
    <3> QED BY <2>2, <3>1, <3>2, <3>4, RemoveEntry
  <2> QED BY <2>1, <2>2
<1> QED BY <1>1, <1>2

\* register_agent with an address and a descriptor that no other agent has.
LEMMA RegisterAgent ==
    ASSUME NEW r \in Registry, OneEntryThreeKeys(r),
           NEW n \in Agents, NEW i \in Ips, NEW f \in Fds,
           \A m \in Agents : r.by_name[m] # None /\ m # n =>
               r.by_name[m].virtual_ipv4 # i /\ r.by_name[m].fd # f
    PROVE  LET q == register_agent(r, n, i, f) IN
             /\ q \in Registry
             /\ OneEntryThreeKeys(q)
             /\ q.by_name = [r.by_name EXCEPT
                    ![n] = [name |-> n, virtual_ipv4 |-> i, fd |-> f]]
<1> DEFINE u == unregister_by_name(r, n)
           e == [name |-> n, virtual_ipv4 |-> i, fd |-> f]
           q == Insert(u, e)
<1>1. u \in Registry /\ OneEntryThreeKeys(u) /\ u.by_name = [r.by_name EXCEPT ![n] = None]
  BY Unregister
<1> HIDE DEF u
<1>2. e \in AgentEntry /\ e.name = n /\ e.virtual_ipv4 = i /\ e.fd = f
  BY DEF AgentEntry
<1>3. u.by_ipv4[i] = None /\ u.by_fd[f] = None
  <2>1. \A m \in Agents : u.by_name[m] # None =>
           u.by_name[m].virtual_ipv4 # i /\ u.by_name[m].fd # f
    BY <1>1 DEF Registry
  <2> QED BY <1>1, <2>1 DEF Registry, AgentEntry, OneEntryThreeKeys
<1> HIDE DEF e
<1>4. /\ q.by_ipv4 = [u.by_ipv4 EXCEPT ![i] = e]
      /\ q.by_fd = [u.by_fd EXCEPT ![f] = e]
      /\ q.by_name = [u.by_name EXCEPT ![n] = e]
  BY <1>2 DEF Insert
<1>5. q \in Registry
  BY <1>1, <1>2 DEF Insert, Registry
<1> HIDE DEF q
<1>6. ASSUME NEW j \in Ips, q.by_ipv4[j] # None
      PROVE  /\ q.by_ipv4[j].virtual_ipv4 = j
             /\ q.by_name[q.by_ipv4[j].name] = q.by_ipv4[j]
  BY <1>1, <1>2, <1>3, <1>4, <1>6 DEF Registry, AgentEntry, OneEntryThreeKeys
<1>7. ASSUME NEW g \in Fds, q.by_fd[g] # None
      PROVE  q.by_fd[g].fd = g /\ q.by_name[q.by_fd[g].name] = q.by_fd[g]
  BY <1>1, <1>2, <1>3, <1>4, <1>7 DEF Registry, AgentEntry, OneEntryThreeKeys
<1>8. ASSUME NEW m \in Agents, q.by_name[m] # None
      PROVE  /\ q.by_name[m].name = m
             /\ q.by_ipv4[q.by_name[m].virtual_ipv4] = q.by_name[m]
             /\ q.by_fd[q.by_name[m].fd] = q.by_name[m]
  BY <1>1, <1>2, <1>3, <1>4, <1>8 DEF Registry, AgentEntry, OneEntryThreeKeys
<1>9. OneEntryThreeKeys(q)
  BY <1>6, <1>7, <1>8 DEF OneEntryThreeKeys
<1>10. q.by_name = [r.by_name EXCEPT ![n] = e]
  BY <1>1, <1>2, <1>4 DEF Registry
<1> QED BY <1>5, <1>9, <1>10 DEF register_agent, u, e, q

-----------------------------------------------------------------------------
(***************************************************************************)
(* The configuration.                                                      *)
(***************************************************************************)

\* What the line of the pass is made of.
LEMMA LineFields ==
    ASSUME ConfigTypeOK, NEW p, NEW kinds, AtLine(p, kinds)
    PROVE  /\ pos \in 1 .. Len(lines) /\ lines[pos] \in Line
           /\ lines[pos].kind \in {"ip", "internet"} =>
                 lines[pos].first \in Agents /\ lines[pos].second \in Ips \cup {0}
           /\ lines[pos].kind = "agent" =>
                 lines[pos].first \in Agents /\ lines[pos].second \in Agents
<1>1. pos \in 1 .. Len(lines)
  BY DEF ConfigTypeOK, AtLine
<1>2. lines[pos] \in Line
  BY <1>1 DEF ConfigTypeOK
<1> QED BY <1>1, <1>2 DEF Line

\* Every step of load keeps the types of the Config.
LEMMA ConfigType ==
    ASSUME ConfigTypeOK, Load
    PROVE  ConfigTypeOK'
<1> USE EndpointAssumption DEF ConfigTypeOK, maps
<1>1. CASE CannotOpen
  BY <1>1 DEF CannotOpen
<1>2. ASSUME NEW file \in Files, Open(file)  PROVE ConfigTypeOK'
  BY <1>2, FileAssumption DEF Open, OpenWith
<1>3. CASE SkipLine
  BY <1>3 DEF SkipLine, NextLine
<1>4. CASE AssignIp
  <2>1. lines[pos].first \in Agents /\ lines[pos].second \in Ips
    BY <1>4, LineFields DEF AssignIp, AtLine, Assignable
  <2> QED BY <1>4, <2>1 DEF AssignIp, NextLine
<1>5. CASE RejectIp
  BY <1>5 DEF RejectIp, ReturnsFalse
<1>6. CASE SecondPass
  BY <1>6 DEF SecondPass
<1>7. CASE AllowInternet
  <2>1. name_to_ip[lines[pos].first] \in Ips /\ lines[pos].second \in Ips
    BY <1>7, LineFields DEF AllowInternet, AtLine, Allowable
  <2> QED BY <1>7, <2>1 DEF AllowInternet, NextLine
<1>8. CASE AllowAgents
  <2>1. name_to_ip[lines[pos].first] \in Ips /\ name_to_ip[lines[pos].second] \in Ips
    BY <1>8, LineFields DEF AllowAgents, AtLine, Allowable
  <2> QED BY <1>8, <2>1 DEF AllowAgents, NextLine
<1>9. CASE RejectRule
  BY <1>9 DEF RejectRule, ReturnsFalse
<1>10. CASE ReturnsTrue
  BY <1>10 DEF ReturnsTrue
<1> QED BY <1>1, <1>2, <1>3, <1>4, <1>5, <1>6, <1>7, <1>8, <1>9, <1>10 DEF Load

\* Every step of load keeps names and addresses inverse and the rules two-way.
LEMMA ConfigMaps ==
    ASSUME ConfigTypeOK, MapsAgree, Load
    PROVE  MapsAgree'
<1> USE EndpointAssumption
<1>1. ASSUME UNCHANGED maps  PROVE MapsAgree'
  BY <1>1 DEF MapsAgree, maps
<1>2. ASSUME NEW file \in Files, Open(file)  PROVE MapsAgree'
  BY <1>2 DEF Open, OpenWith, MapsAgree
<1>3. CASE AssignIp
  <2> DEFINE l == lines[pos]
  <2>1. /\ l.first \in Agents /\ l.second \in Ips
        /\ ip_to_name[l.second] = None /\ name_to_ip[l.first] = 0
    BY <1>3, LineFields DEF AssignIp, AtLine, Assignable
  <2>2. /\ name_to_ip' = [name_to_ip EXCEPT ![l.first] = l.second]
        /\ ip_to_name' = [ip_to_name EXCEPT ![l.second] = l.first]
        /\ UNCHANGED <<agent_acl, internet_acl>>
    BY <1>3 DEF AssignIp
  <2> HIDE DEF l
  <2>3. \A n \in Agents, i \in Ips : name_to_ip'[n] = i <=> ip_to_name'[i] = n
    BY <2>1, <2>2 DEF MapsAgree, ConfigTypeOK
  <2>4. \A i \in Ips : ip_to_name[i] # None => ip_to_name'[i] # None
    BY <2>1, <2>2 DEF ConfigTypeOK
  <2>5. \A p \in agent_acl :
           /\ ip_to_name'[p[1]] # None /\ ip_to_name'[p[2]] # None
           /\ <<p[2], p[1]>> \in agent_acl
    <3> TAKE p \in agent_acl
    <3>1. p[1] \in Ips /\ p[2] \in Ips
      BY DEF ConfigTypeOK
    <3>2. ip_to_name[p[1]] # None /\ ip_to_name[p[2]] # None /\ <<p[2], p[1]>> \in agent_acl
      BY DEF MapsAgree
    <3> QED BY <2>4, <3>1, <3>2
  <2>6. \A p \in internet_acl : ip_to_name'[p[1]] # None
    <3> TAKE p \in internet_acl
    <3>1. p[1] \in Ips
      BY DEF ConfigTypeOK
    <3>2. ip_to_name[p[1]] # None
      BY DEF MapsAgree
    <3> QED BY <2>4, <3>1, <3>2
  <2> QED BY <2>2, <2>3, <2>5, <2>6 DEF MapsAgree
<1>4. CASE AllowInternet
  <2> DEFINE x == name_to_ip[lines[pos].first]
  <2>1. lines[pos].first \in Agents /\ x \in Ips
    BY <1>4, LineFields DEF AllowInternet, AtLine, Allowable, ConfigTypeOK
  <2>2. ip_to_name[x] # None
    BY <2>1 DEF MapsAgree
  <2> QED BY <1>4, <2>2 DEF AllowInternet, MapsAgree
<1>5. CASE AllowAgents
  <2> DEFINE x == name_to_ip[lines[pos].first]
             y == name_to_ip[lines[pos].second]
  <2>1. /\ lines[pos].first \in Agents /\ x \in Ips
        /\ lines[pos].second \in Agents /\ y \in Ips
    BY <1>5, LineFields DEF AllowAgents, AtLine, Allowable, ConfigTypeOK
  <2>2. ip_to_name[x] # None /\ ip_to_name[y] # None
    BY <2>1 DEF MapsAgree
  <2>3. agent_acl' = agent_acl \cup {<<x, y>>, <<y, x>>}
    BY <1>5 DEF AllowAgents
  <2> QED BY <1>5, <2>2, <2>3 DEF AllowAgents, MapsAgree
<1>6. ASSUME \/ CannotOpen \/ SkipLine \/ RejectIp \/ SecondPass \/ RejectRule \/ ReturnsTrue
      PROVE  UNCHANGED maps
  BY <1>6 DEF CannotOpen, SkipLine, RejectIp, SecondPass, RejectRule, ReturnsTrue,
              ReturnsFalse
<1> QED BY <1>1, <1>2, <1>3, <1>4, <1>5, <1>6 DEF Load

-----------------------------------------------------------------------------
(***************************************************************************)
(* The inductive invariant.  Two facts are added to what the run checks:   *)
(* nobody is connected before the BlackBoxes are built (so load may change *)
(* addresses), and a packet between two switches was allowed by the first  *)
(* one (the second one looks at nothing but the destination).              *)
(***************************************************************************)
Unbuilt ==
    ~built =>
        /\ \A s \in Switches : registry[s] = EmptyRegistry
        /\ \A s \in Switches, f \in Fds : conn[s][f] = None
        /\ wire = None
WireOK ==
    wire # None =>
        /\ name_to_ip[wire.from] = wire.packet.src
        /\ <<wire.packet.src, wire.packet.dst>> \in agent_acl
IInv ==
    /\ TypeOK
    /\ MapsAgree
    /\ Unbuilt
    /\ RegistryExact
    /\ RoutesLive
    /\ WireOK

\* A client is not a peer, neither is None, and what they are made of.
LEMMA ConnKinds ==
    /\ None \notin Client /\ None \notin Peer
    /\ \A c \in Client : c \notin Peer /\ c.agent \in Agents /\ c.authenticated \in BOOLEAN
    /\ \A n \in Agents : /\ [agent |-> n, authenticated |-> TRUE] \in Client
                        /\ [agent |-> n, authenticated |-> FALSE] \in Client
    /\ \A t \in Switches : [switch |-> t] \in Peer
<1>1. None \notin Client /\ None \notin Peer
  BY ConnAssumption
<1>2. ASSUME NEW c \in Client  PROVE c \notin Peer
  <2>1. DOMAIN c = {"agent", "authenticated"}
    BY DEF Client
  <2>2. c \in Peer => DOMAIN c = {"switch"}
    BY DEF Peer
  <2>3. "agent" # "switch"
    OBVIOUS
  <2> QED BY <2>1, <2>2, <2>3
<1> QED BY <1>1, <1>2 DEF Client, Peer

\* What the entries of a registry say about connections and addresses.
LEMMA EntryFacts ==
    ASSUME TypeOK, RegistryExact, NEW s \in Switches
    PROVE  /\ \A n \in Agents : registry[s].by_name[n] # None =>
                 LET e == registry[s].by_name[n] IN
                   /\ e \in AgentEntry /\ e.fd \in Fds /\ e.name = n
                   /\ conn[s][e.fd] = [agent |-> n, authenticated |-> TRUE]
                   /\ name_to_ip[n] = e.virtual_ipv4
           /\ \A i \in Ips : registry[s].by_ipv4[i] # None =>
                 LET e == registry[s].by_ipv4[i] IN
                   /\ e.fd \in Fds /\ e.name \in Agents /\ registry[s].by_fd[e.fd] = e
                   /\ conn[s][e.fd].agent = e.name
                   /\ name_to_ip[e.name] = i /\ e.virtual_ipv4 = i
           /\ \A f \in Fds : registry[s].by_fd[f] # None =>
                 LET e == registry[s].by_fd[f] IN
                   /\ e.fd = f /\ e.name \in Agents /\ e.virtual_ipv4 \in Ips
                   /\ registry[s].by_ipv4[e.virtual_ipv4] = e
                   /\ conn[s][f].agent = e.name
                   /\ name_to_ip[e.name] = e.virtual_ipv4
<1> DEFINE r == registry[s]
<1>1. r \in Registry /\ OneEntryThreeKeys(r)
  BY DEF TypeOK, RegistryExact
<1>2. \A n \in Agents : r.by_name[n] # None =>
         /\ conn[s][r.by_name[n].fd] = [agent |-> n, authenticated |-> TRUE]
         /\ r.by_name[n].virtual_ipv4 = name_to_ip[n]
  BY DEF RegistryExact
<1> HIDE DEF r
<1>3. ASSUME NEW n \in Agents, r.by_name[n] # None
      PROVE  LET e == r.by_name[n] IN
               /\ e \in AgentEntry /\ e.fd \in Fds /\ e.name = n
               /\ conn[s][e.fd] = [agent |-> n, authenticated |-> TRUE]
               /\ name_to_ip[n] = e.virtual_ipv4
  BY <1>1, <1>2, <1>3 DEF Registry, AgentEntry, OneEntryThreeKeys
<1>4. ASSUME NEW i \in Ips, r.by_ipv4[i] # None
      PROVE  LET e == r.by_ipv4[i] IN
               /\ e.fd \in Fds /\ e.name \in Agents /\ r.by_fd[e.fd] = e
               /\ conn[s][e.fd].agent = e.name
               /\ name_to_ip[e.name] = i /\ e.virtual_ipv4 = i
  <2> DEFINE e == r.by_ipv4[i]
  <2>1. e.fd \in Fds /\ e.name \in Agents
    BY <1>1, <1>4 DEF Registry, AgentEntry
  <2>2. r.by_name[e.name] = e /\ e.virtual_ipv4 = i
    BY <1>1, <1>4 DEF OneEntryThreeKeys
  <2>3. r.by_fd[e.fd] = e
    BY <1>1, <1>4, <2>1, <2>2 DEF OneEntryThreeKeys
  <2>4. /\ conn[s][e.fd] = [agent |-> e.name, authenticated |-> TRUE]
        /\ e.virtual_ipv4 = name_to_ip[e.name]
    BY <1>2, <1>4, <2>1, <2>2
  <2>5. conn[s][e.fd].agent = e.name
    BY <2>4
  <2> QED BY <2>1, <2>2, <2>3, <2>4, <2>5
<1>5. ASSUME NEW f \in Fds, r.by_fd[f] # None
      PROVE  LET e == r.by_fd[f] IN
               /\ e.fd = f /\ e.name \in Agents /\ e.virtual_ipv4 \in Ips
               /\ r.by_ipv4[e.virtual_ipv4] = e
               /\ conn[s][f].agent = e.name
               /\ name_to_ip[e.name] = e.virtual_ipv4
  <2> DEFINE e == r.by_fd[f]
  <2>1. e.virtual_ipv4 \in Ips /\ e.name \in Agents
    BY <1>1, <1>5 DEF Registry, AgentEntry
  <2>2. r.by_name[e.name] = e /\ e.fd = f
    BY <1>1, <1>5 DEF OneEntryThreeKeys
  <2>3. r.by_ipv4[e.virtual_ipv4] = e
    BY <1>1, <1>5, <2>1, <2>2 DEF OneEntryThreeKeys
  <2>4. /\ conn[s][e.fd] = [agent |-> e.name, authenticated |-> TRUE]
        /\ e.virtual_ipv4 = name_to_ip[e.name]
    BY <1>2, <1>5, <2>1, <2>2
  <2>5. conn[s][e.fd].agent = e.name
    BY <2>4
  <2> QED BY <2>1, <2>2, <2>3, <2>4, <2>5
<1> QED BY <1>3, <1>4, <1>5 DEF r

\* The agent behind the entry of an address has that address.
LEMMA AtAddress ==
    ASSUME TypeOK, RegistryExact, NEW s \in Switches, NEW i \in Ips,
           registry[s].by_ipv4[i] # None
    PROVE  name_to_ip[conn[s][registry[s].by_ipv4[i].fd].agent] = i
BY EntryFacts

-----------------------------------------------------------------------------
(***************************************************************************)
(* Decisions.                                                              *)
(***************************************************************************)

\* When route_to_destination delivers or forwards.
LEMMA RouteDecision ==
    ASSUME NEW s, NEW src, NEW dst
    PROVE  LET d == route_to_destination(s, src, dst) IN
             /\ d.action = "DELIVER_LOCAL" =>
                   /\ <<src, dst>> \in agent_acl /\ registry[s].by_ipv4[dst] # None
                   /\ d.target_fd = registry[s].by_ipv4[dst].fd
             /\ d.action = "FORWARD_SWITCH" =>
                   /\ <<src, dst>> \in agent_acl /\ routing[s][dst] # None
                   /\ d.target_fd = routing[s][dst]
             /\ d.action = "FORWARD_INTERNET" => <<src, dst>> \in internet_acl
<1> DEFINE d == route_to_destination(s, src, dst)
<1> USE DEF Decision, Drop, Deliver, can_agents_communicate, can_reach_internet_ip
<1>1. CASE ip_to_name[dst] # None /\ ~can_agents_communicate(src, dst)
  <2>1. d = Drop("ACL_DENIED")
    BY <1>1 DEF route_to_destination
  <2> QED BY <2>1
<1>2. CASE /\ ip_to_name[dst] # None /\ can_agents_communicate(src, dst)
           /\ registry[s].by_ipv4[dst] # None
  <2>1. d = Deliver(registry[s].by_ipv4[dst])
    BY <1>2 DEF route_to_destination
  <2> QED BY <1>2, <2>1
<1>3. CASE /\ ip_to_name[dst] # None /\ can_agents_communicate(src, dst)
           /\ registry[s].by_ipv4[dst] = None
  <2>1. d = IF routing[s][dst] # None THEN Decision("FORWARD_SWITCH", routing[s][dst], "NONE")
                                     ELSE Decision("REQUEST_ROUTE", None, "NONE")
    BY <1>3 DEF route_to_destination
  <2> QED BY <1>3, <2>1
<1>4. CASE ip_to_name[dst] = None
  <2>1. CASE s \notin TunSwitches
    <3>1. d = Drop("DEST_UNREACHABLE")
      BY <1>4, <2>1 DEF route_to_destination
    <3> QED BY <3>1
  <2>2. CASE s \in TunSwitches /\ ~can_reach_internet_ip(src, dst)
    <3>1. d = Drop("ACL_DENIED")
      BY <1>4, <2>2 DEF route_to_destination
    <3> QED BY <3>1
  <2>3. CASE s \in TunSwitches /\ can_reach_internet_ip(src, dst)
    <3>1. d = Decision("FORWARD_INTERNET", None, "NONE")
      BY <1>4, <2>3 DEF route_to_destination
    <3> QED BY <2>3, <3>1
  <2> QED BY <2>1, <2>2, <2>3
<1> QED BY <1>1, <1>2, <1>3, <1>4

\* A packet of an agent that is not dropped is its own, and parses.
LEMMA AgentDecision ==
    ASSUME NEW s, NEW f, NEW p, process(s, "AGENT", f, p).action # "DROP"
    PROVE  /\ ipv4_parse(p.raw)
           /\ registry[s].by_fd[f] # None /\ p.src = registry[s].by_fd[f].virtual_ipv4
           /\ process(s, "AGENT", f, p) = route_to_destination(s, p.src, p.dst)
<1>1. Drop("MALFORMED_PACKET").action = "DROP" /\ Drop("SOURCE_UNKNOWN").action = "DROP"
      /\ Drop("SOURCE_SPOOF").action = "DROP"
  BY DEF Drop, Decision
<1>2. ipv4_parse(p.raw)
  BY <1>1 DEF process
<1>3. process(s, "AGENT", f, p) = process_from_agent(s, f, p)
  BY <1>2 DEF process
<1> QED BY <1>1, <1>2, <1>3 DEF process_from_agent

\* A packet from another switch, or from the TUN, that is delivered.
LEMMA OtherDecision ==
    ASSUME NEW s, NEW p
    PROVE  /\ process(s, "SWITCH", None, p).action # "FORWARD_INTERNET"
           /\ process(s, "SWITCH", None, p).action = "DELIVER_LOCAL" =>
                /\ registry[s].by_ipv4[p.dst] # None
                /\ process(s, "SWITCH", None, p).target_fd = registry[s].by_ipv4[p.dst].fd
           /\ process(s, "TUN", None, p).action = "DELIVER_LOCAL" =>
                /\ registry[s].by_ipv4[p.dst] # None
                /\ process(s, "TUN", None, p).target_fd = registry[s].by_ipv4[p.dst].fd
                /\ <<p.dst, p.src>> \in internet_acl
<1> USE DEF Drop, Deliver, Decision
<1>1. CASE ~ipv4_parse(p.raw)
  <2>1. /\ process(s, "SWITCH", None, p) = Drop("MALFORMED_PACKET")
        /\ process(s, "TUN", None, p) = Drop("MALFORMED_PACKET")
    BY <1>1 DEF process
  <2> QED BY <2>1
<1>2. CASE ipv4_parse(p.raw)
  <2>1. /\ process(s, "SWITCH", None, p) = process_from_switch(s, p)
        /\ process(s, "TUN", None, p) = process_from_tun(s, p)
    BY <1>2 DEF process
  <2> QED BY <2>1 DEF process_from_switch, process_from_tun, can_reach_internet_ip
<1> QED BY <1>1, <1>2

-----------------------------------------------------------------------------
(***************************************************************************)
(* Steps.                                                                  *)
(***************************************************************************)

\* In the initial state nobody is connected and nothing is loaded.
LEMMA InitHolds == Init => IInv
<1> SUFFICES ASSUME Init PROVE IInv
  OBVIOUS
<1> USE EndpointAssumption DEF Init, ConfigInit
<1>1. TypeOK
  <2>1. ConfigTypeOK
    BY DEF ConfigTypeOK
  <2>2. registry \in [Switches -> Registry]
    BY EmptyRegistryOK
  <2>3. routing \in [Switches -> Routes]
    BY DEF NoRoutes, Routes
  <2> QED BY <2>1, <2>2, <2>3 DEF TypeOK
<1>2. MapsAgree
  BY DEF MapsAgree
<1>3. RegistryExact
  <2>1. ASSUME NEW s \in Switches, NEW n \in Agents
        PROVE  registry[s] = EmptyRegistry /\ registry[s].by_name[n] = None
    BY DEF EmptyRegistry
  <2> QED BY <2>1, EmptyRegistryOK DEF RegistryExact
<1>4. RoutesLive
  BY DEF RoutesLive, NoRoutes
<1> QED BY <1>1, <1>2, <1>3, <1>4 DEF IInv, Unbuilt, WireOK

\* load, while nothing else is there: no entry and no packet has an old address.
LEMMA LoadsStep ==
    ASSUME IInv, LoadsConfig
    PROVE  IInv'
<1> USE DEF LoadsConfig, box_vars, IInv
<1>1. TypeOK'
  BY ConfigType DEF TypeOK
<1>2. MapsAgree'
  BY ConfigMaps DEF TypeOK
<1>3. Unbuilt'
  BY DEF Unbuilt
<1>4. RegistryExact'
  <2>1. ASSUME NEW s \in Switches, NEW n \in Agents
        PROVE  registry'[s] = EmptyRegistry /\ registry'[s].by_name[n] = None
    BY DEF Unbuilt, EmptyRegistry
  <2> QED BY <2>1, EmptyRegistryOK DEF RegistryExact, OneEntryThreeKeys
<1>5. RoutesLive'
  BY DEF RoutesLive
<1>6. WireOK'
  BY DEF WireOK, Unbuilt
<1> QED BY <1>1, <1>2, <1>3, <1>4, <1>5, <1>6

\* The steps that leave the maps, the registries and the routes alone, and
\* connections that a registry or a route may speak of.
LEMMA SteadyStep ==
    ASSUME IInv, TypeOK', Unbuilt', WireOK',
           UNCHANGED <<maps, registry, routing>>,
           \A s \in Switches, f \in Fds : conn[s][f] # None => conn'[s][f] = conn[s][f]
    PROVE  IInv'
<1> USE DEF IInv, maps
<1>1. MapsAgree'
  BY DEF MapsAgree
<1>2. RegistryExact'
  <2>1. ASSUME NEW s \in Switches  PROVE OneEntryThreeKeys(registry'[s])
    BY DEF RegistryExact
  <2>2. ASSUME NEW s \in Switches, NEW n \in Agents, registry'[s].by_name[n] # None
        PROVE  /\ conn'[s][registry'[s].by_name[n].fd] = [agent |-> n, authenticated |-> TRUE]
               /\ registry'[s].by_name[n].virtual_ipv4 = name_to_ip'[n]
    <3> DEFINE e == registry[s].by_name[n]
    <3>1. /\ e.fd \in Fds /\ conn[s][e.fd] = [agent |-> n, authenticated |-> TRUE]
          /\ name_to_ip[n] = e.virtual_ipv4
      BY <2>2, EntryFacts
    <3>2. [agent |-> n, authenticated |-> TRUE] # None
      BY ConnKinds
    <3>3. conn[s][e.fd] # None
      BY <3>1, <3>2
    <3> QED BY <3>1, <3>3
  <2> QED BY <2>1, <2>2 DEF RegistryExact
<1>3. RoutesLive'
  <2>1. ASSUME NEW s \in Switches, NEW i \in Ips, routing'[s][i] # None
        PROVE  IsPeer(conn'[s][routing'[s][i]])
    <3>1. routing[s][i] \in Fds
      BY <2>1 DEF TypeOK, Routes
    <3>2. IsPeer(conn[s][routing[s][i]])
      BY <2>1 DEF RoutesLive
    <3>3. conn[s][routing[s][i]] # None
      BY <3>2, ConnKinds DEF IsPeer
    <3> QED BY <3>1, <3>2, <3>3
  <2> QED BY <2>1 DEF RoutesLive
<1> QED BY <1>1, <1>2, <1>3

\* The constructor.
LEMMA ConstructStep ==
    ASSUME IInv, Construct
    PROVE  IInv'
<1> USE DEF IInv, Construct, maps
<1>1. TypeOK'
  BY DEF TypeOK, ConfigTypeOK
<1>2. Unbuilt' /\ WireOK'
  BY DEF Unbuilt, WireOK
<1> QED BY <1>1, <1>2, SteadyStep

\* A connection on a free descriptor, of an agent or of a switch.
LEMMA ConnectionStep ==
    ASSUME IInv, NEW s \in Switches, NEW f \in Fds, NEW c \in Client \cup Peer,
           built, conn[s][f] = None,
           conn' = [conn EXCEPT ![s][f] = c],
           UNCHANGED <<config_vars, box_vars, wire>>
    PROVE  IInv'
<1> USE DEF IInv, config_vars, maps, box_vars
<1>1. TypeOK'
  BY DEF TypeOK, ConfigTypeOK
<1>2. Unbuilt' /\ WireOK'
  BY DEF Unbuilt, WireOK
<1>3. \A t \in Switches, g \in Fds : conn[t][g] # None => conn'[t][g] = conn[t][g]
  BY DEF TypeOK
<1> QED BY <1>1, <1>2, <1>3, SteadyStep

\* The connection f of s becomes c, and the registry of s becomes r.
Becomes(s, f, r, c) ==
    /\ IsClient(conn[s][f])
    /\ registry' = [registry EXCEPT ![s] = r]
    /\ conn' = [conn EXCEPT ![s][f] = c]
    /\ UNCHANGED <<config_vars, built, routing, wire>>
\* Every entry of r is an old one of another descriptor, or the new one of c's agent.
Entries(s, f, r, c) ==
    \A n \in Agents : r.by_name[n] # None =>
        \/ r.by_name[n] = registry[s].by_name[n] /\ r.by_name[n].fd # f
        \/ /\ c = [agent |-> n, authenticated |-> TRUE]
           /\ r.by_name[n].fd = f /\ r.by_name[n].virtual_ipv4 = name_to_ip[n]

\* A connection of an agent changes its state or closes, and the registry with it.
LEMMA RegistryStep ==
    ASSUME IInv, NEW s \in Switches, NEW f \in Fds,
           NEW r \in Registry, OneEntryThreeKeys(r),
           NEW c \in Client \cup {None}, Becomes(s, f, r, c), Entries(s, f, r, c)
    PROVE  IInv'
<1> USE DEF IInv, config_vars, maps, Becomes
<1>1. TypeOK'
  BY DEF TypeOK, ConfigTypeOK
<1>2. MapsAgree' /\ WireOK'
  BY DEF MapsAgree, WireOK
<1>3. Unbuilt'
  BY ConnKinds DEF Unbuilt, IsClient
<1>4. \A t \in Switches, g \in Fds :
         conn'[t][g] = IF t = s /\ g = f THEN c ELSE conn[t][g]
  BY DEF TypeOK
<1>5. \A t \in Switches : registry'[t] = IF t = s THEN r ELSE registry[t]
  BY DEF TypeOK
<1>6. RegistryExact'
  <2>1. ASSUME NEW t \in Switches  PROVE OneEntryThreeKeys(registry'[t])
    BY <1>5 DEF RegistryExact
  <2>2. ASSUME NEW t \in Switches, NEW n \in Agents, registry'[t].by_name[n] # None
        PROVE  /\ conn'[t][registry'[t].by_name[n].fd] = [agent |-> n, authenticated |-> TRUE]
               /\ registry'[t].by_name[n].virtual_ipv4 = name_to_ip'[n]
    <3> DEFINE e == registry[t].by_name[n]
    <3>1. CASE registry'[t].by_name[n] = e /\ (t # s \/ e.fd # f)
      <4>1. /\ e.fd \in Fds /\ conn[t][e.fd] = [agent |-> n, authenticated |-> TRUE]
            /\ name_to_ip[n] = e.virtual_ipv4
        BY <2>2, <3>1, EntryFacts
      <4> QED BY <3>1, <4>1, <1>4
    <3>2. CASE t = s /\ ~(registry'[t].by_name[n] = e /\ e.fd # f)
      <4>1. /\ c = [agent |-> n, authenticated |-> TRUE] /\ r.by_name[n].fd = f
            /\ r.by_name[n].virtual_ipv4 = name_to_ip[n]
        BY <1>5, <2>2, <3>2 DEF Entries
      <4>2. registry'[t].by_name[n] = r.by_name[n] /\ conn'[t][f] = c
        BY <1>4, <1>5, <3>2
      <4> QED BY <4>1, <4>2
    <3> QED BY <1>5, <3>1, <3>2
  <2> QED BY <2>1, <2>2 DEF RegistryExact
<1>7. RoutesLive'
  <2>1. ASSUME NEW t \in Switches, NEW i \in Ips, routing'[t][i] # None
        PROVE  IsPeer(conn'[t][routing'[t][i]])
    <3>1. routing[t][i] \in Fds /\ IsPeer(conn[t][routing[t][i]])
      BY <2>1 DEF TypeOK, Routes, RoutesLive
    <3>2. ~(t = s /\ routing[t][i] = f)
      BY <3>1, ConnKinds DEF IsPeer, IsClient
    <3> QED BY <1>4, <3>1, <3>2
  <2> QED BY <2>1 DEF RoutesLive
<1> QED BY <1>1, <1>2, <1>3, <1>6, <1>7

\* What authentication makes of the connection.
LEMMA Authenticated ==
    ASSUME IInv, NEW s \in Switches, NEW f \in Fds, NEW r, AuthenticatedWith(s, f, r)
    PROVE  LET n == conn[s][f].agent IN
             /\ n \in Agents /\ [agent |-> n, authenticated |-> TRUE] \in Client
             /\ conn' = [conn EXCEPT ![s][f] = [agent |-> n, authenticated |-> TRUE]]
             /\ \A m \in Agents : registry[s].by_name[m] # None =>
                    registry[s].by_name[m].fd # f
<1> DEFINE c == conn[s][f]
           n == c.agent
<1>1. c \in Client /\ n \in Agents /\ ~c.authenticated
  BY ConnKinds DEF AuthenticatedWith, IsClient
<1>2. [c EXCEPT !.authenticated = TRUE] = [agent |-> n, authenticated |-> TRUE]
  <2>1. ASSUME NEW v  PROVE [c EXCEPT !.authenticated = v] = [agent |-> n, authenticated |-> v]
    BY <1>1 DEF Client
  <2> QED BY <2>1, Zenon
<1>3. conn' = [conn EXCEPT ![s][f] = [c EXCEPT !.authenticated = TRUE]]
  BY DEF AuthenticatedWith
<1>4. \A m \in Agents : registry[s].by_name[m] # None => registry[s].by_name[m].fd # f
  <2> SUFFICES ASSUME NEW m \in Agents, registry[s].by_name[m] # None,
                      registry[s].by_name[m].fd = f
               PROVE  FALSE
    OBVIOUS
  <2>1. c = [agent |-> m, authenticated |-> TRUE]
    BY EntryFacts DEF IInv
  <2>2. c.authenticated
    BY <2>1
  <2> QED BY <1>1, <2>2
<1> QED BY <1>1, <1>2, <1>3, <1>4, ConnKinds

\* An agent authenticates: registered, or refused because it has no address.
LEMMA AuthenticatedStep ==
    ASSUME IInv, NEW s \in Switches, NEW f \in Fds, on_agent_authenticated(s, f)
    PROVE  IInv'
<1> DEFINE n == conn[s][f].agent
           r == IF name_to_ip[n] = 0 THEN registry[s]
                ELSE register_agent(registry[s], n, name_to_ip[n], f)
           c == [agent |-> n, authenticated |-> TRUE]
<1>1. AuthenticatedWith(s, f, r)
  BY DEF on_agent_authenticated
<1>2. /\ n \in Agents /\ c \in Client
      /\ conn' = [conn EXCEPT ![s][f] = c]
      /\ \A m \in Agents : registry[s].by_name[m] # None => registry[s].by_name[m].fd # f
  BY <1>1, Authenticated
<1>3. registry[s] \in Registry /\ OneEntryThreeKeys(registry[s])
  BY DEF IInv, TypeOK, RegistryExact
<1>4. /\ r \in Registry /\ OneEntryThreeKeys(r)
      /\ Entries(s, f, r, c)
  <2>1. CASE name_to_ip[n] = 0
    <3>1. r = registry[s]
      BY <2>1
    <3> QED BY <1>2, <1>3, <3>1 DEF Entries
  <2>2. CASE name_to_ip[n] # 0
    <3> DEFINE i == name_to_ip[n]
    <3>1. i \in Ips
      BY <1>2, <2>2 DEF IInv, TypeOK, ConfigTypeOK
    <3>2. ASSUME NEW m \in Agents, registry[s].by_name[m] # None, m # n
          PROVE  registry[s].by_name[m].virtual_ipv4 # i /\ registry[s].by_name[m].fd # f
      <4>1. registry[s].by_name[m].virtual_ipv4 = name_to_ip[m]
        BY <3>2, EntryFacts DEF IInv
      <4>2. name_to_ip[m] # i
        BY <1>2, <3>1, <3>2 DEF IInv, MapsAgree
      <4> QED BY <1>2, <3>2, <4>1, <4>2
    <3>3. r = register_agent(registry[s], n, i, f)
      BY <2>2
    <3>4. /\ r \in Registry /\ OneEntryThreeKeys(r)
          /\ r.by_name = [registry[s].by_name EXCEPT
                            ![n] = [name |-> n, virtual_ipv4 |-> i, fd |-> f]]
      BY <1>2, <1>3, <3>1, <3>2, <3>3, RegisterAgent
    <3> HIDE DEF r, c
    <3>5. ASSUME NEW m \in Agents, r.by_name[m] # None, m # n
          PROVE  r.by_name[m] = registry[s].by_name[m] /\ r.by_name[m].fd # f
      BY <1>2, <1>3, <3>4, <3>5 DEF Registry
    <3>6. r.by_name[n].fd = f /\ r.by_name[n].virtual_ipv4 = name_to_ip[n]
      BY <1>2, <1>3, <3>4 DEF Registry
    <3> QED BY <3>4, <3>5, <3>6 DEF c, Entries
  <2> QED BY <2>1, <2>2
<1>5. Becomes(s, f, r, c)
  BY <1>1, <1>2 DEF AuthenticatedWith, Becomes
<1> HIDE DEF r, c, n
<1> QED BY <1>2, <1>4, <1>5, RegistryStep

\* The entry cannot be allocated.
LEMMA NoMemoryStep ==
    ASSUME IInv, NEW s \in Switches, NEW f \in Fds, on_agent_authenticated_NoMemory(s, f)
    PROVE  IInv'
<1> DEFINE n == conn[s][f].agent
           r == unregister_by_name(registry[s], n)
           c == [agent |-> n, authenticated |-> TRUE]
<1>1. AuthenticatedWith(s, f, r)
  BY DEF on_agent_authenticated_NoMemory
<1>2. /\ n \in Agents /\ c \in Client
      /\ conn' = [conn EXCEPT ![s][f] = c]
      /\ \A m \in Agents : registry[s].by_name[m] # None => registry[s].by_name[m].fd # f
  BY <1>1, Authenticated
<1>3. registry[s] \in Registry /\ OneEntryThreeKeys(registry[s])
  BY DEF IInv, TypeOK, RegistryExact
<1>4. /\ r \in Registry /\ OneEntryThreeKeys(r)
      /\ r.by_name = [registry[s].by_name EXCEPT ![n] = None]
  BY <1>2, <1>3, Unregister
<1>5. Becomes(s, f, r, c)
  BY <1>1, <1>2 DEF AuthenticatedWith, Becomes
<1> HIDE DEF r, c, n
<1>6. ASSUME NEW m \in Agents, r.by_name[m] # None
      PROVE  r.by_name[m] = registry[s].by_name[m] /\ r.by_name[m].fd # f
  BY <1>2, <1>3, <1>4, <1>6 DEF Registry
<1>7. Entries(s, f, r, c)
  BY <1>6 DEF Entries
<1> QED BY <1>2, <1>4, <1>5, <1>7, RegistryStep

\* The connection of an agent closes.
LEMMA DisconnectedStep ==
    ASSUME IInv, NEW s \in Switches, NEW f \in Fds, on_agent_disconnected(s, f)
    PROVE  IInv'
<1> DEFINE r == unregister_by_fd(registry[s], f)
<1>1. Becomes(s, f, r, None)
  BY DEF on_agent_disconnected, DisconnectedWith, Becomes
<1>2. registry[s] \in Registry /\ OneEntryThreeKeys(registry[s])
  BY DEF IInv, TypeOK, RegistryExact
<1>3. /\ r \in Registry /\ OneEntryThreeKeys(r)
      /\ r.by_name = [n \in Agents |->
             IF registry[s].by_name[n] # None /\ registry[s].by_name[n].fd = f
             THEN None ELSE registry[s].by_name[n]]
  BY <1>2, Unregister
<1> HIDE DEF r
<1>4. ASSUME NEW m \in Agents, r.by_name[m] # None
      PROVE  r.by_name[m] = registry[s].by_name[m] /\ r.by_name[m].fd # f
  BY <1>3, <1>4
<1>5. Entries(s, f, r, None)
  BY <1>4 DEF Entries
<1> QED BY <1>1, <1>3, <1>5, RegistryStep

\* The routes and the connections of switches: the registries speak of clients.
LEMMA RoutingStep ==
    ASSUME IInv, NEW s \in Switches, NEW f \in Fds, NEW t \in Routes,
           built \/ IsPeer(conn[s][f]),
           routing' = [routing EXCEPT ![s] = t],
           \/ UNCHANGED conn
           \/ IsPeer(conn[s][f]) /\ conn' = [conn EXCEPT ![s][f] = None],
           \A i \in Ips : t[i] # None => IsPeer(conn'[s][t[i]]),
           \A u \in Switches, i \in Ips : u # s /\ routing[u][i] # None =>
               IsPeer(conn'[u][routing[u][i]]),
           UNCHANGED <<config_vars, built, registry, wire>>
    PROVE  IInv'
<1> USE DEF IInv, config_vars, maps
<1>1. TypeOK'
  <2>1. conn' \in [Switches -> [Fds -> Client \cup Peer \cup {None}]]
    <3>1. CASE UNCHANGED conn
      BY <3>1 DEF TypeOK
    <3>2. CASE conn' = [conn EXCEPT ![s][f] = None]
      BY <3>2 DEF TypeOK
    <3> QED BY <3>1, <3>2
  <2>2. routing' \in [Switches -> Routes]
    BY DEF TypeOK
  <2>3. ConfigTypeOK'
    BY DEF TypeOK, ConfigTypeOK
  <2> QED BY <2>1, <2>2, <2>3 DEF TypeOK
<1>2. MapsAgree' /\ WireOK'
  BY DEF MapsAgree, WireOK
<1>3. Unbuilt'
  BY ConnKinds DEF Unbuilt, IsPeer
<1>4. RegistryExact'
  <2>1. ASSUME NEW u \in Switches  PROVE OneEntryThreeKeys(registry'[u])
    BY DEF RegistryExact
  <2>2. ASSUME NEW u \in Switches, NEW n \in Agents, registry'[u].by_name[n] # None
        PROVE  /\ conn'[u][registry'[u].by_name[n].fd] = [agent |-> n, authenticated |-> TRUE]
               /\ registry'[u].by_name[n].virtual_ipv4 = name_to_ip'[n]
    <3> DEFINE e == registry[u].by_name[n]
    <3>1. /\ e.fd \in Fds /\ conn[u][e.fd] = [agent |-> n, authenticated |-> TRUE]
          /\ name_to_ip[n] = e.virtual_ipv4
      BY <2>2, EntryFacts
    <3>2. conn[u][e.fd] \notin Peer
      BY <3>1, ConnKinds
    <3>3. conn'[u][e.fd] = conn[u][e.fd]
      BY <3>1, <3>2 DEF TypeOK, IsPeer
    <3> QED BY <3>1, <3>3
  <2> QED BY <2>1, <2>2 DEF RegistryExact
<1>5. RoutesLive'
  <2>1. \A u \in Switches : routing'[u] = IF u = s THEN t ELSE routing[u]
    BY DEF TypeOK
  <2> QED BY <2>1 DEF RoutesLive
<1> QED BY <1>1, <1>2, <1>3, <1>4, <1>5

\* The connection to another switch closes, and its routes go with it.
LEMMA SwitchDisconnectedStep ==
    ASSUME IInv, NEW s \in Switches, NEW f \in Fds, on_switch_disconnected(s, f)
    PROVE  IInv'
<1> DEFINE t == remove_routes_for_switch(routing[s], f)
<1>1. /\ IsPeer(conn[s][f]) /\ routing' = [routing EXCEPT ![s] = t]
      /\ conn' = [conn EXCEPT ![s][f] = None]
      /\ UNCHANGED <<config_vars, built, registry, wire>>
  BY DEF on_switch_disconnected, IInv, TypeOK
<1>2. t \in Routes
  BY DEF IInv, TypeOK, Routes, remove_routes_for_switch
<1>3. ASSUME NEW i \in Ips, t[i] # None  PROVE IsPeer(conn'[s][t[i]])
  <2>1. t[i] = routing[s][i] /\ t[i] # f /\ t[i] \in Fds
    BY <1>3, <1>2 DEF remove_routes_for_switch, Routes
  <2>2. IsPeer(conn[s][t[i]])
    BY <1>3, <2>1 DEF IInv, RoutesLive
  <2> QED BY <1>1, <2>1, <2>2 DEF IInv, TypeOK
<1>4. ASSUME NEW u \in Switches, NEW i \in Ips, u # s, routing[u][i] # None
      PROVE  IsPeer(conn'[u][routing[u][i]])
  BY <1>1, <1>4 DEF IInv, TypeOK, RoutesLive
<1> HIDE DEF t
<1> QED BY <1>1, <1>2, <1>3, <1>4, RoutingStep

\* The conductor names the next switch.
LEMMA RouteUpdateStep ==
    ASSUME IInv, NEW s \in Switches, NEW f \in Fds, NEW dst \in Ips,
           on_route_update(s, dst, f)
    PROVE  IInv'
<1> DEFINE t == set_route(routing[s], dst, f)
<1>1. /\ IsPeer(conn[s][f]) /\ routing' = [routing EXCEPT ![s] = t]
      /\ UNCHANGED <<config_vars, built, registry, conn, wire>>
  BY DEF on_route_update, IInv, TypeOK
<1>2. t \in Routes
  BY DEF IInv, TypeOK, Routes, set_route
<1>3. ASSUME NEW i \in Ips, t[i] # None  PROVE IsPeer(conn'[s][t[i]])
  <2>1. t[i] = f \/ t[i] = routing[s][i]
    BY DEF set_route, IInv, TypeOK, Routes
  <2> QED BY <1>1, <1>3, <2>1 DEF IInv, RoutesLive
<1>4. ASSUME NEW u \in Switches, NEW i \in Ips, u # s, routing[u][i] # None
      PROVE  IsPeer(conn'[u][routing[u][i]])
  BY <1>1, <1>4 DEF IInv, RoutesLive
<1> HIDE DEF t
<1> QED BY <1>1, <1>2, <1>3, <1>4, RoutingStep

\* The conductor says that an address is gone.
LEMMA RouteGoneStep ==
    ASSUME IInv, NEW s \in Switches, NEW dst \in Ips, on_route_update_Gone(s, dst)
    PROVE  IInv'
<1> USE DEF IInv, config_vars, maps, on_route_update_Gone, remove_route
<1>1. TypeOK'
  <2>1. routing' \in [Switches -> Routes]
    BY DEF TypeOK, Routes
  <2>2. ConfigTypeOK'
    BY DEF TypeOK, ConfigTypeOK
  <2> QED BY <2>1, <2>2 DEF TypeOK
<1>2. MapsAgree' /\ WireOK' /\ Unbuilt'
  BY DEF MapsAgree, WireOK, Unbuilt
<1>3. RegistryExact'
  BY DEF RegistryExact
<1>4. RoutesLive'
  <2>1. \A u \in Switches, i \in Ips : routing'[u][i] # None => routing'[u][i] = routing[u][i]
    BY DEF TypeOK, Routes
  <2> QED BY <2>1 DEF RoutesLive
<1> QED BY <1>1, <1>2, <1>3, <1>4

\* A packet goes to another switch: it is its sender's and there is a rule for it.
LEMMA ForwardsStep ==
    ASSUME IInv, NEW s \in Switches, NEW f \in Fds, NEW p \in Packet, Forwards(s, f, p)
    PROVE  IInv'
<1> DEFINE d == process(s, "AGENT", f, p)
           e == registry[s].by_fd[f]
<1>1. /\ IsClient(conn[s][f]) /\ d.action = "FORWARD_SWITCH"
      /\ wire' = [to |-> conn[s][d.target_fd].switch, from |-> conn[s][f].agent, packet |-> p]
      /\ UNCHANGED <<config_vars, box_vars, conn>>
  BY DEF Forwards
<1>2. /\ e # None /\ p.src = e.virtual_ipv4
      /\ d = route_to_destination(s, p.src, p.dst)
  BY <1>1, AgentDecision
<1>3. /\ <<p.src, p.dst>> \in agent_acl /\ routing[s][p.dst] # None
      /\ d.target_fd = routing[s][p.dst]
  BY <1>1, <1>2, RouteDecision
<1> HIDE DEF d
<1>4. p.dst \in Ips
  BY DEF Packet
<1>5. conn[s][d.target_fd] \in Peer
  BY <1>3, <1>4 DEF IInv, RoutesLive, IsPeer
<1>6. conn[s][d.target_fd].switch \in Switches /\ conn[s][f].agent \in Agents
  BY <1>1, <1>5, ConnKinds DEF Peer, IsClient
<1>7. wire' \in Forwarded
  BY <1>1, <1>6 DEF Forwarded
<1>8. name_to_ip[conn[s][f].agent] = p.src
  BY <1>2, EntryFacts DEF IInv
<1>9. WireOK'
  BY <1>1, <1>3, <1>8 DEF WireOK, config_vars, maps
<1>10. built
  BY <1>1, ConnKinds DEF IInv, Unbuilt, IsClient
<1>11. TypeOK' /\ Unbuilt'
  BY <1>1, <1>7, <1>10 DEF IInv, TypeOK, ConfigTypeOK, Unbuilt, config_vars, maps, box_vars
<1> QED BY <1>1, <1>9, <1>11, SteadyStep DEF config_vars, maps, box_vars

\* It arrives, or is lost.
LEMMA ArrivesStep ==
    ASSUME IInv, Arrives
    PROVE  IInv'
<1> USE DEF IInv, Arrives, config_vars, maps, box_vars
<1>1. TypeOK' /\ Unbuilt' /\ WireOK'
  BY DEF TypeOK, ConfigTypeOK, Unbuilt, WireOK
<1> QED BY <1>1, SteadyStep

\* Every step keeps the invariant.
LEMMA NextHolds == IInv /\ [Next]_vars => IInv'
<1> SUFFICES ASSUME IInv, [Next]_vars PROVE IInv'
  OBVIOUS
<1>1. CASE LoadsConfig
  BY <1>1, LoadsStep
<1>2. CASE Construct
  BY <1>2, ConstructStep
<1>3. ASSUME NEW s \in Switches, NEW f \in Fds, NEW n \in Agents, Connects(s, f, n)
      PROVE  IInv'
  <2> DEFINE c == [agent |-> n, authenticated |-> FALSE]
  <2>1. c \in Client \cup Peer
    BY ConnKinds
  <2>2. /\ built /\ conn[s][f] = None /\ conn' = [conn EXCEPT ![s][f] = c]
        /\ UNCHANGED <<config_vars, box_vars, wire>>
    BY <1>3 DEF Connects
  <2> HIDE DEF c
  <2> QED BY <2>1, <2>2, ConnectionStep
<1>4. ASSUME NEW s \in Switches, NEW f \in Fds, on_agent_authenticated(s, f)  PROVE IInv'
  BY <1>4, AuthenticatedStep
<1>5. ASSUME NEW s \in Switches, NEW f \in Fds, on_agent_authenticated_NoMemory(s, f)
      PROVE  IInv'
  BY <1>5, NoMemoryStep
<1>6. ASSUME NEW s \in Switches, NEW f \in Fds, on_agent_disconnected(s, f)  PROVE IInv'
  BY <1>6, DisconnectedStep
<1>7. ASSUME NEW s \in Switches, NEW f \in Fds, NEW t \in Switches, PeerConnects(s, f, t)
      PROVE  IInv'
  <2> DEFINE c == [switch |-> t]
  <2>1. c \in Client \cup Peer
    BY ConnKinds
  <2>2. /\ built /\ conn[s][f] = None /\ conn' = [conn EXCEPT ![s][f] = c]
        /\ UNCHANGED <<config_vars, box_vars, wire>>
    BY <1>7 DEF PeerConnects
  <2> HIDE DEF c
  <2> QED BY <2>1, <2>2, ConnectionStep
<1>8. ASSUME NEW s \in Switches, NEW f \in Fds, on_switch_disconnected(s, f)  PROVE IInv'
  BY <1>8, SwitchDisconnectedStep
<1>9. ASSUME NEW s \in Switches, NEW f \in Fds, NEW i \in Ips, on_route_update(s, i, f)
      PROVE  IInv'
  BY <1>9, RouteUpdateStep
<1>10. ASSUME NEW s \in Switches, NEW i \in Ips, on_route_update_Gone(s, i)  PROVE IInv'
  BY <1>10, RouteGoneStep
<1>11. ASSUME NEW s \in Switches, NEW f \in Fds, NEW p \in Packet, Forwards(s, f, p)
       PROVE  IInv'
  BY <1>11, ForwardsStep
<1>12. CASE Arrives
  BY <1>12, ArrivesStep
<1>13. CASE UNCHANGED vars
  <2> USE <1>13 DEF vars, config_vars, maps, box_vars, IInv
  <2>1. TypeOK' /\ MapsAgree' /\ Unbuilt'
    BY DEF TypeOK, ConfigTypeOK, MapsAgree, Unbuilt
  <2>2. RegistryExact' /\ RoutesLive' /\ WireOK'
    BY DEF RegistryExact, RoutesLive, WireOK
  <2> QED BY <2>1, <2>2
<1> QED BY <1>1, <1>2, <1>3, <1>4, <1>5, <1>6, <1>7, <1>8, <1>9, <1>10, <1>11, <1>12,
           <1>13 DEF Next

-----------------------------------------------------------------------------
(***************************************************************************)
(* What load has made of the lines it has passed.  AnyOrder speaks of the  *)
(* end of a load; in between, the maps say what the lines before pos say,  *)
(* of which none was a reason to return.                                   *)
(***************************************************************************)
\* LoadExact for files of any order: load accepts exactly the files that make sense.
AnyOrder ==
    /\ result = "error" /\ pass = "none" => ~Accepted
    /\ MapsExact

OwnerUpTo(m, n, i) == \E k \in 1 .. m :
    Assigns(k) /\ lines[k].first = n /\ lines[k].second = i
Assigned(m) ==
    /\ \A n \in Agents, i \in Ips : name_to_ip[n] = i <=> OwnerUpTo(m, n, i)
    /\ \A k \in 1 .. m : Assigns(k) => lines[k].second # 0
    /\ \A j, k \in 1 .. m : j # k /\ Assigns(j) /\ Assigns(k) =>
          lines[j].first # lines[k].first /\ lines[j].second # lines[k].second
Pair(k) == <<name_to_ip[lines[k].first], name_to_ip[lines[k].second]>>
Reversed(k) == <<name_to_ip[lines[k].second], name_to_ip[lines[k].first]>>
InternetPair(k) == <<name_to_ip[lines[k].first], lines[k].second>>
Ruled(m) ==
    /\ \A k \in 1 .. m : lines[k].kind = "agent" =>
          Allowable(lines[k]) /\ Pair(k) \in agent_acl
    /\ \A k \in 1 .. m : lines[k].kind = "internet" =>
          Allowable(lines[k]) /\ InternetPair(k) \in internet_acl

LoadInv ==
    /\ pass # "none" => \A k \in 1 .. Len(lines) : lines[k].kind # "malformed"
    /\ pass = "assignments" =>
          pos <= Len(lines) + 1 /\ Assigned(pos - 1) /\ agent_acl = {} /\ internet_acl = {}
    /\ pass = "rules" => pos <= Len(lines) + 1 /\ Assigned(Len(lines)) /\ Ruled(pos - 1)
    /\ ~built /\ pass = "none" /\ result = "none" => agent_acl = {} /\ internet_acl = {}
    /\ AnyOrder

\* What every line is made of.
LEMMA LinesAre ==
    ASSUME ConfigTypeOK, NEW k \in 1 .. Len(lines)
    PROVE  /\ lines[k].kind \in {"ip", "internet", "agent", "malformed"}
           /\ lines[k].kind \in {"ip", "internet"} =>
                 lines[k].first \in Agents /\ lines[k].second \in Ips \cup {0}
           /\ lines[k].kind = "agent" =>
                 lines[k].first \in Agents /\ lines[k].second \in Agents
<1>1. lines[k] \in Line
  BY DEF ConfigTypeOK
<1> QED BY <1>1 DEF Line

\* With all the assignments read, an address is that of a name when the file says so.
LEMMA KnownIs ==
    ASSUME ConfigTypeOK, Assigned(Len(lines)), NEW n \in Agents
    PROVE  /\ \A i \in Ips : name_to_ip[n] = i <=> Owner(n, i)
           /\ Known(n) <=> name_to_ip[n] # 0
           /\ name_to_ip[n] # 0 => name_to_ip[n] \in Ips /\ Owner(n, name_to_ip[n])
<1>1. \A i \in Ips : name_to_ip[n] = i <=> Owner(n, i)
  BY DEF Assigned, OwnerUpTo, Owner
<1> QED BY <1>1, EndpointAssumption DEF Known, ConfigTypeOK

\* A file is accepted when no line of it is a reason to return.
LEMMA AcceptedIs ==
    ASSUME ConfigTypeOK, Assigned(Len(lines))
    PROVE  Accepted <=> \A k \in 1 .. Len(lines) :
              /\ lines[k].kind # "malformed"
              /\ lines[k].kind \in {"agent", "internet"} => Allowable(lines[k])
<1>1. ASSUME Accepted, NEW k \in 1 .. Len(lines)
      PROVE  /\ lines[k].kind # "malformed"
             /\ lines[k].kind \in {"agent", "internet"} => Allowable(lines[k])
  <2>1. CASE lines[k].kind = "agent"
    <3>1. Known(lines[k].first) /\ Known(lines[k].second)
      BY <1>1, <2>1 DEF Accepted
    <3> QED BY <2>1, <3>1, LinesAre, KnownIs DEF Allowable
  <2>2. CASE lines[k].kind = "internet"
    <3>1. Known(lines[k].first) /\ lines[k].second # 0
      BY <1>1, <2>2 DEF Accepted
    <3> QED BY <2>2, <3>1, LinesAre, KnownIs DEF Allowable
  <2>3. lines[k].kind # "malformed"
    BY <1>1 DEF Accepted
  <2> QED BY <2>1, <2>2, <2>3
<1>2. ASSUME \A k \in 1 .. Len(lines) :
                /\ lines[k].kind # "malformed"
                /\ lines[k].kind \in {"agent", "internet"} => Allowable(lines[k])
      PROVE  Accepted
  <2>1. ASSUME NEW k \in 1 .. Len(lines)
        PROVE  CASE lines[k].kind = "ip"       -> lines[k].second # 0
                 [] lines[k].kind = "internet" -> Known(lines[k].first) /\ lines[k].second # 0
                 [] lines[k].kind = "agent"    -> Known(lines[k].first) /\ Known(lines[k].second)
                 [] OTHER                      -> FALSE
    <3>1. CASE lines[k].kind = "ip"
      BY <3>1 DEF Assigned, Assigns
    <3>2. CASE lines[k].kind = "internet"
      BY <1>2, <3>2, LinesAre, KnownIs DEF Allowable
    <3>3. CASE lines[k].kind = "agent"
      BY <1>2, <3>3, LinesAre, KnownIs DEF Allowable
    <3> QED BY <1>2, <3>1, <3>2, <3>3, LinesAre
  <2> QED BY <2>1 DEF Accepted, Assigned
<1> QED BY <1>1, <1>2

\* With all the rules read, the file's rules are there.
LEMMA FileInRules ==
    ASSUME ConfigTypeOK, Assigned(Len(lines)), Ruled(Len(lines)), NEW p \in Ips \X Ips
    PROVE  /\ Rule(p[1], p[2]) => p \in agent_acl
           /\ InternetRule(p[1], p[2]) => p \in internet_acl
<1> DEFINE x == p[1]
           y == p[2]
<1>1. x \in Ips /\ y \in Ips /\ p = <<x, y>>
  OBVIOUS
<1> HIDE DEF x, y
<1>2. ASSUME Rule(x, y)  PROVE p \in agent_acl
  <2>1. PICK k \in 1 .. Len(lines) :
          lines[k].kind = "agent" /\ Owner(lines[k].first, x) /\ Owner(lines[k].second, y)
    BY <1>2 DEF Rule
  <2>2. name_to_ip[lines[k].first] = x /\ name_to_ip[lines[k].second] = y
    BY <1>1, <2>1, LinesAre, KnownIs
  <2> QED BY <1>1, <2>1, <2>2 DEF Ruled, Pair
<1>3. ASSUME InternetRule(x, y)  PROVE p \in internet_acl
  <2>1. PICK k \in 1 .. Len(lines) :
          lines[k].kind = "internet" /\ Owner(lines[k].first, x) /\ lines[k].second = y
    BY <1>3 DEF InternetRule
  <2>2. name_to_ip[lines[k].first] = x
    BY <1>1, <2>1, LinesAre, KnownIs
  <2> QED BY <1>1, <2>1, <2>2 DEF Ruled, InternetPair
<1> QED BY <1>2, <1>3 DEF x, y


\* The file stands: what it means stands.
LEMMA SameFile ==
    ASSUME UNCHANGED lines
    PROVE  /\ Accepted' <=> Accepted
           /\ \A n, i : Owner(n, i)' <=> Owner(n, i)
           /\ \A x, y : (Rule(x, y)' <=> Rule(x, y)) /\ (InternetRule(x, y)' <=> InternetRule(x, y))
<1>1. /\ \A n, i : Owner(n, i)' <=> Owner(n, i)
      /\ \A n : Known(n)' <=> Known(n)
  BY DEF Owner, Known, Assigns
<1>2. \A x, y : (Rule(x, y)' <=> Rule(x, y)) /\ (InternetRule(x, y)' <=> InternetRule(x, y))
  BY <1>1 DEF Rule, InternetRule
<1>3. Accepted' <=> Accepted
  BY <1>1 DEF Accepted, Assigns
<1> QED BY <1>1, <1>2, <1>3

\* A step inside a load that keeps the rules among the file's.
LEMMA InsideLoad ==
    ASSUME pass' # "none",
           \A p \in agent_acl' : Rule(p[1], p[2])' \/ Rule(p[2], p[1])',
           \A p \in internet_acl' : InternetRule(p[1], p[2])'
    PROVE  AnyOrder'
BY DEF AnyOrder, MapsExact

\* load returns at a bad line, with the rules it has.
LEMMA ReturnsFalseStep ==
    ASSUME LoadInv, pass # "none", ReturnsFalse, ~Accepted
    PROVE  LoadInv'
<1>1. UNCHANGED <<lines, agent_acl, internet_acl>> /\ pass' = "none" /\ result' = "error"
  BY DEF ReturnsFalse, maps
<1>2. ~Accepted'
  BY <1>1, SameFile
<1>3. AnyOrder'
  BY <1>1, <1>2, SameFile DEF AnyOrder, MapsExact, LoadInv
<1> QED BY <1>1, <1>3 DEF LoadInv

\* A line of the first pass that assigns nothing, and one that assigns an address.
LEMMA FirstPassStep ==
    ASSUME ConfigTypeOK, MapsAgree, LoadInv, pass = "assignments", pos <= Len(lines), NextLine,
           UNCHANGED <<agent_acl, internet_acl>>,
           \/ ~Assigns(pos) /\ UNCHANGED maps
           \/ Assigns(pos) /\ AssignIp
    PROVE  LoadInv'
<1>1. PICK m \in Nat : pos = m + 1
  BY DEF ConfigTypeOK
<1>2. /\ m + 1 \in 1 .. Len(lines) /\ Assigned(m) /\ Len(lines) \in Nat
      /\ UNCHANGED <<lines, pass, result>> /\ pos' = m + 2
      /\ agent_acl' = {} /\ internet_acl' = {}
  BY <1>1 DEF LoadInv, NextLine, ConfigTypeOK
<1>3. ASSUME ~Assigns(m + 1), UNCHANGED maps  PROVE Assigned(m + 1)'
  <2>1. \A n, i : OwnerUpTo(m + 1, n, i)' <=> OwnerUpTo(m, n, i)
    BY <1>2, <1>3 DEF OwnerUpTo, Assigns
  <2>2. \A k \in 1 .. m + 1 : Assigns(k) => k \in 1 .. m
    BY <1>2, <1>3
  <2> QED BY <1>2, <1>3, <2>1, <2>2 DEF Assigned, Assigns, maps
<1>4. ASSUME Assigns(m + 1), AssignIp  PROVE Assigned(m + 1)'
  <2> DEFINE a == lines[m + 1].first
             b == lines[m + 1].second
  <2>1. a \in Agents /\ b \in Ips /\ b # 0 /\ ip_to_name[b] = None /\ name_to_ip[a] = 0
    BY <1>1, <1>2, <1>4, LinesAre DEF AssignIp, Assignable, Assigns
  <2>2. name_to_ip' = [name_to_ip EXCEPT ![a] = b]
    BY <1>1, <1>4 DEF AssignIp
  <2>3. \A n \in Agents : ~OwnerUpTo(m, n, b)
    BY <1>2, <2>1, EndpointAssumption DEF Assigned, MapsAgree
  <2>4. \A i \in Ips : ~OwnerUpTo(m, a, i)
    BY <1>2, <2>1, EndpointAssumption DEF Assigned
  <2>5. ASSUME NEW k \in 1 .. m, Assigns(k)
        PROVE  lines[k].first # a /\ lines[k].second # b
    <3>1. k \in 1 .. Len(lines) /\ lines[k].second # 0
      BY <1>2, <2>5 DEF Assigned
    <3>2. lines[k].first \in Agents /\ lines[k].second \in Ips
      BY <2>5, <3>1, LinesAre DEF Assigns
    <3>3. OwnerUpTo(m, lines[k].first, lines[k].second)
      BY <2>5 DEF OwnerUpTo
    <3> QED BY <2>3, <2>4, <3>2, <3>3
  <2>6. \A n, i : OwnerUpTo(m + 1, n, i)' <=> OwnerUpTo(m, n, i) \/ (n = a /\ i = b)
    BY <1>2, <1>4 DEF OwnerUpTo, Assigns
  <2>7. \A n \in Agents, i \in Ips : name_to_ip'[n] = i <=> OwnerUpTo(m + 1, n, i)'
    <3> TAKE n \in Agents, i \in Ips
    <3>1. CASE n = a
      BY <2>1, <2>2, <2>4, <2>6, <3>1 DEF ConfigTypeOK
    <3>2. CASE n # a
      BY <1>2, <2>1, <2>2, <2>6, <3>2 DEF ConfigTypeOK, Assigned
    <3> QED BY <3>1, <3>2
  <2>8. \A k \in 1 .. m + 1 : Assigns(k) => lines[k].second # 0
    BY <1>2, <2>1 DEF Assigned
  <2>9. ASSUME NEW j \in 1 .. m + 1, NEW k \in 1 .. m + 1, j # k, Assigns(j), Assigns(k)
        PROVE  lines[j].first # lines[k].first /\ lines[j].second # lines[k].second
    <3>1. CASE j \in 1 .. m /\ k \in 1 .. m
      BY <1>2, <2>9, <3>1 DEF Assigned
    <3>2. CASE j = m + 1 /\ k \in 1 .. m
      BY <2>5, <2>9, <3>2
    <3>3. CASE k = m + 1 /\ j \in 1 .. m
      BY <2>5, <2>9, <3>3
    <3> QED BY <2>9, <3>1, <3>2, <3>3
  <2> HIDE DEF a, b
  <2> QED BY <1>2, <2>7, <2>8, <2>9 DEF Assigned, Assigns
<1>5. Assigned(m + 1)'
  BY <1>1, <1>3, <1>4
<1>6. Assigned(pos - 1)'
  <2>1. pos' - 1 = m + 1
    BY <1>2
  <2> QED BY <1>5, <2>1 DEF Assigned, OwnerUpTo, Assigns
<1>7. AnyOrder'
  BY <1>2, InsideLoad
<1> QED BY <1>2, <1>6, <1>7 DEF LoadInv

\* A line of the second pass: its rule is there afterwards, and only it is new.
LEMMA SecondPassStep ==
    ASSUME ConfigTypeOK, MapsAgree, LoadInv, pass = "rules", pos <= Len(lines), NextLine,
           UNCHANGED name_to_ip,
           \/ /\ lines[pos].kind = "ip"
              /\ UNCHANGED <<agent_acl, internet_acl>>
           \/ /\ lines[pos].kind = "agent" /\ Allowable(lines[pos])
              /\ agent_acl' = agent_acl \cup {Pair(pos), Reversed(pos)}
              /\ UNCHANGED internet_acl
           \/ /\ lines[pos].kind = "internet" /\ Allowable(lines[pos])
              /\ internet_acl' = internet_acl \cup {InternetPair(pos)}
              /\ UNCHANGED agent_acl
    PROVE  LoadInv'
<1>1. PICK m \in Nat : pos = m + 1
  <2>1. pos \in Nat \ {0}
    BY DEF ConfigTypeOK
  <2>2. pos - 1 \in Nat /\ pos = (pos - 1) + 1
    BY <2>1
  <2> QED BY <2>2
<1>2. /\ m + 1 \in 1 .. Len(lines) /\ Assigned(Len(lines)) /\ Ruled(m) /\ Len(lines) \in Nat
      /\ UNCHANGED <<lines, pass, result, name_to_ip>> /\ pos' = m + 2
  BY <1>1 DEF LoadInv, NextLine, ConfigTypeOK
<1>3. /\ \A k : Pair(k)' = Pair(k) /\ Reversed(k)' = Reversed(k) /\ InternetPair(k)' = InternetPair(k)
      /\ \A k : Allowable(lines[k])' <=> Allowable(lines[k])
  BY <1>2 DEF Pair, Reversed, InternetPair, Allowable
<1>4. \A k \in 1 .. m + 1 : k \in 1 .. m \/ k = m + 1
  OBVIOUS
<1>5. \A k \in 1 .. m : k \in 1 .. m + 1
  OBVIOUS
<1>6. ASSUME NEW k \in 1 .. m + 1, lines[k].kind = "agent"
      PROVE  Allowable(lines[k]) /\ Pair(k) \in agent_acl'
  BY <1>1, <1>2, <1>4, <1>6 DEF Ruled
<1>7. ASSUME NEW k \in 1 .. m + 1, lines[k].kind = "internet"
      PROVE  Allowable(lines[k]) /\ InternetPair(k) \in internet_acl'
  BY <1>1, <1>2, <1>4, <1>7 DEF Ruled
<1>8. ASSUME NEW p \in agent_acl'  PROVE Rule(p[1], p[2]) \/ Rule(p[2], p[1])
  <2>1. CASE p \in agent_acl
    BY <2>1 DEF LoadInv, AnyOrder, MapsExact
  <2>2. CASE p \notin agent_acl
    <3> DEFINE x == name_to_ip[lines[m + 1].first]
               y == name_to_ip[lines[m + 1].second]
    <3>1. /\ lines[m + 1].kind = "agent" /\ Allowable(lines[m + 1])
          /\ p = <<x, y>> \/ p = <<y, x>>
      BY <1>1, <1>8, <2>2 DEF Pair, Reversed
    <3>2. Owner(lines[m + 1].first, x) /\ Owner(lines[m + 1].second, y)
      BY <1>2, <3>1, LinesAre, KnownIs DEF Allowable
    <3>3. Rule(x, y)
      BY <1>2, <3>1, <3>2 DEF Rule
    <3> HIDE DEF x, y
    <3> QED BY <3>1, <3>3
  <2> QED BY <2>1, <2>2
<1>9. ASSUME NEW p \in internet_acl'  PROVE InternetRule(p[1], p[2])
  <2>1. CASE p \in internet_acl
    BY <2>1 DEF LoadInv, AnyOrder, MapsExact
  <2>2. CASE p \notin internet_acl
    <3>1. /\ lines[m + 1].kind = "internet" /\ Allowable(lines[m + 1])
          /\ p = <<name_to_ip[lines[m + 1].first], lines[m + 1].second>>
      BY <1>1, <1>9, <2>2 DEF InternetPair
    <3>2. Owner(lines[m + 1].first, name_to_ip[lines[m + 1].first])
      BY <1>2, <3>1, LinesAre, KnownIs DEF Allowable
    <3> QED BY <1>2, <3>1, <3>2 DEF InternetRule
  <2> QED BY <2>1, <2>2
<1>10. Ruled(m + 1)'
  BY <1>2, <1>3, <1>6, <1>7 DEF Ruled
<1>11. Assigned(Len(lines))'
  BY <1>2 DEF Assigned, OwnerUpTo, Assigns
<1>12. Ruled(pos - 1)'
  <2>1. pos' - 1 = m + 1
    BY <1>2
  <2> QED BY <1>10, <2>1 DEF Ruled
<1>13. AnyOrder'
  BY <1>2, <1>8, <1>9, SameFile, InsideLoad
<1> QED BY <1>2, <1>11, <1>12, <1>13 DEF LoadInv

\* Every step of load, from any Config that a load before it has left.
LEMMA LoadStep ==
    ASSUME ConfigTypeOK, MapsAgree, LoadInv, ~built, ~built', Load
    PROVE  LoadInv'
<1>1. CASE CannotOpen
  <2>1. AnyOrder'
    BY <1>1, SameFile DEF CannotOpen, maps, LoadInv, AnyOrder, MapsExact
  <2> QED BY <1>1, <2>1 DEF CannotOpen, LoadInv
<1>2. ASSUME NEW file \in Files, Open(file)  PROVE LoadInv'
  <2>1. /\ lines' = file /\ pos' = 1 /\ agent_acl' = {} /\ internet_acl' = {}
        /\ name_to_ip' = [n \in Agents |-> 0] /\ Len(file) \in Nat
    BY <1>2, FileAssumption DEF Open, OpenWith
  <2>2. CASE \E k \in 1 .. Len(file) : file[k].kind = "malformed"
    <3>1. pass' = "none" /\ result' = "error"
      BY <1>2, <2>2 DEF Open, OpenWith
    <3>2. ~Accepted'
      BY <2>1, <2>2 DEF Accepted
    <3>3. AnyOrder'
      BY <2>1, <3>1, <3>2 DEF AnyOrder, MapsExact
    <3> QED BY <3>1, <3>3 DEF LoadInv
  <2>3. CASE ~\E k \in 1 .. Len(file) : file[k].kind = "malformed"
    <3>1. pass' = "assignments" /\ UNCHANGED result
      BY <1>2, <2>3 DEF Open, OpenWith
    <3>2. Assigned(0)'
      BY <2>1, EndpointAssumption DEF Assigned, OwnerUpTo
    <3>3. Assigned(pos - 1)'
      <4>1. pos' - 1 = 0
        BY <2>1
      <4> QED BY <3>2, <4>1 DEF Assigned, OwnerUpTo
    <3>4. AnyOrder'
      BY <2>1, <3>1, InsideLoad
    <3> QED BY <2>1, <2>3, <3>1, <3>3, <3>4 DEF LoadInv
  <2> QED BY <2>2, <2>3
<1>3. CASE SkipLine /\ pass = "assignments"
  BY <1>3, FirstPassStep DEF SkipLine, AtLine, maps, Assigns
<1>4. CASE SkipLine /\ pass # "assignments"
  BY <1>4, SecondPassStep DEF SkipLine, AtLine, maps
<1>5. CASE AssignIp
  BY <1>5, FirstPassStep DEF AssignIp, AtLine, Assigns
<1>6. CASE RejectIp
  <2> DEFINE a == lines[pos].first
             b == lines[pos].second
  <2>1. /\ pos \in 1 .. Len(lines) /\ pass = "assignments" /\ Assigns(pos) /\ a \in Agents
        /\ b \in Ips \cup {0} /\ ~Assignable(lines[pos]) /\ ReturnsFalse /\ Assigned(pos - 1)
    BY <1>6, LineFields DEF RejectIp, AtLine, Assigns, LoadInv
  <2>2. ASSUME Accepted  PROVE FALSE
    <3>1. b \in Ips /\ (ip_to_name[b] # None \/ name_to_ip[a] # 0)
      BY <2>1, <2>2 DEF Accepted, Assignable, Assigns
    <3>2. \A k \in 1 .. pos - 1 : k \in 1 .. Len(lines) /\ k # pos
      BY <2>1 DEF ConfigTypeOK
    <3>3. CASE ip_to_name[b] # None
      <4>1. PICK n \in Agents : name_to_ip[n] = b
        BY <3>1, <3>3 DEF MapsAgree, ConfigTypeOK
      <4>2. OwnerUpTo(pos - 1, n, b)
        BY <2>1, <3>1, <4>1 DEF Assigned
      <4>3. PICK k \in 1 .. pos - 1 : Assigns(k) /\ lines[k].second = b
        BY <4>2 DEF OwnerUpTo
      <4> QED BY <2>1, <2>2, <3>2, <4>3 DEF Accepted
    <3>4. CASE name_to_ip[a] # 0
      <4>1. name_to_ip[a] \in Ips
        BY <2>1, <3>4 DEF ConfigTypeOK
      <4>2. OwnerUpTo(pos - 1, a, name_to_ip[a])
        BY <2>1, <4>1 DEF Assigned
      <4>3. PICK k \in 1 .. pos - 1 : Assigns(k) /\ lines[k].first = a
        BY <4>2 DEF OwnerUpTo
      <4> QED BY <2>1, <2>2, <3>2, <4>3 DEF Accepted
    <3> QED BY <3>1, <3>3, <3>4
  <2> QED BY <2>1, <2>2, ReturnsFalseStep
<1>7. CASE SecondPass
  <2>1. /\ pass = "assignments" /\ pos = Len(lines) + 1 /\ Len(lines) \in Nat
        /\ pass' = "rules" /\ pos' = 1 /\ Assigned(pos - 1) /\ UNCHANGED <<maps, lines, result>>
    BY <1>7 DEF SecondPass, LoadInv, ConfigTypeOK
  <2>2. pos - 1 = Len(lines)
    BY <2>1
  <2>3. Assigned(Len(lines))
    BY <2>1, <2>2
  <2>4. Assigned(Len(lines))'
    BY <2>1, <2>3 DEF Assigned, OwnerUpTo, Assigns, maps
  <2>5. Ruled(pos - 1)'
    BY <2>1 DEF Ruled
  <2>6. AnyOrder'
    BY <2>1, SameFile, InsideLoad DEF LoadInv, AnyOrder, MapsExact, maps
  <2> QED BY <2>1, <2>4, <2>5, <2>6 DEF LoadInv
<1>8. CASE AllowInternet
  BY <1>8, SecondPassStep DEF AllowInternet, AtLine, InternetPair
<1>9. CASE AllowAgents
  BY <1>9, SecondPassStep DEF AllowAgents, AtLine, Pair, Reversed
<1>10. CASE RejectRule
  <2>1. /\ pos \in 1 .. Len(lines) /\ pass = "rules" /\ Assigned(Len(lines)) /\ ReturnsFalse
        /\ lines[pos].kind \in {"agent", "internet"} /\ ~Allowable(lines[pos])
    BY <1>10, LineFields DEF RejectRule, AtLine, LoadInv
  <2>2. ~Accepted
    BY <2>1, AcceptedIs
  <2> QED BY <2>1, <2>2, ReturnsFalseStep
<1>11. CASE ReturnsTrue
  <2>1. /\ pass = "rules" /\ pos = Len(lines) + 1 /\ Len(lines) \in Nat
        /\ pass' = "none" /\ result' = "true" /\ UNCHANGED <<maps, lines>>
        /\ Assigned(Len(lines)) /\ Ruled(pos - 1)
    BY <1>11 DEF ReturnsTrue, LoadInv, ConfigTypeOK
  <2>2. pos - 1 = Len(lines)
    BY <2>1
  <2>3. Ruled(Len(lines))
    BY <2>1, <2>2
  <2>4. Accepted
    <3>1. \A k \in 1 .. Len(lines) : lines[k].kind # "malformed"
      BY <2>1 DEF LoadInv
    <3>2. \A k \in 1 .. Len(lines) : lines[k].kind \in {"agent", "internet"} => Allowable(lines[k])
      BY <2>3 DEF Ruled
    <3> QED BY <2>1, <3>1, <3>2, AcceptedIs
  <2>5. \A n \in Agents, i \in Ips : name_to_ip[n] = i <=> Owner(n, i)
    BY <2>1, KnownIs
  <2>6. \A p \in Ips \X Ips :
           /\ Rule(p[1], p[2]) => p \in agent_acl
           /\ InternetRule(p[1], p[2]) => p \in internet_acl
    BY <2>1, <2>3, FileInRules
  <2>7. /\ \A p \in agent_acl : Rule(p[1], p[2]) \/ Rule(p[2], p[1])
        /\ \A p \in internet_acl : InternetRule(p[1], p[2])
    BY <2>1 DEF LoadInv, AnyOrder, MapsExact
  <2>8. AnyOrder'
    BY <2>1, <2>4, <2>5, <2>6, <2>7, SameFile DEF AnyOrder, MapsExact, maps
  <2> QED BY <2>1, <2>8 DEF LoadInv
<1> QED BY <1>1, <1>2, <1>3, <1>4, <1>5, <1>6, <1>7, <1>8, <1>9, <1>10, <1>11 DEF Load

\* The constructor, and everything that leaves the Config alone.
LEMMA LoadNext == IInv /\ LoadInv /\ [Next]_vars => LoadInv'
<1> SUFFICES ASSUME IInv, LoadInv, [Next]_vars PROVE LoadInv'
  OBVIOUS
<1>1. CASE LoadsConfig
  BY <1>1, LoadStep DEF LoadsConfig, box_vars, IInv, TypeOK
<1>2. CASE Construct
  <2>1. /\ pass' = "none" /\ result' = "none" /\ built'
    BY <1>2 DEF Construct
  <2> QED BY <2>1 DEF LoadInv, AnyOrder, MapsExact
<1>3. CASE UNCHANGED config_vars /\ (built' <=> built)
  <2>1. UNCHANGED <<maps, lines, pos, pass, result>>
    BY <1>3 DEF config_vars
  <2>2. AnyOrder'
    BY <2>1, SameFile DEF LoadInv, AnyOrder, MapsExact, maps
  <2>3. /\ Assigned(pos - 1)' <=> Assigned(pos - 1)
        /\ Assigned(Len(lines))' <=> Assigned(Len(lines))
        /\ Ruled(pos - 1)' <=> Ruled(pos - 1)
    BY <2>1 DEF Assigned, OwnerUpTo, Assigns, Ruled, Pair, InternetPair, Allowable, maps
  <2> QED BY <1>3, <2>1, <2>2, <2>3 DEF LoadInv, maps
<1>4. LoadsConfig \/ Construct \/ (UNCHANGED config_vars /\ (built' <=> built))
  BY DEF Next, Connects, on_agent_authenticated, on_agent_authenticated_NoMemory,
     AuthenticatedWith, on_agent_disconnected, DisconnectedWith, PeerConnects,
     on_switch_disconnected, on_route_update, on_route_update_Gone, Forwards, Arrives,
     vars, box_vars
<1> QED BY <1>1, <1>2, <1>3, <1>4

-----------------------------------------------------------------------------
(***************************************************************************)
(* Theorems.                                                               *)
(***************************************************************************)

\* The invariant holds in every state of every behaviour.
LEMMA Invariant == Spec => []IInv
BY InitHolds, NextHolds, PTL DEF Spec

\* Config::load, the registry, the routes and the packets keep their types.
THEOREM TypeCorrect == Spec => []TypeOK
<1>1. IInv => TypeOK
  BY DEF IInv
<1> QED BY <1>1, Invariant, PTL

\* At every point of every load, names and addresses are inverse and rules two-way.
THEOREM MapsAgreeHolds == Spec => []MapsAgree
<1>1. IInv => MapsAgree
  BY DEF IInv
<1> QED BY <1>1, Invariant, PTL

\* load refuses no file that makes sense, of any number of lines in any order and after
\* any loads before it, and the maps then say exactly what the lines say.
THEOREM AnyOrderHolds == Spec => []AnyOrder
<1>1. Init => LoadInv
  BY DEF Init, ConfigInit, LoadInv, AnyOrder, MapsExact
<1>2. LoadInv => AnyOrder
  BY DEF LoadInv
<1> QED BY <1>1, <1>2, LoadNext, Invariant, PTL DEF Spec

\* In particular load accepts the files in the order that config.hpp asks for exactly
\* when they make sense.
THEOREM LoadExactHolds == Spec => []LoadExact
<1>1. AnyOrder => LoadExact
  BY DEF AnyOrder, LoadExact
<1> QED BY <1>1, AnyOrderHolds, PTL

\* The registry of every switch lists exactly connected, authenticated agents.
THEOREM RegistryExactHolds == Spec => []RegistryExact
<1>1. IInv => RegistryExact
  BY DEF IInv
<1> QED BY <1>1, Invariant, PTL

\* No route outlives its connection.
THEOREM RoutesLiveHolds == Spec => []RoutesLive
<1>1. IInv => RoutesLive
  BY DEF IInv
<1> QED BY <1>1, Invariant, PTL

\* Only what the rules allow is delivered, on one switch, over two, and from the TUN.
THEOREM DeliveryAllowedHolds == Spec => []DeliveryAllowed
<1>1. ASSUME IInv  PROVE DeliveryAllowed
  <2> USE <1>1 DEF IInv
  <2>1. ASSUME NEW s \in Switches, NEW f \in Fds, NEW p \in Packet, IsClient(conn[s][f])
        PROVE  Allowed(conn[s][f].agent, s, process(s, "AGENT", f, p), p)
    <3> DEFINE d == process(s, "AGENT", f, p)
    <3> SUFFICES Allowed(conn[s][f].agent, s, d, p)
      OBVIOUS
    <3>1. CASE d.action = "DELIVER_LOCAL"
      <4>1. /\ registry[s].by_fd[f] # None /\ p.src = registry[s].by_fd[f].virtual_ipv4
            /\ d = route_to_destination(s, p.src, p.dst)
        BY <3>1, AgentDecision
      <4>2. /\ <<p.src, p.dst>> \in agent_acl /\ registry[s].by_ipv4[p.dst] # None
            /\ d.target_fd = registry[s].by_ipv4[p.dst].fd
        BY <3>1, <4>1, RouteDecision
      <4>3. name_to_ip[conn[s][f].agent] = p.src
        BY <4>1, EntryFacts
      <4>4. name_to_ip[conn[s][d.target_fd].agent] = p.dst
        BY <4>2, EntryFacts DEF Packet
      <4> HIDE DEF d
      <4> QED BY <3>1, <4>2, <4>3, <4>4 DEF Allowed, Target
    <3>2. CASE d.action = "FORWARD_INTERNET"
      <4>1. /\ registry[s].by_fd[f] # None /\ p.src = registry[s].by_fd[f].virtual_ipv4
            /\ d = route_to_destination(s, p.src, p.dst)
        BY <3>2, AgentDecision
      <4>2. <<p.src, p.dst>> \in internet_acl
        BY <3>2, <4>1, RouteDecision
      <4>3. name_to_ip[conn[s][f].agent] = p.src
        BY <4>1, EntryFacts
      <4> HIDE DEF d
      <4> QED BY <3>2, <4>2, <4>3 DEF Allowed
    <3> HIDE DEF d
    <3>3. CASE d.action # "DELIVER_LOCAL" /\ d.action # "FORWARD_INTERNET"
      BY <3>3 DEF Allowed
    <3> QED BY <3>1, <3>2, <3>3
  <2>2. ASSUME NEW s \in Switches, NEW p \in Packet
        PROVE  AllowedBack(s, process(s, "TUN", None, p), p)
    <3> DEFINE d == process(s, "TUN", None, p)
    <3>1. ASSUME d.action = "DELIVER_LOCAL"
          PROVE  name_to_ip[conn[s][d.target_fd].agent] = p.dst
                 /\ <<p.dst, p.src>> \in internet_acl
      <4>1. /\ registry[s].by_ipv4[p.dst] # None /\ <<p.dst, p.src>> \in internet_acl
            /\ d.target_fd = registry[s].by_ipv4[p.dst].fd
        BY <3>1, OtherDecision
      <4> QED BY <4>1, EntryFacts DEF Packet
    <3> HIDE DEF d
    <3>2. AllowedBack(s, d, p)
      BY <3>1 DEF AllowedBack, Target
    <3> QED BY <3>2 DEF d
  <2>3. ASSUME wire # None
        PROVE  Allowed(wire.from, wire.to, process(wire.to, "SWITCH", None, wire.packet),
                       wire.packet)
    <3> DEFINE s == wire.to
               p == wire.packet
               d == process(s, "SWITCH", None, p)
    <3>1. s \in Switches /\ p \in Packet /\ p.dst \in Ips
      BY <2>3 DEF TypeOK, Forwarded, Packet
    <3>2. d.action # "FORWARD_INTERNET"
      BY OtherDecision
    <3>3. ASSUME d.action = "DELIVER_LOCAL"
          PROVE  name_to_ip[conn[s][d.target_fd].agent] = p.dst
      <4>1. /\ registry[s].by_ipv4[p.dst] # None
            /\ d.target_fd = registry[s].by_ipv4[p.dst].fd
        BY <3>3, OtherDecision
      <4>2. name_to_ip[conn[s][registry[s].by_ipv4[p.dst].fd].agent] = p.dst
        BY <3>1, <4>1, AtAddress
      <4> QED BY <4>1, <4>2
    <3>4. name_to_ip[wire.from] = p.src /\ <<p.src, p.dst>> \in agent_acl
      BY <2>3 DEF WireOK
    <3> HIDE DEF d, s, p
    <3>5. Allowed(wire.from, s, d, p)
      BY <3>2, <3>3, <3>4 DEF Allowed, Target
    <3> QED BY <3>5 DEF d, s, p
  <2> QED BY <2>1, <2>2, <2>3 DEF DeliveryAllowed
<1> QED BY <1>1, Invariant, PTL

\* What one agent may send to another on the same switch, or to the internet, may
\* be answered to the descriptor that it was sent from.
THEOREM AnswersReturnHolds == Spec => []AnswersReturn
<1>1. ASSUME IInv  PROVE AnswersReturn
  <2> USE <1>1 DEF IInv
  <2> SUFFICES ASSUME NEW s \in Switches, NEW f \in Fds, NEW p \in Packet
               PROVE  LET d == process(s, "AGENT", f, p) IN
                        /\ d.action = "DELIVER_LOCAL" =>
                              process(s, "AGENT", d.target_fd, Reply(p)) =
                                Decision("DELIVER_LOCAL", f, "NONE")
                        /\ d.action = "FORWARD_INTERNET" =>
                              process(s, "TUN", None, Reply(p)) =
                                Decision("DELIVER_LOCAL", f, "NONE")
    BY DEF AnswersReturn
  <2> DEFINE d == process(s, "AGENT", f, p)
             q == Reply(p)
             sender == registry[s].by_fd[f]
             dest == registry[s].by_ipv4[p.dst]
  <2>1. q.raw = p.raw /\ q.src = p.dst /\ q.dst = p.src /\ p.dst \in Ips /\ p.src \in Ips
    BY DEF Reply, Packet
  <2>2. ASSUME d.action # "DROP"
        PROVE  /\ ipv4_parse(p.raw) /\ d = route_to_destination(s, p.src, p.dst)
               /\ sender # None /\ sender.fd = f /\ p.src = sender.virtual_ipv4
               /\ registry[s].by_ipv4[p.src] = sender
    BY <2>2, AgentDecision, EntryFacts
  <2>3. ASSUME d.action = "DELIVER_LOCAL"
        PROVE  process(s, "AGENT", d.target_fd, q) = Decision("DELIVER_LOCAL", f, "NONE")
    <3>1. <<p.src, p.dst>> \in agent_acl /\ dest # None /\ d.target_fd = dest.fd
      BY <2>2, <2>3, RouteDecision
    <3>2. registry[s].by_fd[dest.fd] = dest /\ dest.virtual_ipv4 = p.dst
      BY <2>1, <3>1, EntryFacts
    <3>3. ip_to_name[p.src] # None /\ <<p.dst, p.src>> \in agent_acl
      BY <3>1 DEF MapsAgree
    <3>4. process(s, "AGENT", d.target_fd, q) = process_from_agent(s, dest.fd, q)
      BY <2>1, <2>2, <2>3, <3>1 DEF process
    <3> HIDE DEF q
    <3>5. process_from_agent(s, dest.fd, q) = route_to_destination(s, p.dst, p.src)
      BY <2>1, <3>1, <3>2 DEF process_from_agent
    <3>6. route_to_destination(s, p.dst, p.src) = Deliver(sender)
      BY <2>2, <2>3, <3>3 DEF route_to_destination, can_agents_communicate
    <3> QED BY <2>2, <2>3, <3>4, <3>5, <3>6 DEF Deliver
  <2>4. ASSUME d.action = "FORWARD_INTERNET"
        PROVE  process(s, "TUN", None, q) = Decision("DELIVER_LOCAL", f, "NONE")
    <3>1. <<p.src, p.dst>> \in internet_acl
      BY <2>2, <2>4, RouteDecision
    <3>2. process(s, "TUN", None, q) = process_from_tun(s, q)
      BY <2>1, <2>2, <2>4 DEF process
    <3> HIDE DEF q
    <3>3. process_from_tun(s, q) = Deliver(sender)
      BY <2>1, <2>2, <2>4, <3>1 DEF process_from_tun, can_reach_internet_ip
    <3> QED BY <2>2, <2>4, <3>2, <3>3 DEF Deliver
  <2> QED BY <2>3, <2>4
<1> QED BY <1>1, Invariant, PTL

\* No packet is read past its end, whatever its fields say.
THEOREM ParsesInsideHolds == Spec => []ParsesInside
<1>1. StaysInside
  <2> SUFFICES ASSUME NEW r \in Raw
               PROVE  /\ BytesRead(r) <= r.len
                      /\ ipv4_parse(r) => HeaderBytes(r) <= r.len /\ r.total_length <= r.len
    BY DEF StaysInside
  <2>1. /\ r.len \in Nat /\ r.ihl \in Nat /\ r.total_length \in Nat
        /\ r.version \in Nat
    <3>1. r.len \in Nat /\ r.ihl \in UInt(4) /\ r.total_length \in UInt(16)
          /\ r.version \in UInt(4)
      BY RawAssumption DEF Shape
    <3> QED BY <3>1 DEF UInt
  <2>2. HeaderBytes(r) \in Nat
    BY <2>1 DEF HeaderBytes
  <2>3. ipv4_parse(r) => HeaderBytes(r) <= r.len /\ r.total_length <= r.len
    BY DEF ipv4_parse, HeaderFits, LengthFits
  <2>4. CASE r.len < 20
    <3>1. ~HeaderFits(r)
      BY <2>1, <2>4 DEF HeaderFits
    <3>2. BytesRead(r) = 0
      BY <2>1, <2>4, <3>1 DEF BytesRead
    <3> QED BY <2>1, <2>3, <3>2
  <2>5. CASE r.len >= 20 /\ ~HeaderFits(r)
    <3>1. BytesRead(r) = 1
      BY <2>1, <2>5 DEF BytesRead
    <3> QED BY <2>1, <2>3, <2>5, <3>1
  <2>6. CASE HeaderFits(r) /\ ~LengthFits(r)
    <3>1. r.len >= 20
      BY <2>6 DEF HeaderFits
    <3>2. BytesRead(r) = 10
      BY <2>1, <2>6, <3>1 DEF BytesRead
    <3> QED BY <2>1, <2>3, <3>1, <3>2
  <2>7. CASE HeaderFits(r) /\ LengthFits(r)
    <3>1. r.len >= 20
      BY <2>7 DEF HeaderFits
    <3>2. CASE r.ports /\ PortsFit(r)
      <4>1. BytesRead(r) = HeaderBytes(r) + 4
        BY <2>1, <2>7, <3>1, <3>2 DEF BytesRead
      <4> QED BY <2>3, <3>2, <4>1 DEF PortsFit
    <3>3. CASE ~(r.ports /\ PortsFit(r))
      <4>1. BytesRead(r) = 20
        BY <2>1, <2>7, <3>1, <3>3 DEF BytesRead
      <4> QED BY <2>1, <2>3, <3>1, <4>1
    <3> QED BY <3>2, <3>3
  <2> QED BY <2>1, <2>3, <2>4, <2>5, <2>6, <2>7
<1>2. IInv => ParsesInside
  BY <1>1 DEF ParsesInside
<1> QED BY <1>2, Invariant, PTL

-----------------------------------------------------------------------------
(***************************************************************************)
(* BlackBox implements Presence.                                           *)
(***************************************************************************)

\* One switch's registry and one descriptor's state at a time.
LEMMA MappedRegistry ==
    ASSUME TypeOK, NEW s \in Switches, NEW r, registry' = [registry EXCEPT ![s] = r]
    PROVE  Current' = [Current EXCEPT ![s] = FdOf(r)]
<1>1. \A t \in Switches : registry'[t] = IF t = s THEN r ELSE registry[t]
  BY DEF TypeOK
<1>2. Current' = [t \in Switches |-> FdOf(registry'[t])]
  BY DEF Current, FdOf
<1>3. Current = [t \in Switches |-> FdOf(registry[t])]
  BY DEF Current
<1>4. ASSUME NEW t \in Switches
      PROVE  Current'[t] = IF t = s THEN FdOf(r) ELSE Current[t]
  <2>1. CASE t = s
    BY <1>1, <1>2, <2>1
  <2>2. CASE t # s
    BY <1>1, <1>2, <1>3, <2>2
  <2> QED BY <2>1, <2>2
<1> HIDE DEF FdOf
<1> QED BY <1>2, <1>3, <1>4

\* A connection that changes does not change the others.
LEMMA MappedConnection ==
    ASSUME TypeOK, NEW s \in Switches, NEW f \in Fds, NEW c,
           conn' = [conn EXCEPT ![s][f] = c]
    PROVE  Speaker' = [Speaker EXCEPT ![s][f] = SpeakerOn(c)]
<1>1. \A t \in Switches, g \in Fds :
         conn'[t][g] = IF t = s /\ g = f THEN c ELSE conn[t][g]
  BY DEF TypeOK
<1>2. Speaker' = [t \in Switches |-> [g \in Fds |-> SpeakerOn(conn'[t][g])]]
  BY DEF Speaker, SpeakerOn
<1>3. Speaker = [t \in Switches |-> [g \in Fds |-> SpeakerOn(conn[t][g])]]
  BY DEF Speaker
<1> HIDE DEF SpeakerOn
<1>4. ASSUME NEW t \in Switches, NEW g \in Fds
      PROVE  SpeakerOn(conn'[t][g]) = IF t = s /\ g = f THEN SpeakerOn(c) ELSE Speaker[t][g]
  <2>1. CASE t = s /\ g = f
    BY <1>1, <2>1
  <2>2. CASE ~(t = s /\ g = f)
    BY <1>1, <1>3, <2>2
  <2> QED BY <2>1, <2>2
<1> QED BY <1>2, <1>3, <1>4

\* Nobody comes to speak on a descriptor on which nobody spoke.
LEMMA StaysSilent ==
    ASSUME NEW s \in Switches, NEW f \in Fds, Speaker[s][f] = None,
           Speaker' = [Speaker EXCEPT ![s][f] = None]
    PROVE  UNCHANGED Speaker
BY DEF Speaker

\* An agent authenticates.
LEMMA AuthenticatesMaps ==
    ASSUME IInv, NEW s \in Switches, NEW f \in Fds, NEW r, AuthenticatedWith(s, f, r)
    PROVE  /\ Speaker[s][f] = None
           /\ Speaker' = [Speaker EXCEPT ![s][f] = conn[s][f].agent]
           /\ Current' = [Current EXCEPT ![s] = FdOf(r)]
<1> DEFINE n == conn[s][f].agent
           c == [agent |-> n, authenticated |-> TRUE]
<1>1. c \in Client /\ conn' = [conn EXCEPT ![s][f] = c]
  BY Authenticated
<1>2. Speaker[s][f] = None
  BY DEF AuthenticatedWith, Speaker, SpeakerOn
<1>3. SpeakerOn(c) = n
  BY <1>1 DEF IsClient, SpeakerOn
<1>4. Speaker' = [Speaker EXCEPT ![s][f] = n]
  <2> HIDE DEF c
  <2> QED BY <1>1, <1>3, MappedConnection DEF IInv
<1>5. Current' = [Current EXCEPT ![s] = FdOf(r)]
  BY MappedRegistry DEF AuthenticatedWith, IInv
<1> QED BY <1>2, <1>4, <1>5

\* The three ways in which on_agent_authenticated ends.
LEMMA AuthenticatedImplements ==
    ASSUME IInv, NEW s \in Switches, NEW f \in Fds,
           on_agent_authenticated(s, f) \/ on_agent_authenticated_NoMemory(s, f)
    PROVE  P!Next
<1> DEFINE n == conn[s][f].agent
           i == name_to_ip[n]
           old == registry[s]
<1>1. old \in Registry /\ OneEntryThreeKeys(old)
  BY DEF IInv, TypeOK, RegistryExact
<1>2. Current \in [Switches -> [Agents -> Fds \cup {None}]] /\ Current[s] = FdOf(old)
  BY DEF IInv, TypeOK, Registry, AgentEntry, Current, FdOf
<1>3. SUFFICES ASSUME NEW r, AuthenticatedWith(s, f, r), n \in Agents,
                      \/ i = 0 /\ r = old
                      \/ r = unregister_by_name(old, n)
                      \/ i \in Ips /\ r = register_agent(old, n, i, f)
               PROVE  P!Next
  <2>1. ASSUME NEW r, AuthenticatedWith(s, f, r)
        PROVE  n \in Agents /\ i \in Ips \cup {0}
    <3>1. n \in Agents
      BY <2>1, Authenticated
    <3> QED BY <3>1 DEF IInv, TypeOK, ConfigTypeOK
  <2>2. CASE on_agent_authenticated(s, f) /\ i = 0
    BY <2>1, <2>2 DEF on_agent_authenticated
  <2>3. CASE on_agent_authenticated(s, f) /\ i # 0
    BY <2>1, <2>3 DEF on_agent_authenticated
  <2>4. CASE on_agent_authenticated_NoMemory(s, f)
    BY <2>1, <2>4 DEF on_agent_authenticated_NoMemory
  <2> QED BY <2>2, <2>3, <2>4
<1>4. /\ Speaker[s][f] = None
      /\ Speaker' = [Speaker EXCEPT ![s][f] = n]
      /\ Current' = [Current EXCEPT ![s] = FdOf(r)]
  BY <1>3, AuthenticatesMaps
<1>5. \/ Current' = [Current EXCEPT ![s][n] = None]
      \/ Current' = [Current EXCEPT ![s][n] = f]
  <2>1. CASE i = 0 /\ r = old
    <3>1. old.by_name[n] = None
      <4> SUFFICES ASSUME old.by_name[n] # None PROVE FALSE
        OBVIOUS
      <4>1. old.by_name[n] \in AgentEntry /\ old.by_name[n].virtual_ipv4 = i
        BY <1>3, EntryFacts DEF IInv
      <4> QED BY <2>1, <4>1, EndpointAssumption DEF AgentEntry
    <3>2. FdOf(r)[n] = None
      BY <1>3, <2>1, <3>1 DEF FdOf
    <3> QED BY <1>2, <1>3, <1>4, <2>1, <3>2
  <2>2. CASE r = unregister_by_name(old, n)
    <3>1. r.by_name = [old.by_name EXCEPT ![n] = None]
      BY <1>1, <1>3, <2>2, Unregister
    <3>2. FdOf(r) = [FdOf(old) EXCEPT ![n] = None]
      BY <1>1, <1>3, <3>1 DEF FdOf, Registry
    <3> QED BY <1>2, <1>4, <3>2
  <2>3. CASE i \in Ips /\ r = register_agent(old, n, i, f)
    <3> DEFINE e == [name |-> n, virtual_ipv4 |-> i, fd |-> f]
    <3>1. ASSUME NEW m \in Agents, old.by_name[m] # None, m # n
          PROVE  old.by_name[m].virtual_ipv4 # i /\ old.by_name[m].fd # f
      <4>1. old.by_name[m].virtual_ipv4 = name_to_ip[m]
        BY <3>1, EntryFacts DEF IInv
      <4>2. name_to_ip[m] # i
        BY <1>3, <2>3, <3>1 DEF IInv, MapsAgree
      <4>3. old.by_name[m].fd # f
        BY <1>3, <3>1, Authenticated
      <4> QED BY <4>1, <4>2, <4>3
    <3>2. r.by_name = [old.by_name EXCEPT ![n] = e]
      BY <1>1, <1>3, <2>3, <3>1, RegisterAgent
    <3>3. e # None /\ e.fd = f
      BY <1>3, <2>3, EntryAssumption DEF AgentEntry
    <3> HIDE DEF e
    <3>4. FdOf(r) = [FdOf(old) EXCEPT ![n] = f]
      BY <1>1, <1>3, <3>2, <3>3 DEF FdOf, Registry
    <3> QED BY <1>2, <1>4, <3>4
  <2> QED BY <1>3, <2>1, <2>2, <2>3
<1>6. P!Authenticates(s, f, n)
  BY <1>4, <1>5 DEF P!Authenticates
<1> QED BY <1>3, <1>6 DEF P!Next

\* The connection of an agent closes; before it has authenticated, nothing is seen.
LEMMA DisconnectedImplements ==
    ASSUME IInv, NEW s \in Switches, NEW f \in Fds, on_agent_disconnected(s, f)
    PROVE  [P!Next]_(P!vars)
<1> DEFINE old == registry[s]
           r == unregister_by_fd(old, f)
<1>1. old \in Registry /\ OneEntryThreeKeys(old)
  BY DEF IInv, TypeOK, RegistryExact
<1>2. r.by_name = [n \in Agents |-> IF old.by_name[n] # None /\ old.by_name[n].fd = f
                                    THEN None ELSE old.by_name[n]]
  BY <1>1, Unregister
<1>3. /\ Current = [Current EXCEPT ![s] = FdOf(old)]
      /\ Current' = [Current EXCEPT ![s] = FdOf(r)]
  BY MappedRegistry DEF on_agent_disconnected, DisconnectedWith, IInv, Current
<1>4. Current[s] = FdOf(old)
  BY DEF Current
<1> HIDE DEF r
<1>5. Speaker' = [Speaker EXCEPT ![s][f] = None]
  <2>1. SpeakerOn(None) = None
    BY ConnKinds DEF SpeakerOn, IsClient
  <2>2. TypeOK /\ conn' = [conn EXCEPT ![s][f] = None]
    BY DEF IInv, on_agent_disconnected, DisconnectedWith
  <2>3. Speaker' = [Speaker EXCEPT ![s][f] = SpeakerOn(None)]
    BY <2>2, MappedConnection
  <2> QED BY <2>1, <2>3
<1>6. CASE Speaker[s][f] # None
  <2>1. FdOf(r) = [n \in Agents |-> IF FdOf(old)[n] = f THEN None ELSE FdOf(old)[n]]
    BY <1>1, <1>2, EndpointAssumption DEF FdOf, Registry
  <2>2. P!Closes(s, f)
    BY <1>3, <1>4, <1>5, <1>6, <2>1 DEF P!Closes
  <2> QED BY <2>2 DEF P!Next
<1>7. CASE Speaker[s][f] = None
  <2>1. ASSUME NEW n \in Agents, old.by_name[n] # None  PROVE old.by_name[n].fd # f
    <3> SUFFICES ASSUME old.by_name[n].fd = f PROVE FALSE
      OBVIOUS
    <3>1. conn[s][f] = [agent |-> n, authenticated |-> TRUE]
      BY <2>1, EntryFacts DEF IInv
    <3>2. IsClient(conn[s][f]) /\ conn[s][f].authenticated
      BY <3>1, ConnKinds DEF IsClient
    <3> QED BY <1>7, <3>1, <3>2, EndpointAssumption DEF Speaker, SpeakerOn
  <2>2. FdOf(r) = FdOf(old)
    BY <1>1, <1>2, <2>1 DEF FdOf, Registry
  <2>3. UNCHANGED Current
    BY <1>3, <2>2
  <2>4. UNCHANGED Speaker
    BY <1>5, <1>7, StaysSilent
  <2> QED BY <2>3, <2>4 DEF P!vars
<1> QED BY <1>6, <1>7

\* Every step of a BlackBox is a step of Presence or leaves what it sees alone.
LEMMA StepsImplement == IInv /\ [Next]_vars => [P!Next]_(P!vars)
<1> SUFFICES ASSUME IInv, [Next]_vars PROVE [P!Next]_(P!vars)
  OBVIOUS
<1>1. ASSUME UNCHANGED <<registry, conn>>  PROVE UNCHANGED P!vars
  BY <1>1 DEF P!vars, Current, Speaker
<1>2. ASSUME NEW s \in Switches, NEW f \in Fds, NEW c, UNCHANGED registry,
             ~(IsClient(conn[s][f]) /\ conn[s][f].authenticated),
             ~(IsClient(c) /\ c.authenticated), conn' = [conn EXCEPT ![s][f] = c]
      PROVE  UNCHANGED P!vars
  <2>1. Speaker[s][f] = None /\ SpeakerOn(c) = None
    BY <1>2 DEF Speaker, SpeakerOn
  <2>2. Speaker' = [Speaker EXCEPT ![s][f] = None]
    BY <1>2, <2>1, MappedConnection DEF IInv
  <2>3. UNCHANGED Speaker
    BY <2>1, <2>2, StaysSilent
  <2> QED BY <1>2, <2>3 DEF P!vars, Current
<1>3. ASSUME NEW s \in Switches, NEW f \in Fds, NEW n \in Agents, Connects(s, f, n)
      PROVE  UNCHANGED P!vars
  <2> DEFINE c == [agent |-> n, authenticated |-> FALSE]
  <2>1. ~c.authenticated
    OBVIOUS
  <2>2. ~IsClient(conn[s][f])
    BY <1>3, ConnKinds DEF Connects, IsClient
  <2>3. conn' = [conn EXCEPT ![s][f] = c] /\ UNCHANGED registry
    BY <1>3 DEF Connects, box_vars
  <2> HIDE DEF c
  <2> QED BY <1>2, <2>1, <2>2, <2>3
<1>4. ASSUME NEW s \in Switches, NEW f \in Fds, NEW t \in Switches, PeerConnects(s, f, t)
      PROVE  UNCHANGED P!vars
  <2> DEFINE c == [switch |-> t]
  <2>1. ~IsClient(c) /\ ~IsClient(conn[s][f])
    BY <1>4, ConnKinds DEF PeerConnects, IsClient
  <2>2. conn' = [conn EXCEPT ![s][f] = c] /\ UNCHANGED registry
    BY <1>4 DEF PeerConnects, box_vars
  <2> HIDE DEF c
  <2> QED BY <1>2, <2>1, <2>2
<1>5. ASSUME NEW s \in Switches, NEW f \in Fds, on_switch_disconnected(s, f)
      PROVE  UNCHANGED P!vars
  <2>1. ~IsClient(None) /\ ~IsClient(conn[s][f])
    BY <1>5, ConnKinds DEF on_switch_disconnected, IsClient, IsPeer
  <2> QED BY <1>2, <1>5, <2>1 DEF on_switch_disconnected
<1>6. ASSUME NEW s \in Switches, NEW f \in Fds,
             on_agent_authenticated(s, f) \/ on_agent_authenticated_NoMemory(s, f)
      PROVE  P!Next
  BY <1>6, AuthenticatedImplements
<1>7. ASSUME NEW s \in Switches, NEW f \in Fds, on_agent_disconnected(s, f)
      PROVE  [P!Next]_(P!vars)
  BY <1>7, DisconnectedImplements
<1>8. CASE LoadsConfig \/ Construct \/ Arrives \/ UNCHANGED vars
  BY <1>1, <1>8 DEF LoadsConfig, Construct, Arrives, vars, box_vars
<1>9. ASSUME NEW s \in Switches, NEW i \in Ips,
             on_route_update_Gone(s, i) \/ \E f \in Fds : on_route_update(s, i, f)
      PROVE  UNCHANGED P!vars
  BY <1>1, <1>9 DEF on_route_update_Gone, on_route_update
<1>10. ASSUME NEW s \in Switches, NEW f \in Fds, NEW p \in Packet, Forwards(s, f, p)
       PROVE  UNCHANGED P!vars
  BY <1>1, <1>10 DEF Forwards, box_vars
<1> QED BY <1>3, <1>4, <1>5, <1>6, <1>7, <1>8, <1>9, <1>10 DEF Next

\* The registry with its three indexes implements Presence: at every switch one
\* descriptor speaks for an agent, and only its own close, or an authentication of that
\* agent, takes it away.
THEOREM PresenceHolds == Spec => PresenceSpec
<1>1. Init => P!Init
  <2> SUFFICES ASSUME Init PROVE P!Init
    OBVIOUS
  <2>1. ASSUME NEW s \in Switches  PROVE FdOf(registry[s]) = [n \in Agents |-> None]
    BY <2>1 DEF Init, FdOf, EmptyRegistry
  <2>2. ASSUME NEW s \in Switches  PROVE \A f \in Fds : SpeakerOn(conn[s][f]) = None
    BY <2>2, ConnKinds DEF Init, SpeakerOn, IsClient
  <2> QED BY <2>1, <2>2 DEF P!Init, Current, Speaker
<1> QED BY <1>1, StepsImplement, Invariant, PTL DEF Spec, PresenceSpec, P!Spec
=============================================================================
