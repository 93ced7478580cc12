----------------------------- MODULE MipLemmas -----------------------------
(***************************************************************************)
(* Lemmas for the proofs about Mip: what the operators do, and what a step *)
(* of one process leaves alone of the inductive invariant.                 *)
(***************************************************************************)
EXTENDS MipInv, SequenceTheorems, WellFoundedInduction, TLAPS

-----------------------------------------------------------------------------
(***************************************************************************)
(* Rosters.                                                                *)
(***************************************************************************)

\* push_back of a new entry.
LEMMA AppendRoster ==
    ASSUME NEW S, NEW v \in Seq(S), NEW p \in S
    PROVE  /\ Append(v, p) \in Seq(S)
           /\ Members(Append(v, p)) = Members(v) \cup {p}
           /\ NoDuplicates(v) /\ p \notin Members(v) => NoDuplicates(Append(v, p))
<1>1. Append(v, p) \in Seq(S) /\ Len(Append(v, p)) = Len(v) + 1 /\ Len(v) \in Nat
  OBVIOUS
<1>2. \A i \in 1 .. Len(v) + 1 : Append(v, p)[i] = IF i <= Len(v) THEN v[i] ELSE p
  OBVIOUS
<1>3. Members(Append(v, p)) \subseteq Members(v) \cup {p}
  BY <1>1, <1>2 DEF Members
<1>4. Members(v) \cup {p} \subseteq Members(Append(v, p))
  <2>1. ASSUME NEW x \in Members(v) PROVE x \in Members(Append(v, p))
    <3>1. PICK i \in 1 .. Len(v) : v[i] = x  BY DEF Members
    <3>2. i \in 1 .. Len(v) + 1 /\ Append(v, p)[i] = x  BY <3>1, <1>1, <1>2
    <3> QED BY <3>2, <1>1 DEF Members
  <2>2. p \in Members(Append(v, p))
    <3>1. Append(v, p)[Len(v) + 1] = p  BY <1>1, <1>2
    <3> QED BY <3>1, <1>1 DEF Members
  <2> QED BY <2>1, <2>2
<1>5. ASSUME NoDuplicates(v), p \notin Members(v) PROVE NoDuplicates(Append(v, p))
  BY <1>1, <1>2, <1>5 DEF NoDuplicates, Members
<1> QED BY <1>1, <1>3, <1>4, <1>5

\* erase of one entry.
LEMMA EraseRoster ==
    ASSUME NEW S, NEW v \in Seq(S), NEW p, NoDuplicates(v)
    PROVE  /\ Erase(v, p) \in Seq(S)
           /\ Members(Erase(v, p)) = Members(v) \ {p}
           /\ NoDuplicates(Erase(v, p))
<1>1. CASE p \notin Members(v)
  BY <1>1 DEF Erase
<1>2. CASE p \in Members(v)
  <2> DEFINE k == CHOOSE k \in 1 .. Len(v) : v[k] = p
             w == [i \in 1 .. Len(v) - 1 |-> IF i < k THEN v[i] ELSE v[i + 1]]
  <2>1. k \in 1 .. Len(v) /\ v[k] = p
    BY <1>2 DEF Members
  <2>2. Erase(v, p) = w
    BY <1>2 DEF Erase
  <2> HIDE DEF k
  <2>3. Len(v) \in Nat /\ Len(v) - 1 \in Nat
    BY <2>1
  <2>4. \A i \in 1 .. Len(v) - 1 : w[i] \in S
    BY <2>1, <2>3
  <2>5. w \in Seq(S) /\ Len(w) = Len(v) - 1
    BY <2>3, <2>4
  <2>6. \A i \in 1 .. Len(v) - 1 : w[i] = v[IF i < k THEN i ELSE i + 1]
    OBVIOUS
  <2>7. Members(w) \subseteq Members(v) \ {p}
    BY <2>1, <2>3, <2>5, <2>6 DEF Members, NoDuplicates
  <2>8. ASSUME NEW x \in Members(v) \ {p} PROVE x \in Members(w)
    <3>1. PICK j \in 1 .. Len(v) : v[j] = x  BY DEF Members
    <3>2. j # k  BY <3>1, <2>1
    <3>3. CASE j < k
      BY <3>1, <3>3, <2>1, <2>5, <2>6 DEF Members
    <3>4. CASE j > k
      <4>1. j - 1 \in 1 .. Len(v) - 1 /\ ~(j - 1 < k) /\ (j - 1) + 1 = j
        BY <3>4, <2>1
      <4>2. w[j - 1] = x
        BY <4>1, <2>6, <3>1
      <4> QED BY <4>1, <4>2, <2>5 DEF Members
    <3> QED BY <3>2, <3>3, <3>4, <2>1
  <2>9. NoDuplicates(w)
    BY <2>1, <2>3, <2>5, <2>6 DEF NoDuplicates
  <2> QED BY <2>2, <2>5, <2>7, <2>8, <2>9
<1> QED BY <1>1, <1>2

-----------------------------------------------------------------------------
(***************************************************************************)
(* Channels.                                                               *)
(***************************************************************************)

\* A write to an open reader appends one packet.
LEMMA WrittenFacts ==
    ASSUME NEW q \in [Conn -> Seq(Packet)], NEW c \in Conn, NEW m \in Packet,
           NEW r, r = [q EXCEPT ![c] = Append(q[c], m)]
    PROVE  /\ r \in [Conn -> Seq(Packet)]
           /\ \A d \in Conn : d # c => r[d] = q[d]
           /\ Len(r[c]) = Len(q[c]) + 1 /\ Len(q[c]) \in Nat
           /\ \A i \in 1 .. Len(q[c]) : r[c][i] = q[c][i]
           /\ r[c][Len(q[c]) + 1] = m
<1>1. q[c] \in Seq(Packet)  OBVIOUS
<1>2. /\ Append(q[c], m) \in Seq(Packet)
      /\ Len(Append(q[c], m)) = Len(q[c]) + 1 /\ Len(q[c]) \in Nat
      /\ \A i \in 1 .. Len(q[c]) : Append(q[c], m)[i] = q[c][i]
      /\ Append(q[c], m)[Len(q[c]) + 1] = m
  BY <1>1
<1> QED BY <1>2

\* The first packet written to a connection.
LEMMA FirstWritten ==
    ASSUME NEW q \in [Conn -> Seq(Packet)], NEW c \in Conn, NEW m \in Packet,
           q[c] = <<>>, NEW r, r = [q EXCEPT ![c] = Append(q[c], m)]
    PROVE  /\ r \in [Conn -> Seq(Packet)]
           /\ \A d \in Conn : d # c => r[d] = q[d]
           /\ Len(r[c]) = 1 /\ r[c][1] = m
BY WrittenFacts

\* A read takes the first packet.
LEMMA ReadFacts ==
    ASSUME NEW q \in [Conn -> Seq(Packet)], NEW c \in Conn, q[c] # <<>>,
           NEW r, r = ReadOne(q, c)
    PROVE  /\ r \in [Conn -> Seq(Packet)]
           /\ \A d \in Conn : d # c => r[d] = q[d]
           /\ Len(q[c]) \in Nat \ {0}
           /\ Len(r[c]) = Len(q[c]) - 1
           /\ \A i \in 1 .. Len(q[c]) - 1 : r[c][i] = q[c][i + 1]
           /\ Head(q[c]) = q[c][1]
           /\ Head(q[c]) \in Packet
           /\ Len(q[c]) = 1 => r[c] = <<>>
<1>1. q[c] \in Seq(Packet) /\ Len(q[c]) \in Nat \ {0}  OBVIOUS
<1>2. /\ Tail(q[c]) \in Seq(Packet)
      /\ Len(Tail(q[c])) = Len(q[c]) - 1
      /\ \A i \in 1 .. Len(q[c]) - 1 : Tail(q[c])[i] = q[c][i + 1]
      /\ Head(q[c]) = q[c][1]
      /\ Head(q[c]) \in Packet
  BY <1>1
<1>3. Len(q[c]) = 1 => Tail(q[c]) = <<>>
  <2>1. \A seq \in Seq(Packet) : seq # <<>> => Len(seq) \in Nat \ {0}
    BY EmptySeq
  <2>2. Len(q[c]) = 1 => Len(Tail(q[c])) = 0
    BY <1>2
  <2> QED BY <1>2, <2>1, <2>2
<1> QED BY <1>1, <1>2, <1>3 DEF ReadOne

\* The fields of a packet follow from its type.
LEMMA PacketFields ==
    ASSUME NEW m \in Packet
    PROVE  /\ m.type = "SWITCH_MIP" => m.name \in Switches /\ m.network \in Networks
           /\ m.type = "AGENT_MIP" => m.name \in Agents /\ m.network \in Networks
           /\ m.type = "AGENT_MRP" => m.name \in Agents
           /\ m.type = "CONNECT_TO_SWITCH" => m.switch \in Switches /\ m.token \in Token
           /\ m.type = "AGENT_CONNECTION_TOKEN" => m.agent \in Agents /\ m.token \in Token
           /\ m.type = "AUTH_CONNECT_TO_SWITCH" => m.token \in Token
BY DEF Packet

\* What the processes write are packets.
LEMMA PacketsWritten ==
    /\ \A s \in Switches, n \in Networks :
          [type |-> "SWITCH_MIP", name |-> s, network |-> n] \in Packet
    /\ \A a \in Agents, n \in Networks :
          [type |-> "AGENT_MIP", name |-> a, network |-> n] \in Packet
    /\ \A a \in Agents : [type |-> "AGENT_MRP", name |-> a] \in Packet
    /\ \A s \in Switches, t \in Token :
          [type |-> "CONNECT_TO_SWITCH", switch |-> s, token |-> t] \in Packet
    /\ \A a \in Agents, t \in Token :
          [type |-> "AGENT_CONNECTION_TOKEN", agent |-> a, token |-> t] \in Packet
    /\ \A t \in Token : [type |-> "AUTH_CONNECT_TO_SWITCH", token |-> t] \in Packet
    /\ [type |-> "CONNECTION_ACCEPTED"] \in Packet
BY DEF Packet

-----------------------------------------------------------------------------
(***************************************************************************)
(* pick_switch.                                                            *)
(***************************************************************************)

\* A set of natural numbers that is not empty has a least element.
LEMMA NaturalMinimum ==
    ASSUME NEW T \in SUBSET Nat, T # {}
    PROVE  \E k \in T : \A j \in T : k <= j
<1> DEFINE LT == {ss \in Nat \X Nat : ss[1] < ss[2]}
<1>1. IsWellFoundedOn(LT, Nat)
  BY NatLessThanWellFounded DEF OpToRel
<1>4. \A x, y \in Nat : x < y => <<x, y>> \in LT
  OBVIOUS
<1> HIDE DEF LT
<1>2. PICK k \in T : \A j \in T : ~(<<j, k>> \in LT)
  BY <1>1, WFMin
<1>3. ASSUME NEW j \in T PROVE k <= j
  <2>1. j \in Nat /\ k \in Nat
    OBVIOUS
  <2>2. ~(j < k)
    BY <1>2, <1>4, <2>1
  <2> QED BY <2>1, <2>2
<1> QED BY <1>3

\* pick_switch returns an entry of the roster, wherever rr_index is.
LEMMA PickSwitch ==
    ASSUME switches \in Seq(Conn), switches # <<>>, rr_index \in Nat, NEW n
    PROVE  /\ PickIndex(n) \in 0 .. Len(switches) - 1
           /\ pick_switch(n) \in Members(switches)
           /\ pick_switch(n) \in Conn
           /\ NextRR(n) \in Nat
<1>1. Len(switches) \in Nat \ {0}
  BY EmptySeq
<1> DEFINE R == ReachableOffsets(n)
           i == IF R = {} THEN 0 ELSE CHOOSE i \in R : \A j \in R : i <= j
<1>2. R \subseteq Nat
  BY <1>1 DEF ReachableOffsets
<1>3. R # {} => \E k \in R : \A j \in R : k <= j
  BY <1>2, NaturalMinimum
<1>4. i \in Nat
  BY <1>2, <1>3
<1>5. PickIndex(n) = (rr_index + i) % Len(switches)
  BY DEF PickIndex
<1> HIDE DEF i
<1>6. PickIndex(n) \in 0 .. Len(switches) - 1
  BY <1>1, <1>4, <1>5
<1>7. pick_switch(n) \in Members(switches) /\ pick_switch(n) \in Conn
  BY <1>1, <1>6 DEF pick_switch, Members
<1>8. NextRR(n) \in Nat
  BY <1>1, <1>6 DEF NextRR
<1> QED BY <1>6, <1>7, <1>8

-----------------------------------------------------------------------------
(***************************************************************************)
(* What steps of a kind preserve.                                          *)
(***************************************************************************)

\* What a step keeps that leaves the conductor and the switches' ConnInfos alone.
LEMMA QuietServers ==
    ASSUME IInv, UNCHANGED cdt_vars, UNCHANGED <<sw_info, sw_agents, admitted>>,
           \A c \in Conn : cli[c] # None =>
              /\ cli'[c] = cli[c] /\ srv'[c] = srv[c] /\ srv_up'[c] = srv_up[c]
    PROVE  RosterValid' /\ PendingHasSwitch' /\ SwConnInv' /\ SwitchRosterExact'
<1>1. /\ UNCHANGED <<cdt_up, cdt_info, switches, agents, pending_tokens, busy, issued>>
      /\ UNCHANGED <<sw_info, sw_agents, admitted>>
  BY DEF cdt_vars
<1>2. RosterValid'
  BY <1>1 DEF IInv, ConnInv, RosterValid
<1>3. PendingHasSwitch'
  BY <1>1 DEF IInv, PendingHasSwitch
<1>4. SwConnInv'
  <2> SUFFICES ASSUME NEW c \in Conn
               PROVE  /\ sw_info[c] # None => srv'[c] \in Switches /\ srv_up'[c]
                      /\ Authenticated(c) => sw_info[c].name = cli'[c]
                      /\ Authenticated(c) <=> admitted[c] # None /\ sw_info[c] # None
                      /\ admitted[c] # None =>
                            /\ srv'[c] \in Switches
                            /\ Granted(admitted[c], cli'[c], srv'[c])
                            /\ srv_up'[c] => sw_info[c] # None
    BY <1>1 DEF SwConnInv, Authenticated, Granted
  <2>1. CASE cli[c] = None
    BY <2>1, ProcAssumption DEF IInv, ConnInv, SwConnInv, Authenticated, Proc
  <2>2. CASE cli[c] # None
    BY <2>2 DEF IInv, SwConnInv
  <2> QED BY <2>1, <2>2
<1>5. SwitchRosterExact'
  BY <1>1, <1>4 DEF IInv, ConnInv, SwConnInv, SwitchRosterExact, Authenticated
<1> QED BY <1>2, <1>3, <1>4, <1>5

\* Tokens on their way are not affected by other steps.
LEMMA QuietTokens ==
    ASSUME IInv, UNCHANGED <<to_cli, busy, sw_pending, admitted>>
    PROVE  TokenInv'
BY DEF IInv, TokenInv, Announces

\* The conductor notifies no switch, and switches learn of no token.
PendingShrinks ==
    /\ UNCHANGED busy
    /\ \A s \in Switches, t \in Token : sw_pending[s][t] = None => sw_pending'[s][t] = None

\* Packets that stay in the channels to the clients, or are read from the front.
LEMMA ShrinkToCli ==
    ASSUME IInv, NEW off \in [Conn -> Nat],
           \A c \in Conn : \A i \in 1 .. Len(to_cli'[c]) :
              /\ i + off[c] \in 1 .. Len(to_cli[c])
              /\ to_cli'[c][i] = to_cli[c][i + off[c]],
           \A c \in Conn : cli[c] # None => cli'[c] = cli[c] /\ srv'[c] = srv[c],
           UNCHANGED <<issued, admitted>>
    PROVE  /\ ToCliInv'
           /\ PendingShrinks => TokenInv'
<1>1. ToCliInv'
  <2> SUFFICES ASSUME NEW c \in Conn, NEW i \in 1 .. Len(to_cli'[c])
               PROVE  LET m == to_cli'[c][i] IN
          \/ m.type = "CONNECT_TO_SWITCH"
             /\ srv'[c] = CDT /\ cli'[c] \in Agents /\ Granted(m.token, cli'[c], m.switch)
          \/ m.type = "AGENT_CONNECTION_TOKEN"
             /\ srv'[c] = CDT /\ cli'[c] \in Switches /\ Granted(m.token, m.agent, cli'[c])
          \/ m.type = "CONNECTION_ACCEPTED"
             /\ srv'[c] \in Switches /\ admitted[c] # None
    BY DEF ToCliInv, Granted
  <2>1. i + off[c] \in 1 .. Len(to_cli[c]) /\ to_cli'[c][i] = to_cli[c][i + off[c]]
    OBVIOUS
  <2>2. cli[c] # None
    BY <2>1 DEF IInv, ConnInv
  <2> QED BY <2>1, <2>2 DEF IInv, ToCliInv
<1>2. ASSUME PendingShrinks PROVE TokenInv'
  <2>0. /\ UNCHANGED <<busy, admitted>>
        /\ \A s \in Switches, t \in Token : sw_pending[s][t] = None => sw_pending'[s][t] = None
        /\ busy # None => busy.token \in Token
    BY <1>2 DEF PendingShrinks, IInv, TypeOK, CdtTypeOK, Handling
  <2>1. ASSUME NEW c \in Conn, NEW i \in 1 .. Len(to_cli'[c]), NEW t, Announces(c, i, t)'
        PROVE  i + off[c] \in 1 .. Len(to_cli[c]) /\ Announces(c, i + off[c], t)
    BY <2>1 DEF Announces
  <2>2. \A c \in Conn : \A i, j \in 1 .. Len(to_cli'[c]) :
            i + off[c] = j + off[c] => i = j
    OBVIOUS
  <2>3. busy' # None =>
          /\ \A c \in Conn : \A i \in 1 .. Len(to_cli'[c]) : ~Announces(c, i, busy.token)'
          /\ \A s \in Switches : sw_pending'[s][busy'.token] = None
          /\ \A c \in Conn : admitted'[c] # busy'.token
    BY <2>0, <2>1 DEF IInv, TokenInv
  <2>4. ASSUME NEW c \in Conn, NEW i \in 1 .. Len(to_cli'[c]), NEW t \in Token,
               Announces(c, i, t)'
        PROVE  /\ \A d \in Conn : \A j \in 1 .. Len(to_cli'[d]) :
                     Announces(d, j, t)' => c = d /\ i = j
               /\ \A s \in Switches : sw_pending'[s][t] = None
               /\ \A d \in Conn : admitted'[d] # t
    <3>1. i + off[c] \in 1 .. Len(to_cli[c]) /\ Announces(c, i + off[c], t)
      BY <2>1, <2>4
    <3>2. ASSUME NEW d \in Conn, NEW j \in 1 .. Len(to_cli'[d]), Announces(d, j, t)'
          PROVE  c = d /\ i = j
      <4>1. j + off[d] \in 1 .. Len(to_cli[d]) /\ Announces(d, j + off[d], t)
        BY <2>1, <3>2
      <4>2. c = d /\ i + off[c] = j + off[d]
        BY <3>1, <4>1 DEF IInv, TokenInv
      <4> QED BY <4>2, <2>2
    <3> QED BY <2>0, <3>1, <3>2 DEF IInv, TokenInv
  <2> QED BY <2>0, <2>3, <2>4 DEF IInv, TokenInv
<1> QED BY <1>1, <1>2

(***************************************************************************)
(* What other processes may do to a connection without falsifying what its *)
(* client knows of it: the server reads the client's packet, admits the    *)
(* connection with the token in it, or closes it.                          *)
(***************************************************************************)
Kept(c) ==
    /\ cli'[c] = cli[c] /\ srv'[c] = srv[c]
    /\ to_srv'[c] = to_srv[c] \/ to_srv'[c] = <<>>
    /\ to_srv[c] = <<>> =>
          \/ cdt_info'[c] = cdt_info[c]
          \/ cdt_info'[c] = None
          \/ cdt_info'[c].role = "UNKNOWN"
    /\ \/ admitted'[c] = admitted[c]
       \/ /\ to_srv[c] # <<>> /\ admitted'[c] # None
          /\ admitted'[c] = to_srv[c][1].token
GrantsKept ==
    \A t \in Token, a \in Agents, s \in Switches : Granted(t, a, s) => Granted(t, a, s)'

\* An agent that takes no step, and whose connections are kept.
LEMMA AgFrame ==
    ASSUME IInv, NEW a \in Agents, GrantsKept,
           ag_pc'[a] = ag_pc[a], ag_cdt'[a] = ag_cdt[a],
           ag_sw'[a] = ag_sw[a], ag_assign'[a] = ag_assign[a],
           \A c \in Conn : cli[c] = a => Kept(c)
    PROVE  AgCdtOK(a)' /\ AgAssignOK(a)' /\ AgSwOK(a)'
<1>0. AgCdtOK(a) /\ AgAssignOK(a) /\ AgSwOK(a) /\ AgTypeOK
  BY DEF IInv, TypeOK, AgInv
<1>1. AgCdtOK(a)'
  <2>1. CASE ag_cdt[a] = None
    BY <1>0, <2>1 DEF AgCdtOK
  <2>2. CASE ag_cdt[a] # None
    <3>1. ag_cdt[a] \in Conn /\ Kept(ag_cdt[a])
      BY <1>0, <2>2 DEF AgTypeOK, AgCdtOK
    <3> QED BY <1>0, <3>1 DEF AgCdtOK, Kept
  <2> QED BY <2>1, <2>2
<1>2. AgAssignOK(a)'
  <2>1. ag_assign[a] # None => ag_assign[a].token \in Token /\ ag_assign[a].switch \in Switches
    BY <1>0 DEF AgTypeOK, Assignment
  <2> QED BY <1>0, <2>1 DEF AgAssignOK, GrantsKept, Granted
<1>3. AgSwOK(a)'
  <2>1. CASE ag_sw[a] = None
    BY <1>0, <2>1 DEF AgSwOK
  <2>2. CASE ag_sw[a] # None
    <3>1. ag_sw[a] \in Conn /\ Kept(ag_sw[a])
      BY <1>0, <2>2 DEF AgTypeOK, AgSwOK
    <3> QED BY <1>0, <2>2, <3>1 DEF AgSwOK, Kept
  <2> QED BY <2>1, <2>2
<1> QED BY <1>1, <1>2, <1>3

\* A switch that takes no step, and whose control connection is kept.
LEMMA SwFrame ==
    ASSUME IInv, NEW s \in Switches, GrantsKept,
           sw_pc'[s] = sw_pc[s], sw_conn'[s] = sw_conn[s], sw_pending'[s] = sw_pending[s],
           \A c \in Conn : cli[c] = s => Kept(c)
    PROVE  SwOK(s)'
<1>0. SwOK(s) /\ SwTypeOK
  BY DEF IInv, TypeOK, SwProcInv
<1>1. (\A t \in Token : sw_pending[s][t] # None => Granted(t, sw_pending[s][t].agent, s))'
  <2>1. ASSUME NEW t \in Token, sw_pending[s][t] # None
        PROVE  Granted(t, sw_pending[s][t].agent, s) /\ sw_pending[s][t].agent \in Agents
    BY <1>0, <2>1 DEF SwOK, SwTypeOK, PendingToken
  <2> QED BY <2>1 DEF GrantsKept, Granted
<1>2. CASE sw_conn[s] = None
  BY <1>0, <1>1, <1>2 DEF SwOK
<1>3. CASE sw_conn[s] # None
  <2>1. sw_conn[s] \in Conn /\ Kept(sw_conn[s])
    BY <1>0, <1>3 DEF SwTypeOK, SwOK
  <2> QED BY <1>0, <1>1, <2>1 DEF SwOK, Kept
<1> QED BY <1>2, <1>3

\* A client reads one packet: the channel loses its first packet.
LEMMA ReadShrinks ==
    ASSUME IInv, NEW c \in Conn, to_cli[c] # <<>>, to_cli' = ReadOne(to_cli, c),
           UNCHANGED <<cli, srv, issued, admitted>>
    PROVE  /\ ToCliInv'
           /\ UNCHANGED <<busy, sw_pending>> => TokenInv'
<1> DEFINE off == [d \in Conn |-> IF d = c THEN 1 ELSE 0]
<1>0. to_cli \in [Conn -> Seq(Packet)]
  BY DEF IInv, TypeOK, NetTypeOK
<1>1. off \in [Conn -> Nat]
  OBVIOUS
<1>2. ASSUME NEW d \in Conn, NEW i \in 1 .. Len(to_cli'[d])
      PROVE  /\ i + off[d] \in 1 .. Len(to_cli[d])
             /\ to_cli'[d][i] = to_cli[d][i + off[d]]
  <2>1. CASE d = c
    <3>1. /\ Len(to_cli[c]) \in Nat \ {0} /\ Len(to_cli'[c]) = Len(to_cli[c]) - 1
          /\ \A j \in 1 .. Len(to_cli[c]) - 1 : to_cli'[c][j] = to_cli[c][j + 1]
      BY <1>0, ReadFacts
    <3>2. i \in 1 .. Len(to_cli[c]) - 1 /\ off[d] = 1
      BY <2>1, <3>1
    <3> QED BY <2>1, <3>1, <3>2
  <2>2. CASE d # c
    <3>1. to_cli'[d] = to_cli[d]
      BY <1>0, <2>2, ReadFacts
    <3>2. Len(to_cli[d]) \in Nat /\ off[d] = 0
      BY <1>0, <2>2
    <3> QED BY <3>1, <3>2
  <2> QED BY <2>1, <2>2
<1> HIDE DEF off
<1> QED BY <1>1, <1>2, ShrinkToCli DEF PendingShrinks

\* Connections are closed: their channels are emptied.
LEMMA CloseShrinks ==
    ASSUME IInv, \A d \in Conn : to_cli'[d] = to_cli[d] \/ to_cli'[d] = <<>>,
           UNCHANGED <<cli, srv, issued, admitted>>
    PROVE  /\ ToCliInv'
           /\ PendingShrinks => TokenInv'
           /\ UNCHANGED <<busy, sw_pending>> => TokenInv'
<1> DEFINE off == [d \in Conn |-> 0]
<1>1. off \in [Conn -> Nat]
  OBVIOUS
<1>2. ASSUME NEW d \in Conn, NEW i \in 1 .. Len(to_cli'[d])
      PROVE  /\ i + off[d] \in 1 .. Len(to_cli[d])
             /\ to_cli'[d][i] = to_cli[d][i + off[d]]
  <2>1. to_cli'[d] = to_cli[d]
    <3>1. to_cli'[d] # <<>>
      OBVIOUS
    <3> QED BY <3>1
  <2>2. Len(to_cli[d]) \in Nat /\ off[d] = 0
    BY DEF IInv, TypeOK, NetTypeOK
  <2> QED BY <2>1, <2>2
<1> HIDE DEF off
<1> QED BY <1>1, <1>2, ShrinkToCli DEF PendingShrinks

\* A client reads from or closes its connections; what it knows is settled apart.
LEMMA ClientTakes ==
    ASSUME IInv, UNCHANGED cdt_vars, UNCHANGED <<sw_info, sw_agents, admitted>>, faults' \in Nat,
           UNCHANGED <<cli, srv, srv_up, to_srv>>,
           cli_up' \in [Conn -> BOOLEAN], to_cli' \in [Conn -> Seq(Packet)],
           \A c \in Conn : cli_up'[c] => cli_up[c],
           \A c \in Conn : ~cli_up'[c] => to_cli'[c] = <<>>,
           SwTypeOK', SwProcInv', AgTypeOK', AgInv', ToCliInv', TokenInv'
    PROVE  IInv'
<1>0. UNCHANGED <<cdt_up, cdt_info, switches, agents, pending_tokens, rr_index, busy, issued>>
  BY DEF cdt_vars
<1>1. TypeOK'
  BY <1>0 DEF IInv, TypeOK, NetTypeOK, CdtTypeOK
<1>2. ConnInv'
  BY <1>0 DEF IInv, ConnInv
<1>3. ToSrvInv'
  BY <1>0 DEF IInv, ToSrvInv, Granted
<1>5. CdtInv'
  BY <1>0 DEF IInv, CdtInv, Granted
<1>6. RosterValid' /\ PendingHasSwitch' /\ SwConnInv' /\ SwitchRosterExact'
  BY QuietServers
<1> QED BY <1>1, <1>2, <1>3, <1>5, <1>6 DEF IInv

\* A client opens a connection; what it writes and knows is settled apart.
LEMMA ClientOpens ==
    ASSUME IInv, UNCHANGED cdt_vars,
           UNCHANGED <<sw_info, sw_pending, sw_agents, admitted, faults>>,
           NEW p, NEW q, NEW c \in Conn, cli[c] = None,
           \/ p \in Switches \cup Agents /\ q = CDT
           \/ p \in Agents /\ q \in Switches,
           cli' = [cli EXCEPT ![c] = p], srv' = [srv EXCEPT ![c] = q],
           cli_up' = [cli_up EXCEPT ![c] = TRUE], srv_up' = [srv_up EXCEPT ![c] = TRUE],
           to_cli' = to_cli, to_srv' \in [Conn -> Seq(Packet)],
           \A d \in Conn : d # c => to_srv'[d] = to_srv[d],
           SwTypeOK', SwProcInv', AgTypeOK', AgInv', ToSrvInv'
    PROVE  IInv'
<1>0. UNCHANGED <<cdt_up, cdt_info, switches, agents, pending_tokens, rr_index, busy, issued>>
  BY DEF cdt_vars
<1>a. cli \in [Conn -> Proc \cup {None}] /\ srv \in [Conn -> Proc \cup {None}]
      /\ cli_up \in [Conn -> BOOLEAN] /\ srv_up \in [Conn -> BOOLEAN]
  BY DEF IInv, TypeOK, NetTypeOK
<1>b. p \in Proc /\ q \in Proc /\ p # None /\ q # None
  BY ProcAssumption DEF Proc
<1>c. /\ cli'[c] = p /\ srv'[c] = q /\ cli_up'[c] /\ srv_up'[c]
      /\ \A d \in Conn : d # c => /\ cli'[d] = cli[d] /\ srv'[d] = srv[d]
                                  /\ cli_up'[d] = cli_up[d] /\ srv_up'[d] = srv_up[d]
  BY <1>a
<1>1. TypeOK'
  BY <1>0, <1>a, <1>b DEF IInv, TypeOK, NetTypeOK, CdtTypeOK
<1>2. ConnInv'
  BY <1>0, <1>b, <1>c DEF IInv, ConnInv
<1>3. ToCliInv'
  <2>1. to_cli[c] = <<>>
    BY DEF IInv, ConnInv
  <2> QED BY <1>0, <1>c, <2>1 DEF IInv, ToCliInv, Granted
<1>4. CdtInv'
  <2>1. cdt_info[c] = None
    BY ProcAssumption DEF IInv, ConnInv, CdtInv
  <2>2. busy # None => busy.agent \in Conn /\ busy.switch \in Conn
                       /\ busy.switch \in Members(switches)
    BY DEF IInv, TypeOK, CdtTypeOK, Handling, RosterValid
  <2>3. busy # None => busy.agent # c /\ busy.switch # c
    BY <2>1, <2>2 DEF IInv, CdtInv, RosterValid
  <2> QED BY <1>0, <1>c, <2>1, <2>2, <2>3 DEF IInv, CdtInv, Granted
<1>5. RosterValid' /\ PendingHasSwitch' /\ SwConnInv' /\ SwitchRosterExact'
  <2>1. \A d \in Conn : cli[d] # None =>
              cli'[d] = cli[d] /\ srv'[d] = srv[d] /\ srv_up'[d] = srv_up[d]
    BY <1>c
  <2> QED BY <2>1, QuietServers
<1>6. TokenInv'
  BY <1>0, QuietTokens
<1> QED BY <1>1, <1>2, <1>3, <1>4, <1>5, <1>6 DEF IInv

\* All agents, when none takes a step.
LEMMA AgsFrame ==
    ASSUME IInv, GrantsKept, UNCHANGED ag_vars,
           \A c \in Conn : cli[c] \in Agents => Kept(c)
    PROVE  AgTypeOK' /\ AgInv'
<1>0. UNCHANGED <<ag_pc, ag_cdt, ag_sw, ag_assign>>
  BY DEF ag_vars
<1>1. AgTypeOK'
  BY <1>0 DEF IInv, TypeOK, AgTypeOK
<1>2. ASSUME NEW a \in Agents PROVE AgCdtOK(a)' /\ AgAssignOK(a)' /\ AgSwOK(a)'
  BY <1>0, AgFrame
<1> QED BY <1>1, <1>2 DEF AgInv

\* All switches, when none takes a step.
LEMMA SwsFrame ==
    ASSUME IInv, GrantsKept, UNCHANGED sw_vars,
           \A c \in Conn : cli[c] \in Switches => Kept(c)
    PROVE  SwTypeOK' /\ SwProcInv'
<1>0. UNCHANGED <<sw_pc, sw_conn, sw_conductor, sw_info, sw_pending, sw_agents, admitted>>
  BY DEF sw_vars
<1>1. SwTypeOK'
  BY <1>0 DEF IInv, TypeOK, SwTypeOK
<1>2. ASSUME NEW s \in Switches PROVE SwOK(s)'
  BY <1>0, SwFrame
<1> QED BY <1>1, <1>2 DEF SwProcInv

\* The other agents, when one takes a step.
LEMMA OtherAgents ==
    ASSUME IInv, GrantsKept, NEW a \in Agents,
           \A b \in Agents : b # a =>
              /\ ag_pc'[b] = ag_pc[b] /\ ag_cdt'[b] = ag_cdt[b]
              /\ ag_sw'[b] = ag_sw[b] /\ ag_assign'[b] = ag_assign[b],
           \A c \in Conn : cli[c] \in Agents /\ cli[c] # a => Kept(c),
           AgCdtOK(a)', AgAssignOK(a)', AgSwOK(a)'
    PROVE  AgInv'
<1>1. ASSUME NEW b \in Agents, b # a PROVE AgCdtOK(b)' /\ AgAssignOK(b)' /\ AgSwOK(b)'
  BY <1>1, AgFrame
<1> QED BY <1>1 DEF AgInv

\* The other switches, when one takes a step.
LEMMA OtherSwitches ==
    ASSUME IInv, GrantsKept, NEW s \in Switches,
           \A r \in Switches : r # s =>
              /\ sw_pc'[r] = sw_pc[r] /\ sw_conn'[r] = sw_conn[r]
              /\ sw_pending'[r] = sw_pending[r],
           \A c \in Conn : cli[c] \in Switches /\ cli[c] # s => Kept(c),
           SwOK(s)'
    PROVE  SwProcInv'
<1>1. ASSUME NEW r \in Switches, r # s PROVE SwOK(r)'
  BY <1>1, SwFrame
<1> QED BY <1>1 DEF SwProcInv

\* A step that opens a connection keeps the others.
LEMMA OpenKeeps ==
    ASSUME IInv, UNCHANGED cdt_vars, UNCHANGED admitted,
           NEW c \in Conn, cli[c] = None,
           \A d \in Conn : d # c =>
              cli'[d] = cli[d] /\ srv'[d] = srv[d] /\ to_srv'[d] = to_srv[d]
    PROVE  /\ GrantsKept
           /\ \A d \in Conn : cli[d] # None => Kept(d)
           /\ to_srv[c] = <<>> /\ cdt_info'[c] = None /\ admitted'[c] = None
<1>0. UNCHANGED <<cdt_info, issued>>
  BY DEF cdt_vars
<1>1. GrantsKept
  BY <1>0 DEF GrantsKept, Granted
<1>2. to_srv[c] = <<>> /\ cdt_info'[c] = None /\ admitted'[c] = None
  BY <1>0, ProcAssumption DEF IInv, ConnInv, CdtInv
<1>3. ASSUME NEW d \in Conn, cli[d] # None PROVE Kept(d)
  BY <1>0, <1>3 DEF Kept
<1> QED BY <1>1, <1>2, <1>3

\* What clients have written is read, lost or left alone.
LEMMA ToSrvShrinks ==
    ASSUME IInv, GrantsKept,
           \A c \in Conn : to_srv'[c] = <<>> \/
              /\ to_srv'[c] = to_srv[c]
              /\ cli'[c] = cli[c] /\ srv'[c] = srv[c]
              /\ admitted'[c] = admitted[c]
              /\ cdt_info'[c] = cdt_info[c] \/ cdt_info'[c] = None
                 \/ cdt_info'[c].role = "UNKNOWN"
    PROVE  ToSrvInv'
<1> SUFFICES ASSUME NEW c \in Conn, to_srv'[c] # <<>>
             PROVE  /\ Len(to_srv'[c]) = 1
                    /\ cdt_info'[c] # None => cdt_info'[c].role = "UNKNOWN"
                    /\ admitted'[c] = None
                    /\ \/ to_srv'[c][1].type \in {"SWITCH_MIP", "AGENT_MIP", "AGENT_MRP"}
                          /\ to_srv'[c][1].name = cli'[c] /\ srv'[c] = CDT
                       \/ to_srv'[c][1].type = "AUTH_CONNECT_TO_SWITCH"
                          /\ Granted(to_srv[c][1].token, cli[c], srv[c])'
                          /\ srv'[c] \in Switches
  BY DEF ToSrvInv
<1>1. /\ to_srv'[c] = to_srv[c]
      /\ cli'[c] = cli[c] /\ srv'[c] = srv[c]
      /\ admitted'[c] = admitted[c]
      /\ cdt_info'[c] = cdt_info[c] \/ cdt_info'[c] = None
         \/ cdt_info'[c].role = "UNKNOWN"
  OBVIOUS
<1>2. /\ Len(to_srv[c]) = 1
      /\ cdt_info[c] # None => cdt_info[c].role = "UNKNOWN"
      /\ admitted[c] = None
      /\ \/ to_srv[c][1].type \in {"SWITCH_MIP", "AGENT_MIP", "AGENT_MRP"}
            /\ to_srv[c][1].name = cli[c] /\ srv[c] = CDT
         \/ to_srv[c][1].type = "AUTH_CONNECT_TO_SWITCH"
            /\ Granted(to_srv[c][1].token, cli[c], srv[c]) /\ srv[c] \in Switches
  BY <1>1 DEF IInv, ToSrvInv
<1>3. to_srv[c][1].type = "AUTH_CONNECT_TO_SWITCH" =>
          to_srv[c][1].token \in Token /\ cli[c] \in Agents
  <2>1. to_srv[c] \in Seq(Packet) /\ cli[c] # None
    BY <1>1 DEF IInv, TypeOK, NetTypeOK, ConnInv
  <2>2. to_srv[c][1] \in Packet
    BY <1>2, <2>1
  <2>3. to_srv[c][1].type = "AUTH_CONNECT_TO_SWITCH" => srv[c] \in Switches
    BY <1>2
  <2> QED BY <2>1, <2>2, <2>3, PacketFields, ProcAssumption DEF IInv, ConnInv
<1>4. ASSUME to_srv[c][1].type = "AUTH_CONNECT_TO_SWITCH",
             Granted(to_srv[c][1].token, cli[c], srv[c]), srv[c] \in Switches
      PROVE  Granted(to_srv[c][1].token, cli[c], srv[c])'
  BY <1>1, <1>3, <1>4 DEF GrantsKept, Granted
<1> QED BY <1>1, <1>2, <1>4

\* A client writes its one packet to a connection; the others are kept.
LEMMA ClientWrote ==
    ASSUME IInv, UNCHANGED cdt_vars, UNCHANGED <<cli, srv, admitted>>,
           NEW c \in Conn, NEW m \in Packet, to_srv[c] = <<>>,
           to_srv' = Written(to_srv, c, srv_up[c], m)
    PROVE  /\ to_srv' \in [Conn -> Seq(Packet)]
           /\ ~srv_up[c] => to_srv'[c] = <<>>
           /\ srv_up[c] => Len(to_srv'[c]) = 1 /\ to_srv'[c][1] = m
           /\ \A d \in Conn : d # c => to_srv'[d] = to_srv[d]
           /\ \A d \in Conn : d # c => Kept(d)
           /\ GrantsKept
<1>1. to_srv \in [Conn -> Seq(Packet)]
  BY DEF IInv, TypeOK, NetTypeOK
<1>2. CASE srv_up[c]
  <2>1. to_srv' = [to_srv EXCEPT ![c] = Append(to_srv[c], m)]
    BY <1>2 DEF Written
  <2>2. /\ to_srv' \in [Conn -> Seq(Packet)]
        /\ \A d \in Conn : d # c => to_srv'[d] = to_srv[d]
        /\ Len(to_srv'[c]) = 1 /\ to_srv'[c][1] = m
    BY <1>1, <2>1, FirstWritten
  <2> QED BY <1>2, <2>2 DEF cdt_vars, Kept, GrantsKept, Granted
<1>3. CASE ~srv_up[c]
  BY <1>1, <1>3 DEF Written, cdt_vars, Kept, GrantsKept, Granted
<1> QED BY <1>2, <1>3

\* The rest of the invariant after such a write.
LEMMA ClientWrites ==
    ASSUME IInv, UNCHANGED cdt_vars,
           UNCHANGED <<sw_info, sw_pending, sw_agents, admitted, faults>>,
           UNCHANGED <<cli, srv, cli_up, srv_up, to_cli>>,
           NEW c \in Conn, NEW m \in Packet, to_srv[c] = <<>>,
           to_srv' = Written(to_srv, c, srv_up[c], m),
           cli[c] # None, admitted[c] = None,
           cdt_info[c] # None => cdt_info[c].role = "UNKNOWN",
           \/ m.type \in {"SWITCH_MIP", "AGENT_MIP", "AGENT_MRP"}
              /\ m.name = cli[c] /\ srv[c] = CDT
           \/ m.type = "AUTH_CONNECT_TO_SWITCH"
              /\ Granted(m.token, cli[c], srv[c]) /\ srv[c] \in Switches,
           SwTypeOK', SwProcInv', AgTypeOK', AgInv'
    PROVE  IInv'
<1>0. UNCHANGED <<cdt_up, cdt_info, switches, agents, pending_tokens, rr_index, busy, issued>>
  BY DEF cdt_vars
<1>a. /\ to_srv' \in [Conn -> Seq(Packet)]
      /\ ~srv_up[c] => to_srv'[c] = <<>>
      /\ srv_up[c] => Len(to_srv'[c]) = 1 /\ to_srv'[c][1] = m
      /\ \A d \in Conn : d # c => to_srv'[d] = to_srv[d]
  BY ClientWrote
<1>1. TypeOK'
  BY <1>0, <1>a DEF IInv, TypeOK, NetTypeOK, CdtTypeOK
<1>2. ConnInv'
  BY <1>0, <1>a DEF IInv, ConnInv
<1>3. ToSrvInv'
  <2>1. ~srv_up[c] => to_srv'[c] = <<>>
    BY <1>a
  <2>2. srv_up[c] =>
          /\ Len(to_srv'[c]) = 1 /\ admitted'[c] = None
          /\ cdt_info'[c] # None => cdt_info'[c].role = "UNKNOWN"
          /\ \/ to_srv'[c][1].type \in {"SWITCH_MIP", "AGENT_MIP", "AGENT_MRP"}
                /\ to_srv'[c][1].name = cli'[c] /\ srv'[c] = CDT
             \/ to_srv'[c][1].type = "AUTH_CONNECT_TO_SWITCH"
                /\ Granted(to_srv[c][1].token, cli[c], srv[c])' /\ srv'[c] \in Switches
    BY <1>0, <1>a DEF Granted
  <2>3. \A d \in Conn : d # c => to_srv'[d] = to_srv[d]
    BY <1>a
  <2> QED BY <1>0, <2>1, <2>2, <2>3 DEF IInv, ToSrvInv, Granted
<1>4. ToCliInv'
  BY <1>0 DEF IInv, ToCliInv, Granted
<1>5. CdtInv'
  BY <1>0 DEF IInv, CdtInv, Granted
<1>6. RosterValid' /\ PendingHasSwitch' /\ SwConnInv' /\ SwitchRosterExact'
  BY QuietServers
<1>7. TokenInv'
  BY <1>0, QuietTokens
<1> QED BY <1>1, <1>2, <1>3, <1>4, <1>5, <1>6, <1>7 DEF IInv

\* A server writes a packet to one of its connections.
LEMMA ServerWrote ==
    ASSUME IInv, NEW c \in Conn, NEW m \in Packet,
           to_cli' = Written(to_cli, c, cli_up[c], m)
    PROVE  /\ to_cli' \in [Conn -> Seq(Packet)]
           /\ \A d \in Conn : d # c => to_cli'[d] = to_cli[d]
           /\ ~cli_up[c] => to_cli' = to_cli
           /\ Len(to_cli[c]) \in Nat
           /\ \A i \in 1 .. Len(to_cli'[c]) :
                \/ i \in 1 .. Len(to_cli[c]) /\ to_cli'[c][i] = to_cli[c][i]
                \/ i = Len(to_cli[c]) + 1 /\ to_cli'[c][i] = m
<1>1. to_cli \in [Conn -> Seq(Packet)] /\ Len(to_cli[c]) \in Nat
  BY DEF IInv, TypeOK, NetTypeOK
<1>2. CASE cli_up[c]
  <2>1. to_cli' = [to_cli EXCEPT ![c] = Append(to_cli[c], m)]
    BY <1>2 DEF Written
  <2>2. /\ to_cli' \in [Conn -> Seq(Packet)]
        /\ \A d \in Conn : d # c => to_cli'[d] = to_cli[d]
        /\ Len(to_cli'[c]) = Len(to_cli[c]) + 1
        /\ \A i \in 1 .. Len(to_cli[c]) : to_cli'[c][i] = to_cli[c][i]
        /\ to_cli'[c][Len(to_cli[c]) + 1] = m
    BY <1>1, <2>1, WrittenFacts
  <2>3. \A i \in 1 .. Len(to_cli'[c]) :
            i \in 1 .. Len(to_cli[c]) \/ i = Len(to_cli[c]) + 1
    BY <1>1, <2>2
  <2> QED BY <1>1, <1>2, <2>2, <2>3
<1>3. CASE ~cli_up[c]
  BY <1>1, <1>3 DEF Written
<1> QED BY <1>2, <1>3
=============================================================================
