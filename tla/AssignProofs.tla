---------------------------- MODULE AssignProofs ----------------------------
(***************************************************************************)
(* pick_switch takes the switches in turn and prefers those that the agent *)
(* can reach, for every number of switches, agents and connections and     *)
(* wherever rr_index was left.                                             *)
(***************************************************************************)
EXTENDS Assign, MipLemmas

-----------------------------------------------------------------------------
(***************************************************************************)
(* Arithmetic modulo the size of the roster.                               *)
(***************************************************************************)

LEMMA Remainder ==
    ASSUME NEW L \in Nat \ {0}, NEW q \in Nat, NEW m \in 0 .. L - 1
    PROVE  (L * q + m) % L = m
OBVIOUS

\* Adding less than once around.
LEMMA AroundOnce ==
    ASSUME NEW L \in Nat \ {0}, NEW r \in Nat, NEW i \in 0 .. L
    PROVE  /\ r % L \in 0 .. L - 1
           /\ (r % L) + i < L => (r + i) % L = (r % L) + i
           /\ (r % L) + i >= L => (r + i) % L = (r % L) + i - L
<1> DEFINE q == r \div L
           p == q + 1
           x == r % L
           m == x + i - L
           y == x + i
<1>1. r = L * q + x /\ q \in Nat /\ x \in 0 .. L - 1
  OBVIOUS
<1> HIDE DEF q, x
<1>2. ASSUME x + i < L
      PROVE  (r + i) % L = x + i
  <2>1. r + i = L * q + y /\ y \in 0 .. L - 1
    BY <1>1, <1>2
  <2> HIDE DEF y
  <2> QED BY <1>1, <2>1, Remainder DEF y
<1>3. ASSUME x + i >= L
      PROVE  (r + i) % L = x + i - L
  <2>1. L * p = L * q + L /\ p \in Nat /\ m \in 0 .. L - 1
    BY <1>1, <1>3
  <2> HIDE DEF p
  <2>2. r + i = L * p + m
    BY <1>1, <2>1
  <2> HIDE DEF m
  <2>3. (L * p + m) % L = m
    BY <2>1, Remainder
  <2> QED BY <2>2, <2>3 DEF m
<1> QED BY <1>1, <1>2, <1>3 DEF x

\* Every position of the roster is at some offset from rr_index.
LEMMA EveryPosition ==
    ASSUME NEW L \in Nat \ {0}, NEW r \in Nat, NEW k \in 0 .. L - 1
    PROVE  \E i \in 0 .. L - 1 : (r + i) % L = k
<1> DEFINE x == r % L
           i == IF x <= k THEN k - x ELSE k - x + L
<1>1. x \in 0 .. L - 1
  OBVIOUS
<1> HIDE DEF x
<1>2. i \in 0 .. L - 1 /\ (IF x <= k THEN x + i < L /\ x + i = k ELSE x + i >= L /\ x + i - L = k)
  BY <1>1
<1> HIDE DEF i
<1>3. (r + i) % L = k
  <2>1. i \in 0 .. L
    BY <1>2
  <2>2. /\ x + i < L => (r + i) % L = x + i
        /\ x + i >= L => (r + i) % L = x + i - L
    BY <2>1, AroundOnce DEF x
  <2> QED BY <1>2, <2>2
<1> QED BY <1>2, <1>3

-----------------------------------------------------------------------------
(***************************************************************************)
(* The inductive invariant.  A connection on the roster is a switch that   *)
(* has nothing more to say, so that nothing but its end changes its entry; *)
(* and while everybody reaches every switch, the picks since the roster    *)
(* last changed are at the positions p, each the next one around, with     *)
(* rr_index in the place of the pick to come.                              *)
(***************************************************************************)
Greeting ==
    [type : {"SWITCH_MIP"}, name : Switches, network : Networks]
    \cup [type : {"AGENT_MIP"}, name : Agents, network : Networks]

Shapes ==
    /\ cli \in [Conn -> Proc \cup {None}]
    /\ DOMAIN to_srv = Conn /\ DOMAIN cdt_info = Conn /\ DOMAIN issued = Token
    /\ switches \in Seq(Conn) /\ NoDuplicates(switches)
    /\ rr_index \in Nat /\ recent \in Seq(Conn)
Greeted ==
    \A c \in Conn :
        to_srv[c] = <<>> \/ (cli[c] # None /\ \E m \in Greeting : to_srv[c] = <<m>>)
Registered ==
    \A c \in Members(switches) :
        /\ to_srv[c] = <<>> /\ cli[c] # None
        /\ cdt_info[c] # None /\ cdt_info[c].role = "SWITCH_CONN"
        /\ cdt_info[c].name \in Switches

Around(p, L, n) ==
    /\ p \in [1 .. n -> 0 .. L - 1]
    /\ \A i, j \in 1 .. n : i < j /\ j - i < L =>
          p[j] = p[i] + (j - i) \/ p[j] = p[i] + (j - i) - L
Turns(p, sw, picks, rr) ==
    /\ Around(p, Len(sw), Len(picks) + 1)
    /\ \A i \in 1 .. Len(picks) : picks[i] = sw[p[i] + 1]
    /\ p[Len(picks) + 1] = rr % Len(sw)
InTurn == AllReachable /\ switches # <<>> => \E p : Turns(p, switches, recent, rr_index)

AInv == Shapes /\ Greeted /\ Registered /\ InTurn

\* Once more around.
LEMMA AroundNext ==
    ASSUME NEW L \in Nat \ {0}, NEW n \in Nat \ {0}, NEW p, Around(p, L, n),
           NEW x, x = (p[n] + 1) % L
    PROVE  Around([i \in 1 .. n + 1 |-> IF i <= n THEN p[i] ELSE x], L, n + 1)
<1> DEFINE q == [i \in 1 .. n + 1 |-> IF i <= n THEN p[i] ELSE x]
           v == p[n]
<1>1. \A i \in 1 .. n : p[i] \in 0 .. L - 1
  BY DEF Around
<1>2. v \in 0 .. L - 1 /\ x = (v + 1) % L
  BY <1>1
<1> HIDE DEF v
<1>3. x = IF v + 1 = L THEN 0 ELSE v + 1
  BY <1>2
<1>4. x \in 0 .. L - 1
  BY <1>2, <1>3
<1>5. q \in [1 .. n + 1 -> 0 .. L - 1]
  BY <1>1, <1>4
<1>6. ASSUME NEW i \in 1 .. n + 1, NEW j \in 1 .. n + 1, i < j, j - i < L
      PROVE  q[j] = q[i] + (j - i) \/ q[j] = q[i] + (j - i) - L
  <2>1. CASE j <= n
    BY <1>6, <2>1 DEF Around
  <2>2. CASE j = n + 1 /\ i = n
    <3>1. q[i] = v /\ q[j] = x
      BY <1>6, <2>2 DEF v
    <3> HIDE DEF q
    <3> QED BY <1>2, <1>3, <2>2, <3>1
  <2>3. CASE j = n + 1 /\ i < n
    <3> DEFINE u == p[i]
    <3>1. v = u + (n - i) \/ v = u + (n - i) - L
      BY <1>6, <2>3 DEF Around, v
    <3>2. q[i] = u /\ q[j] = x /\ u \in 0 .. L - 1
      BY <1>1, <1>6, <2>3
    <3> HIDE DEF q, u
    <3> QED BY <1>2, <1>3, <1>6, <2>3, <3>1, <3>2
  <2> QED BY <1>6, <2>1, <2>2, <2>3
<1> QED BY <1>5, <1>6 DEF Around

-----------------------------------------------------------------------------
(***************************************************************************)
(* pick_switch.                                                            *)
(***************************************************************************)

\* Where every switch can be reached, it takes the one at rr_index.
LEMMA PickInTurn ==
    ASSUME Shapes, AllReachable, switches # <<>>, NEW n
    PROVE  /\ PickIndex(n) = rr_index % Len(switches)
           /\ NextRR(n) = (rr_index % Len(switches)) + 1
<1> DEFINE L == Len(switches)
           R == ReachableOffsets(n)
<1>1. L \in Nat \ {0} /\ rr_index \in Nat
  BY EmptySeq DEF Shapes
<1>2. (rr_index + 0) % L = rr_index % L /\ rr_index % L \in 0 .. L - 1
  BY <1>1
<1>3. switches[(rr_index % L) + 1] \in Members(switches)
  BY <1>1, <1>2 DEF Members
<1>4. 0 \in R
  BY <1>1, <1>2, <1>3 DEF ReachableOffsets, Reachable, AllReachable
<1>5. \A j \in R : j \in Nat
  BY <1>1 DEF ReachableOffsets
<1>6. (CHOOSE i \in R : \A j \in R : i <= j) = 0
  <2> HIDE DEF R
  <2>1. \A i \in R : (\A j \in R : i <= j) => i = 0
    BY <1>4, <1>5
  <2> QED BY <1>4, <1>5, <2>1
<1>7. PickIndex(n) = rr_index % L
  BY <1>2, <1>4, <1>6 DEF PickIndex
<1> QED BY <1>4, <1>7 DEF NextRR

\* It takes a switch that can be reached, if there is one.
LEMMA PickReachable ==
    ASSUME Shapes, switches # <<>>, NEW n
    PROVE  \/ Reachable(pick_switch(n), n)
           \/ \A c \in Members(switches) : ~Reachable(c, n)
<1> DEFINE L == Len(switches)
           R == ReachableOffsets(n)
<1>1. L \in Nat \ {0} /\ rr_index \in Nat
  BY EmptySeq DEF Shapes
<1>2. R \subseteq Nat
  BY <1>1 DEF ReachableOffsets
<1>3. CASE R = {}
  <2> SUFFICES ASSUME NEW k \in 1 .. L PROVE ~Reachable(switches[k], n)
    BY DEF Members
  <2>1. k - 1 \in 0 .. L - 1
    BY <1>1
  <2>2. PICK i \in 0 .. L - 1 : (rr_index + i) % L = k - 1
    BY <1>1, <2>1, EveryPosition
  <2>3. ((rr_index + i) % L) + 1 = k
    BY <1>1, <2>1, <2>2
  <2> QED BY <1>3, <2>3 DEF ReachableOffsets
<1>4. CASE R # {}
  <2> DEFINE i == CHOOSE i \in R : \A j \in R : i <= j
  <2>1. \E k \in R : \A j \in R : k <= j
    BY <1>2, <1>4, NaturalMinimum
  <2>2. i \in R
    <3> HIDE DEF R
    <3> QED BY <2>1
  <2>3. PickIndex(n) = (rr_index + i) % L
    BY <1>4 DEF PickIndex
  <2> HIDE DEF i
  <2> QED BY <2>2, <2>3 DEF ReachableOffsets, pick_switch
<1> QED BY <1>3, <1>4

-----------------------------------------------------------------------------
(***************************************************************************)
(* What a step makes of the turns.                                         *)
(***************************************************************************)

EntriesStand == switches' = switches /\ \A c \in Members(switches) : cdt_info'[c] = cdt_info[c]

LEMMA NothingPicked ==
    ASSUME AInv, EntriesStand, UNCHANGED <<rr_index, recent>>
    PROVE  InTurn'
BY DEF AInv, EntriesStand, InTurn, Turns, AllReachable, Members

LEMMA RosterChanged ==
    ASSUME Shapes', recent' = <<>>
    PROVE  InTurn'
<1> SUFFICES ASSUME switches' # <<>> PROVE \E p : Turns(p, switches', recent', rr_index')
  BY DEF InTurn
<1> DEFINE L == Len(switches')
           p == [i \in 1 .. 1 |-> rr_index' % L]
<1>1. L \in Nat \ {0} /\ rr_index' \in Nat
  BY EmptySeq DEF Shapes
<1>2. rr_index' % L \in 0 .. L - 1
  BY <1>1
<1>3. Len(recent') = 0
  OBVIOUS
<1>4. Around(p, L, 1)
  BY <1>2 DEF Around
<1>5. Turns(p, switches', recent', rr_index')
  <2>1. p[1] = rr_index' % L
    OBVIOUS
  <2> HIDE DEF p
  <2> QED BY <1>3, <1>4, <2>1 DEF Turns
<1> QED BY <1>5

LEMMA OnePicked ==
    ASSUME AInv, EntriesStand, switches # <<>>, NEW n,
           recent' = Append(recent, pick_switch(n)), rr_index' = NextRR(n)
    PROVE  InTurn' /\ recent' \in Seq(Conn) /\ rr_index' \in Nat
<1>1. /\ switches \in Seq(Conn) /\ rr_index \in Nat /\ recent \in Seq(Conn)
      /\ pick_switch(n) \in Conn /\ rr_index' \in Nat
  BY PickSwitch DEF AInv, Shapes
<1>2. /\ recent' \in Seq(Conn) /\ Len(recent') = Len(recent) + 1
      /\ \A i \in 1 .. Len(recent) : recent'[i] = recent[i]
      /\ recent'[Len(recent) + 1] = pick_switch(n)
  BY <1>1, AppendProperties
<1>3. ASSUME AllReachable' PROVE \E p : Turns(p, switches', recent', rr_index')
  <2> DEFINE L == Len(switches)
             k == Len(recent) + 1
             x == rr_index' % L
  <2>1. AllReachable
    BY <1>3 DEF AllReachable, EntriesStand, Members
  <2>2. PICK p : Turns(p, switches, recent, rr_index)
    BY <2>1 DEF AInv, InTurn
  <2>3. L \in Nat \ {0} /\ k \in Nat \ {0} /\ Around(p, L, k) /\ p[k] = rr_index % L
    BY <1>1, <2>2, EmptySeq DEF Turns
  <2>4. PickIndex(n) = p[k] /\ rr_index' = p[k] + 1
    BY <2>1, <2>3, PickInTurn DEF AInv
  <2> DEFINE q == [i \in 1 .. k + 1 |-> IF i <= k THEN p[i] ELSE x]
  <2>5. Around(q, L, k + 1)
    BY <2>3, <2>4, AroundNext
  <2>6. pick_switch(n) = switches[p[k] + 1]
    BY <2>4 DEF pick_switch
  <2>7. \A i \in 1 .. k : recent'[i] = switches[q[i] + 1]
    BY <1>1, <1>2, <2>2, <2>6 DEF Turns
  <2>8. q[k + 1] = x /\ Len(recent') = k
    BY <1>1, <1>2
  <2> HIDE DEF q, x
  <2>9. Turns(q, switches', recent', rr_index')
    BY <2>5, <2>7, <2>8 DEF Turns, EntriesStand, x
  <2> QED BY <2>9
<1> QED BY <1>1, <1>2, <1>3 DEF InTurn

-----------------------------------------------------------------------------
\* A connection that has something to say is not on the roster.
LEMMA SpeaksFirst ==
    ASSUME AInv, NEW c \in Conn, to_srv[c] # <<>>
    PROVE  /\ c \notin Members(switches)
           /\ \E m \in Greeting : to_srv[c] = <<m>> /\ Head(to_srv[c]) = m /\ Tail(to_srv[c]) = <<>>
<1>1. PICK m \in Greeting : to_srv[c] = <<m>>
  BY DEF AInv, Greeted
<1> QED BY <1>1 DEF AInv, Registered

\* A step that reads the packet of c, or closes c, and leaves the roster alone.
LEMMA ServedStep ==
    ASSUME AInv, NEW c \in Conn, c \notin Members(switches), UNCHANGED <<cli, switches>>,
           \/ to_srv' = to_srv
           \/ to_srv' = [to_srv EXCEPT ![c] = <<>>],
           \/ cdt_info' = cdt_info
           \/ \E e : cdt_info' = [cdt_info EXCEPT ![c] = e]
    PROVE  Greeted' /\ Registered' /\ EntriesStand
           /\ DOMAIN to_srv' = Conn /\ DOMAIN cdt_info' = Conn
<1>1. /\ DOMAIN to_srv = Conn /\ DOMAIN cdt_info = Conn /\ Members(switches) \subseteq Conn
      /\ Members(switches') = Members(switches)
  BY ElementOfSeq DEF AInv, Shapes, Members
<1>2. /\ DOMAIN to_srv' = Conn /\ DOMAIN cdt_info' = Conn
      /\ \A d \in Conn : d # c => to_srv'[d] = to_srv[d] /\ cdt_info'[d] = cdt_info[d]
      /\ to_srv'[c] = to_srv[c] \/ to_srv'[c] = <<>>
  BY <1>1
<1>3. Greeted'
  BY <1>2 DEF AInv, Greeted
<1>4. Registered'
  BY <1>1, <1>2 DEF AInv, Registered
<1>5. EntriesStand
  BY <1>1, <1>2 DEF EntriesStand
<1> QED BY <1>2, <1>3, <1>4, <1>5

\* A client comes, with a packet about itself, or goes.
LEMMA ClientsStep ==
    ASSUME AInv, Clients
    PROVE  AInv'
<1>1. ASSUME NEW p \in Switches \cup Agents, NEW c \in Conn, NEW m \in Greeting,
             Greets(p, c, m), UNCHANGED recent
      PROVE  AInv'
  <2>1. /\ cli[c] = None /\ cli' = [cli EXCEPT ![c] = p]
        /\ to_srv' = [to_srv EXCEPT ![c] = <<m>>]
        /\ UNCHANGED <<cdt_info, switches, rr_index, issued, recent>>
    BY <1>1 DEF Greets, Unused, cdt_vars
  <2>2. p # None /\ p \in Proc
    BY ProcAssumption DEF Proc
  <2>3. Shapes'
    BY <2>1, <2>2 DEF AInv, Shapes, NoDuplicates
  <2>4. /\ \A d \in Conn : d # c => cli'[d] = cli[d] /\ to_srv'[d] = to_srv[d]
        /\ cli'[c] = p /\ to_srv'[c] = <<m>>
    BY <2>1 DEF AInv, Shapes
  <2>5. Greeted'
    BY <2>2, <2>4 DEF AInv, Greeted
  <2>6. \A d \in Members(switches) : d \in Conn /\ d # c
    BY <2>1, ElementOfSeq DEF AInv, Shapes, Members, Registered
  <2>7. Registered'
    BY <2>1, <2>4, <2>6 DEF AInv, Registered, Members
  <2>8. InTurn'
    BY <2>1, NothingPicked DEF EntriesStand
  <2> QED BY <2>3, <2>5, <2>7, <2>8 DEF AInv
<1>2. ASSUME NEW c \in Conn, Closes(c), UNCHANGED recent
      PROVE  AInv'
  <2>1. UNCHANGED <<cli, to_srv, cdt_info, switches, rr_index, issued, recent>>
    BY <1>2 DEF Closes, CloseCli, cdt_vars
  <2>2. InTurn'
    BY <2>1, NothingPicked DEF EntriesStand
  <2> QED BY <2>1, <2>2 DEF AInv, Shapes, Greeted, Registered, Members, NoDuplicates
<1>3. /\ \A s \in Switches, n \in Networks :
            [type |-> "SWITCH_MIP", name |-> s, network |-> n] \in Greeting
      /\ \A a \in Agents, n \in Networks :
            [type |-> "AGENT_MIP", name |-> a, network |-> n] \in Greeting
  BY DEF Greeting
<1> QED BY <1>1, <1>2, <1>3 DEF Clients, SwitchGreets, AgentGreets

\* onAgentMIP picks a switch, whether its first send succeeds or not.
LEMMA PicksStep ==
    ASSUME AInv, NEW c \in Conn, NEW t \in Token, Conducts,
           onAgentMIP_Assign(c, t) \/ onAgentMIP_AssignFails(c, t)
    PROVE  AInv'
<1> DEFINE info == AgentInfo(c)
           n == info.network
           sw == pick_switch(n)
           grant == [agent |-> info.name, switch |-> cdt_info[sw].name]
<1>1. /\ CdtReads(c, "AGENT_MIP") /\ switches # <<>> /\ issued[t] = None
      /\ cdt_info' = [cdt_info EXCEPT ![c] = info]
      /\ rr_index' = NextRR(n)
      /\ issued' = [issued EXCEPT ![t] = grant]
      /\ to_srv' = [to_srv EXCEPT ![c] = Tail(@)]
      /\ UNCHANGED <<cli, switches>>
  BY DEF onAgentMIP_Assign, onAgentMIP_AssignFails, SrvAnswers, SrvTakes, ReadOne, Fresh
<1>2. to_srv[c] # <<>> /\ Head(to_srv[c]).type = "AGENT_MIP"
  BY <1>1 DEF CdtReads, SrvReads
<1>3. PICK m \in Greeting : to_srv[c] = <<m>> /\ Head(to_srv[c]) = m /\ Tail(to_srv[c]) = <<>>
  BY <1>2, SpeaksFirst
<1>4. c \notin Members(switches)
  BY <1>2, SpeaksFirst
<1>5. info.name \in Agents
  BY <1>2, <1>3 DEF AgentInfo, Greeting
<1>6. sw \in Members(switches) /\ cdt_info[sw].name \in Switches
  BY <1>1, PickSwitch DEF AInv, Shapes, Registered
<1>7. grant # None
  BY <1>5, <1>6, CdtNoneAssumption DEF Grant
<1>8. issued' # issued
  BY <1>1, <1>7 DEF AInv, Shapes
<1>9. to_srv' = [to_srv EXCEPT ![c] = <<>>]
  BY <1>1, <1>3 DEF AInv, Shapes
<1>10. (CHOOSE d \in Conn : to_srv'[d] # to_srv[d]) = c
  <2>1. \A d \in Conn : to_srv'[d] # to_srv[d] <=> d = c
    BY <1>2, <1>9 DEF AInv, Shapes
  <2> QED BY <2>1
<1>11. recent' = Append(recent, sw)
  BY <1>1, <1>8, <1>10 DEF Conducts, Picked
<1>12. Greeted' /\ Registered' /\ EntriesStand
       /\ DOMAIN to_srv' = Conn /\ DOMAIN cdt_info' = Conn
  BY <1>1, <1>4, <1>9, ServedStep
<1>13. InTurn' /\ recent' \in Seq(Conn) /\ rr_index' \in Nat
  BY <1>1, <1>11, <1>12, OnePicked
<1>14. Shapes'
  BY <1>1, <1>12, <1>13 DEF AInv, Shapes, NoDuplicates
<1> QED BY <1>12, <1>13, <1>14 DEF AInv

\* The roster grows.
LEMMA SwitchStep ==
    ASSUME AInv, NEW c \in Conn, Conducts, onSwitchMIP(c)
    PROVE  AInv'
<1> DEFINE m == Head(to_srv[c])
           e == [role |-> "SWITCH_CONN", name |-> m.name, network |-> m.network]
<1>1. /\ CdtReads(c, "SWITCH_MIP")
      /\ cdt_info' = [cdt_info EXCEPT ![c] = e]
      /\ switches' = Append(switches, c)
      /\ to_srv' = [to_srv EXCEPT ![c] = Tail(@)]
      /\ UNCHANGED <<cli, rr_index, issued>>
  BY DEF onSwitchMIP, SrvTakes, ReadOne
<1>2. to_srv[c] # <<>> /\ m.type = "SWITCH_MIP"
  BY <1>1 DEF CdtReads, SrvReads
<1>3. c \notin Members(switches) /\ m \in Greeting /\ Tail(to_srv[c]) = <<>> /\ cli[c] # None
  BY <1>2, SpeaksFirst DEF AInv, Greeted
<1>4. m.name \in Switches
  BY <1>2, <1>3 DEF Greeting
<1>5. /\ switches' \in Seq(Conn) /\ NoDuplicates(switches')
      /\ Members(switches') = Members(switches) \cup {c}
  BY <1>1, <1>3, AppendRoster DEF AInv, Shapes
<1>6. recent' = <<>>
  <2>1. switches' # switches
    BY <1>3, <1>5
  <2> QED BY <2>1 DEF Conducts
<1>7. /\ \A d \in Conn : d # c => to_srv'[d] = to_srv[d] /\ cdt_info'[d] = cdt_info[d]
      /\ to_srv'[c] = <<>> /\ cdt_info'[c] = e
  BY <1>1, <1>3 DEF AInv, Shapes
<1>8. Shapes'
  BY <1>1, <1>5, <1>6 DEF AInv, Shapes
<1>9. Greeted'
  BY <1>1, <1>7 DEF AInv, Greeted
<1>10. Registered'
  <2>1. e # None /\ e.role = "SWITCH_CONN" /\ e.name \in Switches
    <3>1. m.network \in Networks
      BY <1>2, <1>3 DEF Greeting
    <3>2. e \in CdtConnInfo
      BY <1>4, <3>1 DEF CdtConnInfo, Roles, Proc
    <3> QED BY <1>4, <3>2, CdtNoneAssumption
  <2>2. \A d \in Members(switches) : d \in Conn
    BY ElementOfSeq DEF AInv, Shapes, Members
  <2> HIDE DEF e
  <2> QED BY <1>1, <1>3, <1>5, <1>7, <2>1, <2>2 DEF AInv, Registered
<1>11. InTurn'
  BY <1>6, <1>8, RosterChanged
<1> QED BY <1>8, <1>9, <1>10, <1>11 DEF AInv

\* A connection ends, and the roster shrinks if it was a switch's.
LEMMA CloseStep ==
    ASSUME AInv, NEW c \in Conn, Conducts, CdtOnClose(c)
    PROVE  AInv'
<1>1. /\ cdt_info' = [cdt_info EXCEPT ![c] = None]
      /\ to_srv' = [to_srv EXCEPT ![c] = <<>>]
      /\ UNCHANGED <<cli, rr_index, issued>>
      /\ IF cdt_info[c].role = "SWITCH_CONN" THEN switches' = Erase(switches, c)
         ELSE switches' = switches
  BY DEF CdtOnClose, CloseSrv
<1>2. /\ switches' \in Seq(Conn) /\ NoDuplicates(switches')
      /\ Members(switches') = Members(switches) \ {c}
  <2>1. CASE cdt_info[c].role = "SWITCH_CONN"
    BY <1>1, <2>1, EraseRoster DEF AInv, Shapes
  <2>2. CASE cdt_info[c].role # "SWITCH_CONN"
    BY <1>1, <2>2 DEF AInv, Shapes, Registered
  <2> QED BY <2>1, <2>2
<1>3. /\ \A d \in Conn : d # c => to_srv'[d] = to_srv[d] /\ cdt_info'[d] = cdt_info[d]
      /\ to_srv'[c] = <<>> /\ DOMAIN to_srv' = Conn /\ DOMAIN cdt_info' = Conn
  BY <1>1 DEF AInv, Shapes
<1>4. Members(switches) \subseteq Conn
  BY ElementOfSeq DEF AInv, Shapes, Members
<1>5. Greeted' /\ Registered'
  BY <1>1, <1>2, <1>3, <1>4 DEF AInv, Greeted, Registered
<1>6. CASE switches' # switches
  <2>1. recent' = <<>>
    BY <1>6 DEF Conducts
  <2>2. Shapes'
    BY <1>1, <1>2, <1>3, <2>1 DEF AInv, Shapes
  <2> QED BY <1>5, <2>1, <2>2, RosterChanged DEF AInv
<1>7. CASE switches' = switches
  <2>1. recent' = recent
    BY <1>1, <1>7 DEF Conducts
  <2>2. EntriesStand
    BY <1>2, <1>3, <1>4, <1>7 DEF EntriesStand
  <2>3. Shapes'
    BY <1>1, <1>2, <1>3, <2>1 DEF AInv, Shapes
  <2> QED BY <1>1, <1>5, <2>1, <2>2, <2>3, NothingPicked DEF AInv
<1> QED BY <1>6, <1>7

-----------------------------------------------------------------------------
\* Every step keeps the invariant.
LEMMA AssignNextInv == AInv /\ [AssignNext]_assign_vars => AInv'
<1> SUFFICES ASSUME AInv, [AssignNext]_assign_vars PROVE AInv'
  OBVIOUS
<1>1. CASE Clients
  BY <1>1, ClientsStep
<1>2. ASSUME UNCHANGED <<cli, to_srv, cdt_info, switches, rr_index, issued, recent>>
      PROVE  AInv'
  <2>1. InTurn'
    BY <1>2, NothingPicked DEF EntriesStand
  <2> QED BY <1>2, <2>1 DEF AInv, Shapes, Greeted, Registered, Members, NoDuplicates
<1>3. CASE UNCHANGED assign_vars
  BY <1>2, <1>3 DEF assign_vars, net_vars, cdt_vars
<1>4. CASE Conducts
  <2>1. CASE CdtStart \/ onAgentMIP_Notify \/ onAgentMIP_NotifyFails
    <3>1. UNCHANGED <<cli, to_srv, cdt_info, switches, rr_index, issued>>
      BY <2>1 DEF CdtStart, onAgentMIP_Notify, onAgentMIP_NotifyFails, SrvWrites, net_vars
    <3>2. recent' = recent
      BY <1>4, <3>1 DEF Conducts
    <3> QED BY <1>2, <3>1, <3>2
  <2>2. ASSUME NEW c \in Conn, CdtAccept(c) \/ onAgentMIP_NoSwitch(c)  PROVE AInv'
    <3>1. /\ UNCHANGED <<cli, switches, rr_index, issued>>
          /\ to_srv' = to_srv \/ to_srv' = [to_srv EXCEPT ![c] = <<>>]
          /\ \E e : cdt_info' = [cdt_info EXCEPT ![c] = e]
          /\ cdt_info[c] = None \/ to_srv[c] # <<>>
      BY <2>2 DEF CdtAccept, onAgentMIP_NoSwitch, CloseSrv, net_vars, CdtReads, SrvReads
    <3>2. c \notin Members(switches)
      BY <3>1 DEF AInv, Registered
    <3>3. recent' = recent
      BY <1>4, <3>1 DEF Conducts
    <3>4. Greeted' /\ Registered' /\ EntriesStand
          /\ DOMAIN to_srv' = Conn /\ DOMAIN cdt_info' = Conn
      BY <3>1, <3>2, ServedStep
    <3>5. InTurn'
      BY <3>1, <3>3, <3>4, NothingPicked
    <3>6. Shapes'
      BY <3>1, <3>3, <3>4 DEF AInv, Shapes, NoDuplicates
    <3> QED BY <3>4, <3>5, <3>6 DEF AInv
  <2>3. ASSUME NEW c \in Conn, onSwitchMIP(c)  PROVE AInv'
    BY <1>4, <2>3, SwitchStep
  <2>4. ASSUME NEW c \in Conn, NEW t \in Token,
               onAgentMIP_Assign(c, t) \/ onAgentMIP_AssignFails(c, t)
        PROVE  AInv'
    BY <1>4, <2>4, PicksStep
  <2>5. ASSUME NEW c \in Conn, onAgentMRP(c)  PROVE AInv'
    <3>1. to_srv[c] # <<>> /\ Head(to_srv[c]).type = "AGENT_MRP"
      BY <2>5 DEF onAgentMRP, CdtReads, SrvReads
    <3>2. Head(to_srv[c]) \in Greeting
      BY <3>1, SpeaksFirst
    <3> QED BY <3>1, <3>2 DEF Greeting
  <2>6. ASSUME NEW c \in Conn, CdtOnClose(c)  PROVE AInv'
    BY <1>4, <2>6, CloseStep
  <2>7. CdtStart \/ CdtStep
    BY <1>4 DEF Conducts
  <2> QED BY <2>1, <2>2, <2>3, <2>4, <2>5, <2>6, <2>7 DEF CdtStep
<1> QED BY <1>1, <1>3, <1>4 DEF AssignNext

LEMMA AssignInitInv == AssignInit => AInv
<1> SUFFICES ASSUME AssignInit PROVE AInv
  OBVIOUS
<1>1. /\ cli = [c \in Conn |-> None] /\ to_srv = [c \in Conn |-> <<>>]
      /\ cdt_info = [c \in Conn |-> None] /\ switches = <<>> /\ rr_index = 0
      /\ issued = [t \in Token |-> None] /\ recent = <<>>
  BY DEF AssignInit, NetInit, CdtInit
<1>2. Shapes
  BY <1>1 DEF Shapes, NoDuplicates
<1>3. Greeted /\ InTurn
  BY <1>1 DEF Greeted, InTurn
<1>4. Registered
  BY <1>1 DEF Registered, Members
<1> QED BY <1>2, <1>3, <1>4 DEF AInv

LEMMA AssignInductive == AssignSpec => []AInv
BY AssignInitInv, AssignNextInv, PTL DEF AssignSpec

-----------------------------------------------------------------------------
\* pick_switch goes round the roster: among fewer picks than there are switches none
\* comes twice, for rosters of every size and every value left in rr_index.
THEOREM RoundRobinHolds == AssignSpec => []RoundRobin
<1>1. AInv => RoundRobin
  <2> SUFFICES ASSUME AInv, AllReachable,
                      NEW i \in 1 .. Len(recent), NEW j \in 1 .. Len(recent),
                      i < j, j - i < Len(switches)
               PROVE  recent[i] # recent[j]
    BY DEF RoundRobin
  <2> DEFINE L == Len(switches)
  <2>1. L \in Nat /\ Len(recent) \in Nat
    BY DEF AInv, Shapes
  <2>2. switches # <<>>
    BY <2>1
  <2>3. PICK p : Turns(p, switches, recent, rr_index)
    BY <2>2 DEF AInv, InTurn
  <2> DEFINE a == p[i]
             b == p[j]
  <2>4. i \in 1 .. Len(recent) + 1 /\ j \in 1 .. Len(recent) + 1
    BY <2>1
  <2>5. /\ a \in 0 .. L - 1 /\ b \in 0 .. L - 1
        /\ b = a + (j - i) \/ b = a + (j - i) - L
    BY <2>3, <2>4 DEF Turns, Around
  <2>6. recent[i] = switches[a + 1] /\ recent[j] = switches[b + 1]
    BY <2>3 DEF Turns
  <2> HIDE DEF a, b
  <2>7. a + 1 \in 1 .. L /\ b + 1 \in 1 .. L /\ a + 1 # b + 1
    BY <2>1, <2>5
  <2> QED BY <2>6, <2>7 DEF AInv, Shapes, NoDuplicates
<1> QED BY <1>1, AssignInductive, PTL

\* onAgentMIP sends an agent to a switch it cannot reach only if it can reach none.
THEOREM ReachableFirstHolds == AssignSpec => ReachableFirst
<1>1. ASSUME AInv, [AssignNext]_assign_vars, Assigns
      PROVE  \/ Reachable(busy'.switch, cdt_info'[busy'.agent].network)
             \/ \A c \in Members(switches) :
                   ~Reachable(c, cdt_info'[busy'.agent].network)
  <2>1. busy' # busy
    BY <1>1 DEF Assigns
  <2>2. PICK c \in Conn, t \in Token : onAgentMIP_Assign(c, t)
    BY <1>1, <2>1 DEF AssignNext, Clients, SwitchGreets, AgentGreets, Greets, Closes, Conducts,
       CdtStart, CdtStep, onAgentMIP_Notify, onAgentMIP_NotifyFails, CdtAccept, onSwitchMIP,
       onAgentMIP_NoSwitch, onAgentMIP_AssignFails, onAgentMRP, CdtOnClose,
       Assigns, cdt_vars, assign_vars
  <2> DEFINE info == AgentInfo(c)
             n == info.network
  <2>3. /\ switches # <<>> /\ cdt_info' = [cdt_info EXCEPT ![c] = info]
        /\ busy' = [agent |-> c, switch |-> pick_switch(n), token |-> t]
    BY <2>2 DEF onAgentMIP_Assign
  <2>4. cdt_info'[busy'.agent].network = n /\ busy'.switch = pick_switch(n)
    BY <1>1, <2>3 DEF AInv, Shapes
  <2>5. \/ Reachable(pick_switch(n), n)
        \/ \A d \in Members(switches) : ~Reachable(d, n)
    BY <1>1, <2>3, PickReachable DEF AInv
  <2> QED BY <2>4, <2>5
<1>2. AInv /\ [AssignNext]_assign_vars =>
        [Assigns =>
           \/ Reachable(busy'.switch, cdt_info'[busy'.agent].network)
           \/ \A c \in Members(switches) :
                 ~Reachable(c, cdt_info'[busy'.agent].network)]_assign_vars
  BY <1>1
<1> QED BY <1>2, AssignInductive, PTL DEF AssignSpec, ReachableFirst
=============================================================================
