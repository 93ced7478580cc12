------------------------------- MODULE Config -------------------------------
(***************************************************************************)
(* Config (src/src/blackbox/config.cpp): load reads a file into four maps, *)
(* in two passes over its lines, and returns at the first bad line.  One   *)
(* line of a pass is one step, so that the maps a failed load leaves       *)
(* behind are states as well.                                              *)
(*                                                                         *)
(* A line is its two tokens, told apart by what the second one is: an      *)
(* address, ::internet: and an address, or a name.  An address that        *)
(* inet_pton refuses after ::internet:, or 0.0.0.0, is 0.  Blank lines and *)
(* comments are skipped by the reader and are not there.                   *)
(***************************************************************************)
EXTENDS Endpoints

CONSTANT Files          \* the files there are, as sequences of lines

Line ==
    [kind : {"ip", "internet"}, first : Agents, second : Ips \cup {0}]
    \cup [kind : {"agent"}, first : Agents, second : Agents]
    \cup [kind : {"malformed"}]

ASSUME FileAssumption == Files \subseteq Seq(Line)

VARIABLES
    name_to_ip,     \* 0 for a name that is not there
    ip_to_name,
    agent_acl,      \* pairs of addresses that may communicate
    internet_acl,   \* pairs of an agent's address and an internet address
    lines,          \* the file read last
    pos,            \* the line of the pass
    pass,           \* "assignments", "rules", or "none" outside load
    result          \* what load returned last: "true", "error", or "unopened"

maps == <<name_to_ip, ip_to_name, agent_acl, internet_acl>>
config_vars == <<maps, lines, pos, pass, result>>

ConfigTypeOK ==
    /\ name_to_ip \in [Agents -> Ips \cup {0}]
    /\ ip_to_name \in [Ips -> Agents \cup {None}]
    /\ agent_acl \subseteq Ips \X Ips
    /\ internet_acl \subseteq Ips \X Ips
    /\ lines \in Seq(Line)
    /\ pos \in Nat \ {0}
    /\ pass \in {"none", "assignments", "rules"}
    /\ result \in {"none", "true", "error", "unopened"}

ConfigInit ==
    /\ name_to_ip = [n \in Agents |-> 0]
    /\ ip_to_name = [i \in Ips |-> None]
    /\ agent_acl = {} /\ internet_acl = {}
    /\ lines = <<>> /\ pos = 1 /\ pass = "none" /\ result = "none"

-----------------------------------------------------------------------------
\* The file cannot be opened: the maps stay as they are.
CannotOpen ==
    /\ pass = "none"
    /\ result' = "unopened"
    /\ UNCHANGED <<maps, lines, pos, pass>>

\* The maps are cleared and the lines read; one of a single token ends load.
OpenWith(file, acl) ==
    /\ pass = "none"
    /\ name_to_ip' = [n \in Agents |-> 0]
    /\ ip_to_name' = [i \in Ips |-> None]
    /\ agent_acl' = acl /\ internet_acl' = {}
    /\ lines' = file /\ pos' = 1
    /\ IF \E i \in 1 .. Len(file) : file[i].kind = "malformed"
       THEN pass' = "none" /\ result' = "error"
       ELSE pass' = "assignments" /\ UNCHANGED result
Open_NotCleared(file) == OpenWith(file, agent_acl)      \* mutant of Open
Open(file) == OpenWith(file, {})

AtLine(p, kinds) ==
    /\ pass = p /\ pos <= Len(lines)
    /\ lines[pos].kind \in kinds
NextLine == pos' = pos + 1 /\ UNCHANGED <<lines, pass, result>>
ReturnsFalse == pass' = "none" /\ result' = "error" /\ UNCHANGED <<maps, lines, pos>>

\* A line that is the other pass's business.
SkipLine ==
    /\ AtLine("assignments", {"agent", "internet"}) \/ AtLine("rules", {"ip"})
    /\ NextLine
    /\ UNCHANGED maps

\* Pass 1: the address is new and so is the name.
Assignable_AnyName(l) == l.second # 0 /\ ip_to_name[l.second] = None    \* mutant of Assignable
Assignable(l) ==
    l.second # 0 /\ ip_to_name[l.second] = None /\ name_to_ip[l.first] = 0
AssignIp ==
    /\ AtLine("assignments", {"ip"})
    /\ LET l == lines[pos] IN
         /\ Assignable(l)
         /\ name_to_ip' = [name_to_ip EXCEPT ![l.first] = l.second]
         /\ ip_to_name' = [ip_to_name EXCEPT ![l.second] = l.first]
    /\ NextLine
    /\ UNCHANGED <<agent_acl, internet_acl>>
RejectIp == AtLine("assignments", {"ip"}) /\ ~Assignable(lines[pos]) /\ ReturnsFalse

SecondPass ==
    /\ pass = "assignments" /\ pos > Len(lines)
    /\ pass' = "rules" /\ pos' = 1
    /\ UNCHANGED <<maps, lines, result>>

\* Pass 2: both ends are known.
Allowable(l) ==
    /\ name_to_ip[l.first] # 0
    /\ IF l.kind = "internet" THEN l.second # 0 ELSE name_to_ip[l.second] # 0
AllowInternet ==
    /\ AtLine("rules", {"internet"}) /\ Allowable(lines[pos])
    /\ internet_acl' = internet_acl \cup {<<name_to_ip[lines[pos].first], lines[pos].second>>}
    /\ NextLine
    /\ UNCHANGED <<name_to_ip, ip_to_name, agent_acl>>
AllowAgents ==
    /\ AtLine("rules", {"agent"}) /\ Allowable(lines[pos])
    /\ LET x == name_to_ip[lines[pos].first]
           y == name_to_ip[lines[pos].second]
       IN  agent_acl' = agent_acl \cup {<<x, y>>, <<y, x>>}
    /\ NextLine
    /\ UNCHANGED <<name_to_ip, ip_to_name, internet_acl>>
RejectRule ==
    AtLine("rules", {"agent", "internet"}) /\ ~Allowable(lines[pos]) /\ ReturnsFalse

ReturnsTrue ==
    /\ pass = "rules" /\ pos > Len(lines)
    /\ pass' = "none" /\ result' = "true"
    /\ UNCHANGED <<maps, lines, pos>>

Load ==
    \/ CannotOpen
    \/ \E file \in Files : Open(file)
    \/ SkipLine \/ AssignIp \/ RejectIp \/ SecondPass
    \/ AllowInternet \/ AllowAgents \/ RejectRule \/ ReturnsTrue

-----------------------------------------------------------------------------
(***************************************************************************)
(* What a file means, whatever the order of its lines.                     *)
(***************************************************************************)
Assigns(i) == lines[i].kind = "ip"
Owner(n, i) == \E k \in 1 .. Len(lines) :
    Assigns(k) /\ lines[k].first = n /\ lines[k].second = i
Known(n) == \E i \in Ips : Owner(n, i)
Accepted ==
    /\ \A k \in 1 .. Len(lines) :
          CASE lines[k].kind = "ip"       -> lines[k].second # 0
            [] lines[k].kind = "internet" -> Known(lines[k].first) /\ lines[k].second # 0
            [] lines[k].kind = "agent"    -> Known(lines[k].first) /\ Known(lines[k].second)
            [] OTHER                      -> FALSE
    /\ \A j, k \in 1 .. Len(lines) : j # k /\ Assigns(j) /\ Assigns(k) =>
          lines[j].first # lines[k].first /\ lines[j].second # lines[k].second

Rule(x, y) == \E k \in 1 .. Len(lines) :
    lines[k].kind = "agent" /\ Owner(lines[k].first, x) /\ Owner(lines[k].second, y)
InternetRule(x, i) == \E k \in 1 .. Len(lines) :
    lines[k].kind = "internet" /\ Owner(lines[k].first, x) /\ lines[k].second = i

(***************************************************************************)
(* The order that config.hpp asks for: an IP assignment appears before the *)
(* rules that name its agent.                                              *)
(***************************************************************************)
NamesIn(l) ==
    CASE l.kind = "agent"    -> {l.first, l.second}
      [] l.kind = "internet" -> {l.first}
      [] OTHER               -> {}
InOrder ==
    \A j, k \in 1 .. Len(lines) :
        Assigns(k) /\ lines[k].first \in NamesIn(lines[j]) => k < j

\* After a load the maps say exactly what the lines say.  Before that, and after a
\* failure, every rule there is one that the file has.
MapsExact ==
    /\ result = "true" /\ pass = "none" =>
        /\ Accepted
        /\ \A n \in Agents, i \in Ips : name_to_ip[n] = i <=> Owner(n, i)
        /\ \A p \in Ips \X Ips :
              /\ Rule(p[1], p[2]) => p \in agent_acl
              /\ InternetRule(p[1], p[2]) => p \in internet_acl
    /\ result # "none" \/ pass # "none" =>
        /\ \A p \in agent_acl : Rule(p[1], p[2]) \/ Rule(p[2], p[1])
        /\ \A p \in internet_acl : InternetRule(p[1], p[2])

(***************************************************************************)
(* load accepts every file in the documented order that makes sense, none  *)
(* that makes none, whatever was loaded before, and then the maps are      *)
(* exact.  Of a file in another order, which the two passes of load accept *)
(* as well although config.hpp does not allow it, only the maps are spoken *)
(* of.                                                                     *)
(***************************************************************************)
LoadExact ==
    /\ result = "error" /\ pass = "none" /\ InOrder => ~Accepted
    /\ MapsExact

(***************************************************************************)
(* At every point of load, after a failure too: names and addresses are    *)
(* each other's inverse, and a rule is between assigned addresses and      *)
(* allows both directions.                                                 *)
(***************************************************************************)
MapsAgree ==
    /\ \A n \in Agents, i \in Ips : name_to_ip[n] = i <=> ip_to_name[i] = n
    /\ \A p \in agent_acl :
          /\ ip_to_name[p[1]] # None /\ ip_to_name[p[2]] # None
          /\ <<p[2], p[1]>> \in agent_acl
    /\ \A p \in internet_acl : ip_to_name[p[1]] # None
=============================================================================
