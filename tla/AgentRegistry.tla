--------------------------- MODULE AgentRegistry ---------------------------
(***************************************************************************)
(* AgentRegistry (src/src/blackbox/agent_registry.cpp): the agents of a    *)
(* switch under three indexes.  A registry r is the record of the three    *)
(* maps; the operators give the registry that a method leaves behind.  An  *)
(* entry is never changed once made, so it stands for its pointer.         *)
(***************************************************************************)
EXTENDS Endpoints

AgentEntry == [name : Agents, virtual_ipv4 : Ips, fd : Fds]

ASSUME EntryAssumption == None \notin AgentEntry

Registry ==
    [by_ipv4 : [Ips -> AgentEntry \cup {None}],
     by_fd   : [Fds -> AgentEntry \cup {None}],
     by_name : [Agents -> AgentEntry \cup {None}]]

EmptyRegistry ==
    [by_ipv4 |-> [i \in Ips |-> None],
     by_fd   |-> [f \in Fds |-> None],
     by_name |-> [n \in Agents |-> None]]

-----------------------------------------------------------------------------
remove_entry_KeepsFd(r, e) ==       \* mutant of remove_entry
    [by_ipv4 |-> [r.by_ipv4 EXCEPT ![e.virtual_ipv4] = None],
     by_fd   |-> r.by_fd,
     by_name |-> [r.by_name EXCEPT ![e.name] = None]]
remove_entry(r, e) ==
    [by_ipv4 |-> [r.by_ipv4 EXCEPT ![e.virtual_ipv4] = None],
     by_fd   |-> [r.by_fd EXCEPT ![e.fd] = None],
     by_name |-> [r.by_name EXCEPT ![e.name] = None]]

unregister_by_name(r, name) ==
    IF r.by_name[name] = None THEN r ELSE remove_entry(r, r.by_name[name])
unregister_by_fd(r, fd) ==
    IF r.by_fd[fd] = None THEN r ELSE remove_entry(r, r.by_fd[fd])

Insert(r, e) ==
    [by_ipv4 |-> [r.by_ipv4 EXCEPT ![e.virtual_ipv4] = e],
     by_fd   |-> [r.by_fd EXCEPT ![e.fd] = e],
     by_name |-> [r.by_name EXCEPT ![e.name] = e]]

\* register_agent: an older entry of the same name goes first.
register_agent_Twice(r, name, ip, fd) ==     \* mutant of register_agent
    Insert(r, [name |-> name, virtual_ipv4 |-> ip, fd |-> fd])
register_agent(r, name, ip, fd) ==
    Insert(unregister_by_name(r, name), [name |-> name, virtual_ipv4 |-> ip, fd |-> fd])

-----------------------------------------------------------------------------
(***************************************************************************)
(* One entry, three keys: the indexes hold the same entries, each under    *)
(* its own address, descriptor and name.  So the destructor, which deletes *)
(* what by_name_ holds, deletes everything, and no lookup finds an entry   *)
(* that was deleted.                                                       *)
(***************************************************************************)
OneEntryThreeKeys(r) ==
    /\ \A i \in Ips : r.by_ipv4[i] # None =>
          r.by_ipv4[i].virtual_ipv4 = i /\ r.by_name[r.by_ipv4[i].name] = r.by_ipv4[i]
    /\ \A f \in Fds : r.by_fd[f] # None =>
          r.by_fd[f].fd = f /\ r.by_name[r.by_fd[f].name] = r.by_fd[f]
    /\ \A n \in Agents : r.by_name[n] # None =>
          LET e == r.by_name[n] IN
            e.name = n /\ r.by_ipv4[e.virtual_ipv4] = e /\ r.by_fd[e.fd] = e
=============================================================================
