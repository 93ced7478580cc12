---------------------------- MODULE RoutingTable ----------------------------
(***************************************************************************)
(* RoutingTable (src/src/blackbox/routing_table.cpp): the descriptor of    *)
(* the next switch for a destination, None where there is no route.        *)
(***************************************************************************)
EXTENDS Endpoints

Routes == [Ips -> Fds \cup {None}]
NoRoutes == [i \in Ips |-> None]

set_route(t, dest, fd) == [t EXCEPT ![dest] = fd]
remove_route(t, dest) == [t EXCEPT ![dest] = None]
\* Mutant: the loop stops at the first route that it erases.
remove_routes_for_switch_First(t, fd) ==
    [i \in Ips |-> IF t[i] = fd /\ \A j \in Ips : t[j] = fd => i <= j THEN None ELSE t[i]]
remove_routes_for_switch(t, fd) == [i \in Ips |-> IF t[i] = fd THEN None ELSE t[i]]
=============================================================================
