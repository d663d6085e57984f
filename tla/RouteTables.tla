----------------------------- MODULE RouteTables -----------------------------
(***************************************************************************)
(* What the availability monitor and the discovery platform agree on: the  *)
(* tables of routes that one writes and the other reads.  A table changes  *)
(* as a whole, to routes between nodes that are registered at that moment, *)
(* and a node with a route stays registered, so whoever looks up the nodes *)
(* of the routes that a table holds finds them all.                        *)
(***************************************************************************)
CONSTANTS
    Entries, Exits,  \* ids of nodes
    Kinds            \* names of the tables

VARIABLES
    tables,          \* tables[k]: the routes in table k
    registered       \* nodes that are registered

Init ==
    /\ tables = [k \in Kinds |-> {}]
    /\ registered \subseteq Entries \cup Exits

\* Routes that may be published.
Publishable == (Entries \cap registered) \X (Exits \cap registered)

Replace(k) ==
    /\ \E rows \in SUBSET Publishable : tables' = [tables EXCEPT ![k] = rows]
    /\ UNCHANGED registered

Register(n) ==
    /\ registered' = registered \cup {n}
    /\ UNCHANGED tables

Unregister(n) ==
    /\ \A k \in Kinds : \A r \in tables[k] : n \notin {r[1], r[2]}
    /\ registered' = registered \ {n}
    /\ UNCHANGED tables

Next ==
    \/ \E k \in Kinds : Replace(k)
    \/ \E n \in Entries \cup Exits : Register(n) \/ Unregister(n)

RouteTablesSpec == Init /\ [][Next]_<<tables, registered>>
==============================================================================
