---------------------------- MODULE MCRouteTree ----------------------------
(* Model-checking instance of RouteTree: a ring, for the length of its routes. *)
EXTENDS RouteTree

MCLink == {[src |-> s, dst |-> t] : s, t \in Switch} \
             {[src |-> s, dst |-> s] : s \in Switch}

(* linkCost never has an entry: createNewInstance has already removed the    *)
(* ports of tunnel links from the links it hands to the instance.            *)
UnitCost == [l \in MCLink |-> 1]

(* Seven switches in a ring, every cable discovered in both directions. *)
Ring == {l \in MCLink : l.dst = (l.src % Cardinality(Switch)) + 1
                        \/ l.src = (l.dst % Cardinality(Switch)) + 1}
RingGraph == {Ring}
=============================================================================
