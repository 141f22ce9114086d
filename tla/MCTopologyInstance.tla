------------------------- MODULE MCTopologyInstance -------------------------
(* Model-checking instance of TopologyInstance. *)
EXTENDS TopologyInstance

(* One possible link per ordered pair of switches. *)
MCLink == {[src |-> s, dst |-> t] : s, t \in Switch} \
             {[src |-> s, dst |-> s] : s \in Switch}

(* Networks with one-way links too: the reverse LLDP was lost or never sent. *)
AllGraphs == SUBSET MCLink

(* linkCost never has an entry: createNewInstance has already removed the    *)
(* ports of tunnel links from the links it hands to the instance.            *)
UnitCost == [l \in MCLink |-> 1]
=============================================================================
