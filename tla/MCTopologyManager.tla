------------------------- MODULE MCTopologyManager -------------------------
(* Model-checking instances of TopologyManager: switches 1 and 2. *)
EXTENDS TopologyManager

(* Port 1 of switch 1 reaches both ports of switch 2 (a shared segment). *)
MCPorts == {<<1, 1>>, <<2, 1>>, <<2, 2>>}
MCLinks == {[src |-> <<1, 1>>, dst |-> <<2, 1>>],
            [src |-> <<1, 1>>, dst |-> <<2, 2>>],
            [src |-> <<2, 1>>, dst |-> <<1, 1>>]}
=============================================================================
