--------------------------- MODULE MCLinkTopology ---------------------------
(* Model-checking instance of LinkTopology: one link from switch 1 to 2. *)
EXTENDS LinkTopology

MCPorts == {<<1, 1>>, <<2, 1>>}
MCLinks == {[src |-> <<1, 1>>, dst |-> <<2, 1>>]}
FlappingPort == {<<1, 1>>}

(* The switch that restarts speaks 1.3, the other one 1.0. *)
Versions == [s \in {1, 2} |-> IF s = 1 THEN "OF_13" ELSE "OF_10"]
=============================================================================
