-------------------------- MODULE MCLinkDiscovery --------------------------
(* Model-checking instance of LinkDiscovery: switches 1 and 2. *)
EXTENDS LinkDiscovery

(* One cable, probed in both directions. *)
CablePorts == {<<1, 1>>, <<2, 1>>}
CableLinks == {[src |-> <<1, 1>>, dst |-> <<2, 1>>],
               [src |-> <<2, 1>>, dst |-> <<1, 1>>]}

FlappingPort == {<<1, 1>>}

(* The switch that restarts speaks 1.3, the other one 1.0. *)
Versions == [s \in {1, 2} |-> IF s = 1 THEN "OF_13" ELSE "OF_10"]
=============================================================================
