--------------------------- MODULE MCStaticFlows ---------------------------
(* Model-checking instance of StaticFlows: one name on either of two switches, *)
(* another name with the same match on the first switch, or inactive there.    *)
EXTENDS StaticFlows

MCEntry ==
    {[name |-> 1, switch |-> 1, match |-> 1, active |-> TRUE],
     [name |-> 1, switch |-> 2, match |-> 1, active |-> TRUE],
     [name |-> 2, switch |-> 1, match |-> 1, active |-> TRUE],
     [name |-> 2, switch |-> 1, match |-> 2, active |-> FALSE]}
=============================================================================
