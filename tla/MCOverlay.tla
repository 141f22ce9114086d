----------------------------- MODULE MCOverlay -----------------------------
(* Model-checking instance of Overlay: a network node and a compute node, with *)
(* two networks that share the compute node.                                   *)
EXTENDS Overlay

MCNetOf == <<1, 2, 1>>
MCOwner == <<"compute", "compute", "network">>
MCHost == <<2, 2, 1>>
MCTell == <<{{}, Fields}, {Fields}, {Fields}>>
=============================================================================
