---------------------------- MODULE MCSwitchPage ----------------------------
(* Model-checking instance of SwitchPage: two calls, with a reply of one part *)
(* and of two, and two list requests under way.                               *)
EXTENDS SwitchPage

Lengths == [r \in Call |-> r]
=============================================================================
