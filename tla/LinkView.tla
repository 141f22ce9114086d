------------------------------ MODULE LinkView ------------------------------
(***************************************************************************)
(* What link discovery, its queue of updates and the topology manager      *)
(* promise together: the topology is headed for a set of links, and that   *)
(* set goes with what link discovery knows.  There is no moment at which   *)
(* the one has changed and the other not yet, however many updates are on  *)
(* their way, and only link discovery moves it: handing updates over and   *)
(* applying them does not.                                                 *)
(***************************************************************************)
CONSTANT Link

VARIABLES
    known,     \* the links in the table of link discovery
    up,        \* those recorded with both ports up
    view       \* the links the topology will have once all updates are applied

viewVars == <<known, up, view>>

Init == known = {} /\ up = {} /\ view = {}

(* A link is announced: found, or found to be up. *)
Show(l) ==
    /\ known' = known \union {l}
    /\ up' \in {up \union {l}, up \ {l}}
    /\ view' = view \union {l}

(* A known link is withdrawn: one of its ports is not up. *)
Hide(l) ==
    /\ l \in known
    /\ up' = up \ {l}
    /\ view' = view \ {l}
    /\ UNCHANGED known

(* A link is forgotten. *)
Forget(l) ==
    /\ l \in known
    /\ known' = known \ {l}
    /\ up' = up \ {l}
    /\ view' = view \ {l}

Next == \E l \in Link : Show(l) \/ Hide(l) \/ Forget(l)

Spec == Init /\ [][Next]_viewVars
=============================================================================
