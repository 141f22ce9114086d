---------------------------- MODULE LinkTopology ----------------------------
(***************************************************************************)
(* Link discovery and the topology manager together: the update job of the *)
(* one feeds the queue of the other, and both run in the same Timer        *)
(* thread, while QP threads go on changing the links.                      *)
(***************************************************************************)
EXTENDS LinkDiscovery

VARIABLES
    switchPorts, switchPortLinks, directLinks, portBroadcastDomainLinks,
    tunnelLinks, linksUpdated, dtLinksUpdated, ldUpdates, scheduled, working,
    instance

TM == INSTANCE TopologyManager WITH MaxQueued <- MaxUpdates

topoVars == <<switchPorts, switchPortLinks, directLinks, portBroadcastDomainLinks,
              tunnelLinks, linksUpdated, dtLinksUpdated, ldUpdates, scheduled,
              working, instance>>
sysVars == <<vars, topoVars>>

(* The LDUpdate a listener gets: a link learnt from LLDP is a DIRECT_LINK. *)
ToListener(u) ==
    IF u.op = "LINK_UPDATED"
    THEN [op |-> u.op, link |-> u.link, type |-> "DIRECT_LINK"] ELSE u

SysInit == Init /\ TM!TopoInit

(* The updates on their way to the topology, the next one to be applied first. *)
Pending == ldUpdates \o updates

(* What the QP threads and the network do needs no Timer.  Bound: nothing new    *)
(* happens while MaxUpdates updates are on their way.                            *)
QPStep ==
    /\ \/ Environment /\ Len(Pending) < MaxUpdates
       \/ \E s \in Switch : Handler(s) \/ Purge(s)
    /\ UNCHANGED topoVars

DiscoveryStep ==
    /\ ~working
    /\ Discovery \/ Purge(Timer)
    /\ UNCHANGED topoVars

DeliverStep ==
    /\ DeliverUpdate
    /\ TM!LinkDiscoveryUpdate(ToListener(Head(updates)))

TopologyStep ==
    /\ pc(Timer) = "idle"
    /\ TM!UpdateTopology
    /\ UNCHANGED vars

SysNext == QPStep \/ DiscoveryStep \/ DeliverStep \/ TopologyStep

(* LinkDiscovery's fairness, and the one-shot task runs when its time comes. *)
SysSpec ==
    /\ SysInit /\ [][SysNext]_sysVars
    /\ \A s \in Switch : SF_sysVars((Handler(s) \/ Purge(s)) /\ UNCHANGED topoVars)
    /\ SF_sysVars(DiscoveryStep)
    /\ SF_sysVars(DeliverStep)
    /\ SF_sysVars(TopologyStep)
-----------------------------------------------------------------------------
Concerns(u, l) == u.op # "NOTICE" /\ u.link = l

(* Will the topology have l once all pending updates are applied?  The last     *)
(* update about l decides, or what the topology has now if there is none.       *)
WillHave(l) ==
    \/ \E i \in DOMAIN Pending :
          /\ Concerns(Pending[i], l) /\ Pending[i].op = "LINK_UPDATED"
          /\ \A j \in DOMAIN Pending : j > i => ~Concerns(Pending[j], l)
    \/ /\ l \in switchPortLinks[l.src]
       /\ \A i \in DOMAIN Pending : ~Concerns(Pending[i], l)

(* No ghost links: whatever the interleaving of LLDP, port status, timeouts and *)
(* disconnections, the topology is never headed for a link that link discovery  *)
(* has forgotten, because every deletion queues its LINK_REMOVED under the same *)
(* lock and behind every earlier update.                                        *)
NoGhostLinks == \A l \in Link : WillHave(l) => l \in Known

(* No missing links: a link whose two ports are recorded as up is in the        *)
(* topology or on its way there; the LINK_REMOVED that an STP-blocked port      *)
(* caused never outlives the block.                                             *)
NoMissingLinks ==
    \A l \in Known : links[l].src = "up" /\ links[l].dst = "up" => WillHave(l)

(* Link discovery knows the link, with both ports up. *)
Up(l) == l \in Known /\ links[l].src = "up" /\ links[l].dst = "up"

LV == INSTANCE LinkView WITH
          known <- Known,
          up <- {l \in Link : Up(l)},
          view <- {l \in Link : WillHave(l)}

(* From the probe to the topology, the system implements LinkView: in the step  *)
(* that finds, withdraws or forgets a link the topology becomes headed for the   *)
(* same, because the update is queued under the same lock; and the update job    *)
(* and applyUpdates, which take their time, keep what was decided.               *)
ImplementsLinkView == LV!Spec

InInstance(l) == \E n \in NodePort : l \in instance.links[n]

(* Routing catches up: while the Timer lives, a link forgotten for good leaves   *)
(* the topology instance for good, and one that stays up enters it for good.     *)
InstanceFollowsLinks ==
    [](pc(Timer) # "dead") =>
        \A l \in Link :
            /\ <>[](l \notin Known) => <>[]~InInstance(l)
            /\ <>[](l \in Known /\ links[l].src = "up" /\ links[l].dst = "up")
                 => <>[]InInstance(l)
=============================================================================
