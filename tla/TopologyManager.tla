-------------------------- MODULE TopologyManager --------------------------
(***************************************************************************)
(* OFMTopologyManager: the listener of link discovery that keeps its own   *)
(* picture of the network (ports per switch, links per port, and the links *)
(* again by kind) and derives topology instances from it.                  *)
(*                                                                         *)
(* Everything here runs in the controller's Timer thread: linkDiscovery-   *)
(* Update is called by link discovery's update job, updateTopology by the  *)
(* one-shot task that linkDiscoveryUpdate schedules when the queue was     *)
(* empty.  updateTopology is a run of steps, one per queued update.        *)
(***************************************************************************)
EXTENDS Naturals, Sequences

CONSTANTS
    Switch, NodePort, Link,   \* as in LinkDiscovery: a link joins two NodePorts
    MaxQueued                 \* bound on ldUpdates, for model checking

Node(n) == n[1]

ASSUME TopologyAssumptions ==
    /\ \A n \in NodePort : Node(n) \in Switch
    /\ \A l \in Link : l.src \in NodePort /\ l.dst \in NodePort
    /\ MaxQueued \in Nat

(* LDUpdates: link updates carry the link and its LinkType. *)
LinkType == {"DIRECT_LINK", "MULTIHOP_LINK", "TUNNEL"}
LDUpdate ==
    [op : {"LINK_UPDATED"}, link : Link, type : LinkType]
    \union [op : {"LINK_REMOVED"}, link : Link]
    \union [op : {"NOTICE"}]     \* PORT_UP, PORT_DOWN, SWITCH_UPDATED, ...

VARIABLES
    switchPorts,                 \* a switch with {} is not a key of the map
    switchPortLinks,             \* a port with {} is not a key, here and below
    directLinks, portBroadcastDomainLinks, tunnelLinks,
    linksUpdated, dtLinksUpdated,
    ldUpdates,
    scheduled,                   \* updateTopology tasks waiting in the Timer
    working,                     \* inside updateTopology
    instance                     \* what currentInstance was created from

structVars == <<switchPorts, switchPortLinks, directLinks,
                portBroadcastDomainLinks, tunnelLinks>>
flagVars == <<linksUpdated, dtLinksUpdated>>
topoVars == <<structVars, flagVars, ldUpdates, scheduled, working, instance>>

Empty == [n \in NodePort |-> {}]
Ends(l) == {l.src, l.dst}

(* addLinkToStructure and removeLinkFromStructure file a link under both ports. *)
AddTo(S, l) == [n \in NodePort |-> IF n \in Ends(l) THEN S[n] \union {l} ELSE S[n]]
(* Mutant: the link stays filed under its destination. *)
RemoveFromSource(S, l) == [S EXCEPT ![l.src] = @ \ {l}]

RemoveFrom(S, l) == [n \in NodePort |-> IF n \in Ends(l) THEN S[n] \ {l} ELSE S[n]]
Has(S, l) == l \in S[l.src] \/ l \in S[l.dst]

(* createNewInstance keeps the ports that carry no tunnel and no broadcast link. *)
OpenflowLinks ==
    [n \in NodePort |-> IF tunnelLinks[n] # {} \/ portBroadcastDomainLinks[n] # {}
                        THEN {} ELSE switchPortLinks[n]]

(* initialize() calls clearCurrentTopology. *)
TopoInit ==
    /\ switchPorts = [s \in Switch |-> {}]
    /\ switchPortLinks = Empty /\ directLinks = Empty
    /\ portBroadcastDomainLinks = Empty /\ tunnelLinks = Empty
    /\ linksUpdated = TRUE /\ dtLinksUpdated = TRUE
    /\ ldUpdates = <<>> /\ scheduled = 0 /\ working = FALSE
    /\ instance = [ports |-> switchPorts, links |-> Empty]

(* linkDiscoveryUpdate: queue, and schedule a run if the queue was empty. *)
LinkDiscoveryUpdate(u) ==
    /\ ~working
    /\ scheduled' = IF ldUpdates = <<>> THEN scheduled + 1 ELSE scheduled
    /\ ldUpdates' = Append(ldUpdates, u)
    /\ UNCHANGED <<structVars, flagVars, working, instance>>

(* Mutant: a run that nobody scheduled. *)
StartUnscheduled ==
    /\ ~working
    /\ working' = TRUE
    /\ scheduled' = scheduled - 1
    /\ linksUpdated' = FALSE /\ dtLinksUpdated' = FALSE
    /\ UNCHANGED <<structVars, ldUpdates, instance>>

(* The scheduled task enters updateTopology. *)
StartUpdateTopology ==
    /\ ~working /\ scheduled > 0
    /\ working' = TRUE
    /\ scheduled' = scheduled - 1
    /\ linksUpdated' = FALSE /\ dtLinksUpdated' = FALSE
    /\ UNCHANGED <<structVars, ldUpdates, instance>>

(* addOrUpdateLink: file the link under its kind, and under no other. *)
AddOrUpdateLink(l, type) ==
    LET File(S, kind) == IF type = kind THEN AddTo(S, l) ELSE RemoveFrom(S, l)
        wasDT == Has(directLinks, l) \/ Has(tunnelLinks, l)
    IN  /\ switchPorts' = [s \in Switch |->
                             switchPorts[s] \union {n \in Ends(l) : Node(n) = s}]
        /\ switchPortLinks' = AddTo(switchPortLinks, l)
        /\ directLinks' = File(directLinks, "DIRECT_LINK")
        /\ tunnelLinks' = File(tunnelLinks, "TUNNEL")
        /\ portBroadcastDomainLinks' = File(portBroadcastDomainLinks, "MULTIHOP_LINK")
        /\ dtLinksUpdated' = (type # "MULTIHOP_LINK" \/ wasDT)
        /\ linksUpdated' = TRUE

(* removeLink: also drop the ports that are left without links. *)
RemoveLink(l) ==
    LET left == RemoveFrom(switchPortLinks, l)
    IN  /\ directLinks' = RemoveFrom(directLinks, l)
        /\ tunnelLinks' = RemoveFrom(tunnelLinks, l)
        /\ portBroadcastDomainLinks' = RemoveFrom(portBroadcastDomainLinks, l)
        /\ switchPortLinks' = left
        /\ switchPorts' = [s \in Switch |->
                             switchPorts[s] \ {n \in Ends(l) : left[n] = {}}]
        /\ linksUpdated' = TRUE
        /\ dtLinksUpdated' = (Has(directLinks, l) \/ Has(tunnelLinks, l))

(* Mutant: the update stays in the queue. *)
ApplyUpdateAgain ==
    /\ working /\ ldUpdates # <<>>
    /\ LET u == Head(ldUpdates)
       IN  CASE u.op = "LINK_UPDATED" -> AddOrUpdateLink(u.link, u.type)
             [] u.op = "LINK_REMOVED" -> RemoveLink(u.link)
             [] OTHER -> UNCHANGED <<structVars, flagVars>>
    /\ UNCHANGED <<ldUpdates, scheduled, working, instance>>

(* One turn of the loop of applyUpdates. *)
ApplyUpdate ==
    /\ working /\ ldUpdates # <<>>
    /\ LET u == Head(ldUpdates)
       IN  CASE u.op = "LINK_UPDATED" -> AddOrUpdateLink(u.link, u.type)
             [] u.op = "LINK_REMOVED" -> RemoveLink(u.link)
             [] OTHER -> UNCHANGED <<structVars, flagVars>>
    /\ ldUpdates' = Tail(ldUpdates)
    /\ UNCHANGED <<scheduled, working, instance>>

(* Mutant: the run ends although updates have arrived. *)
CreateInstanceEarly ==
    /\ working
    /\ instance' = IF linksUpdated THEN [ports |-> switchPorts, links |-> OpenflowLinks]
                   ELSE instance
    /\ working' = FALSE
    /\ UNCHANGED <<structVars, flagVars, ldUpdates, scheduled>>

(* Mutant: only direct and tunnel links count. *)
CreateInstanceIfDt ==
    /\ working /\ ldUpdates = <<>>
    /\ instance' = IF dtLinksUpdated THEN [ports |-> switchPorts, links |-> OpenflowLinks]
                   ELSE instance
    /\ working' = FALSE
    /\ UNCHANGED <<structVars, flagVars, ldUpdates, scheduled>>

(* createNewInstance, then the listeners are informed. *)
CreateNewInstance ==
    /\ working /\ ldUpdates = <<>>
    /\ instance' = IF linksUpdated THEN [ports |-> switchPorts, links |-> OpenflowLinks]
                   ELSE instance
    /\ working' = FALSE
    /\ UNCHANGED <<structVars, flagVars, ldUpdates, scheduled>>

UpdateTopology == StartUpdateTopology \/ ApplyUpdate \/ CreateNewInstance

Next ==
    \/ \E u \in LDUpdate : Len(ldUpdates) < MaxQueued /\ LinkDiscoveryUpdate(u)
    \/ UpdateTopology

(* The Timer runs what is scheduled. *)
TopoSpec == TopoInit /\ [][Next]_topoVars /\ WF_topoVars(UpdateTopology)
-----------------------------------------------------------------------------
PortLinks == [NodePort -> SUBSET Link]

(* The types of the variables. *)
TopoTypeOK ==
    /\ switchPorts \in [Switch -> SUBSET NodePort]
    /\ switchPortLinks \in PortLinks /\ directLinks \in PortLinks
    /\ portBroadcastDomainLinks \in PortLinks /\ tunnelLinks \in PortLinks
    /\ linksUpdated \in BOOLEAN /\ dtLinksUpdated \in BOOLEAN
    /\ ldUpdates \in Seq(LDUpdate) /\ scheduled \in Nat /\ working \in BOOLEAN
    /\ instance \in [ports : [Switch -> SUBSET NodePort], links : PortLinks]

(* A link is filed under both of its ports or under none, in every structure. *)
TwoSided(S) == \A n \in NodePort : \A l \in S[n] : n \in Ends(l) /\ \A m \in Ends(l) : l \in S[m]

(* The five structures tell one story after any sequence of updates: every link *)
(* is known at both of its ports, is of exactly one kind, and a switch has a    *)
(* port exactly when the port has links (so no empty switch stays in the map,   *)
(* which getPorts and TopologyInstance.switches rely on).                       *)
StructuresAgree ==
    /\ TwoSided(switchPortLinks) /\ TwoSided(directLinks)
    /\ TwoSided(portBroadcastDomainLinks) /\ TwoSided(tunnelLinks)
    /\ \A n \in NodePort :
          /\ switchPortLinks[n] =
               directLinks[n] \union portBroadcastDomainLinks[n] \union tunnelLinks[n]
          /\ directLinks[n] \intersect portBroadcastDomainLinks[n] = {}
          /\ directLinks[n] \intersect tunnelLinks[n] = {}
          /\ portBroadcastDomainLinks[n] \intersect tunnelLinks[n] = {}
    /\ \A s \in Switch :
          switchPorts[s] = {n \in NodePort : Node(n) = s /\ switchPortLinks[n] # {}}

(* No update waits without a run of updateTopology on its way: the task is       *)
(* scheduled only by the update that finds the queue empty, and the run empties  *)
(* the queue.                                                                    *)
NoLostUpdate == ldUpdates # <<>> => working \/ scheduled = 1

(* Outside updateTopology the instance is the picture of the structures: no link *)
(* change ever leaves routing with an instance that does not know about it.      *)
InstanceIsCurrent ==
    ~working => instance = [ports |-> switchPorts, links |-> OpenflowLinks]

(* Why: one task is scheduled exactly while updates wait for a run, and inside a  *)
(* run the instance lags behind only if linksUpdated says so.                     *)
ScheduledWhenNeeded == scheduled = IF ~working /\ ldUpdates # <<>> THEN 1 ELSE 0
FlaggedWhenBehind ==
    ~working \/ ~linksUpdated => instance = [ports |-> switchPorts, links |-> OpenflowLinks]

(* The inductive strengthening of NoLostUpdate and InstanceIsCurrent. *)
TopoInv == TopoTypeOK /\ StructuresAgree /\ ScheduledWhenNeeded /\ FlaggedWhenBehind

(* Every queued update is applied. *)
UpdatesApplied == ldUpdates # <<>> ~> ldUpdates = <<>>
=============================================================================
