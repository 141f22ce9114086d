-------------------------- MODULE TopologyInstance --------------------------
(***************************************************************************)
(* TopologyInstance.compute as a whole: identifyOpenflowDomains divides    *)
(* the switches into clusters (module OpenflowDomains, over the graph of   *)
(* all links), addLinksToOpenflowDomains gives each cluster the links      *)
(* inside it, dijkstra builds the tree of Root over the links of Root's    *)
(* cluster (module RouteTree), and from the tree of the smallest switch    *)
(* come the ports on which the cluster lets a broadcast through.  Routes   *)
(* are asked for after that.                                               *)
(*                                                                         *)
(* Root is the smallest switch, so the tree modelled is the broadcast tree *)
(* of its cluster; every graph is tried, so any switch plays its part.     *)
(***************************************************************************)
EXTENDS RouteTree

CONSTANT LONG_MAX     \* ClusterDFS's initial dfsIndex and lowpoint

VARIABLES
    phase,             \* "domains", then "trees"
    graph,             \* switchPortLinks: all links of the instance
    dfsIndex, parentIndex, lowpoint, visited, currIndex, stack, currSet,
    switchClusterMap

OD == INSTANCE OpenflowDomains WITH links <- graph

(* The DFS numbers the switches from 1 and never comes near LONG_MAX; the     *)
(* links inside a part of a network are a network too.                        *)
ASSUME InstanceAssumptions ==
    /\ IsFiniteSet(Switch)
    /\ LONG_MAX \in Nat /\ LONG_MAX > Cardinality(Switch) + 1
    /\ \A G \in Graphs, S \in SUBSET Switch :
          {l \in G : l.src \in S /\ l.dst \in S} \in Graphs

dfsVars == <<dfsIndex, parentIndex, lowpoint, visited, currIndex, stack, currSet>>
sysVars == <<vars, phase, graph, dfsVars, switchClusterMap>>

SysInit == Init /\ links = {} /\ OD!Init /\ phase = "domains"

IdentifyOpenflowDomains ==
    /\ phase = "domains" /\ ~OD!Done
    /\ OD!Next
    /\ UNCHANGED <<vars, phase>>

(* addLinksToOpenflowDomains, for the cluster of root. *)
LinksInCluster(root) ==
    {l \in graph : /\ switchClusterMap[l.src] = switchClusterMap[l.dst]
                   /\ switchClusterMap[l.src] = switchClusterMap[root]}

(* The maps of ClusterDFS are local to identifyOpenflowDomains: they are gone. *)
AddLinksToOpenflowDomains ==
    /\ phase = "domains" /\ OD!Done
    /\ phase' = "trees"
    /\ links' = LinksInCluster(Root)
    /\ dfsIndex' = [s \in Switch |-> LONG_MAX]
    /\ lowpoint' = dfsIndex' /\ parentIndex' = dfsIndex'
    /\ visited' = {} /\ currIndex' = 1 /\ stack' = <<>> /\ currSet' = {}
    /\ UNCHANGED <<graph, switchClusterMap, treeVars, pc, path, srcId>>

TreeStep ==
    /\ phase = "trees"
    /\ Next
    /\ UNCHANGED <<phase, graph, dfsVars, switchClusterMap>>

SysNext == IdentifyOpenflowDomains \/ AddLinksToOpenflowDomains \/ TreeStep

(* One thread computes; a request for a route need not come. *)
SysSpec ==
    /\ SysInit /\ [][SysNext]_sysVars
    /\ WF_sysVars(SysNext /\ (phase = "domains" \/ pc # "tree"))

(* The two ends of a cable: the port of s to t and the port of t to s. *)
PortTo(s, t) == <<s, t>>

(* Mutant: the port at the far end is left out. *)
SourcePorts(S) == {PortTo(l.src, l.dst) : l \in S}

(* calculateBroadcastNodePortsInClusters: both ports of every link of the tree. *)
PortsOf(S) ==
    {PortTo(l.src, l.dst) : l \in S} \union {PortTo(l.dst, l.src) : l \in S}
broadcastNodePorts == PortsOf({nexthoplinks[n] : n \in Switch} \ {NoLink})

(* isIncomingBroadcastAllowedOnSwitchPort, for a port with links. *)
BroadcastAllowed(npt) == npt \in broadcastNodePorts
-----------------------------------------------------------------------------
(* The clusters partition the switches at every moment, and no switch falls out *)
(* of the algorithm: a switch with a cluster is a member of it and all its       *)
(* members agree on it; a visited switch is on the call stack, in the cluster    *)
(* being formed or in a cluster, and currSet, shared by the traversals of all    *)
(* roots, is empty between them.                                                 *)
ClustersPartition == OD!ClustersDisjoint /\ (phase = "domains" => OD!VisitedIsPlaced)

(* What the comment of identifyOpenflowDomains promises, where it is true: when   *)
(* all links were found in both directions the clusters are the strongly         *)
(* connected components.                                                         *)
ClustersAreComponents == phase = "domains" => OD!ClustersAreComponents

Bidirectional == \A l \in graph : [src |-> l.dst, dst |-> l.src] \in graph

(* A switch that gets a flooded packet on an allowed port floods it in turn, to   *)
(* the neighbours it has links with; the ones that drop it are not reached.  A    *)
(* flood is over when nobody who has the packet can pass it on.                   *)
FloodOver(F) ==
    \A l \in links : \A u, t \in {l.src, l.dst} :
        u # t /\ u \in F /\ BroadcastAllowed(PortTo(t, u)) => t \in F
FloodFrom(s) == {t \in Switch : \A F \in SUBSET Switch : s \in F /\ FloodOver(F) => t \in F}

(* A broadcast is neither lost nor caught in a loop: in an instance whose links  *)
(* were found in both directions, a flood from any switch reaches every switch,  *)
(* and the allowed ports belong to one cable less than there are switches, so    *)
(* that it reaches each of them once.                                            *)
BroadcastSpans ==
    phase = "trees" /\ pc = "tree" /\ Bidirectional =>
        LET C == switchClusterMap[Root]
        IN  /\ \A s \in C : FloodFrom(s) = C
            /\ Cardinality({{npt[1], npt[2]} : npt \in broadcastNodePorts})
                 = Cardinality(C) - 1
=============================================================================
