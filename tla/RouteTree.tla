----------------------------- MODULE RouteTree -----------------------------
(***************************************************************************)
(* TopologyInstance.dijkstra, which computes the destination-rooted tree   *)
(* of one cluster for one root, and TopologyInstance.buildroute, which     *)
(* walks that tree from a source switch to the root.                       *)
(*                                                                         *)
(* One step of dijkstra is one poll of the priority queue or the           *)
(* relaxation of one link of the polled node.  NodeDist.compareTo puts the *)
(* LARGEST distance at the head of the queue; entries of equal distance    *)
(* are ordered by an int cast of the difference of two 64-bit ids, whose   *)
(* sign is arbitrary, so any of them may be polled.                        *)
(***************************************************************************)
EXTENDS Naturals, Sequences, FiniteSets

CONSTANTS
    Switch,           \* the switches of the cluster (keys of Cluster.links)
    Link,             \* possible links: records with fields src and dst
    Graphs,           \* the sets of links a cluster may have
    Root,             \* dijkstra's argument root
    LinkCost,         \* weight of a link (1 when linkCost has no entry)
    MAX_PATH_WEIGHT,
    NoLink            \* Java's null among links

ASSUME RouteAssumptions ==
    /\ \A l \in Link : l.src \in Switch /\ l.dst \in Switch
    /\ Graphs \subseteq SUBSET Link
    /\ Root \in Switch
    /\ LinkCost \in [Link -> Nat \ {0}]
    /\ MAX_PATH_WEIGHT \in Nat \ {0}
    /\ NoLink \notin Link

VARIABLES
    links,            \* the links inside the cluster (never changes)
    cost,             \* BroadcastTree.costs
    nexthoplinks,     \* BroadcastTree.links
    seen,
    nodeq,            \* the priority queue: a set of [node, dist]
    cdist, todo,      \* distance of the polled node, its links still to relax
    pc,               \* "dijkstra", then "tree" or, inside buildroute, "route"
    path,             \* buildroute: the links walked (two switch ports each)
    srcId             \* buildroute: where the walk is

treeVars == <<cost, nexthoplinks, seen, nodeq, cdist, todo>>
vars == <<links, treeVars, pc, path, srcId>>

Init ==
    /\ links \in Graphs
    /\ cost = [n \in Switch |-> IF n = Root THEN 0 ELSE MAX_PATH_WEIGHT]
    /\ nexthoplinks = [n \in Switch |-> NoLink]
    /\ seen = {}
    /\ nodeq = {[node |-> Root, dist |-> 0]}
    /\ cdist = 0
    /\ todo = {}
    /\ pc = "dijkstra"
    /\ path = <<>>
    /\ srcId = Root

(* Mutants: links outside the cluster are relaxed, too; only outgoing links are. *)
AllLinksOf(n) == {l \in Link : l.src = n \/ l.dst = n}
OutLinksOf(n) == {l \in links : l.src = n}

(* Cluster.addLink files a link under both of its ends. *)
LinksOf(n) == {l \in links : l.src = n \/ l.dst = n}

(* NodeDist.compareTo: e may be at the head of the queue. *)
IsHead(e) == e \in nodeq /\ \A f \in nodeq : f.dist <= e.dist

(* Mutant: peek instead of poll. *)
Peek(e) ==
    /\ pc = "dijkstra" /\ todo = {}
    /\ IsHead(e)
    /\ e.dist < MAX_PATH_WEIGHT
    /\ IF e.node \in seen
       THEN UNCHANGED <<seen, cdist, todo>>
       ELSE /\ seen' = seen \union {e.node}
            /\ cdist' = e.dist
            /\ todo' = LinksOf(e.node)
    /\ UNCHANGED <<links, cost, nexthoplinks, nodeq, pc, path, srcId>>

(* One poll of the queue; a node that was seen before is skipped. *)
Poll(e) ==
    /\ pc = "dijkstra" /\ todo = {}
    /\ IsHead(e)
    /\ e.dist < MAX_PATH_WEIGHT
    /\ nodeq' = nodeq \ {e}
    /\ IF e.node \in seen
       THEN UNCHANGED <<seen, cdist, todo>>
       ELSE /\ seen' = seen \union {e.node}
            /\ cdist' = e.dist
            /\ todo' = LinksOf(e.node)
    /\ UNCHANGED <<links, cost, nexthoplinks, pc, path, srcId>>

(* Does link l offer its source a shorter way through the polled node? *)
Improves(l) == cdist + LinkCost[l] < cost[l.src]

(* The body of the loop over the polled node's links (isDstRooted). *)
Relax(l) ==
    /\ pc = "dijkstra" /\ l \in todo
    /\ todo' = todo \ {l}
    /\ IF Improves(l)
       THEN LET ndist == cdist + LinkCost[l]
            IN  /\ cost' = [cost EXCEPT ![l.src] = ndist]
                /\ nexthoplinks' = [nexthoplinks EXCEPT ![l.src] = l]
                /\ nodeq' = nodeq \union {[node |-> l.src, dist |-> ndist]}
       ELSE UNCHANGED <<cost, nexthoplinks, nodeq>>
    /\ UNCHANGED <<links, seen, cdist, pc, path, srcId>>

(* The queue is empty, or its head is at an infinite distance: break. *)
FinishTree ==
    /\ pc = "dijkstra" /\ todo = {}
    /\ nodeq = {} \/ \E e \in nodeq : IsHead(e) /\ e.dist >= MAX_PATH_WEIGHT
    /\ pc' = "tree"
    /\ UNCHANGED <<links, treeVars, path, srcId>>

(* Mutant: the walk starts although the source has no next hop. *)
StartRouteBlindly(s) ==
    /\ pc = "tree"
    /\ pc' = "route"
    /\ path' = <<>>
    /\ srcId' = s
    /\ UNCHANGED <<links, treeVars>>

(* buildroute(s, Root) starts to walk when s has a next hop. *)
StartRoute(s) ==
    /\ pc = "tree"
    /\ nexthoplinks[s] # NoLink
    /\ pc' = "route"
    /\ path' = <<>>
    /\ srcId' = s
    /\ UNCHANGED <<links, treeVars>>

(* Mutant: the walk goes on from the near end of the link. *)
WalkHopNear ==
    /\ pc = "route" /\ srcId # Root
    /\ nexthoplinks[srcId] # NoLink
    /\ path' = Append(path, nexthoplinks[srcId])
    /\ srcId' = nexthoplinks[srcId].src
    /\ UNCHANGED <<links, treeVars, pc>>

(* One iteration of buildroute's loop. *)
WalkHop ==
    /\ pc = "route" /\ srcId # Root
    /\ nexthoplinks[srcId] # NoLink     \* the code dereferences it unchecked
    /\ path' = Append(path, nexthoplinks[srcId])
    /\ srcId' = nexthoplinks[srcId].dst
    /\ UNCHANGED <<links, treeVars, pc>>

EndRoute ==
    /\ pc = "route" /\ srcId = Root
    /\ pc' = "tree"
    /\ UNCHANGED <<links, treeVars, path, srcId>>

(* No request for a route need ever come. *)
NoRequest == pc = "tree" /\ UNCHANGED vars

Next ==
    \/ \E e \in nodeq : Poll(e)
    \/ \E l \in todo : Relax(l)
    \/ FinishTree
    \/ \E s \in Switch : StartRoute(s)
    \/ WalkHop
    \/ EndRoute
    \/ NoRequest

(* The computation runs in one thread: it goes on while it can. *)
Spec ==
    /\ Init /\ [][Next]_vars
    /\ WF_vars(\E e \in nodeq : Poll(e))
    /\ WF_vars(\E l \in todo : Relax(l))
    /\ WF_vars(FinishTree)
    /\ WF_vars(WalkHop)
    /\ WF_vars(EndRoute)
-----------------------------------------------------------------------------
Entry == [node : Switch, dist : Nat]

(* The types of the variables. *)
TypeOK ==
    /\ links \in Graphs
    /\ cost \in [Switch -> Nat]
    /\ nexthoplinks \in [Switch -> links \union {NoLink}]
    /\ seen \subseteq Switch
    /\ nodeq \subseteq Entry
    /\ cdist \in Nat
    /\ todo \subseteq links
    /\ pc \in {"dijkstra", "tree", "route"}
    /\ path \in Seq(links)
    /\ srcId \in Switch

(* While buildroute walks, every switch it stands on before the root has a   *)
(* next hop: the unchecked nexthoplinks.get(srcId).getDst() never meets null. *)
RouteNeverStuck ==
    pc = "route" /\ srcId # Root => nexthoplinks[srcId] # NoLink

(* A route visits no switch twice, however badly the queue is ordered and     *)
(* whatever the graph: buildroute's while loop, which has no other exit than   *)
(* reaching the root, cannot spin in a forwarding loop.                        *)
RouteLoopFree ==
    pc = "route" =>
        /\ \A i \in 1..Len(path) : path[i].src # srcId
        /\ \A i, j \in 1..Len(path) : i < j => path[i].src # path[j].src

(* Completeness of a finished tree: the set of switches with a route to the    *)
(* root is closed under links, so no switch with a neighbour that has a route  *)
(* is left without one, although `seen' nodes are never expanded again.        *)
TreeClosed ==
    pc # "dijkstra" =>
        \A l \in links : (l.dst = Root \/ nexthoplinks[l.dst] # NoLink)
                          => (l.src = Root \/ nexthoplinks[l.src] # NoLink)

(* Why routes are loop free.  A next hop is strictly nearer to the root than    *)
(* the switch that uses it, by the costs of the same moment: the polled         *)
(* distance may be stale, but only ever too large, because costs only fall.     *)
CostsDescend ==
    /\ cost[Root] = 0 /\ nexthoplinks[Root] = NoLink
    /\ \A n \in Switch : nexthoplinks[n] = NoLink => n = Root \/ cost[n] = MAX_PATH_WEIGHT
    /\ \A n \in Switch : nexthoplinks[n] # NoLink =>
          /\ nexthoplinks[n].src = n
          /\ cost[nexthoplinks[n].dst] < cost[n]
          /\ cost[n] < MAX_PATH_WEIGHT
    /\ \A e \in nodeq : cost[e.node] <= e.dist
    /\ \A l \in todo : cost[l.dst] <= cdist \/ cost[l.src] <= cdist

(* The walk goes downhill in cost. *)
WalkDescends ==
    pc = "route" =>
        /\ \A i \in 1..Len(path) : cost[path[i].src] > cost[srcId]
        /\ \A i, j \in 1..Len(path) : i < j => cost[path[i].src] > cost[path[j].src]

(* The inductive strengthening of RouteNeverStuck and RouteLoopFree. *)
RouteInv == TypeOK /\ CostsDescend /\ WalkDescends /\ RouteNeverStuck

(* Hop distance to Root over links, the reference for "shortest". *)
WithinHops(n) ==
    LET grow[k \in 0..n] ==
          IF k = 0 THEN {Root}
          ELSE grow[k - 1] \union {l.src : l \in {m \in links : m.dst \in grow[k - 1]}}
    IN  grow[n]

(* compute() says "Compute shortest path trees": a finished route between two   *)
(* switches is as short as any path between them (every link weighs 1 here).    *)
RouteIsShortest ==
    pc = "route" /\ srcId = Root =>
        path[1].src \notin WithinHops(Len(path) - 1)

(* dijkstra ends, and every walk that buildroute starts arrives: whatever was   *)
(* begun, in the end there is a tree, and nobody is on the way to its root.     *)
Arrives == []<>(pc = "tree" /\ srcId = Root)
=============================================================================
