-------------------------- MODULE OpenflowDomains --------------------------
(***************************************************************************)
(* TopologyInstance.identifyOpenflowDomains and dfsTraverse: the division  *)
(* of the switches of one topology instance into clusters ("openflow       *)
(* domains").                                                              *)
(*                                                                         *)
(* The Java recursion is an explicit stack of frames; one step is one      *)
(* iteration of the loop over a switch's links, or the tail of dfsTraverse *)
(* together with what the caller does with its result.  HashMap and        *)
(* HashSet iteration orders are arbitrary, so every order is a behaviour.  *)
(* The graph handed to the algorithm is `links': the links of the instance *)
(* that are neither blocked nor in a broadcast domain, one per direction.  *)
(***************************************************************************)
EXTENDS Naturals, FiniteSets, Sequences

CONSTANTS
    Switch,      \* datapath ids
    Link,        \* possible links: records with (at least) fields src and dst
    Graphs,      \* the sets of links an instance may be created with
    LONG_MAX     \* ClusterDFS's initial dfsIndex and lowpoint

VARIABLES
    links,             \* the graph (never changes)
    dfsIndex,          \* ClusterDFS.dfsIndex, LONG_MAX until visited
    parentIndex,       \* ClusterDFS.parentDFSIndex
    lowpoint,          \* ClusterDFS.lowpoint
    visited,           \* ClusterDFS.visited
    currIndex,         \* next DFS index
    stack,             \* activations of dfsTraverse, innermost last
    currSet,           \* the cluster in formation
    switchClusterMap   \* switch -> its cluster, {} for Java's null

vars == <<links, dfsIndex, parentIndex, lowpoint, visited, currIndex, stack,
          currSet, switchClusterMap>>

Top == stack[Len(stack)]
curr == Top.sw

Init ==
    /\ links \in Graphs
    /\ dfsIndex = [s \in Switch |-> LONG_MAX]
    /\ lowpoint = [s \in Switch |-> LONG_MAX]
    /\ parentIndex = [s \in Switch |-> LONG_MAX]
    /\ visited = {}
    /\ currIndex = 1
    /\ stack = <<>>
    /\ currSet = {}
    /\ switchClusterMap = [s \in Switch |-> {}]

(* The links dfsTraverse looks at for s: it skips the incoming ones. *)
OutLinks(s) == {l \in links : l.src = s /\ l.dst # s}

(* The entry of dfsTraverse(parent, index, s, ...). *)
Enter(s, parent, index, frames) ==
    /\ visited' = visited \union {s}
    /\ dfsIndex' = [dfsIndex EXCEPT ![s] = index]
    /\ parentIndex' = [parentIndex EXCEPT ![s] = parent]
    /\ currIndex' = index + 1
    /\ stack' = Append(frames, [sw |-> s, todo |-> OutLinks(s)])

(* The frames once the innermost one is done with link l. *)
Consume(l) == [stack EXCEPT ![Len(stack)].todo = @ \ {l}]

(* The loop of identifyOpenflowDomains calls dfsTraverse(0, 1, sw, ...). *)
StartTraverse(s) ==
    /\ stack = <<>>
    /\ s \notin visited
    /\ Enter(s, 0, 1, stack)
    /\ UNCHANGED <<links, lowpoint, currSet, switchClusterMap>>

(* The destination already is in a cluster, or was visited after curr. *)
IgnoreLink(l) ==
    /\ stack # <<>> /\ l \in Top.todo
    /\ \/ switchClusterMap[l.dst] # {}
       \/ l.dst \in visited /\ dfsIndex[l.dst] >= dfsIndex[curr]
    /\ stack' = Consume(l)
    /\ UNCHANGED <<links, dfsIndex, parentIndex, lowpoint, visited, currIndex,
                   currSet, switchClusterMap>>

(* A link back to a switch with a smaller index that is in no cluster yet. *)
BackLink(l) ==
    /\ stack # <<>> /\ l \in Top.todo
    /\ switchClusterMap[l.dst] = {}
    /\ dfsIndex[l.dst] < dfsIndex[curr]
    /\ lowpoint' = [lowpoint EXCEPT ![curr] =
                      IF dfsIndex[l.dst] < @ THEN dfsIndex[l.dst] ELSE @]
    /\ stack' = Consume(l)
    /\ UNCHANGED <<links, dfsIndex, parentIndex, visited, currIndex, currSet,
                   switchClusterMap>>

(* A link to a switch not visited yet: the recursive call. *)
TreeLink(l) ==
    /\ stack # <<>> /\ l \in Top.todo
    /\ switchClusterMap[l.dst] = {}
    /\ l.dst \notin visited
    /\ Enter(l.dst, dfsIndex[curr], currIndex, Consume(l))
    /\ UNCHANGED <<links, lowpoint, currSet, switchClusterMap>>

(* Mutant: off by one. *)
ClosesClusterEarly(s) == lowpoint[s] >= parentIndex[s]

(* The test of dfsTraverse that closes a cluster at switch s. *)
ClosesCluster(s) == lowpoint[s] > parentIndex[s]

(* Mutant: the current switch is not added. *)
WithoutCurr == currSet

(* currSet.add(currSw) ... *)
WithCurr == currSet \union {curr}

(* ... and the cluster made of it. *)
MapTo(S) == [s \in Switch |-> IF s \in S THEN S ELSE switchClusterMap[s]]

(* The tail of dfsTraverse, and the caller's update of its own lowpoint. *)
Return ==
    /\ stack # <<>>
    /\ Top.todo = {}
    /\ IF ClosesCluster(curr)
       THEN switchClusterMap' = MapTo(WithCurr) /\ currSet' = {}
       ELSE UNCHANGED switchClusterMap /\ currSet' = WithCurr
    /\ IF Len(stack) = 1
       THEN UNCHANGED lowpoint
       ELSE LET caller == stack[Len(stack) - 1].sw
            IN  lowpoint' = [lowpoint EXCEPT ![caller] =
                               IF lowpoint[curr] < @ THEN lowpoint[curr] ELSE @]
    /\ stack' = SubSeq(stack, 1, Len(stack) - 1)
    /\ UNCHANGED <<links, dfsIndex, parentIndex, visited, currIndex>>

Done ==
    /\ stack = <<>>
    /\ visited = Switch

(* compute() goes on to the routing trees (module TopologyInstance). *)
Finished == Done /\ UNCHANGED vars

Next ==
    \/ \E s \in Switch : StartTraverse(s)
    \/ \E l \in Link : IgnoreLink(l) \/ BackLink(l) \/ TreeLink(l)
    \/ Return
    \/ Finished

Spec == Init /\ [][Next]_vars /\ WF_vars(Next)
-----------------------------------------------------------------------------
(* The clusters partition the switches at every moment: a switch with a      *)
(* cluster is a member of it, and all its members agree on it, so no switch  *)
(* is claimed by two domains (switchClusterMap against Cluster.links).       *)
ClustersDisjoint ==
    \A s \in Switch : switchClusterMap[s] # {} =>
        /\ s \in switchClusterMap[s]
        /\ \A t \in switchClusterMap[s] : switchClusterMap[t] = switchClusterMap[s]

(* No switch falls out of the algorithm: a visited switch is on the call      *)
(* stack, in the cluster being formed, or in a cluster.  When the traversal   *)
(* of a root has returned nothing is left in currSet, so the clusters of one  *)
(* root never leak into those of the next (currSet is shared by all roots).   *)
VisitedIsPlaced ==
    /\ \A s \in visited :
          \/ \E i \in DOMAIN stack : stack[i].sw = s
          \/ s \in currSet
          \/ switchClusterMap[s] # {}
    /\ stack = <<>> => currSet = {}

(* Reference definition of the answer: mutual reachability over links.  What a  *)
(* switch reaches is in every set that contains it and that no link leads out of.*)
Closed(C) == \A l \in links : l.src \in C => l.dst \in C
Reach(s) == {t \in Switch : \A C \in SUBSET Switch : s \in C /\ Closed(C) => t \in C}
StronglyConnected(s) == {t \in Reach(s) : s \in Reach(t)}

(* Have all links been discovered in both directions? *)
Bidirectional == \A l \in links : [src |-> l.dst, dst |-> l.src] \in links

(* What the comment of identifyOpenflowDomains promises, as far as it is true:  *)
(* when the traversal ends and all links were known in both directions, the     *)
(* clusters are the strongly connected components.  (Over a one-way link a      *)
(* switch that cannot answer is swept into the cluster that is closed next.)    *)
ClustersAreComponents ==
    Done /\ Bidirectional => \A s \in Switch : switchClusterMap[s] = StronglyConnected(s)
=============================================================================
